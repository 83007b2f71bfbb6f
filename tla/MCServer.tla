------------------------------ MODULE MCServer ------------------------------
(***************************************************************************)
(* What the server does beside its subscriptions and its queue: tasks,     *)
(* notifications, devices that play, one user's listening, backups and the *)
(* setup of the database.  They share no key, row or file, so each         *)
(* behaviour moves one of them and leaves the others in their first state. *)
(***************************************************************************)
EXTENDS TaskBoard, Notices, NowPlaying, Listening, Backups, Migrations

VARIABLE moves   \* the part this behaviour moves

allVars == <<vars, noticeVars, deviceVars, listenVars, backupVars, setupVars, moves>>

MCInit ==
  /\ Init /\ NoticeInit /\ DeviceInit /\ ListenInit /\ BackupInit /\ SetupInit
  /\ moves \in {"tasks", "notices", "devices", "playback", "backups", "setup"}
  /\ moves # "tasks" => ~near /\ ticks = {} /\ faults = {}
  /\ moves # "playback" => auto = FALSE /\ glitches = {}
  /\ moves # "backups" => flaws = {}
  /\ moves # "setup" => upset = {} /\ database = "postgresql" /\ recorded = {}

MCNext ==
  /\ UNCHANGED moves
  /\ \/ moves = "tasks" /\ Next /\ UNCHANGED <<noticeVars, deviceVars, listenVars, backupVars, setupVars>>
     \/ moves = "notices" /\ NoticeNext /\ UNCHANGED <<vars, deviceVars, listenVars, backupVars, setupVars>>
     \/ moves = "devices" /\ DeviceNext /\ UNCHANGED <<vars, noticeVars, listenVars, backupVars, setupVars>>
     \/ moves = "playback" /\ ListenNext /\ UNCHANGED <<vars, noticeVars, deviceVars, backupVars, setupVars>>
     \/ moves = "backups" /\ BackupNext /\ UNCHANGED <<vars, noticeVars, deviceVars, listenVars, setupVars>>
     \/ moves = "setup" /\ SetupNext /\ UNCHANGED <<vars, noticeVars, deviceVars, listenVars, backupVars>>

\* No action with fairness is enabled in the first state of its part.
MCSpec == MCInit /\ [][MCNext]_allVars /\ Fairness /\ DeviceFairness /\ BackupFairness

TypeInvariant == TypeOK /\ NoticeTypeOK /\ DeviceTypeOK /\ ListenTypeOK /\ BackupTypeOK /\ SetupTypeOK
=============================================================================
