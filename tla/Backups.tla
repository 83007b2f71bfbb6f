------------------------------- MODULE Backups -------------------------------
(***************************************************************************)
(* Scheduled backups (services/scheduler.rs, database.rs): administrators  *)
(* set schedules, and a poll every minute makes one dump of the database   *)
(* for all that are due, notes for each when it ran, and prunes old dumps. *)
(* The files are shared by all schedules and ordered by the time they were *)
(* last written, a dump in progress among them.                            *)
(*                                                                         *)
(* The scheduler starts a poll though the last one may still run.  flaws   *)
(* names what else may happen in a behaviour.                              *)
(***************************************************************************)
EXTENDS Naturals, Sequences, FiniteSets

CONSTANTS
  Schedules,   \* one for each administrator
  Polls,       \* polls that may run at once
  NoPoll,      \* the writer of a finished file
  Crons,       \* the sets of minutes a schedule may name
  Counts,       \* the retention counts; 0 keeps all
  MaxMinute,   \* bound of the clock
  MaxChanges,  \* bound of the number of changes of a schedule
  MaxFlaws,    \* bound of the number of failures
  FlawSets     \* the sets of faults to consider

BackupFaults == {
  "slow",      \* a dump takes longer than a minute
  "fail",      \* a dump, or an update of last_run, fails
  "restart" }  \* the server is restarted

ASSUME BackupAssumption ==
  /\ IsFiniteSet(Schedules)
  /\ MaxMinute \in Nat \ {0} /\ MaxChanges \in Nat /\ MaxFlaws \in Nat
  /\ \A cron \in Crons : cron \subseteq 1..MaxMinute
  /\ Counts \subseteq Nat
  /\ NoPoll \notin Polls
  /\ \A set \in FlawSets : set \subseteq BackupFaults

VARIABLES
  row,      \* ScheduledBackups; a last_run of 0 stands for NULL
  poll,     \* the polls
  polled,   \* the minute of the last poll
  files,    \* scheduled_backup_*.sql, the one last written to last
  minute,   \* the clock
  changes,  \* changes of schedules so far
  flawed,   \* failures so far
  flaws     \* what else may go wrong

backupVars == <<row, poll, polled, files, minute, changes, flawed, flaws>>

Row == [on : BOOLEAN, cron : Crons \cup {{}}, keep : Counts \cup {0}, last : 0..MaxMinute]
NoRow == [on |-> FALSE, cron |-> {}, keep |-> 0, last |-> 0]

NoPolling == [pc |-> "idle", now |-> 0, new |-> {}, due |-> {}, left |-> {}, keep |-> 0]

BackupTypeOK ==
  /\ row \in [Schedules -> Row]
  /\ poll \in [Polls -> [pc : {"idle", "start", "dump", "prune"}, now : 0..MaxMinute,
                         new : SUBSET Schedules, due : SUBSET Schedules,
                         left : SUBSET Schedules, keep : Nat]]
  /\ polled \in 0..minute /\ minute \in 1..MaxMinute
  /\ files \in Seq([at : 1..MaxMinute, by : Polls \cup {NoPoll}, whole : BOOLEAN])
  /\ changes \in 0..MaxChanges /\ flawed \in 0..MaxFlaws /\ flaws \in FlawSets

BackupInit ==
  /\ row = [s \in Schedules |-> NoRow]
  /\ poll = [p \in Polls |-> NoPolling]
  /\ polled = 0 /\ files = <<>>
  /\ minute = 1 /\ changes = 0 /\ flawed = 0
  /\ flaws \in FlawSets

Flaw(fault) == fault \in flaws

Fails(fault) == Flaw(fault) /\ flawed < MaxFlaws /\ flawed' = flawed + 1

AllIdle == \A p \in Polls : poll[p].pc = "idle"

PassMinute ==
  /\ minute < MaxMinute
  /\ \A p \in Polls : poll[p].pc = "idle" \/ (Flaw("slow") /\ poll[p].pc = "dump")
  /\ minute' = minute + 1
  /\ UNCHANGED <<row, poll, polled, files, changes, flawed, flaws>>

\* When the schedule last ran stays what it was.
SetSchedule(s, on, cron, keep) ==
  /\ changes < MaxChanges
  /\ row' = [row EXCEPT ![s] = [on |-> on, cron |-> cron, keep |-> keep, last |-> @.last]]
  /\ row' # row
  /\ changes' = changes + 1
  /\ UNCHANGED <<poll, polled, files, minute, flawed, flaws>>

-----------------------------------------------------------------------------
(* A poll                                                                  *)

Enabled == {s \in Schedules : row[s].on}

\* Mutant: a schedule is due at the minute it names, and not later.
OnTheMinute(s) == row[s].last \in 1..minute - 1 /\ minute \in row[s].cron

\* A time of the schedule that has come since it last ran; "so we never fire a
\* backlog", one that never ran is given a baseline first.
Due(s) == row[s].last # 0 /\ \E t \in row[s].cron : row[s].last < t /\ t <= minute

\* "the largest configured count among due schedules".
Largest(S) == IF S = {} THEN 0 ELSE CHOOSE n \in S : \A k \in S : k <= n

\* The last minute of the bounded clock stands for all that follow.
StartPoll(p) ==
  /\ poll[p].pc = "idle"
  /\ polled # minute \/ (minute = MaxMinute /\ AllIdle)
  /\ polled' = minute
  /\ LET new == {s \in Enabled : row[s].last = 0}
         due == {s \in Enabled : Due(s)}
     IN poll' = IF new \cup due = {} THEN poll
                ELSE [poll EXCEPT ![p] =
                       [pc |-> "start", now |-> minute, new |-> new, due |-> due, left |-> due,
                        keep |-> Largest({row[s].keep : s \in due} \ {0})]]
  /\ UNCHANGED <<row, files, minute, changes, flawed, flaws>>

Ran(s, p) == row' = [row EXCEPT ![s].last = poll[p].now]

SetBaseline(p, s) ==
  /\ poll[p].pc = "start" /\ s \in poll[p].new
  /\ poll' = [poll EXCEPT ![p].new = @ \ {s}]
  /\ \/ Ran(s, p) /\ UNCHANGED flawed
     \/ Fails("fail") /\ UNCHANGED row
  /\ UNCHANGED <<polled, files, minute, changes, flaws>>

NothingDue(p) ==
  /\ poll[p].pc = "start" /\ poll[p].new = {} /\ poll[p].due = {}
  /\ poll' = [poll EXCEPT ![p] = NoPolling]
  /\ UNCHANGED <<row, polled, files, minute, changes, flawed, flaws>>

StartDump(p) ==
  /\ poll[p].pc = "start" /\ poll[p].new = {} /\ poll[p].due # {}
  /\ poll' = [poll EXCEPT ![p].pc = "dump"]
  /\ files' = Append(files, [at |-> poll[p].now, by |-> p, whole |-> FALSE])
  /\ UNCHANGED <<row, polled, minute, changes, flawed, flaws>>

\* The file that p writes, unless another poll has pruned it.
Written(p) == {k \in DOMAIN files : files[k].by = p}

\* A file that is written to becomes the latest.
Touch(k, file) ==
  files' = SubSeq(files, 1, k - 1) \o SubSeq(files, k + 1, Len(files)) \o <<file>>

Closed(p) == [i \in DOMAIN files |-> IF files[i].by = p THEN [files[i] EXCEPT !.by = NoPoll] ELSE files[i]]

WriteDump(p) ==
  /\ poll[p].pc = "dump"
  /\ \E k \in Written(p) \ {Len(files)} : Touch(k, files[k])
  /\ UNCHANGED <<row, poll, polled, minute, changes, flawed, flaws>>

\* It is complete, if its file has not been removed meanwhile.
EndDump(p) ==
  /\ poll[p].pc = "dump"
  /\ \/ Written(p) = {} /\ UNCHANGED files
     \/ \E k \in Written(p) : Touch(k, [files[k] EXCEPT !.by = NoPoll, !.whole = TRUE])
  /\ poll' = [poll EXCEPT ![p].pc = "prune"]
  /\ UNCHANGED <<row, polled, minute, changes, flawed, flaws>>

\* What has been written stays; the schedules stay due.
FailDump(p) ==
  /\ poll[p].pc = "dump"
  /\ Fails("fail")
  /\ files' = Closed(p)
  /\ poll' = [poll EXCEPT ![p] = NoPolling]
  /\ UNCHANGED <<row, polled, minute, changes, flaws>>

NoteRun(p, s) ==
  /\ poll[p].pc = "prune" /\ s \in poll[p].left
  /\ poll' = [poll EXCEPT ![p].left = @ \ {s}]
  /\ \/ Ran(s, p) /\ UNCHANGED flawed
     \/ Fails("fail") /\ UNCHANGED row
  /\ UNCHANGED <<polled, files, minute, changes, flaws>>

\* "Newest first; remove everything past the retention count".
Pruned(count) ==
  IF count = 0 \/ Len(files) <= count THEN files
  ELSE SubSeq(files, Len(files) - count + 1, Len(files))

PruneDumps(p) ==
  /\ poll[p].pc = "prune" /\ poll[p].left = {}
  /\ files' = Pruned(poll[p].keep)
  /\ poll' = [poll EXCEPT ![p] = NoPolling]
  /\ UNCHANGED <<row, polled, minute, changes, flawed, flaws>>

RestartScheduler ==
  /\ ~AllIdle
  /\ Fails("restart")
  /\ files' = [i \in DOMAIN files |-> [files[i] EXCEPT !.by = NoPoll]]
  /\ poll' = [p \in Polls |-> NoPolling]
  /\ UNCHANGED <<row, polled, minute, changes, flaws>>

PollStep(p) ==
  \/ \E s \in Schedules : SetBaseline(p, s) \/ NoteRun(p, s)
  \/ NothingDue(p) \/ StartDump(p) \/ EndDump(p) \/ FailDump(p) \/ PruneDumps(p)

BackupNext ==
  \/ PassMinute
  \/ \E s \in Schedules, on \in BOOLEAN, cron \in Crons, keep \in Counts : SetSchedule(s, on, cron, keep)
  \/ \E p \in Polls : StartPoll(p) \/ PollStep(p) \/ WriteDump(p)
  \/ RestartScheduler

BackupSpec == BackupInit /\ [][BackupNext]_backupVars

\* Time passes, polls are started and go on, at least while a schedule is enabled;
\* failures are not for ever.
BackupFairness ==
  /\ WF_backupVars(Enabled # {} /\ PassMinute)
  /\ WF_backupVars(Enabled # {} /\ \E p \in Polls : StartPoll(p))
  /\ \A p \in Polls : WF_backupVars(PollStep(p))

-----------------------------------------------------------------------------
(* Properties                                                              *)

\* "so it survives restarts" (scheduler.rs:73): a time of an enabled schedule that
\* has run, or has a baseline, is followed by a complete dump made since then,
\* whatever fails or is restarted; one that ended without its file is not noted.
\* That does not hold when dumps overlap: one that ends prunes the file of another.
Owed(s, t) == s \in Enabled /\ t \in row[s].cron /\ row[s].last \in 1..t - 1 /\ t <= minute
Made(t) == \E i \in DOMAIN files : files[i].whole /\ files[i].at >= t

BackedUp ==
  \A s \in Schedules, t \in UNION Crons :
    Owed(s, t) /\ ~Flaw("slow") ~> Made(t) \/ s \notin Enabled \/ t \notin row[s].cron
=============================================================================
