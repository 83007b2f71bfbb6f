------------------------------ MODULE NowPlaying ------------------------------
(***************************************************************************)
(* One device of one user in the list of what is playing where             *)
(* (handlers/nowplaying.rs, redis_client.rs): its sockets, its entry in    *)
(* the server's registry of sockets, its snapshot in Valkey, which lives   *)
(* for 45 seconds, and its membership of the user's index of devices.      *)
(* Devices do not interact, so one is enough.                              *)
(*                                                                         *)
(* A device that lost its connection opens another one while the server    *)
(* still has the old one; nothing tells the two apart but their order.     *)
(***************************************************************************)
CONSTANTS
  Sockets,   \* the connections the device opens
  NoSocket   \* no entry in the registry

ASSUME SocketAssumption == NoSocket \notin Sockets

VARIABLES
  entry,     \* NowPlayingManager.connections: the socket of the device
  socket,    \* where the handler of a socket is
  reader,    \* sockets whose reading task is alive
  report,    \* how far the reader is with saving a report
  snapshot,  \* is there a key nowplaying:{user}:{device}?
  member,    \* is the device in nowplaying:devices:{user}?
  look       \* how far a listing of the devices is with this one

deviceVars == <<entry, socket, reader, report, snapshot, member, look>>

DeviceTypeOK ==
  /\ entry \in Sockets \cup {NoSocket}
  /\ socket \in [Sockets -> {"none", "open", "unregister", "delete", "unlist", "closed"}]
  /\ reader \subseteq Sockets
  /\ report \in [Sockets -> {"none", "set", "index"}]
  /\ snapshot \in BOOLEAN /\ member \in BOOLEAN
  /\ look \in {"none", "get", "unlist"}

DeviceInit ==
  /\ entry = NoSocket
  /\ socket = [s \in Sockets |-> "none"]
  /\ reader = {}
  /\ report = [s \in Sockets |-> "none"]
  /\ snapshot = FALSE /\ member = FALSE
  /\ look = "none"

\* The new socket takes the entry over.
OpenSocket(s) ==
  /\ socket[s] = "none"
  /\ socket' = [socket EXCEPT ![s] = "open"]
  /\ entry' = s
  /\ reader' = reader \cup {s}
  /\ UNCHANGED <<report, snapshot, member, look>>

StartReport(s) ==
  /\ s \in reader /\ report[s] = "none"
  /\ report' = [report EXCEPT ![s] = "set"]
  /\ UNCHANGED <<entry, socket, reader, snapshot, member, look>>

SetSnapshot(s) ==
  /\ report[s] = "set"
  /\ snapshot' = TRUE
  /\ report' = [report EXCEPT ![s] = "index"]
  /\ UNCHANGED <<entry, socket, reader, member, look>>

\* Mutant: the index is only kept alive, as a heartbeat does.
OnlyTouch == member
Added == TRUE

AddMember(s) ==
  /\ report[s] = "index"
  /\ member' = Added
  /\ report' = [report EXCEPT ![s] = "none"]
  /\ UNCHANGED <<entry, socket, reader, snapshot, look>>

\* The reader ends, or sending to the device fails and the reader goes on until
\* it has read what had arrived.
EndSocket(s) ==
  /\ socket[s] = "open"
  /\ socket' = [socket EXCEPT ![s] = "unregister"]
  /\ reader' \in {reader} \cup (IF report[s] = "none" THEN {reader \ {s}} ELSE {})
  /\ UNCHANGED <<entry, report, snapshot, member, look>>

EndReader(s) ==
  /\ s \in reader /\ socket[s] # "open" /\ report[s] = "none"
  /\ reader' = reader \ {s}
  /\ UNCHANGED <<entry, socket, report, snapshot, member, look>>

\* The handler removes the entry of the device, whichever socket it names, then
\* the snapshot and the membership.
Unregister(s) ==
  /\ socket[s] = "unregister"
  /\ entry' = NoSocket
  /\ socket' = [socket EXCEPT ![s] = "delete"]
  /\ UNCHANGED <<reader, report, snapshot, member, look>>

DeleteSnapshot(s) ==
  /\ socket[s] = "delete"
  /\ snapshot' = FALSE
  /\ socket' = [socket EXCEPT ![s] = "unlist"]
  /\ UNCHANGED <<entry, reader, report, member, look>>

RemoveMember(s) ==
  /\ socket[s] = "unlist"
  /\ member' = FALSE
  /\ socket' = [socket EXCEPT ![s] = "closed"]
  /\ UNCHANGED <<entry, reader, report, snapshot, look>>

\* A listing prunes a device whose snapshot it did not find.
StartLook ==
  /\ look = "none" /\ member
  /\ look' = "get"
  /\ UNCHANGED <<entry, socket, reader, report, snapshot, member>>

LookAt ==
  /\ look = "get"
  /\ look' = IF snapshot THEN "none" ELSE "unlist"
  /\ UNCHANGED <<entry, socket, reader, report, snapshot, member>>

Prune ==
  /\ look = "unlist"
  /\ member' = FALSE
  /\ look' = "none"
  /\ UNCHANGED <<entry, socket, reader, report, snapshot>>

\* A device reports every 15 seconds, so its snapshot expires when it has stopped.
Reporting == {s \in reader : socket[s] = "open"}

MayExpire == Reporting = {}

ExpireSnapshot ==
  /\ snapshot /\ MayExpire
  /\ snapshot' = FALSE
  /\ UNCHANGED <<entry, socket, reader, report, member, look>>

\* The server is restarted: its sockets and registry are gone.
RestartServer ==
  /\ \E s \in Sockets : socket[s] \notin {"none", "closed"} \/ s \in reader
  /\ socket' = [s \in Sockets |-> IF socket[s] = "none" THEN "none" ELSE "closed"]
  /\ reader' = {} /\ entry' = NoSocket
  /\ report' = [s \in Sockets |-> "none"]
  /\ look' = "none"
  /\ UNCHANGED <<snapshot, member>>

HandlerStep(s) == Unregister(s) \/ DeleteSnapshot(s) \/ RemoveMember(s)
ReportStep(s) == StartReport(s) \/ SetSnapshot(s) \/ AddMember(s)

DeviceNext ==
  \/ \E s \in Sockets :
       OpenSocket(s) \/ EndSocket(s) \/ EndReader(s) \/ HandlerStep(s) \/ ReportStep(s)
  \/ StartLook \/ LookAt \/ Prune
  \/ ExpireSnapshot
  \/ RestartServer

DeviceSpec == DeviceInit /\ [][DeviceNext]_deviceVars

\* Tasks are polled and Valkey answers; a device with a connection goes on
\* reporting, a reader whose socket has failed runs out; time passes.
DeviceFairness ==
  /\ \A s \in Sockets : WF_deviceVars(HandlerStep(s)) /\ WF_deviceVars(ReportStep(s))
                        /\ SF_deviceVars(EndReader(s))
  /\ WF_deviceVars(LookAt \/ Prune)
  /\ WF_deviceVars(ExpireSnapshot)

-----------------------------------------------------------------------------
(* Properties                                                              *)

\* "stale members are pruned lazily on read" (redis_client.rs:210): pruning and
\* the end of an old connection race the reports of the new one, yet a device
\* that keeps its connection and reports ends up listed for good.
StaysListed ==
  \A s \in Sockets : <>[](s \in Reporting) => <>[](snapshot /\ member)
=============================================================================
