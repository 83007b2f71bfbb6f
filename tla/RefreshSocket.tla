---------------------------- MODULE RefreshSocket ----------------------------
(***************************************************************************)
(* The refresh websocket of one user (handlers/refresh.rs).  A connection  *)
(* is refused while the user's entry is in USER_LOCKS; otherwise its       *)
(* handler adds the entry, spawns three tasks (the refresh job, the task   *)
(* that drains the job's channel into the socket, the task that listens    *)
(* for the client's close), waits for the first of them to end and cleans  *)
(* up.  Tasks that are still running then are detached, not stopped.       *)
(* Entries of other users do not interact, so one user is enough.          *)
(*                                                                         *)
(* The client is the web application: it reads until it has seen the       *)
(* "Refresh completed:" message or the socket is closed, and may go away   *)
(* before.  The message of a failed job it only logs, and reads on.        *)
(***************************************************************************)
EXTENDS Naturals, Sequences

CONSTANTS
  Conns,     \* the connections the user opens
  Steps,     \* progress and episode messages of one job, before the last one
  Cap,       \* capacity of a job's channel (100 in the code)
  Overlap,   \* may two connections be between the check and the lock at once?
  Leaves,    \* may a client go away of itself?
  NoConn     \* no entry in USER_LOCKS

ASSUME SocketAssumption ==
  /\ Steps \in Nat
  /\ Cap \in Nat \ {0}
  /\ Overlap \in BOOLEAN /\ Leaves \in BOOLEAN
  /\ NoConn \notin Conns

VARIABLES
  lock,      \* USER_LOCKS: the connection whose handler added the entry
  active,    \* ACTIVE_WEBSOCKETS: the connections whose sender is kept there
  pc,        \* where the handler of a connection is
  job,       \* its refresh task: "none", "running", "done"
  left,      \* messages the job has still to send before its last one
  chan,      \* its channel
  sender,    \* the task draining the channel: "none", "alive", "ended"
  client,    \* the browser: "off", "open", "closed"
  told       \* the outcome that has reached the browser, or "nothing"

vars == <<lock, active, pc, job, left, chan, sender, client, told>>
handler == <<lock, active, pc>>

Handlers == {"off", "check", "passed", "locked", "serving", "unlocked", "over"}
Outcomes == {"completed", "error"}
Messages == Outcomes \cup {"progress"}

TypeOK ==
  /\ lock \in Conns \cup {NoConn}
  /\ active \subseteq Conns
  /\ pc \in [Conns -> Handlers]
  /\ job \in [Conns -> {"none", "running", "done"}]
  /\ left \in [Conns -> 0..Steps]
  /\ chan \in [Conns -> Seq(Messages)]
  /\ \A c \in Conns : Len(chan[c]) <= Cap
  /\ sender \in [Conns -> {"none", "alive", "ended"}]
  /\ client \in [Conns -> {"off", "open", "closed"}]
  /\ told \in [Conns -> Outcomes \cup {"nothing", "refused"}]

Init ==
  /\ lock = NoConn
  /\ active = {}
  /\ pc = [c \in Conns |-> "off"]
  /\ job = [c \in Conns |-> "none"]
  /\ left = [c \in Conns |-> Steps]
  /\ chan = [c \in Conns |-> <<>>]
  /\ sender = [c \in Conns |-> "none"]
  /\ client = [c \in Conns |-> "off"]
  /\ told = [c \in Conns |-> "nothing"]

-----------------------------------------------------------------------------
(* The handler                                                             *)

\* Handlers that have not yet started their tasks.
Arriving == {c \in Conns : pc[c] \in {"check", "passed", "locked"}}

Connect(c) ==
  /\ client[c] = "off"
  /\ Overlap \/ Arriving = {}
  /\ client' = [client EXCEPT ![c] = "open"]
  /\ pc' = [pc EXCEPT ![c] = "check"]
  /\ UNCHANGED <<lock, active, job, left, chan, sender, told>>

\* Mutant: the entry is not looked up.
PassAlways(c) ==
  /\ pc[c] = "check"
  /\ pc' = [pc EXCEPT ![c] = "passed"]
  /\ UNCHANGED <<lock, active, job, left, chan, sender, client, told>>

\* The entry is looked up under the read lock, which is released before ...
Refuse(c) ==
  /\ pc[c] = "check" /\ lock # NoConn
  /\ pc' = [pc EXCEPT ![c] = "over"]
  /\ client' = [client EXCEPT ![c] = "closed"]
  /\ told' = [told EXCEPT ![c] = IF client[c] = "open" THEN "refused" ELSE @]
  /\ UNCHANGED <<lock, active, job, left, chan, sender>>

Pass(c) ==
  /\ pc[c] = "check" /\ lock = NoConn
  /\ pc' = [pc EXCEPT ![c] = "passed"]
  /\ UNCHANGED <<lock, active, job, left, chan, sender, client, told>>

\* ... the entry is added under the write lock, over one that may be there.
\* Its mutex is new, so taking it does not wait.
Lock(c) ==
  /\ pc[c] = "passed"
  /\ lock' = c
  /\ pc' = [pc EXCEPT ![c] = "locked"]
  /\ UNCHANGED <<active, job, left, chan, sender, client, told>>

\* A copy of the channel's sender goes to ACTIVE_WEBSOCKETS; the tasks start.
Start(c) ==
  /\ pc[c] = "locked"
  /\ active' = active \cup {c}
  /\ pc' = [pc EXCEPT ![c] = "serving"]
  /\ job' = [job EXCEPT ![c] = "running"]
  /\ sender' = [sender EXCEPT ![c] = "alive"]
  /\ UNCHANGED <<lock, left, chan, client, told>>

\* Mutant: a handler whose job goes on leaves the entry in place.
UnlockIfDone(c) ==
  /\ pc[c] = "serving"
  /\ job[c] = "done" \/ sender[c] = "ended" \/ client[c] = "closed"
  /\ lock' = IF job[c] = "done" THEN NoConn ELSE lock
  /\ pc' = [pc EXCEPT ![c] = "unlocked"]
  /\ UNCHANGED <<active, job, left, chan, sender, client, told>>

\* select!: one of the three tasks has ended.  The listening task ends with
\* the client's connection.
Unlock(c) ==
  /\ pc[c] = "serving"
  /\ job[c] = "done" \/ sender[c] = "ended" \/ client[c] = "closed"
  /\ lock' = NoConn
  /\ pc' = [pc EXCEPT ![c] = "unlocked"]
  /\ UNCHANGED <<active, job, left, chan, sender, client, told>>

\* Senders are dropped from ACTIVE_WEBSOCKETS when their channel is closed,
\* that is when its receiver is gone with the draining task.
Unregister(c) ==
  /\ pc[c] = "unlocked"
  /\ active' = {d \in active : sender[d] # "ended"}
  /\ pc' = [pc EXCEPT ![c] = "over"]
  /\ UNCHANGED <<lock, job, left, chan, sender, client, told>>

-----------------------------------------------------------------------------
(* The tasks                                                               *)

\* Mutant: the channel takes one message more than its capacity.
SendsOver(c, m) ==
  /\ sender[c] = "ended" \/ Len(chan[c]) <= Cap
  /\ chan' = [chan EXCEPT ![c] = IF sender[c] = "ended" THEN @ ELSE Append(@, m)]

\* A send waits for room; on a channel without receiver it fails at once and
\* the job goes on.
Sends(c, m) ==
  /\ sender[c] = "ended" \/ Len(chan[c]) < Cap
  /\ chan' = [chan EXCEPT ![c] = IF sender[c] = "ended" THEN @ ELSE Append(@, m)]

Progress(c) ==
  /\ job[c] = "running" /\ left[c] > 0
  /\ Sends(c, "progress")
  /\ left' = [left EXCEPT ![c] = @ - 1]
  /\ UNCHANGED <<handler, job, sender, client, told>>

Complete(c) ==
  /\ job[c] = "running" /\ left[c] = 0
  /\ Sends(c, "completed")
  /\ job' = [job EXCEPT ![c] = "done"]
  /\ UNCHANGED <<handler, left, sender, client, told>>

\* Mutant: the error of a failed job is dropped with its sender.
FailSilently(c) ==
  /\ job[c] = "running" /\ left[c] > 0
  /\ job' = [job EXCEPT ![c] = "done"]
  /\ UNCHANGED <<handler, left, chan, sender, client, told>>

\* A failing statement before the podcasts are fetched ends the job.
Fail(c) ==
  /\ job[c] = "running" /\ left[c] > 0
  /\ Sends(c, "error")
  /\ job' = [job EXCEPT ![c] = "done"]
  /\ UNCHANGED <<handler, left, sender, client, told>>

\* A message reaches the browser, which hangs up once it reads completion; an
\* error it logs, and goes on reading.
Deliver(c) ==
  /\ sender[c] = "alive" /\ client[c] = "open" /\ chan[c] # <<>>
  /\ chan' = [chan EXCEPT ![c] = Tail(@)]
  /\ told' = [told EXCEPT ![c] = IF Head(chan[c]) \in Outcomes THEN Head(chan[c]) ELSE @]
  /\ client' = [client EXCEPT ![c] = IF Head(chan[c]) = "completed" THEN "closed" ELSE @]
  /\ UNCHANGED <<handler, job, left, sender>>

\* The channel is closed when nobody holds a sender of it any more: not the
\* handler, not the job, not ACTIVE_WEBSOCKETS.
ChannelClosed(c) == pc[c] = "over" /\ job[c] = "done" /\ c \notin active

\* Mutant: a failed send to the socket does not end the draining task.
DrainedNever(c) == chan[c] = <<>> /\ ChannelClosed(c)

\* The draining task ends when a send to the socket fails, or when the channel
\* is empty and closed; it closes the socket, and the receiver goes with it.
Drained(c) == IF chan[c] = <<>> THEN ChannelClosed(c) ELSE client[c] = "closed"

SendEnds(c) ==
  /\ sender[c] = "alive" /\ Drained(c)
  /\ sender' = [sender EXCEPT ![c] = "ended"]
  /\ client' = [client EXCEPT ![c] = "closed"]
  /\ chan' = [chan EXCEPT ![c] = <<>>]
  /\ UNCHANGED <<handler, job, left, told>>

\* The user closes the page, or the network does.
Leave(c) ==
  /\ Leaves /\ client[c] = "open"
  /\ client' = [client EXCEPT ![c] = "closed"]
  /\ UNCHANGED <<handler, job, left, chan, sender, told>>

JobStep(c) == Progress(c) \/ Complete(c) \/ Fail(c)

HandlerStep(c) ==
  Refuse(c) \/ Pass(c) \/ Lock(c) \/ Start(c) \/ Unlock(c) \/ Unregister(c)

Next ==
  \E c \in Conns :
    \/ Connect(c) \/ HandlerStep(c) \/ JobStep(c)
    \/ Deliver(c) \/ SendEnds(c) \/ Leave(c)

Spec == Init /\ [][Next]_vars

\* The runtime polls every task that can go on, and a browser that has not
\* left reads what is sent to it.
Fairness ==
  \A c \in Conns :
    /\ WF_vars(HandlerStep(c)) /\ WF_vars(JobStep(c))
    /\ WF_vars(Deliver(c)) /\ WF_vars(SendEnds(c))

FairSpec == Spec /\ Fairness

-----------------------------------------------------------------------------
(* Properties                                                              *)

\* The user's locks exist "to prevent concurrent refresh jobs" (refresh.rs:51):
\* the user never has two refresh jobs running.
OneJob == \A c, d \in Conns : job[c] = "running" /\ job[d] = "running" => c = d

\* A job ends even when nobody reads its messages any more: a full channel
\* whose client is gone does not hold it up.
JobEnds == \A c \in Conns : job[c] = "running" ~> job[c] = "done"

\* The user's entry never stays in USER_LOCKS: after any mix of refreshes that
\* overlap, fail and are abandoned, a new connection is let in.
LockFreed == lock # NoConn ~> lock = NoConn

\* The user's entry belongs to a handler that is waiting for its tasks: no
\* overlap of connections and no browser that leaves makes an entry outlive the
\* handler that added it and shut the user out.
EntryServed == lock # NoConn => pc[lock] \in {"locked", "serving"}

\* Of two refresh jobs of the user that run at once, one is of a browser that
\* has left.
Excludes ==
  \A c, d \in Conns :
    c # d /\ job[c] = "running" /\ job[d] = "running" => "closed" \in {client[c], client[d]}

\* No two handlers are between look-up and entry at once.
OneArriving == \A c, d \in Arriving : c = d

\* What the entry does guarantee ("Check if refresh is already running for this
\* user", refresh.rs:610): as long as each connection is past its look-up before
\* the next one comes, only jobs left behind run beside another one.
OnlyLeftBehind == []OneArriving => []Excludes

\* The outcome of a job reaches a browser that stays, the completion as well as
\* the error, although its handler has returned by then and the task that drains
\* the channel is detached.  What the browser makes of it is ClientReleased.
OutcomeDelivered ==
  \A c \in Conns :
    job[c] = "done" /\ client[c] = "open" ~> told[c] \in Outcomes \/ client[c] = "closed"

\* "When the channel is closed (refresh complete), close the websocket"
\* (refresh.rs:647; 675 and 685 say it again): a browser is let go, by the
\* completion, on which it hangs up, or by the close of its socket.
ClientReleased == \A c \in Conns : client[c] = "open" ~> client[c] = "closed"

=============================================================================
