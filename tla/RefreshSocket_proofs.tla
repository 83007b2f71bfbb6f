------------------------- MODULE RefreshSocket_proofs -------------------------
(***************************************************************************)
(* What holds of the refresh websocket for any number of connections, any  *)
(* number of messages and any channel capacity.                            *)
(***************************************************************************)
EXTENDS RefreshSocket, TLAPS

-----------------------------------------------------------------------------
(* Types                                                                   *)

\* A send leaves a channel of messages within its capacity.
LEMMA SendsType ==
  ASSUME TypeOK, NEW c \in Conns, NEW m \in Messages, Sends(c, m)
  PROVE  /\ chan' \in [Conns -> Seq(Messages)]
         /\ \A d \in Conns : Len(chan'[d]) <= Cap
<1>1. chan \in [Conns -> Seq(Messages)] /\ \A d \in Conns : Len(chan[d]) <= Cap
  BY DEF TypeOK
<1>2. Cap \in Nat
  BY SocketAssumption
<1>3. CASE sender[c] = "ended"
  BY <1>1, <1>3 DEF Sends
<1>4. CASE sender[c] # "ended"
  <2>1. Len(chan[c]) < Cap /\ chan' = [chan EXCEPT ![c] = Append(@, m)]
    BY <1>4 DEF Sends
  <2>2. Append(chan[c], m) \in Seq(Messages) /\ Len(Append(chan[c], m)) = Len(chan[c]) + 1
    BY <1>1
  <2>3. Len(chan[c]) \in Nat
    BY <1>1
  <2> QED
    BY <1>1, <1>2, <2>1, <2>2, <2>3
<1> QED
  BY <1>3, <1>4

\* Reading the first message, or dropping them all, leaves such a channel too.
LEMMA ShorterType ==
  ASSUME TypeOK, NEW c \in Conns, NEW s \in {<<>>, Tail(chan[c])},
         s = <<>> \/ chan[c] # <<>>, chan' = [chan EXCEPT ![c] = s]
  PROVE  /\ chan' \in [Conns -> Seq(Messages)]
         /\ \A d \in Conns : Len(chan'[d]) <= Cap
<1>1. chan \in [Conns -> Seq(Messages)] /\ \A d \in Conns : Len(chan[d]) <= Cap
  BY DEF TypeOK
<1>2. Cap \in Nat
  BY SocketAssumption
<1>3. s \in Seq(Messages) /\ Len(s) <= Cap
  <2>1. CASE s = <<>>
    BY <1>2, <2>1
  <2>2. CASE s # <<>>
    <3>1. s = Tail(chan[c]) /\ chan[c] # <<>> /\ chan[c] \in Seq(Messages)
      BY <1>1, <2>2
    <3>2. s \in Seq(Messages) /\ Len(s) = Len(chan[c]) - 1 /\ Len(chan[c]) \in Nat
      BY <3>1
    <3> QED
      BY <1>1, <1>2, <3>2
  <2> QED
    BY <2>1, <2>2
<1> QED
  BY <1>1, <1>3

\* Every step keeps the types.
LEMMA TypeStep == TypeOK /\ [Next]_vars => TypeOK'
<1> SUFFICES ASSUME TypeOK, [Next]_vars PROVE TypeOK'
  OBVIOUS
<1>1. CASE UNCHANGED vars
  BY <1>1 DEF TypeOK, vars
<1>2. ASSUME NEW c \in Conns, Connect(c) PROVE TypeOK'
  BY <1>2 DEF TypeOK, Connect, Handlers
<1>3. ASSUME NEW c \in Conns, HandlerStep(c) PROVE TypeOK'
  <2>1. UNCHANGED <<left, chan>> /\ \A d \in Conns : Len(chan'[d]) <= Cap
    BY <1>3 DEF TypeOK, HandlerStep, Refuse, Pass, Lock, Start, Unlock, Unregister
  <2>2. lock' \in Conns \cup {NoConn} /\ active' \subseteq Conns
    BY <1>3 DEF TypeOK, HandlerStep, Refuse, Pass, Lock, Start, Unlock, Unregister
  <2>3. pc' \in [Conns -> Handlers]
    <3>1. PICK h \in Handlers : pc' = [pc EXCEPT ![c] = h]
      BY <1>3 DEF Handlers, HandlerStep, Refuse, Pass, Lock, Start, Unlock, Unregister
    <3> QED
      BY <3>1 DEF TypeOK
  <2>4. /\ job' \in [Conns -> {"none", "running", "done"}]
        /\ sender' \in [Conns -> {"none", "alive", "ended"}]
    BY <1>3 DEF TypeOK, HandlerStep, Refuse, Pass, Lock, Start, Unlock, Unregister
  <2>5. /\ client' \in [Conns -> {"off", "open", "closed"}]
        /\ told' \in [Conns -> Outcomes \cup {"nothing", "refused"}]
    BY <1>3 DEF TypeOK, HandlerStep, Refuse, Pass, Lock, Start, Unlock, Unregister
  <2> QED
    BY <2>1, <2>2, <2>3, <2>4, <2>5 DEF TypeOK
<1>4. ASSUME NEW c \in Conns, JobStep(c) PROVE TypeOK'
  <2>1. PICK m \in Messages : Sends(c, m)
    BY <1>4 DEF JobStep, Progress, Complete, Fail, Messages, Outcomes
  <2>2. /\ chan' \in [Conns -> Seq(Messages)]
        /\ \A d \in Conns : Len(chan'[d]) <= Cap
    BY <2>1, SendsType
  <2>3. left' \in [Conns -> 0..Steps]
    <3>1. left \in [Conns -> 0..Steps] /\ Steps \in Nat
      BY SocketAssumption DEF TypeOK
    <3>2. CASE Progress(c)
      <4>1. left[c] > 0 /\ left' = [left EXCEPT ![c] = left[c] - 1]
        BY <3>2 DEF Progress
      <4>2. left[c] - 1 \in 0..Steps
        BY <3>1, <4>1
      <4> QED
        BY <3>1, <4>1, <4>2
    <3>3. CASE Complete(c) \/ Fail(c)
      BY <3>1, <3>3 DEF Complete, Fail
    <3> QED
      BY <1>4, <3>2, <3>3 DEF JobStep
  <2>4. /\ UNCHANGED <<handler, sender, client, told>>
        /\ job' \in [Conns -> {"none", "running", "done"}]
    BY <1>4 DEF TypeOK, JobStep, Progress, Complete, Fail
  <2> QED
    BY <2>2, <2>3, <2>4 DEF TypeOK, handler
<1>5. ASSUME NEW c \in Conns, Deliver(c) PROVE TypeOK'
  <2>1. chan[c] # <<>> /\ chan' = [chan EXCEPT ![c] = Tail(chan[c])]
    BY <1>5 DEF Deliver
  <2>2. /\ chan' \in [Conns -> Seq(Messages)]
        /\ \A d \in Conns : Len(chan'[d]) <= Cap
    BY <2>1, ShorterType
  <2>3. /\ client' \in [Conns -> {"off", "open", "closed"}]
        /\ told' \in [Conns -> Outcomes \cup {"nothing", "refused"}]
    BY <1>5 DEF TypeOK, Deliver
  <2> QED
    BY <1>5, <2>2, <2>3 DEF TypeOK, Deliver, handler
<1>6. ASSUME NEW c \in Conns, SendEnds(c) PROVE TypeOK'
  <2>1. chan' = [chan EXCEPT ![c] = <<>>]
    BY <1>6 DEF SendEnds
  <2>2. /\ chan' \in [Conns -> Seq(Messages)]
        /\ \A d \in Conns : Len(chan'[d]) <= Cap
    BY <2>1, ShorterType
  <2> QED
    BY <1>6, <2>2 DEF TypeOK, SendEnds, handler
<1>7. ASSUME NEW c \in Conns, Leave(c) PROVE TypeOK'
  BY <1>7 DEF TypeOK, Leave, handler
<1> QED
  BY <1>1, <1>2, <1>3, <1>4, <1>5, <1>6, <1>7 DEF Next

LEMMA TypeInit == Init => TypeOK
<1> SUFFICES ASSUME Init PROVE TypeOK
  OBVIOUS
<1>1. ASSUME NEW c \in Conns PROVE Len(chan[c]) <= Cap
  <2>1. chan[c] = <<>>
    BY DEF Init
  <2>2. Len(chan[c]) = 0
    BY <2>1
  <2> QED
    BY <2>2, SocketAssumption
<1> QED
  BY <1>1, SocketAssumption DEF Init, TypeOK, Handlers

\* The variables of the refresh websocket keep their types; in particular a
\* job's channel never holds more than its capacity (refresh.rs:631).
THEOREM TypeCorrect == Spec => []TypeOK
<1> QED
  BY TypeInit, TypeStep, PTL DEF Spec

-----------------------------------------------------------------------------
(* The user's entry                                                        *)

\* A handler starts with its connection.
NotYet == \A c \in Conns : client[c] = "off" => pc[c] = "off"

\* Only a handler moves the entry: it makes it its own while it comes to wait
\* for its tasks, and takes away whatever is there as it stops.
LEMMA EntryStep ==
  TypeOK /\ NotYet /\ EntryServed /\ [Next]_vars => NotYet' /\ EntryServed'
<1> SUFFICES ASSUME TypeOK, NotYet, EntryServed, [Next]_vars PROVE NotYet' /\ EntryServed'
  OBVIOUS
<1> USE DEF NotYet, EntryServed
<1>1. CASE UNCHANGED vars
  BY <1>1 DEF vars
<1>2. ASSUME NEW c \in Conns, Connect(c) PROVE NotYet' /\ EntryServed'
  BY <1>2 DEF TypeOK, Connect
<1>3. ASSUME NEW c \in Conns, Refuse(c) \/ Pass(c) PROVE NotYet' /\ EntryServed'
  <2>1. pc[c] = "check" /\ lock' = lock
    BY <1>3 DEF Refuse, Pass
  <2>2. /\ \A d \in Conns : d # c => pc'[d] = pc[d] /\ client'[d] = client[d]
        /\ client'[c] # "off"
    BY <1>3 DEF TypeOK, Refuse, Pass
  <2> QED
    BY <2>1, <2>2 DEF TypeOK
<1>4. ASSUME NEW c \in Conns, Lock(c) \/ Start(c) PROVE NotYet' /\ EntryServed'
  BY <1>4 DEF TypeOK, Lock, Start
<1>5. ASSUME NEW c \in Conns, Unlock(c) \/ Unregister(c) PROVE NotYet' /\ EntryServed'
  BY <1>5 DEF TypeOK, Unlock, Unregister
<1>6. ASSUME NEW c \in Conns, JobStep(c) PROVE NotYet' /\ EntryServed'
  BY <1>6 DEF JobStep, Progress, Complete, Fail, handler
<1>7. ASSUME NEW c \in Conns, Deliver(c) \/ SendEnds(c) \/ Leave(c)
      PROVE  NotYet' /\ EntryServed'
  BY <1>7 DEF TypeOK, Deliver, SendEnds, Leave, handler
<1> QED
  BY <1>1, <1>2, <1>3, <1>4, <1>5, <1>6, <1>7 DEF Next, HandlerStep

\* However connections overlap, fail and are abandoned, an entry in USER_LOCKS
\* belongs to a handler that is still waiting for its tasks (refresh.rs:620-693):
\* no entry is left behind to shut its user out.
THEOREM EntryNeverLeftBehind == Spec => []EntryServed
<1>1. Init => TypeOK /\ NotYet /\ EntryServed
  BY TypeInit DEF Init, NotYet, EntryServed
<1>2. TypeOK /\ NotYet /\ EntryServed /\ [Next]_vars => (TypeOK /\ NotYet /\ EntryServed)'
  BY TypeStep, EntryStep
<1> QED
  BY <1>1, <1>2, PTL DEF Spec

-----------------------------------------------------------------------------
(* Which jobs run at once                                                  *)

\* A handler that has not reached the channel yet has done nothing else.
Fresh(c) ==
  pc[c] \in {"check", "passed", "locked"} =>
    /\ client[c] # "off" /\ sender[c] = "none"
    /\ job[c] = "none" /\ chan[c] = <<>>

Untouched(c) ==
  client[c] = "off" =>
    pc[c] = "off" /\ sender[c] = "none" /\ job[c] = "none" /\ chan[c] = <<>>

\* As long as the browser of a running job stays, none of the three tasks has
\* ended, and the handler is still waiting.
Served(c) ==
  job[c] = "running" /\ client[c] # "closed" =>
    pc[c] = "serving" /\ client[c] = "open" /\ sender[c] = "alive"

\* The entry of the locks belongs to the one handler that needs it.
Holds(c) ==
  /\ pc[c] = "passed" => lock = NoConn
  /\ pc[c] \in {"locked", "serving"} => lock = c

ConnInv(c) == Fresh(c) /\ Untouched(c) /\ Served(c) /\ Holds(c)

SocketInv == TypeOK /\ \A c \in Conns : ConnInv(c)

LEMMA SocketInit == Init => SocketInv
<1> SUFFICES ASSUME Init PROVE SocketInv
  OBVIOUS
<1>1. TypeOK
  BY TypeInit
<1>2. \A c \in Conns : ConnInv(c)
  BY DEF Init, ConnInv, Fresh, Untouched, Served, Holds
<1> QED
  BY <1>1, <1>2 DEF SocketInv

\* A step of one connection keeps what is known of every connection.
LEMMA ConnStep ==
  ASSUME SocketInv, OneArriving, Next, NEW d \in Conns
  PROVE  ConnInv(d)'
<1>1. TypeOK /\ OneArriving /\ ConnInv(d) /\ \A c \in Conns : ConnInv(c)
  BY DEF SocketInv
<1> USE DEF ConnInv, Fresh, Untouched, Served, Holds
<1>2. ASSUME NEW c \in Conns, Connect(c) PROVE ConnInv(d)'
  BY <1>1, <1>2 DEF TypeOK, Connect
<1>3. ASSUME NEW c \in Conns, Refuse(c) PROVE ConnInv(d)'
  BY <1>1, <1>3 DEF TypeOK, Refuse
<1>4. ASSUME NEW c \in Conns, Pass(c) PROVE ConnInv(d)'
  BY <1>1, <1>4 DEF TypeOK, Pass
<1>5. ASSUME NEW c \in Conns, Lock(c) PROVE ConnInv(d)'
  <2>1. pc[c] = "passed" /\ lock = NoConn
    BY <1>1, <1>5 DEF Lock
  <2>2. d # c => pc[d] \notin {"passed", "locked", "serving"}
    BY <1>1, <2>1, SocketAssumption DEF OneArriving, Arriving
  <2> QED
    BY <1>1, <1>5, <2>1, <2>2 DEF TypeOK, Lock
<1>6. ASSUME NEW c \in Conns, Start(c) PROVE ConnInv(d)'
  BY <1>1, <1>6 DEF TypeOK, Start
<1>7. ASSUME NEW c \in Conns, Unlock(c) PROVE ConnInv(d)'
  <2>1. lock = c
    BY <1>1, <1>7 DEF Unlock
  <2>2. job[c] = "running" => client[c] = "closed"
    BY <1>1, <1>7 DEF Unlock
  <2>3. d # c => pc[d] \notin {"locked", "serving"}
    BY <1>1, <2>1
  <2> QED
    BY <1>1, <1>7, <2>1, <2>2, <2>3 DEF TypeOK, Unlock
<1>8. ASSUME NEW c \in Conns, Unregister(c) PROVE ConnInv(d)'
  BY <1>1, <1>8 DEF TypeOK, Unregister
<1>9. ASSUME NEW c \in Conns, JobStep(c) PROVE ConnInv(d)'
  <2>1. job[c] = "running" /\ UNCHANGED <<handler, sender, client>>
    BY <1>9 DEF JobStep, Progress, Complete, Fail
  <2>2. pc[c] \notin {"check", "passed", "locked"} /\ client[c] # "off"
    BY <1>1, <2>1
  <2>3. \A e \in Conns : e # c => job'[e] = job[e] /\ chan'[e] = chan[e]
    BY <1>1, <1>9 DEF TypeOK, JobStep, Progress, Complete, Fail, Sends
  <2>4. job'[c] \in {"running", "done"}
    BY <1>1, <1>9, <2>1 DEF TypeOK, JobStep, Progress, Complete, Fail
  <2> QED
    BY <1>1, <2>1, <2>2, <2>3, <2>4 DEF handler
<1>10. ASSUME NEW c \in Conns, Deliver(c) PROVE ConnInv(d)'
  <2>1. sender[c] = "alive" /\ client[c] = "open" /\ UNCHANGED <<handler, job, sender>>
    BY <1>10 DEF Deliver
  <2>2. /\ \A e \in Conns : e # c => client'[e] = client[e] /\ chan'[e] = chan[e]
        /\ client'[c] \in {"open", "closed"}
    BY <1>1, <1>10, <2>1 DEF TypeOK, Deliver
  <2> QED
    BY <1>1, <2>1, <2>2 DEF handler
<1>11. ASSUME NEW c \in Conns, SendEnds(c) PROVE ConnInv(d)'
  BY <1>1, <1>11 DEF TypeOK, SendEnds, handler
<1>12. ASSUME NEW c \in Conns, Leave(c) PROVE ConnInv(d)'
  BY <1>1, <1>12 DEF TypeOK, Leave, handler
<1> QED
  BY <1>2, <1>3, <1>4, <1>5, <1>6, <1>7, <1>8, <1>9, <1>10, <1>11, <1>12
     DEF Next, HandlerStep

\* If each connection is past its look-up before the next one comes, two refresh
\* jobs of the user run at once only when the browser of one of them has left:
\* jobs whose browsers stay exclude each other, whatever the jobs do, however many
\* connections come and go, and whoever else leaves.  That a job left behind runs
\* beside the next one is what OneJob (refresh.rs:51) finds against the code; a
\* second handler between look-up and entry is another way to it.
THEOREM StayersExclude == Spec => OnlyLeftBehind
<1>1. Init => SocketInv
  BY SocketInit
<1>2. SocketInv /\ OneArriving /\ [Next]_vars => SocketInv'
  <2> SUFFICES ASSUME SocketInv, OneArriving, [Next]_vars PROVE SocketInv'
    OBVIOUS
  <2>1. TypeOK'
    BY TypeStep DEF SocketInv
  <2>2. ASSUME NEW d \in Conns PROVE ConnInv(d)'
    <3>1. CASE Next
      BY <3>1, ConnStep
    <3>2. CASE UNCHANGED vars
      BY <3>2 DEF SocketInv, vars, ConnInv, Fresh, Untouched, Served, Holds
    <3> QED
      BY <3>1, <3>2
  <2> QED
    BY <2>1, <2>2 DEF SocketInv
<1>3. SocketInv => Excludes
  BY DEF SocketInv, Excludes, ConnInv, Served, Holds
<1> QED
  BY <1>1, <1>2, <1>3, PTL DEF Spec, OnlyLeftBehind
=============================================================================
