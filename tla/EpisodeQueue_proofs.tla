------------------------ MODULE EpisodeQueue_proofs -------------------------
(***************************************************************************)
(* Proofs about EpisodeQueue for any number of handlers, rows, items and   *)
(* requests: the queue's types, the positions that stay at 1 or more, the  *)
(* shifts that are never lost, and the order that two rows keep.  Then,    *)
(* for one request at a time: the table is the play order of PlayOrder,    *)
(* and its positions have no gap and no tie.                               *)
(***************************************************************************)
EXTENDS EpisodeQueue, SequenceTheorems, FiniteSetTheorems, TLAPS

(* What a handler's program counter says of its other locals: which        *)
(* request it serves, whether its list has an entry left, that the         *)
(* position it resolved is one of the queue, and that it holds no row      *)
(* before its first write.                                                 *)
Serving(w) ==
  /\ req[w] \in Requests
  /\ pc[w] = "resolve" => req[w].op \in {"queue", "bulk"}
  /\ pc[w] = "exists" => req[w].op = "bulk"
  /\ pc[w] \in {"find", "lift", "pin"} => req[w].op = "bump"
  /\ pc[w] \in {"room", "insert"} => req[w].op \in {"queue", "bulk", "bump"}
  /\ pc[w] = "commit" => req[w].op \in {"queue", "bulk", "bump", "reorder"}
  /\ pc[w] = "place" => req[w].op = "reorder"
  /\ pc[w] \in {"delete", "close"} => req[w].op = "remove"
  /\ pc[w] = "wipe" => req[w].op \in {"clear", "purge"}
  /\ pc[w] \in {"find", "room", "lift", "pin", "insert", "place", "delete"}
       => todo[w] # <<>>
  /\ req[w].op \in Shifts => todo[w] = req[w].items
  /\ pc[w] \in {"exists", "room", "insert", "place", "delete", "close"} => at[w] >= 1

Unstarted(w) ==
  \/ pc[w] \in {"idle", "resolve", "find", "lift", "delete", "close", "wipe"}
  \/ pc[w] = "room" /\ req[w].op \in Shifts

Local(w) ==
  /\ pc[w] # "idle" => Serving(w)
  /\ Unstarted(w) => DOMAIN over[w] = {}

(* No row is changed by two open transactions.                             *)
OneWriter ==
  \A v, w \in Workers : v # w => DOMAIN over[v] \cap DOMAIN over[w] = {}

IInv ==
  /\ TypeOK
  /\ \A w \in Workers : Local(w)
  /\ OneWriter
  /\ PositionsPositive
  /\ NoLostShift

-----------------------------------------------------------------------------
(* Overlay is a function on both domains, with the values of the right     *)
(* operand where it has any.                                               *)
LEMMA OverlayFacts ==
  ASSUME NEW f, NEW g
  PROVE  /\ DOMAIN Overlay(f, g) = DOMAIN f \cup DOMAIN g
         /\ \A r \in DOMAIN g : Overlay(f, g)[r] = g[r]
         /\ \A r \in DOMAIN f \ DOMAIN g : Overlay(f, g)[r] = f[r]
         /\ Overlay(f, g) = [r \in DOMAIN Overlay(f, g) |-> Overlay(f, g)[r]]
BY DEF Overlay

(* A request list with an entry left has a head and a tail.                *)
LEMMA ListFacts ==
  ASSUME NEW s \in Seq(Items), s # <<>>
  PROVE  Head(s) \in Items /\ Tail(s) \in Seq(Items)
BY HeadTailProperties

LEMMA Singleton ==
  ASSUME NEW s, Len(s) = 1
  PROVE  s # <<>>
<1>1. Len(<<>>) = 0
  BY EmptySeq
<1>2. Len(<<>>) # 1
  BY <1>1
<1> QED
  BY <1>2, Zenon

LEMMA InitOK == Init => IInv
<1> SUFFICES ASSUME Init PROVE IInv
  OBVIOUS
<1>1. TypeOK
  BY DEF Init, TypeOK, Empty, Row, Rest, Writes
<1>2. ASSUME NEW w \in Workers PROVE Local(w)
  BY DEF Init, Local, Unstarted, Empty
<1>3. OneWriter /\ PositionsPositive /\ NoLostShift
  BY DEF Init, OneWriter, PositionsPositive, NoLostShift, Empty
<1> QED
  BY <1>1, <1>2, <1>3 DEF IInv
-----------------------------------------------------------------------------
(* The locals of the other handlers stay as they are.                      *)
Others(w) ==
  \A v \in Workers \ {w} :
    /\ pc'[v] = pc[v] /\ req'[v] = req[v] /\ todo'[v] = todo[v]
    /\ at'[v] = at[v] /\ over'[v] = over[v]

LEMMA OthersLocal ==
  ASSUME IInv, NEW w \in Workers, Others(w), Local(w)'
  PROVE  \A v \in Workers : Local(v)'
<1> SUFFICES ASSUME NEW v \in Workers, v # w PROVE Local(v)'
  OBVIOUS
<1>1. Local(v)
  BY DEF IInv
<1> QED
  BY <1>1 DEF Others, Local, Serving, Unstarted

(* A step that changes neither the table nor a transaction's writes.       *)
LEMMA QuietStep ==
  ASSUME IInv, NEW w \in Workers, Others(w), UNCHANGED <<queue, over>>,
         TypeOK', Local(w)',
         DOMAIN over[w] = {} \/ (pc[w] # "idle" /\ req'[w] = req[w])
  PROVE  IInv'
<1>1. \A v \in Workers : Local(v)'
  BY OthersLocal
<1>2. OneWriter' /\ PositionsPositive'
  BY DEF IInv, OneWriter, PositionsPositive
<1>3. NoLostShift'
  BY DEF IInv, NoLostShift, Others
<1> QED
  BY <1>1, <1>2, <1>3 DEF IInv

LEMMA PosOfType ==
  ASSUME TypeOK, NEW i, NEW p \in PosOf(queue, i)
  PROVE  \E r \in DOMAIN queue : p = queue[r].pos /\ p \in Nat
BY DEF TypeOK, PosOf, Row

LEMMA StartOK ==
  ASSUME IInv, NEW w \in Workers, NEW q \in Requests, Start(w, q)
  PROVE  IInv'
<1>1. q \in Request /\ (q.op \in {"queue", "bump", "remove"} => q.items # <<>>)
  BY RequestsAssumption, Singleton
<1>2. \A s, p : Begin(w, q, s, p) => /\ pc[w] = "idle" /\ DOMAIN over[w] = {}
                                    /\ UNCHANGED <<queue, over>> /\ Others(w)
  BY DEF IInv, Local, Unstarted, Begin, Goto, Others, TypeOK
<1>3. ASSUME NEW s \in Rest \cup Writes, NEW p \in Nat, Begin(w, q, s, p)
      PROVE  TypeOK'
  BY <1>1, <1>3 DEF IInv, TypeOK, Begin, Goto, Request
<1>4. ASSUME NEW s \in Rest \cup Writes, NEW p \in Nat, Begin(w, q, s, p), Serving(w)'
      PROVE  IInv'
  <2>1. Local(w)'
    BY <1>2, <1>4 DEF Local
  <2> QED
    BY <1>2, <1>3, <1>4, <2>1, QuietStep
<1>5. \A s, p : Begin(w, q, s, p) =>
        pc'[w] = s /\ req'[w] = q /\ todo'[w] = q.items /\ at'[w] = p
  BY DEF Begin, Goto, IInv, TypeOK
<1>6. CASE StartQueue(w, q)
  BY <1>1, <1>4, <1>5, <1>6 DEF StartQueue, Serving, Rest, Writes
<1>7. CASE StartBulk(w, q)
  BY <1>4, <1>5, <1>7 DEF StartBulk, Serving, Rest, Writes, Shifts
<1>8. CASE StartBump(w, q)
  BY <1>1, <1>4, <1>5, <1>8 DEF StartBump, Serving, Rest, Writes
<1>9. CASE StartRemove(w, q)
  <2>1. PICK p \in PosOf(queue, Head(q.items)) : Begin(w, q, "delete", p)
    BY <1>9 DEF StartRemove
  <2>2. p \in Int /\ p >= 1
    BY PosOfType DEF IInv, PositionsPositive
  <2> QED
    BY <1>1, <1>4, <1>5, <1>9, <2>1, <2>2 DEF StartRemove, Serving, Rest, Writes, Shifts
<1>10. CASE StartWipe(w, q)
  BY <1>4, <1>5, <1>10 DEF StartWipe, Serving, Rest, Writes, Shifts
<1>11. CASE StartReorder(w, q)
  BY <1>4, <1>5, <1>11 DEF StartReorder, Serving, Rest, Writes, Shifts
<1> QED
  BY <1>6, <1>7, <1>8, <1>9, <1>10, <1>11 DEF Start
LEMMA ResolveOK ==
  ASSUME IInv, NEW w \in Workers, Resolve(w)
  PROVE  IInv'
<1>1. \A r \in DOMAIN queue : queue[r].pos \in Int /\ queue[r].pos >= 1
  BY DEF IInv, TypeOK, Row, PositionsPositive
<1>2. \A m \in Highest(queue) : m + 1 \in Int /\ m + 1 >= 1
  BY <1>1 DEF Highest
<1>3. \A a \in PosOf(queue, req[w].anchor) : a + 1 \in Int /\ a + 1 >= 1
  BY <1>1 DEF PosOf
<1>4. req[w].op \in {"queue", "bulk"} /\ req[w] \in Request
  BY RequestsAssumption DEF Resolve, IInv, Local, Serving
<1>5. PICK p \in Int : p >= 1 /\ at' = [at EXCEPT ![w] = p]
  <2>1. ASSUME NEW p \in Slots(req[w]) PROVE p \in Int /\ p >= 1
    <3>1. CASE Slots(req[w]) = {1}
      BY <3>1
    <3>2. CASE Slots(req[w]) = {m + 1 : m \in Highest(queue)}
      BY <1>2, <3>2
    <3>3. CASE Slots(req[w]) = {m + 1 : m \in PosOf(queue, req[w].anchor)}
      BY <1>3, <3>3
    <3> QED
      BY <3>1, <3>2, <3>3 DEF Slots
  <2> QED
    BY <2>1 DEF Resolve
<1>6. TypeOK'
  BY <1>5 DEF IInv, TypeOK, Resolve, Goto, Rest, Writes
<1>7. pc'[w] = (IF req[w].op = "bulk" THEN "exists" ELSE "room") /\ at'[w] = p
  BY <1>5 DEF Resolve, Goto, IInv, TypeOK
<1>8. Serving(w) /\ DOMAIN over[w] = {}
  BY DEF Resolve, IInv, Local, Unstarted
<1>9. req[w].op = "queue" => todo[w] # <<>>
  <2>1. req[w].op = "queue" => Len(req[w].items) = 1 /\ todo[w] = req[w].items
    BY <1>8, RequestsAssumption DEF Serving, Shifts
  <2> QED
    BY <2>1, Singleton
<1>10. Local(w)'
  BY <1>4, <1>5, <1>7, <1>8, <1>9 DEF Local, Serving, Unstarted, Resolve
<1>11. Others(w)
  BY DEF Resolve, Goto, Others, IInv, TypeOK
<1> QED
  BY <1>6, <1>8, <1>10, <1>11, QuietStep DEF Resolve

LEMMA ExistsOK ==
  ASSUME IInv, NEW w \in Workers, Exists(w)
  PROVE  IInv'
<1>1. Serving(w) /\ req[w].op = "bulk"
  BY DEF Exists, IInv, Local, Serving
<1>2. TypeOK'
  <2>1. todo[w] \in Seq(Items) /\ (todo[w] # <<>> => Tail(todo[w]) \in Seq(Items))
    BY ListFacts DEF IInv, TypeOK
  <2>2. pc' \in [Workers -> Rest \cup Writes] /\ todo' \in [Workers -> Seq(Items)]
    BY <2>1 DEF IInv, TypeOK, Exists, Goto, Rest, Writes
  <2> QED
    BY <2>2 DEF IInv, TypeOK, Exists
<1>3. Local(w)'
  BY <1>1 DEF Local, Serving, Unstarted, Exists, Goto, Shifts, IInv, TypeOK
<1>4. Others(w)
  BY DEF Exists, Goto, Others, IInv, TypeOK
<1> QED
  BY <1>2, <1>3, <1>4, QuietStep DEF Exists

LEMMA FindOK ==
  ASSUME IInv, NEW w \in Workers, Find(w)
  PROVE  IInv'
<1>1. Serving(w) /\ DOMAIN over[w] = {}
  BY DEF Find, IInv, Local, Unstarted
<1>2. PICK p \in Nat, s \in {"room", "lift", "commit"} :
        /\ pc' = [pc EXCEPT ![w] = s]
        /\ at' = [at EXCEPT ![w] = p]
        /\ s = "room" => p = 1
  BY PosOfType DEF Find, Goto, IInv
<1>3. TypeOK'
  BY <1>2 DEF IInv, TypeOK, Find, Rest, Writes
<1>4. Local(w)'
  BY <1>1, <1>2 DEF Local, Serving, Unstarted, Find, IInv, TypeOK, Shifts
<1>5. Others(w)
  BY <1>2 DEF Find, Others, IInv, TypeOK
<1> QED
  BY <1>1, <1>3, <1>4, <1>5, QuietStep DEF Find

LEMMA ScanOK ==
  ASSUME IInv, NEW w \in Workers, Scan(w)
  PROVE  IInv'
<1>1. DOMAIN View(w) \subseteq RowIds
  BY DEF IInv, TypeOK, View, Overlay
<1>2. TypeOK'
  BY <1>1 DEF IInv, TypeOK, Scan, Rest, Writes
<1>3. Local(w)' /\ Others(w)
  BY DEF IInv, Local, Serving, Unstarted, Scan, Others
<1>4. pc[w] # "idle"
  BY DEF Scan, Writes
<1> QED
  BY <1>2, <1>3, <1>4, QuietStep DEF Scan
-----------------------------------------------------------------------------
(* A handler sees typed rows at positions of 1 or more.                    *)
LEMMA ViewFacts ==
  ASSUME IInv, NEW w \in Workers
  PROVE  /\ DOMAIN View(w) = DOMAIN queue \cup DOMAIN over[w]
         /\ DOMAIN View(w) \subseteq RowIds
         /\ View(w) \in [DOMAIN View(w) -> Row]
         /\ \A r \in DOMAIN over[w] : View(w)[r] = over[w][r]
         /\ \A r \in DOMAIN queue \ DOMAIN over[w] : View(w)[r] = queue[r]
         /\ \A r \in DOMAIN View(w) : View(w)[r] \in Row /\ View(w)[r].pos >= 1
<1>1. /\ DOMAIN View(w) = DOMAIN queue \cup DOMAIN over[w]
      /\ \A r \in DOMAIN over[w] : View(w)[r] = over[w][r]
      /\ \A r \in DOMAIN queue \ DOMAIN over[w] : View(w)[r] = queue[r]
      /\ View(w) = [r \in DOMAIN View(w) |-> View(w)[r]]
  BY OverlayFacts DEF View
<1>2. \A r \in DOMAIN View(w) : View(w)[r] \in Row /\ View(w)[r].pos >= 1
  BY <1>1 DEF IInv, TypeOK, PositionsPositive
<1> QED
  BY <1>1, <1>2 DEF IInv, TypeOK

(* The rows an UPDATE writes keep their item and stay at 1 or more.        *)
LEMMA MovedFacts ==
  ASSUME IInv, NEW w \in Workers, pc[w] \in {"room", "lift", "pin", "place", "close"}
  PROVE  /\ DOMAIN Moved(w) = Hits(w)
         /\ Hits(w) \subseteq DOMAIN View(w) \cap seen[w]
         /\ Moved(w) \in [Hits(w) -> Row]
         /\ \A r \in Hits(w) : /\ Moved(w)[r].item = View(w)[r].item
                                /\ Moved(w)[r].pos = NewPos(w, View(w)[r])
                                /\ Moved(w)[r].pos >= 1
<1>1. Hits(w) \subseteq DOMAIN View(w) \cap seen[w]
  BY DEF Hits
<1>2. ASSUME NEW r \in Hits(w)
      PROVE  NewPos(w, View(w)[r]) \in Int /\ NewPos(w, View(w)[r]) >= 1
  <2>1. View(w)[r] \in Row /\ View(w)[r].pos \in Int /\ View(w)[r].pos >= 1
    <3>1. View(w)[r] \in Row /\ View(w)[r].pos >= 1
      BY <1>1, ViewFacts
    <3> QED
      BY <3>1 DEF Row
  <2>2. at[w] \in Int /\ (pc[w] \in {"place", "close"} => at[w] >= 1)
    BY DEF IInv, TypeOK, Local, Serving
  <2>3. CASE pc[w] \in {"room", "lift"}
    BY <2>1, <2>3 DEF NewPos, Down
  <2>4. CASE pc[w] = "pin"
    BY <2>4 DEF NewPos
  <2>5. CASE pc[w] = "place"
    BY <2>2, <2>5 DEF NewPos
  <2>6. CASE pc[w] = "close"
    <3>1. View(w)[r].pos > at[w]
      BY <2>6 DEF Hits, Where, Below
    <3> QED
      BY <2>1, <2>2, <2>6, <3>1 DEF NewPos
  <2> QED
    BY <2>3, <2>4, <2>5, <2>6
<1>3. ASSUME NEW r \in Hits(w)
      PROVE  /\ Moved(w)[r] \in Row
             /\ Moved(w)[r].item = View(w)[r].item
             /\ Moved(w)[r].pos = NewPos(w, View(w)[r])
  <2>1. View(w)[r] \in Row
    BY <1>1, ViewFacts
  <2>2. Moved(w)[r] = [View(w)[r] EXCEPT !.pos = NewPos(w, View(w)[r])]
    BY DEF Moved
  <2> QED
    BY <1>2, <2>1, <2>2 DEF Row
<1>4. DOMAIN Moved(w) = Hits(w) /\ Moved(w) = [r \in Hits(w) |-> Moved(w)[r]]
  BY DEF Moved
<1> QED
  BY <1>1, <1>2, <1>3, <1>4

(* The handler's return drops only its own locals.                         *)
LEMMA ResetFacts ==
  ASSUME IInv, NEW w \in Workers, Reset(w),
         DOMAIN queue' \subseteq RowIds, queue' \in [DOMAIN queue' -> Row]
  PROVE  TypeOK' /\ Others(w) /\ Local(w)' /\ DOMAIN over'[w] = {} /\ pc'[w] = "idle"
<1>1. Others(w) /\ DOMAIN over'[w] = {} /\ pc'[w] = "idle"
  BY DEF IInv, TypeOK, Reset, Goto, Others, Empty
<1>2. pc' \in [Workers -> Rest \cup Writes] /\ phase' \in [Workers -> {"scan", "apply"}]
  BY DEF IInv, TypeOK, Reset, Goto, Rest
<1>3. /\ req' \in [Workers -> Requests \cup {NoRequest}]
      /\ at' \in [Workers -> Nat] /\ seen' \in [Workers -> SUBSET RowIds]
  BY DEF IInv, TypeOK, Reset
<1>4. todo' \in [Workers -> Seq(Items)]
  BY EmptySeq DEF IInv, TypeOK, Reset
<1>5. /\ DOMAIN over' = Workers
      /\ \A v \in Workers : DOMAIN over'[v] \subseteq RowIds /\ over'[v] \in [DOMAIN over'[v] -> Row]
  BY DEF IInv, TypeOK, Reset, Empty
<1>6. Local(w)'
  BY <1>1 DEF Local, Unstarted
<1> QED
  BY <1>1, <1>2, <1>3, <1>4, <1>5, <1>6 DEF TypeOK

LEMMA AbortOK ==
  ASSUME IInv, NEW w \in Workers, Reset(w), UNCHANGED queue
  PROVE  IInv'
<1>1. TypeOK' /\ Others(w) /\ Local(w)' /\ DOMAIN over'[w] = {} /\ pc'[w] = "idle"
  BY ResetFacts DEF IInv, TypeOK
<1>2. \A v \in Workers : Local(v)'
  BY <1>1, OthersLocal
<1>3. OneWriter'
  BY <1>1 DEF IInv, OneWriter, Others
<1>4. PositionsPositive'
  BY <1>1 DEF IInv, PositionsPositive, Others
<1>5. NoLostShift'
  BY <1>1 DEF IInv, NoLostShift, Others
<1> QED
  BY <1>1, <1>2, <1>3, <1>4, <1>5 DEF IInv

(* What an open transaction holds stays as far from the committed rows     *)
(* when another handler changes rows it does not hold.                     *)
LEMMA OthersShifts ==
  ASSUME IInv, NEW w \in Workers, Others(w),
         \A v \in Workers \ {w} : \A r \in DOMAIN over[v] :
            (r \in DOMAIN queue' <=> r \in DOMAIN queue) /\ (r \in DOMAIN queue => queue'[r] = queue[r]),
         NEW v \in Workers, v # w, pc'[v] # "idle", req'[v].op \in Shifts,
         NEW r \in DOMAIN over'[v] \cap DOMAIN queue'
  PROVE  /\ over'[v][r].item = queue'[r].item
         /\ \/ over'[v][r].pos = queue'[r].pos + 1
            \/ req'[v].op = "bump" /\ queue'[r].item = Head(req'[v].items)
<1>1. over'[v] = over[v] /\ pc'[v] = pc[v] /\ req'[v] = req[v]
  BY DEF Others
<1>2. r \in DOMAIN over[v] \cap DOMAIN queue /\ queue'[r] = queue[r]
  BY <1>1
<1> QED
  BY <1>1, <1>2 DEF IInv, NoLostShift

LEMMA CommitOK ==
  ASSUME IInv, NEW w \in Workers, Commit(w)
  PROVE  IInv'
<1>1. /\ DOMAIN queue' = DOMAIN queue \cup DOMAIN over[w]
      /\ DOMAIN queue' \subseteq RowIds /\ queue' \in [DOMAIN queue' -> Row]
      /\ \A r \in DOMAIN queue' : queue'[r].pos >= 1
      /\ \A r \in DOMAIN queue \ DOMAIN over[w] : queue'[r] = queue[r]
  BY ViewFacts DEF Commit
<1>2. TypeOK' /\ Others(w) /\ Local(w)' /\ DOMAIN over'[w] = {} /\ pc'[w] = "idle"
  BY <1>1, ResetFacts DEF Commit
<1>3. \A v \in Workers : Local(v)'
  BY <1>2, OthersLocal
<1>4. OneWriter'
  BY <1>2 DEF IInv, OneWriter, Others
<1>5. PositionsPositive'
  BY <1>1, <1>2 DEF IInv, PositionsPositive, Others
<1>6. \A v \in Workers \ {w} : \A r \in DOMAIN over[v] :
         (r \in DOMAIN queue' <=> r \in DOMAIN queue) /\ (r \in DOMAIN queue => queue'[r] = queue[r])
  BY <1>1 DEF IInv, OneWriter
<1>7. NoLostShift'
  BY <1>2, <1>6, OthersShifts DEF NoLostShift
<1> QED
  BY <1>2, <1>3, <1>4, <1>5, <1>7 DEF IInv
-----------------------------------------------------------------------------
(* A write that goes ahead changes no row that another transaction holds.  *)
LEMMA ReadyFree ==
  ASSUME IInv, NEW w \in Workers, NEW s \in Writes, Ready(w, s),
         NEW v \in Workers, v # w
  PROVE  DOMAIN over[v] \cap Hits(w) = {}
BY DEF Ready, WaitsFor, Hits

(* An UPDATE of a transaction keeps the invariant's shared parts, and      *)
(* overlays what the transaction held with the rows it moved.              *)
LEMMA UpdateFacts ==
  ASSUME IInv, NEW w \in Workers, NEW s \in {"room", "lift", "pin", "place"},
         NEW t \in Rest \cup Writes, Update(w, s, t),
         todo' \in [Workers -> Seq(Items)], at' \in [Workers -> Nat]
  PROVE  /\ TypeOK' /\ OneWriter' /\ PositionsPositive'
         /\ \A v \in Workers \ {w} : over'[v] = over[v] /\ pc'[v] = pc[v]
         /\ pc'[w] = t /\ req' = req /\ queue' = queue
         /\ DOMAIN over'[w] = DOMAIN over[w] \cup Hits(w)
         /\ \A r \in Hits(w) : over'[w][r] = Moved(w)[r]
         /\ \A r \in DOMAIN over[w] \ Hits(w) : over'[w][r] = over[w][r]
<1>1. pc[w] = s /\ s \in Writes /\ Ready(w, s)
  BY DEF Update, Ready, Writes
<1>2. over' = [over EXCEPT ![w] = Overlay(over[w], Moved(w))]
  BY DEF Update
<1>3. /\ over'[w] = Overlay(over[w], Moved(w))
      /\ \A v \in Workers \ {w} : over'[v] = over[v]
      /\ DOMAIN over' = Workers
  BY <1>2 DEF IInv, TypeOK
<1>4. DOMAIN Moved(w) = Hits(w) /\ Moved(w) \in [Hits(w) -> Row]
  BY <1>1, MovedFacts
<1>5. /\ DOMAIN over'[w] = DOMAIN over[w] \cup Hits(w)
      /\ \A r \in Hits(w) : over'[w][r] = Moved(w)[r]
      /\ \A r \in DOMAIN over[w] \ Hits(w) : over'[w][r] = over[w][r]
      /\ over'[w] = [r \in DOMAIN over'[w] |-> over'[w][r]]
  <2> DEFINE o == Overlay(over[w], Moved(w))
  <2>1. /\ DOMAIN o = DOMAIN over[w] \cup DOMAIN Moved(w)
        /\ \A r \in DOMAIN Moved(w) : o[r] = Moved(w)[r]
        /\ \A r \in DOMAIN over[w] \ DOMAIN Moved(w) : o[r] = over[w][r]
        /\ o = [r \in DOMAIN o |-> o[r]]
    BY OverlayFacts
  <2>2. over'[w] = o
    BY <1>3
  <2> HIDE DEF o
  <2> QED
    BY <1>4, <2>1, <2>2
<1>6. Hits(w) \subseteq RowIds
  BY ViewFacts DEF Hits
<1>7. DOMAIN over'[w] \subseteq RowIds /\ over'[w] \in [DOMAIN over'[w] -> Row]
  BY <1>4, <1>5, <1>6 DEF IInv, TypeOK
<1>8. TypeOK'
  BY <1>3, <1>7 DEF IInv, TypeOK, Update, Goto, Rescan
<1>9. OneWriter'
  <2>1. \A v \in Workers \ {w} : DOMAIN over[v] \cap Hits(w) = {}
    BY <1>1, ReadyFree
  <2>2. \A v \in Workers \ {w} : DOMAIN over'[v] \cap DOMAIN over'[w] = {}
    BY <1>3, <1>5, <2>1 DEF IInv, OneWriter
  <2> QED
    BY <1>3, <2>2 DEF IInv, OneWriter
<1>10. PositionsPositive'
  BY <1>1, <1>3, <1>5, MovedFacts DEF IInv, PositionsPositive, Update
<1> QED
  BY <1>3, <1>5, <1>8, <1>9, <1>10 DEF Update, Goto, IInv, TypeOK

LEMMA ApplyRoomOK ==
  ASSUME IInv, NEW w \in Workers, ApplyRoom(w)
  PROVE  IInv'
<1>1. Update(w, "room", "insert") /\ UNCHANGED <<todo, at>> /\ pc[w] = "room"
  BY DEF ApplyRoom, Update, Ready
<1>2. /\ TypeOK' /\ OneWriter' /\ PositionsPositive'
      /\ \A v \in Workers \ {w} : over'[v] = over[v] /\ pc'[v] = pc[v]
      /\ pc'[w] = "insert" /\ req' = req /\ queue' = queue
      /\ DOMAIN over'[w] = DOMAIN over[w] \cup Hits(w)
      /\ \A r \in Hits(w) : over'[w][r] = Moved(w)[r]
  BY <1>1, UpdateFacts DEF IInv, TypeOK, Rest
<1>3. Others(w)
  BY <1>1, <1>2 DEF Others
<1>4. Serving(w) /\ (req[w].op \in Shifts => DOMAIN over[w] = {})
  BY <1>1 DEF IInv, Local, Unstarted
<1>5. Local(w)'
  BY <1>1, <1>2, <1>4 DEF Local, Serving, Unstarted
<1>6. ASSUME req[w].op \in Shifts, NEW r \in DOMAIN over'[w] \cap DOMAIN queue'
      PROVE  over'[w][r].item = queue'[r].item /\ over'[w][r].pos = queue'[r].pos + 1
  <2>1. r \in Hits(w) /\ View(w)[r] = queue[r] /\ over'[w][r] = Moved(w)[r]
    BY <1>2, <1>4, <1>6, ViewFacts
  <2>2. Moved(w)[r].item = queue[r].item /\ Moved(w)[r].pos = NewPos(w, queue[r])
    BY <1>1, <2>1, MovedFacts
  <2> QED
    BY <1>1, <1>2, <2>1, <2>2 DEF NewPos, Down
<1>7. NoLostShift'
  BY <1>2, <1>3, <1>6, OthersShifts DEF NoLostShift
<1>8. \A v \in Workers : Local(v)'
  BY <1>3, <1>5, OthersLocal
<1> QED
  BY <1>2, <1>7, <1>8 DEF IInv

LEMMA ApplyLiftOK ==
  ASSUME IInv, NEW w \in Workers, ApplyLift(w)
  PROVE  IInv'
<1>1. Update(w, "lift", "pin") /\ UNCHANGED <<todo, at>> /\ pc[w] = "lift"
  BY DEF ApplyLift, Update, Ready
<1>2. /\ TypeOK' /\ OneWriter' /\ PositionsPositive'
      /\ \A v \in Workers \ {w} : over'[v] = over[v] /\ pc'[v] = pc[v]
      /\ pc'[w] = "pin" /\ req' = req /\ queue' = queue
      /\ DOMAIN over'[w] = DOMAIN over[w] \cup Hits(w)
      /\ \A r \in Hits(w) : over'[w][r] = Moved(w)[r]
  BY <1>1, UpdateFacts DEF IInv, TypeOK, Writes
<1>3. Others(w)
  BY <1>1, <1>2 DEF Others
<1>4. Serving(w) /\ DOMAIN over[w] = {}
  BY <1>1 DEF IInv, Local, Unstarted
<1>5. Local(w)'
  BY <1>1, <1>2, <1>4 DEF Local, Serving, Unstarted
<1>6. ASSUME NEW r \in DOMAIN over'[w] \cap DOMAIN queue'
      PROVE  over'[w][r].item = queue'[r].item /\ over'[w][r].pos = queue'[r].pos + 1
  <2>1. r \in Hits(w) /\ View(w)[r] = queue[r] /\ over'[w][r] = Moved(w)[r]
    BY <1>2, <1>4, <1>6, ViewFacts
  <2>2. Moved(w)[r].item = queue[r].item /\ Moved(w)[r].pos = NewPos(w, queue[r])
    BY <1>1, <2>1, MovedFacts
  <2> QED
    BY <1>1, <1>2, <2>1, <2>2 DEF NewPos, Down
<1>7. NoLostShift'
  BY <1>2, <1>3, <1>6, OthersShifts DEF NoLostShift
<1>8. \A v \in Workers : Local(v)'
  BY <1>3, <1>5, OthersLocal
<1> QED
  BY <1>2, <1>7, <1>8 DEF IInv

LEMMA ApplyPinOK ==
  ASSUME IInv, NEW w \in Workers, ApplyPin(w)
  PROVE  IInv'
<1>1. Update(w, "pin", "commit") /\ UNCHANGED <<todo, at>> /\ pc[w] = "pin"
  BY DEF ApplyPin, Update, Ready
<1>2. /\ TypeOK' /\ OneWriter' /\ PositionsPositive'
      /\ \A v \in Workers \ {w} : over'[v] = over[v] /\ pc'[v] = pc[v]
      /\ pc'[w] = "commit" /\ req' = req /\ queue' = queue
      /\ DOMAIN over'[w] = DOMAIN over[w] \cup Hits(w)
      /\ \A r \in Hits(w) : over'[w][r] = Moved(w)[r]
      /\ \A r \in DOMAIN over[w] \ Hits(w) : over'[w][r] = over[w][r]
  BY <1>1, UpdateFacts DEF IInv, TypeOK, Rest
<1>3. Others(w)
  BY <1>1, <1>2 DEF Others
<1>4. Serving(w) /\ req[w].op = "bump" /\ todo[w] = req[w].items
  BY <1>1 DEF IInv, Local, Serving, Shifts
<1>5. Local(w)'
  BY <1>1, <1>2, <1>4 DEF Local, Serving, Unstarted
<1>6. \A r \in DOMAIN over[w] \cap DOMAIN queue :
         /\ over[w][r].item = queue[r].item
         /\ \/ over[w][r].pos = queue[r].pos + 1
            \/ queue[r].item = Head(req[w].items)
  BY <1>1, <1>4 DEF IInv, NoLostShift, Shifts
<1>7. ASSUME NEW r \in DOMAIN over'[w] \cap DOMAIN queue'
      PROVE  /\ over'[w][r].item = queue'[r].item
             /\ \/ over'[w][r].pos = queue'[r].pos + 1
                \/ queue'[r].item = Head(req[w].items)
  <2>1. CASE r \in Hits(w)
    <3>1. View(w)[r].item = Head(req[w].items)
      BY <1>1, <1>4, <2>1 DEF Hits, Where
    <3>2. View(w)[r].item = queue[r].item
      BY <1>2, <1>6, <1>7, <2>1, ViewFacts
    <3>3. over'[w][r].item = View(w)[r].item
      BY <1>1, <1>2, <2>1, MovedFacts
    <3> QED
      BY <1>2, <3>1, <3>2, <3>3
  <2>2. CASE r \notin Hits(w)
    BY <1>2, <1>6, <1>7, <2>2
  <2> QED
    BY <2>1, <2>2
<1>8. NoLostShift'
  BY <1>2, <1>3, <1>4, <1>7, OthersShifts DEF NoLostShift
<1>9. \A v \in Workers : Local(v)'
  BY <1>3, <1>5, OthersLocal
<1> QED
  BY <1>2, <1>8, <1>9 DEF IInv

LEMMA ApplyPlaceOK ==
  ASSUME IInv, NEW w \in Workers, ApplyPlace(w)
  PROVE  IInv'
<1> DEFINE t == IF Len(todo[w]) = 1 THEN "commit" ELSE "place"
<1>1. /\ Update(w, "place", t) /\ pc[w] = "place"
      /\ todo' = [todo EXCEPT ![w] = Tail(todo[w])]
      /\ at' = [at EXCEPT ![w] = at[w] + 1]
  BY DEF ApplyPlace, Update, Ready
<1>2. Serving(w) /\ req[w].op = "reorder" /\ todo[w] # <<>> /\ at[w] >= 1 /\ at[w] \in Int
  BY <1>1 DEF IInv, Local, Serving, TypeOK
<1>3. todo[w] \in Seq(Items) /\ Tail(todo[w]) \in Seq(Items)
  BY <1>2, ListFacts DEF IInv, TypeOK
<1>4. todo' \in [Workers -> Seq(Items)] /\ at' \in [Workers -> Nat]
  BY <1>1, <1>2, <1>3 DEF IInv, TypeOK
<1>5. /\ TypeOK' /\ OneWriter' /\ PositionsPositive'
      /\ \A v \in Workers \ {w} : over'[v] = over[v] /\ pc'[v] = pc[v]
      /\ pc'[w] = t /\ req' = req /\ queue' = queue
  BY <1>1, <1>4, UpdateFacts DEF Rest, Writes
<1>6. Others(w)
  BY <1>1, <1>4, <1>5 DEF Others, IInv, TypeOK
<1>7. t = "place" => Tail(todo[w]) # <<>>
  <2>1. Len(todo[w]) \in Nat /\ Len(Tail(todo[w])) = Len(todo[w]) - 1
    BY <1>2, <1>3, HeadTailProperties, LenProperties
  <2>2. Len(todo[w]) # 1 => Len(Tail(todo[w])) # 0
    BY <2>1
  <2>3. Len(<<>>) = 0
    BY EmptySeq
  <2> QED
    BY <2>2, <2>3, Zenon
<1>8. todo'[w] = Tail(todo[w]) /\ at'[w] >= 1
  BY <1>1, <1>2 DEF IInv, TypeOK
<1>9. Local(w)'
  BY <1>2, <1>5, <1>7, <1>8 DEF Local, Serving, Unstarted, Shifts
<1>10. NoLostShift'
  BY <1>2, <1>5, <1>6, OthersShifts DEF NoLostShift, Shifts
<1>11. \A v \in Workers : Local(v)'
  BY <1>6, <1>9, OthersLocal
<1> QED
  BY <1>5, <1>10, <1>11 DEF IInv
LEMMA InsertOK ==
  ASSUME IInv, NEW w \in Workers, Insert(w)
  PROVE  IInv'
<1> DEFINE id  == CHOOSE r \in FreshIds : TRUE
           row == [item |-> Head(todo[w]), pos |-> at[w]]
           new == [r \in {id} |-> row]
           o   == Overlay(over[w], new)
<1>1. pc[w] = "insert" /\ Serving(w) /\ todo[w] # <<>> /\ todo[w] \in Seq(Items)
  BY DEF Insert, IInv, TypeOK, Local, Serving
<1>2. /\ row \in Row /\ row.pos >= 1
      /\ Tail(todo[w]) \in Seq(Items) /\ at[w] \in Int /\ at[w] >= 1
  BY <1>1, ListFacts DEF Row, IInv, TypeOK, Serving
<1>3. id \in RowIds \ DOMAIN queue /\ \A v \in Workers : id \notin DOMAIN over[v]
  BY DEF Insert, FreshIds
<1>4. /\ DOMAIN o = DOMAIN over[w] \cup {id}
      /\ o[id] = row
      /\ \A r \in DOMAIN over[w] : o[r] = over[w][r]
      /\ o = [r \in DOMAIN o |-> o[r]]
  <2>1. DOMAIN new = {id} /\ new[id] = row
    OBVIOUS
  <2> HIDE DEF new
  <2>2. /\ DOMAIN o = DOMAIN over[w] \cup DOMAIN new
        /\ \A r \in DOMAIN new : o[r] = new[r]
        /\ \A r \in DOMAIN over[w] \ DOMAIN new : o[r] = over[w][r]
        /\ o = [r \in DOMAIN o |-> o[r]]
    BY OverlayFacts
  <2> HIDE DEF o, id
  <2> QED
    BY <1>3, <2>1, <2>2
<1>5. over' = [over EXCEPT ![w] = o]
  BY DEF Insert
<1> HIDE DEF id, row, new, o
<1>6. over'[w] = o /\ DOMAIN over' = Workers /\ \A v \in Workers \ {w} : over'[v] = over[v]
  BY <1>5 DEF IInv, TypeOK
<1>7. DOMAIN over'[w] \subseteq RowIds /\ over'[w] \in [DOMAIN over'[w] -> Row]
  BY <1>2, <1>3, <1>4, <1>6 DEF IInv, TypeOK
<1>8. /\ queue' = queue /\ phase' = phase /\ req' = req /\ seen' = seen
      /\ pc' = [pc EXCEPT ![w] = IF req[w].op = "bulk" THEN "exists" ELSE "commit"]
      /\ todo' = [todo EXCEPT ![w] = IF req[w].op = "bulk" THEN Tail(todo[w]) ELSE todo[w]]
      /\ at' = [at EXCEPT ![w] = IF req[w].op = "bulk" THEN at[w] + 1 ELSE at[w]]
  BY DEF Insert, Goto, IInv, TypeOK
<1>9. /\ pc' \in [Workers -> Rest \cup Writes] /\ todo' \in [Workers -> Seq(Items)]
      /\ at' \in [Workers -> Nat]
  BY <1>1, <1>2, <1>8 DEF IInv, TypeOK, Rest
<1>10. TypeOK'
  BY <1>6, <1>7, <1>8, <1>9 DEF IInv, TypeOK
<1>11. Others(w)
  BY <1>6, <1>8 DEF Others, IInv, TypeOK
<1>12. OneWriter'
  BY <1>3, <1>4, <1>6 DEF IInv, OneWriter
<1>13. PositionsPositive'
  BY <1>2, <1>4, <1>6, <1>8 DEF IInv, PositionsPositive
<1>14. /\ pc'[w] = (IF req[w].op = "bulk" THEN "exists" ELSE "commit")
       /\ req'[w] = req[w]
       /\ req[w].op \in Shifts => todo'[w] = todo[w]
       /\ at'[w] >= 1
  BY <1>2, <1>8 DEF IInv, TypeOK, Shifts
<1>15. Local(w)'
  BY <1>1, <1>14 DEF Local, Serving, Unstarted
<1>16. ASSUME req[w].op \in Shifts, NEW r \in DOMAIN over'[w] \cap DOMAIN queue'
       PROVE  r \in DOMAIN over[w] \cap DOMAIN queue /\ over'[w][r] = over[w][r]
  BY <1>3, <1>4, <1>6, <1>8
<1>17. NoLostShift'
  <2>1. pc[w] # "idle"
    BY <1>1
  <2> QED
    BY <1>8, <1>11, <1>16, <2>1, OthersShifts DEF IInv, NoLostShift
<1>18. \A v \in Workers : Local(v)'
  BY <1>11, <1>15, OthersLocal
<1> QED
  BY <1>10, <1>12, <1>13, <1>17, <1>18 DEF IInv

(* Statements outside a transaction: what they leave of the table.         *)
LEMMA DropRows ==
  ASSUME IInv, NEW w \in Workers, NEW s \in {"delete", "wipe"}, Ready(w, s),
         queue' = [r \in DOMAIN queue \ Hits(w) |-> queue[r]]
  PROVE  /\ DOMAIN queue' \subseteq RowIds /\ queue' \in [DOMAIN queue' -> Row]
         /\ \A r \in DOMAIN queue' : queue'[r] = queue[r] /\ queue'[r].pos >= 1
         /\ \A v \in Workers \ {w} : \A r \in DOMAIN over[v] :
              (r \in DOMAIN queue' <=> r \in DOMAIN queue) /\ (r \in DOMAIN queue => queue'[r] = queue[r])
<1>1. \A v \in Workers \ {w} : DOMAIN over[v] \cap Hits(w) = {}
  BY ReadyFree DEF Writes
<1> QED
  BY <1>1 DEF IInv, TypeOK, PositionsPositive

LEMMA ApplyDeleteOK ==
  ASSUME IInv, NEW w \in Workers, ApplyDelete(w)
  PROVE  IInv'
<1>1. pc[w] = "delete" /\ Ready(w, "delete")
  BY DEF ApplyDelete, Ready
<1>2. /\ DOMAIN queue' \subseteq RowIds /\ queue' \in [DOMAIN queue' -> Row]
      /\ \A r \in DOMAIN queue' : queue'[r].pos >= 1
      /\ \A v \in Workers \ {w} : \A r \in DOMAIN over[v] :
           (r \in DOMAIN queue' <=> r \in DOMAIN queue) /\ (r \in DOMAIN queue => queue'[r] = queue[r])
  BY <1>1, DropRows DEF ApplyDelete
<1>3. TypeOK'
  BY <1>2 DEF IInv, TypeOK, ApplyDelete, Goto, Rescan, Writes
<1>4. Others(w) /\ pc'[w] = "close" /\ over' = over /\ req' = req
  BY DEF ApplyDelete, Goto, Others, IInv, TypeOK
<1>5. Serving(w) /\ DOMAIN over[w] = {}
  BY <1>1 DEF IInv, Local, Unstarted
<1>6. Local(w)'
  BY <1>1, <1>4, <1>5 DEF Local, Serving, Unstarted, ApplyDelete
<1>7. OneWriter' /\ PositionsPositive'
  BY <1>2, <1>4 DEF IInv, OneWriter, PositionsPositive
<1>8. NoLostShift'
  BY <1>2, <1>4, <1>5, OthersShifts DEF NoLostShift
<1>9. \A v \in Workers : Local(v)'
  BY <1>4, <1>6, OthersLocal
<1> QED
  BY <1>3, <1>7, <1>8, <1>9 DEF IInv

LEMMA ReturnOK ==
  ASSUME IInv, NEW w \in Workers, Reset(w),
         DOMAIN queue' \subseteq RowIds, queue' \in [DOMAIN queue' -> Row],
         \A r \in DOMAIN queue' : queue'[r].pos >= 1,
         \A v \in Workers \ {w} : \A r \in DOMAIN over[v] :
           (r \in DOMAIN queue' <=> r \in DOMAIN queue) /\ (r \in DOMAIN queue => queue'[r] = queue[r])
  PROVE  IInv'
<1>1. TypeOK' /\ Others(w) /\ Local(w)' /\ DOMAIN over'[w] = {} /\ pc'[w] = "idle"
  BY ResetFacts
<1>2. \A v \in Workers : Local(v)'
  BY <1>1, OthersLocal
<1>3. OneWriter' /\ PositionsPositive'
  BY <1>1 DEF IInv, OneWriter, PositionsPositive, Others
<1>4. NoLostShift'
  BY <1>1, OthersShifts DEF NoLostShift
<1> QED
  BY <1>1, <1>2, <1>3, <1>4 DEF IInv

LEMMA ApplyWipeOK ==
  ASSUME IInv, NEW w \in Workers, ApplyWipe(w)
  PROVE  IInv'
BY DropRows, ReturnOK DEF ApplyWipe

(* The closing UPDATE of a remove: the rows it moves lie below the removed *)
(* position and go up by one.                                              *)
LEMMA CloseFacts ==
  ASSUME IInv, NEW w \in Workers, ApplyClose(w)
  PROVE  /\ DOMAIN queue' = DOMAIN queue
         /\ Hits(w) = {r \in seen[w] \cap DOMAIN queue : queue[r].pos > at[w]}
         /\ at[w] \in Int /\ at[w] >= 1
         /\ \A r \in Hits(w) : /\ queue'[r] \in Row /\ queue'[r].item = queue[r].item
                                /\ queue'[r].pos = queue[r].pos - 1 /\ queue'[r].pos >= 1
         /\ \A r \in DOMAIN queue \ Hits(w) : queue'[r] = queue[r]
         /\ queue' = [r \in DOMAIN queue' |-> queue'[r]]
<1>1. pc[w] = "close" /\ queue' = Overlay(queue, Moved(w))
  BY DEF ApplyClose, Ready
<1>2. DOMAIN over[w] = {} /\ at[w] \in Int /\ at[w] >= 1
  BY <1>1 DEF IInv, TypeOK, Local, Unstarted, Serving
<1>3. DOMAIN View(w) = DOMAIN queue /\ \A r \in DOMAIN queue : View(w)[r] = queue[r]
  BY <1>2, ViewFacts
<1>4. Hits(w) = {r \in seen[w] \cap DOMAIN queue : queue[r].pos > at[w]}
  BY <1>1, <1>3 DEF Hits, Where, Below
<1>5. /\ DOMAIN Moved(w) = Hits(w) /\ Moved(w) \in [Hits(w) -> Row]
      /\ \A r \in Hits(w) : /\ Moved(w)[r].item = queue[r].item
                             /\ Moved(w)[r].pos = queue[r].pos - 1
                             /\ Moved(w)[r].pos >= 1
  BY <1>1, <1>3, <1>4, MovedFacts DEF NewPos
<1>6. /\ DOMAIN queue' = DOMAIN queue \cup Hits(w)
      /\ \A r \in Hits(w) : queue'[r] = Moved(w)[r]
      /\ \A r \in DOMAIN queue \ Hits(w) : queue'[r] = queue[r]
      /\ queue' = [r \in DOMAIN queue' |-> queue'[r]]
  <2> DEFINE o == Overlay(queue, Moved(w))
  <2>1. /\ DOMAIN o = DOMAIN queue \cup DOMAIN Moved(w)
        /\ \A r \in DOMAIN Moved(w) : o[r] = Moved(w)[r]
        /\ \A r \in DOMAIN queue \ DOMAIN Moved(w) : o[r] = queue[r]
        /\ o = [r \in DOMAIN o |-> o[r]]
    BY OverlayFacts
  <2>2. queue' = o
    BY <1>1
  <2> HIDE DEF o
  <2> QED
    BY <1>5, <2>1, <2>2
<1> QED
  BY <1>2, <1>4, <1>5, <1>6

LEMMA ApplyCloseOK ==
  ASSUME IInv, NEW w \in Workers, ApplyClose(w)
  PROVE  IInv'
<1>1. \A v \in Workers \ {w} : DOMAIN over[v] \cap Hits(w) = {}
  BY ReadyFree DEF ApplyClose, Writes
<1>2. /\ DOMAIN queue' \subseteq RowIds /\ queue' \in [DOMAIN queue' -> Row]
      /\ \A r \in DOMAIN queue' : queue'[r].pos >= 1
  BY CloseFacts DEF IInv, TypeOK, PositionsPositive
<1>3. \A v \in Workers \ {w} : \A r \in DOMAIN over[v] :
        (r \in DOMAIN queue' <=> r \in DOMAIN queue) /\ (r \in DOMAIN queue => queue'[r] = queue[r])
  BY <1>1, CloseFacts
<1> QED
  BY <1>2, <1>3, ReturnOK DEF ApplyClose

(* A stuttering step changes nothing the invariant reads.                  *)
LEMMA StutterOK == IInv /\ UNCHANGED vars => IInv'
<1> SUFFICES ASSUME IInv, UNCHANGED vars PROVE IInv'
  OBVIOUS
<1>1. TypeOK'
  BY DEF IInv, TypeOK, vars
<1>2. \A w \in Workers : Local(w)'
  BY DEF IInv, vars, Local, Serving, Unstarted
<1>3. OneWriter' /\ PositionsPositive' /\ NoLostShift'
  BY DEF IInv, vars, OneWriter, PositionsPositive, NoLostShift
<1> QED
  BY <1>1, <1>2, <1>3 DEF IInv

LEMMA NextOK == IInv /\ [Next]_vars => IInv'
<1> SUFFICES ASSUME IInv, Next PROVE IInv'
  BY StutterOK
<1>1. PICK w \in Workers : (\E q \in Requests : Start(w, q)) \/ Step(w) \/ Fail(w)
  BY DEF Next
<1>2. CASE \E q \in Requests : Start(w, q)
  BY <1>2, StartOK
<1>3. CASE Fail(w)
  BY <1>3, AbortOK DEF Fail
<1>4. CASE Apply(w)
  BY <1>4, ApplyRoomOK, ApplyLiftOK, ApplyPinOK, ApplyPlaceOK, ApplyDeleteOK,
     ApplyCloseOK, ApplyWipeOK DEF Apply
<1>5. CASE Step(w)
  BY <1>4, <1>5, ResolveOK, ExistsOK, FindOK, InsertOK, CommitOK, ScanOK, AbortOK
     DEF Step, DeadlockAbort
<1> QED
  BY <1>1, <1>2, <1>3, <1>5

-----------------------------------------------------------------------------
(* The queue's variables keep their types.                                 *)
THEOREM TypeCorrect == Spec => []TypeOK
<1>1. IInv => TypeOK
  BY DEF IInv
<1> QED
  BY InitOK, NextOK, <1>1, PTL DEF Spec

(* Whatever handlers interleave or fail, no row goes above the top of the  *)
(* queue.                                                                  *)
THEOREM PositionsStayPositive == Spec => []PositionsPositive
<1>1. IInv => PositionsPositive
  BY DEF IInv
<1> QED
  BY InitOK, NextOK, <1>1, PTL DEF Spec

(* A row that queue_episode or move_queue_episode_to_top pushes down moves *)
(* by exactly one from where it is when the transaction commits.           *)
THEOREM ShiftsAreKept == Spec => []NoLostShift
<1>1. IInv => NoLostShift
  BY DEF IInv
<1> QED
  BY InitOK, NextOK, <1>1, PTL DEF Spec

(* A handler's commit swaps two rows only if it may reorder.               *)
LEMMA CommitNoSwap ==
  ASSUME IInv, NEW w \in Workers, Commit(w)
  PROVE  NoSwap
<1> SUFFICES ASSUME NEW r \in DOMAIN queue \cap DOMAIN queue',
                    NEW s \in DOMAIN queue \cap DOMAIN queue',
                    queue[r].pos < queue[s].pos, ~MayReorder(w, r, s)
             PROVE  queue'[r].pos <= queue'[s].pos
  BY DEF NoSwap
<1>1. pc[w] = "commit" /\ queue' = View(w)
  BY DEF Commit
<1>2. req[w].op \in Shifts
  BY <1>1 DEF IInv, Local, Serving, MayReorder, Shifts
<1>3. ASSUME NEW x \in {r, s}
      PROVE  \/ queue'[x].pos = queue[x].pos
             \/ queue'[x].pos = queue[x].pos + 1
  <2>1. CASE x \in DOMAIN over[w]
    <3>1. queue'[x] = over[w][x]
      BY <1>1, <2>1, ViewFacts
    <3>2. over[w][x].pos = queue[x].pos + 1
      BY <1>1, <1>2, <1>3, <2>1 DEF IInv, NoLostShift, MayReorder
    <3> QED
      BY <3>1, <3>2
  <2>2. CASE x \notin DOMAIN over[w]
    BY <1>1, <1>3, <2>2, ViewFacts
  <2> QED
    BY <2>1, <2>2
<1>4. queue[r].pos \in Int /\ queue[s].pos \in Int
  BY DEF IInv, TypeOK, Row
<1> QED
  BY <1>3, <1>4

LEMMA CloseNoSwap ==
  ASSUME IInv, NEW w \in Workers, ApplyClose(w)
  PROVE  NoSwap
<1> SUFFICES ASSUME NEW r \in DOMAIN queue, NEW s \in DOMAIN queue,
                    queue[r].pos < queue[s].pos
             PROVE  queue'[r].pos <= queue'[s].pos
  BY DEF NoSwap
<1>1. \A x \in {r, s} : queue'[x].pos \in {queue[x].pos, queue[x].pos - 1}
  BY CloseFacts
<1>2. queue[r].pos \in Int /\ queue[s].pos \in Int
  BY DEF IInv, TypeOK, Row
<1> QED
  BY <1>1, <1>2

LEMMA StepNoSwap == IInv /\ [Next]_vars => [NoSwap]_vars
<1> SUFFICES ASSUME IInv, Next PROVE NoSwap
  OBVIOUS
<1>1. PICK w \in Workers : (\E q \in Requests : Start(w, q)) \/ Step(w) \/ Fail(w)
  BY DEF Next
<1>2. CASE Commit(w)
  BY <1>2, CommitNoSwap
<1>3. CASE ApplyClose(w)
  BY <1>3, CloseNoSwap
<1>4. CASE \A r \in DOMAIN queue \cap DOMAIN queue' : queue'[r] = queue[r]
  BY <1>4 DEF NoSwap, IInv, TypeOK, Row
<1>5. Commit(w) \/ ApplyClose(w) \/ \A r \in DOMAIN queue \cap DOMAIN queue' : queue'[r] = queue[r]
  BY <1>1 DEF Start, StartQueue, StartBulk, StartBump, StartRemove, StartWipe, StartReorder,
     Begin, Fail, Step, Resolve, Exists, Find, Insert, Scan, DeadlockAbort, Apply, ApplyRoom,
     ApplyLift, ApplyPin, ApplyPlace, Update, ApplyDelete, ApplyWipe
<1> QED
  BY <1>2, <1>3, <1>4, <1>5

(* No two rows of the queue ever swap unless a request that reorders       *)
(* commits.                                                                *)
THEOREM OrderIsKept == Spec => KeepsOrder
BY InitOK, NextOK, StepNoSwap, PTL DEF Spec, KeepsOrder

-----------------------------------------------------------------------------
(* One request at a time.  Q is the committed table, V what the handler    *)
(* sees of it in its transaction.                                          *)
Alone == \A v, w \in Workers : v = w

(* No client reorders a queue it does not know, or without is_youtube.     *)
TrueToList == FreshLists /\ \A q \in Requests : q.op = "reorder" => q.typed

Table(Q) == \A r \in DOMAIN Q : Q[r].item \in Items /\ Q[r].pos \in Int /\ Q[r].pos >= 1

(* No two rows of an item, or at a position.                               *)
Distinct(Q) ==
  \A r, s \in DOMAIN Q : r # s => Q[r].item # Q[s].item /\ Q[r].pos # Q[s].pos

(* c is the top of the queue, or under a row.                              *)
Cut(Q, c) == c = 1 \/ \E r \in DOMAIN Q : Q[r].pos + 1 = c

New(Q, V) == DOMAIN V \ DOMAIN Q
NewItems(Q, V) == {V[r].item : r \in New(Q, V)}

Keeps(Q, V) == DOMAIN Q \subseteq DOMAIN V /\ \A r \in DOMAIN Q : V[r].item = Q[r].item

Spread(Q, V, c, k) ==
  \A r \in DOMAIN Q : V[r].pos = IF Q[r].pos < c THEN Q[r].pos ELSE Q[r].pos + k

Filled(Q, V, c, e) ==
  /\ \A r \in New(Q, V) : V[r].pos \in c..(e - 1) /\ ~Queued(Q, V[r].item)
  /\ \A p \in c..(e - 1) : \E r \in New(Q, V) : V[r].pos = p

(* The new rows lie together, from some cut up to e; what was queued from  *)
(* that cut on made room for them, and for `more`.                         *)
Added(Q, V, more, e) ==
  /\ Keeps(Q, V) /\ Distinct(V)
  /\ \E c \in 1..e : Cut(Q, c) /\ Spread(Q, V, c, (e - c) + more) /\ Filled(Q, V, c, e)

(* The row of item i is at p.                                              *)
Found(Q, i, p) == \E r \in DOMAIN Q : Q[r].item = i /\ Q[r].pos = p

Same(Q, V) == DOMAIN V = DOMAIN Q /\ Keeps(Q, V)

Lifted(Q, V, p, r) == V[r].pos = IF Q[r].pos < p THEN Q[r].pos + 1 ELSE Q[r].pos

(* Item i, which was at p, is at the top; what was above it is down by one. *)
Pinned(Q, V, i, p) ==
  /\ Same(Q, V)
  /\ \E t \in DOMAIN Q :
       /\ Q[t].item = i /\ Q[t].pos = p /\ V[t].pos = 1
       /\ \A r \in DOMAIN Q \ {t} : Lifted(Q, V, p, r)

(* Item i, which was not queued, is at the top; the others are down by one. *)
Topped(Q, V, i) ==
  Added(Q, V, 0, 2) /\ \A r \in New(Q, V) : V[r].item = i

Names(Q, items) ==
  /\ \A i \in Items : Queued(Q, i) <=> \E k \in DOMAIN items : items[k] = i
  /\ \A k, l \in DOMAIN items : items[k] = items[l] => k = l

(* The first k - 1 entries of the list are where it says; rest is left.    *)
Placed(Q, V, items, rest, k) ==
  /\ Same(Q, V)
  /\ Len(rest) = Len(items) + 1 - k
  /\ \A j \in 1..Len(rest) : rest[j] = items[k - 1 + j]
  /\ \A r \in DOMAIN Q, j \in 1..(k - 1) : items[j] = Q[r].item => V[r].pos = j

(* What one handler has done so far.                                       *)
Statement(w) ==
  LET i == Head(todo[w])
      p == at[w]
      V == View(w)
  IN
  /\ phase[w] = "apply" =>
       pc[w] \in Writes /\ seen[w] = {r \in DOMAIN V : Where(w, V[r])}
  /\ pc[w] = "resolve" /\ req[w].op = "queue" => ~Queued(queue, i)
  /\ pc[w] \in {"exists", "room"} => Added(queue, V, 0, p)
  /\ pc[w] = "insert" => Added(queue, V, 1, p)
  /\ pc[w] \in {"room", "insert"} =>
       ~Queued(V, i) /\ (req[w].op = "bump" => p = 1 /\ New(queue, V) = {})
  /\ pc[w] = "lift" => p > 1 /\ Found(queue, i, p)
  /\ pc[w] = "pin" =>
       p > 1 /\ Found(queue, i, p) /\ Same(queue, V) /\ \A r \in DOMAIN queue : Lifted(queue, V, p, r)
  /\ pc[w] = "place" =>
       Names(queue, req[w].items) /\ Placed(queue, V, req[w].items, todo[w], p)
  /\ pc[w] = "delete" => Found(queue, i, p)
  /\ pc[w] = "close" => \A r \in DOMAIN queue : queue[r].pos # p

(* What is about to be committed.                                          *)
Committing(w) ==
  LET i == Head(todo[w])
      V == View(w)
  IN
  pc[w] = "commit" =>
    /\ req[w].op = "queue" => Added(queue, V, 0, at[w] + 1)
    /\ req[w].op = "bulk" => Added(queue, V, 0, at[w])
    /\ req[w].op = "bump" => Pinned(queue, V, i, at[w]) \/ Topped(queue, V, i)
    /\ req[w].op = "reorder" =>
         Names(queue, req[w].items) /\ Placed(queue, V, req[w].items, todo[w], at[w]) /\ todo[w] = <<>>

SInv == Distinct(queue) /\ \A w \in Workers : Statement(w) /\ Committing(w)

Serial == IInv /\ SInv

-----------------------------------------------------------------------------
(* Tables                                                                  *)

(* A cut, and nothing new yet.                                             *)
LEMMA NothingAdded ==
  ASSUME NEW Q, Table(Q), Distinct(Q), NEW c \in Int, c >= 1, Cut(Q, c)
  PROVE  Added(Q, Q, 0, c)
BY DEF Added, Keeps, New, Spread, Filled, Table

(* Rows from e on move down: there is room for one more at e.              *)
LEMMA RoomMade ==
  ASSUME NEW Q, NEW V, NEW W, Table(Q), Table(V), NEW e \in Int, Added(Q, V, 0, e),
         DOMAIN W = DOMAIN V,
         \A r \in DOMAIN V : /\ W[r].item = V[r].item
                             /\ W[r].pos = IF V[r].pos >= e THEN V[r].pos + 1 ELSE V[r].pos
  PROVE  Added(Q, W, 1, e)
<1>1. PICK c \in 1..e : Cut(Q, c) /\ Spread(Q, V, c, (e - c) + 0) /\ Filled(Q, V, c, e)
  BY DEF Added
<1>2. Keeps(Q, W) /\ New(Q, W) = New(Q, V)
  BY DEF Added, Keeps, New
<1>3. Distinct(W)
  BY DEF Added, Distinct, Table
<1>4. Spread(Q, W, c, (e - c) + 1)
  BY <1>1 DEF Spread, Table, Added, Keeps
<1>5. Filled(Q, W, c, e)
  <2>1. \A r \in New(Q, V) : V[r].pos \in c..(e - 1) /\ W[r].pos = V[r].pos /\ W[r].item = V[r].item
    BY <1>1 DEF Filled, New, Table
  <2> QED
    BY <1>1, <1>2, <2>1 DEF Filled
<1> QED
  BY <1>1, <1>2, <1>3, <1>4, <1>5 DEF Added

(* A row with a new item is put where there is room for it.                *)
LEMMA RoomTaken ==
  ASSUME NEW Q, NEW V, NEW W, Table(Q), Table(V), NEW e \in Int, Added(Q, V, 1, e),
         NEW id, id \notin DOMAIN V, DOMAIN W = DOMAIN V \cup {id},
         \A r \in DOMAIN V : W[r] = V[r],
         W[id].pos = e, ~Queued(V, W[id].item)
  PROVE  Added(Q, W, 0, e + 1)
<1>1. PICK c \in 1..e : Cut(Q, c) /\ Spread(Q, V, c, (e - c) + 1) /\ Filled(Q, V, c, e)
  BY DEF Added
<1>2. Keeps(Q, W) /\ New(Q, W) = New(Q, V) \cup {id}
  BY DEF Added, Keeps, New
<1>3. \A r \in DOMAIN V : V[r].pos # e
  <2>1. \A r \in DOMAIN Q : V[r].pos # e
    BY <1>1 DEF Spread, Table
  <2>2. \A r \in New(Q, V) : V[r].pos # e
    BY <1>1 DEF Filled
  <2> QED
    BY <2>1, <2>2 DEF New
<1>4. Distinct(W)
  BY <1>3 DEF Added, Distinct, Queued
<1>5. Spread(Q, W, c, ((e + 1) - c) + 0)
  BY <1>1 DEF Spread, Added, Keeps
<1>6. Filled(Q, W, c, e + 1)
  <2>1. ~Queued(Q, W[id].item)
    BY DEF Queued, Added, Keeps
  <2>2. \A r \in New(Q, W) : W[r].pos \in c..e /\ ~Queued(Q, W[r].item)
    BY <1>1, <1>2, <2>1 DEF Filled, New
  <2>3. ASSUME NEW p \in c..e PROVE \E r \in New(Q, W) : W[r].pos = p
    <3>1. CASE p = e
      BY <1>2, <3>1
    <3>2. CASE p # e
      <4>1. PICK r \in New(Q, V) : V[r].pos = p
        BY <1>1, <3>2 DEF Filled
      <4> QED
        BY <1>2, <4>1 DEF New
    <3> QED
      BY <3>1, <3>2
  <2> QED
    BY <2>2, <2>3 DEF Filled
<1>7. c \in 1..(e + 1)
  OBVIOUS
<1> QED
  BY <1>1, <1>2, <1>4, <1>5, <1>6, <1>7 DEF Added

(* The row at p goes to the top.                                           *)
LEMMA RowPinned ==
  ASSUME NEW Q, NEW V, NEW W, Table(Q), Distinct(Q), NEW p \in Int, NEW i,
         Found(Q, i, p), Same(Q, V), \A r \in DOMAIN Q : Lifted(Q, V, p, r),
         DOMAIN W = DOMAIN V,
         \A r \in DOMAIN V : W[r].item = V[r].item /\ W[r].pos = IF V[r].item = i THEN 1 ELSE V[r].pos
  PROVE  Pinned(Q, W, i, p)
<1>1. PICK t \in DOMAIN Q : Q[t].item = i /\ Q[t].pos = p
  BY DEF Found
<1>2. Same(Q, W)
  BY DEF Same, Keeps
<1>3. W[t].pos = 1 /\ \A r \in DOMAIN Q \ {t} : Lifted(Q, W, p, r)
  BY <1>1 DEF Same, Keeps, Distinct, Lifted
<1> QED
  BY <1>1, <1>2, <1>3 DEF Pinned

(* The next entry of the list is placed.                                   *)
LEMMA EntryPlaced ==
  ASSUME NEW Q, NEW V, NEW W, NEW items \in Seq(Items), NEW rest \in Seq(Items), NEW k \in Int, k >= 1,
         Table(Q), Names(Q, items), Placed(Q, V, items, rest, k), rest # <<>>,
         DOMAIN W = DOMAIN V,
         \A r \in DOMAIN V : /\ W[r].item = V[r].item
                             /\ W[r].pos = IF V[r].item = Head(rest) THEN k ELSE V[r].pos
  PROVE  Placed(Q, W, items, Tail(rest), k + 1)
<1>1. Same(Q, W)
  BY DEF Same, Placed, Keeps
<1>2. /\ Len(rest) \in Nat /\ Len(rest) >= 1 /\ Len(Tail(rest)) = Len(rest) - 1
      /\ \A j \in 1..Len(Tail(rest)) : Tail(rest)[j] = rest[j + 1]
      /\ Head(rest) = rest[1] /\ Len(items) \in Nat
  BY HeadTailProperties, LenProperties, EmptySeq
<1>3. Head(rest) = items[k] /\ k \in DOMAIN items /\ DOMAIN items = 1..Len(items)
  BY <1>2, LenProperties DEF Placed
<1>4. ASSUME NEW r \in DOMAIN Q, NEW j \in 1..k, items[j] = Q[r].item PROVE W[r].pos = j
  <2>1. V[r].item = Q[r].item /\ r \in DOMAIN V
    BY DEF Placed, Same, Keeps
  <2>2. j \in DOMAIN items /\ (j # k => items[j] # items[k])
    BY <1>3 DEF Names
  <2>3. CASE j = k
    BY <1>3, <1>4, <2>1, <2>3
  <2>4. CASE j # k
    BY <1>3, <1>4, <2>1, <2>2, <2>4 DEF Placed
  <2> QED
    BY <2>3, <2>4
<1>5. Len(Tail(rest)) = Len(items) + 1 - (k + 1)
  BY <1>2 DEF Placed
<1>6. \A j \in 1..Len(Tail(rest)) : Tail(rest)[j] = items[(k + 1) - 1 + j]
  BY <1>2 DEF Placed
<1> QED
  BY <1>1, <1>4, <1>5, <1>6 DEF Placed

(* What is committed has distinct rows.                                    *)
LEMMA PinnedDistinct ==
  ASSUME NEW Q, NEW V, Table(Q), Distinct(Q), NEW i, NEW p \in Int, Pinned(Q, V, i, p)
  PROVE  Distinct(V)
<1>1. PICK t \in DOMAIN Q : /\ Q[t].item = i /\ Q[t].pos = p /\ V[t].pos = 1
                            /\ \A r \in DOMAIN Q \ {t} : Lifted(Q, V, p, r)
  BY DEF Pinned
<1>2. \A r \in DOMAIN Q \ {t} : V[r].pos >= 2 /\ V[r].pos \in Int
  BY <1>1 DEF Lifted, Table, Distinct
<1> QED
  BY <1>1, <1>2 DEF Pinned, Same, Keeps, Distinct, Lifted, Table

LEMMA PlacedAll ==
  ASSUME NEW Q, NEW V, Table(Q), Distinct(Q), NEW items \in Seq(Items), NEW k \in Int,
         Names(Q, items), Placed(Q, V, items, <<>>, k)
  PROVE  /\ Distinct(V)
         /\ \A r \in DOMAIN Q : V[r].pos \in 1..Len(items) /\ items[V[r].pos] = Q[r].item
<1>1. k = Len(items) + 1 /\ DOMAIN items = 1..Len(items) /\ Len(items) \in Nat
  BY EmptySeq, LenProperties DEF Placed
<1>2. ASSUME NEW r \in DOMAIN Q PROVE V[r].pos \in 1..Len(items) /\ items[V[r].pos] = Q[r].item
  <2>1. PICK j \in DOMAIN items : items[j] = Q[r].item
    BY DEF Names, Queued, Table
  <2> QED
    BY <1>1, <2>1 DEF Placed
<1> QED
  BY <1>2 DEF Distinct, Placed, Same, Keeps

(* A remove: the gap it leaves, and the gap closed.                        *)
LEMMA ClosedDistinct ==
  ASSUME NEW Q, NEW W, Table(Q), Distinct(Q), NEW p \in Int, \A r \in DOMAIN Q : Q[r].pos # p,
         DOMAIN W = DOMAIN Q,
         \A r \in DOMAIN Q : /\ W[r].item = Q[r].item
                             /\ W[r].pos = IF Q[r].pos > p THEN Q[r].pos - 1 ELSE Q[r].pos
  PROVE  Distinct(W)
BY DEF Distinct, Table

-----------------------------------------------------------------------------
(* A handler that is alone waits for nobody and sees what it left.         *)
LEMMA AloneFree ==
  ASSUME Alone, NEW w \in Workers
  PROVE  WaitsFor(w) = {} /\ ~Deadlocked(w) /\ \A v \in Workers : v = w
<1>1. \A v \in Workers : WaitsFor(v) = {}
  BY DEF Alone, WaitsFor
<1>2. ~Deadlocked(w)
  <2> SUFFICES ASSUME NEW n \in 2..Cardinality(Workers), NEW c \in [1..n -> Workers],
                      \A k \in 1..n : c[(k % n) + 1] \in WaitsFor(c[k])
               PROVE  FALSE
    BY DEF Deadlocked
  <2>1. 1 \in 1..n
    OBVIOUS
  <2> QED
    BY <1>1, <2>1
<1> QED
  BY <1>1, <1>2 DEF Alone

LEMMA ViewTable ==
  ASSUME IInv, NEW w \in Workers
  PROVE  /\ Table(queue) /\ Table(View(w)) /\ DOMAIN queue \subseteq DOMAIN View(w)
         /\ DOMAIN over[w] = {} => View(w) = queue
<1>1. Table(queue) /\ Table(View(w)) /\ DOMAIN queue \subseteq DOMAIN View(w)
  <2>1. \A r \in DOMAIN queue : queue[r] \in Row /\ queue[r].pos >= 1
    BY DEF IInv, TypeOK, PositionsPositive
  <2>2. \A r \in DOMAIN View(w) : View(w)[r] \in Row /\ View(w)[r].pos >= 1
    BY ViewFacts
  <2>3. DOMAIN queue \subseteq DOMAIN View(w)
    BY ViewFacts
  <2> QED
    BY <2>1, <2>2, <2>3 DEF Table, Row
<1>2. ASSUME DOMAIN over[w] = {} PROVE View(w) = queue
  <2>1. DOMAIN View(w) = DOMAIN queue /\ \A r \in DOMAIN queue : View(w)[r] = queue[r]
    BY <1>2, ViewFacts
  <2>2. View(w) \in [DOMAIN View(w) -> Row] /\ queue \in [DOMAIN queue -> Row]
    BY ViewFacts DEF IInv, TypeOK
  <2> QED
    BY <2>1, <2>2
<1> QED
  BY <1>1, <1>2

(* A statement that is about to apply changes the rows that its WHERE      *)
(* clause selects now.                                                     *)
LEMMA HitsNow ==
  ASSUME Serial, NEW w \in Workers, phase[w] = "apply"
  PROVE  Hits(w) = {r \in DOMAIN View(w) : Where(w, View(w)[r])}
BY DEF Serial, SInv, Statement, Hits

(* The handler's view after an UPDATE of its transaction.                  *)
LEMMA UpdateView ==
  ASSUME IInv, IInv', NEW w \in Workers, NEW s \in {"room", "lift", "pin", "place"},
         NEW t \in Rest \cup Writes, Update(w, s, t)
  PROVE  /\ DOMAIN View(w)' = DOMAIN View(w)
         /\ \A r \in Hits(w) : View(w)'[r].item = View(w)[r].item /\ View(w)'[r].pos = NewPos(w, View(w)[r])
         /\ \A r \in DOMAIN View(w) \ Hits(w) : View(w)'[r] = View(w)[r]
         /\ queue' = queue /\ req' = req /\ pc[w] = s /\ phase[w] = "apply"
         /\ pc'[w] = t /\ phase'[w] = "scan"
<1>1. /\ DOMAIN over'[w] = DOMAIN over[w] \cup Hits(w)
      /\ \A r \in Hits(w) : over'[w][r] = Moved(w)[r]
      /\ \A r \in DOMAIN over[w] \ Hits(w) : over'[w][r] = over[w][r]
      /\ queue' = queue /\ req' = req /\ pc'[w] = t
  BY UpdateFacts DEF IInv, TypeOK
<1>2. pc[w] = s /\ phase[w] = "apply" /\ phase'[w] = "scan"
  BY DEF Update, Ready, Rescan, IInv, TypeOK
<1>3. /\ Hits(w) \subseteq DOMAIN View(w)
      /\ \A r \in Hits(w) : Moved(w)[r].item = View(w)[r].item /\ Moved(w)[r].pos = NewPos(w, View(w)[r])
  BY <1>2, MovedFacts
<1>4. /\ DOMAIN View(w) = DOMAIN queue \cup DOMAIN over[w]
      /\ \A r \in DOMAIN over[w] : View(w)[r] = over[w][r]
      /\ \A r \in DOMAIN queue \ DOMAIN over[w] : View(w)[r] = queue[r]
  BY ViewFacts
<1>5. /\ DOMAIN View(w)' = DOMAIN queue' \cup DOMAIN over'[w]
      /\ \A r \in DOMAIN over'[w] : View(w)'[r] = over'[w][r]
      /\ \A r \in DOMAIN queue' \ DOMAIN over'[w] : View(w)'[r] = queue'[r]
  <2> DEFINE f == queue'
             g == over'[w]
             o == Overlay(f, g)
  <2>1. /\ DOMAIN o = DOMAIN f \cup DOMAIN g
        /\ \A r \in DOMAIN g : o[r] = g[r]
        /\ \A r \in DOMAIN f \ DOMAIN g : o[r] = f[r]
        /\ o = [r \in DOMAIN o |-> o[r]]
    <3> HIDE DEF f, g
    <3> QED
      BY OverlayFacts
  <2>2. View(w)' = o
    BY DEF View
  <2> HIDE DEF o
  <2> QED
    BY <2>1, <2>2
<1> QED
  BY <1>1, <1>2, <1>3, <1>4, <1>5

LEMMA SerialStart ==
  ASSUME TrueToList, Alone, Serial, NEW w \in Workers, NEW q \in Requests, Start(w, q)
  PROVE  SInv'
<1> DEFINE i == Head(q.items)
<1>1. q \in Request /\ (q.op \in {"queue", "bump", "remove"} => q.items # <<>>)
  BY RequestsAssumption, Singleton
<1>2. /\ pc[w] = "idle" /\ phase[w] = "scan" /\ DOMAIN over[w] = {}
  <2>1. pc[w] = "idle"
    BY DEF Start, StartQueue, StartBulk, StartBump, StartRemove, StartWipe, StartReorder, Begin
  <2>2. phase[w] \in {"scan", "apply"}
    BY DEF Serial, IInv, TypeOK
  <2> QED
    BY <2>1, <2>2 DEF Serial, SInv, Statement, IInv, Local, Unstarted, Writes
<1>3. View(w) = queue
  BY <1>2, ViewTable DEF Serial
<1>4. ASSUME NEW s, NEW p, Begin(w, q, s, p)
      PROVE  /\ pc'[w] = s /\ req'[w] = q /\ todo'[w] = q.items /\ at'[w] = p /\ phase'[w] = "scan"
             /\ queue' = queue /\ View(w)' = queue
  BY <1>2, <1>3, <1>4 DEF Begin, Goto, Serial, IInv, TypeOK, View
<1>5. ASSUME Statement(w)', Committing(w)', queue' = queue PROVE SInv'
  BY <1>5, AloneFree DEF SInv, Serial
<1>6. CASE StartQueue(w, q)
  <2>1. Begin(w, q, "resolve", 0) /\ ~Queued(queue, i) /\ q.op = "queue"
    BY <1>6 DEF StartQueue
  <2>2. Statement(w)' /\ Committing(w)'
    BY <1>4, <2>1 DEF Statement, Committing
  <2> QED
    BY <1>4, <1>5, <2>1, <2>2
<1>7. CASE StartBulk(w, q) \/ StartBump(w, q) \/ StartWipe(w, q)
  <2>1. PICK s \in {"resolve", "find", "wipe"} : Begin(w, q, s, 0) /\ q.op # "queue"
    BY <1>7 DEF StartBulk, StartBump, StartWipe
  <2>2. Statement(w)' /\ Committing(w)'
    BY <1>4, <2>1 DEF Statement, Committing
  <2> QED
    BY <1>4, <1>5, <2>1, <2>2
<1>8. CASE StartRemove(w, q)
  <2>1. PICK p \in PosOf(queue, i) : Begin(w, q, "delete", p)
    BY <1>8 DEF StartRemove
  <2>2. Found(queue, i, p)
    BY DEF PosOf, Found
  <2>3. Statement(w)' /\ Committing(w)'
    BY <1>4, <2>1, <2>2 DEF Statement, Committing
  <2> QED
    BY <1>4, <1>5, <2>1, <2>3
<1>9. CASE StartReorder(w, q)
  <2>1. Begin(w, q, "place", 1) /\ Lists(q)
    BY <1>9 DEF StartReorder, TrueToList
  <2>2. Names(queue, q.items)
    BY <2>1 DEF Lists, Names
  <2>3. Placed(queue, queue, q.items, q.items, 1)
    BY <1>1, LenProperties DEF Placed, Same, Keeps, Request
  <2>4. Statement(w)' /\ Committing(w)'
    BY <1>4, <2>1, <2>2, <2>3 DEF Statement, Committing
  <2> QED
    BY <1>4, <1>5, <2>1, <2>4
<1> QED
  BY <1>6, <1>7, <1>8, <1>9 DEF Start

LEMMA SerialResolve ==
  ASSUME Alone, Serial, NEW w \in Workers, Resolve(w)
  PROVE  SInv'
<1>1. /\ pc[w] = "resolve" /\ DOMAIN over[w] = {} /\ req[w].op \in {"queue", "bulk"} /\ phase[w] = "scan"
  <2>1. pc[w] = "resolve" /\ phase[w] \in {"scan", "apply"}
    BY DEF Resolve, Serial, IInv, TypeOK
  <2> QED
    BY <2>1 DEF Serial, SInv, Statement, IInv, Local, Unstarted, Serving, Writes
<1>2. View(w) = queue /\ Table(queue) /\ Distinct(queue)
  BY <1>1, ViewTable DEF Serial, SInv
<1>3. ASSUME NEW p \in Slots(req[w]) PROVE p \in Int /\ p >= 1 /\ Cut(queue, p)
  <2>1. CASE Slots(req[w]) = {1}
    BY <1>2, <2>1 DEF Cut, Table
  <2>2. CASE Slots(req[w]) = {m + 1 : m \in Highest(queue)}
    BY <1>2, <2>2 DEF Highest, Cut, Table
  <2>3. CASE Slots(req[w]) = {m + 1 : m \in PosOf(queue, req[w].anchor)}
    BY <1>2, <2>3 DEF PosOf, Cut, Table
  <2> QED
    BY <2>1, <2>2, <2>3 DEF Slots
<1>4. PICK p \in Slots(req[w]) : at' = [at EXCEPT ![w] = p]
  BY DEF Resolve
<1>5. Added(queue, queue, 0, p)
  BY <1>2, <1>3, NothingAdded
<1>6. /\ queue' = queue /\ View(w)' = queue /\ at'[w] = p /\ req' = req /\ todo' = todo
      /\ pc'[w] = (IF req[w].op = "bulk" THEN "exists" ELSE "room") /\ phase' = phase
  BY <1>2, <1>4 DEF Resolve, Goto, Serial, IInv, TypeOK, View
<1>7. req[w].op = "queue" => ~Queued(queue, Head(todo[w]))
  BY <1>1 DEF Serial, SInv, Statement
<1>8. Statement(w)' /\ Committing(w)'
  BY <1>1, <1>5, <1>6, <1>7 DEF Statement, Committing
<1> QED
  BY <1>6, <1>8, AloneFree DEF SInv, Serial

LEMMA SerialExists ==
  ASSUME Alone, Serial, NEW w \in Workers, Exists(w)
  PROVE  SInv'
<1>1. /\ pc[w] = "exists" /\ req[w].op = "bulk" /\ phase[w] = "scan"
  <2>1. pc[w] = "exists" /\ phase[w] \in {"scan", "apply"}
    BY DEF Exists, Serial, IInv, TypeOK
  <2> QED
    BY <2>1 DEF Serial, SInv, Statement, IInv, Local, Serving, Writes
<1>2. Added(queue, View(w), 0, at[w])
  BY <1>1 DEF Serial, SInv, Statement
<1>3. queue' = queue /\ View(w)' = View(w) /\ at' = at /\ req' = req /\ phase' = phase
  BY DEF Exists, View
<1>4. \/ todo' = todo /\ pc'[w] = "commit"
      \/ pc'[w] = "exists"
      \/ todo' = todo /\ pc'[w] = "room" /\ ~Queued(View(w), Head(todo[w]))
  BY <1>1 DEF Exists, Goto, Serial, IInv, TypeOK
<1>5. Statement(w)' /\ Committing(w)'
  BY <1>1, <1>2, <1>3, <1>4 DEF Statement, Committing
<1> QED
  BY <1>3, <1>5, AloneFree DEF SInv, Serial

LEMMA SerialFind ==
  ASSUME Alone, Serial, NEW w \in Workers, Find(w)
  PROVE  SInv'
<1> DEFINE i == Head(todo[w])
<1>1. /\ pc[w] = "find" /\ req[w].op = "bump" /\ phase[w] = "scan" /\ DOMAIN over[w] = {}
  <2>1. pc[w] = "find" /\ phase[w] \in {"scan", "apply"}
    BY DEF Find, Serial, IInv, TypeOK
  <2> QED
    BY <2>1 DEF Serial, SInv, Statement, IInv, Local, Unstarted, Serving, Writes
<1>2. View(w) = queue /\ Table(queue) /\ Distinct(queue)
  BY <1>1, ViewTable DEF Serial, SInv
<1>3. queue' = queue /\ View(w)' = queue /\ todo' = todo /\ req' = req /\ phase' = phase
  BY <1>2 DEF Find, View
<1>4. ASSUME PosOf(queue, i) = {} PROVE SInv'
  <2>1. pc'[w] = "room" /\ at'[w] = 1
    BY <1>1, <1>4 DEF Find, Goto, Serial, IInv, TypeOK
  <2>2. ~Queued(queue, i) /\ Cut(queue, 1) /\ New(queue, queue) = {}
    BY <1>2, <1>4 DEF PosOf, Queued, Cut, Table, New
  <2>3. Added(queue, queue, 0, 1)
    BY <1>2, <2>2, NothingAdded
  <2>4. Statement(w)' /\ Committing(w)'
    BY <1>1, <1>3, <2>1, <2>2, <2>3 DEF Statement, Committing
  <2> QED
    BY <1>3, <2>4, AloneFree DEF SInv, Serial
<1>5. ASSUME PosOf(queue, i) # {} PROVE SInv'
  <2>1. PICK p \in PosOf(queue, i) : pc'[w] = (IF p > 1 THEN "lift" ELSE "commit") /\ at'[w] = p
    BY <1>1, <1>5 DEF Find, Goto, Serial, IInv, TypeOK
  <2>2. Found(queue, i, p) /\ p \in Int /\ p >= 1
    BY <1>2 DEF PosOf, Found, Table
  <2>3. p = 1 => Pinned(queue, queue, i, p)
    BY <1>2, <2>2 DEF Pinned, Same, Keeps, Lifted, Found, Table
  <2>4. Statement(w)' /\ Committing(w)'
    BY <1>1, <1>3, <2>1, <2>2, <2>3 DEF Statement, Committing
  <2> QED
    BY <1>3, <2>4, AloneFree DEF SInv, Serial
<1> QED
  BY <1>4, <1>5

LEMMA SerialScan ==
  ASSUME Alone, Serial, NEW w \in Workers, Scan(w)
  PROVE  SInv'
<1>1. /\ pc[w] \in Writes /\ phase'[w] = "apply" /\ pc' = pc
      /\ seen'[w] = {r \in DOMAIN View(w) : Where(w, View(w)[r])}
      /\ queue' = queue /\ View(w)' = View(w) /\ req' = req /\ todo' = todo /\ at' = at
  BY DEF Scan, Serial, IInv, TypeOK, View
<1>2. \A r : Where(w, View(w)[r])' <=> Where(w, View(w)[r])
  BY <1>1 DEF Where, Below
<1>3. Statement(w)' /\ Committing(w)'
  BY <1>1, <1>2 DEF Statement, Committing, Serial, SInv
<1> QED
  BY <1>1, <1>3, AloneFree DEF SInv, Serial

LEMMA SerialRoom ==
  ASSUME Alone, Serial, IInv', NEW w \in Workers, ApplyRoom(w)
  PROVE  SInv'
<1> DEFINE Q == queue
           V == View(w)
           W == View(w)'
           e == at[w]
<1>1. /\ DOMAIN W = DOMAIN V
      /\ \A r \in Hits(w) : W[r].item = V[r].item /\ W[r].pos = NewPos(w, V[r])
      /\ \A r \in DOMAIN V \ Hits(w) : W[r] = V[r]
      /\ queue' = queue /\ req' = req /\ pc[w] = "room" /\ phase[w] = "apply"
      /\ pc'[w] = "insert" /\ phase'[w] = "scan" /\ todo' = todo /\ at' = at
  BY UpdateView DEF ApplyRoom, Rest, Serial
<1>2. /\ Added(Q, V, 0, e) /\ ~Queued(V, Head(todo[w])) /\ e \in Int
      /\ req[w].op = "bump" => e = 1 /\ New(Q, V) = {}
  BY <1>1 DEF Serial, SInv, Statement, IInv, TypeOK
<1>3. Table(Q) /\ Table(V)
  BY ViewTable DEF Serial
<1>4. \A r \in DOMAIN V : r \in Hits(w) <=> V[r].pos >= e
  BY <1>1, <1>2, <1>3, HitsNow DEF Where, Table
<1>5. \A r \in DOMAIN V : /\ W[r].item = V[r].item
                          /\ W[r].pos = IF V[r].pos >= e THEN V[r].pos + 1 ELSE V[r].pos
  BY <1>1, <1>4 DEF NewPos, Down
<1>6. ~Queued(W, Head(todo[w])) /\ New(Q, W) = New(Q, V)
  BY <1>1, <1>2, <1>5 DEF Queued, New
<1>7. Added(Q, W, 1, e)
  <2> HIDE DEF Q, V, W, e
  <2> QED
    BY <1>1, <1>2, <1>3, <1>5, RoomMade
<1>8. Statement(w)' /\ Committing(w)'
  BY <1>1, <1>2, <1>6, <1>7 DEF Statement, Committing
<1> QED
  BY <1>1, <1>8, AloneFree DEF SInv, Serial

LEMMA SerialLift ==
  ASSUME Alone, Serial, IInv', NEW w \in Workers, ApplyLift(w)
  PROVE  SInv'
<1> DEFINE W == View(w)'
<1>1. /\ DOMAIN W = DOMAIN View(w)
      /\ \A r \in Hits(w) : W[r].item = View(w)[r].item /\ W[r].pos = NewPos(w, View(w)[r])
      /\ \A r \in DOMAIN View(w) \ Hits(w) : W[r] = View(w)[r]
      /\ queue' = queue /\ req' = req /\ pc[w] = "lift" /\ phase[w] = "apply"
      /\ pc'[w] = "pin" /\ phase'[w] = "scan" /\ todo' = todo /\ at' = at
  BY UpdateView DEF ApplyLift, Writes, Serial
<1>2. View(w) = queue
  BY <1>1, ViewTable DEF Serial, IInv, Local, Unstarted
<1>3. at[w] > 1 /\ Found(queue, Head(todo[w]), at[w])
  BY <1>1 DEF Serial, SInv, Statement
<1>4. Hits(w) = {r \in DOMAIN queue : queue[r].pos < at[w]}
  BY <1>1, <1>2, HitsNow DEF Where
<1>5. Same(queue, W) /\ \A r \in DOMAIN queue : Lifted(queue, W, at[w], r)
  BY <1>1, <1>2, <1>4 DEF Same, Keeps, Lifted, NewPos, Down
<1>6. Statement(w)' /\ Committing(w)'
  BY <1>1, <1>3, <1>5 DEF Statement, Committing
<1> QED
  BY <1>1, <1>6, AloneFree DEF SInv, Serial

LEMMA SerialPin ==
  ASSUME Alone, Serial, IInv', NEW w \in Workers, ApplyPin(w)
  PROVE  SInv'
<1> DEFINE Q == queue
           V == View(w)
           W == View(w)'
           i == Head(todo[w])
           p == at[w]
<1>1. /\ DOMAIN W = DOMAIN V
      /\ \A r \in Hits(w) : W[r].item = V[r].item /\ W[r].pos = NewPos(w, V[r])
      /\ \A r \in DOMAIN V \ Hits(w) : W[r] = V[r]
      /\ queue' = queue /\ req' = req /\ pc[w] = "pin" /\ phase[w] = "apply"
      /\ pc'[w] = "commit" /\ phase'[w] = "scan" /\ todo' = todo /\ at' = at
  BY UpdateView DEF ApplyPin, Rest, Serial
<1>2. /\ Found(Q, i, p) /\ Same(Q, V) /\ (\A r \in DOMAIN Q : Lifted(Q, V, p, r)) /\ Distinct(Q)
      /\ p \in Int /\ req[w].op = "bump"
  BY <1>1 DEF Serial, SInv, Statement, IInv, TypeOK, Local, Serving
<1>3. Hits(w) = {r \in DOMAIN V : V[r].item = i}
  BY <1>1, HitsNow DEF Where
<1>4. \A r \in DOMAIN V : W[r].item = V[r].item /\ W[r].pos = IF V[r].item = i THEN 1 ELSE V[r].pos
  BY <1>1, <1>3 DEF NewPos
<1>5. Table(Q)
  BY ViewTable DEF Serial
<1>6. Pinned(Q, W, i, p)
  <2> HIDE DEF Q, V, W, i, p
  <2> QED
    BY <1>1, <1>2, <1>4, <1>5, RowPinned
<1>7. Statement(w)' /\ Committing(w)'
  BY <1>1, <1>2, <1>6 DEF Statement, Committing
<1> QED
  BY <1>1, <1>7, AloneFree DEF SInv, Serial

LEMMA SerialPlace ==
  ASSUME TrueToList, Alone, Serial, IInv', NEW w \in Workers, ApplyPlace(w)
  PROVE  SInv'
<1> DEFINE Q == queue
           V == View(w)
           W == View(w)'
           items == req[w].items
           rest == todo[w]
           k == at[w]
           t == IF Len(rest) = 1 THEN "commit" ELSE "place"
<1>1. /\ DOMAIN W = DOMAIN V
      /\ \A r \in Hits(w) : W[r].item = V[r].item /\ W[r].pos = NewPos(w, V[r])
      /\ \A r \in DOMAIN V \ Hits(w) : W[r] = V[r]
      /\ queue' = queue /\ req' = req /\ pc[w] = "place" /\ phase[w] = "apply"
      /\ pc'[w] = t /\ phase'[w] = "scan"
  BY UpdateView DEF ApplyPlace, Rest, Writes, Serial
<1>2. todo'[w] = Tail(rest) /\ at'[w] = k + 1
  BY DEF ApplyPlace, Serial, IInv, TypeOK
<1>3. /\ Names(Q, items) /\ Placed(Q, V, items, rest, k) /\ rest # <<>> /\ rest \in Seq(Items)
      /\ k \in Int /\ k >= 1 /\ req[w] \in Requests /\ req[w].op = "reorder" /\ req[w].typed
  BY <1>1 DEF Serial, SInv, Statement, IInv, TypeOK, Local, Serving, TrueToList
<1>4. items \in Seq(Items) /\ Table(Q)
  BY <1>3, RequestsAssumption, ViewTable DEF Request, Serial
<1>5. Hits(w) = {r \in DOMAIN V : V[r].item = Head(rest)}
  BY <1>1, <1>3, HitsNow DEF Where
<1>6. \A r \in DOMAIN V : W[r].item = V[r].item /\ W[r].pos = IF V[r].item = Head(rest) THEN k ELSE V[r].pos
  BY <1>1, <1>5 DEF NewPos
<1>7. Placed(Q, W, items, Tail(rest), k + 1)
  <2> HIDE DEF Q, V, W, items, rest, k
  <2> QED
    BY <1>1, <1>3, <1>4, <1>6, EntryPlaced
<1>8. t = "commit" => Tail(rest) = <<>>
  <2>1. Tail(rest) \in Seq(Items) /\ Len(Tail(rest)) = Len(rest) - 1 /\ Len(rest) \in Nat
    BY <1>3, HeadTailProperties, LenProperties
  <2>2. Len(Tail(rest)) = 0 => Tail(rest) = <<>>
    BY <2>1, EmptySeq
  <2> QED
    BY <2>1, <2>2
<1>9. Statement(w)' /\ Committing(w)'
  BY <1>1, <1>2, <1>3, <1>7, <1>8 DEF Statement, Committing
<1> QED
  BY <1>1, <1>9, AloneFree DEF SInv, Serial

LEMMA SerialInsert ==
  ASSUME Alone, Serial, IInv', NEW w \in Workers, Insert(w)
  PROVE  SInv'
<1> DEFINE id == CHOOSE r \in FreshIds : TRUE
           i == Head(todo[w])
           e == at[w]
           row == [item |-> i, pos |-> e]
           new == [r \in {id} |-> row]
           Q == queue
           V == View(w)
           W == View(w)'
<1>1. /\ over' = [over EXCEPT ![w] = Overlay(over[w], new)]
      /\ pc[w] = "insert" /\ queue' = queue /\ req' = req /\ phase' = phase
      /\ pc'[w] = (IF req[w].op = "bulk" THEN "exists" ELSE "commit")
      /\ req[w].op = "bulk" => at'[w] = e + 1
      /\ req[w].op # "bulk" => todo' = todo /\ at' = at
  BY DEF Insert, Goto, Serial, IInv, TypeOK
<1>3. id \in RowIds \ DOMAIN queue /\ \A v \in Workers : id \notin DOMAIN over[v]
  BY DEF Insert, FreshIds
<1> HIDE DEF id
<1>4. /\ DOMAIN over'[w] = DOMAIN over[w] \cup {id}
      /\ over'[w][id] = row
      /\ \A r \in DOMAIN over[w] : over'[w][r] = over[w][r]
  <2> DEFINE o == Overlay(over[w], new)
  <2>1. DOMAIN new = {id} /\ new[id] = row
    OBVIOUS
  <2> HIDE DEF new
  <2>2. /\ DOMAIN o = DOMAIN over[w] \cup DOMAIN new
        /\ \A r \in DOMAIN new : o[r] = new[r]
        /\ \A r \in DOMAIN over[w] \ DOMAIN new : o[r] = over[w][r]
        /\ o = [r \in DOMAIN o |-> o[r]]
    BY OverlayFacts
  <2>3. over'[w] = o
    BY <1>1 DEF Serial, IInv, TypeOK
  <2> HIDE DEF o, row
  <2> QED
    BY <1>3, <2>1, <2>2, <2>3
<1>5. /\ DOMAIN V = DOMAIN queue \cup DOMAIN over[w]
      /\ \A r \in DOMAIN over[w] : V[r] = over[w][r]
      /\ \A r \in DOMAIN queue \ DOMAIN over[w] : V[r] = queue[r]
  BY ViewFacts DEF Serial
<1>6. /\ DOMAIN W = DOMAIN queue' \cup DOMAIN over'[w]
      /\ \A r \in DOMAIN over'[w] : W[r] = over'[w][r]
      /\ \A r \in DOMAIN queue' \ DOMAIN over'[w] : W[r] = queue'[r]
  <2> DEFINE f == queue'
             g == over'[w]
             o == Overlay(f, g)
  <2>1. /\ DOMAIN o = DOMAIN f \cup DOMAIN g
        /\ \A r \in DOMAIN g : o[r] = g[r]
        /\ \A r \in DOMAIN f \ DOMAIN g : o[r] = f[r]
        /\ o = [r \in DOMAIN o |-> o[r]]
    <3> HIDE DEF f, g
    <3> QED
      BY OverlayFacts
  <2>2. W = o
    BY DEF View
  <2> HIDE DEF o, W
  <2> QED
    BY <2>1, <2>2
<1>7. /\ DOMAIN W = DOMAIN V \cup {id} /\ id \notin DOMAIN V /\ W[id] = row
      /\ \A r \in DOMAIN V : W[r] = V[r]
  <2> HIDE DEF V, W, row
  <2> QED
    BY <1>1, <1>3, <1>4, <1>5, <1>6
<1>8. W[id].item = i /\ W[id].pos = e
  BY <1>7
<1>9. /\ Added(Q, V, 1, e) /\ ~Queued(V, i) /\ e \in Int
      /\ req[w].op = "bump" => e = 1 /\ New(Q, V) = {}
      /\ phase[w] = "scan" /\ req[w].op \in {"queue", "bulk", "bump"}
  <2>1. Statement(w) /\ Serving(w) /\ at[w] \in Nat /\ phase[w] \in {"scan", "apply"}
    BY <1>1 DEF Serial, SInv, IInv, TypeOK, Local
  <2>2. "insert" \notin Writes
    BY DEF Writes
  <2> QED
    BY <1>1, <2>1, <2>2 DEF Statement, Serving
<1>10. Table(Q) /\ Table(V)
  BY ViewTable DEF Serial
<1>11. Added(Q, W, 0, e + 1)
  <2> HIDE DEF Q, V, W, e, i
  <2> QED
    BY <1>7, <1>8, <1>9, <1>10, RoomTaken
<1>12. req[w].op = "bump" => Topped(Q, W, i)
  <2> SUFFICES ASSUME req[w].op = "bump" PROVE Topped(Q, W, i)
    OBVIOUS
  <2>1. Added(Q, W, 0, 2)
    BY <1>9, <1>11
  <2>2. \A r \in New(Q, W) : W[r].item = i
    BY <1>7, <1>8, <1>9 DEF New
  <2> QED
    BY <2>1, <2>2 DEF Topped
<1>13. Statement(w)' /\ Committing(w)'
  BY <1>1, <1>9, <1>11, <1>12 DEF Statement, Committing
<1> QED
  BY <1>1, <1>13, AloneFree DEF SInv, Serial

(* What a handler commits has one row for an item and one for a position.  *)
LEMMA CommitsDistinct ==
  ASSUME Alone, Serial, NEW w \in Workers, pc[w] = "commit"
  PROVE  Distinct(View(w))
<1> DEFINE Q == queue
           V == View(w)
           i == Head(todo[w])
           p == at[w]
           items == req[w].items
<1>1. req[w] \in Requests /\ req[w].op \in {"queue", "bulk", "bump", "reorder"} /\ p \in Int
  BY DEF Serial, IInv, TypeOK, Local, Serving
<1>2. Table(Q) /\ Distinct(Q) /\ items \in Seq(Items)
  <2>1. Table(Q) /\ Distinct(Q)
    BY ViewTable DEF Serial, SInv
  <2> QED
    BY <1>1, <2>1, RequestsAssumption DEF Request
<1>3. Committing(w)
  BY DEF Serial, SInv
<1>4. CASE Pinned(Q, V, i, p)
  <2> HIDE DEF Q, V, i, p
  <2> QED
    BY <1>1, <1>2, <1>4, PinnedDistinct DEF V
<1>5. CASE Names(Q, items) /\ Placed(Q, V, items, <<>>, p)
  <2> HIDE DEF Q, V, items, p
  <2> QED
    BY <1>1, <1>2, <1>5, PlacedAll DEF V
<1> QED
  BY <1>1, <1>3, <1>4, <1>5 DEF Committing, Added, Topped

(* A handler that returns leaves nothing of its own.                       *)
LEMMA SerialReturn ==
  ASSUME Alone, Serial, NEW w \in Workers, Reset(w), Distinct(queue')
  PROVE  SInv'
<1>1. pc'[w] = "idle" /\ phase'[w] = "scan"
  BY DEF Reset, Goto, Serial, IInv, TypeOK
<1>2. Statement(w)' /\ Committing(w)'
  BY <1>1 DEF Statement, Committing
<1> QED
  BY <1>2, AloneFree DEF SInv

LEMMA SerialDelete ==
  ASSUME Alone, Serial, NEW w \in Workers, ApplyDelete(w)
  PROVE  /\ SInv'
         /\ \E r \in DOMAIN queue : /\ queue[r].item = Head(todo[w]) /\ queue[r].pos = at[w]
                                    /\ Hits(w) = {r}
<1>1. /\ pc[w] = "delete" /\ phase[w] = "apply" /\ pc'[w] = "close" /\ phase'[w] = "scan" /\ at' = at
      /\ queue' = [r \in DOMAIN queue \ Hits(w) |-> queue[r]]
  BY DEF ApplyDelete, Ready, Goto, Rescan, Serial, IInv, TypeOK
<1>2. View(w) = queue
  BY <1>1, ViewTable DEF Serial, IInv, Local, Unstarted
<1>3. PICK t \in DOMAIN queue : queue[t].item = Head(todo[w]) /\ queue[t].pos = at[w]
  BY <1>1 DEF Serial, SInv, Statement, Found
<1>4. Hits(w) = {t}
  <2>1. Hits(w) = {r \in DOMAIN queue : queue[r].item = Head(todo[w])}
    BY <1>1, <1>2, HitsNow DEF Where
  <2> QED
    BY <1>3, <2>1 DEF Serial, SInv, Distinct
<1>5. Distinct(queue)' /\ \A r \in DOMAIN queue' : queue'[r].pos # at'[w]
  BY <1>1, <1>3, <1>4 DEF Serial, SInv, Distinct
<1>6. Statement(w)' /\ Committing(w)'
  BY <1>1, <1>5 DEF Statement, Committing
<1> QED
  BY <1>3, <1>4, <1>5, <1>6, AloneFree DEF SInv

(* The gap that a remove closes.                                           *)
LEMMA SerialCloses ==
  ASSUME Alone, Serial, NEW w \in Workers, ApplyClose(w)
  PROVE  /\ DOMAIN queue' = DOMAIN queue /\ at[w] \in Int
         /\ \A r \in DOMAIN queue :
              /\ queue[r].pos # at[w] /\ queue'[r].item = queue[r].item
              /\ queue'[r].pos = IF queue[r].pos > at[w] THEN queue[r].pos - 1 ELSE queue[r].pos
<1>1. pc[w] = "close" /\ phase[w] = "apply"
  BY DEF ApplyClose, Ready
<1>2. View(w) = queue
  BY <1>1, ViewTable DEF Serial, IInv, Local, Unstarted
<1>3. Hits(w) = {r \in DOMAIN queue : queue[r].pos > at[w]}
  BY <1>1, <1>2, HitsNow DEF Where, Below
<1>4. \A r \in DOMAIN queue : queue[r].pos # at[w]
  BY <1>1 DEF Serial, SInv, Statement
<1> QED
  BY <1>3, <1>4, CloseFacts DEF Serial

LEMMA SerialClose ==
  ASSUME Alone, Serial, NEW w \in Workers, ApplyClose(w)
  PROVE  SInv'
<1> DEFINE Q == queue
           W == queue'
           p == at[w]
<1>1. Table(Q) /\ Distinct(Q)
  BY ViewTable DEF Serial, SInv
<1>2. Distinct(W)
  <2>1. /\ DOMAIN W = DOMAIN Q /\ p \in Int
        /\ \A r \in DOMAIN Q : /\ Q[r].pos # p /\ W[r].item = Q[r].item
                               /\ W[r].pos = IF Q[r].pos > p THEN Q[r].pos - 1 ELSE Q[r].pos
    BY SerialCloses
  <2> HIDE DEF Q, W, p
  <2> QED
    BY <1>1, <2>1, ClosedDistinct
<1> QED
  BY <1>2, SerialReturn DEF ApplyClose

LEMMA SerialNext ==
  ASSUME TrueToList, Alone, Serial, Next
  PROVE  SInv'
<1>0. IInv'
  BY NextOK DEF Serial
<1>1. PICK w \in Workers : (\E q \in Requests : Start(w, q)) \/ Step(w) \/ Fail(w)
  BY DEF Next
<1>2. CASE \E q \in Requests : Start(w, q)
  BY <1>2, SerialStart
<1>3. CASE Fail(w) \/ DeadlockAbort(w)
  <2>1. Reset(w) /\ queue' = queue
    BY <1>3 DEF Fail, DeadlockAbort
  <2> QED
    BY <2>1, SerialReturn DEF Serial, SInv
<1>4. CASE Commit(w)
  <2>1. Reset(w) /\ queue' = View(w) /\ pc[w] = "commit"
    BY <1>4 DEF Commit
  <2> QED
    BY <2>1, CommitsDistinct, SerialReturn
<1>5. CASE ApplyWipe(w)
  <2>1. Reset(w) /\ queue' = [r \in DOMAIN queue \ Hits(w) |-> queue[r]]
    BY <1>5 DEF ApplyWipe
  <2>2. Distinct(queue')
    BY <2>1 DEF Serial, SInv, Distinct
  <2> QED
    BY <2>1, <2>2, SerialReturn
<1>6. CASE Apply(w)
  BY <1>0, <1>5, <1>6, SerialRoom, SerialLift, SerialPin, SerialPlace, SerialDelete, SerialClose DEF Apply
<1>7. CASE Step(w)
  BY <1>0, <1>3, <1>4, <1>6, <1>7, SerialResolve, SerialExists, SerialFind, SerialInsert, SerialScan DEF Step
<1> QED
  BY <1>1, <1>2, <1>3, <1>7

LEMMA SerialStutter == Serial /\ UNCHANGED vars => Serial'
<1> SUFFICES ASSUME Serial, UNCHANGED vars PROVE Serial'
  OBVIOUS
<1>1. IInv'
  BY StutterOK DEF Serial
<1>2. queue' = queue /\ pc' = pc /\ phase' = phase /\ req' = req /\ todo' = todo /\ at' = at
      /\ seen' = seen /\ over' = over
  BY DEF vars
<1>3. ASSUME NEW w \in Workers PROVE Statement(w)' /\ Committing(w)'
  <2>1. View(w)' = View(w) /\ \A r : Where(w, View(w)[r])' <=> Where(w, View(w)[r])
    BY <1>2 DEF View, Where, Below
  <2>2. Statement(w) /\ Committing(w)
    BY DEF Serial, SInv
  <2> QED
    BY <1>2, <2>1, <2>2 DEF Statement, Committing
<1> QED
  BY <1>1, <1>2, <1>3 DEF Serial, SInv

LEMMA SerialInit == Init => Serial
<1> SUFFICES ASSUME Init PROVE Serial
  OBVIOUS
<1>1. Distinct(queue)
  BY DEF Init, Empty, Distinct
<1>2. ASSUME NEW w \in Workers PROVE Statement(w) /\ Committing(w)
  BY DEF Init, Statement, Committing
<1> QED
  BY <1>1, <1>2, InitOK DEF Serial, SInv

-----------------------------------------------------------------------------
(* The order of the rows is the abstract order of the items.               *)
LEMMA PairsEqual ==
  ASSUME NEW X, NEW Y, X \subseteq Items \X Items, Y \subseteq Items \X Items,
         \A a, b \in Items : <<a, b>> \in X <=> <<a, b>> \in Y
  PROVE  X = Y
OBVIOUS

LEMMA AheadFacts ==
  ASSUME NEW Q, Table(Q), Distinct(Q)
  PROVE  /\ AheadIn(Q) \subseteq Items \X Items
         /\ \A a, b : <<a, b>> \in AheadIn(Q) <=>
              \E r, s \in DOMAIN Q : Q[r].item = a /\ Q[s].item = b /\ Q[r].pos < Q[s].pos
         /\ \A r, s \in DOMAIN Q :
              <<Q[r].item, Q[s].item>> \in AheadIn(Q) <=> Q[r].pos < Q[s].pos
<1>1. AheadIn(Q) \subseteq Items \X Items
  BY DEF AheadIn
<1>2. \A a, b : <<a, b>> \in AheadIn(Q) <=>
        \E r, s \in DOMAIN Q : Q[r].item = a /\ Q[s].item = b /\ Q[r].pos < Q[s].pos
  BY DEF AheadIn, Table
<1> QED
  BY <1>1, <1>2 DEF Distinct

LEMMA ItemFacts ==
  ASSUME NEW Q, Table(Q)
  PROVE  ItemsIn(Q) \subseteq Items /\ \A a : a \in ItemsIn(Q) <=> \E r \in DOMAIN Q : Q[r].item = a
BY DEF ItemsIn, Table

(* It is strict and total, on the items and on any set of them.            *)
LEMMA AheadStrict ==
  ASSUME NEW Q, Table(Q), Distinct(Q), NEW S \in SUBSET ItemsIn(Q)
  PROVE  Order!StrictOrder(AheadIn(Q) \cap (S \X S), S)
<1> DEFINE R == AheadIn(Q) \cap (S \X S)
<1>1. \A a \in S : \E r \in DOMAIN Q : Q[r].item = a
  BY ItemFacts
<1>2. \A a, b \in S : <<a, b>> \in R <=> <<a, b>> \in AheadIn(Q)
  OBVIOUS
<1>3. \A a \in S : <<a, a>> \notin R
  BY <1>1, <1>2, AheadFacts DEF Table
<1>4. \A a, b \in S : a # b => <<a, b>> \in R \/ <<b, a>> \in R
  <2> SUFFICES ASSUME NEW a \in S, NEW b \in S, a # b PROVE <<a, b>> \in R \/ <<b, a>> \in R
    OBVIOUS
  <2>1. PICK r \in DOMAIN Q, s \in DOMAIN Q : Q[r].item = a /\ Q[s].item = b
    BY <1>1
  <2>2. Q[r].pos < Q[s].pos \/ Q[s].pos < Q[r].pos
    BY <2>1 DEF Table, Distinct
  <2> QED
    BY <1>2, <2>1, <2>2, AheadFacts
<1>5. \A a, b, c \in S : <<a, b>> \in R /\ <<b, c>> \in R => <<a, c>> \in R
  <2> SUFFICES ASSUME NEW a \in S, NEW b \in S, NEW c \in S, <<a, b>> \in R, <<b, c>> \in R
               PROVE  <<a, c>> \in R
    OBVIOUS
  <2>1. PICK r \in DOMAIN Q, s \in DOMAIN Q, t \in DOMAIN Q :
          Q[r].item = a /\ Q[s].item = b /\ Q[t].item = c
    BY <1>1
  <2>2. Q[r].pos < Q[s].pos /\ Q[s].pos < Q[t].pos
    BY <1>2, <2>1, AheadFacts
  <2>3. Q[r].pos < Q[t].pos
    BY <2>2 DEF Table
  <2> QED
    BY <1>2, <2>1, <2>3, AheadFacts
<1>6. R \subseteq S \X S
  OBVIOUS
<1> HIDE DEF R
<1> QED
  BY <1>3, <1>4, <1>5, <1>6 DEF R, Order!StrictOrder

(* Rows that keep their item and their order.                              *)
LEMMA SameOrder ==
  ASSUME NEW Q, NEW W, Table(Q), Table(W), Distinct(Q), Distinct(W), DOMAIN W = DOMAIN Q,
         \A r \in DOMAIN Q : W[r].item = Q[r].item,
         \A r, s \in DOMAIN Q : W[r].pos < W[s].pos <=> Q[r].pos < Q[s].pos
  PROVE  ItemsIn(W) = ItemsIn(Q) /\ AheadIn(W) = AheadIn(Q)
<1>1. ItemsIn(W) = ItemsIn(Q)
  BY DEF ItemsIn
<1>2. \A a, b \in Items : <<a, b>> \in AheadIn(W) <=> <<a, b>> \in AheadIn(Q)
  <2>1. \A a, b : <<a, b>> \in AheadIn(W) <=>
          \E r, s \in DOMAIN W : W[r].item = a /\ W[s].item = b /\ W[r].pos < W[s].pos
    BY AheadFacts
  <2>2. \A a, b : <<a, b>> \in AheadIn(Q) <=>
          \E r, s \in DOMAIN Q : Q[r].item = a /\ Q[s].item = b /\ Q[r].pos < Q[s].pos
    BY AheadFacts
  <2> SUFFICES ASSUME NEW a \in Items, NEW b \in Items
               PROVE  <<a, b>> \in AheadIn(W) <=> <<a, b>> \in AheadIn(Q)
    OBVIOUS
  <2>3. ASSUME NEW r \in DOMAIN Q, NEW s \in DOMAIN Q
        PROVE  /\ W[r].item = Q[r].item /\ W[s].item = Q[s].item
               /\ W[r].pos < W[s].pos <=> Q[r].pos < Q[s].pos
    OBVIOUS
  <2>4. <<a, b>> \in AheadIn(W) => <<a, b>> \in AheadIn(Q)
    BY <2>1, <2>2, <2>3
  <2>5. <<a, b>> \in AheadIn(Q) => <<a, b>> \in AheadIn(W)
    BY <2>1, <2>2, <2>3
  <2> QED
    BY <2>4, <2>5
<1>3. AheadIn(W) \subseteq Items \X Items /\ AheadIn(Q) \subseteq Items \X Items
  BY AheadFacts
<1> QED
  BY <1>1, <1>2, <1>3, PairsEqual

(* Adding: the new items, S, follow those that are before the cut.         *)
Follows(Q, W, S, c, P) ==
  /\ Cut(Q, c) /\ \A r \in DOMAIN Q : Q[r].item \in P <=> Q[r].pos < c
  /\ AheadIn(W) = AheadIn(Q) \cup (AheadIn(W) \cap (S \X S)) \cup (P \X S)
                    \cup (S \X (ItemsIn(Q) \ P))

LEMMA AddedOrder ==
  ASSUME NEW Q, NEW W, Table(Q), Table(W), Distinct(Q), NEW e \in Int, Added(Q, W, 0, e),
         NEW S, S = NewItems(Q, W)
  PROVE  /\ S \subseteq ItemsIn(W) /\ S \cap ItemsIn(Q) = {} /\ ItemsIn(W) = ItemsIn(Q) \cup S
         /\ \E c \in 1..e : \E P \in SUBSET ItemsIn(Q) : Follows(Q, W, S, c, P)
<1>1. PICK c \in 1..e : Cut(Q, c) /\ Spread(Q, W, c, (e - c) + 0) /\ Filled(Q, W, c, e)
  BY DEF Added
<1>2. Keeps(Q, W) /\ Distinct(W)
  BY DEF Added
<1>0. S = {W[r].item : r \in New(Q, W)}
  BY DEF NewItems
<1>3. S \subseteq ItemsIn(W) /\ S \cap ItemsIn(Q) = {} /\ ItemsIn(W) = ItemsIn(Q) \cup S
  <2>1. \A r \in New(Q, W) : ~Queued(Q, W[r].item)
    BY <1>1 DEF Filled
  <2>2. S \cap ItemsIn(Q) = {}
    BY <1>0, <2>1 DEF Queued, ItemsIn
  <2>3. DOMAIN W = DOMAIN Q \cup New(Q, W)
    BY <1>2 DEF Keeps, New
  <2>4. ItemsIn(W) = ItemsIn(Q) \cup S
    BY <1>0, <1>2, <2>3 DEF Keeps, ItemsIn
  <2> QED
    BY <2>2, <2>4
<1> DEFINE P == {Q[r].item : r \in {s \in DOMAIN Q : Q[s].pos < c}}
           R == AheadIn(W) \cap (S \X S)
           New0 == New(Q, W)
           Rel == AheadIn(Q) \cup R \cup (P \X S) \cup (S \X (ItemsIn(Q) \ P))
<1>4. P \subseteq ItemsIn(Q) /\ \A r \in DOMAIN Q : Q[r].item \in P <=> Q[r].pos < c
  BY DEF ItemsIn, Distinct
<1>5. \A r \in DOMAIN Q : W[r].item = Q[r].item /\ r \in DOMAIN W /\ Q[r].item \in ItemsIn(Q) \ S
  BY <1>2, <1>3 DEF Keeps, ItemsIn
<1>6. \A r \in New0 : W[r].item \in S /\ r \in DOMAIN W /\ W[r].item \notin ItemsIn(Q)
  BY <1>0, <1>3 DEF New
<1>7. \A r, s \in DOMAIN Q : W[r].pos < W[s].pos <=> Q[r].pos < Q[s].pos
  BY <1>1 DEF Spread, Table
<1>8. \A r \in New0, s \in DOMAIN Q : /\ W[s].pos < W[r].pos <=> Q[s].pos < c
                                      /\ W[r].pos < W[s].pos <=> ~(Q[s].pos < c)
  BY <1>1 DEF Spread, Filled, Table
<1>9. DOMAIN W = DOMAIN Q \cup New0
  BY <1>2 DEF Keeps, New
<1>10. /\ AheadIn(W) \subseteq Items \X Items /\ AheadIn(Q) \subseteq Items \X Items
       /\ ItemsIn(W) \subseteq Items /\ ItemsIn(Q) \subseteq Items
  BY <1>2, AheadFacts, ItemFacts
<1>11. ASSUME NEW r \in DOMAIN W, NEW s \in DOMAIN W
       PROVE  <<W[r].item, W[s].item>> \in AheadIn(W) <=> <<W[r].item, W[s].item>> \in Rel
  <2>0. <<W[r].item, W[s].item>> \in AheadIn(W) <=> W[r].pos < W[s].pos
    BY <1>2, AheadFacts
  <2>1. CASE r \in DOMAIN Q /\ s \in DOMAIN Q
    <3>1. <<Q[r].item, Q[s].item>> \in AheadIn(Q) <=> Q[r].pos < Q[s].pos
      BY <2>1, AheadFacts
    <3> QED
      BY <1>4, <1>5, <1>7, <2>0, <2>1, <3>1
  <2>2. CASE r \in New0 /\ s \in DOMAIN Q
    <3>1. <<W[r].item, W[s].item>> \notin AheadIn(Q)
      BY <1>6, <2>2, AheadFacts, ItemFacts
    <3> QED
      BY <1>4, <1>5, <1>6, <1>8, <2>0, <2>2, <3>1
  <2>3. CASE r \in DOMAIN Q /\ s \in New0
    <3>1. <<W[r].item, W[s].item>> \notin AheadIn(Q)
      BY <1>6, <2>3, AheadFacts, ItemFacts
    <3> QED
      BY <1>4, <1>5, <1>6, <1>8, <2>0, <2>3, <3>1
  <2>4. CASE r \in New0 /\ s \in New0
    <3>1. <<W[r].item, W[s].item>> \notin AheadIn(Q)
      BY <1>6, <2>4, AheadFacts, ItemFacts
    <3> QED
      BY <1>4, <1>6, <2>4, <3>1
  <2> QED
    BY <1>9, <2>1, <2>2, <2>3, <2>4
<1>12. \A a, b \in Items : <<a, b>> \in AheadIn(W) => a \in ItemsIn(W) /\ b \in ItemsIn(W)
  BY <1>2, AheadFacts, ItemFacts
<1>13. \A a, b \in Items : <<a, b>> \in Rel => a \in ItemsIn(W) /\ b \in ItemsIn(W)
  <2>1. \A a, b \in Items : <<a, b>> \in AheadIn(Q) => a \in ItemsIn(Q) /\ b \in ItemsIn(Q)
    BY AheadFacts, ItemFacts
  <2> QED
    BY <1>3, <1>4, <2>1
<1>14. Rel \subseteq Items \X Items
  BY <1>3, <1>4, <1>10
<1>15. \A a, b \in Items : <<a, b>> \in AheadIn(W) <=> <<a, b>> \in Rel
  <2>1. \A a \in ItemsIn(W) : \E r \in DOMAIN W : W[r].item = a
    BY ItemFacts
  <2> HIDE DEF Rel
  <2> QED
    BY <1>11, <1>12, <1>13, <2>1
<1>16. AheadIn(W) = Rel
  <2> HIDE DEF Rel
  <2> QED
    BY <1>10, <1>14, <1>15, PairsEqual
<1> HIDE DEF P
<1>17. Follows(Q, W, S, c, P)
  BY <1>1, <1>4, <1>16 DEF Follows
<1> QED
  BY <1>1, <1>3, <1>4, <1>17

(* Bringing an item to the top: the others keep their order.               *)
LEMMA TopOrder ==
  ASSUME NEW Q, NEW W, Table(Q), Table(W), Distinct(Q), Distinct(W), NEW t \in DOMAIN W,
         DOMAIN W = DOMAIN Q \cup {t},
         \A r \in DOMAIN Q : W[r].item = Q[r].item,
         \A r \in DOMAIN Q \ {t} : W[t].pos < W[r].pos,
         \A r, s \in DOMAIN Q \ {t} : W[r].pos < W[s].pos <=> Q[r].pos < Q[s].pos,
         NEW i, i = W[t].item
  PROVE  /\ ItemsIn(W) = ItemsIn(Q) \cup {i}
         /\ AheadIn(W) = {p \in AheadIn(Q) : p[1] # i /\ p[2] # i} \cup ({i} \X (ItemsIn(Q) \ {i}))
<1> DEFINE Rel == {p \in AheadIn(Q) : p[1] # i /\ p[2] # i} \cup ({i} \X (ItemsIn(Q) \ {i}))
<1>1. ItemsIn(W) = ItemsIn(Q) \cup {i}
  BY DEF ItemsIn
<1>2. \A a, b : <<a, b>> \in AheadIn(Q) <=>
        \E r, s \in DOMAIN Q : Q[r].item = a /\ Q[s].item = b /\ Q[r].pos < Q[s].pos
  BY AheadFacts
<1>3. \A a, b : <<a, b>> \in AheadIn(W) <=>
        \E r, s \in DOMAIN W : W[r].item = a /\ W[s].item = b /\ W[r].pos < W[s].pos
  BY AheadFacts
<1>4. \A a : a \in ItemsIn(Q) \ {i} <=> \E r \in DOMAIN Q \ {t} : Q[r].item = a
  BY ItemFacts DEF Distinct
<1>5. ASSUME NEW a, NEW b
      PROVE  <<a, b>> \in AheadIn(W) <=>
               \/ a # i /\ b # i /\ <<a, b>> \in AheadIn(Q)
               \/ a = i /\ b \in ItemsIn(Q) \ {i}
  <2>1. ASSUME <<a, b>> \in AheadIn(W)
        PROVE  \/ a # i /\ b # i /\ <<a, b>> \in AheadIn(Q)
               \/ a = i /\ b \in ItemsIn(Q) \ {i}
    <3>1. PICK r \in DOMAIN W, s \in DOMAIN W : W[r].item = a /\ W[s].item = b /\ W[r].pos < W[s].pos
      BY <1>3, <2>1
    <3>2. s # t
      BY <3>1 DEF Table
    <3>3. CASE r = t
      BY <1>4, <3>1, <3>2, <3>3
    <3>4. CASE r # t
      <4>1. Q[r].item = a /\ Q[s].item = b /\ Q[r].pos < Q[s].pos /\ r \in DOMAIN Q /\ s \in DOMAIN Q
        BY <3>1, <3>2, <3>4
      <4>2. a # i /\ b # i
        BY <3>1, <3>2, <3>4 DEF Distinct
      <4> QED
        BY <1>2, <4>1, <4>2
    <3> QED
      BY <3>3, <3>4
  <2>2. ASSUME a # i, b # i, <<a, b>> \in AheadIn(Q) PROVE <<a, b>> \in AheadIn(W)
    <3>1. PICK r \in DOMAIN Q, s \in DOMAIN Q : Q[r].item = a /\ Q[s].item = b /\ Q[r].pos < Q[s].pos
      BY <1>2, <2>2
    <3>2. r # t /\ s # t
      BY <2>2, <3>1
    <3> QED
      BY <1>3, <3>1, <3>2
  <2>3. ASSUME a = i, b \in ItemsIn(Q) \ {i} PROVE <<a, b>> \in AheadIn(W)
    BY <1>3, <1>4, <2>3
  <2> QED
    BY <2>1, <2>2, <2>3
<1>6. \A a, b : <<a, b>> \in Rel <=>
               \/ a # i /\ b # i /\ <<a, b>> \in AheadIn(Q)
               \/ a = i /\ b \in ItemsIn(Q) \ {i}
  OBVIOUS
<1>7. AheadIn(W) \subseteq Items \X Items /\ Rel \subseteq Items \X Items
  BY AheadFacts, ItemFacts DEF Table
<1> HIDE DEF Rel
<1>8. AheadIn(W) = Rel
  BY <1>5, <1>6, <1>7, PairsEqual
<1> QED
  BY <1>1, <1>8 DEF Rel

(* Removing rows: those that stay keep their order.                        *)
DropItems(Q, H) == {Q[r].item : r \in DOMAIN Q \cap H}

LEMMA DropOrder ==
  ASSUME NEW Q, NEW W, NEW H, Table(Q), Distinct(Q),
         DOMAIN W = DOMAIN Q \ H, \A r \in DOMAIN W : W[r] = Q[r],
         NEW S, S = DropItems(Q, H)
  PROVE  /\ ItemsIn(W) = ItemsIn(Q) \ S
         /\ AheadIn(W) = {p \in AheadIn(Q) : p[1] \notin S /\ p[2] \notin S}
<1> DEFINE Rel == {p \in AheadIn(Q) : p[1] \notin S /\ p[2] \notin S}
<1>2. Table(W) /\ Distinct(W)
  BY DEF Table, Distinct
<1>3. \A r \in DOMAIN Q : Q[r].item \in S <=> r \in H
  BY DEF Distinct, DropItems
<1>4. ItemsIn(W) = ItemsIn(Q) \ S
  BY <1>3 DEF ItemsIn, DropItems
<1>5. \A a, b : <<a, b>> \in AheadIn(Q) <=>
        \E r, s \in DOMAIN Q : Q[r].item = a /\ Q[s].item = b /\ Q[r].pos < Q[s].pos
  BY AheadFacts
<1>6. \A a, b : <<a, b>> \in AheadIn(W) <=>
        \E r, s \in DOMAIN W : W[r].item = a /\ W[s].item = b /\ W[r].pos < W[s].pos
  BY <1>2, AheadFacts
<1>7. ASSUME NEW a, NEW b
      PROVE  <<a, b>> \in AheadIn(W) <=> <<a, b>> \in AheadIn(Q) /\ a \notin S /\ b \notin S
  <2>1. ASSUME <<a, b>> \in AheadIn(W) PROVE <<a, b>> \in AheadIn(Q) /\ a \notin S /\ b \notin S
    <3>1. PICK r \in DOMAIN W, s \in DOMAIN W : W[r].item = a /\ W[s].item = b /\ W[r].pos < W[s].pos
      BY <1>6, <2>1
    <3>2. r \in DOMAIN Q /\ s \in DOMAIN Q /\ W[r] = Q[r] /\ W[s] = Q[s] /\ r \notin H /\ s \notin H
      BY <3>1
    <3> QED
      BY <1>3, <1>5, <3>1, <3>2
  <2>2. ASSUME <<a, b>> \in AheadIn(Q), a \notin S, b \notin S PROVE <<a, b>> \in AheadIn(W)
    <3>1. PICK r \in DOMAIN Q, s \in DOMAIN Q : Q[r].item = a /\ Q[s].item = b /\ Q[r].pos < Q[s].pos
      BY <1>5, <2>2
    <3>2. r \in DOMAIN W /\ s \in DOMAIN W /\ W[r] = Q[r] /\ W[s] = Q[s]
      BY <1>3, <2>2, <3>1
    <3> QED
      BY <1>6, <3>1, <3>2
  <2> QED
    BY <2>1, <2>2
<1>8. \A a, b : <<a, b>> \in Rel <=> <<a, b>> \in AheadIn(Q) /\ a \notin S /\ b \notin S
  OBVIOUS
<1>9. AheadIn(W) \subseteq Items \X Items /\ Rel \subseteq Items \X Items
  BY <1>2, AheadFacts
<1> HIDE DEF Rel
<1>10. AheadIn(W) = Rel
  BY <1>7, <1>8, <1>9, PairsEqual
<1> QED
  BY <1>4, <1>10 DEF Rel

-----------------------------------------------------------------------------
(* Every step is an operation of the play order, or none of its business.  *)
Tables == Table(queue) /\ Distinct(queue)

LEMMA TablesNow == Serial => Tables
<1> SUFFICES ASSUME Serial PROVE Tables
  OBVIOUS
<1>1. \A r \in DOMAIN queue : queue[r] \in Row /\ queue[r].pos >= 1
  BY DEF Serial, IInv, TypeOK, PositionsPositive
<1> QED
  BY <1>1 DEF Serial, SInv, Tables, Table, Row

LEMMA CutPrefix ==
  ASSUME Tables, NEW c \in Int, Cut(queue, c), NEW P \in SUBSET ItemsIn(queue),
         \A r \in DOMAIN queue : queue[r].item \in P <=> queue[r].pos < c
  PROVE  P \in Order!Cuts
<1>1. \A a : a \in ItemsIn(queue) <=> \E r \in DOMAIN queue : queue[r].item = a
  BY ItemFacts DEF Tables
<1>2. CASE c = 1
  <2>1. P = {}
    BY <1>1, <1>2 DEF Tables, Table
  <2> QED
    BY <2>1 DEF Order!Cuts
<1>3. CASE \E r \in DOMAIN queue : queue[r].pos + 1 = c
  <2>1. PICK t \in DOMAIN queue : queue[t].pos + 1 = c
    BY <1>3
  <2>2. \A r \in DOMAIN queue : queue[r].pos < c <=> r = t \/ queue[r].pos < queue[t].pos
    BY <2>1 DEF Tables, Table, Distinct
  <2>3. \A r \in DOMAIN queue :
          <<queue[r].item, queue[t].item>> \in AheadIn(queue) <=> queue[r].pos < queue[t].pos
    BY AheadFacts DEF Tables
  <2>4. \A r \in DOMAIN queue : r = t <=> queue[r].item = queue[t].item
    BY DEF Tables, Distinct
  <2>5. P = Order!UpTo(queue[t].item)
    BY <1>1, <2>2, <2>3, <2>4 DEF Order!UpTo
  <2> QED
    BY <1>1, <2>5 DEF Order!Cuts
<1> QED
  BY <1>2, <1>3 DEF Cut

LEMMA OrderKept ==
  ASSUME Tables, Tables', DOMAIN queue' = DOMAIN queue,
         \A r \in DOMAIN queue : queue'[r].item = queue[r].item,
         \A r, s \in DOMAIN queue : queue'[r].pos < queue'[s].pos <=> queue[r].pos < queue[s].pos
  PROVE  UNCHANGED Order!vars
<1> DEFINE Q == queue
           W == queue'
<1>1. Table(Q) /\ Distinct(Q) /\ Table(W) /\ Distinct(W)
  BY DEF Tables
<1>2. ItemsIn(W) = ItemsIn(Q) /\ AheadIn(W) = AheadIn(Q)
  <2>1. DOMAIN W = DOMAIN Q /\ \A r \in DOMAIN Q : W[r].item = Q[r].item
    OBVIOUS
  <2>2. \A r, s \in DOMAIN Q : W[r].pos < W[s].pos <=> Q[r].pos < Q[s].pos
    OBVIOUS
  <2> HIDE DEF Q, W
  <2> QED
    BY <1>1, <2>1, <2>2, SameOrder
<1> QED
  BY <1>2 DEF Order!vars

LEMMA AddStep ==
  ASSUME Tables, Tables', NEW e \in Int, Added(queue, queue', 0, e)
  PROVE  [Order!Next]_(Order!vars)
<1> DEFINE Q == queue
           W == queue'
           S == NewItems(Q, W)
<1>1. Table(Q) /\ Distinct(Q) /\ Table(W) /\ Distinct(W) /\ Added(Q, W, 0, e)
  BY DEF Tables
<1>2. CASE New(Q, W) = {}
  <2>1. PICK c \in 1..e : Spread(Q, W, c, (e - c) + 0) /\ Filled(Q, W, c, e)
    BY <1>1 DEF Added
  <2>2. c = e
    <3>1. c \in c..(e - 1) => FALSE
      BY <1>2, <2>1 DEF Filled
    <3> QED
      BY <3>1
  <2>3. \A r \in DOMAIN Q : W[r].pos = Q[r].pos
    BY <1>1, <2>1, <2>2 DEF Spread, Table
  <2>4. DOMAIN W = DOMAIN Q /\ \A r \in DOMAIN Q : W[r].item = Q[r].item
    BY <1>1, <1>2 DEF Added, Keeps, New
  <2> QED
    BY <2>3, <2>4, OrderKept
<1>3. CASE New(Q, W) # {}
  <2>1. /\ S \subseteq ItemsIn(W) /\ S \cap ItemsIn(Q) = {} /\ ItemsIn(W) = ItemsIn(Q) \cup S
        /\ \E c \in 1..e : \E P \in SUBSET ItemsIn(Q) : Follows(Q, W, S, c, P)
    <3> DEFINE T == S
    <3>1. T = NewItems(Q, W)
      OBVIOUS
    <3> HIDE DEF Q, W, T
    <3>2. /\ T \subseteq ItemsIn(W) /\ T \cap ItemsIn(Q) = {} /\ ItemsIn(W) = ItemsIn(Q) \cup T
          /\ \E c \in 1..e : \E P \in SUBSET ItemsIn(Q) : Follows(Q, W, T, c, P)
      BY <1>1, <3>1, AddedOrder
    <3> QED
      BY <3>2 DEF T
  <2>2. S # {}
    BY <1>3 DEF NewItems
  <2>3. PICK c \in 1..e, P \in SUBSET ItemsIn(Q) :
          /\ Cut(Q, c) /\ \A r \in DOMAIN Q : Q[r].item \in P <=> Q[r].pos < c
          /\ AheadIn(W) = AheadIn(Q) \cup (AheadIn(W) \cap (S \X S)) \cup (P \X S)
                            \cup (S \X (ItemsIn(Q) \ P))
    <3> HIDE DEF S, Q, W
    <3> QED
      BY <2>1 DEF Follows
  <2>4. P \in Order!Cuts
    BY <2>3, CutPrefix
  <2>5. Order!StrictOrder(AheadIn(W) \cap (S \X S), S)
    <3> HIDE DEF S, W
    <3> QED
      BY <1>1, <2>1, AheadStrict
  <2>6. S \subseteq Items
    <3> HIDE DEF S, W
    <3> QED
      BY <1>1, <2>1, ItemFacts
  <2> HIDE DEF S
  <2>7. Order!Add(S, P)
    BY <2>1, <2>2, <2>3, <2>5 DEF Order!Add
  <2> QED
    BY <2>4, <2>6, <2>7 DEF Order!Next
<1> QED
  BY <1>2, <1>3

LEMMA TopStep ==
  ASSUME Tables, Tables', NEW t \in DOMAIN queue',
         DOMAIN queue' = DOMAIN queue \cup {t},
         \A r \in DOMAIN queue : queue'[r].item = queue[r].item,
         \A r \in DOMAIN queue \ {t} : queue'[t].pos < queue'[r].pos,
         \A r, s \in DOMAIN queue \ {t} : queue'[r].pos < queue'[s].pos <=> queue[r].pos < queue[s].pos
  PROVE  Order!Next
<1> DEFINE Q == queue
           W == queue'
           i == W[t].item
<1>1. /\ Table(Q) /\ Distinct(Q) /\ Table(W) /\ Distinct(W) /\ t \in DOMAIN W
      /\ DOMAIN W = DOMAIN Q \cup {t}
      /\ \A r \in DOMAIN Q : W[r].item = Q[r].item
      /\ \A r \in DOMAIN Q \ {t} : W[t].pos < W[r].pos
      /\ \A r, s \in DOMAIN Q \ {t} : W[r].pos < W[s].pos <=> Q[r].pos < Q[s].pos
  BY DEF Tables
<1>2. i \in Items
  BY <1>1 DEF Table
<1>3. /\ ItemsIn(W) = ItemsIn(Q) \cup {i}
      /\ AheadIn(W) = {p \in AheadIn(Q) : p[1] # i /\ p[2] # i} \cup ({i} \X (ItemsIn(Q) \ {i}))
  <2>1. i = W[t].item
    OBVIOUS
  <2> HIDE DEF Q, W, i
  <2> QED
    BY <1>1, <2>1, TopOrder
<1> HIDE DEF i
<1>4. Order!Bump(i)
  BY <1>3 DEF Order!Bump
<1> QED
  BY <1>2, <1>4 DEF Order!Next

LEMMA DropStep ==
  ASSUME Tables, NEW H, queue' = [r \in DOMAIN queue \ H |-> queue[r]]
  PROVE  Order!Next
<1> DEFINE Q == queue
           W == queue'
           S == DropItems(Q, H)
<1>1. /\ Table(Q) /\ Distinct(Q) /\ DOMAIN W = DOMAIN Q \ H /\ \A r \in DOMAIN W : W[r] = Q[r]
      /\ S \subseteq Items
  BY DEF Tables, Table, DropItems
<1>2. /\ ItemsIn(W) = ItemsIn(Q) \ S
      /\ AheadIn(W) = {p \in AheadIn(Q) : p[1] \notin S /\ p[2] \notin S}
  <2> DEFINE T == S
  <2>1. T = DropItems(Q, H)
    OBVIOUS
  <2> HIDE DEF Q, W, T
  <2>2. /\ ItemsIn(W) = ItemsIn(Q) \ T
        /\ AheadIn(W) = {p \in AheadIn(Q) : p[1] \notin T /\ p[2] \notin T}
    BY <1>1, <2>1, DropOrder
  <2> QED
    BY <2>2 DEF T
<1> HIDE DEF S
<1>3. Order!Drop(S)
  BY <1>2 DEF Order!Drop
<1> QED
  BY <1>1, <1>3 DEF Order!Next

LEMMA ReorderStep ==
  ASSUME Tables, Tables', DOMAIN queue' = DOMAIN queue,
         \A r \in DOMAIN queue : queue'[r].item = queue[r].item
  PROVE  Order!Next
<1> DEFINE Q == queue
           W == queue'
           I == ItemsIn(W)
<1>1. Table(W) /\ Distinct(W)
  BY DEF Tables
<1>2. I = ItemsIn(Q)
  BY DEF ItemsIn
<1>3. AheadIn(W) \subseteq I \X I
  <2>1. AheadIn(W) \subseteq Items \X Items
    BY <1>1, AheadFacts
  <2>2. \A a, b : <<a, b>> \in AheadIn(W) => a \in I /\ b \in I
    <3> HIDE DEF W
    <3> QED
      BY <1>1, AheadFacts, ItemFacts
  <2> QED
    BY <2>1, <2>2
<1>4. Order!StrictOrder(AheadIn(W), I)
  <2>1. Order!StrictOrder(AheadIn(W) \cap (I \X I), I)
    <3> DEFINE J == I
    <3>1. J \in SUBSET ItemsIn(W)
      OBVIOUS
    <3> HIDE DEF W, J
    <3>2. Order!StrictOrder(AheadIn(W) \cap (J \X J), J)
      BY <1>1, <3>1, AheadStrict
    <3> QED
      BY <3>2 DEF J
  <2>2. AheadIn(W) \cap (I \X I) = AheadIn(W)
    BY <1>3
  <2> QED
    BY <2>1, <2>2
<1>5. Order!Reorder
  BY <1>2, <1>3, <1>4 DEF Order!Reorder
<1> QED
  BY <1>5 DEF Order!Next

LEMMA CommitStep ==
  ASSUME Alone, Serial, Serial', NEW w \in Workers, Commit(w)
  PROVE  [Order!Next]_(Order!vars)
<1> DEFINE Q == queue
           V == View(w)
           i == Head(todo[w])
           p == at[w]
           items == req[w].items
<1>1. pc[w] = "commit" /\ queue' = V
  BY DEF Commit
<1>2. Tables /\ Tables'
  <2>1. Tables
    BY TablesNow
  <2>2. Tables'
    BY TablesNow, PTL
  <2> QED
    BY <2>1, <2>2
<1>3. req[w].op \in {"queue", "bulk", "bump", "reorder"} /\ p \in Int /\ Committing(w)
  BY <1>1 DEF Serial, SInv, IInv, TypeOK, Local, Serving
<1>4. CASE req[w].op \in {"queue", "bulk"}
  <2>1. PICK e \in Int : Added(queue, queue', 0, e)
    BY <1>1, <1>3, <1>4 DEF Committing
  <2> QED
    BY <1>2, <2>1, AddStep
<1>5. CASE req[w].op = "reorder"
  <2>1. DOMAIN queue' = DOMAIN queue /\ \A r \in DOMAIN queue : queue'[r].item = queue[r].item
    BY <1>1, <1>3, <1>5 DEF Committing, Placed, Same, Keeps
  <2> QED
    BY <1>2, <2>1, ReorderStep
<1>6. CASE Pinned(Q, V, i, p)
  <2>1. PICK t \in DOMAIN Q : /\ Q[t].item = i /\ Q[t].pos = p /\ V[t].pos = 1
                              /\ \A r \in DOMAIN Q \ {t} : Lifted(Q, V, p, r)
    BY <1>6 DEF Pinned
  <2>2. DOMAIN V = DOMAIN Q /\ \A r \in DOMAIN Q : V[r].item = Q[r].item
    BY <1>6 DEF Pinned, Same, Keeps
  <2>3. \A r \in DOMAIN Q \ {t} : V[t].pos < V[r].pos
    BY <1>2, <2>1 DEF Lifted, Tables, Table, Distinct
  <2>4. \A r, s \in DOMAIN Q \ {t} : V[r].pos < V[s].pos <=> Q[r].pos < Q[s].pos
    BY <1>2, <1>3, <2>1 DEF Lifted, Tables, Table, Distinct
  <2>5. /\ t \in DOMAIN queue' /\ DOMAIN queue' = DOMAIN queue \cup {t}
        /\ \A r \in DOMAIN queue : queue'[r].item = queue[r].item
        /\ \A r \in DOMAIN queue \ {t} : queue'[t].pos < queue'[r].pos
        /\ \A r, s \in DOMAIN queue \ {t} : queue'[r].pos < queue'[s].pos <=> queue[r].pos < queue[s].pos
    BY <1>1, <2>1, <2>2, <2>3, <2>4
  <2> QED
    BY <1>2, <2>5, TopStep
<1>7. CASE Topped(Q, V, i)
  <2>1. PICK c \in 1..2 : Cut(Q, c) /\ Spread(Q, V, c, (2 - c) + 0) /\ Filled(Q, V, c, 2)
    BY <1>7 DEF Topped, Added
  <2>2. /\ Keeps(Q, V) /\ Distinct(V) /\ \A r \in New(Q, V) : V[r].item = i
    BY <1>7 DEF Topped, Added
  <2>3. CASE c = 2
    BY <1>1, <1>2, <1>7, AddStep DEF Topped
  <2>4. CASE c = 1
    <3>1. 1 \in c..(2 - 1)
      BY <2>4
    <3>2. PICK t \in New(Q, V) : V[t].pos = 1
      BY <2>1, <3>1 DEF Filled
    <3>3. New(Q, V) = {t} /\ t \in DOMAIN V
      BY <2>2, <3>2 DEF New, Distinct
    <3>4. DOMAIN V = DOMAIN Q \cup {t} /\ \A r \in DOMAIN Q : V[r].item = Q[r].item
      BY <2>2, <3>3 DEF New, Keeps
    <3>5. \A r \in DOMAIN Q : V[r].pos = Q[r].pos + 1
      BY <1>2, <2>1, <2>4 DEF Spread, Tables, Table
    <3>6. \A r \in DOMAIN Q \ {t} : V[t].pos < V[r].pos
      BY <1>2, <3>2, <3>5 DEF Tables, Table
    <3>7. \A r, s \in DOMAIN Q \ {t} : V[r].pos < V[s].pos <=> Q[r].pos < Q[s].pos
      BY <1>2, <3>5 DEF Tables, Table
    <3>8. /\ t \in DOMAIN queue' /\ DOMAIN queue' = DOMAIN queue \cup {t}
          /\ \A r \in DOMAIN queue : queue'[r].item = queue[r].item
          /\ \A r \in DOMAIN queue \ {t} : queue'[t].pos < queue'[r].pos
          /\ \A r, s \in DOMAIN queue \ {t} : queue'[r].pos < queue'[s].pos <=> queue[r].pos < queue[s].pos
      BY <1>1, <3>3, <3>4, <3>6, <3>7
    <3> QED
      BY <1>2, <3>8, TopStep
  <2> QED
    BY <2>3, <2>4
<1> QED
  BY <1>1, <1>3, <1>4, <1>5, <1>6, <1>7 DEF Committing

LEMMA OrderStep ==
  ASSUME Alone, Serial, Serial', [Next]_vars
  PROVE  [Order!Next]_(Order!vars)
<1>1. Tables
  BY TablesNow
<1>2. ASSUME UNCHANGED queue PROVE UNCHANGED Order!vars
  BY <1>2 DEF Order!vars
<1>3. CASE UNCHANGED vars
  BY <1>2, <1>3 DEF vars
<1>4. ASSUME NEW w \in Workers, (\E q \in Requests : Start(w, q)) \/ Step(w) \/ Fail(w)
      PROVE  [Order!Next]_(Order!vars)
  <2>1. CASE Commit(w)
    BY <2>1, CommitStep
  <2>2. CASE ApplyDelete(w) \/ ApplyWipe(w)
    <3>1. queue' = [r \in DOMAIN queue \ Hits(w) |-> queue[r]]
      BY <2>2 DEF ApplyDelete, ApplyWipe
    <3> QED
      BY <1>1, <3>1, DropStep
  <2>3. CASE ApplyClose(w)
    <3>1. /\ DOMAIN queue' = DOMAIN queue /\ at[w] \in Int
          /\ \A r \in DOMAIN queue :
               /\ queue[r].pos # at[w] /\ queue'[r].item = queue[r].item
               /\ queue'[r].pos = IF queue[r].pos > at[w] THEN queue[r].pos - 1 ELSE queue[r].pos
      BY <2>3, SerialCloses
    <3>2. \A r, s \in DOMAIN queue : queue'[r].pos < queue'[s].pos <=> queue[r].pos < queue[s].pos
      BY <1>1, <3>1 DEF Tables, Table
    <3>3. Tables'
      BY TablesNow, PTL
    <3> QED
      BY <1>1, <3>1, <3>2, <3>3, OrderKept
  <2>4. \/ Commit(w) \/ ApplyDelete(w) \/ ApplyWipe(w) \/ ApplyClose(w)
        \/ UNCHANGED queue
    BY <1>4 DEF Start, StartQueue, StartBulk, StartBump, StartRemove, StartWipe, StartReorder,
       Begin, Fail, Step, Resolve, Exists, Find, Insert, Scan, DeadlockAbort, Apply, ApplyRoom,
       ApplyLift, ApplyPin, ApplyPlace, Update
  <2> QED
    BY <1>2, <2>1, <2>2, <2>3, <2>4
<1> QED
  BY <1>3, <1>4 DEF Next

LEMMA OrderStart == Init => Order!Init
BY DEF Init, Empty, Order!Init, ItemsIn, AheadIn

(* One handler at a time, and no reorder from a client that does not know  *)
(* the queue: whatever fails, and wherever the server stops, the table     *)
(* read by position is the play order of PlayOrder, and each request is    *)
(* one of its operations (database.rs, the handlers of EpisodeQueue).      *)
THEOREM QueueIsPlayOrder ==
  ASSUME Alone, TrueToList
  PROVE  Spec => ImplementsPlayOrder
<1>1. Init => Serial
  BY SerialInit
<1>2. Serial /\ [Next]_vars => Serial'
  <2> SUFFICES ASSUME Serial, [Next]_vars PROVE Serial'
    OBVIOUS
  <2>1. CASE UNCHANGED vars
    BY <2>1, SerialStutter
  <2>2. CASE Next
    BY <2>2, SerialNext, NextOK DEF Serial
  <2> QED
    BY <2>1, <2>2
<1>3. Serial /\ Serial' /\ [Next]_vars => [Order!Next]_(Order!vars)
  BY OrderStep
<1> QED
  BY <1>1, <1>2, <1>3, OrderStart, PTL DEF Spec, ImplementsPlayOrder, Order!Spec

-----------------------------------------------------------------------------
(* Without failures and purges no position is left open, except the one    *)
(* that a remove is about to close.                                        *)
Undisturbed == ~Fails /\ \A q \in Requests : q.op # "purge"

Fills(Q, P) ==
  /\ \A r \in DOMAIN Q : Q[r].pos \in P
  /\ \A p \in P : \E r \in DOMAIN Q : Q[r].pos = p

Packed(Q) == \E n \in Nat : Fills(Q, 1..n)

Gap(Q, p) == \E n \in Nat : p \in 1..n /\ Fills(Q, (1..n) \ {p})

Packing ==
  /\ (\A w \in Workers : pc[w] # "close") => Packed(queue)
  /\ \A w \in Workers : pc[w] = "close" => Gap(queue, at[w])

LEMMA AddedPacked ==
  ASSUME NEW Q, NEW V, Table(Q), NEW e \in Int, Added(Q, V, 0, e), Packed(Q)
  PROVE  Packed(V)
<1>1. PICK n \in Nat : Fills(Q, 1..n)
  BY DEF Packed
<1>2. PICK c \in 1..e : Cut(Q, c) /\ Spread(Q, V, c, (e - c) + 0) /\ Filled(Q, V, c, e)
  BY DEF Added
<1>3. c \in 1..(n + 1)
  BY <1>1, <1>2 DEF Cut, Fills
<1> DEFINE m == n + (e - c)
<1>4. m \in Nat /\ DOMAIN V = DOMAIN Q \cup New(Q, V)
  BY DEF Added, Keeps, New
<1>5. \A r \in DOMAIN V : V[r].pos \in 1..m
  <2>1. \A r \in DOMAIN Q : V[r].pos \in 1..m
    BY <1>1, <1>2 DEF Spread, Fills
  <2>2. \A r \in New(Q, V) : V[r].pos \in 1..m
    BY <1>2, <1>3 DEF Filled
  <2> QED
    BY <1>4, <2>1, <2>2
<1>6. ASSUME NEW p \in 1..m PROVE \E r \in DOMAIN V : V[r].pos = p
  <2>1. CASE p < c
    <3>1. PICK r \in DOMAIN Q : Q[r].pos = p
      BY <1>1, <1>3, <2>1 DEF Fills
    <3>2. V[r].pos = p
      BY <1>2, <2>1, <3>1 DEF Spread
    <3> QED
      BY <1>4, <3>2
  <2>2. CASE p \in c..(e - 1)
    BY <1>2, <1>4, <2>2 DEF Filled
  <2>3. CASE p >= e
    <3>0. p - (e - c) \in 1..n
      BY <1>3, <2>3
    <3>1. PICK r \in DOMAIN Q : Q[r].pos = p - (e - c)
      BY <1>1, <3>0 DEF Fills
    <3>2. ~(p - (e - c) < c) /\ (p - (e - c)) + ((e - c) + 0) = p
      BY <2>3
    <3>3. V[r].pos = p
      BY <1>2, <3>1, <3>2 DEF Spread
    <3> QED
      BY <1>4, <3>3
  <2> QED
    BY <2>1, <2>2, <2>3
<1> HIDE DEF m
<1> QED
  BY <1>4, <1>5, <1>6 DEF Packed, Fills

LEMMA PinnedPacked ==
  ASSUME NEW Q, NEW V, Table(Q), Distinct(Q), NEW i, NEW p \in Int, Pinned(Q, V, i, p), Packed(Q)
  PROVE  Packed(V)
<1>1. PICK n \in Nat : Fills(Q, 1..n)
  BY DEF Packed
<1>2. PICK t \in DOMAIN Q : /\ Q[t].item = i /\ Q[t].pos = p /\ V[t].pos = 1
                            /\ \A r \in DOMAIN Q \ {t} : Lifted(Q, V, p, r)
  BY DEF Pinned
<1>3. DOMAIN V = DOMAIN Q /\ p \in 1..n
  BY <1>1, <1>2 DEF Pinned, Same, Fills
<1>4. \A r \in DOMAIN V : V[r].pos \in 1..n
  BY <1>1, <1>2, <1>3 DEF Lifted, Fills
<1>5. ASSUME NEW k \in 1..n PROVE \E r \in DOMAIN V : V[r].pos = k
  <2>1. CASE k = 1
    BY <1>2, <1>3, <2>1
  <2>2. CASE k > 1 /\ k <= p
    <3>1. PICK r \in DOMAIN Q : Q[r].pos = k - 1
      BY <1>1, <2>2 DEF Fills
    <3>2. V[r].pos = k
      BY <1>2, <2>2, <3>1 DEF Lifted
    <3> QED
      BY <1>3, <3>2
  <2>3. CASE k > p
    <3>1. PICK r \in DOMAIN Q : Q[r].pos = k
      BY <1>1 DEF Fills
    <3>2. V[r].pos = k
      BY <1>2, <1>3, <2>3, <3>1 DEF Lifted
    <3> QED
      BY <1>3, <3>2
  <2> QED
    BY <1>3, <2>1, <2>2, <2>3
<1> QED
  BY <1>4, <1>5 DEF Packed, Fills

(* A reorder that names every row puts them at 1..Len(items).              *)
LEMMA PlacedPacked ==
  ASSUME NEW Q, NEW V, Table(Q), Distinct(Q), NEW items \in Seq(Items), NEW k \in Int,
         Names(Q, items), Placed(Q, V, items, <<>>, k)
  PROVE  Packed(V)
<1>1. k = Len(items) + 1 /\ DOMAIN items = 1..Len(items) /\ Len(items) \in Nat
  BY EmptySeq, LenProperties DEF Placed
<1>2. DOMAIN V = DOMAIN Q /\ \A r \in DOMAIN Q : V[r].pos \in 1..Len(items)
  BY PlacedAll DEF Placed, Same
<1>3. ASSUME NEW p \in 1..Len(items) PROVE \E r \in DOMAIN V : V[r].pos = p
  <2>1. items[p] \in Items /\ p \in DOMAIN items
    BY <1>1, ElementOfSeq
  <2>2. PICK r \in DOMAIN Q : Q[r].item = items[p]
    BY <2>1 DEF Names, Queued
  <2>3. p \in 1..(k - 1)
    BY <1>1
  <2> QED
    BY <1>2, <2>2, <2>3 DEF Placed
<1> QED
  BY <1>1, <1>2, <1>3 DEF Packed, Fills

LEMMA GapOpened ==
  ASSUME NEW Q, NEW W, Table(Q), Distinct(Q), NEW t \in DOMAIN Q, Packed(Q),
         DOMAIN W = DOMAIN Q \ {t}, \A r \in DOMAIN W : W[r] = Q[r]
  PROVE  Gap(W, Q[t].pos)
<1>1. PICK n \in Nat : Fills(Q, 1..n)
  BY DEF Packed
<1>2. \A r \in DOMAIN W : W[r].pos \in (1..n) \ {Q[t].pos}
  BY <1>1 DEF Fills, Distinct
<1>3. ASSUME NEW p \in (1..n) \ {Q[t].pos} PROVE \E r \in DOMAIN W : W[r].pos = p
  BY <1>1 DEF Fills
<1>4. Q[t].pos \in 1..n
  BY <1>1 DEF Fills
<1> QED
  BY <1>2, <1>3, <1>4 DEF Gap, Fills

LEMMA GapClosed ==
  ASSUME NEW Q, NEW W, NEW p \in Int, Gap(Q, p), DOMAIN W = DOMAIN Q,
         \A r \in DOMAIN Q : W[r].pos = IF Q[r].pos > p THEN Q[r].pos - 1 ELSE Q[r].pos
  PROVE  Packed(W)
<1>1. PICK n \in Nat : p \in 1..n /\ Fills(Q, (1..n) \ {p})
  BY DEF Gap
<1> DEFINE m == n - 1
<1>2. m \in Nat
  BY <1>1
<1>3. \A r \in DOMAIN W : W[r].pos \in 1..m
  BY <1>1 DEF Fills
<1>4. ASSUME NEW k \in 1..m PROVE \E r \in DOMAIN W : W[r].pos = k
  <2>1. CASE k < p
    BY <1>1, <2>1 DEF Fills
  <2>2. CASE k >= p
    <3>1. k + 1 \in (1..n) \ {p}
      BY <1>1, <2>2
    <3>2. PICK r \in DOMAIN Q : Q[r].pos = k + 1
      BY <1>1, <3>1 DEF Fills
    <3>3. W[r].pos = k
      BY <1>1, <2>2, <3>2
    <3> QED
      BY <3>3
  <2> QED
    BY <1>1, <2>1, <2>2
<1> HIDE DEF m
<1> QED
  BY <1>2, <1>3, <1>4 DEF Packed, Fills

LEMMA CommitPacked ==
  ASSUME Alone, Serial, NEW w \in Workers, pc[w] = "commit", Packed(queue)
  PROVE  Packed(View(w))
<1> DEFINE Q == queue
           V == View(w)
           i == Head(todo[w])
           p == at[w]
           items == req[w].items
<1>1. req[w] \in Requests /\ req[w].op \in {"queue", "bulk", "bump", "reorder"} /\ p \in Int
  BY DEF Serial, IInv, TypeOK, Local, Serving
<1>2. Table(Q) /\ Distinct(Q) /\ items \in Seq(Items) /\ Packed(Q)
  <2>1. Table(Q) /\ Distinct(Q)
    BY ViewTable DEF Serial, SInv
  <2> QED
    BY <1>1, <2>1, RequestsAssumption DEF Request
<1>3. Committing(w)
  BY DEF Serial, SInv
<1>4. CASE Pinned(Q, V, i, p)
  <2> HIDE DEF Q, V, i, p
  <2> QED
    BY <1>1, <1>2, <1>4, PinnedPacked DEF V
<1>5. CASE Names(Q, items) /\ Placed(Q, V, items, <<>>, p)
  <2> HIDE DEF Q, V, items, p
  <2> QED
    BY <1>1, <1>2, <1>5, PlacedPacked DEF V
<1>6. ASSUME NEW e \in Int, Added(Q, V, 0, e) PROVE Packed(V)
  <2> HIDE DEF Q, V
  <2> QED
    BY <1>2, <1>6, AddedPacked
<1>7. CASE req[w].op \in {"queue", "bulk"}
  <2>1. PICK e \in Int : Added(Q, V, 0, e)
    BY <1>1, <1>3, <1>7 DEF Committing
  <2> QED
    BY <1>6, <2>1
<1> QED
  BY <1>1, <1>3, <1>4, <1>5, <1>6, <1>7 DEF Committing, Topped

LEMMA PackingNext ==
  ASSUME Alone, Undisturbed, Serial, Packing, Next
  PROVE  Packing'
<1>1. PICK w \in Workers : (\E q \in Requests : Start(w, q)) \/ Step(w) \/ Fail(w)
  BY DEF Next
<1>2. /\ \A v \in Workers : v = w
      /\ ~Deadlocked(w) /\ ~Fail(w) /\ pc \in [Workers -> Rest \cup Writes] /\ at \in [Workers -> Nat]
      /\ Table(queue) /\ Distinct(queue)
  BY AloneFree, ViewTable DEF Undisturbed, Fail, Serial, SInv, IInv, TypeOK
<1>3. ASSUME pc'[w] # "close", Packed(queue)' PROVE Packing'
  BY <1>2, <1>3 DEF Packing
<1>4. pc[w] # "close" => Packed(queue)
  BY <1>2 DEF Packing
<1>5. CASE Commit(w)
  <2>1. queue' = View(w) /\ pc[w] = "commit" /\ pc'[w] = "idle"
    BY <1>2, <1>5 DEF Commit, Reset, Goto
  <2> QED
    BY <1>3, <1>4, <2>1, CommitPacked
<1>6. CASE ApplyDelete(w)
  <2>1. PICK t \in DOMAIN queue : queue[t].item = Head(todo[w]) /\ queue[t].pos = at[w] /\ Hits(w) = {t}
    BY <1>6, SerialDelete
  <2>2. /\ queue' = [r \in DOMAIN queue \ {t} |-> queue[r]]
        /\ pc[w] = "delete" /\ pc'[w] = "close" /\ at' = at
    BY <1>2, <1>6, <2>1 DEF ApplyDelete, Ready, Goto
  <2> DEFINE Q == queue
             W == queue'
  <2>3. Packed(Q) /\ Table(Q) /\ Distinct(Q)
    BY <1>2, <1>4, <2>2
  <2>4. DOMAIN W = DOMAIN Q \ {t} /\ (\A r \in DOMAIN W : W[r] = Q[r]) /\ t \in DOMAIN Q
    BY <2>1, <2>2
  <2>5. Gap(W, Q[t].pos)
    <3> HIDE DEF Q, W
    <3> QED
      BY <2>3, <2>4, GapOpened
  <2> QED
    BY <1>2, <2>1, <2>2, <2>5 DEF Packing, Gap, Fills
<1>7. CASE ApplyClose(w)
  <2>1. pc[w] = "close" /\ pc'[w] = "idle"
    BY <1>2, <1>7 DEF ApplyClose, Ready, Reset, Goto
  <2> DEFINE Q == queue
             W == queue'
             p == at[w]
  <2>2. /\ DOMAIN W = DOMAIN Q /\ p \in Int
        /\ \A r \in DOMAIN Q : W[r].pos = IF Q[r].pos > p THEN Q[r].pos - 1 ELSE Q[r].pos
    BY <1>7, SerialCloses
  <2>3. Gap(Q, p)
    BY <2>1 DEF Packing
  <2>4. Packed(W)
    <3> HIDE DEF Q, W, p
    <3> QED
      BY <2>2, <2>3, GapClosed
  <2> QED
    BY <1>3, <2>1, <2>4 DEF Packed, Fills
<1>8. CASE ApplyWipe(w)
  <2>1. /\ pc[w] = "wipe" /\ phase[w] = "apply" /\ pc'[w] = "idle"
        /\ queue' = [r \in DOMAIN queue \ Hits(w) |-> queue[r]]
    BY <1>2, <1>8 DEF ApplyWipe, Ready, Reset, Goto
  <2>2. req[w].op = "clear"
    BY <2>1 DEF Serial, IInv, TypeOK, Local, Serving, Undisturbed, NoRequest
  <2>3. Hits(w) = DOMAIN queue
    <3>1. View(w) = queue
      BY <2>1, ViewTable DEF Serial, IInv, Local, Unstarted
    <3> QED
      BY <2>1, <2>2, <3>1, HitsNow DEF Where
  <2>4. Fills(queue, 1..0)'
    BY <2>1, <2>3 DEF Fills
  <2> QED
    BY <1>3, <2>1, <2>4 DEF Packed
<1>9. CASE UNCHANGED queue /\ pc[w] # "close" /\ pc'[w] # "close"
  BY <1>3, <1>4, <1>9 DEF Packed, Fills
<1>10. CASE Scan(w)
  <2>1. pc' = pc /\ at' = at /\ queue' = queue
    BY <1>10 DEF Scan
  <2> QED
    BY <2>1 DEF Packing, Packed, Gap, Fills
<1>11. CASE \E q \in Requests : Start(w, q)
  BY <1>2, <1>9, <1>11 DEF Start, StartQueue, StartBulk, StartBump, StartRemove, StartWipe,
     StartReorder, Begin, Goto
<1>12. CASE Resolve(w) \/ Exists(w) \/ Find(w) \/ Insert(w)
  BY <1>2, <1>9, <1>12 DEF Resolve, Exists, Find, Insert, Goto
<1>13. CASE ApplyRoom(w) \/ ApplyLift(w) \/ ApplyPin(w) \/ ApplyPlace(w)
  BY <1>2, <1>9, <1>13 DEF ApplyRoom, ApplyLift, ApplyPin, ApplyPlace, Update, Ready, Goto
<1> QED
  BY <1>1, <1>2, <1>5, <1>6, <1>7, <1>8, <1>10, <1>11, <1>12, <1>13 DEF Step, Apply, DeadlockAbort

LEMMA PackingInit == Init => Packing
<1> SUFFICES ASSUME Init PROVE Packing
  OBVIOUS
<1>1. Fills(queue, 1..0)
  BY DEF Init, Empty, Fills
<1> QED
  BY <1>1 DEF Init, Packing, Packed

LEMMA PackingStutter == Packing /\ UNCHANGED vars => Packing'
BY DEF vars, Packing, Packed, Gap, Fills

(* Positions without a gap or a tie are as many as the rows.               *)
LEMMA PackedCount ==
  ASSUME NEW Q, Table(Q), Distinct(Q), Packed(Q)
  PROVE  {Q[r].pos : r \in DOMAIN Q} = 1..Cardinality(DOMAIN Q)
<1>1. PICK n \in Nat : Fills(Q, 1..n)
  BY DEF Packed
<1> DEFINE D == DOMAIN Q
           T == 1..n
           f == [r \in D |-> Q[r].pos]
<1>2. f \in Injection(D, T) /\ f \in Surjection(D, T)
  BY <1>1 DEF Fills, Distinct, Injection, Surjection, IsInjective
<1>3. IsFiniteSet(T) /\ Cardinality(T) = n
  <2>1. IsFiniteSet(1..n) /\ Cardinality(1..n) = IF 1 > n THEN 0 ELSE n - 1 + 1
    BY FS_Interval
  <2> QED
    BY <2>1
<1>4. Cardinality(D) = n
  <2> HIDE DEF D, T, f
  <2>1. IsFiniteSet(D) /\ (Cardinality(D) = Cardinality(T) <=> f \in Surjection(D, T))
    BY <1>2, <1>3, FS_Injection
  <2> QED
    BY <1>2, <1>3, <2>1
<1> QED
  BY <1>1, <1>4 DEF Fills

(* One handler at a time, every reorder naming what is queued, nothing     *)
(* failing and no podcast's rows being purged: between requests the        *)
(* positions are 1..n.  A failure inside remove_queued_episode, which      *)
(* opens no transaction, or a purge, which does not renumber, leaves a gap *)
(* (database.rs).                                                          *)
THEOREM PositionsContiguous ==
  ASSUME Alone, TrueToList, Undisturbed
  PROVE  Spec => []Contiguous
<1>1. Init => Serial /\ Packing
  BY SerialInit, PackingInit
<1>2. Serial /\ Packing /\ [Next]_vars => (Serial /\ Packing)'
  <2> SUFFICES ASSUME Serial, Packing, [Next]_vars PROVE Serial' /\ Packing'
    OBVIOUS
  <2>1. CASE UNCHANGED vars
    BY <2>1, SerialStutter, PackingStutter
  <2>2. CASE Next
    BY <2>2, SerialNext, NextOK, PackingNext DEF Serial
  <2> QED
    BY <2>1, <2>2
<1>3. Serial /\ Packing => Contiguous
  <2> SUFFICES ASSUME Serial, Packing, \A w \in Workers : pc[w] = "idle"
               PROVE  {queue[r].pos : r \in DOMAIN queue} = 1..Cardinality(DOMAIN queue)
    BY DEF Contiguous
  <2>1. Packed(queue)
    BY DEF Packing
  <2> QED
    BY <2>1, TablesNow, PackedCount DEF Tables
<1> QED
  BY <1>1, <1>2, <1>3, PTL DEF Spec
=============================================================================
