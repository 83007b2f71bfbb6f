---------------------------- MODULE EpisodeQueue ----------------------------
(***************************************************************************)
(* The play queue of one user: the rows of the EpisodeQueue table and the  *)
(* request handlers that change them (rust-api/src/database.rs), each one  *)
(* a sequence of SQL statements.                                           *)
(*                                                                         *)
(* The database is PostgreSQL at its default isolation, READ COMMITTED: a  *)
(* statement sees the rows committed when it starts and its own            *)
(* transaction's writes; an UPDATE or DELETE that meets a row another      *)
(* transaction has changed waits for that transaction to end, and then     *)
(* checks its WHERE clause again on the row's new version (but not on rows *)
(* that appeared since it started).  So a write is two steps: Scan takes   *)
(* the snapshot, an Apply action locks and changes the rows.  A            *)
(* transaction's changes stay in over[w] until it commits; a handler that  *)
(* opens no transaction changes the table at once, statement by statement. *)
(***************************************************************************)
EXTENDS Integers, Sequences, FiniteSets

CONSTANTS
  Workers,    \* request handlers that run at the same time
  Ids,        \* numeric ids; Episodes and YouTubeVideos number rows apart
  RowIds,     \* EpisodeQueue.QueueID
  Requests,   \* the requests that clients send
  FreshLists, \* TRUE: a reorder lists exactly what is queued (no stale client)
  Fails,      \* TRUE: a statement may fail, or the server stop, at any point
  MaxPos      \* bound: no growing request starts once a row is at MaxPos

(* A queue row is keyed by the numeric id and the is_youtube flag.         *)
Items == Ids \X BOOLEAN

Ops == {"queue", "bulk", "bump", "remove", "clear", "purge", "reorder"}

(* place: where a queued item lands; "under" uses anchor.  items: the item *)
(* or the list the request names.  typed: a reorder entry carries          *)
(* is_youtube (clients that predate the flag send ids only).               *)
Request == [op     : Ops,
            place  : {"top", "bottom", "under"},
            anchor : Items,
            items  : Seq(Items),
            typed  : BOOLEAN]

ASSUME RequestsAssumption ==
  /\ Requests \subseteq Request
  /\ \A q \in Requests : q.op \in {"queue", "bump", "remove"} => Len(q.items) = 1
ASSUME FlagsAssumption == FreshLists \in BOOLEAN /\ Fails \in BOOLEAN
ASSUME MaxPosAssumption == MaxPos \in Nat

VARIABLES
  queue,  \* the committed rows: QueueID -> [item, pos]
  pc,     \* the statement each handler runs next
  phase,  \* of a write: "scan" or "apply"
  req,    \* the request being served
  todo,   \* what is left of the request's list
  at,     \* insert_pos, next_pos, removed_position or new_position
  seen,   \* the rows an UPDATE or DELETE found when it started
  over    \* rows changed or inserted by an open transaction

local == <<pc, phase, req, todo, at, seen, over>>
vars == <<queue, pc, phase, req, todo, at, seen, over>>

Row == [item : Items, pos : Nat]

NoRequest == [op |-> "none"]

Rest == {"idle", "resolve", "find", "exists", "insert", "commit"}
Writes == {"room", "lift", "pin", "place", "delete", "close", "wipe"}

TypeOK ==
  /\ DOMAIN queue \subseteq RowIds
  /\ queue \in [DOMAIN queue -> Row]
  /\ pc \in [Workers -> Rest \cup Writes]
  /\ phase \in [Workers -> {"scan", "apply"}]
  /\ req \in [Workers -> Requests \cup {NoRequest}]
  /\ todo \in [Workers -> Seq(Items)]
  /\ at \in [Workers -> Nat]
  /\ seen \in [Workers -> SUBSET RowIds]
  /\ DOMAIN over = Workers
  /\ \A w \in Workers : /\ DOMAIN over[w] \subseteq RowIds
                        /\ over[w] \in [DOMAIN over[w] -> Row]

Empty == [r \in {} |-> [item |-> <<0, FALSE>>, pos |-> 0]]

Init ==
  /\ queue = Empty
  /\ pc = [w \in Workers |-> "idle"]
  /\ phase = [w \in Workers |-> "scan"]
  /\ req = [w \in Workers |-> NoRequest]
  /\ todo = [w \in Workers |-> <<>>]
  /\ at = [w \in Workers |-> 0]
  /\ seen = [w \in Workers |-> {}]
  /\ over = [w \in Workers |-> Empty]

-----------------------------------------------------------------------------
(* f overridden by g: the rows of g hide those of f.                       *)
Overlay(f, g) ==
  [r \in DOMAIN f \cup DOMAIN g |-> IF r \in DOMAIN g THEN g[r] ELSE f[r]]

(* What w's next statement sees.                                           *)
View(w) == Overlay(queue, over[w])

Queued(rows, i) == \E r \in DOMAIN rows : rows[r].item = i

(* A SELECT of one row by key: with duplicates, any of them.               *)
PosOf(rows, i) == {rows[r].pos : r \in {s \in DOMAIN rows : rows[s].item = i}}

(* COALESCE(MAX(QueuePosition), 0), as the set of its one value.           *)
Highest(rows) ==
  IF DOMAIN rows = {} THEN {0}
  ELSE {m \in {rows[r].pos : r \in DOMAIN rows} : \A r \in DOMAIN rows : rows[r].pos <= m}

(* QueueID is a serial: an id that any statement can still mean is not     *)
(* given out again.                                                        *)
FreshIds ==
  RowIds \ (DOMAIN queue \cup UNION {seen[v] \cup DOMAIN over[v] : v \in Workers})

Goto(w, s) == pc' = [pc EXCEPT ![w] = s]

(* The handler returns: its locals go, its transaction is over.            *)
Reset(w) ==
  /\ Goto(w, "idle")
  /\ phase' = [phase EXCEPT ![w] = "scan"]
  /\ req' = [req EXCEPT ![w] = NoRequest]
  /\ todo' = [todo EXCEPT ![w] = <<>>]
  /\ at' = [at EXCEPT ![w] = 0]
  /\ seen' = [seen EXCEPT ![w] = {}]
  /\ over' = [over EXCEPT ![w] = Empty]

(* Bound: no request that moves rows to higher positions starts while a    *)
(* committed or pending position has reached MaxPos.                       *)
Roomy ==
  /\ \A r \in DOMAIN queue : queue[r].pos < MaxPos
  /\ \A w \in Workers : at[w] <= MaxPos /\ \A r \in DOMAIN over[w] : over[w][r].pos < MaxPos

Lists(q) ==
  /\ \A i \in Items : Queued(queue, i) <=> \E k \in DOMAIN q.items : q.items[k] = i
  /\ \A k, l \in DOMAIN q.items : q.items[k] = q.items[l] => k = l
-----------------------------------------------------------------------------
(* A request arrives.  The handlers that look before they open a           *)
(* transaction do so here, on the committed rows; a request that finds     *)
(* nothing to do returns and changes nothing.                              *)
Begin(w, q, s, p) ==
  /\ pc[w] = "idle"
  /\ Goto(w, s)
  /\ req' = [req EXCEPT ![w] = q]
  /\ todo' = [todo EXCEPT ![w] = q.items]
  /\ at' = [at EXCEPT ![w] = p]
  /\ UNCHANGED <<queue, phase, seen, over>>

(* queue_episode: the "already queued" check runs on the pool, before and  *)
(* outside the transaction.                                                *)
StartQueue(w, q) ==
  /\ q.op = "queue"
  /\ Roomy
  /\ ~Queued(queue, Head(q.items))
  /\ Begin(w, q, "resolve", 0)

StartBulk(w, q) ==
  /\ q.op = "bulk"
  /\ Roomy
  /\ q.items # <<>>
  /\ Begin(w, q, "resolve", 0)

StartBump(w, q) ==
  /\ q.op = "bump"
  /\ Roomy
  /\ Begin(w, q, "find", 0)

(* remove_queued_episode: no transaction; its SELECT is the first step.    *)
StartRemove(w, q) ==
  /\ q.op = "remove"
  /\ \E p \in PosOf(queue, Head(q.items)) : Begin(w, q, "delete", p)

StartWipe(w, q) ==
  /\ q.op \in {"clear", "purge"}
  /\ Begin(w, q, "wipe", 0)

StartReorder(w, q) ==
  /\ q.op = "reorder"
  /\ q.items # <<>>
  /\ FreshLists => Lists(q)
  /\ Begin(w, q, "place", 1)

Start(w, q) ==
  \/ StartQueue(w, q)
  \/ StartBulk(w, q)
  \/ StartBump(w, q)
  \/ StartRemove(w, q)
  \/ StartWipe(w, q)
  \/ StartReorder(w, q)

-----------------------------------------------------------------------------
(* queue_episode, bulk_queue_episodes: the target position; under an       *)
(* anchor that is not queued means the top.                                *)
Slots(q) ==
  LET anchors == PosOf(queue, q.anchor) IN
  IF q.place = "top" \/ (q.place = "under" /\ anchors = {}) THEN {1}
  ELSE {p + 1 : p \in IF q.place = "under" THEN anchors ELSE Highest(queue)}

Resolve(w) ==
  /\ pc[w] = "resolve"
  /\ \E p \in Slots(req[w]) : at' = [at EXCEPT ![w] = p]
  /\ Goto(w, IF req[w].op = "bulk" THEN "exists" ELSE "room")
  /\ UNCHANGED <<queue, phase, req, todo, seen, over>>

\* Mutant: the loop does not go on after a queued id.
ExistsStays(w) ==
  /\ pc[w] = "exists"
  /\ Goto(w, IF todo[w] = <<>> THEN "commit"
             ELSE IF Queued(View(w), Head(todo[w])) THEN "exists" ELSE "room")
  /\ UNCHANGED <<queue, phase, req, todo, at, seen, over>>

(* bulk_queue_episodes: an id that is queued already is skipped, inside    *)
(* the transaction.                                                        *)
Exists(w) ==
  /\ pc[w] = "exists"
  /\ IF todo[w] = <<>>
     THEN Goto(w, "commit") /\ UNCHANGED todo
     ELSE IF Queued(View(w), Head(todo[w]))
          THEN todo' = [todo EXCEPT ![w] = Tail(@)] /\ UNCHANGED pc
          ELSE Goto(w, "room") /\ UNCHANGED todo
  /\ UNCHANGED <<queue, phase, req, at, seen, over>>

\* Mutant: the item is brought to the top without shifting those above it.
FindPins(w) ==
  /\ pc[w] = "find"
  /\ LET found == PosOf(queue, Head(todo[w]))
     IN  IF found = {}
         THEN Goto(w, "room") /\ at' = [at EXCEPT ![w] = 1]
         ELSE \E p \in found : /\ Goto(w, IF p > 1 THEN "pin" ELSE "commit")
                               /\ at' = [at EXCEPT ![w] = p]
  /\ UNCHANGED <<queue, phase, req, todo, seen, over>>

(* move_queue_episode_to_top: the current position decides what follows.   *)
Find(w) ==
  /\ pc[w] = "find"
  /\ LET found == PosOf(queue, Head(todo[w]))
     IN  IF found = {}
         THEN Goto(w, "room") /\ at' = [at EXCEPT ![w] = 1]
         ELSE \E p \in found : /\ Goto(w, IF p > 1 THEN "lift" ELSE "commit")
                               /\ at' = [at EXCEPT ![w] = p]
  /\ UNCHANGED <<queue, phase, req, todo, seen, over>>

(* INSERT of the item at insert_pos; the bulk loop goes on below it.       *)
Insert(w) ==
  /\ pc[w] = "insert"
  /\ FreshIds # {}
  /\ LET id  == CHOOSE r \in FreshIds : TRUE
         row == [item |-> Head(todo[w]), pos |-> at[w]]
     IN  over' = [over EXCEPT ![w] = Overlay(@, [r \in {id} |-> row])]
  /\ IF req[w].op = "bulk"
     THEN /\ Goto(w, "exists")
          /\ todo' = [todo EXCEPT ![w] = Tail(@)]
          /\ at' = [at EXCEPT ![w] = @ + 1]
     ELSE Goto(w, "commit") /\ UNCHANGED <<todo, at>>
  /\ UNCHANGED <<queue, phase, req, seen>>

Commit(w) ==
  /\ pc[w] = "commit"
  /\ queue' = View(w)
  /\ Reset(w)

-----------------------------------------------------------------------------
\* Mutants: the gap is closed on both sides; everywhere; a shift runs twice.
BelowOrAbove(w, row) == row.pos # at[w]
Anywhere(w, row) == TRUE
DownTwice(row) == row.pos + 2

(* The rows that a remove brings up by one.                                *)
Below(w, row) == row.pos > at[w]

(* SET queueposition = queueposition + 1                                   *)
Down(row) == row.pos + 1

(* The WHERE clause of w's write statement.                                *)
Where(w, row) ==
  LET q == req[w] IN
  CASE pc[w] = "room"   -> q.op = "bump" \/ row.pos >= at[w]
    [] pc[w] = "lift"   -> row.pos < at[w]
    [] pc[w] = "close"  -> Below(w, row)
    [] pc[w] = "place"  -> IF q.typed THEN row.item = Head(todo[w])
                                      ELSE row.item[1] = Head(todo[w])[1]
    [] pc[w] = "wipe"   -> q.op = "clear" \/ \E k \in DOMAIN q.items :
                                               row.item[1] = q.items[k][1]
    [] pc[w] \in {"pin", "delete"} -> row.item = Head(todo[w])

(* Its SET clause.                                                         *)
NewPos(w, row) ==
  CASE pc[w] \in {"room", "lift"} -> Down(row)
    [] pc[w] = "close" -> row.pos - 1
    [] pc[w] = "pin"   -> 1
    [] pc[w] = "place" -> at[w]

Scan(w) ==
  /\ pc[w] \in Writes
  /\ phase[w] = "scan"
  /\ seen' = [seen EXCEPT ![w] = {r \in DOMAIN View(w) : Where(w, View(w)[r])}]
  /\ phase' = [phase EXCEPT ![w] = "apply"]
  /\ UNCHANGED <<queue, pc, req, todo, at, over>>

(* The transactions that hold a row w's write is about to change.          *)
WaitsFor(w) ==
  IF pc[w] \in Writes /\ phase[w] = "apply"
  THEN {v \in Workers \ {w} : DOMAIN over[v] \cap seen[w] # {}}
  ELSE {}

(* The rows the statement changes: found by the scan, still there, and     *)
(* still satisfying the WHERE clause.                                      *)
Hits(w) == {r \in seen[w] \cap DOMAIN View(w) : Where(w, View(w)[r])}

Moved(w) ==
  [r \in Hits(w) |-> [View(w)[r] EXCEPT !.pos = NewPos(w, View(w)[r])]]

Ready(w, s) ==
  /\ pc[w] = s
  /\ phase[w] = "apply"
  /\ WaitsFor(w) = {}

Rescan(w) ==
  /\ phase' = [phase EXCEPT ![w] = "scan"]
  /\ seen' = [seen EXCEPT ![w] = {}]

(* The UPDATEs of a transaction.                                           *)
Update(w, s, t) ==
  /\ Ready(w, s)
  /\ over' = [over EXCEPT ![w] = Overlay(@, Moved(w))]
  /\ Goto(w, t)
  /\ Rescan(w)
  /\ UNCHANGED <<queue, req>>

ApplyRoom(w) == Update(w, "room", "insert") /\ UNCHANGED <<todo, at>>
ApplyLift(w) == Update(w, "lift", "pin") /\ UNCHANGED <<todo, at>>
ApplyPin(w)  == Update(w, "pin", "commit") /\ UNCHANGED <<todo, at>>

(* One entry of reorder_queue's list: position = index + 1.                *)
ApplyPlace(w) ==
  /\ Update(w, "place", IF Len(todo[w]) = 1 THEN "commit" ELSE "place")
  /\ todo' = [todo EXCEPT ![w] = Tail(@)]
  /\ at' = [at EXCEPT ![w] = @ + 1]

\* Mutant: the gap is left open.
ApplyDeleteOnly(w) ==
  /\ Ready(w, "delete")
  /\ queue' = [r \in DOMAIN queue \ Hits(w) |-> queue[r]]
  /\ Reset(w)

(* remove_queued_episode: the DELETE and the UPDATE that closes the gap    *)
(* commit one by one, and the UPDATE uses the position read at the start.  *)
ApplyDelete(w) ==
  /\ Ready(w, "delete")
  /\ queue' = [r \in DOMAIN queue \ Hits(w) |-> queue[r]]
  /\ Goto(w, "close")
  /\ Rescan(w)
  /\ UNCHANGED <<req, todo, at, over>>

ApplyClose(w) ==
  /\ Ready(w, "close")
  /\ queue' = Overlay(queue, Moved(w))
  /\ Reset(w)

(* clear_queue, and the queue statement of remove_podcast,                 *)
(* remove_podcast_id, remove_youtube_channel_by_url and                    *)
(* remove_old_youtube_videos: positions are not renumbered, and the        *)
(* numeric id is matched without is_youtube.                               *)
ApplyWipe(w) ==
  /\ Ready(w, "wipe")
  /\ queue' = [r \in DOMAIN queue \ Hits(w) |-> queue[r]]
  /\ Reset(w)

-----------------------------------------------------------------------------
(* A statement fails or the server stops: an open transaction rolls back,  *)
(* what ran outside one stays.                                             *)
Fail(w) ==
  /\ Fails
  /\ pc[w] # "idle"
  /\ Reset(w)
  /\ UNCHANGED queue

(* PostgreSQL aborts one of two transactions that wait for each other.     *)
Deadlocked(w) ==
  \E n \in 2..Cardinality(Workers) : \E c \in [1..n -> Workers] :
     c[1] = w /\ \A k \in 1..n : c[(k % n) + 1] \in WaitsFor(c[k])

DeadlockAbort(w) ==
  /\ Deadlocked(w)
  /\ Reset(w)
  /\ UNCHANGED queue

Apply(w) ==
  \/ ApplyRoom(w) \/ ApplyLift(w) \/ ApplyPin(w) \/ ApplyPlace(w)
  \/ ApplyDelete(w) \/ ApplyClose(w) \/ ApplyWipe(w)

(* Steps of a request that has started.                                    *)
Step(w) ==
  \/ Resolve(w) \/ Exists(w) \/ Find(w) \/ Insert(w) \/ Commit(w)
  \/ Scan(w) \/ Apply(w) \/ DeadlockAbort(w)

Next == \E w \in Workers :
  \/ \E q \in Requests : Start(w, q)
  \/ Step(w)
  \/ Fail(w)

Spec == Init /\ [][Next]_vars

(* The runtime polls every handler and the database answers every          *)
(* statement that does not wait; PostgreSQL queues the statements that     *)
(* wait for a row, so one that is free to go again and again goes.         *)
Fairness == \A w \in Workers : WF_vars(Step(w)) /\ SF_vars(Apply(w))

FairSpec == Spec /\ Fairness
-----------------------------------------------------------------------------
(* Properties                                                              *)

(* No interleaving of handlers, nor a failure between their statements,    *)
(* brings a row to a position below 1, the top of the queue: the remove    *)
(* handler's stale position, re-checked rows and pending shifts included.  *)
PositionsPositive ==
  /\ \A r \in DOMAIN queue : queue[r].pos >= 1
  /\ \A w \in Workers : \A r \in DOMAIN over[w] : over[w][r].pos >= 1

(* A row that two transactions would change is changed by one at a time,   *)
(* and what a transaction holds back is relative to the committed row:     *)
(* queue_episode and move_queue_episode_to_top shift a row by exactly one, *)
(* whatever ran in between.                                                *)
Shifts == {"queue", "bump"}

NoLostShift ==
  \A w \in Workers : pc[w] # "idle" /\ req[w].op \in Shifts =>
    \A r \in DOMAIN over[w] \cap DOMAIN queue :
      /\ over[w][r].item = queue[r].item
      /\ \/ over[w][r].pos = queue[r].pos + 1
         \/ req[w].op = "bump" /\ queue[r].item = Head(req[w].items)

(* Two rows of the queue never swap, in whatever order requests and their  *)
(* statements interleave, except when reorder_queue says so, when a row is *)
(* brought to the top, or when a bulk add commits (it shifts a row several *)
(* times in one transaction).                                              *)
MayReorder(w, r, s) ==
  /\ pc[w] = "commit"
  /\ \/ req[w].op \in {"bulk", "reorder"}
     \/ req[w].op = "bump" /\ Head(req[w].items) \in {queue[r].item, queue[s].item}

NoSwap ==
  \A r, s \in DOMAIN queue \cap DOMAIN queue' :
    queue[r].pos < queue[s].pos =>
      queue'[r].pos <= queue'[s].pos \/ \E w \in Workers : MayReorder(w, r, s)

KeepsOrder == [][NoSwap]_vars

(* One request at a time: the table, read ORDER BY QueuePosition, is the   *)
(* listener's play order, and every handler is one of its operations.      *)
ItemsIn(rows) == {rows[r].item : r \in DOMAIN rows}

AheadIn(rows) ==
  {p \in Items \X Items : \E r, s \in DOMAIN rows :
     p = <<rows[r].item, rows[s].item>> /\ rows[r].pos < rows[s].pos}

Order == INSTANCE PlayOrder WITH queued <- ItemsIn(queue), ahead <- AheadIn(queue)

ImplementsPlayOrder == Order!Spec

(* Between requests positions are 1..n without a gap or a tie.             *)
Contiguous ==
  (\A w \in Workers : pc[w] = "idle") =>
    {queue[r].pos : r \in DOMAIN queue} = 1..Cardinality(DOMAIN queue)

(* Every request ends: no handler waits for a row lock for ever.           *)
Finishes == \A w \in Workers : pc[w] # "idle" ~> pc[w] = "idle"
=============================================================================
