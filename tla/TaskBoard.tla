------------------------------ MODULE TaskBoard ------------------------------
(***************************************************************************)
(* The background tasks of one user: their records in Valkey, the tasks    *)
(* that write them, and a browser that watches them over the progress      *)
(* websocket (services/task_manager.rs, services/tasks.rs,                 *)
(* handlers/websocket.rs, web/src/requests/task_reqs.rs).                  *)
(*                                                                         *)
(* A record is written by reading it, changing the copy, writing it back   *)
(* with a time to live, adding the task to the user's index and sending an *)
(* update to the sockets: five commands, without a lock.  A runner writes  *)
(* it; the runners of transcriptions, ad detections and model pulls start  *)
(* a ticker that writes it too and that they abort before the last write.  *)
(*                                                                         *)
(* The browser's socket is on the server that runs the tasks, or on        *)
(* another replica, which receives the updates through a Valkey channel.   *)
(***************************************************************************)
EXTENDS Naturals, Sequences

CONSTANTS
  Tasks,      \* the tasks, each of which is created once
  Cap,        \* updates that may wait for the browser (100 in the code)
  FaultSets,  \* the sets of faults to consider, each a subset of FaultKinds
  Absent      \* what Valkey returns for a key that is not there

FaultKinds == {
  "restart",  \* the server that runs the tasks is restarted
  "valkey",   \* a command fails, executed or not
  "preempt",  \* an aborted ticker is in the middle of a poll and finishes it
  "bridge",   \* an update is not passed on to the other replicas
  "burst" }   \* the task that forwards updates to a socket falls behind

Status == {"pending", "running", "completed", "failed"}

ASSUME BoardAssumption ==
  /\ Absent \notin Status /\ Cap \in Nat \ {0}
  /\ \A faults \in FaultSets : faults \subseteq FaultKinds

VARIABLES
  task,    \* the status in task:{id}, or Absent
  index,   \* task:index:{user}
  job,     \* where the runner of a task is
  op,      \* the write the runner or the ticker of a task is in
  conn,    \* where the browser's connection is
  todo,    \* tasks of the index that its first message still has to read
  seen,    \* what has been read for that message
  chan,    \* updates that wait for it
  board,   \* what it shows
  near,    \* is it connected to the server that runs the tasks?
  ticks,   \* tasks whose runner starts a ticker
  faults   \* what may go wrong

vars == <<task, index, job, op, conn, todo, seen, chan, board, near, ticks, faults>>
browser == <<conn, todo, seen, chan, board>>
fixed == <<near, ticks, faults>>

Ended == {"completed", "failed"}
Writers == {"runner", "ticker"}

\* The commands of a write in their order; 0 stands for no write.
IndexFirst == <<"get", "index", "set", "emit">>     \* Mutant
Commands == <<"get", "set", "index", "emit">>

Jobs == {"none", "creating", "working", "ticking", "broken", "ending", "done", "dead"}

Write == [at : 0..Len(Commands),            \* the command it is about to give
          to : Status \cup {"same"},        \* what it makes of the task
          val : Status,                     \* the copy
          last : BOOLEAN]                   \* it was aborted and ends its poll

NoWrite == [at |-> 0, to |-> "same", val |-> "pending", last |-> FALSE]

Shown == [Tasks -> Status \cup {Absent}]
Nothing == [t \in Tasks |-> Absent]

TypeOK ==
  /\ task \in Shown
  /\ index \subseteq Tasks
  /\ job \in [Tasks -> Jobs]
  /\ op \in [Tasks -> [Writers -> Write]]
  /\ conn \in {"away", "list", "read", "live", "stuck"}
  /\ todo \subseteq Tasks
  /\ seen \in Shown /\ board \in Shown
  /\ chan \in Seq([task : Tasks, status : Status]) /\ Len(chan) <= Cap
  /\ near \in BOOLEAN
  /\ ticks \subseteq Tasks
  /\ faults \subseteq FaultKinds

Init ==
  /\ task = Nothing /\ index = {}
  /\ job = [t \in Tasks |-> "none"]
  /\ op = [t \in Tasks |-> [w \in Writers |-> NoWrite]]
  /\ conn = "away" /\ todo = {} /\ seen = Nothing /\ chan = <<>> /\ board = Nothing
  /\ near \in BOOLEAN
  /\ ticks \in SUBSET Tasks
  /\ faults \in FaultSets

May(fault) == fault \in faults

Idle(t, w) == op[t][w].at = 0
At(t, w, command) == ~Idle(t, w) /\ Commands[op[t][w].at] = command

-----------------------------------------------------------------------------
(* A write                                                                 *)

\* A report of progress makes a pending task a running one and leaves any other
\* status alone; the end of a task overwrites it.
Changed(old, to) ==
  CASE to = "same"    -> old
    [] to = "running" -> IF old = "pending" THEN "running" ELSE old
    [] OTHER          -> to

Started(at, to, val) == [NoWrite EXCEPT !.at = at, !.to = to, !.val = val]

Begins(t, w, to) == op' = [op EXCEPT ![t][w] = Started(1, to, "pending")]

\* Mutant: the sockets are not told.
Silent(o) == IF o.last \/ o.at >= Len(Commands) - 1 THEN NoWrite ELSE [o EXCEPT !.at = @ + 1]

\* The next command, or the end of the write.
Advance(o) ==
  IF o.last \/ o.at = Len(Commands) THEN NoWrite ELSE [o EXCEPT !.at = @ + 1]

\* What the end of a write, or its failure, means for the runner.  A download
\* fails with its report; a runner with a ticker ignores failed reports.
AfterWrite(t, w, ok) ==
  IF w = "ticker" THEN job[t]
  ELSE CASE job[t] = "creating" -> IF ok THEN "working" ELSE "dead"
         [] job[t] = "ending" -> "done"
         [] job[t] = "working" /\ t \in ticks -> "ticking"
         [] job[t] = "working" /\ ~ok -> "broken"
         [] OTHER -> job[t]

Step(t, w, o) ==
  /\ op' = [op EXCEPT ![t][w] = o]
  /\ job' = [job EXCEPT ![t] = IF o.at = 0 THEN AfterWrite(t, w, TRUE) ELSE @]

Abandon(t, w) ==
  /\ op' = [op EXCEPT ![t][w] = NoWrite]
  /\ job' = [job EXCEPT ![t] = AfterWrite(t, w, FALSE)]

Get(t, w) ==
  /\ At(t, w, "get") /\ task[t] # Absent
  /\ LET o == op[t][w] IN Step(t, w, Advance([o EXCEPT !.val = Changed(task[t], o.to)]))
  /\ UNCHANGED <<task, index, browser, fixed>>

\* The key has expired: the write is an error.
GetNothing(t, w) ==
  /\ At(t, w, "get") /\ task[t] = Absent
  /\ Abandon(t, w)
  /\ UNCHANGED <<task, index, browser, fixed>>

Set(t, w) ==
  /\ At(t, w, "set")
  /\ task' = [task EXCEPT ![t] = op[t][w].val]
  /\ Step(t, w, Advance(op[t][w]))
  /\ UNCHANGED <<index, browser, fixed>>

Index(t, w) ==
  /\ At(t, w, "index")
  /\ index' = index \cup {t}
  /\ Step(t, w, Advance(op[t][w]))
  /\ UNCHANGED <<task, browser, fixed>>

\* A command fails before or after Valkey has executed it.
CommandFails(t, w) ==
  /\ May("valkey") /\ ~Idle(t, w) /\ ~At(t, w, "emit")
  /\ \/ UNCHANGED <<task, index>>
     \/ /\ At(t, w, "set")
        /\ task' = [task EXCEPT ![t] = op[t][w].val]
        /\ UNCHANGED index
     \/ At(t, w, "index") /\ index' = index \cup {t} /\ UNCHANGED task
  /\ Abandon(t, w)
  /\ UNCHANGED <<browser, fixed>>

\* The update goes to the sockets of this server, and through Valkey to those of
\* the others.  A socket's forwarding task ends when it has fallen behind; the
\* socket stays open and is told nothing more.
ListsFirst == conn = "live"   \* Mutant: it subscribes when it has listed the tasks.
Listening == conn \in {"list", "read", "live"}

AnyRoom == TRUE           \* Mutant
Room == Len(chan) < Cap

Emit(t, w) ==
  /\ At(t, w, "emit")
  /\ LET update == [task |-> t, status |-> op[t][w].val] IN
     \/ Listening /\ Room /\ chan' = Append(chan, update) /\ UNCHANGED conn
     \/ ~Listening /\ UNCHANGED <<chan, conn>>
     \/ Listening /\ ~near /\ May("bridge") /\ UNCHANGED <<chan, conn>>
     \/ conn = "live" /\ May("burst") /\ conn' = "stuck" /\ UNCHANGED chan
  /\ Step(t, w, Advance(op[t][w]))
  /\ UNCHANGED <<task, index, todo, seen, board, fixed>>

-----------------------------------------------------------------------------
(* Runners and tickers                                                     *)

\* A task is created as pending, by a write that reads nothing.
Create(t) ==
  /\ job[t] = "none"
  /\ job' = [job EXCEPT ![t] = "creating"]
  /\ op' = [op EXCEPT ![t]["runner"] = Started(2, "same", "pending")]
  /\ UNCHANGED <<task, index, browser, fixed>>

\* A runner reports zero at the start and progress later; one with a ticker
\* reports once, then the ticker does.
Report(t) ==
  /\ job[t] = "working" /\ Idle(t, "runner")
  /\ \E to \in IF t \in ticks THEN {"running"} ELSE {"same", "running"} :
       Begins(t, "runner", to)
  /\ UNCHANGED <<task, index, job, browser, fixed>>

Ticks(t) ==
  /\ job[t] = "ticking" /\ Idle(t, "ticker")
  /\ Begins(t, "ticker", "running")
  /\ UNCHANGED <<task, index, job, browser, fixed>>

\* Mutant: the ticker goes on.
KeepsTicking(o) == {o}

\* Aborting drops the ticker where it waits for Valkey, after the command it has
\* given; only a poll that runs at that moment goes on to its end.
AbortTicker(o) ==
  {NoWrite} \cup IF May("preempt") /\ o.at > 0 THEN {[o EXCEPT !.last = TRUE]} ELSE {}

\* The work is over, or has failed.
Finish(t) ==
  /\ job[t] \in {"working", "ticking", "broken"} /\ Idle(t, "runner")
  /\ t \in ticks => job[t] = "ticking"
  /\ job' = [job EXCEPT ![t] = "ending"]
  /\ \E s \in IF job[t] = "broken" THEN {"failed"} ELSE Ended,
        rest \in AbortTicker(op[t]["ticker"]) :
       op' = [op EXCEPT ![t] = [w \in Writers |->
                IF w = "runner" THEN Started(1, s, "pending") ELSE rest]]
  /\ UNCHANGED <<task, index, browser, fixed>>

\* A key lives for seven days after it was written, longer than any write takes.
Expire(t) ==
  /\ task[t] # Absent
  /\ \A w \in Writers : Idle(t, w)
  /\ job[t] # "ticking"
  /\ task' = [task EXCEPT ![t] = Absent]
  /\ UNCHANGED <<index, job, op, browser, fixed>>

\* The tasks of a restarted server are gone, and so are its sockets.
Restart ==
  /\ May("restart")
  /\ \E t \in Tasks : job[t] \notin {"none", "done", "dead"}
  /\ job' = [t \in Tasks |-> IF job[t] \in {"none", "done"} THEN job[t] ELSE "dead"]
  /\ op' = [t \in Tasks |-> [w \in Writers |-> NoWrite]]
  /\ IF near
     THEN /\ conn' = "away" /\ todo' = {} /\ chan' = <<>>
          /\ seen' = Nothing /\ board' = Nothing
     ELSE UNCHANGED browser
  /\ UNCHANGED <<task, index, fixed>>

-----------------------------------------------------------------------------
(* The browser's socket                                                    *)

\* The connection subscribes to the updates ...
Connect ==
  /\ conn = "away"
  /\ conn' = "list"
  /\ UNCHANGED <<task, index, job, op, todo, seen, chan, board, fixed>>

\* ... before the tasks are listed for its first message.
List ==
  /\ conn = "list"
  /\ todo' = index
  /\ conn' = "read"
  /\ UNCHANGED <<task, index, job, op, seen, chan, board, fixed>>

\* A task whose key has expired is dropped from the index.
Read(t) ==
  /\ conn = "read" /\ t \in todo
  /\ todo' = todo \ {t}
  /\ IF task[t] = Absent
     THEN index' = index \ {t} /\ UNCHANGED seen
     ELSE seen' = [seen EXCEPT ![t] = task[t]] /\ UNCHANGED index
  /\ UNCHANGED <<task, job, op, conn, chan, board, fixed>>

\* The first message replaces what the browser shows.
Greet ==
  /\ conn = "read" /\ todo = {}
  /\ board' = seen /\ seen' = Nothing
  /\ conn' = "live"
  /\ UNCHANGED <<task, index, job, op, todo, chan, fixed>>

Deliver ==
  /\ conn \in {"live", "stuck"} /\ chan # <<>>
  /\ board' = [board EXCEPT ![Head(chan).task] = Head(chan).status]
  /\ chan' = Tail(chan)
  /\ UNCHANGED <<task, index, job, op, conn, todo, seen, fixed>>

Leave ==
  /\ conn # "away"
  /\ conn' = "away" /\ todo' = {} /\ chan' = <<>> /\ seen' = Nothing /\ board' = Nothing
  /\ UNCHANGED <<task, index, job, op, fixed>>

-----------------------------------------------------------------------------

WriteStep(t, w) == Get(t, w) \/ GetNothing(t, w) \/ Set(t, w) \/ Index(t, w) \/ Emit(t, w)
SocketStep == List \/ Greet \/ Deliver \/ \E t \in Tasks : Read(t)

Next ==
  \/ \E t \in Tasks, w \in Writers : WriteStep(t, w) \/ CommandFails(t, w)
  \/ \E t \in Tasks : Create(t) \/ Report(t) \/ Ticks(t) \/ Finish(t) \/ Expire(t)
  \/ Restart
  \/ Connect \/ SocketStep \/ Leave

Spec == Init /\ [][Next]_vars

\* Valkey answers; the work of a task ends or stalls for longer than its key
\* lives; the browser reads.  Nobody need connect, leave or create a task.
Fairness ==
  /\ \A t \in Tasks, w \in Writers : WF_vars(WriteStep(t, w))
  /\ \A t \in Tasks : SF_vars(Finish(t) \/ Expire(t))
  /\ WF_vars(SocketStep)

-----------------------------------------------------------------------------
(* Properties                                                              *)

\* A record is in no middle of a write.
Quiet(t) == \A w \in Writers : Idle(t, w)

\* "pruning any index members whose task key has expired" (task_manager.rs:545)
\* drops no other: a task that was created is in the index as long as it lives,
\* whatever lists and writes meet.
Listed ==
  \A t \in Tasks : task[t] # Absent /\ job[t] \in {"working", "ticking", "ending", "done"}
    => t \in index

\* What a browser that has read all it was sent shows of a task is what Valkey
\* holds.  The first message and the updates that wait behind it may be older
\* and newer than each other in any combination; in the end the latest wins.
Told == near \/ faults = {}
Shows ==
  (conn = "live" /\ chan = <<>> /\ Told
     /\ faults \cap {"valkey", "preempt", "bridge", "burst"} = {}) =>
    \A t \in Tasks : Quiet(t) /\ task[t] # Absent /\ job[t] # "dead" => board[t] = task[t]

\* A browser that stays learns that a task has ended, though its record may be
\* gone by then.
ClientLearns ==
  \A t \in Tasks :
    (conn = "live" /\ Told /\ task[t] \in Ended
       /\ faults \cap {"valkey", "preempt", "bridge", "burst"} = {})
    ~> (board[t] \in Ended \/ conn # "live")

\* Each task leads the life that TaskLife describes; whatever fails, except that a
\* ticker may be aborted in the middle of a poll.
LifeOf(t) ==
  CASE task[t] # Absent -> task[t]
    [] task[t] = Absent /\ job[t] \in {"none", "creating"} -> "none"
    [] OTHER -> "gone"

LifeStatus == [t \in Tasks |-> LifeOf(t)]

Life == INSTANCE TaskLife WITH status <- LifeStatus

ImplementsTaskLife == Life!Spec
=============================================================================
