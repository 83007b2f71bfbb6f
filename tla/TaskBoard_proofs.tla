---------------------------- MODULE TaskBoard_proofs ----------------------------
(***************************************************************************)
(* Theorems about the records of background tasks: types, that the index   *)
(* has every task that lives, and that a task leads the life of TaskLife.  *)
(***************************************************************************)
EXTENDS TaskBoard, TLAPS

LEMMA FourCommands ==
  /\ Len(Commands) = 4
  /\ Commands[1] = "get" /\ Commands[2] = "set" /\ Commands[3] = "index" /\ Commands[4] = "emit"
  BY DEF Commands

-----------------------------------------------------------------------------
(* Types                                                                   *)

LEMMA NoWriteType == NoWrite \in Write
  BY FourCommands DEF NoWrite, Write, Status

LEMMA WriteTypes ==
  ASSUME NEW o \in Write
  PROVE /\ Advance(o) \in Write
        /\ \A v \in Status : [o EXCEPT !.val = v] \in Write
        /\ [o EXCEPT !.last = TRUE] \in Write
  <1>1. o.at \in 0..4 /\ (o.at # 4 => o.at + 1 \in 0..4)
    BY FourCommands DEF Write
  <1>2. Advance(o) \in Write
    BY <1>1, NoWriteType, FourCommands DEF Write, Advance
  <1>3. \A v \in Status : [o EXCEPT !.val = v] \in Write
    BY DEF Write
  <1>4. [o EXCEPT !.last = TRUE] \in Write
    BY DEF Write
  <1> QED
    BY <1>2, <1>3, <1>4

LEMMA StartedTypes ==
  ASSUME NEW at \in 0..4, NEW to \in Status \cup {"same"}, NEW v \in Status
  PROVE Started(at, to, v) \in Write
  BY NoWriteType, FourCommands DEF Write, Started

\* What waits in a channel.
LEMMA Channels ==
  ASSUME NEW S, NEW s \in Seq(S)
  PROVE /\ Len(s) \in Nat
        /\ s # <<>> => Head(s) \in S /\ Tail(s) \in Seq(S) /\ Len(Tail(s)) = Len(s) - 1
        /\ \A e \in S : Append(s, e) \in Seq(S) /\ Len(Append(s, e)) = Len(s) + 1
        /\ <<>> \in Seq(S) /\ Len(<<>>) = 0
  OBVIOUS

LEMMA JobTypes ==
  ASSUME TypeOK, NEW t \in Tasks, NEW w \in Writers, NEW ok \in BOOLEAN
  PROVE AfterWrite(t, w, ok) \in Jobs
  BY DEF TypeOK, AfterWrite, Jobs

LEMMA StepTypes ==
  ASSUME TypeOK, NEW t \in Tasks, NEW w \in Writers, NEW o \in Write, Step(t, w, o)
  PROVE op' \in [Tasks -> [Writers -> Write]] /\ job' \in [Tasks -> Jobs]
  <1>1. op' \in [Tasks -> [Writers -> Write]]
    BY DEF Step, TypeOK
  <1>2. AfterWrite(t, w, TRUE) \in Jobs
    BY JobTypes
  <1>3. job' \in [Tasks -> Jobs]
    BY <1>2 DEF Step, TypeOK
  <1> QED
    BY <1>1, <1>3

LEMMA AbandonTypes ==
  ASSUME TypeOK, NEW t \in Tasks, NEW w \in Writers, Abandon(t, w)
  PROVE op' \in [Tasks -> [Writers -> Write]] /\ job' \in [Tasks -> Jobs]
  <1>1. NoWrite \in Write
    BY FourCommands DEF NoWrite, Write, Status
  <1>2. op' \in [Tasks -> [Writers -> Write]]
    BY <1>1 DEF Abandon, TypeOK
  <1>3. AfterWrite(t, w, FALSE) \in Jobs
    BY JobTypes
  <1>4. job' \in [Tasks -> Jobs]
    BY <1>3 DEF Abandon, TypeOK
  <1> QED
    BY <1>2, <1>4

LEMMA BoardTypes == TypeOK /\ [Next]_vars => TypeOK'
  <1> SUFFICES ASSUME TypeOK, [Next]_vars PROVE TypeOK'
    OBVIOUS
  <1> USE DEF browser, fixed
  <1>0. \A t \in Tasks, w \in Writers : op[t][w] \in Write
    BY DEF TypeOK
  <1>1. ASSUME NEW t \in Tasks, NEW w \in Writers, Get(t, w) PROVE TypeOK'
    <2>1. task[t] \in Status /\ op[t][w].to \in Status \cup {"same"}
      BY <1>0, <1>1 DEF Get, TypeOK, Shown, Write
    <2>2. Changed(task[t], op[t][w].to) \in Status
      BY <2>1 DEF Changed, Status
    <2>3. Advance([op[t][w] EXCEPT !.val = Changed(task[t], op[t][w].to)]) \in Write
      BY <1>0, <2>2, WriteTypes
    <2> QED
      BY <1>1, <2>3, StepTypes DEF Get, TypeOK
  <1>2. ASSUME NEW t \in Tasks, NEW w \in Writers, GetNothing(t, w) PROVE TypeOK'
    BY <1>2, AbandonTypes DEF GetNothing, TypeOK
  <1>3. ASSUME NEW t \in Tasks, NEW w \in Writers, Set(t, w) PROVE TypeOK'
    <2>1. Advance(op[t][w]) \in Write /\ op[t][w].val \in Status
      BY <1>0, WriteTypes DEF Write
    <2>2. task' \in Shown
      BY <1>3, <2>1 DEF Set, TypeOK, Shown
    <2> QED
      BY <1>3, <2>1, <2>2, StepTypes DEF Set, TypeOK
  <1>4. ASSUME NEW t \in Tasks, NEW w \in Writers, Index(t, w) PROVE TypeOK'
    <2>1. Advance(op[t][w]) \in Write
      BY <1>0, WriteTypes
    <2> QED
      BY <1>4, <2>1, StepTypes DEF Index, TypeOK
  <1>5. ASSUME NEW t \in Tasks, NEW w \in Writers, CommandFails(t, w) PROVE TypeOK'
    <2>1. op[t][w].val \in Status
      BY <1>0 DEF Write
    <2>2. task' \in Shown /\ index' \subseteq Tasks
      BY <1>5, <2>1 DEF CommandFails, TypeOK, Shown
    <2> QED
      BY <1>5, <2>2, AbandonTypes DEF CommandFails, TypeOK
  <1>6. ASSUME NEW t \in Tasks, NEW w \in Writers, Emit(t, w) PROVE TypeOK'
    <2>1. Advance(op[t][w]) \in Write /\ op[t][w].val \in Status
      BY <1>0, WriteTypes DEF Write
    <2> DEFINE update == [task |-> t, status |-> op[t][w].val]
    <2>2. update \in [task : Tasks, status : Status]
      BY <2>1
    <2>3. chan' \in {chan, Append(chan, update)} /\ (chan' # chan => Len(chan) < Cap)
      BY <1>6 DEF Emit, Room
    <2> HIDE DEF update
    <2> DEFINE Updates == [task : Tasks, status : Status]
    <2>6. chan \in Seq(Updates) /\ Len(chan) <= Cap /\ update \in Updates
      BY <2>2 DEF TypeOK
    <2> HIDE DEF Updates
    <2>7. chan' \in Seq(Updates) /\ Len(chan') <= Cap
      BY <2>3, <2>6, Channels, BoardAssumption
    <2>4. chan' \in Seq([task : Tasks, status : Status]) /\ Len(chan') <= Cap
      BY <2>7 DEF Updates
    <2>5. conn' \in {"away", "list", "read", "live", "stuck"}
      BY <1>6 DEF Emit, TypeOK
    <2> QED
      BY <1>6, <2>1, <2>4, <2>5, StepTypes DEF Emit, TypeOK
  <1>7. ASSUME NEW t \in Tasks, Create(t) \/ Report(t) \/ Ticks(t) PROVE TypeOK'
    <2>1. /\ Started(2, "same", "pending") \in Write
          /\ \A to \in {"same", "running"} : Started(1, to, "pending") \in Write
      BY StartedTypes DEF Status
    <2>3. \E o \in Write, w \in Writers : op' = [op EXCEPT ![t][w] = o]
      BY <1>7, <2>1 DEF Create, Report, Ticks, Begins, Writers
    <2>4. op' \in [Tasks -> [Writers -> Write]]
      BY <2>3 DEF TypeOK
    <2>5. job' \in [Tasks -> Jobs]
      BY <1>7 DEF Create, Report, Ticks, TypeOK, Jobs
    <2>2. op' \in [Tasks -> [Writers -> Write]] /\ job' \in [Tasks -> Jobs]
      BY <2>4, <2>5
    <2> QED
      BY <1>7, <2>2 DEF Create, Report, Ticks, TypeOK
  <1>8. ASSUME NEW t \in Tasks, Finish(t) PROVE TypeOK'
    <2>1. PICK s \in Ended, rest \in AbortTicker(op[t]["ticker"]) :
            op' = [op EXCEPT ![t] = [w \in Writers |->
                     IF w = "runner" THEN Started(1, s, "pending") ELSE rest]]
      BY <1>8 DEF Finish, Ended
    <2>2. Started(1, s, "pending") \in Write
      BY StartedTypes DEF Status, Ended
    <2>3. op[t]["ticker"] \in Write
      BY <1>0 DEF Writers
    <2>4. rest \in Write
      BY <2>1, <2>3, WriteTypes, NoWriteType DEF AbortTicker
    <2>5. op' \in [Tasks -> [Writers -> Write]] /\ job' \in [Tasks -> Jobs]
      BY <1>8, <2>1, <2>2, <2>4 DEF Finish, TypeOK, Jobs
    <2> QED
      BY <1>8, <2>5 DEF Finish, TypeOK
  <1>9. ASSUME NEW t \in Tasks, Expire(t) PROVE TypeOK'
    BY <1>9 DEF Expire, TypeOK, Shown
  <1>10. CASE Restart
    <2>1. NoWrite \in Write
      BY FourCommands DEF NoWrite, Write, Status
    <2>2. op' \in [Tasks -> [Writers -> Write]] /\ job' \in [Tasks -> Jobs]
      BY <1>10, <2>1 DEF Restart, TypeOK, Jobs
    <2>4. Nothing \in Shown /\ <<>> \in Seq([task : Tasks, status : Status]) /\ Len(<<>>) <= Cap
      BY BoardAssumption DEF Nothing, Shown
    <2>5. conn' \in {"away", "list", "read", "live", "stuck"} /\ todo' \subseteq Tasks
      BY <1>10 DEF Restart, TypeOK
    <2>6. chan' \in Seq([task : Tasks, status : Status]) /\ Len(chan') <= Cap
      BY <1>10, <2>4 DEF Restart, TypeOK
    <2>7. seen' \in Shown /\ board' \in Shown
      BY <1>10, <2>4 DEF Restart, TypeOK
    <2>3. /\ conn' \in {"away", "list", "read", "live", "stuck"} /\ todo' \subseteq Tasks
          /\ seen' \in Shown /\ board' \in Shown
          /\ chan' \in Seq([task : Tasks, status : Status]) /\ Len(chan') <= Cap
      BY <2>5, <2>6, <2>7
    <2> QED
      BY <1>10, <2>2, <2>3 DEF Restart, TypeOK
  <1>11. CASE Connect \/ List \/ Greet
    BY <1>11 DEF Connect, List, Greet, TypeOK, Shown, Nothing
  <1>12. ASSUME NEW t \in Tasks, Read(t) PROVE TypeOK'
    <2>1. task[t] # Absent => task[t] \in Status
      BY DEF TypeOK, Shown
    <2>2. seen' \in Shown /\ index' \subseteq Tasks
      BY <1>12, <2>1 DEF Read, TypeOK, Shown
    <2> QED
      BY <1>12, <2>2 DEF Read, TypeOK
  <1>13. CASE Deliver
    <2>1. chan # <<>> /\ chan \in Seq([task : Tasks, status : Status])
      BY <1>13 DEF Deliver, TypeOK
    <2>2. /\ Head(chan) \in [task : Tasks, status : Status]
          /\ Tail(chan) \in Seq([task : Tasks, status : Status]) /\ Len(Tail(chan)) = Len(chan) - 1
          /\ Len(chan) \in Nat
      <3> DEFINE Updates == [task : Tasks, status : Status]
      <3>1. chan \in Seq(Updates)
        BY <2>1
      <3> HIDE DEF Updates
      <3>2. Head(chan) \in Updates /\ Tail(chan) \in Seq(Updates) /\ Len(Tail(chan)) = Len(chan) - 1
            /\ Len(chan) \in Nat
        BY <2>1, <3>1, Channels
      <3> QED
        BY <3>2 DEF Updates
    <2>3. board' \in Shown
      BY <1>13, <2>2 DEF Deliver, TypeOK, Shown
    <2>4. Len(chan') <= Cap
      BY <1>13, <2>2, BoardAssumption DEF Deliver, TypeOK
    <2> QED
      BY <1>13, <2>2, <2>3, <2>4 DEF Deliver, TypeOK
  <1>14. CASE Leave
    BY <1>14, BoardAssumption DEF Leave, TypeOK, Shown, Nothing
  <1>15. CASE UNCHANGED vars
    BY <1>15 DEF vars, TypeOK
  <1> QED
    BY <1>1, <1>2, <1>3, <1>4, <1>5, <1>6, <1>7, <1>8, <1>9, <1>10, <1>11, <1>12, <1>13, <1>14, <1>15
       DEF Next, WriteStep, SocketStep

LEMMA BoardStarts == Init => TypeOK
  <1>1. NoWrite \in Write
    BY FourCommands DEF NoWrite, Write, Status
  <1> QED
    BY <1>1, BoardAssumption DEF Init, TypeOK, Shown, Nothing, Jobs

-----------------------------------------------------------------------------
(* The index                                                               *)

\* What holds of a task and its writes, whatever fails: its key is there while
\* a write that has read it is under way, and it is in the index from the end of
\* its creation on.
Recorded(t) ==
  /\ job[t] = "none" =>
       task[t] = Absent /\ t \notin index /\ \A w \in Writers : Idle(t, w)
  /\ job[t] = "creating" =>
       /\ Idle(t, "ticker")
       /\ LET o == op[t]["runner"] IN
          /\ o.at \in 2..4 /\ o.to = "same" /\ o.val = "pending" /\ ~o.last
          /\ o.at = 2 => task[t] = Absent /\ t \notin index
          /\ o.at > 2 => task[t] # Absent
          /\ o.at = 4 => t \in index
  /\ job[t] \notin {"none", "creating"} =>
       \A w \in Writers : op[t][w].at >= 2 => task[t] # Absent
  /\ task[t] # Absent /\ job[t] \in {"working", "ticking", "broken", "ending", "done"} => t \in index

\* A step that leaves a task, its writes and its place in the index alone.
LEMMA RecordedStays ==
  ASSUME NEW t, Recorded(t), task'[t] = task[t], job'[t] = job[t], op'[t] = op[t],
         t \in index' <=> t \in index
  PROVE Recorded(t)'
  BY DEF Recorded, Idle

AfterOk(t, w) == AfterWrite(t, w, TRUE)
AfterError(t, w) == AfterWrite(t, w, FALSE)

\* A step of one writer.
LEMMA StepOf ==
  ASSUME TypeOK, NEW t \in Tasks, NEW w \in Writers, NEW o, Step(t, w, o)
  PROVE /\ op'[t][w] = o /\ \A v \in Writers \ {w} : op'[t][v] = op[t][v]
        /\ o.at = 0 => job'[t] = AfterOk(t, w)
        /\ o.at # 0 => job'[t] = job[t]
        /\ \A u \in Tasks \ {t} : op'[u] = op[u] /\ job'[u] = job[u]
  BY DEF TypeOK, Step, AfterOk

LEMMA AbandonOf ==
  ASSUME TypeOK, NEW t \in Tasks, NEW w \in Writers, Abandon(t, w)
  PROVE /\ op'[t][w] = NoWrite /\ \A v \in Writers \ {w} : op'[t][v] = op[t][v]
        /\ job'[t] = AfterError(t, w)
        /\ \A u \in Tasks \ {t} : op'[u] = op[u] /\ job'[u] = job[u]
  BY DEF TypeOK, Abandon, AfterError

\* Where the next command of a write is.
LEMMA Advances ==
  ASSUME NEW o \in Write, o.at # 0
  PROVE /\ Advance(o).at = 0 \/ Advance(o).at = o.at + 1
        /\ o.at < 4 /\ ~o.last => Advance(o).at = o.at + 1
        /\ o.at = 4 => Advance(o).at = 0
        /\ Advance(o).at # 0 => Advance(o) = [o EXCEPT !.at = o.at + 1]
        /\ Advance(o).at # 0 => /\ Advance(o).to = o.to /\ Advance(o).val = o.val
                                /\ Advance(o).last = o.last
        /\ Advance(o).at = 0 => Advance(o) = NoWrite
  BY FourCommands DEF Advance, NoWrite, Write

LEMMA BoardPlaces ==
  ASSUME TypeOK, NEW t \in Tasks, NEW w \in Writers
  PROVE /\ op[t][w] \in Write /\ op[t][w].at \in 0..4
        /\ At(t, w, "get") <=> op[t][w].at = 1
        /\ At(t, w, "set") <=> op[t][w].at = 2
        /\ At(t, w, "index") <=> op[t][w].at = 3
        /\ At(t, w, "emit") <=> op[t][w].at = 4
  <1>1. op[t][w] \in Write /\ op[t][w].at \in 0..4
    BY FourCommands DEF TypeOK, Write
  <1>2. op[t][w].at \in {0, 1, 2, 3, 4}
    BY <1>1
  <1> QED
    BY <1>1, <1>2, FourCommands DEF At, Idle

LEMMA AfterWrites ==
  ASSUME NEW t, NEW w \in Writers, job[t] \notin {"none", "creating"},
         NEW j \in {AfterOk(t, w), AfterError(t, w)}
  PROVE /\ j \notin {"none", "creating"}
        /\ j \in {"working", "ticking", "broken", "ending", "done"} =>
             job[t] \in {"working", "ticking", "broken", "ending", "done"}
  BY DEF AfterOk, AfterError, AfterWrite

\* A write that goes on or ends outside of a creation.
GoesOn(t, w) ==
  /\ op'[t][w].at >= 2 => task'[t] # Absent
  /\ \A v \in Writers \ {w} : op'[t][v] = op[t][v]
  /\ job'[t] \in {job[t], AfterOk(t, w), AfterError(t, w)}
  /\ task[t] = Absent <=> task'[t] = Absent
  /\ t \in index => t \in index'

LEMMA RecordedGoesOn ==
  ASSUME NEW t \in Tasks, NEW w \in Writers, Recorded(t), job[t] \notin {"none", "creating"}, GoesOn(t, w)
  PROVE Recorded(t)'
  <1>1. /\ job'[t] \notin {"none", "creating"}
        /\ job'[t] \in {"working", "ticking", "broken", "ending", "done"} =>
             job[t] \in {"working", "ticking", "broken", "ending", "done"}
    BY AfterWrites DEF GoesOn
  <1>2. \A v \in Writers : op'[t][v].at >= 2 => task'[t] # Absent
    BY DEF Recorded, GoesOn
  <1> QED
    BY <1>1, <1>2 DEF Recorded, GoesOn

LEMMA RecordedWrites ==
  ASSUME TypeOK, NEW t \in Tasks, NEW w \in Writers, Recorded(t), WriteStep(t, w) \/ CommandFails(t, w)
  PROVE Recorded(t)'
  <1>0. op[t][w] \in Write /\ op[t][w].at \in 0..4 /\ job[t] # "none"
    BY BoardPlaces DEF WriteStep, Get, GetNothing, Set, Index, Emit, CommandFails, Recorded, Idle, At
  <1>00. op[t][w].val \in Status /\ op[t][w].val # Absent
    BY <1>0, BoardAssumption DEF Write
  <1>1. CASE Get(t, w)
    <2> DEFINE o == [op[t][w] EXCEPT !.val = Changed(task[t], op[t][w].to)]
    <2>1. op[t][w].at = 1 /\ task[t] # Absent /\ UNCHANGED <<task, index>> /\ Step(t, w, Advance(o))
      BY <1>1, BoardPlaces DEF Get
    <2>2. job[t] # "creating"
      BY <2>1 DEF Recorded, Writers, Idle
    <2>3. /\ \A v \in Writers \ {w} : op'[t][v] = op[t][v]
          /\ job'[t] = job[t] \/ job'[t] = AfterOk(t, w)
      BY <2>1, StepOf
    <2> QED
      <3>1. GoesOn(t, w)
        BY <1>0, <2>1, <2>2, <2>3 DEF GoesOn
      <3> QED
        BY <1>0, <2>2, <3>1, RecordedGoesOn
  <1>2. CASE GetNothing(t, w)
    <2>1. op[t][w].at = 1 /\ UNCHANGED <<task, index>> /\ Abandon(t, w)
      BY <1>2, BoardPlaces DEF GetNothing
    <2>2. job[t] # "creating"
      BY <2>1 DEF Recorded, Writers, Idle
    <2>3. /\ op'[t][w] = NoWrite /\ \A v \in Writers \ {w} : op'[t][v] = op[t][v]
          /\ job'[t] = AfterError(t, w)
      BY <2>1, AbandonOf
    <2>4. NoWrite.at = 0
      BY DEF NoWrite
    <2> QED
      <3>1. GoesOn(t, w)
        BY <1>0, <2>1, <2>2, <2>3, <2>4 DEF GoesOn
      <3> QED
        BY <1>0, <2>4, <2>2, <3>1, RecordedGoesOn
  <1>3. CASE Set(t, w)
    <2>1. /\ op[t][w].at = 2 /\ task'[t] = op[t][w].val /\ index' = index
          /\ Step(t, w, Advance(op[t][w]))
      BY <1>3, BoardPlaces DEF Set, TypeOK, Shown
    <2>2. /\ op'[t][w] = Advance(op[t][w]) /\ \A v \in Writers \ {w} : op'[t][v] = op[t][v]
          /\ Advance(op[t][w]).at = 0 => job'[t] = AfterOk(t, w)
          /\ Advance(op[t][w]).at # 0 => job'[t] = job[t]
      <3> DEFINE o == Advance(op[t][w])
      <3>1. Step(t, w, o)
        BY <2>1
      <3> HIDE DEF o
      <3>2. /\ op'[t][w] = o /\ \A v \in Writers \ {w} : op'[t][v] = op[t][v]
            /\ o.at = 0 => job'[t] = AfterOk(t, w)
            /\ o.at # 0 => job'[t] = job[t]
        <4>1. op'[t][w] = o /\ (o.at = 0 => job'[t] = AfterOk(t, w)) /\ (o.at # 0 => job'[t] = job[t])
          BY <3>1, StepOf
        <4>2. \A v \in Writers \ {w} : op'[t][v] = op[t][v]
          BY <3>1, StepOf
        <4> QED
          BY <4>1, <4>2
      <3> QED
        BY <3>2 DEF o
    <2>3. CASE job[t] = "creating"
      <3>1. w = "runner" /\ ~op[t][w].last
        BY <2>1, <2>3 DEF Recorded, Writers, Idle
      <3>2. /\ op'[t]["runner"].at = 3 /\ op'[t]["runner"].val = "pending"
            /\ op'[t]["runner"].to = "same" /\ ~op'[t]["runner"].last /\ job'[t] = "creating"
        <4>1. op[t][w].val = "pending" /\ op[t][w].to = "same"
          BY <2>3, <3>1 DEF Recorded
        <4>2. /\ Advance(op[t][w]).at = op[t][w].at + 1 /\ Advance(op[t][w]).at # 0
              /\ Advance(op[t][w]).to = op[t][w].to /\ Advance(op[t][w]).val = op[t][w].val
              /\ Advance(op[t][w]).last = op[t][w].last
          BY <1>0, <2>1, <3>1, Advances
        <4> QED
          BY <2>1, <2>2, <2>3, <3>1, <4>1, <4>2
      <3>3. op'[t]["ticker"] = op[t]["ticker"]
        BY <2>2, <3>1 DEF Writers
      <3> QED
        BY <1>00, <2>1, <2>3, <3>2, <3>3 DEF Recorded, Idle
    <2>4. CASE job[t] # "creating"
      <3>1. task[t] # Absent
        BY <1>0, <2>1, <2>4 DEF Recorded
      <3> QED
        <4>1. GoesOn(t, w)
          BY <1>0, <1>00, <2>1, <2>2, <2>4, <3>1 DEF GoesOn
        <4> QED
          BY <1>0, <2>4, <2>2, <4>1, RecordedGoesOn
    <2> QED
      BY <2>3, <2>4
  <1>4. CASE Index(t, w)
    <2>1. /\ op[t][w].at = 3 /\ task' = task /\ index' = index \cup {t}
          /\ Step(t, w, Advance(op[t][w]))
      BY <1>4, BoardPlaces DEF Index
    <2>2. /\ op'[t][w] = Advance(op[t][w]) /\ \A v \in Writers \ {w} : op'[t][v] = op[t][v]
          /\ Advance(op[t][w]).at = 0 => job'[t] = AfterOk(t, w)
          /\ Advance(op[t][w]).at # 0 => job'[t] = job[t]
      <3> DEFINE o == Advance(op[t][w])
      <3>1. Step(t, w, o)
        BY <2>1
      <3> HIDE DEF o
      <3>2. /\ op'[t][w] = o /\ \A v \in Writers \ {w} : op'[t][v] = op[t][v]
            /\ o.at = 0 => job'[t] = AfterOk(t, w)
            /\ o.at # 0 => job'[t] = job[t]
        <4>1. op'[t][w] = o /\ (o.at = 0 => job'[t] = AfterOk(t, w)) /\ (o.at # 0 => job'[t] = job[t])
          BY <3>1, StepOf
        <4>2. \A v \in Writers \ {w} : op'[t][v] = op[t][v]
          BY <3>1, StepOf
        <4> QED
          BY <4>1, <4>2
      <3> QED
        BY <3>2 DEF o
    <2>3. CASE job[t] = "creating"
      <3>1. w = "runner" /\ ~op[t][w].last
        BY <2>1, <2>3 DEF Recorded, Writers, Idle
      <3>2. /\ op'[t]["runner"].at = 4 /\ op'[t]["runner"].val = "pending"
            /\ op'[t]["runner"].to = "same" /\ ~op'[t]["runner"].last /\ job'[t] = "creating"
        <4>1. op[t][w].val = "pending" /\ op[t][w].to = "same"
          BY <2>3, <3>1 DEF Recorded
        <4>2. /\ Advance(op[t][w]).at = op[t][w].at + 1 /\ Advance(op[t][w]).at # 0
              /\ Advance(op[t][w]).to = op[t][w].to /\ Advance(op[t][w]).val = op[t][w].val
              /\ Advance(op[t][w]).last = op[t][w].last
          BY <1>0, <2>1, <3>1, Advances
        <4> QED
          BY <2>1, <2>2, <2>3, <3>1, <4>1, <4>2
      <3>3. op'[t]["ticker"] = op[t]["ticker"] /\ task[t] # Absent
        BY <2>1, <2>2, <2>3, <3>1 DEF Writers, Recorded
      <3> QED
        BY <2>1, <2>3, <3>2, <3>3 DEF Recorded, Idle
    <2>4. CASE job[t] # "creating"
      <3>1. task[t] # Absent
        BY <1>0, <2>1, <2>4 DEF Recorded
      <3> QED
        <4>1. GoesOn(t, w)
          BY <1>0, <2>1, <2>2, <2>4, <3>1 DEF GoesOn
        <4> QED
          BY <1>0, <2>4, <2>2, <4>1, RecordedGoesOn
    <2> QED
      BY <2>3, <2>4
  <1>5. CASE Emit(t, w)
    <2>1. /\ op[t][w].at = 4 /\ UNCHANGED <<task, index>> /\ Step(t, w, Advance(op[t][w]))
      BY <1>5, BoardPlaces DEF Emit
    <2>2. /\ op'[t][w] = NoWrite /\ \A v \in Writers \ {w} : op'[t][v] = op[t][v]
          /\ job'[t] = AfterOk(t, w)
      <3>1. Advance(op[t][w]) = NoWrite /\ NoWrite.at = 0
        BY <2>1, FourCommands DEF Advance, NoWrite
      <3>2. Step(t, w, NoWrite)
        BY <2>1, <3>1
      <3>3. op'[t][w] = NoWrite /\ job'[t] = AfterOk(t, w)
        BY <3>1, <3>2, StepOf
      <3>4. \A v \in Writers \ {w} : op'[t][v] = op[t][v]
        BY <3>2, StepOf
      <3> QED
        BY <3>3, <3>4
    <2>3. NoWrite.at = 0
      BY DEF NoWrite
    <2>4. CASE job[t] = "creating"
      <3>1. w = "runner"
        BY <2>1, <2>4 DEF Recorded, Writers, Idle
      <3>2. job'[t] = "working" /\ t \in index /\ task[t] # Absent
        BY <2>1, <2>2, <2>4, <3>1 DEF AfterOk, AfterWrite, Recorded
      <3> QED
        BY <2>1, <3>2 DEF Recorded
    <2>5. CASE job[t] # "creating"
      <3>1. GoesOn(t, w)
        BY <1>0, <2>1, <2>2, <2>3, <2>5 DEF GoesOn
      <3> QED
        BY <1>0, <2>5, <2>2, <3>1, RecordedGoesOn
    <2> QED
      BY <2>4, <2>5
  <1>6. CASE CommandFails(t, w)
    <2>1. /\ Abandon(t, w) /\ op[t][w].at # 0
          /\ task'[t] = task[t] \/ (op[t][w].at = 2 /\ task'[t] = op[t][w].val)
          /\ t \in index => t \in index'
      BY <1>6, BoardPlaces DEF CommandFails, TypeOK, Shown, Idle
    <2>2. /\ op'[t][w] = NoWrite /\ \A v \in Writers \ {w} : op'[t][v] = op[t][v]
          /\ job'[t] = AfterError(t, w)
      BY <2>1, AbandonOf
    <2>3. NoWrite.at = 0
      BY DEF NoWrite
    <2>4. CASE job[t] = "creating"
      <3>1. w = "runner"
        BY <2>1, <2>4 DEF Recorded, Writers, Idle
      <3>2. job'[t] = "dead" /\ op'[t]["ticker"] = op[t]["ticker"]
        BY <2>2, <2>4, <3>1 DEF AfterError, AfterWrite, Writers
      <3>3. \A v \in Writers : op'[t][v].at = 0
        BY <2>2, <2>3, <2>4, <3>1, <3>2 DEF Recorded, Writers, Idle
      <3> QED
        BY <3>2, <3>3 DEF Recorded
    <2>5. CASE job[t] # "creating"
      <3>1. task[t] = Absent <=> task'[t] = Absent
        BY <1>0, <1>00, <2>1, <2>5 DEF Recorded
      <3> QED
        <4>1. GoesOn(t, w)
          BY <1>0, <2>1, <2>2, <2>3, <2>5, <3>1 DEF GoesOn
        <4> QED
          BY <1>0, <2>5, <2>2, <4>1, RecordedGoesOn
    <2> QED
      BY <2>4, <2>5
  <1> QED
    BY <1>1, <1>2, <1>3, <1>4, <1>5, <1>6 DEF WriteStep

\* The other tasks are not touched by a writer.
LEMMA OthersWrites ==
  ASSUME TypeOK, NEW t \in Tasks, NEW w \in Writers, WriteStep(t, w) \/ CommandFails(t, w),
         NEW u \in Tasks \ {t}
  PROVE /\ task'[u] = task[u] /\ job'[u] = job[u] /\ op'[u] = op[u]
        /\ u \in index' <=> u \in index
  <1>1. (\E o : Step(t, w, o)) \/ Abandon(t, w)
    BY DEF WriteStep, Get, GetNothing, Set, Index, Emit, CommandFails
  <1>2. job'[u] = job[u] /\ op'[u] = op[u]
    BY <1>1, StepOf, AbandonOf
  <1>3. task'[u] = task[u] /\ (u \in index' <=> u \in index)
    BY DEF WriteStep, Get, GetNothing, Set, Index, Emit, CommandFails, TypeOK, Shown
  <1> QED
    BY <1>2, <1>3

\* What the beginnings of writes are.
LEMMA Starts ==
  ASSUME NEW at \in {1, 2}, NEW to, NEW v
  PROVE /\ Started(at, to, v).at = at /\ Started(at, to, v).to = to /\ Started(at, to, v).val = v
        /\ ~Started(at, to, v).last
  BY DEF Started, NoWrite

LEMMA RecordedRuns ==
  ASSUME TypeOK, NEW t \in Tasks, Recorded(t),
         Create(t) \/ Report(t) \/ Ticks(t) \/ Finish(t) \/ Expire(t)
  PROVE Recorded(t)'
  <1>1. CASE Create(t)
    <2>1. /\ job[t] = "none" /\ job'[t] = "creating" /\ UNCHANGED <<task, index>>
          /\ op'[t]["runner"] = Started(2, "same", "pending") /\ op'[t]["ticker"] = op[t]["ticker"]
      BY <1>1 DEF Create, TypeOK, Writers
    <2>2. op[t]["ticker"].at = 0 /\ task[t] = Absent /\ t \notin index
      BY <2>1 DEF Recorded, Idle, Writers
    <2> QED
      BY <2>1, <2>2, Starts DEF Recorded, Idle
  <1>2. CASE Report(t) \/ Ticks(t)
    <2>1. PICK w \in Writers, to \in {"same", "running"} : op' = [op EXCEPT ![t][w] = Started(1, to, "pending")]
      BY <1>2 DEF Report, Ticks, Begins, Writers
    <2>2. /\ op'[t][w].at = 1 /\ \A v \in Writers \ {w} : op'[t][v] = op[t][v]
      BY <2>1, Starts DEF TypeOK
    <2>3. UNCHANGED <<task, index, job>> /\ job[t] \in {"working", "ticking"}
      BY <1>2 DEF Report, Ticks
    <2>4. \A v \in Writers : op'[t][v].at >= 2 => task[t] # Absent
      BY <2>2, <2>3 DEF Recorded
    <2> QED
      BY <2>3, <2>4 DEF Recorded
  <1>3. CASE Finish(t)
    <2>1. /\ job[t] \in {"working", "ticking", "broken"} /\ job'[t] = "ending" /\ UNCHANGED <<task, index>>
      BY <1>3 DEF Finish, TypeOK
    <2>2. PICK s \in Ended, rest \in AbortTicker(op[t]["ticker"]) :
            op'[t]["runner"] = Started(1, s, "pending") /\ op'[t]["ticker"] = rest
      BY <1>3 DEF Finish, TypeOK, Writers, Ended
    <2>3. op'[t]["runner"].at = 1
      BY <2>2, Starts
    <2>4. op[t]["ticker"] \in Write
      BY DEF TypeOK, Writers
    <2>5. rest.at \in {0, op[t]["ticker"].at}
      BY <2>2, <2>4 DEF AbortTicker, NoWrite, Write
    <2>6. \A v \in Writers : op'[t][v].at >= 2 => task[t] # Absent
      BY <2>1, <2>2, <2>3, <2>5 DEF Recorded, Writers
    <2> QED
      BY <2>1, <2>6 DEF Recorded
  <1>4. CASE Expire(t)
    <2>1. /\ task[t] # Absent /\ task'[t] = Absent /\ UNCHANGED <<index, job, op>>
          /\ \A w \in Writers : op[t][w].at = 0
      BY <1>4 DEF Expire, TypeOK, Shown, Idle
    <2>2. job[t] # "none" /\ job[t] # "creating"
      BY <2>1 DEF Recorded, Writers
    <2> QED
      BY <2>1, <2>2 DEF Recorded
  <1> QED
    BY <1>1, <1>2, <1>3, <1>4

LEMMA OthersRuns ==
  ASSUME TypeOK, NEW t \in Tasks, Create(t) \/ Report(t) \/ Ticks(t) \/ Finish(t) \/ Expire(t),
         NEW u \in Tasks \ {t}
  PROVE /\ task'[u] = task[u] /\ job'[u] = job[u] /\ op'[u] = op[u]
        /\ u \in index' <=> u \in index
  BY DEF Create, Report, Ticks, Finish, Expire, Begins, TypeOK, Shown

LEMMA RecordedSteps ==
  ASSUME TypeOK, \A t \in Tasks : Recorded(t), [Next]_vars
  PROVE \A t \in Tasks : Recorded(t)'
  <1>1. ASSUME NEW t \in Tasks, NEW w \in Writers, WriteStep(t, w) \/ CommandFails(t, w), NEW u \in Tasks
        PROVE Recorded(u)'
    <2>1. CASE u = t
      BY <1>1, <2>1, RecordedWrites
    <2>2. CASE u # t
      BY <1>1, <2>2, OthersWrites, RecordedStays
    <2> QED
      BY <2>1, <2>2
  <1>2. ASSUME NEW t \in Tasks, Create(t) \/ Report(t) \/ Ticks(t) \/ Finish(t) \/ Expire(t), NEW u \in Tasks
        PROVE Recorded(u)'
    <2>1. CASE u = t
      BY <1>2, <2>1, RecordedRuns
    <2>2. CASE u # t
      BY <1>2, <2>2, OthersRuns, RecordedStays
    <2> QED
      BY <2>1, <2>2
  <1>3. ASSUME Restart, NEW u \in Tasks PROVE Recorded(u)'
    <2>1. /\ task' = task /\ index' = index /\ \A w \in Writers : op'[u][w] = NoWrite
          /\ job'[u] = IF job[u] \in {"none", "done"} THEN job[u] ELSE "dead"
      BY <1>3 DEF Restart, fixed
    <2>2. NoWrite.at = 0
      BY DEF NoWrite
    <2> QED
      BY <2>1, <2>2 DEF Recorded, Idle
  <1>4. ASSUME NEW t \in Tasks, Read(t), NEW u \in Tasks PROVE Recorded(u)'
    <2>1. UNCHANGED <<task, job, op>>
      BY <1>4 DEF Read
    <2>2. (u \in index' <=> u \in index) \/ (task[u] = Absent /\ u \notin index')
      BY <1>4 DEF Read
    <2>3. CASE u \in index' <=> u \in index
      BY <2>1, <2>3, RecordedStays
    <2>4. CASE task[u] = Absent /\ u \notin index'
      <3>1. job[u] = "creating" => op[u]["runner"].at # 4
        BY <2>4 DEF Recorded
      <3> QED
        BY <2>1, <2>4, <3>1 DEF Recorded, Idle
    <2> QED
      BY <2>2, <2>3, <2>4
  <1>5. ASSUME Connect \/ List \/ Greet \/ Deliver \/ Leave \/ UNCHANGED vars, NEW u \in Tasks
        PROVE Recorded(u)'
    <2>1. UNCHANGED <<task, index, job, op>>
      BY <1>5 DEF Connect, List, Greet, Deliver, Leave, vars
    <2> QED
      BY <2>1, RecordedStays
  <1> QED
    BY <1>1, <1>2, <1>3, <1>4, <1>5 DEF Next, SocketStep

LEMMA RecordedStarts == Init => \A t \in Tasks : Recorded(t)
  <1> SUFFICES ASSUME Init, NEW t \in Tasks PROVE Recorded(t)
    OBVIOUS
  <1>1. NoWrite.at = 0
    BY DEF NoWrite
  <1>2. /\ task[t] = Absent /\ t \notin index /\ job[t] = "none"
        /\ \A w \in Writers : op[t][w] = NoWrite
    BY DEF Init, Nothing
  <1> QED
    BY <1>1, <1>2 DEF Recorded, Idle

-----------------------------------------------------------------------------
(* The life of a task                                                      *)

Lasting == {"pending", "running"}

\* What holds of a task when no ticker outlives its abortion: one writer at a
\* time, which writes back what it read, and no end before the last write.
Living(t) ==
  /\ \A w \in Writers : ~op[t][w].last
  /\ op[t]["ticker"].at # 0 => job[t] = "ticking" /\ op[t]["ticker"].to \in {"same", "running"}
  /\ op[t]["runner"].at # 0 =>
       \/ job[t] = "creating"
       \/ job[t] = "working" /\ op[t]["runner"].to \in {"same", "running"}
       \/ job[t] = "ending" /\ op[t]["runner"].to \in Ended
  /\ job[t] # "creating" =>
       \A w \in Writers : op[t][w].at = 2 => op[t][w].val = Changed(task[t], op[t][w].to)
  /\ job[t] \in {"creating", "working", "ticking", "broken"} => task[t] \in Lasting \cup {Absent}
  /\ job[t] = "ending" /\ op[t]["runner"].at \in {1, 2} => task[t] \in Lasting \cup {Absent}

LEMMA LivingStays ==
  ASSUME NEW t, Living(t), task'[t] = task[t], job'[t] = job[t], op'[t] = op[t]
  PROVE Living(t)'
  BY DEF Living

\* A runner whose write is over, or has failed.
LEMMA LivingEnds ==
  ASSUME NEW t \in Tasks, NEW w \in Writers, Living(t), op[t][w].at # 0,
         op'[t][w] = NoWrite, \A v \in Writers \ {w} : op'[t][v] = op[t][v],
         job'[t] \in {AfterOk(t, w), AfterError(t, w)},
         job'[t] \in {"working", "ticking", "broken"} => task'[t] \in Lasting \cup {Absent}
  PROVE Living(t)'
  <1>1. NoWrite.at = 0 /\ ~NoWrite.last
    BY DEF NoWrite
  <1>2. \A v \in Writers : op'[t][v].at = 0 /\ ~op'[t][v].last
    BY <1>1 DEF Living, Writers
  <1>3. job'[t] # "creating"
    BY DEF AfterOk, AfterError, AfterWrite, Living, Writers
  <1> QED
    BY <1>2, <1>3 DEF Living, Writers

\* A write that goes on to its next command.
LEMMA LivingGoesOn ==
  ASSUME NEW t \in Tasks, NEW w \in Writers, Living(t), op[t][w] \in Write, op[t][w].at # 0, job'[t] = job[t],
         \A v \in Writers \ {w} : op'[t][v] = op[t][v],
         op'[t][w].at # 0, op'[t][w].at > op[t][w].at, op'[t][w].to = op[t][w].to, ~op'[t][w].last,
         op'[t][w].at = 2 /\ job[t] # "creating" => op'[t][w].val = Changed(task'[t], op[t][w].to),
         job[t] \in {"creating", "working", "ticking", "broken"} => task'[t] \in Lasting \cup {Absent},
         job[t] = "ending" /\ op'[t]["runner"].at \in {1, 2} => task'[t] \in Lasting \cup {Absent}
  PROVE Living(t)'
  <1>1. \A v \in Writers \ {w} : op'[t][v].at = 0 /\ ~op'[t][v].last
    BY DEF Living, Writers
  <1>2. \A v \in Writers : ~op'[t][v].last
    BY <1>1
  <1>3. op'[t]["ticker"].at # 0 => job'[t] = "ticking" /\ op'[t]["ticker"].to \in {"same", "running"}
    BY <1>1 DEF Living, Writers
  <1>4. op'[t]["runner"].at # 0 =>
       \/ job'[t] = "creating"
       \/ job'[t] = "working" /\ op'[t]["runner"].to \in {"same", "running"}
       \/ job'[t] = "ending" /\ op'[t]["runner"].to \in Ended
    BY <1>1 DEF Living, Writers
  <1>5. job'[t] # "creating" =>
       \A v \in Writers : op'[t][v].at = 2 => op'[t][v].val = Changed(task'[t], op'[t][v].to)
    BY <1>1
  <1> QED
    BY <1>2, <1>3, <1>4, <1>5 DEF Living

\* The value a write sets is one the task may take.
LEMMA SetsNext ==
  ASSUME TypeOK, NEW t \in Tasks, NEW w \in Writers, Recorded(t), Living(t), op[t][w].at = 2
  PROVE /\ job[t] = "creating" => task[t] = Absent /\ op[t][w].val = "pending"
        /\ job[t] # "creating" =>
             /\ task[t] \in Status
             /\ \/ op[t][w].val = task[t]
                \/ task[t] = "pending" /\ op[t][w].val = "running"
                \/ job[t] = "ending" /\ task[t] \in Lasting /\ op[t][w].val \in Ended
        /\ job[t] # "ending" => op[t][w].val \in Lasting
        /\ job[t] \in {"creating", "working", "ticking", "ending"}
  <1>1. job[t] \in {"creating", "working", "ticking", "ending"}
    BY DEF Living, Writers
  <1>2. CASE job[t] = "creating"
    <2>1. w = "runner"
      BY <1>2 DEF Recorded, Idle, Writers
    <2> QED
      BY <1>2, <2>1 DEF Recorded, Lasting
  <1>3. CASE job[t] # "creating"
    <2>1. task[t] # Absent /\ task[t] \in Status
      BY <1>1, <1>3 DEF Recorded, TypeOK, Shown
    <2>2. op[t][w].val = Changed(task[t], op[t][w].to)
      BY <1>3 DEF Living
    <2>3. CASE op[t][w].to \in {"same", "running"} /\ job[t] # "ending"
      <3>1. task[t] \in Lasting
        BY <1>1, <1>3, <2>1, <2>3 DEF Living
      <3> QED
        BY <1>1, <1>3, <2>1, <2>2, <2>3, <3>1 DEF Changed, Lasting
    <2>4. CASE op[t][w].to \in Ended /\ job[t] = "ending"
      <3>1. w = "runner" /\ task[t] \in Lasting
        BY <2>1, <2>4 DEF Living, Writers
      <3> QED
        BY <1>1, <1>3, <2>1, <2>2, <2>4, <3>1 DEF Changed, Ended
    <2> QED
      BY <1>1, <1>3, <2>3, <2>4 DEF Living, Writers
  <1> QED
    BY <1>2, <1>3

LEMMA LivingWrites ==
  ASSUME TypeOK, NEW t \in Tasks, NEW w \in Writers, Recorded(t), Living(t),
         WriteStep(t, w) \/ CommandFails(t, w)
  PROVE Living(t)'
  <1>0. op[t][w] \in Write /\ op[t][w].at \in 0..4 /\ ~op[t][w].last /\ task[t] \in Status \cup {Absent}
    BY BoardPlaces DEF Living, TypeOK, Shown
  <1>1. CASE Get(t, w)
    <2> DEFINE o == [op[t][w] EXCEPT !.val = Changed(task[t], op[t][w].to)]
    <2>1. op[t][w].at = 1 /\ task[t] # Absent /\ task' = task /\ Step(t, w, Advance(o))
      BY <1>1, BoardPlaces DEF Get
    <2>2. Changed(task[t], op[t][w].to) \in Status
      BY <1>0, <2>1 DEF Changed, Write, Status
    <2>3. /\ o \in Write /\ o.at = 1 /\ ~o.last /\ o.to = op[t][w].to
          /\ o.val = Changed(task[t], op[t][w].to)
      BY <1>0, <2>1, <2>2 DEF Write
    <2> HIDE DEF o
    <2> DEFINE n == Advance(o)
    <2>4. n.at = 2 /\ ~n.last /\ n.to = op[t][w].to /\ n.val = Changed(task[t], op[t][w].to)
      BY <2>3, FourCommands DEF Advance, Write
    <2>5. Step(t, w, n)
      BY <2>1
    <2> HIDE DEF n
    <2>6. op'[t][w] = n /\ job'[t] = job[t]
      BY <2>4, <2>5, StepOf
    <2>7. \A v \in Writers \ {w} : op'[t][v] = op[t][v]
      BY <2>5, StepOf
    <2>8. job[t] \in {"creating", "working", "ticking", "broken"} => task[t] \in Lasting \cup {Absent}
      BY DEF Living
    <2>9. job[t] = "ending" => w = "runner"
      BY <2>1 DEF Living, Writers
    <2>10. job[t] = "ending" => task[t] \in Lasting \cup {Absent}
      BY <2>1, <2>9 DEF Living
    <2> QED
      BY <1>0, <2>1, <2>4, <2>6, <2>7, <2>8, <2>10, LivingGoesOn
  <1>2. CASE GetNothing(t, w)
    <2>1. op[t][w].at = 1 /\ task' = task /\ task[t] = Absent /\ Abandon(t, w)
      BY <1>2, BoardPlaces DEF GetNothing
    <2>2. op'[t][w] = NoWrite /\ job'[t] = AfterError(t, w)
      BY <2>1, AbandonOf
    <2>3. \A v \in Writers \ {w} : op'[t][v] = op[t][v]
      BY <2>1, AbandonOf
    <2> QED
      BY <2>1, <2>2, <2>3, LivingEnds
  <1>3. CASE Set(t, w)
    <2> DEFINE n == Advance(op[t][w])
    <2>1. op[t][w].at = 2 /\ task'[t] = op[t][w].val /\ Step(t, w, n)
      BY <1>3, BoardPlaces DEF Set, TypeOK, Shown
    <2>2. n.at = 3 /\ ~n.last /\ n.to = op[t][w].to
      BY <1>0, <2>1, FourCommands DEF Advance, Write
    <2> HIDE DEF n
    <2>3. op'[t][w] = n /\ job'[t] = job[t]
      BY <2>1, <2>2, StepOf
    <2>4. \A v \in Writers \ {w} : op'[t][v] = op[t][v]
      BY <2>1, StepOf
    <2>5. job[t] # "ending" => task'[t] \in Lasting
      BY <2>1, SetsNext
    <2>6. job[t] = "ending" => w = "runner"
      BY <2>1 DEF Living, Writers
    <2>7. job[t] = "ending" => op'[t]["runner"].at = 3
      BY <2>2, <2>3, <2>6
    <2> QED
      BY <1>0, <2>1, <2>2, <2>3, <2>4, <2>5, <2>7, LivingGoesOn
  <1>4. CASE Index(t, w)
    <2> DEFINE n == Advance(op[t][w])
    <2>1. op[t][w].at = 3 /\ task' = task /\ Step(t, w, n)
      BY <1>4, BoardPlaces DEF Index
    <2>2. n.at = 4 /\ ~n.last /\ n.to = op[t][w].to
      BY <1>0, <2>1, FourCommands DEF Advance, Write
    <2> HIDE DEF n
    <2>3. op'[t][w] = n /\ job'[t] = job[t]
      BY <2>1, <2>2, StepOf
    <2>4. \A v \in Writers \ {w} : op'[t][v] = op[t][v]
      BY <2>1, StepOf
    <2>5. job[t] \in {"creating", "working", "ticking", "broken"} => task[t] \in Lasting \cup {Absent}
      BY DEF Living
    <2>6. job[t] = "ending" => w = "runner"
      BY <2>1 DEF Living, Writers
    <2>7. job[t] = "ending" => op'[t]["runner"].at = 4
      BY <2>2, <2>3, <2>6
    <2> QED
      BY <1>0, <2>1, <2>2, <2>3, <2>4, <2>5, <2>7, LivingGoesOn
  <1>5. CASE Emit(t, w)
    <2>1. op[t][w].at = 4 /\ task' = task /\ Step(t, w, Advance(op[t][w]))
      BY <1>5, BoardPlaces DEF Emit
    <2>2. Advance(op[t][w]) = NoWrite /\ NoWrite.at = 0
      BY <2>1, FourCommands DEF Advance, NoWrite
    <2>3. Step(t, w, NoWrite)
      BY <2>1, <2>2
    <2>4. op'[t][w] = NoWrite /\ job'[t] = AfterOk(t, w)
      BY <2>2, <2>3, StepOf
    <2>5. \A v \in Writers \ {w} : op'[t][v] = op[t][v]
      BY <2>3, StepOf
    <2>6. job'[t] \in {"working", "ticking", "broken"} => job[t] \in {"creating", "working", "ticking", "broken"}
      BY <2>4 DEF AfterOk, AfterWrite
    <2>7. job'[t] \in {"working", "ticking", "broken"} => task'[t] \in Lasting \cup {Absent}
      BY <2>1, <2>6 DEF Living
    <2> QED
      BY <2>1, <2>4, <2>5, <2>7, LivingEnds
  <1>6. CASE CommandFails(t, w)
    <2>1. /\ Abandon(t, w) /\ op[t][w].at # 0
          /\ task'[t] = task[t] \/ (op[t][w].at = 2 /\ task'[t] = op[t][w].val)
      BY <1>6, BoardPlaces DEF CommandFails, TypeOK, Shown, Idle
    <2>2. op'[t][w] = NoWrite /\ job'[t] = AfterError(t, w)
      BY <2>1, AbandonOf
    <2>3. \A v \in Writers \ {w} : op'[t][v] = op[t][v]
      BY <2>1, AbandonOf
    <2>4. job'[t] \in {"working", "ticking", "broken"} => job[t] \in {"creating", "working", "ticking", "broken"}
      BY <2>2 DEF AfterError, AfterWrite
    <2>5. op[t][w].at = 2 /\ job[t] # "ending" => op[t][w].val \in Lasting
      BY SetsNext
    <2>6. job[t] \in {"creating", "working", "ticking", "broken"} => task[t] \in Lasting \cup {Absent}
      BY DEF Living
    <2>7. job'[t] \in {"working", "ticking", "broken"} => task'[t] \in Lasting \cup {Absent}
      BY <2>1, <2>4, <2>5, <2>6
    <2> QED
      BY <2>1, <2>2, <2>3, <2>7, LivingEnds
  <1> QED
    BY <1>1, <1>2, <1>3, <1>4, <1>5, <1>6 DEF WriteStep

LEMMA LivingRuns ==
  ASSUME TypeOK, ~May("preempt"), NEW t \in Tasks, Recorded(t), Living(t),
         Create(t) \/ Report(t) \/ Ticks(t) \/ Finish(t) \/ Expire(t)
  PROVE Living(t)'
  <1>1. CASE Create(t)
    <2>1. /\ job[t] = "none" /\ job'[t] = "creating" /\ task' = task
          /\ op'[t]["runner"] = Started(2, "same", "pending") /\ op'[t]["ticker"] = op[t]["ticker"]
      BY <1>1 DEF Create, TypeOK, Writers
    <2>2. op[t]["ticker"].at = 0 /\ task[t] = Absent
      BY <2>1 DEF Recorded, Idle, Writers
    <2>3. \A w \in Writers : ~op'[t][w].last
      BY <2>1, Starts DEF Living, Writers
    <2> QED
      BY <2>1, <2>2, <2>3 DEF Living
  <1>2. CASE Report(t)
    <2>1. PICK to \in {"same", "running"} : op' = [op EXCEPT ![t]["runner"] = Started(1, to, "pending")]
      BY <1>2 DEF Report, Begins
    <2>2. /\ op'[t]["runner"].at = 1 /\ op'[t]["runner"].to = to /\ ~op'[t]["runner"].last
          /\ op'[t]["ticker"] = op[t]["ticker"]
      BY <2>1, Starts DEF TypeOK, Writers
    <2>3. UNCHANGED <<task, job>> /\ job[t] = "working"
      BY <1>2 DEF Report
    <2>4. op[t]["ticker"].at = 0
      BY <2>3 DEF Living
    <2> QED
      BY <2>2, <2>3, <2>4 DEF Living, Writers
  <1>3. CASE Ticks(t)
    <2>1. op' = [op EXCEPT ![t]["ticker"] = Started(1, "running", "pending")]
      BY <1>3 DEF Ticks, Begins
    <2>2. /\ op'[t]["ticker"].at = 1 /\ op'[t]["ticker"].to = "running" /\ ~op'[t]["ticker"].last
          /\ op'[t]["runner"] = op[t]["runner"]
      BY <2>1, Starts DEF TypeOK, Writers
    <2>3. UNCHANGED <<task, job>> /\ job[t] = "ticking"
      BY <1>3 DEF Ticks
    <2>4. op[t]["runner"].at = 0
      BY <2>3 DEF Living
    <2> QED
      BY <2>2, <2>3, <2>4 DEF Living, Writers
  <1>4. CASE Finish(t)
    <2>1. /\ job[t] \in {"working", "ticking", "broken"} /\ job'[t] = "ending" /\ task' = task
      BY <1>4 DEF Finish, TypeOK
    <2>2. PICK s \in Ended : op'[t]["runner"] = Started(1, s, "pending") /\ op'[t]["ticker"] = NoWrite
      BY <1>4 DEF Finish, TypeOK, Writers, Ended, AbortTicker
    <2>3. /\ op'[t]["runner"].at = 1 /\ op'[t]["runner"].to = s /\ ~op'[t]["runner"].last
          /\ op'[t]["ticker"].at = 0 /\ ~op'[t]["ticker"].last
      BY <2>2, Starts DEF NoWrite
    <2> QED
      BY <2>1, <2>3 DEF Living, Writers
  <1>5. CASE Expire(t)
    <2>1. /\ task'[t] = Absent /\ UNCHANGED <<job, op>> /\ \A w \in Writers : op[t][w].at = 0
      BY <1>5 DEF Expire, TypeOK, Shown, Idle
    <2> QED
      BY <2>1 DEF Living
  <1> QED
    BY <1>1, <1>2, <1>3, <1>4, <1>5

LEMMA LivingSteps ==
  ASSUME TypeOK, ~May("preempt"), \A t \in Tasks : Recorded(t) /\ Living(t), [Next]_vars
  PROVE \A t \in Tasks : Living(t)'
  <1>1. ASSUME NEW t \in Tasks, NEW w \in Writers, WriteStep(t, w) \/ CommandFails(t, w), NEW u \in Tasks
        PROVE Living(u)'
    <2>1. CASE u = t
      BY <1>1, <2>1, LivingWrites
    <2>2. CASE u # t
      BY <1>1, <2>2, OthersWrites, LivingStays
    <2> QED
      BY <2>1, <2>2
  <1>2. ASSUME NEW t \in Tasks, Create(t) \/ Report(t) \/ Ticks(t) \/ Finish(t) \/ Expire(t), NEW u \in Tasks
        PROVE Living(u)'
    <2>1. CASE u = t
      BY <1>2, <2>1, LivingRuns
    <2>2. CASE u # t
      BY <1>2, <2>2, OthersRuns, LivingStays
    <2> QED
      BY <2>1, <2>2
  <1>3. ASSUME Restart, NEW u \in Tasks PROVE Living(u)'
    <2>1. /\ task' = task /\ \A w \in Writers : op'[u][w] = NoWrite
          /\ job'[u] \in {"none", "done", "dead"}
      BY <1>3 DEF Restart
    <2>2. NoWrite.at = 0 /\ ~NoWrite.last
      BY DEF NoWrite
    <2> QED
      BY <2>1, <2>2 DEF Living, Writers
  <1>4. ASSUME NEW t \in Tasks, Read(t), NEW u \in Tasks PROVE Living(u)'
    BY <1>4, LivingStays DEF Read
  <1>5. ASSUME Connect \/ List \/ Greet \/ Deliver \/ Leave \/ UNCHANGED vars, NEW u \in Tasks
        PROVE Living(u)'
    <2>1. UNCHANGED <<task, job, op>>
      BY <1>5 DEF Connect, List, Greet, Deliver, Leave, vars
    <2> QED
      BY <2>1, LivingStays
  <1> QED
    BY <1>1, <1>2, <1>3, <1>4, <1>5 DEF Next, SocketStep

LEMMA LivingStarts == Init => \A t \in Tasks : Living(t)
  <1> SUFFICES ASSUME Init, NEW t \in Tasks PROVE Living(t)
    OBVIOUS
  <1>1. NoWrite.at = 0 /\ ~NoWrite.last
    BY DEF NoWrite
  <1>2. task[t] = Absent /\ job[t] = "none" /\ \A w \in Writers : op[t][w] = NoWrite
    BY DEF Init, Nothing
  <1> QED
    BY <1>1, <1>2 DEF Living, Writers

-----------------------------------------------------------------------------
(* The refinement                                                          *)

\* What a step may make of the life of one task.
Passes(t) ==
  \/ LifeOf(t)' = LifeOf(t)
  \/ LifeOf(t) = "none" /\ LifeOf(t)' = "pending"
  \/ LifeOf(t) = "pending" /\ LifeOf(t)' = "running"
  \/ LifeOf(t) \in Lasting /\ LifeOf(t)' \in Ended
  \/ LifeOf(t)' = "gone"

LEMMA OneLife ==
  ASSUME NEW t \in Tasks, Passes(t), \A u \in Tasks \ {t} : LifeOf(u)' = LifeOf(u)
  PROVE [Life!Next]_LifeStatus
  <1> DEFINE s == LifeOf(t)'
  <1>1. LifeStatus' = [LifeStatus EXCEPT ![t] = s]
    BY DEF LifeStatus
  <1>2. LifeStatus[t] = LifeOf(t)
    BY DEF LifeStatus
  <1>3. LifeStatus = [u \in Tasks |-> LifeOf(u)]
    BY DEF LifeStatus
  <1> HIDE DEF s
  <1>4. CASE s = LifeOf(t)
    BY <1>1, <1>2, <1>3, <1>4
  <1>5. CASE LifeOf(t) = "none" /\ s = "pending"
    BY <1>1, <1>2, <1>3, <1>5 DEF Life!Next, Life!Create, Life!Becomes
  <1>6. CASE LifeOf(t) = "pending" /\ s = "running"
    BY <1>1, <1>2, <1>3, <1>6 DEF Life!Next, Life!Start, Life!Becomes
  <1>7. CASE LifeOf(t) \in Lasting /\ s \in Ended
    BY <1>1, <1>2, <1>3, <1>7 DEF Life!Next, Life!End, Life!Active, Life!Becomes, Lasting, Ended
  <1>8. CASE s = "gone"
    <2>1. LifeStatus' = [u \in Tasks |-> IF u \in {t} THEN "gone" ELSE LifeStatus[u]]
      BY <1>1, <1>3, <1>8
    <2> QED
      BY <1>3, <2>1 DEF Life!Next, Life!Vanish
  <1> QED
    BY <1>4, <1>5, <1>6, <1>7, <1>8 DEF Passes, s

LEMMA SameLife ==
  ASSUME NEW t, task'[t] = task[t], job'[t] = job[t]
  PROVE LifeOf(t)' = LifeOf(t)
  BY DEF LifeOf

LEMMA WritesLive ==
  ASSUME TypeOK, NEW t \in Tasks, NEW w \in Writers, Recorded(t), Living(t),
         WriteStep(t, w) \/ CommandFails(t, w)
  PROVE Passes(t)
  <1>0. op[t][w] \in Write /\ op[t][w].at \in 0..4 /\ ~op[t][w].last /\ op[t][w].val # Absent
    BY BoardPlaces, BoardAssumption DEF Living, Write
  <1>1. CASE Set(t, w)
    <2>1. op[t][w].at = 2 /\ task'[t] = op[t][w].val
      BY <1>1, BoardPlaces DEF Set, TypeOK, Shown
    <2>2. LifeOf(t)' = op[t][w].val
      BY <1>0, <2>1 DEF LifeOf
    <2>3. CASE job[t] = "creating"
      BY <1>0, <2>1, <2>2, <2>3, SetsNext DEF LifeOf, Passes
    <2>4. CASE job[t] # "creating"
      <3>1. LifeOf(t) = task[t]
        BY <1>0, <2>1, <2>4, BoardAssumption, SetsNext DEF LifeOf
      <3> QED
        BY <2>1, <2>2, <2>4, <3>1, SetsNext DEF Passes
    <2> QED
      BY <2>3, <2>4
  <1>2. CASE ~Set(t, w) /\ task'[t] # task[t]
    <2>1. op[t][w].at = 2 /\ task'[t] = op[t][w].val
      BY <1>2, BoardPlaces DEF WriteStep, Get, GetNothing, Index, Emit, CommandFails, TypeOK, Shown
    <2>2. LifeOf(t)' = op[t][w].val
      BY <1>0, <2>1 DEF LifeOf
    <2>3. CASE job[t] = "creating"
      BY <1>0, <2>1, <2>2, <2>3, SetsNext DEF LifeOf, Passes
    <2>4. CASE job[t] # "creating"
      <3>1. LifeOf(t) = task[t]
        BY <1>0, <2>1, <2>4, BoardAssumption, SetsNext DEF LifeOf
      <3> QED
        BY <2>1, <2>2, <2>4, <3>1, SetsNext DEF Passes
    <2> QED
      BY <2>3, <2>4
  <1>3. CASE task'[t] = task[t] /\ task[t] # Absent
    BY <1>3 DEF LifeOf, Passes
  <1>4. CASE task'[t] = task[t] /\ task[t] = Absent
    <2>1. (\E o : Step(t, w, o)) \/ Abandon(t, w)
      BY DEF WriteStep, Get, GetNothing, Set, Index, Emit, CommandFails
    <2>2. job'[t] \in {job[t], AfterOk(t, w), AfterError(t, w)}
      BY <2>1, StepOf, AbandonOf
    <2>3. job[t] # "none"
      BY BoardPlaces DEF WriteStep, Get, GetNothing, Set, Index, Emit, CommandFails, Recorded, Idle, At
    <2>4. CASE job[t] # "creating"
      <3>1. job'[t] \notin {"none", "creating"}
        BY <2>2, <2>3, <2>4, AfterWrites
      <3> QED
        BY <1>4, <3>1 DEF LifeOf, Passes
    <2>5. CASE job[t] = "creating"
      <3>1. CASE job'[t] = "creating"
        BY <1>4, <2>5, <3>1 DEF LifeOf, Passes
      <3>2. CASE job'[t] # "creating"
        <4>1. job'[t] # "none"
          BY <2>2, <2>5, <3>2 DEF AfterOk, AfterError, AfterWrite
        <4> QED
          BY <1>4, <3>2, <4>1 DEF LifeOf, Passes
      <3> QED
        BY <3>1, <3>2
    <2> QED
      BY <2>4, <2>5
  <1> QED
    BY <1>1, <1>2, <1>3, <1>4

LEMMA RunsLive ==
  ASSUME TypeOK, NEW t \in Tasks, Recorded(t), Create(t) \/ Report(t) \/ Ticks(t) \/ Finish(t) \/ Expire(t)
  PROVE Passes(t)
  <1>1. CASE Create(t)
    <2>1. task' = task /\ job[t] = "none" /\ job'[t] = "creating"
      BY <1>1 DEF Create, TypeOK
    <2> QED
      BY <2>1 DEF LifeOf, Passes
  <1>2. CASE Report(t) \/ Ticks(t)
    BY <1>2, SameLife DEF Report, Ticks, Passes
  <1>3. CASE Finish(t)
    <2>1. task' = task /\ job[t] \in {"working", "ticking", "broken"} /\ job'[t] = "ending"
      BY <1>3 DEF Finish, TypeOK
    <2> QED
      BY <2>1 DEF LifeOf, Passes
  <1>4. CASE Expire(t)
    <2>1. /\ task[t] # Absent /\ task'[t] = Absent /\ job' = job /\ \A w \in Writers : op[t][w].at = 0
      BY <1>4 DEF Expire, TypeOK, Shown, Idle
    <2>2. job[t] # "none" /\ job[t] # "creating"
      BY <2>1 DEF Recorded, Writers
    <2> QED
      BY <2>1, <2>2 DEF LifeOf, Passes
  <1> QED
    BY <1>1, <1>2, <1>3, <1>4

LEMMA LifeSteps ==
  ASSUME TypeOK, \A t \in Tasks : Recorded(t) /\ Living(t), [Next]_vars
  PROVE [Life!Next]_LifeStatus
  <1>1. ASSUME NEW t \in Tasks, NEW w \in Writers, WriteStep(t, w) \/ CommandFails(t, w)
        PROVE [Life!Next]_LifeStatus
    BY <1>1, WritesLive, OthersWrites, SameLife, OneLife
  <1>2. ASSUME NEW t \in Tasks, Create(t) \/ Report(t) \/ Ticks(t) \/ Finish(t) \/ Expire(t)
        PROVE [Life!Next]_LifeStatus
    BY <1>2, RunsLive, OthersRuns, SameLife, OneLife
  <1>3. ASSUME Restart PROVE [Life!Next]_LifeStatus
    <2> DEFINE T == {t \in Tasks : task[t] = Absent /\ job[t] = "creating"}
    <2>1. /\ task' = task
          /\ \A t \in Tasks : job'[t] = IF job[t] \in {"none", "done"} THEN job[t] ELSE "dead"
      BY <1>3 DEF Restart, fixed
    <2>2. \A t \in Tasks : LifeOf(t)' = IF t \in T THEN "gone" ELSE LifeOf(t)
      BY <2>1 DEF LifeOf
    <2> HIDE DEF T
    <2>3. LifeStatus' = [t \in Tasks |-> IF t \in T THEN "gone" ELSE LifeStatus[t]]
      BY <2>2 DEF LifeStatus
    <2>4. T \in SUBSET Tasks
      BY DEF T
    <2> QED
      BY <2>3, <2>4 DEF LifeStatus, Life!Next, Life!Vanish
  <1>4. ASSUME UNCHANGED <<task, job>> PROVE [Life!Next]_LifeStatus
    BY <1>4, SameLife DEF LifeStatus
  <1>5. CASE SocketStep \/ Connect \/ Leave \/ UNCHANGED vars
    BY <1>4, <1>5 DEF SocketStep, Connect, List, Read, Greet, Deliver, Leave, vars
  <1> QED
    BY <1>1, <1>2, <1>3, <1>5 DEF Next

-----------------------------------------------------------------------------
(* What a browser shows                                                    *)

Updates == [task : Tasks, status : Status]

\* No update of a task waits; the last one that waits says so.
Untold(c, t) == \A i \in 1..Len(c) : c[i].task # t
LastTold(c, t, v) ==
  \E i \in 1..Len(c) : /\ c[i].task = t /\ c[i].status = v
                      /\ \A j \in i + 1 .. Len(c) : c[j].task # t

\* What the browser shows, or will when it has read its first message.
Based(t) ==
  /\ conn = "read" => t \in todo \/ seen[t] = task[t]
  /\ conn = "live" => board[t] = task[t]

\* The updates that wait leave the browser with what Valkey holds.
Known(t) ==
  Listening => LastTold(chan, t, task[t]) \/ (Untold(chan, t) /\ Based(t))

\* A write that has set the record will tell of it; when none is under way the
\* browser has been told.
Showing(t) ==
  /\ \A w \in Writers : op[t][w].at \in {3, 4} => op[t][w].val = task[t]
  /\ Quiet(t) /\ task[t] # Absent /\ job[t] # "dead" => Known(t)

Calm == Told /\ faults \cap {"valkey", "preempt", "bridge", "burst"} = {}

ShowsInv ==
  /\ conn = "away" => chan = <<>>
  /\ conn # "stuck" /\ \A t \in Tasks : Showing(t)

LEMMA AppendedTells ==
  ASSUME NEW S, NEW c \in Seq(S), NEW e \in S
  PROVE /\ LastTold(Append(c, e), e.task, e.status)
        /\ \A t, v : e.task # t /\ LastTold(c, t, v) => LastTold(Append(c, e), t, v)
        /\ \A t : e.task # t /\ Untold(c, t) => Untold(Append(c, e), t)
  <1> DEFINE d == Append(c, e)
  <1>1. Len(c) \in Nat /\ Len(d) = Len(c) + 1 /\ d[Len(d)] = e /\ \A i \in 1..Len(c) : d[i] = c[i]
    OBVIOUS
  <1> HIDE DEF d
  <1>2. LastTold(d, e.task, e.status)
    BY <1>1 DEF LastTold
  <1>3. ASSUME NEW t, NEW v, e.task # t, LastTold(c, t, v) PROVE LastTold(d, t, v)
    <2>1. PICK i \in 1..Len(c) : /\ c[i].task = t /\ c[i].status = v
                                /\ \A j \in i + 1 .. Len(c) : c[j].task # t
      BY <1>3 DEF LastTold
    <2>2. \A j \in i + 1 .. Len(d) : j = Len(d) \/ j \in i + 1 .. Len(c)
      BY <1>1
    <2>3. \A j \in i + 1 .. Len(d) : d[j].task # t
      BY <1>1, <1>3, <2>1, <2>2
    <2> QED
      BY <1>1, <2>1, <2>3 DEF LastTold
  <1>4. ASSUME NEW t, e.task # t, Untold(c, t) PROVE Untold(d, t)
    <2>1. \A j \in 1..Len(d) : j = Len(d) \/ j \in 1..Len(c)
      BY <1>1
    <2> QED
      BY <1>1, <1>4, <2>1 DEF Untold
  <1> QED
    BY <1>2, <1>3, <1>4 DEF d

LEMMA DeliveredTells ==
  ASSUME NEW S, NEW c \in Seq(S), c # <<>>, NEW t, NEW v
  PROVE /\ LastTold(c, t, v) =>
             LastTold(Tail(c), t, v) \/ (Untold(Tail(c), t) /\ Head(c).task = t /\ Head(c).status = v)
        /\ Untold(c, t) => Untold(Tail(c), t) /\ Head(c).task # t
  <1> DEFINE d == Tail(c)
  <1>1. Len(c) \in Nat \ {0} /\ Len(d) = Len(c) - 1 /\ Head(c) = c[1] /\ \A i \in 1..Len(d) : d[i] = c[i + 1]
    OBVIOUS
  <1> HIDE DEF d
  <1>2. ASSUME LastTold(c, t, v)
        PROVE LastTold(d, t, v) \/ (Untold(d, t) /\ c[1].task = t /\ c[1].status = v)
    <2>1. PICK i \in 1..Len(c) : /\ c[i].task = t /\ c[i].status = v
                                /\ \A j \in i + 1 .. Len(c) : c[j].task # t
      BY <1>2 DEF LastTold
    <2>2. \A j \in 1..Len(d) : j + 1 \in 1..Len(c) /\ (j + 1 \in i + 1 .. Len(c) <=> j >= i)
      BY <1>1
    <2>3. CASE i = 1
      <3>1. \A j \in 1..Len(d) : d[j].task # t
        BY <1>1, <2>1, <2>2, <2>3
      <3> QED
        BY <2>1, <2>3, <3>1 DEF Untold
    <2>4. CASE i # 1
      <3>1. i - 1 \in 1..Len(d) /\ d[i - 1] = c[i]
        BY <1>1, <2>4
      <3>2. \A j \in (i - 1) + 1 .. Len(d) : d[j].task # t
        BY <1>1, <2>1, <2>2
      <3> QED
        BY <2>1, <3>1, <3>2 DEF LastTold
    <2> QED
      BY <2>3, <2>4
  <1>3. ASSUME Untold(c, t) PROVE Untold(d, t) /\ c[1].task # t
    <2>1. \A j \in 1..Len(d) : j + 1 \in 1..Len(c)
      BY <1>1
    <2> QED
      BY <1>1, <1>3, <2>1 DEF Untold
  <1> QED
    BY <1>1, <1>2, <1>3 DEF d

\* A step that leaves a task and its writes alone and tells nothing wrong of it.
LEMMA ShowingStays ==
  ASSUME NEW t, Showing(t), task'[t] = task[t], job'[t] = job[t], op'[t] = op[t], Known(t) => Known(t)'
  PROVE Showing(t)'
  BY DEF Showing, Quiet, Idle

\* One writer of a task is under way at most.
LEMMA OneWriter ==
  ASSUME NEW t, Living(t), NEW w \in Writers, op[t][w].at # 0
  PROVE \A v \in Writers \ {w} : op[t][v].at = 0
  BY DEF Living, Writers

LEMMA ShowingWrites ==
  ASSUME TypeOK, Calm, NEW t \in Tasks, NEW w \in Writers, Recorded(t), Living(t), Showing(t), WriteStep(t, w)
  PROVE Showing(t)'
  <1>0. op[t][w] \in Write /\ op[t][w].at \in 1..4 /\ ~op[t][w].last
    BY BoardPlaces DEF Living, WriteStep, Get, GetNothing, Set, Index, Emit
  <1>00. \A v \in Writers \ {w} : op[t][v].at = 0
    BY <1>0, OneWriter
  <1>1. CASE Get(t, w)
    <2> DEFINE o == [op[t][w] EXCEPT !.val = Changed(task[t], op[t][w].to)]
    <2>1. op[t][w].at = 1 /\ task[t] # Absent /\ task' = task /\ Step(t, w, Advance(o))
      BY <1>1, BoardPlaces DEF Get
    <2>2. task[t] \in Status
      BY <2>1 DEF TypeOK, Shown
    <2>3. Changed(task[t], op[t][w].to) \in Status
      BY <1>0, <2>2 DEF Changed, Write, Status
    <2>4. o \in Write /\ o.at = 1 /\ ~o.last
      BY <1>0, <2>1, <2>3 DEF Write
    <2> HIDE DEF o
    <2> DEFINE n == Advance(o)
    <2>5. n.at = 2
      BY <2>4, FourCommands DEF Advance, Write
    <2>6. Step(t, w, n)
      BY <2>1
    <2> HIDE DEF n
    <2>7. op'[t][w] = n
      BY <2>6, StepOf
    <2>8. \A v \in Writers \ {w} : op'[t][v] = op[t][v]
      BY <2>6, StepOf
    <2> QED
      BY <1>00, <2>5, <2>7, <2>8 DEF Showing, Quiet, Idle
  <1>2. CASE GetNothing(t, w)
    <2>1. task' = task /\ task[t] = Absent /\ Abandon(t, w)
      BY <1>2 DEF GetNothing
    <2>2. op'[t][w] = NoWrite
      BY <2>1, AbandonOf
    <2>3. \A v \in Writers \ {w} : op'[t][v] = op[t][v]
      BY <2>1, AbandonOf
    <2>4. NoWrite.at = 0
      BY DEF NoWrite
    <2> QED
      BY <1>00, <2>1, <2>2, <2>3, <2>4 DEF Showing
  <1>3. CASE Set(t, w) \/ Index(t, w)
    <2> DEFINE n == Advance(op[t][w])
    <2>1. /\ op[t][w].at \in {2, 3} /\ Step(t, w, n)
          /\ op[t][w].at = 2 => task'[t] = op[t][w].val
          /\ op[t][w].at = 3 => task'[t] = task[t]
      BY <1>3, BoardPlaces DEF Set, Index, TypeOK, Shown
    <2>2. n.at \in {3, 4} /\ n.val = op[t][w].val
      BY <1>0, <2>1, FourCommands DEF Advance, Write
    <2> HIDE DEF n
    <2>3. op'[t][w] = n
      BY <2>1, StepOf
    <2>4. \A v \in Writers \ {w} : op'[t][v] = op[t][v]
      BY <2>1, StepOf
    <2>5. n.val = task'[t]
      BY <2>1, <2>2 DEF Showing
    <2> QED
      BY <1>00, <2>2, <2>3, <2>4, <2>5 DEF Showing, Quiet, Idle
  <1>5. CASE Emit(t, w)
    <2> DEFINE update == [task |-> t, status |-> op[t][w].val]
    <2>1. op[t][w].at = 4 /\ task' = task /\ Step(t, w, Advance(op[t][w]))
      BY <1>5, BoardPlaces DEF Emit
    <2>2. conn' = conn /\ (Listening => chan' = Append(chan, update))
      BY <1>5 DEF Emit, Calm, May, Listening
    <2>3. Advance(op[t][w]) = NoWrite /\ NoWrite.at = 0
      BY <2>1, FourCommands DEF Advance, NoWrite
    <2>4. Step(t, w, NoWrite)
      BY <2>1, <2>3
    <2>5. op'[t][w] = NoWrite
      BY <2>4, StepOf
    <2>6. \A v \in Writers \ {w} : op'[t][v] = op[t][v]
      BY <2>4, StepOf
    <2>7. update \in Updates /\ chan \in Seq(Updates)
      BY <1>0 DEF Updates, Write, TypeOK
    <2>8. update.task = t /\ update.status = op[t][w].val /\ op[t][w].val = task'[t]
      BY <2>1 DEF Showing
    <2> HIDE DEF update
    <2>9. Known(t)'
      BY <2>2, <2>7, <2>8, AppendedTells DEF Known, Listening
    <2> QED
      BY <1>00, <2>3, <2>5, <2>6, <2>9 DEF Showing
  <1> QED
    BY <1>1, <1>2, <1>3, <1>5 DEF WriteStep

LEMMA OthersShowing ==
  ASSUME TypeOK, Calm, NEW t \in Tasks, NEW w \in Writers, WriteStep(t, w),
         NEW u \in Tasks \ {t}, Showing(u)
  PROVE Showing(u)'
  <1>1. task'[u] = task[u] /\ job'[u] = job[u] /\ op'[u] = op[u]
    BY OthersWrites
  <1>2. UNCHANGED <<todo, seen, board, conn>>
    BY DEF WriteStep, Get, GetNothing, Set, Index, Emit, browser, Calm, May
  <1>3. CASE chan' = chan
    <2>1. Known(u) => Known(u)'
      BY <1>1, <1>2, <1>3 DEF Known, Based, Listening
    <2> QED
      BY <1>1, <2>1, ShowingStays
  <1>4. CASE chan' # chan
    <2> DEFINE update == [task |-> t, status |-> op[t][w].val]
    <2>1. chan' = Append(chan, update)
      BY <1>4 DEF WriteStep, Get, GetNothing, Set, Index, Emit, browser
    <2>2. update \in Updates /\ chan \in Seq(Updates)
      BY DEF Updates, Write, TypeOK
    <2>3. update.task # u
      OBVIOUS
    <2> HIDE DEF update
    <2>4. /\ \A v : LastTold(chan, u, v) => LastTold(chan', u, v)
          /\ Untold(chan, u) => Untold(chan', u)
      BY <2>1, <2>2, <2>3, AppendedTells
    <2>5. Known(u) => Known(u)'
      BY <1>1, <1>2, <2>4 DEF Known, Based, Listening
    <2> QED
      BY <1>1, <2>5, ShowingStays
  <1> QED
    BY <1>3, <1>4

LEMMA ShowingRuns ==
  ASSUME TypeOK, Calm, NEW t \in Tasks, Recorded(t), Living(t), Showing(t),
         Create(t) \/ Report(t) \/ Ticks(t) \/ Finish(t) \/ Expire(t)
  PROVE Showing(t)'
  <1>1. CASE Expire(t)
    <2>1. task'[t] = Absent /\ op' = op /\ \A w \in Writers : op[t][w].at = 0
      BY <1>1 DEF Expire, TypeOK, Shown, Idle
    <2> QED
      BY <2>1 DEF Showing
  <1>2. CASE Create(t) \/ Report(t) \/ Ticks(t) \/ Finish(t)
    <2>1. \E w \in Writers : op'[t][w].at \in {1, 2} /\ \A v \in Writers \ {w} : op'[t][v].at = 0
      <3>1. CASE Create(t)
        <4>1. /\ job[t] = "none" /\ op'[t]["runner"] = Started(2, "same", "pending")
              /\ op'[t]["ticker"] = op[t]["ticker"]
          BY <3>1 DEF Create, TypeOK, Writers
        <4> QED
          BY <4>1, Starts DEF Recorded, Idle, Writers
      <3>2. CASE Report(t)
        <4>1. PICK to : op' = [op EXCEPT ![t]["runner"] = Started(1, to, "pending")]
          BY <3>2 DEF Report, Begins
        <4>2. op'[t]["runner"].at = 1 /\ op'[t]["ticker"] = op[t]["ticker"] /\ op[t]["ticker"].at = 0
          BY <3>2, <4>1, Starts DEF Report, TypeOK, Writers, Living
        <4> QED
          BY <4>2 DEF Writers
      <3>3. CASE Ticks(t)
        <4>1. op' = [op EXCEPT ![t]["ticker"] = Started(1, "running", "pending")]
          BY <3>3 DEF Ticks, Begins
        <4>2. op'[t]["ticker"].at = 1 /\ op'[t]["runner"] = op[t]["runner"] /\ op[t]["runner"].at = 0
          BY <3>3, <4>1, Starts DEF Ticks, TypeOK, Writers, Living
        <4> QED
          BY <4>2 DEF Writers
      <3>4. CASE Finish(t)
        <4>1. PICK s \in Ended : op'[t]["runner"] = Started(1, s, "pending") /\ op'[t]["ticker"] = NoWrite
          BY <3>4 DEF Finish, TypeOK, Writers, Ended, AbortTicker, Calm, May
        <4> QED
          BY <4>1, Starts DEF NoWrite, Writers
      <3> QED
        BY <1>2, <3>1, <3>2, <3>3, <3>4
    <2> QED
      BY <2>1 DEF Showing, Quiet, Idle
  <1> QED
    BY <1>1, <1>2

\* The socket reads, delivers, comes and goes.
LEMMA ShowingSockets ==
  ASSUME TypeOK, Calm, ShowsInv, NEW u \in Tasks, Recorded(u), Connect \/ SocketStep \/ Leave
  PROVE Showing(u)'
  <1>0. Showing(u)
    BY DEF ShowsInv
  <1>1. UNCHANGED <<task, job, op>>
    BY DEF Connect, SocketStep, List, Greet, Deliver, Read, Leave
  <1>2. CASE Connect
    <2>1. conn' = "list" /\ chan' = <<>>
      BY <1>2 DEF Connect, ShowsInv
    <2>2. Untold(<<>>, u)
      BY DEF Untold
    <2>3. Known(u)'
      BY <2>1, <2>2 DEF Known, Based
    <2> QED
      BY <1>0, <1>1, <2>3, ShowingStays
  <1>3. CASE List
    <2>1. conn = "list" /\ conn' = "read" /\ todo' = index /\ chan' = chan
      BY <1>3 DEF List
    <2>2. ASSUME Quiet(u), task[u] # Absent, job[u] # "dead" PROVE u \in index
      BY <2>2 DEF Recorded, Quiet, Idle, Writers, TypeOK, Jobs
    <2>3. ASSUME Quiet(u), task[u] # Absent, job[u] # "dead" PROVE Known(u)'
      <3>1. Known(u)
        BY <1>0, <2>3 DEF Showing
      <3> QED
        BY <1>1, <2>1, <2>2, <2>3, <3>1 DEF Known, Based, Listening
    <2> QED
      BY <1>0, <1>1, <2>3 DEF Showing, Quiet, Idle
  <1>4. ASSUME NEW t \in Tasks, Read(t) PROVE Showing(u)'
    <2>1. conn = "read" /\ todo' = todo \ {t} /\ UNCHANGED <<conn, chan, board>>
          /\ (t # u => seen'[u] = seen[u])
          /\ (task[u] # Absent /\ t = u => seen'[u] = task[u])
      BY <1>4 DEF Read, TypeOK, Shown
    <2>2. task[u] # Absent /\ Known(u) => Known(u)'
      BY <1>1, <2>1 DEF Known, Based, Listening
    <2> QED
      BY <1>0, <1>1, <2>2 DEF Showing, Quiet, Idle
  <1>5. CASE Greet
    <2>1. conn = "read" /\ todo = {} /\ board' = seen /\ conn' = "live" /\ chan' = chan
      BY <1>5 DEF Greet
    <2>2. Known(u) => Known(u)'
      BY <1>1, <2>1 DEF Known, Based, Listening
    <2> QED
      BY <1>0, <1>1, <2>2, ShowingStays
  <1>6. CASE Deliver
    <2>1. /\ conn = "live" /\ chan # <<>> /\ chan' = Tail(chan) /\ conn' = conn
          /\ board' = [board EXCEPT ![Head(chan).task] = Head(chan).status]
      BY <1>6 DEF Deliver, ShowsInv
    <2>2. chan \in Seq(Updates) /\ board \in Shown
      BY DEF TypeOK, Updates
    <2>3. /\ Head(chan).task = u => board'[u] = Head(chan).status
          /\ Head(chan).task # u => board'[u] = board[u]
      BY <2>1, <2>2 DEF Shown
    <2>4. /\ LastTold(chan, u, task[u]) =>
               LastTold(Tail(chan), u, task[u])
                 \/ (Untold(Tail(chan), u) /\ Head(chan).task = u /\ Head(chan).status = task[u])
          /\ Untold(chan, u) => Untold(Tail(chan), u) /\ Head(chan).task # u
      BY <2>1, <2>2, DeliveredTells
    <2>5. Known(u) => Known(u)'
      BY <1>1, <2>1, <2>3, <2>4 DEF Known, Based, Listening
    <2> QED
      BY <1>0, <1>1, <2>5, ShowingStays
  <1>7. CASE Leave
    <2>1. Known(u)'
      BY <1>7 DEF Leave, Known, Listening
    <2> QED
      BY <1>0, <1>1, <2>1, ShowingStays
  <1> QED
    BY <1>2, <1>3, <1>4, <1>5, <1>6, <1>7 DEF SocketStep

LEMMA ShowsSteps ==
  ASSUME TypeOK, Calm, \A t \in Tasks : Recorded(t) /\ Living(t), ShowsInv, [Next]_vars
  PROVE ShowsInv'
  <1>1. ASSUME NEW t \in Tasks, NEW w \in Writers, WriteStep(t, w) PROVE ShowsInv'
    <2>1. ASSUME NEW u \in Tasks PROVE Showing(u)'
      BY <1>1, ShowingWrites, OthersShowing DEF ShowsInv
    <2>2. conn' = conn /\ (conn = "away" => chan' = chan)
      BY <1>1 DEF WriteStep, Get, GetNothing, Set, Index, Emit, browser, Calm, May, Listening
    <2> QED
      BY <2>1, <2>2 DEF ShowsInv
  <1>2. ASSUME NEW t \in Tasks, Create(t) \/ Report(t) \/ Ticks(t) \/ Finish(t) \/ Expire(t) PROVE ShowsInv'
    <2>1. UNCHANGED browser
      BY <1>2 DEF Create, Report, Ticks, Finish, Expire
    <2>2. ASSUME NEW u \in Tasks \ {t} PROVE Showing(u)'
      <3>1. task'[u] = task[u] /\ job'[u] = job[u] /\ op'[u] = op[u]
        BY <1>2, OthersRuns
      <3>2. Known(u) => Known(u)'
        BY <2>1, <3>1 DEF Known, Based, Listening, browser
      <3> QED
        BY <3>1, <3>2, ShowingStays DEF ShowsInv
    <2> QED
      BY <1>2, <2>1, <2>2, ShowingRuns DEF ShowsInv, browser
  <1>3. CASE Restart
    <2>1. near
      BY <1>3 DEF Restart, Calm, Told, May
    <2>2. conn' = "away" /\ chan' = <<>> /\ \A u \in Tasks, w \in Writers : op'[u][w] = NoWrite
      BY <1>3, <2>1 DEF Restart
    <2>3. NoWrite.at = 0
      BY DEF NoWrite
    <2> QED
      BY <2>2, <2>3 DEF ShowsInv, Showing, Known, Listening
  <1>4. CASE Connect \/ SocketStep \/ Leave
    <2>1. conn' # "stuck" /\ (conn' = "away" => chan' = <<>>)
      BY <1>4 DEF Connect, SocketStep, List, Greet, Deliver, Read, Leave, ShowsInv
    <2> QED
      BY <1>4, <2>1, ShowingSockets DEF ShowsInv
  <1>5. CASE UNCHANGED vars
    <2>1. \A u \in Tasks : Showing(u)'
      BY <1>5 DEF vars, ShowsInv, Showing, Known, Based, Listening, Quiet, Idle
    <2> QED
      BY <1>5, <2>1 DEF vars, ShowsInv
  <1>6. \A t \in Tasks, w \in Writers : ~CommandFails(t, w)
    BY DEF CommandFails, Calm, May
  <1> QED
    BY <1>1, <1>2, <1>3, <1>4, <1>5, <1>6 DEF Next

LEMMA ShowsStarts == Init => ShowsInv
  <1>1. NoWrite.at = 0
    BY DEF NoWrite
  <1> QED
    BY <1>1 DEF Init, Nothing, ShowsInv, Showing

\* A task that was created is in the index as long as its key lives, for any
\* number of tasks and whatever fails: listing drops only those that expired.
THEOREM TasksListed == Spec => []Listed
  <1>1. Init => TypeOK /\ \A t \in Tasks : Recorded(t)
    BY BoardStarts, RecordedStarts
  <1>2. TypeOK /\ (\A t \in Tasks : Recorded(t)) /\ [Next]_vars => TypeOK' /\ (\A t \in Tasks : Recorded(t))'
    BY BoardTypes, RecordedSteps
  <1>3. TypeOK /\ (\A t \in Tasks : Recorded(t)) => Listed
    BY DEF Recorded, Listed
  <1> QED
    BY <1>1, <1>2, <1>3, PTL DEF Spec

\* The types of records, index, writes and of the browser's state, whatever
\* fails; no channel holds more than its capacity.
THEOREM BoardTypesKept == Spec => []TypeOK
  BY BoardStarts, BoardTypes, PTL DEF Spec

\* Each of any number of tasks leads the life TaskLife describes: it is created
\* once, goes from pending to running, ends once and keeps its end until it goes
\* away; whatever commands fail and whenever the server is restarted, as long
\* as no ticker outlives its abortion.
THEOREM TasksLive ==
  ASSUME \A set \in FaultSets : "preempt" \notin set PROVE Spec => Life!Safe
  <1> DEFINE Inv == TypeOK /\ (\A t \in Tasks : Recorded(t) /\ Living(t)) /\ ~May("preempt")
  <1>1. Init => Inv
    BY BoardStarts, RecordedStarts, LivingStarts DEF Init, May
  <1>2. Inv /\ [Next]_vars => Inv'
    <2> SUFFICES ASSUME Inv, [Next]_vars PROVE Inv'
      OBVIOUS
    <2>1. TypeOK' /\ \A t \in Tasks : Recorded(t)' /\ Living(t)'
      BY BoardTypes, RecordedSteps, LivingSteps
    <2>2. faults' = faults
      BY DEF Next, WriteStep, Get, GetNothing, Set, Index, Emit, CommandFails, Create, Report, Ticks,
        Finish, Expire, Restart, Connect, SocketStep, List, Read, Greet, Deliver, Leave, vars, fixed
    <2> QED
      BY <2>1, <2>2 DEF May
  <1>3. Init => Life!Init
    BY DEF Init, Nothing, LifeOf, LifeStatus, Life!Init
  <1>4. Inv /\ [Next]_vars => [Life!Next]_LifeStatus
    BY LifeSteps
  <1> HIDE DEF Inv
  <1> QED
    BY <1>1, <1>2, <1>3, <1>4, PTL DEF Spec, Life!Safe

\* A browser that has read all it was sent shows what Valkey holds of each of any
\* number of tasks, whichever of its first message and the updates is older.
THEOREM BrowserShows == Spec => []Shows
  <1> DEFINE Inv == /\ TypeOK /\ \A t \in Tasks : Recorded(t)
                    /\ Calm => ShowsInv /\ (\A t \in Tasks : Living(t))
  <1>1. Init => Inv
    BY BoardStarts, RecordedStarts, LivingStarts, ShowsStarts
  <1>2. Inv /\ [Next]_vars => Inv'
    <2> SUFFICES ASSUME Inv, [Next]_vars PROVE Inv'
      OBVIOUS
    <2>1. Calm' => Calm
      BY DEF Next, WriteStep, Get, GetNothing, Set, Index, Emit, CommandFails, Create, Report, Ticks,
        Finish, Expire, Restart, Connect, SocketStep, List, Read, Greet, Deliver, Leave, vars, fixed, Calm, Told
    <2>2. Calm => ~May("preempt")
      BY DEF Calm, May
    <2> QED
      BY <2>1, <2>2, BoardTypes, RecordedSteps, LivingSteps, ShowsSteps
  <1>3. Inv => Shows
    <2> SUFFICES ASSUME Inv, Calm, conn = "live", chan = <<>>, NEW t \in Tasks, Quiet(t), task[t] # Absent, job[t] # "dead"
                 PROVE board[t] = task[t]
      BY DEF Shows, Calm
    <2>1. Known(t)
      BY DEF ShowsInv, Showing
    <2>2. ~LastTold(<<>>, t, task[t])
      BY DEF LastTold
    <2> QED
      BY <2>1, <2>2 DEF Known, Based, Listening
  <1> HIDE DEF Inv
  <1> QED
    BY <1>1, <1>2, <1>3, PTL DEF Spec
=============================================================================
