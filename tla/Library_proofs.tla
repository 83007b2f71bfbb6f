---------------------------- MODULE Library_proofs ----------------------------
(***************************************************************************)
(* Theorems about what one user has: a podcast gets out of reach only when *)
(* the one it is merged into is removed, and podcasts are counted          *)
(* (Library), an episode shown as downloaded can be played (Downloads), a  *)
(* playlist is played through (Playlists).                                 *)
(* MCLibrary puts these beside the synchronisation with other devices      *)
(* (Sync_proofs); the last section shows that each part behaves there as   *)
(* it does alone.                                                          *)
(***************************************************************************)
EXTENDS MCLibrary, Sync_proofs

-----------------------------------------------------------------------------
(* Podcasts (Library)                                                      *)

Requests == [op : {"none", "add", "merge", "unmerge", "remove", "remove_id"},
             pc : {"start", "check", "lock", "read", "write", "count"},
             url : Urls \cup {NoUrl}, id : Int, other : Int, list : SUBSET Ids]

Changing == {"merge", "unmerge", "remove", "remove_id"}

Shape ==
  /\ url \in [Ids -> Urls \cup {NoUrl}] /\ merged \in [Ids -> SUBSET Ids]
  /\ job \in [Workers -> Requests]
  /\ \A w \in Workers : job[w].op = "add" => job[w].url \in Urls

\* Requests that change what is there come one after the other.
OneChange == \A v, w \in Workers : job[v].op \in Changing /\ job[w].op \in Changing => v = w

\* A request finds what it was asked for, until it has done it.
Pending(w) ==
  LET j == job[w] IN
  /\ j.op = "merge" =>
       /\ {j.id, j.other} \subseteq shown \cap Rows /\ j.id # j.other
       /\ j.pc \in {"lock", "read", "write"} => merged[j.other] = {}
       /\ j.pc = "write" => j.list = merged[j.id]
  /\ j.op = "unmerge" =>
       /\ j.id \in shown \cap Rows /\ j.other \in merged[j.id]
       /\ j.pc = "write" => j.list = merged[j.id]
  /\ j.op = "remove" => j.id \in Rows
  /\ j.op = "remove_id" /\ j.pc = "start" => j.id \in Rows

Orderly == Shape /\ OneChange /\ \A w \in Workers : Pending(w)

\* A request that has not yet added its podcast, has added and not yet counted
\* it, has deleted and not yet discounted it.
Adds(j) == j.op = "add" /\ j.pc # "count"
CountsUp(j) == j.op = "add" /\ j.pc = "count"
CountsDown(j) == j.op = "remove_id" /\ j.pc = "count"

Adding == {w \in Workers : Adds(job[w])}
CountingUp == {w \in Workers : CountsUp(job[w])}
CountingDown == {w \in Workers : CountsDown(job[w])}

\* There are ids for those that add, and the counter is right but for those
\* that have still to count.
Tallied ==
  /\ next \in Nat \ {0} /\ next + Cardinality(Adding) <= MaxId + 1
  /\ \A i \in Ids : i >= next => url[i] = NoUrl
  /\ added = Cardinality(Rows) - Cardinality(CountingUp) + Cardinality(CountingDown)

LibraryIInv == trouble = {} => Orderly /\ Tallied

LEMMA LibraryStart == LibraryInit => Orderly
  BY DEF LibraryInit, Orderly, Shape, Requests, OneChange, Pending, Rows, NoJob, Changing

\* A step that only moves a request on leaves the podcasts as they are.
LEMMA JobMoves ==
  ASSUME Orderly, UNCHANGED <<url, next, shown, merged>>, NEW w \in Workers, NEW j \in Requests,
         job' = [job EXCEPT ![w] = j],
         j.op = "add" => j.url \in Urls,
         j.op \in Changing => \A v \in Workers \ {w} : job[v].op \notin Changing,
         Pending(w)'
  PROVE Orderly'
  <1>1. Shape'
    BY DEF Orderly, Shape, Rows
  <1>2. job'[w] = j /\ \A v \in Workers \ {w} : job'[v] = job[v]
    BY DEF Orderly, Shape
  <1>3. OneChange'
    BY <1>2 DEF Orderly, OneChange
  <1>4. \A v \in Workers : Pending(v)'
    <2>1. ASSUME NEW v \in Workers \ {w} PROVE Pending(v)'
      <3>1. job'[v] = job[v] /\ Pending(v)
        BY <1>2 DEF Orderly
      <3> QED
        BY <3>1 DEF Pending, Rows
    <2> QED
      BY <2>1
  <1> QED
    BY <1>1, <1>3, <1>4 DEF Orderly

\* A request that ends, whatever it was.
LEMMA Ends ==
  ASSUME Orderly, UNCHANGED <<url, next, shown, merged>>, NEW w \in Workers, Return(w)
  PROVE Orderly'
  <1>1. NoJob \in Requests /\ NoJob.op = "none"
    BY DEF NoJob, Requests
  <1>2. job' = [job EXCEPT ![w] = NoJob] /\ job'[w] = NoJob
    BY DEF Return, Orderly, Shape
  <1>3. Pending(w)'
    BY <1>1, <1>2 DEF Pending
  <1> QED
    BY <1>1, <1>2, <1>3, JobMoves DEF Changing

\* A request that goes on, with what it needs at its next statement.
LEMMA GoesOn ==
  ASSUME Orderly, UNCHANGED <<url, next, shown, merged>>, NEW w \in Workers,
         NEW pc \in {"start", "check", "lock", "read", "write", "count"}, Goto(w, pc), Pending(w)'
  PROVE Orderly'
  <1> DEFINE j == [job[w] EXCEPT !.pc = pc]
  <1>1. job[w] \in Requests
    BY DEF Orderly, Shape
  <1>2. j \in Requests /\ j.op = job[w].op /\ j.url = job[w].url
    BY <1>1 DEF Requests
  <1>3. job' = [job EXCEPT ![w] = j]
    BY DEF Goto
  <1>4. j.op = "add" => j.url \in Urls
    BY <1>2 DEF Orderly, Shape
  <1>5. j.op \in Changing => \A v \in Workers \ {w} : job[v].op \notin Changing
    BY <1>2 DEF Orderly, OneChange
  <1> HIDE DEF j
  <1> QED
    BY <1>2, <1>3, <1>4, <1>5, JobMoves

\* What a request looks like after it went on.
LEMMA WentOn ==
  ASSUME Shape, NEW w \in Workers,
         NEW pc \in {"start", "check", "lock", "read", "write", "count"}, Goto(w, pc)
  PROVE /\ job'[w].op = job[w].op /\ job'[w].pc = pc /\ job'[w].url = job[w].url
        /\ job'[w].id = job[w].id /\ job'[w].other = job[w].other /\ job'[w].list = job[w].list
  BY DEF Shape, Goto, Requests

\* A request that comes.
LEMMA Comes ==
  ASSUME trouble = {}, Orderly, NEW w \in Workers, NEW j \in Requests, Take(w, j),
         j.op = "add" => j.url \in Urls, j.op # "none", Pending(w)'
  PROVE Orderly'
  <1>1. j.op \in Changing => \A v \in Workers \ {w} : job[v].op \notin Changing
    BY DEF Take, Has, Changing
  <1>2. job' = [job EXCEPT ![w] = j] /\ UNCHANGED <<url, next, shown, merged>>
    BY DEF Take
  <1> QED
    BY <1>1, <1>2, JobMoves

LEMMA Asked ==
  ASSUME trouble = {}, Orderly, NEW w \in Workers
  PROVE /\ \A u \in Urls : AskAdd(w, u) => Orderly'
        /\ \A i, j \in 1..next - 1 : AskMerge(w, i, j) \/ AskUnmerge(w, i, j) => Orderly'
        /\ \A i \in 1..next - 1, op \in {"remove", "remove_id"} : AskRemove(w, op, i) => Orderly'
  <1>0. /\ NoJob \in Requests /\ NoJob.op = "none" /\ NoJob.pc = "start" /\ NoJob.id = 0
        /\ NoJob.other = 0
    BY DEF NoJob, Requests
  <1> USE DEF Requests
  <1>1. ASSUME NEW u \in Urls, AskAdd(w, u) PROVE Orderly'
    <2>1. u \in Urls /\ 0 \in Int
      OBVIOUS
    <2>2. PICK j : j = [NoJob EXCEPT !.op = "add", !.url = u]
      OBVIOUS
    <2>3. Take(w, j)
      BY <1>1, <2>2 DEF AskAdd
    <2>4. j \in Requests
      BY <1>0, <2>1, <2>2
    <2>5. j.op = "add" /\ j.url = u
      BY <1>0, <2>2
    <2>6. job'[w] = j /\ UNCHANGED <<url, shown, merged>>
      BY <2>3 DEF Take, Orderly, Shape
    <2>7. Pending(w)'
      BY <2>1, <2>5, <2>6 DEF Pending, Rows
    <2> QED
      BY <2>1, <2>3, <2>4, <2>5, <2>7, Comes
  <1>2. ASSUME NEW i \in 1..next - 1, NEW k \in 1..next - 1, AskMerge(w, i, k) PROVE Orderly'
    <2>1. {i, k} \subseteq shown \cap Rows /\ i # k /\ i \in Int /\ k \in Int
      BY <1>2, LibraryAssumption DEF AskMerge, Has, Rows, Ids
    <2>2. PICK j : j = [NoJob EXCEPT !.op = "merge", !.id = i, !.other = k]
      OBVIOUS
    <2>3. Take(w, j)
      BY <1>2, <2>2 DEF AskMerge
    <2>4. j \in Requests
      BY <1>0, <2>1, <2>2
    <2>5. j.op = "merge" /\ j.pc = "start" /\ j.id = i /\ j.other = k
      BY <1>0, <2>2
    <2>6. job'[w] = j /\ UNCHANGED <<url, shown, merged>>
      BY <2>3 DEF Take, Orderly, Shape
    <2>7. Pending(w)'
      BY <2>1, <2>5, <2>6 DEF Pending, Rows
    <2> QED
      BY <2>1, <2>3, <2>4, <2>5, <2>7, Comes
  <1>3. ASSUME NEW i \in 1..next - 1, NEW k \in 1..next - 1, AskUnmerge(w, i, k) PROVE Orderly'
    <2>1. i \in shown \cap Rows /\ k \in merged[i] /\ i \in Int /\ k \in Int
      BY <1>3, LibraryAssumption DEF AskUnmerge, Has, MergedOf, Rows, Ids, Orderly, Shape
    <2>2. PICK j : j = [NoJob EXCEPT !.op = "unmerge", !.id = i, !.other = k]
      OBVIOUS
    <2>3. Take(w, j)
      BY <1>3, <2>2 DEF AskUnmerge
    <2>4. j \in Requests
      BY <1>0, <2>1, <2>2
    <2>5. j.op = "unmerge" /\ j.pc = "start" /\ j.id = i /\ j.other = k
      BY <1>0, <2>2
    <2>6. job'[w] = j /\ UNCHANGED <<url, shown, merged>>
      BY <2>3 DEF Take, Orderly, Shape
    <2>7. Pending(w)'
      BY <2>1, <2>5, <2>6 DEF Pending, Rows
    <2> QED
      BY <2>1, <2>3, <2>4, <2>5, <2>7, Comes
  <1>4. ASSUME NEW i \in 1..next - 1, NEW op \in {"remove", "remove_id"}, AskRemove(w, op, i) PROVE Orderly'
    <2>1. i \in Rows /\ i \in Int /\ 0 \in Int
      BY <1>4, LibraryAssumption DEF AskRemove, Has, Rows, Ids
    <2>2. PICK j : j = [NoJob EXCEPT !.op = op, !.id = i]
      OBVIOUS
    <2>3. Take(w, j)
      BY <1>4, <2>2 DEF AskRemove
    <2>4. j \in Requests
      BY <1>0, <2>1, <2>2
    <2>5. j.op = op /\ j.pc = "start" /\ j.id = i
      BY <1>0, <2>2
    <2>6. job'[w] = j /\ UNCHANGED <<url, shown, merged>>
      BY <2>3 DEF Take, Orderly, Shape
    <2>7. Pending(w)'
      BY <2>1, <2>5, <2>6 DEF Pending, Rows
    <2> QED
      BY <2>1, <2>3, <2>4, <2>5, <2>7, Comes
  <1> QED
    BY <1>1, <1>2, <1>3, <1>4

-----------------------------------------------------------------------------
(* Adding                                                                  *)

LEMMA Added ==
  ASSUME trouble = {}, Orderly, NEW w \in Workers, CheckAdd(w) \/ InsertRow(w) \/ CountAdded(w)
  PROVE Orderly'
  <1>1. CASE CheckAdd(w)
    <2>1. CASE Return(w)
      BY <1>1, <2>1, Ends DEF CheckAdd
    <2>2. CASE Goto(w, "write")
      <3>1. Pending(w)'
        BY <1>1, <2>2, WentOn DEF CheckAdd, Pending, Orderly
      <3> QED
        BY <1>1, <2>2, <3>1, GoesOn DEF CheckAdd
    <2> QED
      BY <1>1, <2>1, <2>2 DEF CheckAdd
  <1>2. CASE InsertRow(w) /\ \E i \in Ids : url[i] = job[w].url
    BY <1>2, Ends DEF InsertRow
  <1>3. CASE InsertRow(w) /\ ~\E i \in Ids : url[i] = job[w].url
    <2>1. /\ url' = [url EXCEPT ![next] = job[w].url] /\ shown' = shown \cup {next}
          /\ Goto(w, "count") /\ merged' = merged /\ job[w].op = "add"
      BY <1>3 DEF InsertRow
    <2>2. job[w].url \in Urls /\ job[w].url # NoUrl
      BY <2>1, LibraryAssumption DEF Orderly, Shape
    <2>3. url' \in [Ids -> Urls \cup {NoUrl}]
      BY <2>1, <2>2 DEF Orderly, Shape
    <2>4. Rows \subseteq Rows' /\ Rows' \subseteq Rows \cup {next} /\ shown \subseteq shown'
      BY <2>1, <2>2 DEF Orderly, Shape, Rows
    <2>5. Shape' /\ OneChange'
      BY <2>1, <2>2, <2>3 DEF Goto, Orderly, Shape, OneChange, Requests, Changing
    <2>7. job'[w].op = "add" /\ \A v \in Workers \ {w} : job'[v] = job[v]
      BY <2>1 DEF Goto, Orderly, Shape, Requests
    <2>8. \A v \in Workers : Pending(v)'
      BY <2>1, <2>4, <2>7 DEF Orderly, Pending
    <2> QED
      BY <2>5, <2>8 DEF Orderly
  <1>4. CASE CountAdded(w)
    BY <1>4, Ends DEF CountAdded
  <1> QED
    BY <1>1, <1>2, <1>3, <1>4

-----------------------------------------------------------------------------
(* Merging, unmerging and removing                                         *)

\* What the only request that changes something leaves to the other requests.
LEMMA Alone ==
  ASSUME Orderly, NEW w \in Workers, job[w].op \in Changing,
         NEW j \in Requests, job' = [job EXCEPT ![w] = j], j.op \in {"none", job[w].op}
  PROVE /\ job' \in [Workers -> Requests]
        /\ \A v \in Workers : job'[v].op = "add" => job'[v].url \in Urls
        /\ OneChange'
        /\ \A v \in Workers \ {w} : Pending(v)'
  <1>1. job'[w] = j /\ \A v \in Workers \ {w} : job'[v] = job[v]
    BY DEF Orderly, Shape
  <1>2. \A v \in Workers \ {w} : job[v].op \notin Changing
    BY DEF Orderly, OneChange
  <1>3. "add" \notin Changing /\ "none" \notin Changing
    BY DEF Changing
  <1>4. job' \in [Workers -> Requests]
    BY DEF Orderly, Shape
  <1>5. \A v \in Workers : job'[v].op = "add" => job'[v].url \in Urls
    BY <1>1, <1>3 DEF Orderly, Shape
  <1>6. OneChange'
    BY <1>1, <1>2 DEF OneChange
  <1>7. \A v \in Workers \ {w} : Pending(v)'
    BY <1>1, <1>2 DEF Pending, Changing
  <1> QED
    BY <1>4, <1>5, <1>6, <1>7

\* A statement of a merge or an unmerge before the one that writes.
LEMMA Prepared ==
  ASSUME trouble = {}, Orderly, NEW w \in Workers,
         Verify(w) \/ CheckMerge(w) \/ LockMerge(w) \/ ReadList(w) \/ AbortMerge(w) \/ FindRow(w)
  PROVE Orderly'
  <1>0. Pending(w)
    BY DEF Orderly
  <1>1. CASE Verify(w)
    <2>1. CASE Return(w)
      BY <1>1, <2>1, Ends DEF Verify
    <2>2. CASE Goto(w, "check") /\ job[w].op = "merge"
      <3>1. Pending(w)'
        BY <1>0, <1>1, <2>2, WentOn DEF Verify, Pending, Orderly, Rows
      <3> QED
        BY <1>1, <2>2, <3>1, GoesOn DEF Verify
    <2>3. CASE Goto(w, "read") /\ job[w].op = "unmerge"
      <3>1. Pending(w)'
        BY <1>0, <1>1, <2>3, WentOn DEF Verify, Pending, Orderly, Rows
      <3> QED
        BY <1>1, <2>3, <3>1, GoesOn DEF Verify
    <2> QED
      BY <1>1, <2>1, <2>2, <2>3 DEF Verify
  <1>2. CASE CheckMerge(w)
    <2>1. CASE Return(w)
      BY <1>2, <2>1, Ends DEF CheckMerge
    <2>2. CASE Goto(w, "lock") /\ Mergeable(w)
      <3>1. merged[job[w].other] = {}
        BY <1>0, <1>2, <2>2 DEF CheckMerge, Mergeable, MergedOf, Pending
      <3>2. Pending(w)'
        BY <1>0, <1>2, <2>2, <3>1, WentOn DEF CheckMerge, Pending, Orderly, Rows
      <3> QED
        BY <1>2, <2>2, <3>2, GoesOn DEF CheckMerge
    <2> QED
      BY <1>2, <2>1, <2>2 DEF CheckMerge
  <1>3. CASE LockMerge(w)
    <2>1. Pending(w)'
      BY <1>0, <1>3, WentOn DEF LockMerge, Pending, Orderly, Rows
    <2> QED
      BY <1>3, <2>1, GoesOn DEF LockMerge
  <1>4. CASE ReadList(w)
    <2>1. job[w] \in Requests /\ job[w].op \in {"merge", "unmerge"} /\ job[w].pc = "read"
      BY <1>4 DEF ReadList, Orderly, Shape
    <2>2. job[w].id \in Rows /\ MergedOf(job[w].id) = merged[job[w].id]
      BY <1>0, <2>1 DEF Pending, MergedOf
    <2>3. MergedOf(job[w].id) \in SUBSET Ids
      BY <2>2 DEF Orderly, Shape, Rows
    <2>4. PICK j : j = [job[w] EXCEPT !.pc = "write", !.list = MergedOf(job[w].id)]
      OBVIOUS
    <2>5. job' = [job EXCEPT ![w] = j]
      BY <1>4, <2>4 DEF ReadList, Orderly, Shape
    <2>6. /\ j \in Requests /\ j.op = job[w].op /\ j.pc = "write"
          /\ j.id = job[w].id /\ j.other = job[w].other /\ j.list = merged[job[w].id]
      BY <2>1, <2>2, <2>3, <2>4 DEF Requests
    <2>7. job'[w] = j /\ UNCHANGED <<url, next, shown, merged>>
      BY <1>4, <2>5 DEF ReadList, Orderly, Shape
    <2>8. Pending(w)'
      BY <1>0, <2>1, <2>6, <2>7 DEF Pending, Rows
    <2>9. j.op \in Changing => \A v \in Workers \ {w} : job[v].op \notin Changing
      BY <2>6 DEF Orderly, OneChange
    <2> QED
      BY <2>1, <2>5, <2>6, <2>7, <2>8, <2>9, JobMoves
  <1>5. CASE AbortMerge(w)
    BY <1>5, Ends DEF AbortMerge
  <1>6. CASE FindRow(w)
    <2>1. CASE Return(w)
      BY <1>6, <2>1, Ends DEF FindRow
    <2>2. CASE Goto(w, "write")
      <3>1. Pending(w)'
        BY <1>0, <1>6, <2>2, WentOn DEF FindRow, Pending, Orderly, Rows
      <3> QED
        BY <1>6, <2>2, <3>1, GoesOn DEF FindRow
    <2> QED
      BY <1>6, <2>1, <2>2 DEF FindRow
  <1> QED
    BY <1>1, <1>2, <1>3, <1>4, <1>5, <1>6

\* A merge writes to the primary's list and hides the podcast that is merged.
LEMMA Merged ==
  ASSUME Orderly, NEW w \in Workers, WriteMerge(w)
  PROVE Orderly'
  <1> DEFINE i == job[w].id
             k == job[w].other
  <1>1. /\ job[w].op = "merge" /\ job[w].pc = "write" /\ Pending(w)
    BY DEF WriteMerge, Orderly
  <1>2. /\ i \in shown \cap Rows /\ k \in shown \cap Rows /\ i # k
        /\ merged[k] = {} /\ job[w].list = merged[i]
    BY <1>1 DEF Pending
  <1>3. i \in Ids /\ k \in Ids
    BY <1>2 DEF Rows
  <1>4. /\ merged' = [merged EXCEPT ![i] = merged[i] \cup {k}] /\ shown' = shown \ {k}
        /\ url' = url /\ job' = [job EXCEPT ![w] = NoJob]
    BY <1>2 DEF WriteMerge, Return
  <1>5. /\ merged' \in [Ids -> SUBSET Ids] /\ merged'[i] = merged[i] \cup {k}
        /\ \A j \in Ids : merged[j] \subseteq merged'[j]
    BY <1>3, <1>4 DEF Orderly, Shape
  <1>6. NoJob \in Requests /\ NoJob.op = "none"
    BY DEF NoJob, Requests
  <1>7. /\ job' \in [Workers -> Requests] /\ OneChange'
        /\ \A v \in Workers : job'[v].op = "add" => job'[v].url \in Urls
        /\ \A v \in Workers \ {w} : Pending(v)'
    BY <1>1, <1>4, <1>6, Alone DEF Changing
  <1>8. Pending(w)'
    BY <1>4, <1>6 DEF Pending, Orderly, Shape
  <1>9. Shape'
    BY <1>4, <1>5, <1>7 DEF Orderly, Shape
  <1> QED
    BY <1>7, <1>8, <1>9 DEF Orderly

\* The podcast that leaves the list is shown again.
LEMMA Unmerged ==
  ASSUME Orderly, NEW w \in Workers, WriteUnmerge(w)
  PROVE Orderly'
  <1> DEFINE i == job[w].id
             k == job[w].other
  <1>1. /\ job[w].op = "unmerge" /\ job[w].pc = "write" /\ Pending(w)
    BY DEF WriteUnmerge, Orderly
  <1>2. i \in shown \cap Rows /\ job[w].list = merged[i] /\ i \in Ids
    BY <1>1 DEF Pending, Rows
  <1>3. /\ merged' = [merged EXCEPT ![i] = merged[i] \ {k}] /\ shown' = shown \cup ({k} \cap Rows)
        /\ url' = url /\ job' = [job EXCEPT ![w] = NoJob]
    BY <1>2 DEF WriteUnmerge, Return
  <1>4. /\ merged' \in [Ids -> SUBSET Ids]
        /\ \A j \in Ids : merged[j] \subseteq merged'[j] \cup {k}
    BY <1>2, <1>3 DEF Orderly, Shape
  <1>5. NoJob \in Requests /\ NoJob.op = "none"
    BY DEF NoJob, Requests
  <1>6. /\ job' \in [Workers -> Requests] /\ OneChange'
        /\ \A v \in Workers : job'[v].op = "add" => job'[v].url \in Urls
        /\ \A v \in Workers \ {w} : Pending(v)'
    BY <1>1, <1>3, <1>5, Alone DEF Changing
  <1>7. Pending(w)'
    BY <1>3, <1>5 DEF Pending, Orderly, Shape
  <1>8. Shape'
    BY <1>3, <1>4, <1>6 DEF Orderly, Shape
  <1> QED
    BY <1>6, <1>7, <1>8 DEF Orderly

\* The row of a removed podcast goes with its list.
LEMMA Dropped ==
  ASSUME Orderly, NEW i \in Rows, WithoutRow(i)
  PROVE url' \in [Ids -> Urls \cup {NoUrl}] /\ merged' \in [Ids -> SUBSET Ids]
  BY DEF WithoutRow, Orderly, Shape, Rows

LEMMA Removed ==
  ASSUME trouble = {}, Orderly, NEW w \in Workers, RemoveRow(w) \/ DeleteRow(w) \/ CountRemoved(w)
  PROVE Orderly'
  <1>0. Pending(w) /\ job[w] \in Requests
    BY DEF Orderly, Shape
  <1>1. CASE RemoveRow(w)
    <2>1. job[w].op = "remove" /\ WithoutRow(job[w].id) /\ job' = [job EXCEPT ![w] = NoJob]
      BY <1>1 DEF RemoveRow, Return
    <2>2. job[w].id \in Rows
      BY <1>0, <2>1 DEF Pending
    <2>3. /\ url' \in [Ids -> Urls \cup {NoUrl}] /\ merged' \in [Ids -> SUBSET Ids]
      BY <2>1, <2>2, Dropped
    <2>4. NoJob \in Requests /\ NoJob.op = "none"
      BY DEF NoJob, Requests
    <2>5. /\ job' \in [Workers -> Requests] /\ OneChange'
          /\ \A v \in Workers : job'[v].op = "add" => job'[v].url \in Urls
          /\ \A v \in Workers \ {w} : Pending(v)'
      BY <2>1, <2>4, Alone DEF Changing
    <2>6. Pending(w)'
      BY <2>1, <2>4 DEF Pending, Orderly, Shape
    <2> QED
      BY <2>3, <2>5, <2>6 DEF Orderly, Shape
  <1>2. CASE DeleteRow(w)
    <2>1. job[w].op = "remove_id" /\ job[w].pc = "start" /\ WithoutRow(job[w].id) /\ Goto(w, "count")
      BY <1>2 DEF DeleteRow
    <2>2. job[w].id \in Rows
      BY <1>0, <2>1 DEF Pending
    <2>3. /\ url' \in [Ids -> Urls \cup {NoUrl}] /\ merged' \in [Ids -> SUBSET Ids]
      BY <2>1, <2>2, Dropped
    <2>4. PICK j : j = [job[w] EXCEPT !.pc = "count"]
      OBVIOUS
    <2>5. j \in Requests /\ j.op = "remove_id" /\ j.pc = "count"
      BY <1>0, <2>1, <2>4 DEF Requests
    <2>6. job' = [job EXCEPT ![w] = j]
      BY <2>1, <2>4 DEF Goto
    <2>7. /\ job' \in [Workers -> Requests] /\ OneChange'
          /\ \A v \in Workers : job'[v].op = "add" => job'[v].url \in Urls
          /\ \A v \in Workers \ {w} : Pending(v)'
      BY <2>1, <2>5, <2>6, Alone DEF Changing
    <2>8. Pending(w)'
      BY <2>5, <2>6 DEF Pending, Orderly, Shape
    <2> QED
      BY <2>3, <2>7, <2>8 DEF Orderly, Shape
  <1>3. CASE CountRemoved(w)
    BY <1>3, Ends DEF CountRemoved
  <1> QED
    BY <1>1, <1>2, <1>3

-----------------------------------------------------------------------------
(* The counter                                                             *)

Num(b) == IF b THEN 1 ELSE 0

\* Two sets that differ in one element at most.
LEMMA OneDiffers ==
  ASSUME NEW S, NEW T, NEW x, IsFiniteSet(S), IsFiniteSet(T), S \ {x} = T \ {x}
  PROVE Cardinality(T) + Num(x \in S) = Cardinality(S) + Num(x \in T)
  <1>1. Cardinality(S) \in Nat /\ Cardinality(T) \in Nat
    BY FS_CardinalityType
  <1>2. /\ Cardinality(S \ {x}) = IF x \in S THEN Cardinality(S) - 1 ELSE Cardinality(S)
        /\ Cardinality(T \ {x}) = IF x \in T THEN Cardinality(T) - 1 ELSE Cardinality(T)
    BY FS_RemoveElement
  <1> QED
    BY <1>1, <1>2 DEF Num

LEMMA Finite ==
  /\ IsFiniteSet(Adding) /\ IsFiniteSet(CountingUp) /\ IsFiniteSet(CountingDown) /\ IsFiniteSet(Rows)
  /\ Cardinality(Adding) \in Nat /\ Cardinality(CountingUp) \in Nat
  /\ Cardinality(CountingDown) \in Nat /\ Cardinality(Rows) \in Nat
  <1>1. Adding \subseteq Workers /\ CountingUp \subseteq Workers /\ CountingDown \subseteq Workers
    BY DEF Adding, CountingUp, CountingDown
  <1>2. IsFiniteSet(Workers) /\ MaxId \in Int
    BY LibraryAssumption
  <1>3. IsFiniteSet(Ids) /\ Rows \subseteq Ids
    BY <1>2, FS_Interval DEF Ids, Rows
  <1>4. IsFiniteSet(Adding) /\ IsFiniteSet(CountingUp) /\ IsFiniteSet(CountingDown) /\ IsFiniteSet(Rows)
    BY <1>1, <1>2, <1>3, FS_Subset
  <1> QED
    BY <1>4, FS_CardinalityType

\* How the step of one request changes who adds and who has to count.
LEMMA Turnover ==
  ASSUME Shape, NEW w \in Workers, NEW j, job' = [job EXCEPT ![w] = j]
  PROVE /\ Cardinality(Adding)' + Num(Adds(job[w])) = Cardinality(Adding) + Num(Adds(j))
        /\ Cardinality(CountingUp)' + Num(CountsUp(job[w])) = Cardinality(CountingUp) + Num(CountsUp(j))
        /\ Cardinality(CountingDown)' + Num(CountsDown(job[w])) = Cardinality(CountingDown) + Num(CountsDown(j))
        /\ Cardinality(Adding)' \in Nat /\ Cardinality(CountingUp)' \in Nat /\ Cardinality(CountingDown)' \in Nat
  <1>1. job'[w] = j /\ \A v \in Workers \ {w} : job'[v] = job[v]
    BY DEF Shape
  <1>2. IsFiniteSet(Workers)
    BY LibraryAssumption
  <1> DEFINE A == {v \in Workers : Adds(job'[v])}
             U == {v \in Workers : CountsUp(job'[v])}
             D == {v \in Workers : CountsDown(job'[v])}
  <1>3. A = Adding' /\ U = CountingUp' /\ D = CountingDown'
    BY DEF Adding, CountingUp, CountingDown, Adds, CountsUp, CountsDown
  <1>4. IsFiniteSet(A) /\ IsFiniteSet(U) /\ IsFiniteSet(D)
    BY <1>2, FS_Subset
  <1>5. A \ {w} = Adding \ {w} /\ U \ {w} = CountingUp \ {w} /\ D \ {w} = CountingDown \ {w}
    BY <1>1 DEF Adding, CountingUp, CountingDown
  <1>6. /\ w \in A <=> Adds(j)
        /\ w \in U <=> CountsUp(j)
        /\ w \in D <=> CountsDown(j)
        /\ w \in Adding <=> Adds(job[w])
        /\ w \in CountingUp <=> CountsUp(job[w])
        /\ w \in CountingDown <=> CountsDown(job[w])
    BY <1>1 DEF Adding, CountingUp, CountingDown
  <1> HIDE DEF A, U, D
  <1>7. Cardinality(A) + Num(w \in Adding) = Cardinality(Adding) + Num(w \in A)
    BY <1>4, <1>5, Finite, OneDiffers
  <1>8. Cardinality(U) + Num(w \in CountingUp) = Cardinality(CountingUp) + Num(w \in U)
    BY <1>4, <1>5, Finite, OneDiffers
  <1>9. Cardinality(D) + Num(w \in CountingDown) = Cardinality(CountingDown) + Num(w \in D)
    BY <1>4, <1>5, Finite, OneDiffers
  <1>10. Cardinality(A) \in Nat /\ Cardinality(U) \in Nat /\ Cardinality(D) \in Nat
    BY <1>4, FS_CardinalityType
  <1> QED
    BY <1>3, <1>6, <1>7, <1>8, <1>9, <1>10 DEF Num

\* A step after which the same requests have to count.
LEMMA Uncounted ==
  ASSUME Shape, Tallied, NEW w \in Workers, NEW j, job' = [job EXCEPT ![w] = j],
         UNCHANGED <<url, next, added>>,
         Adds(j) => Adds(job[w]), CountsUp(j) <=> CountsUp(job[w]), CountsDown(j) <=> CountsDown(job[w])
  PROVE Tallied'
  <1>1. Rows' = Rows
    BY DEF Rows
  <1>4. /\ Cardinality(Adding)' + Num(Adds(job[w])) = Cardinality(Adding) + Num(Adds(j))
        /\ Cardinality(CountingUp)' + Num(CountsUp(job[w])) = Cardinality(CountingUp) + Num(CountsUp(j))
        /\ Cardinality(CountingDown)' + Num(CountsDown(job[w])) = Cardinality(CountingDown) + Num(CountsDown(j))
        /\ Cardinality(Adding)' \in Nat /\ Cardinality(CountingUp)' \in Nat /\ Cardinality(CountingDown)' \in Nat
    BY Turnover
  <1>5. /\ Num(Adds(j)) <= Num(Adds(job[w])) /\ Num(Adds(j)) \in Nat /\ Num(Adds(job[w])) \in Nat
        /\ Num(CountsUp(j)) = Num(CountsUp(job[w])) /\ Num(CountsUp(j)) \in Nat
        /\ Num(CountsDown(j)) = Num(CountsDown(job[w])) /\ Num(CountsDown(j)) \in Nat
    BY DEF Num
  <1>2. /\ Cardinality(Adding)' <= Cardinality(Adding)
        /\ Cardinality(CountingUp)' = Cardinality(CountingUp)
        /\ Cardinality(CountingDown)' = Cardinality(CountingDown)
        /\ Cardinality(Adding)' \in Nat
    BY <1>4, <1>5, Finite
  <1>3. MaxId \in Nat
    BY LibraryAssumption
  <1> QED
    BY <1>1, <1>2, <1>3, Finite DEF Tallied

LEMMA LibraryCountStarts == LibraryInit => Tallied
  <1> SUFFICES ASSUME LibraryInit PROVE Tallied
    OBVIOUS
  <1>1. Adding = {} /\ CountingUp = {} /\ CountingDown = {} /\ Rows = {}
    BY DEF LibraryInit, NoJob, Adding, CountingUp, CountingDown, Rows, Adds, CountsUp, CountsDown
  <1>2. Cardinality({}) = 0
    BY FS_EmptySet
  <1> QED
    BY <1>1, <1>2, LibraryAssumption DEF LibraryInit, Tallied

\* A request to add comes only when there is an id for it.
LEMMA CountAsked ==
  ASSUME trouble = {}, Shape, Tallied, NEW w \in Workers,
         \/ \E u \in Urls : AskAdd(w, u)
         \/ \E i, k \in 1..next - 1 : AskMerge(w, i, k) \/ AskUnmerge(w, i, k)
         \/ \E i \in 1..next - 1, op \in {"remove", "remove_id"} : AskRemove(w, op, i)
  PROVE Tallied'
  <1>0. /\ NoJob \in Requests /\ NoJob.op = "none" /\ NoJob.pc = "start"
        /\ ~Adds(NoJob) /\ ~CountsUp(NoJob) /\ ~CountsDown(NoJob)
    <2>1. NoJob.op = "none" /\ NoJob.pc = "start" /\ NoJob \in Requests
      BY DEF NoJob, Requests
    <2> QED
      BY <2>1 DEF Adds, CountsUp, CountsDown
  <1>1. ASSUME NEW u \in Urls, AskAdd(w, u) PROVE Tallied'
    <2>1. PICK j : j = [NoJob EXCEPT !.op = "add", !.url = u]
      OBVIOUS
    <2>2. Take(w, j) /\ next + Cardinality({v \in Workers : job[v].op = "add"}) <= MaxId
      BY <1>1, <2>1 DEF AskAdd
    <2>3. j.op = "add" /\ j.pc = "start"
      BY <1>0, <2>1 DEF Requests
    <2>4. Adds(j) /\ ~CountsUp(j) /\ ~CountsDown(j)
      BY <2>3 DEF Adds, CountsUp, CountsDown
    <2>5. job[w] = NoJob /\ job' = [job EXCEPT ![w] = j] /\ UNCHANGED <<url, next, added>>
      BY <2>2 DEF Take
    <2>10. /\ Cardinality(Adding)' + Num(Adds(job[w])) = Cardinality(Adding) + Num(Adds(j))
           /\ Cardinality(CountingUp)' + Num(CountsUp(job[w])) = Cardinality(CountingUp) + Num(CountsUp(j))
           /\ Cardinality(CountingDown)' + Num(CountsDown(job[w])) = Cardinality(CountingDown) + Num(CountsDown(j))
           /\ Cardinality(Adding)' \in Nat /\ Cardinality(CountingUp)' \in Nat /\ Cardinality(CountingDown)' \in Nat
      BY <2>5, Turnover
    <2>11. /\ Num(Adds(j)) = 1 /\ Num(Adds(job[w])) = 0
           /\ Num(CountsUp(j)) = 0 /\ Num(CountsUp(job[w])) = 0
           /\ Num(CountsDown(j)) = 0 /\ Num(CountsDown(job[w])) = 0
      BY <1>0, <2>4, <2>5 DEF Num
    <2>6. /\ Cardinality(Adding)' = Cardinality(Adding) + 1
          /\ Cardinality(CountingUp)' = Cardinality(CountingUp)
          /\ Cardinality(CountingDown)' = Cardinality(CountingDown)
      BY <2>10, <2>11, Finite
    <2>7. Cardinality(Adding) <= Cardinality({v \in Workers : job[v].op = "add"})
          /\ Cardinality({v \in Workers : job[v].op = "add"}) \in Nat
      <3>1. IsFiniteSet({v \in Workers : job[v].op = "add"})
        BY LibraryAssumption, FS_Subset
      <3>2. Adding \subseteq {v \in Workers : job[v].op = "add"}
        BY DEF Adding, Adds
      <3> QED
        BY <3>1, <3>2, FS_Subset, FS_CardinalityType
    <2>8. Rows' = Rows
      BY <2>5 DEF Rows
    <2>9. MaxId \in Nat
      BY LibraryAssumption
    <2> QED
      BY <2>2, <2>5, <2>6, <2>7, <2>8, <2>9, Finite DEF Tallied
  <1>2. ASSUME NEW j, Take(w, j), j.op # "add", j.pc = "start" PROVE Tallied'
    <2>1. ~Adds(j) /\ ~CountsUp(j) /\ ~CountsDown(j)
      BY <1>2 DEF Adds, CountsUp, CountsDown
    <2>2. job[w] = NoJob /\ job' = [job EXCEPT ![w] = j] /\ UNCHANGED <<url, next, added>>
      BY <1>2 DEF Take
    <2> QED
      BY <1>0, <2>1, <2>2, Uncounted
  <1>3. ASSUME NEW i, NEW k, AskMerge(w, i, k) PROVE Tallied'
    <2>1. PICK j : j = [NoJob EXCEPT !.op = "merge", !.id = i, !.other = k]
      OBVIOUS
    <2>2. Take(w, j) /\ j.op = "merge" /\ j.pc = "start"
      <3>1. j.op = "merge" /\ j.pc = "start"
        BY <1>0, <2>1 DEF Requests
      <3> QED
        BY <1>3, <2>1, <3>1 DEF AskMerge
    <2> QED
      BY <1>2, <2>2
  <1>4. ASSUME NEW i, NEW k, AskUnmerge(w, i, k) PROVE Tallied'
    <2>1. PICK j : j = [NoJob EXCEPT !.op = "unmerge", !.id = i, !.other = k]
      OBVIOUS
    <2>2. Take(w, j) /\ j.op = "unmerge" /\ j.pc = "start"
      <3>1. j.op = "unmerge" /\ j.pc = "start"
        BY <1>0, <2>1 DEF Requests
      <3> QED
        BY <1>4, <2>1, <3>1 DEF AskUnmerge
    <2> QED
      BY <1>2, <2>2
  <1>5. ASSUME NEW i, NEW op \in {"remove", "remove_id"}, AskRemove(w, op, i) PROVE Tallied'
    <2>1. PICK j : j = [NoJob EXCEPT !.op = op, !.id = i]
      OBVIOUS
    <2>2. Take(w, j) /\ j.op # "add" /\ j.pc = "start"
      <3>1. j.op = op /\ j.pc = "start"
        BY <1>0, <2>1 DEF Requests
      <3> QED
        BY <1>5, <2>1, <3>1 DEF AskRemove
    <2> QED
      BY <1>2, <2>2
  <1> QED
    BY <1>1, <1>3, <1>4, <1>5

\* A request that ends, or goes on, with nothing to count before or after.
LEMMA UncountedEnd ==
  ASSUME Shape, Tallied, NEW w \in Workers, Return(w), job[w].pc # "count", UNCHANGED <<url, next, added>>
  PROVE Tallied'
  <1>1. NoJob.op = "none"
    BY DEF NoJob
  <1>2. ~Adds(NoJob) /\ ~CountsUp(NoJob) /\ ~CountsDown(NoJob) /\ ~CountsUp(job[w]) /\ ~CountsDown(job[w])
    BY <1>1 DEF Adds, CountsUp, CountsDown
  <1> QED
    BY <1>2, Uncounted DEF Return

LEMMA UncountedGo ==
  ASSUME Shape, Tallied, NEW w \in Workers, NEW j, job' = [job EXCEPT ![w] = j],
         j.op = job[w].op, j.pc # "count", job[w].pc # "count", UNCHANGED <<url, next, added>>
  PROVE Tallied'
  <1>1. /\ Adds(j) => Adds(job[w])
        /\ ~CountsUp(j) /\ ~CountsDown(j) /\ ~CountsUp(job[w]) /\ ~CountsDown(job[w])
    BY DEF Adds, CountsUp, CountsDown
  <1> QED
    BY <1>1, Uncounted

LEMMA UncountedGoto ==
  ASSUME Shape, Tallied, NEW w \in Workers, NEW pc, Goto(w, pc),
         job[w].pc # "count", pc # "count", UNCHANGED <<url, next, added>>
  PROVE Tallied'
  <1> DEFINE j == [job[w] EXCEPT !.pc = pc]
  <1>1. j.op = job[w].op /\ j.pc = pc
    BY DEF Shape, Requests
  <1>2. job' = [job EXCEPT ![w] = j]
    BY DEF Goto
  <1> HIDE DEF j
  <1> QED
    BY <1>1, <1>2, UncountedGo

\* The new row takes the id that was kept for it, and is counted next.
LEMMA CountInserted ==
  ASSUME Orderly, Tallied, NEW w \in Workers, InsertRow(w), ~\E i \in Ids : url[i] = job[w].url
  PROVE Tallied'
  <1> DEFINE j == [job[w] EXCEPT !.pc = "count"]
  <1>0. Shape /\ job[w] \in Requests /\ MaxId \in Nat
    BY LibraryAssumption DEF Orderly, Shape
  <1>1. /\ job[w].op = "add" /\ job[w].pc = "write" /\ job' = [job EXCEPT ![w] = j]
        /\ url' = [url EXCEPT ![next] = job[w].url] /\ next' = next + 1 /\ added' = added
    BY DEF InsertRow, Goto
  <1>2. job[w].url \in Urls /\ job[w].url # NoUrl
    BY <1>1, LibraryAssumption DEF Orderly, Shape
  <1>3. j.op = "add" /\ j.pc = "count"
    BY <1>0, <1>1 DEF Requests
  <1>4. /\ ~Adds(j) /\ CountsUp(j) /\ ~CountsDown(j)
        /\ Adds(job[w]) /\ ~CountsUp(job[w]) /\ ~CountsDown(job[w])
    BY <1>1, <1>3 DEF Adds, CountsUp, CountsDown
  <1> HIDE DEF j
  <1>5. /\ Cardinality(Adding)' + Num(Adds(job[w])) = Cardinality(Adding) + Num(Adds(j))
        /\ Cardinality(CountingUp)' + Num(CountsUp(job[w])) = Cardinality(CountingUp) + Num(CountsUp(j))
        /\ Cardinality(CountingDown)' + Num(CountsDown(job[w])) = Cardinality(CountingDown) + Num(CountsDown(j))
        /\ Cardinality(Adding)' \in Nat /\ Cardinality(CountingUp)' \in Nat /\ Cardinality(CountingDown)' \in Nat
    BY <1>0, <1>1, Turnover
  <1>6. /\ Num(Adds(j)) = 0 /\ Num(Adds(job[w])) = 1
        /\ Num(CountsUp(j)) = 1 /\ Num(CountsUp(job[w])) = 0
        /\ Num(CountsDown(j)) = 0 /\ Num(CountsDown(job[w])) = 0
    BY <1>4 DEF Num
  <1>7. /\ Cardinality(Adding)' = Cardinality(Adding) - 1
        /\ Cardinality(CountingUp)' = Cardinality(CountingUp) + 1
        /\ Cardinality(CountingDown)' = Cardinality(CountingDown)
    BY <1>5, <1>6, Finite
  <1>8. next \in Ids /\ url[next] = NoUrl
    <2>1. Cardinality(Adding) - 1 \in Nat
      BY <1>5, <1>7
    <2>2. next <= MaxId /\ next \in Nat \ {0}
      BY <1>0, <2>1, Finite DEF Tallied
    <2> QED
      BY <1>0, <2>2 DEF Tallied, Ids
  <1>9. Rows' = Rows \cup {next} /\ next \notin Rows
    BY <1>0, <1>1, <1>2, <1>8 DEF Rows, Shape
  <1>10. Cardinality(Rows') = Cardinality(Rows) + 1
    BY <1>9, Finite, FS_AddElement
  <1>11. \A i \in Ids : i >= next' => url'[i] = NoUrl
    BY <1>0, <1>1, <1>8 DEF Tallied, Shape, Ids
  <1> QED
    BY <1>0, <1>1, <1>5, <1>7, <1>10, <1>11, Finite DEF Tallied

LEMMA CountAdding ==
  ASSUME Orderly, Tallied, NEW w \in Workers, CheckAdd(w) \/ InsertRow(w) \/ CountAdded(w)
  PROVE Tallied'
  <1>0. Shape
    BY DEF Orderly
  <1>1. CASE CheckAdd(w)
    <2>1. job[w].pc = "start" /\ (Return(w) \/ Goto(w, "write")) /\ UNCHANGED <<url, next, added>>
      BY <1>1 DEF CheckAdd
    <2> QED
      BY <1>0, <2>1, UncountedEnd, UncountedGoto
  <1>2. CASE InsertRow(w) /\ \E i \in Ids : url[i] = job[w].url
    <2>1. job[w].pc = "write" /\ Return(w) /\ UNCHANGED <<url, next, added>>
      BY <1>2 DEF InsertRow
    <2> QED
      BY <1>0, <2>1, UncountedEnd
  <1>3. CASE InsertRow(w) /\ ~\E i \in Ids : url[i] = job[w].url
    BY <1>3, CountInserted
  <1>4. CASE CountAdded(w)
    <2>1. /\ job[w].op = "add" /\ job[w].pc = "count" /\ job' = [job EXCEPT ![w] = NoJob]
          /\ added' = added + 1 /\ UNCHANGED <<url, next>>
      BY <1>4 DEF CountAdded, Return
    <2>2. NoJob.op = "none"
      BY DEF NoJob
    <2>3. /\ ~Adds(NoJob) /\ ~CountsUp(NoJob) /\ ~CountsDown(NoJob)
          /\ ~Adds(job[w]) /\ CountsUp(job[w]) /\ ~CountsDown(job[w])
      BY <2>1, <2>2 DEF Adds, CountsUp, CountsDown
    <2>4. /\ Cardinality(Adding)' + Num(Adds(job[w])) = Cardinality(Adding) + Num(Adds(NoJob))
          /\ Cardinality(CountingUp)' + Num(CountsUp(job[w])) = Cardinality(CountingUp) + Num(CountsUp(NoJob))
          /\ Cardinality(CountingDown)' + Num(CountsDown(job[w])) = Cardinality(CountingDown) + Num(CountsDown(NoJob))
          /\ Cardinality(Adding)' \in Nat /\ Cardinality(CountingUp)' \in Nat /\ Cardinality(CountingDown)' \in Nat
      BY <1>0, <2>1, Turnover
    <2>5. /\ Num(Adds(NoJob)) = 0 /\ Num(Adds(job[w])) = 0
          /\ Num(CountsUp(NoJob)) = 0 /\ Num(CountsUp(job[w])) = 1
          /\ Num(CountsDown(NoJob)) = 0 /\ Num(CountsDown(job[w])) = 0
      BY <2>3 DEF Num
    <2>6. Rows' = Rows
      BY <2>1 DEF Rows
    <2> QED
      BY <2>1, <2>4, <2>5, <2>6, Finite DEF Tallied
  <1> QED
    BY <1>1, <1>2, <1>3, <1>4

\* Merging and unmerging add and delete no row, nor does looking for one.
LEMMA CountMerging ==
  ASSUME Orderly, Tallied, NEW w \in Workers,
         \/ Verify(w) \/ CheckMerge(w) \/ LockMerge(w) \/ ReadList(w) \/ AbortMerge(w) \/ FindRow(w)
         \/ WriteMerge(w) \/ WriteUnmerge(w)
  PROVE Tallied'
  <1>0. Shape /\ job[w] \in Requests
    BY DEF Orderly, Shape
  <1>1. CASE Verify(w) \/ CheckMerge(w) \/ LockMerge(w) \/ FindRow(w)
    <2>1. /\ job[w].pc # "count" /\ UNCHANGED <<url, next, added>>
          /\ Return(w) \/ \E pc \in {"check", "lock", "read", "write"} : Goto(w, pc)
      BY <1>1 DEF Verify, CheckMerge, LockMerge, FindRow
    <2> QED
      BY <1>0, <2>1, UncountedEnd, UncountedGoto
  <1>2. CASE AbortMerge(w) \/ WriteMerge(w) \/ WriteUnmerge(w)
    <2>1. job[w].pc = "write" /\ Return(w) /\ UNCHANGED <<url, next, added>>
      BY <1>2 DEF AbortMerge, Deadlocked, WriteMerge, WriteUnmerge
    <2> QED
      BY <1>0, <2>1, UncountedEnd
  <1>3. CASE ReadList(w)
    <2>1. PICK j : j = [job[w] EXCEPT !.pc = "write", !.list = MergedOf(job[w].id)]
      OBVIOUS
    <2>2. /\ job' = [job EXCEPT ![w] = j] /\ job[w].pc = "read" /\ UNCHANGED <<url, next, added>>
      BY <1>0, <1>3, <2>1 DEF ReadList, Shape
    <2>3. j.op = job[w].op /\ j.pc = "write"
      BY <1>0, <2>1 DEF Requests
    <2> QED
      BY <1>0, <2>2, <2>3, UncountedGo
  <1> QED
    BY <1>1, <1>2, <1>3

\* The row that goes is there, so the counter goes down with the rows.
LEMMA RowGone ==
  ASSUME Shape, Tallied, NEW i \in Rows, WithoutRow(i)
  PROVE /\ Cardinality(Rows)' = Cardinality(Rows) - 1
        /\ \A k \in Ids : k >= next => url'[k] = NoUrl
  <1>1. i \in Ids /\ url' = [url EXCEPT ![i] = NoUrl]
    BY DEF Rows, WithoutRow
  <1>2. Rows' = Rows \ {i}
    BY <1>1 DEF Rows, Shape
  <1>3. \A k \in Ids : k >= next => url'[k] = NoUrl
    BY <1>1 DEF Tallied, Shape
  <1> QED
    BY <1>2, <1>3, Finite, FS_RemoveElement

LEMMA CountRemoving ==
  ASSUME Orderly, Tallied, NEW w \in Workers, RemoveRow(w) \/ DeleteRow(w) \/ CountRemoved(w)
  PROVE Tallied'
  <1>0. Shape /\ job[w] \in Requests /\ Pending(w) /\ MaxId \in Nat
    BY LibraryAssumption DEF Orderly, Shape
  <1>1. NoJob.op = "none"
    BY DEF NoJob
  <1>2. ~Adds(NoJob) /\ ~CountsUp(NoJob) /\ ~CountsDown(NoJob)
    BY <1>1 DEF Adds, CountsUp, CountsDown
  <1>3. CASE RemoveRow(w)
    <2>1. /\ job[w].op = "remove" /\ WithoutRow(job[w].id) /\ job' = [job EXCEPT ![w] = NoJob]
          /\ added' = added - 1 /\ next' = next
      BY <1>3 DEF RemoveRow, Return
    <2>2. /\ Cardinality(Rows)' = Cardinality(Rows) - 1
          /\ \A k \in Ids : k >= next => url'[k] = NoUrl
      BY <1>0, <2>1, RowGone DEF Pending
    <2>3. ~Adds(job[w]) /\ ~CountsUp(job[w]) /\ ~CountsDown(job[w])
      BY <2>1 DEF Adds, CountsUp, CountsDown
    <2>4. /\ Cardinality(Adding)' + Num(Adds(job[w])) = Cardinality(Adding) + Num(Adds(NoJob))
          /\ Cardinality(CountingUp)' + Num(CountsUp(job[w])) = Cardinality(CountingUp) + Num(CountsUp(NoJob))
          /\ Cardinality(CountingDown)' + Num(CountsDown(job[w])) = Cardinality(CountingDown) + Num(CountsDown(NoJob))
          /\ Cardinality(Adding)' \in Nat /\ Cardinality(CountingUp)' \in Nat /\ Cardinality(CountingDown)' \in Nat
      BY <1>0, <2>1, Turnover
    <2>5. /\ Num(Adds(NoJob)) = 0 /\ Num(Adds(job[w])) = 0
          /\ Num(CountsUp(NoJob)) = 0 /\ Num(CountsUp(job[w])) = 0
          /\ Num(CountsDown(NoJob)) = 0 /\ Num(CountsDown(job[w])) = 0
      BY <1>2, <2>3 DEF Num
    <2> QED
      BY <2>1, <2>2, <2>4, <2>5, Finite DEF Tallied
  <1>4. CASE DeleteRow(w)
    <2> DEFINE j == [job[w] EXCEPT !.pc = "count"]
    <2>1. /\ job[w].op = "remove_id" /\ job[w].pc = "start" /\ WithoutRow(job[w].id)
          /\ job' = [job EXCEPT ![w] = j] /\ added' = added /\ next' = next
      BY <1>4 DEF DeleteRow, Goto
    <2>2. /\ Cardinality(Rows)' = Cardinality(Rows) - 1
          /\ \A k \in Ids : k >= next => url'[k] = NoUrl
      BY <1>0, <2>1, RowGone DEF Pending
    <2>3. j.op = "remove_id" /\ j.pc = "count"
      BY <1>0, <2>1 DEF Requests
    <2>4. /\ ~Adds(j) /\ ~CountsUp(j) /\ CountsDown(j)
          /\ ~Adds(job[w]) /\ ~CountsUp(job[w]) /\ ~CountsDown(job[w])
      BY <2>1, <2>3 DEF Adds, CountsUp, CountsDown
    <2> HIDE DEF j
    <2>5. /\ Cardinality(Adding)' + Num(Adds(job[w])) = Cardinality(Adding) + Num(Adds(j))
          /\ Cardinality(CountingUp)' + Num(CountsUp(job[w])) = Cardinality(CountingUp) + Num(CountsUp(j))
          /\ Cardinality(CountingDown)' + Num(CountsDown(job[w])) = Cardinality(CountingDown) + Num(CountsDown(j))
          /\ Cardinality(Adding)' \in Nat /\ Cardinality(CountingUp)' \in Nat /\ Cardinality(CountingDown)' \in Nat
      BY <1>0, <2>1, Turnover
    <2>6. /\ Num(Adds(j)) = 0 /\ Num(Adds(job[w])) = 0
          /\ Num(CountsUp(j)) = 0 /\ Num(CountsUp(job[w])) = 0
          /\ Num(CountsDown(j)) = 1 /\ Num(CountsDown(job[w])) = 0
      BY <2>4 DEF Num
    <2> QED
      BY <2>1, <2>2, <2>5, <2>6, Finite DEF Tallied
  <1>5. CASE CountRemoved(w)
    <2>1. /\ job[w].op = "remove_id" /\ job[w].pc = "count" /\ job' = [job EXCEPT ![w] = NoJob]
          /\ added' = added - 1 /\ UNCHANGED <<url, next>>
      BY <1>5 DEF CountRemoved, Return
    <2>2. ~Adds(job[w]) /\ ~CountsUp(job[w]) /\ CountsDown(job[w])
      BY <2>1 DEF Adds, CountsUp, CountsDown
    <2>3. /\ Cardinality(Adding)' + Num(Adds(job[w])) = Cardinality(Adding) + Num(Adds(NoJob))
          /\ Cardinality(CountingUp)' + Num(CountsUp(job[w])) = Cardinality(CountingUp) + Num(CountsUp(NoJob))
          /\ Cardinality(CountingDown)' + Num(CountsDown(job[w])) = Cardinality(CountingDown) + Num(CountsDown(NoJob))
          /\ Cardinality(Adding)' \in Nat /\ Cardinality(CountingUp)' \in Nat /\ Cardinality(CountingDown)' \in Nat
      BY <1>0, <2>1, Turnover
    <2>4. /\ Num(Adds(NoJob)) = 0 /\ Num(Adds(job[w])) = 0
          /\ Num(CountsUp(NoJob)) = 0 /\ Num(CountsUp(job[w])) = 0
          /\ Num(CountsDown(NoJob)) = 0 /\ Num(CountsDown(job[w])) = 1
      BY <1>2, <2>2 DEF Num
    <2>5. Rows' = Rows
      BY <2>1 DEF Rows
    <2> QED
      BY <2>1, <2>3, <2>4, <2>5, Finite DEF Tallied
  <1> QED
    BY <1>3, <1>4, <1>5

-----------------------------------------------------------------------------
(* The invariant                                                           *)

LEMMA StaysOrderly == LibraryIInv /\ [LibraryNext]_libraryVars => LibraryIInv'
  <1> SUFFICES ASSUME LibraryIInv, [LibraryNext]_libraryVars, trouble' = {}
               PROVE Orderly' /\ Tallied'
    BY DEF LibraryIInv
  <1>1. CASE UNCHANGED libraryVars
    <2>1. Orderly'
      BY <1>1 DEF LibraryIInv, libraryVars, Orderly, Shape, OneChange, Rows, Pending
    <2>2. Tallied'
      BY <1>1 DEF LibraryIInv, libraryVars, Tallied, Rows, Adding, CountingUp, CountingDown
    <2> QED
      BY <2>1, <2>2
  <1>2. CASE LibraryNext
    <2>1. trouble = {} /\ Orderly /\ Tallied
      BY <1>2 DEF LibraryIInv, LibraryNext, AskAdd, AskMerge, AskUnmerge, AskRemove, Take, CheckAdd,
        InsertRow, CountAdded, Verify, CheckMerge, LockMerge, ReadList, WriteMerge, WriteUnmerge,
        AbortMerge, FindRow, RemoveRow, DeleteRow, CountRemoved, FailJob
    <2>2. PICK w \in Workers :
            \/ \E u \in Urls : AskAdd(w, u)
            \/ \E i, j \in 1..next - 1 : AskMerge(w, i, j) \/ AskUnmerge(w, i, j)
            \/ \E i \in 1..next - 1, op \in {"remove", "remove_id"} : AskRemove(w, op, i)
            \/ CheckAdd(w) \/ InsertRow(w) \/ CountAdded(w)
            \/ Verify(w) \/ CheckMerge(w) \/ LockMerge(w) \/ ReadList(w)
            \/ WriteMerge(w) \/ WriteUnmerge(w) \/ AbortMerge(w)
            \/ FindRow(w) \/ RemoveRow(w) \/ DeleteRow(w) \/ CountRemoved(w)
            \/ FailJob(w)
      BY <1>2 DEF LibraryNext
    <2>10. Shape
      BY <2>1 DEF Orderly
    <2>3. ~FailJob(w)
      BY <2>1 DEF FailJob, Has
    <2>4. CASE \/ \E u \in Urls : AskAdd(w, u)
               \/ \E i, j \in 1..next - 1 : AskMerge(w, i, j) \/ AskUnmerge(w, i, j)
               \/ \E i \in 1..next - 1, op \in {"remove", "remove_id"} : AskRemove(w, op, i)
      BY <2>1, <2>4, <2>10, Asked, CountAsked
    <2>5. CASE CheckAdd(w) \/ InsertRow(w) \/ CountAdded(w)
      BY <2>1, <2>5, Added, CountAdding
    <2>6. CASE Verify(w) \/ CheckMerge(w) \/ LockMerge(w) \/ ReadList(w) \/ AbortMerge(w) \/ FindRow(w)
      BY <2>1, <2>6, Prepared, CountMerging
    <2>7. CASE WriteMerge(w)
      BY <2>1, <2>7, Merged, CountMerging
    <2>8. CASE WriteUnmerge(w)
      BY <2>1, <2>8, Unmerged, CountMerging
    <2>9. CASE RemoveRow(w) \/ DeleteRow(w) \/ CountRemoved(w)
      BY <2>1, <2>9, Removed, CountRemoving
    <2> QED
      BY <2>2, <2>3, <2>4, <2>5, <2>6, <2>7, <2>8, <2>9
  <1> QED
    BY <1>1, <1>2

LEMMA LibraryInvariant == LibrarySpec => []LibraryIInv
  <1>1. LibraryInit => LibraryIInv
    BY LibraryStart, LibraryCountStarts DEF LibraryIInv
  <1> QED
    BY <1>1, StaysOrderly, PTL DEF LibrarySpec

-----------------------------------------------------------------------------
(* What each statement hides                                               *)

LEMMA SameReach == UNCHANGED <<url, shown, merged>> => RemovalHides
  BY DEF RemovalHides, Within, Rows

LEMMA InsertReach ==
  ASSUME Shape, NEW w \in Workers, InsertRow(w) PROVE RemovalHides
  <1>1. CASE UNCHANGED <<url, shown>>
    BY <1>1, SameReach DEF InsertRow
  <1>2. CASE ~UNCHANGED <<url, shown>>
    <2>1. /\ url' = [url EXCEPT ![next] = job[w].url] /\ shown \subseteq shown' /\ merged' = merged
          /\ job[w].url # NoUrl
      BY <1>2, LibraryAssumption DEF InsertRow, Shape
    <2>2. Rows \subseteq Rows'
      BY <2>1 DEF Rows, Shape
    <2> QED
      BY <2>1, <2>2 DEF RemovalHides, Within
  <1> QED
    BY <1>1, <1>2

\* The podcast that is merged is found in its primary's list, and so is each one
\* that was; nothing is found in the list of the podcast that is merged.
LEMMA MergeReach ==
  ASSUME Orderly, NEW w \in Workers, WriteMerge(w) PROVE RemovalHides
  <1> DEFINE i == job[w].id
             k == job[w].other
  <1>1. Pending(w) /\ job[w].op = "merge" /\ job[w].pc = "write" /\ Shape
    BY DEF WriteMerge, Orderly
  <1>2. /\ i \in shown \cap Rows /\ k \in shown \cap Rows /\ i # k
        /\ merged[k] = {} /\ job[w].list = merged[i]
    BY <1>1 DEF Pending
  <1>3. /\ merged' = [merged EXCEPT ![i] = merged[i] \cup {k}] /\ shown' = shown \ {k}
        /\ url' = url
    BY <1>2 DEF WriteMerge
  <1>4. k \in merged'[i] /\ \A j \in Ids : merged[j] \subseteq merged'[j]
    BY <1>1, <1>2, <1>3 DEF Shape, Rows
  <1>5. Rows' = Rows
    BY <1>3 DEF Rows
  <1>6. ASSUME NEW a \in Rows, Within(a) PROVE Within(a)'
    <2>1. CASE a \in shown
      <3>1. CASE a = k
        BY <1>2, <1>3, <1>4, <1>5, <3>1 DEF Within
      <3>2. CASE a # k
        BY <1>3, <2>1, <3>2 DEF Within
      <3> QED
        BY <3>1, <3>2
    <2>2. CASE a \notin shown
      <3>1. PICK j \in shown \cap Rows : a \in merged[j]
        BY <1>6, <2>2 DEF Within
      <3>2. j # k /\ j \in Ids
        BY <1>2, <3>1 DEF Rows
      <3> QED
        BY <1>3, <1>4, <1>5, <3>1, <3>2 DEF Within
    <2> QED
      BY <2>1, <2>2
  <1> QED
    BY <1>5, <1>6 DEF RemovalHides

\* The podcast that leaves the list is shown again.
LEMMA UnmergeReach ==
  ASSUME Orderly, NEW w \in Workers, WriteUnmerge(w) PROVE RemovalHides
  <1> DEFINE i == job[w].id
             k == job[w].other
  <1>1. Pending(w) /\ job[w].op = "unmerge" /\ job[w].pc = "write" /\ Shape
    BY DEF WriteUnmerge, Orderly
  <1>2. i \in Rows /\ job[w].list = merged[i]
    BY <1>1 DEF Pending
  <1>3. /\ merged' = [merged EXCEPT ![i] = merged[i] \ {k}] /\ shown' = shown \cup ({k} \cap Rows)
        /\ url' = url
    BY <1>2 DEF WriteUnmerge
  <1>4. \A j \in Ids : merged[j] \subseteq merged'[j] \cup {k}
    BY <1>1, <1>2, <1>3 DEF Shape, Rows
  <1>5. Rows' = Rows
    BY <1>3 DEF Rows
  <1>6. ASSUME NEW a \in Rows, Within(a) PROVE Within(a)'
    <2>1. CASE a \in shown \/ a = k
      BY <1>3, <2>1 DEF Within
    <2>2. CASE a \notin shown /\ a # k
      <3>1. PICK j \in shown \cap Rows : a \in merged[j]
        BY <1>6, <2>2 DEF Within
      <3> QED
        BY <1>3, <1>4, <1>5, <2>2, <3>1 DEF Within, Rows
    <2> QED
      BY <2>1, <2>2
  <1> QED
    BY <1>5, <1>6 DEF RemovalHides

\* What is hidden by a removal is in the list that goes.
LEMMA RemoveReach ==
  ASSUME Shape, NEW i \in Rows, WithoutRow(i) PROVE RemovalHides
  <1>1. /\ Rows' = Rows \ {i} /\ shown' = shown \ {i}
        /\ \A j \in Ids \ {i} : merged'[j] = merged[j]
    BY DEF WithoutRow, Shape, Rows
  <1>2. ASSUME NEW a \in Rows', Within(a), a \notin merged[i] PROVE Within(a)'
    <2>1. CASE a \in shown
      BY <1>1, <1>2, <2>1 DEF Within
    <2>2. CASE a \notin shown
      <3>1. PICK j \in shown \cap Rows : a \in merged[j]
        BY <1>2, <2>2 DEF Within
      <3>2. j \in Ids \ {i} /\ j \in shown' /\ j \in Rows'
        BY <1>1, <1>2, <3>1 DEF Rows
      <3> QED
        BY <1>1, <3>1, <3>2 DEF Within
    <2> QED
      BY <2>1, <2>2
  <1> QED
    BY <1>1, <1>2 DEF RemovalHides

LEMMA HidingSteps == LibraryIInv /\ [LibraryNext]_libraryVars => RemovalHides
  <1> SUFFICES ASSUME LibraryIInv, [LibraryNext]_libraryVars, trouble = {} PROVE RemovalHides
    BY DEF RemovalHides
  <1>1. Orderly /\ Shape
    BY DEF LibraryIInv, Orderly
  <1>2. CASE UNCHANGED <<url, shown, merged>>
    BY <1>2, SameReach
  <1>3. ASSUME NEW w \in Workers, RemoveRow(w) \/ DeleteRow(w) PROVE RemovalHides
    <2>1. job[w].id \in Rows /\ WithoutRow(job[w].id)
      BY <1>1, <1>3 DEF RemoveRow, DeleteRow, Orderly, Pending
    <2> QED
      BY <1>1, <2>1, RemoveReach
  <1>4. CASE LibraryNext /\ ~UNCHANGED <<url, shown, merged>>
    <2>1. \E w \in Workers : \/ InsertRow(w) \/ WriteMerge(w) \/ WriteUnmerge(w)
                            \/ RemoveRow(w) \/ DeleteRow(w)
      BY <1>4 DEF LibraryNext, AskAdd, AskMerge, AskUnmerge, AskRemove, Take, CheckAdd, CountAdded,
        Verify, CheckMerge, LockMerge, ReadList, AbortMerge, FindRow, CountRemoved, FailJob
    <2> QED
      BY <1>1, <1>3, <2>1, InsertReach, MergeReach, UnmergeReach
  <1> QED
    BY <1>2, <1>4 DEF libraryVars

\* However many requests there are and whichever feeds they add: as long as
\* requests that change what is there come one after the other, from pages that
\* are up to date, and none ends half way, no merge, unmerge or addition takes a
\* podcast out of reach, and a removal only those merged into the podcast it
\* removes (merge_podcasts, unmerge_podcast, remove_podcast, remove_podcast_id).
THEOREM PodcastsReachable == LibrarySpec => HiddenByRemoval
  BY LibraryInvariant, HidingSteps, PTL DEF LibrarySpec, HiddenByRemoval

\* Under the same conditions the counter is the number of podcasts whenever no
\* request is in progress, however many requests to add, of the same feed or
\* not, overlapped (add_podcast, remove_podcast, remove_podcast_by_id).
THEOREM PodcastsCounted == LibrarySpec => []Counted
  <1>1. ASSUME LibraryIInv PROVE Counted
    <2> SUFFICES ASSUME trouble = {}, \A w \in Workers : job[w] = NoJob PROVE added = Cardinality(Rows)
      BY DEF Counted
    <2>1. NoJob.op = "none"
      BY DEF NoJob
    <2>2. CountingUp = {} /\ CountingDown = {}
      BY <2>1 DEF CountingUp, CountingDown, CountsUp, CountsDown
    <2>3. Cardinality({}) = 0
      BY FS_EmptySet
    <2> QED
      BY <1>1, <2>2, <2>3, Finite DEF LibraryIInv, Tallied
  <1> QED
    BY <1>1, LibraryInvariant, PTL

-----------------------------------------------------------------------------
(* Types                                                                   *)

\* The types, whatever goes wrong: the request a worker handles is one a user can
\* make, and there is an id for each request that has still to add a podcast.
Bounded(j) ==
  /\ j.id \in 0..MaxId /\ j.other \in 0..MaxId
  /\ j.op \in {"merge", "unmerge"} => j.other \in Ids

IdsLeft == next \in Nat \ {0} /\ next + Cardinality(Adding) <= MaxId + 1

OneRowEach == \A i, k \in Rows : url[i] = url[k] => i = k

LibraryTyped ==
  /\ Shape /\ shown \subseteq Ids /\ added \in Int /\ trouble \in TroubleSets
  /\ \A w \in Workers : Bounded(job[w])
  /\ IdsLeft /\ OneRowEach

LEMMA LibraryTypesStart == LibraryInit => LibraryTyped
  <1> SUFFICES ASSUME LibraryInit PROVE LibraryTyped
    OBVIOUS
  <1>1. Adding = {} /\ Cardinality({}) = 0
    BY FS_EmptySet DEF LibraryInit, NoJob, Adding, Adds
  <1>2. IdsLeft
    BY <1>1, LibraryAssumption DEF LibraryInit, IdsLeft
  <1>3. Shape /\ OneRowEach
    BY LibraryStart DEF LibraryInit, Orderly, OneRowEach, Rows
  <1> QED
    BY <1>2, <1>3, LibraryAssumption DEF LibraryInit, LibraryTyped, Bounded, NoJob

\* A step that moves one request on and takes no id.
LEMMA JobTyped ==
  ASSUME LibraryTyped, NEW w \in Workers, NEW j \in Requests, job' = [job EXCEPT ![w] = j],
         j.op = "add" => j.url \in Urls, Bounded(j),
         next' = next, Adds(j) => Adds(job[w]) \/ next + Cardinality(Adding) <= MaxId
  PROVE /\ job' \in [Workers -> Requests] /\ IdsLeft'
        /\ \A v \in Workers : Bounded(job'[v]) /\ (job'[v].op = "add" => job'[v].url \in Urls)
  <1>1. Shape /\ job'[w] = j /\ \A v \in Workers \ {w} : job'[v] = job[v]
    BY DEF LibraryTyped, Shape
  <1>2. \A v \in Workers : Bounded(job'[v]) /\ (job'[v].op = "add" => job'[v].url \in Urls)
    BY <1>1 DEF LibraryTyped, Shape
  <1>3. job' \in [Workers -> Requests]
    BY <1>1 DEF Shape
  <1>4. /\ Cardinality(Adding)' + Num(Adds(job[w])) = Cardinality(Adding) + Num(Adds(j))
        /\ Cardinality(Adding)' \in Nat /\ Cardinality(Adding) \in Nat
    BY <1>1, Turnover, Finite
  <1>5. IdsLeft'
    <2>1. MaxId \in Nat /\ next \in Nat \ {0} /\ next + Cardinality(Adding) <= MaxId + 1
      BY LibraryAssumption DEF LibraryTyped, IdsLeft
    <2>2. CASE Adds(j) => Adds(job[w])
      <3>1. Cardinality(Adding)' <= Cardinality(Adding)
        BY <1>4, <2>2 DEF Num
      <3> QED
        BY <1>4, <2>1, <3>1 DEF IdsLeft
    <2>3. CASE next + Cardinality(Adding) <= MaxId
      <3>1. Cardinality(Adding)' <= Cardinality(Adding) + 1
        BY <1>4 DEF Num
      <3> QED
        BY <1>4, <2>1, <2>3, <3>1 DEF IdsLeft
    <2> QED
      BY <2>2, <2>3
  <1> QED
    BY <1>2, <1>3, <1>5

LEMMA AskTyped ==
  ASSUME LibraryTyped, NEW w \in Workers,
         \/ \E u \in Urls : AskAdd(w, u)
         \/ \E i, k \in 1..next - 1 : AskMerge(w, i, k) \/ AskUnmerge(w, i, k)
         \/ \E i \in 1..next - 1, op \in {"remove", "remove_id"} : AskRemove(w, op, i)
  PROVE LibraryTyped'
  <1>0. NoJob \in Requests /\ NoJob.id = 0 /\ NoJob.other = 0 /\ MaxId \in Nat /\ MaxTroubled <= MaxId
    BY LibraryAssumption DEF NoJob, Requests
  <1>1. 1..next - 1 \subseteq Ids /\ next \in Nat
    BY <1>0, Finite DEF LibraryTyped, IdsLeft, Ids
  <1>2. PICK j \in Requests :
          /\ Take(w, j) /\ Bounded(j) /\ (j.op = "add" => j.url \in Urls)
          /\ Adds(j) => next + Cardinality(Adding) <= MaxId
    <2>1. ASSUME NEW u \in Urls, AskAdd(w, u)
          PROVE  \E j \in Requests : /\ Take(w, j) /\ Bounded(j) /\ (j.op = "add" => j.url \in Urls)
                                     /\ Adds(j) => next + Cardinality(Adding) <= MaxId
      <3> DEFINE j == [NoJob EXCEPT !.op = "add", !.url = u]
                 B == {v \in Workers : job[v].op = "add"}
      <3>0. j \in Requests /\ j.op = "add" /\ j.url = u /\ j.id = 0 /\ j.other = 0
        BY <1>0 DEF Requests
      <3>1. Bounded(j)
        BY <1>0, <3>0 DEF Bounded
      <3>2. Take(w, j) /\ next + Cardinality(B) <= MaxId
        <4>1. IsFiniteSet(B)
          BY LibraryAssumption, FS_Subset
        <4>2. Cardinality(B) \in Nat
          BY <4>1, FS_CardinalityType
        <4>3. Take(w, j) /\ next + Cardinality(B) <= IF trouble = {} THEN MaxId ELSE MaxTroubled
          BY <2>1 DEF AskAdd
        <4>4. MaxTroubled \in Nat
          BY LibraryAssumption
        <4> HIDE DEF B, j
        <4> QED
          BY <1>0, <1>1, <4>2, <4>3, <4>4
      <3>3. Cardinality(Adding) <= Cardinality(B) /\ Cardinality(B) \in Nat
        <4>1. Adding \subseteq B /\ IsFiniteSet(B)
          BY LibraryAssumption, FS_Subset DEF Adding, Adds
        <4> HIDE DEF B
        <4> QED
          BY <4>1, FS_Subset, FS_CardinalityType
      <3>4. next + Cardinality(Adding) <= MaxId
        <4> HIDE DEF B
        <4> QED
          BY <1>0, <1>1, <3>2, <3>3, Finite
      <3> HIDE DEF j
      <3> QED
        BY <3>0, <3>1, <3>2, <3>4
    <2>2. ASSUME NEW i \in 1..next - 1, NEW k \in 1..next - 1, NEW op \in {"merge", "unmerge"},
                 Take(w, [NoJob EXCEPT !.op = op, !.id = i, !.other = k])
          PROVE  \E j \in Requests : /\ Take(w, j) /\ Bounded(j) /\ (j.op = "add" => j.url \in Urls)
                                     /\ Adds(j) => next + Cardinality(Adding) <= MaxId
      <3> DEFINE j == [NoJob EXCEPT !.op = op, !.id = i, !.other = k]
      <3>0. i \in Int /\ k \in Int
        BY <1>1
      <3>1. j \in Requests /\ j.op = op /\ j.id = i /\ j.other = k
        BY <1>0, <3>0 DEF Requests
      <3>2. Bounded(j)
        BY <1>0, <1>1, <3>1 DEF Bounded, Ids
      <3>3. Take(w, j)
        BY <2>2
      <3> HIDE DEF j
      <3> QED
        BY <3>1, <3>2, <3>3 DEF Adds
    <2>3. ASSUME NEW i \in 1..next - 1, NEW op \in {"remove", "remove_id"},
                 Take(w, [NoJob EXCEPT !.op = op, !.id = i])
          PROVE  \E j \in Requests : /\ Take(w, j) /\ Bounded(j) /\ (j.op = "add" => j.url \in Urls)
                                     /\ Adds(j) => next + Cardinality(Adding) <= MaxId
      <3> DEFINE j == [NoJob EXCEPT !.op = op, !.id = i]
      <3>0. i \in Int
        BY <1>1
      <3>1. j \in Requests /\ j.op = op /\ j.id = i /\ j.other = 0
        BY <1>0, <3>0 DEF Requests
      <3>2. Bounded(j)
        BY <1>0, <1>1, <3>1 DEF Bounded, Ids
      <3>3. Take(w, j)
        BY <2>3
      <3> HIDE DEF j
      <3> QED
        BY <3>1, <3>2, <3>3 DEF Adds
    <2> QED
      BY <2>1, <2>2, <2>3 DEF AskMerge, AskUnmerge, AskRemove
  <1>3. job' = [job EXCEPT ![w] = j] /\ UNCHANGED <<url, next, shown, merged, added, trouble>>
    BY <1>2 DEF Take
  <1>4. /\ job' \in [Workers -> Requests] /\ IdsLeft'
        /\ \A v \in Workers : Bounded(job'[v]) /\ (job'[v].op = "add" => job'[v].url \in Urls)
    BY <1>2, <1>3, JobTyped
  <1> QED
    BY <1>3, <1>4 DEF LibraryTyped, Shape, OneRowEach, Rows

\* A request that ends, and one that goes on.
LEMMA EndTyped ==
  ASSUME LibraryTyped, NEW w \in Workers, Return(w), next' = next
  PROVE /\ job' \in [Workers -> Requests] /\ IdsLeft'
        /\ \A v \in Workers : Bounded(job'[v]) /\ (job'[v].op = "add" => job'[v].url \in Urls)
  <1>1. NoJob \in Requests /\ Bounded(NoJob) /\ NoJob.op = "none"
    BY LibraryAssumption DEF NoJob, Requests, Bounded
  <1>2. job' = [job EXCEPT ![w] = NoJob]
    BY DEF Return
  <1> QED
    BY <1>1, <1>2, JobTyped DEF Adds

LEMMA GoTyped ==
  ASSUME LibraryTyped, NEW w \in Workers, next' = next,
         NEW pc \in {"check", "lock", "read", "write", "count"}, job[w].pc # "count",
         NEW list \in SUBSET Ids, job' = [job EXCEPT ![w] = [job[w] EXCEPT !.pc = pc, !.list = list]]
  PROVE /\ job' \in [Workers -> Requests] /\ IdsLeft'
        /\ \A v \in Workers : Bounded(job'[v]) /\ (job'[v].op = "add" => job'[v].url \in Urls)
  <1> DEFINE j == [job[w] EXCEPT !.pc = pc, !.list = list]
  <1>1. job[w] \in Requests /\ Bounded(job[w]) /\ (job[w].op = "add" => job[w].url \in Urls)
    BY DEF LibraryTyped, Shape
  <1>2. /\ j \in Requests /\ j.op = job[w].op /\ j.url = job[w].url /\ j.pc = pc
        /\ j.id = job[w].id /\ j.other = job[w].other
    BY <1>1 DEF Requests
  <1>3. Bounded(j) /\ (Adds(j) => Adds(job[w]))
    BY <1>1, <1>2 DEF Bounded, Adds
  <1> HIDE DEF j
  <1> QED
    BY <1>1, <1>2, <1>3, JobTyped DEF j

LEMMA GotoTyped ==
  ASSUME LibraryTyped, NEW w \in Workers, next' = next,
         NEW pc \in {"check", "lock", "read", "write", "count"}, job[w].pc # "count", Goto(w, pc)
  PROVE /\ job' \in [Workers -> Requests] /\ IdsLeft'
        /\ \A v \in Workers : Bounded(job'[v]) /\ (job'[v].op = "add" => job'[v].url \in Urls)
  <1>1. job[w] \in Requests
    BY DEF LibraryTyped, Shape
  <1>2. job[w].list \in SUBSET Ids /\ job' = [job EXCEPT ![w] = [job[w] EXCEPT !.pc = pc, !.list = job[w].list]]
    BY <1>1 DEF Goto, Requests
  <1> QED
    BY <1>2, GoTyped

\* A statement that leaves the podcasts as they are.
LEMMA MoveTyped ==
  ASSUME LibraryTyped, NEW w \in Workers,
         \/ CheckAdd(w) \/ CountAdded(w) \/ Verify(w) \/ CheckMerge(w) \/ LockMerge(w) \/ ReadList(w)
         \/ AbortMerge(w) \/ FindRow(w) \/ CountRemoved(w) \/ FailJob(w)
  PROVE LibraryTyped'
  <1>1. UNCHANGED <<url, next, shown, merged, trouble>> /\ added' \in Int
    BY DEF LibraryTyped, CheckAdd, CountAdded, Verify, CheckMerge, LockMerge, ReadList, AbortMerge, FindRow,
       CountRemoved, FailJob
  <1>2. /\ job' \in [Workers -> Requests] /\ IdsLeft'
        /\ \A v \in Workers : Bounded(job'[v]) /\ (job'[v].op = "add" => job'[v].url \in Urls)
    <2>1. CASE Return(w)
      BY <1>1, <2>1, EndTyped
    <2>2. CASE \E pc \in {"check", "lock", "read", "write", "count"} : Goto(w, pc) /\ job[w].pc # "count"
      BY <1>1, <2>2, GotoTyped
    <2>3. CASE ReadList(w)
      <3>1. /\ MergedOf(job[w].id) \in SUBSET Ids /\ job[w].pc # "count"
            /\ job' = [job EXCEPT ![w].pc = "write", ![w].list = MergedOf(job[w].id)]
        BY <2>3 DEF ReadList, LibraryTyped, Shape, MergedOf, Rows
      <3>2. job' = [job EXCEPT ![w] = [job[w] EXCEPT !.pc = "write", !.list = MergedOf(job[w].id)]]
        BY <3>1 DEF LibraryTyped, Shape
      <3> QED
        BY <1>1, <3>1, <3>2, GoTyped
    <2> QED
      BY <2>1, <2>2, <2>3 DEF CheckAdd, CountAdded, Verify, CheckMerge, LockMerge, AbortMerge, FindRow,
         CountRemoved, FailJob
  <1> QED
    BY <1>1, <1>2 DEF LibraryTyped, Shape, OneRowEach, Rows

\* There is an id for the row; and no other row of the feed.
LEMMA InsertTyped ==
  ASSUME LibraryTyped, NEW w \in Workers, InsertRow(w)
  PROVE LibraryTyped'
  <1>1. CASE \E i \in Ids : url[i] = job[w].url
    <2>1. Return(w) /\ UNCHANGED <<url, next, shown, merged, added, trouble>>
      BY <1>1 DEF InsertRow
    <2>2. /\ job' \in [Workers -> Requests] /\ IdsLeft'
          /\ \A v \in Workers : Bounded(job'[v]) /\ (job'[v].op = "add" => job'[v].url \in Urls)
      BY <2>1, EndTyped
    <2> QED
      BY <2>1, <2>2 DEF LibraryTyped, Shape, OneRowEach, Rows
  <1>2. CASE ~\E i \in Ids : url[i] = job[w].url
    <2> DEFINE j == [job[w] EXCEPT !.pc = "count"]
    <2>1. /\ url' = [url EXCEPT ![next] = job[w].url] /\ shown' = shown \cup {next} /\ next' = next + 1
          /\ job' = [job EXCEPT ![w] = j] /\ UNCHANGED <<merged, added, trouble>>
          /\ job[w].op = "add" /\ job[w].pc = "write"
      BY <1>2 DEF InsertRow, Goto
    <2>2. /\ job[w] \in Requests /\ Bounded(job[w]) /\ job[w].url \in Urls /\ job[w].url # NoUrl
          /\ Shape /\ IdsLeft /\ MaxId \in Nat
      BY <2>1, LibraryAssumption DEF LibraryTyped, Shape
    <2>3. /\ j \in Requests /\ j.op = "add" /\ j.url = job[w].url /\ j.pc = "count"
          /\ j.id = job[w].id /\ j.other = job[w].other
      BY <2>1, <2>2 DEF Requests
    <2>4. Bounded(j) /\ ~Adds(j) /\ Adds(job[w])
      BY <2>1, <2>2, <2>3 DEF Bounded, Adds
    <2> HIDE DEF j
    <2>5. /\ Cardinality(Adding)' + Num(Adds(job[w])) = Cardinality(Adding) + Num(Adds(j))
          /\ Cardinality(Adding)' \in Nat /\ Cardinality(Adding) \in Nat
      BY <2>1, <2>2, Turnover, Finite
    <2>6. Cardinality(Adding)' + 1 = Cardinality(Adding)
      BY <2>4, <2>5 DEF Num
    <2>7. IdsLeft' /\ next \in Ids
      BY <2>1, <2>2, <2>5, <2>6 DEF IdsLeft, Ids
    <2>8. Shape' /\ \A v \in Workers : Bounded(job'[v])
      BY <2>1, <2>2, <2>3, <2>4, <2>7 DEF LibraryTyped, Shape
    <2>9. OneRowEach'
      BY <1>2, <2>1, <2>2, <2>7 DEF LibraryTyped, Shape, OneRowEach, Rows
    <2> QED
      BY <2>1, <2>7, <2>8, <2>9 DEF LibraryTyped
  <1> QED
    BY <1>1, <1>2

\* A statement that merges, unmerges or deletes.
LEMMA WriteTyped ==
  ASSUME LibraryTyped, NEW w \in Workers, WriteMerge(w) \/ WriteUnmerge(w) \/ RemoveRow(w) \/ DeleteRow(w)
  PROVE LibraryTyped'
  <1>1. next' = next /\ trouble' = trouble /\ added' \in Int
    BY DEF LibraryTyped, WriteMerge, WriteUnmerge, RemoveRow, DeleteRow
  <1>2. /\ job' \in [Workers -> Requests] /\ IdsLeft'
        /\ \A v \in Workers : Bounded(job'[v]) /\ (job'[v].op = "add" => job'[v].url \in Urls)
    <2>1. CASE Return(w)
      BY <1>1, <2>1, EndTyped
    <2>2. CASE Goto(w, "count") /\ job[w].pc = "start"
      BY <1>1, <2>2, GotoTyped
    <2> QED
      BY <2>1, <2>2 DEF WriteMerge, WriteUnmerge, RemoveRow, DeleteRow
  <1>3. /\ job[w].list \subseteq Ids /\ (job[w].op \in {"merge", "unmerge"} => job[w].other \in Ids)
        /\ url \in [Ids -> Urls \cup {NoUrl}] /\ merged \in [Ids -> SUBSET Ids] /\ shown \subseteq Ids
    BY DEF LibraryTyped, Shape, Requests, Bounded
  <1>4. /\ url' \in [Ids -> Urls \cup {NoUrl}] /\ merged' \in [Ids -> SUBSET Ids] /\ shown' \subseteq Ids
        /\ \A i \in Ids : url'[i] \in {url[i], NoUrl}
    <2>1. CASE WriteMerge(w) \/ WriteUnmerge(w)
      BY <1>3, <2>1 DEF WriteMerge, WriteUnmerge, Rows
    <2>2. CASE RemoveRow(w) \/ DeleteRow(w)
      BY <1>3, <2>2 DEF RemoveRow, DeleteRow, WithoutRow
    <2> QED
      BY <2>1, <2>2
  <1> QED
    BY <1>1, <1>2, <1>4 DEF LibraryTyped, Shape, OneRowEach, Rows

LEMMA LibraryTypes == LibraryTyped /\ [LibraryNext]_libraryVars => LibraryTyped'
  <1> SUFFICES ASSUME LibraryTyped, [LibraryNext]_libraryVars PROVE LibraryTyped'
    OBVIOUS
  <1>1. CASE UNCHANGED libraryVars
    BY <1>1 DEF libraryVars, LibraryTyped, Shape, Bounded, IdsLeft, Adding, OneRowEach, Rows
  <1>2. CASE LibraryNext
    BY <1>2, AskTyped, MoveTyped, InsertTyped, WriteTyped DEF LibraryNext
  <1> QED
    BY <1>1, <1>2

\* Whatever requests overlap, come from a stale page or end half way, no feed
\* has two rows, and no id is given out beyond those there are.
THEOREM LibraryTypesKept == LibrarySpec => []LibraryTypeOK
  <1>1. LibraryTyped => LibraryTypeOK
    <2> SUFFICES ASSUME LibraryTyped PROVE LibraryTypeOK
      OBVIOUS
    <2>1. next \in 1..MaxId + 1
      BY Finite, LibraryAssumption DEF LibraryTyped, IdsLeft
    <2> QED
      BY <2>1 DEF LibraryTyped, LibraryTypeOK, Shape, Requests, Bounded, OneRowEach
  <1> QED
    BY <1>1, LibraryTypesStart, LibraryTypes, PTL DEF LibrarySpec

-----------------------------------------------------------------------------
(* Downloads (Downloads)                                                   *)

Loading == {"look", "create", "write", "insert", "count"}
Removing == {"drop", "discount", "unlink"}

\* A download is alone, and is not one of a whole podcast.
RunAlone ==
  \A r \in Runs :
    /\ run[r].pc \in Loading => run[r].op \in Gets \ {"all"} /\ \A s \in Active : s = r
    /\ run[r].pc \in Removing => run[r].op \in Drops
    /\ run[r].op \in Gets /\ r \in Active => run[r].pc \in Loading

\* While a file is written no row shows the episode.
Getting(r) ==
  /\ run[r].pc \in {"look", "create"} => run[r].sent = 0
  /\ run[r].pc \in {"create", "write", "insert"} => copies = {}
  /\ run[r].pc = "write" => path # NoFile /\ path = run[r].file /\ content[path] = 1..run[r].sent
  /\ run[r].pc = "insert" => path # NoFile /\ content[path] = 1..Chunks

\* On request the file goes when the rows are gone.
Dropping(r) == run[r].op = "delete" /\ run[r].pc = "unlink" => copies = {}

Playable ==
  copies # {} =>
    \/ path # NoFile /\ content[path] = 1..Chunks
    \/ \E r \in Runs : run[r].op = "nightly" /\ run[r].pc = "drop"

\* What the counter says of the rows, by who has still to count.
Books ==
  /\ copies = {} \/ \E r \in Runs : copies = {r}
  /\ \A r \in Runs : run[r].pc = "count" => tally = 0 /\ copies # {}
  /\ \A r \in Runs : run[r].pc = "discount" =>
       tally = 1 /\ copies = {} /\ \A s \in Runs : run[s].pc = "discount" => s = r
  /\ (\A r \in Runs : run[r].pc \notin {"count", "discount"}) =>
       tally = IF copies = {} THEN 0 ELSE 1

CalmInv == RunAlone /\ (\A r \in Runs : Getting(r) /\ Dropping(r)) /\ Playable /\ Books

DownloadIInv == DownloadTypeOK /\ (mishaps = {} => CalmInv)

-----------------------------------------------------------------------------
(* Types                                                                   *)

LEMMA DownloadInitTypes == DownloadInit => DownloadTypeOK
  BY DownloadAssumption DEF DownloadInit, DownloadTypeOK, Fresh

LEMMA DownloadTypes == DownloadTypeOK /\ [DownloadNext]_downloadVars => DownloadTypeOK'
  <1> SUFFICES ASSUME DownloadTypeOK, [DownloadNext]_downloadVars PROVE DownloadTypeOK'
    OBVIOUS
  <1> USE DEF DownloadTypeOK, Step
  <1>1. ASSUME NEW r \in Runs, NEW op \in Gets, StartGet(r, op) PROVE DownloadTypeOK'
    BY <1>1, DownloadAssumption DEF StartGet, Fresh
  <1>2. ASSUME NEW r \in Runs, LookFirst(r) PROVE DownloadTypeOK'
    BY <1>2 DEF LookFirst, Found
  <1>3. ASSUME NEW r \in Runs, CreateFile(r) PROVE DownloadTypeOK'
    <2>1. PICK file \in Runs :
            path' = file /\ content' = [content EXCEPT ![file] = {}]
            /\ run' = [run EXCEPT ![r].pc = "write", ![r].file = file]
      BY <1>3 DEF CreateFile
    <2>2. run' = [run EXCEPT ![r] = [run[r] EXCEPT !.pc = "write", !.file = file]]
      BY <2>1
    <2>3. run' \in [Runs -> [op : Gets \cup Drops \cup {"none"},
                       pc : {"new", "look", "create", "write", "insert", "count",
                             "drop", "discount", "unlink", "done"},
                       file : Runs \cup {NoFile}, sent : 0..Chunks, had : BOOLEAN]]
      BY <2>2
    <2> QED
      BY <1>3, <2>1, <2>3 DEF CreateFile
  <1>4. ASSUME NEW r \in Runs, WriteChunk(r) PROVE DownloadTypeOK'
    <2>1. run[r].sent + 1 \in 1..Chunks
      BY <1>4, DownloadAssumption DEF WriteChunk
    <2>2. content' \in [Runs -> SUBSET (1..Chunks)]
      BY <1>4, <2>1 DEF WriteChunk
    <2>3. run' = [run EXCEPT ![r].sent = run[r].sent + 1]
      BY <1>4 DEF WriteChunk
    <2>4. run[r].sent + 1 \in 0..Chunks
      BY <2>1
    <2>5. run' \in [Runs -> [op : Gets \cup Drops \cup {"none"},
                       pc : {"new", "look", "create", "write", "insert", "count",
                             "drop", "discount", "unlink", "done"},
                       file : Runs \cup {NoFile}, sent : 0..Chunks, had : BOOLEAN]]
      BY <2>3, <2>4
    <2> QED
      BY <1>4, <2>2, <2>5 DEF WriteChunk
  <1>5. ASSUME NEW r \in Runs, FinishFile(r) \/ InsertCopy(r) \/ CountCopy(r) \/ FailGet(r) PROVE DownloadTypeOK'
    BY <1>5 DEF FinishFile, InsertCopy, CountCopy, FailGet
  <1>6. ASSUME NEW r \in Runs, NEW op \in Drops, StartDrop(r, op) PROVE DownloadTypeOK'
    BY <1>6, DownloadAssumption DEF StartDrop, Fresh
  <1>7. ASSUME NEW r \in Runs, DropCopies(r) PROVE DownloadTypeOK'
    BY <1>7 DEF DropCopies, AfterDrop
  <1>8. ASSUME NEW r \in Runs, Discount(r) \/ Unlink(r) \/ FailDrop(r) PROVE DownloadTypeOK'
    BY <1>8 DEF Discount, Unlink, FailDrop
  <1>9. CASE Age
    BY <1>9 DEF Age
  <1>10. CASE UNCHANGED downloadVars
    BY <1>10 DEF downloadVars
  <1> QED
    BY <1>1, <1>2, <1>3, <1>4, <1>5, <1>6, <1>7, <1>8, <1>9, <1>10 DEF DownloadNext

-----------------------------------------------------------------------------
(* Without mishaps                                                         *)

LEMMA CalmInit == DownloadInit => CalmInv
  BY DEF DownloadInit, CalmInv, Fresh, RunAlone, Getting, Dropping, Playable, Books, Active, Loading, Removing, Gets, Drops

LEMMA CalmStartGet ==
  ASSUME DownloadTypeOK, mishaps = {}, CalmInv, NEW r \in Runs, NEW op \in Gets, StartGet(r, op)
  PROVE CalmInv'
  <1> USE DEF StartGet, CalmInv, DownloadTypeOK, Mishap, Step, Fresh, RunAlone, Active, Loading, Removing, Gets, Drops
  <1>1. RunAlone'
    OBVIOUS
  <1>2. \A k \in Runs : Getting(k)'
    BY DEF Getting
  <1>3. \A k \in Runs : Dropping(k)'
    BY DEF Dropping
  <1>4. Playable'
    BY DEF Playable, Getting, Dropping
  <1>5. Books'
    BY DEF Books, Getting
  <1> QED
    BY <1>1, <1>2, <1>3, <1>4, <1>5 DEF CalmInv

LEMMA CalmLookFirst ==
  ASSUME DownloadTypeOK, mishaps = {}, CalmInv, NEW r \in Runs, LookFirst(r)
  PROVE CalmInv'
  <1> USE DEF LookFirst, CalmInv, DownloadTypeOK, Mishap, Step, Found, RunAlone, Active, Loading, Removing, Gets, Drops
  <1>1. RunAlone'
    OBVIOUS
  <1>2. \A k \in Runs : Getting(k)'
    BY DEF Getting
  <1>3. \A k \in Runs : Dropping(k)'
    BY DEF Dropping
  <1>4. Playable'
    BY DEF Playable, Getting, Dropping
  <1>5. Books'
    BY DEF Books, Getting
  <1> QED
    BY <1>1, <1>2, <1>3, <1>4, <1>5 DEF CalmInv

LEMMA CalmCreateFile ==
  ASSUME DownloadTypeOK, mishaps = {}, CalmInv, NEW r \in Runs, CreateFile(r)
  PROVE CalmInv'
  <1>1. PICK file \in Runs :
          path' = file /\ content' = [content EXCEPT ![file] = {}]
          /\ run' = [run EXCEPT ![r].pc = "write", ![r].file = file]
    BY DEF CreateFile, DownloadTypeOK
  <1>2. run'[r] = [run[r] EXCEPT !.pc = "write", !.file = file] /\ \A k \in Runs \ {r} : run'[k] = run[k]
    BY <1>1 DEF DownloadTypeOK
  <1>3. run'[r].pc = "write" /\ run'[r].file = file /\ run'[r].sent = run[r].sent /\ run'[r].op = run[r].op
    BY <1>2 DEF DownloadTypeOK
  <1>4. run[r].pc = "create" /\ UNCHANGED <<copies, old, tally, mishaps>>
    BY DEF CreateFile
  <1>5. /\ run[r].op \in Gets \ {"all"} /\ run[r].sent = 0 /\ copies = {}
        /\ \A k \in Runs \ {r} : run[k].pc \in {"new", "done"}
    BY <1>4 DEF CalmInv, RunAlone, Getting, Active, Loading, DownloadTypeOK
  <1>6. RunAlone'
    <2>1. Active' \subseteq {r}
      BY <1>2, <1>5 DEF Active
    <2>2. \A k \in Runs \ {r} : run'[k].pc \in {"new", "done"}
      BY <1>2, <1>5
    <2> QED
      BY <1>3, <1>5, <2>1, <2>2 DEF RunAlone, Loading, Removing, Gets, Drops
  <1>7. \A k \in Runs : Getting(k)' /\ Dropping(k)'
    <2>1. content'[file] = {}
      BY <1>1 DEF DownloadTypeOK
    <2>2. path' # NoFile /\ path' = file
      BY <1>1, DownloadAssumption
    <2>3. 1..0 = {}
      OBVIOUS
    <2>4. Getting(r)' /\ Dropping(r)'
      BY <1>3, <1>4, <1>5, <2>1, <2>2, <2>3 DEF Getting, Dropping
    <2>5. ASSUME NEW k \in Runs \ {r} PROVE Getting(k)' /\ Dropping(k)'
      BY <1>2, <1>5, <2>5 DEF Getting, Dropping
    <2> QED
      BY <2>4, <2>5
  <1>8. Playable' /\ Books'
    <2>1. \A k \in Runs : run'[k].pc \notin {"count", "discount"} /\ run[k].pc \notin {"count", "discount"}
      BY <1>2, <1>3, <1>4, <1>5
    <2> QED
      BY <1>4, <1>5, <2>1 DEF CalmInv, Playable, Books
  <1> QED
    BY <1>6, <1>7, <1>8 DEF CalmInv

LEMMA CalmWriteChunk ==
  ASSUME DownloadTypeOK, mishaps = {}, CalmInv, NEW r \in Runs, WriteChunk(r)
  PROVE CalmInv'
  <1> USE DEF WriteChunk, CalmInv, DownloadTypeOK, Mishap, Step, RunAlone, Active, Loading, Removing, Gets, Drops
  <1>1. RunAlone'
    OBVIOUS
  <1>2. \A k \in Runs : Getting(k)'
    <2>1. \A k \in Runs \ {r} : run[k].pc \in {"new", "done"} /\ run'[k] = run[k]
      BY DEF WriteChunk, CalmInv, DownloadTypeOK, RunAlone, Active, Loading
    <2>2. /\ run[r].pc = "write" /\ run'[r].pc = "write" /\ run'[r].file = run[r].file
          /\ run'[r].sent = run[r].sent + 1 /\ run[r].sent \in Nat
          /\ UNCHANGED <<path, copies>>
      BY DownloadAssumption DEF WriteChunk, DownloadTypeOK
    <2>3. copies = {} /\ path # NoFile /\ path = run[r].file /\ content[path] = 1..run[r].sent
      BY <2>2 DEF CalmInv, Getting
    <2>4. content'[path] = content[path] \cup {run[r].sent + 1}
      BY <2>3 DEF WriteChunk, DownloadTypeOK
    <2>5. 1..run[r].sent + 1 = (1..run[r].sent) \cup {run[r].sent + 1}
      BY <2>2
    <2>6. Getting(r)'
      BY <2>2, <2>3, <2>4, <2>5 DEF Getting
    <2> QED
      BY <2>1, <2>6 DEF Getting
  <1>3. \A k \in Runs : Dropping(k)'
    BY DEF Dropping
  <1>4. Playable'
    BY DEF Playable, Getting, Dropping
  <1>5. Books'
    BY DEF Books, Getting
  <1> QED
    BY <1>1, <1>2, <1>3, <1>4, <1>5 DEF CalmInv

LEMMA CalmFinishFile ==
  ASSUME DownloadTypeOK, mishaps = {}, CalmInv, NEW r \in Runs, FinishFile(r)
  PROVE CalmInv'
  <1> USE DEF FinishFile, CalmInv, DownloadTypeOK, Mishap, Step, RunAlone, Active, Loading, Removing, Gets, Drops
  <1>1. RunAlone'
    OBVIOUS
  <1>2. \A k \in Runs : Getting(k)'
    BY DEF Getting
  <1>3. \A k \in Runs : Dropping(k)'
    BY DEF Dropping
  <1>4. Playable'
    BY DEF Playable, Getting, Dropping
  <1>5. Books'
    BY DEF Books, Getting
  <1> QED
    BY <1>1, <1>2, <1>3, <1>4, <1>5 DEF CalmInv

LEMMA CalmInsertCopy ==
  ASSUME DownloadTypeOK, mishaps = {}, CalmInv, NEW r \in Runs, InsertCopy(r)
  PROVE CalmInv'
  <1> USE DEF InsertCopy, CalmInv, DownloadTypeOK, Mishap, Step, RunAlone, Active, Loading, Removing, Gets, Drops
  <1>1. RunAlone'
    OBVIOUS
  <1>2. \A k \in Runs : Getting(k)'
    BY DEF Getting
  <1>3. \A k \in Runs : Dropping(k)'
    BY DEF Dropping
  <1>4. Playable'
    BY DEF Playable, Getting, Dropping
  <1>5. Books'
    <2>1. run[r].pc = "insert" /\ run[r].op # "all" /\ copies = {}
      BY DEF InsertCopy, CalmInv, RunAlone, Getting, Loading
    <2>2. \A k \in Runs \ {r} : run[k].pc \in {"new", "done"} /\ run'[k] = run[k]
      BY <2>1 DEF InsertCopy, Step, CalmInv, DownloadTypeOK, RunAlone, Active, Loading
    <2>3. tally = 0
      BY <2>1, <2>2 DEF CalmInv, Books
    <2>4. copies' = {r} /\ tally' = tally /\ run'[r].pc = "count"
      BY <2>1 DEF InsertCopy, Step, DownloadTypeOK
    <2> QED
      BY <2>2, <2>3, <2>4 DEF Books
  <1> QED
    BY <1>1, <1>2, <1>3, <1>4, <1>5 DEF CalmInv

LEMMA CalmCountCopy ==
  ASSUME DownloadTypeOK, mishaps = {}, CalmInv, NEW r \in Runs, CountCopy(r)
  PROVE CalmInv'
  <1> USE DEF CountCopy, CalmInv, DownloadTypeOK, Mishap, Step, RunAlone, Active, Loading, Removing, Gets, Drops
  <1>1. RunAlone'
    OBVIOUS
  <1>2. \A k \in Runs : Getting(k)'
    BY DEF Getting
  <1>3. \A k \in Runs : Dropping(k)'
    BY DEF Dropping
  <1>4. Playable'
    BY DEF Playable, Getting, Dropping
  <1>5. Books'
    BY DEF Books, Getting
  <1> QED
    BY <1>1, <1>2, <1>3, <1>4, <1>5 DEF CalmInv

LEMMA CalmFailGet ==
  ASSUME DownloadTypeOK, mishaps = {}, CalmInv, NEW r \in Runs, FailGet(r)
  PROVE CalmInv'
  <1> USE DEF FailGet, CalmInv, DownloadTypeOK, Mishap, Step, RunAlone, Active, Loading, Removing, Gets, Drops
  <1>1. RunAlone'
    OBVIOUS
  <1>2. \A k \in Runs : Getting(k)'
    BY DEF Getting
  <1>3. \A k \in Runs : Dropping(k)'
    BY DEF Dropping
  <1>4. Playable'
    BY DEF Playable, Getting, Dropping
  <1>5. Books'
    BY DEF Books, Getting
  <1> QED
    BY <1>1, <1>2, <1>3, <1>4, <1>5 DEF CalmInv

LEMMA CalmStartDrop ==
  ASSUME DownloadTypeOK, mishaps = {}, CalmInv, NEW r \in Runs, NEW op \in Drops, StartDrop(r, op)
  PROVE CalmInv'
  <1> USE DEF StartDrop, CalmInv, DownloadTypeOK, Mishap, Step, Fresh, RunAlone, Active, Loading, Removing, Gets, Drops
  <1>1. RunAlone'
    OBVIOUS
  <1>2. \A k \in Runs : Getting(k)'
    BY DEF Getting
  <1>3. \A k \in Runs : Dropping(k)'
    BY DEF Dropping
  <1>4. Playable'
    BY DEF Playable, Getting, Dropping
  <1>5. Books'
    BY DEF Books, Getting
  <1> QED
    BY <1>1, <1>2, <1>3, <1>4, <1>5 DEF CalmInv

LEMMA CalmDropCopies ==
  ASSUME DownloadTypeOK, mishaps = {}, CalmInv, NEW r \in Runs, DropCopies(r)
  PROVE CalmInv'
  <1> USE DEF DropCopies, CalmInv, DownloadTypeOK, Mishap, Step, AfterDrop, RunAlone, Active, Loading, Removing, Gets, Drops
  <1>1. RunAlone'
    OBVIOUS
  <1>2. \A k \in Runs : Getting(k)'
    BY DEF Getting
  <1>3. \A k \in Runs : Dropping(k)'
    BY DEF Dropping
  <1>4. Playable'
    BY DEF Playable, Getting, Dropping
  <1>5. Books'
    BY DEF Books, Getting
  <1> QED
    BY <1>1, <1>2, <1>3, <1>4, <1>5 DEF CalmInv

LEMMA CalmDiscount ==
  ASSUME DownloadTypeOK, mishaps = {}, CalmInv, NEW r \in Runs, Discount(r)
  PROVE CalmInv'
  <1> USE DEF Discount, CalmInv, DownloadTypeOK, Mishap, Step, RunAlone, Active, Loading, Removing, Gets, Drops
  <1>1. RunAlone'
    OBVIOUS
  <1>2. \A k \in Runs : Getting(k)'
    BY DEF Getting
  <1>3. \A k \in Runs : Dropping(k)'
    BY DEF Dropping, Books
  <1>4. Playable'
    BY DEF Playable, Getting, Dropping
  <1>5. Books'
    BY DEF Books, Getting
  <1> QED
    BY <1>1, <1>2, <1>3, <1>4, <1>5 DEF CalmInv

LEMMA CalmUnlink ==
  ASSUME DownloadTypeOK, mishaps = {}, CalmInv, NEW r \in Runs, Unlink(r)
  PROVE CalmInv'
  <1> USE DEF Unlink, CalmInv, DownloadTypeOK, Mishap, Step, RunAlone, Active, Loading, Removing, Gets, Drops
  <1>1. RunAlone'
    OBVIOUS
  <1>2. \A k \in Runs : Getting(k)'
    BY DEF Getting
  <1>3. \A k \in Runs : Dropping(k)'
    BY DEF Dropping
  <1>4. Playable'
    BY DEF Playable, Getting, Dropping
  <1>5. Books'
    BY DEF Books, Getting
  <1> QED
    BY <1>1, <1>2, <1>3, <1>4, <1>5 DEF CalmInv

LEMMA CalmFailDrop ==
  ASSUME DownloadTypeOK, mishaps = {}, CalmInv, NEW r \in Runs, FailDrop(r)
  PROVE CalmInv'
  <1> USE DEF FailDrop, CalmInv, DownloadTypeOK, Mishap, Step, RunAlone, Active, Loading, Removing, Gets, Drops
  <1>1. RunAlone'
    OBVIOUS
  <1>2. \A k \in Runs : Getting(k)'
    BY DEF Getting
  <1>3. \A k \in Runs : Dropping(k)'
    BY DEF Dropping
  <1>4. Playable'
    BY DEF Playable, Getting, Dropping
  <1>5. Books'
    BY DEF Books, Getting
  <1> QED
    BY <1>1, <1>2, <1>3, <1>4, <1>5 DEF CalmInv

LEMMA CalmAge ==
  ASSUME DownloadTypeOK, mishaps = {}, CalmInv, Age
  PROVE CalmInv'
  <1> USE DEF Age, CalmInv, DownloadTypeOK, Mishap, Step, RunAlone, Active, Loading, Removing, Gets, Drops
  <1>1. RunAlone'
    OBVIOUS
  <1>2. \A k \in Runs : Getting(k)'
    BY DEF Getting
  <1>3. \A k \in Runs : Dropping(k)'
    BY DEF Dropping
  <1>4. Playable'
    BY DEF Playable, Getting, Dropping
  <1>5. Books'
    BY DEF Books, Getting
  <1> QED
    BY <1>1, <1>2, <1>3, <1>4, <1>5 DEF CalmInv

-----------------------------------------------------------------------------
(* The theorems                                                            *)

LEMMA DownloadInvariant == DownloadSpec => []DownloadIInv
  <1>1. DownloadInit => DownloadIInv
    BY DownloadInitTypes, CalmInit DEF DownloadIInv
  <1>2. DownloadIInv /\ [DownloadNext]_downloadVars => DownloadIInv'
    <2> SUFFICES ASSUME DownloadIInv, [DownloadNext]_downloadVars PROVE DownloadIInv'
      OBVIOUS
    <2>1. DownloadTypeOK /\ DownloadTypeOK'
      BY DownloadTypes DEF DownloadIInv
    <2>2. mishaps' = mishaps
      BY DEF DownloadNext, downloadVars, StartGet, LookFirst, CreateFile, WriteChunk, FinishFile, InsertCopy,
         CountCopy, FailGet, StartDrop, DropCopies, Discount, Unlink, FailDrop, Age
    <2>3. ASSUME mishaps = {} PROVE CalmInv'
      <3>1. CalmInv
        BY <2>3 DEF DownloadIInv
      <3>2. ASSUME NEW r \in Runs,
                   \/ \E op \in Gets : StartGet(r, op)
                   \/ LookFirst(r) \/ CreateFile(r) \/ WriteChunk(r) \/ FinishFile(r)
                   \/ InsertCopy(r) \/ CountCopy(r) \/ FailGet(r)
            PROVE CalmInv'
        BY <2>1, <2>3, <3>1, <3>2, CalmStartGet, CalmLookFirst, CalmCreateFile, CalmWriteChunk, CalmFinishFile,
           CalmInsertCopy, CalmCountCopy, CalmFailGet
      <3>3. ASSUME NEW r \in Runs,
                   \/ \E op \in Drops : StartDrop(r, op)
                   \/ DropCopies(r) \/ Discount(r) \/ Unlink(r) \/ FailDrop(r)
            PROVE CalmInv'
        BY <2>1, <2>3, <3>1, <3>3, CalmStartDrop, CalmDropCopies, CalmDiscount, CalmUnlink, CalmFailDrop
      <3>4. CASE Age
        BY <2>1, <2>3, <3>1, <3>4, CalmAge
      <3>5. CASE UNCHANGED downloadVars
        BY <3>1, <3>5 DEF downloadVars, CalmInv, RunAlone, Getting, Dropping, Playable, Books, Active
      <3> QED
        BY <3>2, <3>3, <3>4, <3>5 DEF DownloadNext
    <2> QED
      BY <2>1, <2>2, <2>3 DEF DownloadIInv
  <1> QED
    BY <1>1, <1>2, PTL DEF DownloadSpec

\* Rows, file, counter and the places of all work keep their types, whatever overlaps or
\* stops (tasks.rs, database.rs).
THEOREM DownloadTypesKept == DownloadSpec => []DownloadTypeOK
  <1>1. DownloadIInv => DownloadTypeOK
    BY DEF DownloadIInv
  <1> QED
    BY <1>1, DownloadInvariant, PTL

\* "Only update UserStats if a row was actually deleted" (database.rs), and the order of
\* file and rows: for any number of downloads one after the other, deletions that overlap
\* and failures, an episode shown as downloaded has its whole file and is counted once.
THEOREM DownloadsServed == DownloadSpec => []Served
  <1>1. DownloadIInv => Served
    <2> SUFFICES ASSUME DownloadTypeOK, mishaps = {}, CalmInv PROVE Served
      BY DEF DownloadIInv, Served
    <2>1. copies # {} =>
            \/ path # NoFile /\ content[path] = 1..Chunks
            \/ \E r \in Runs : run[r].op = "nightly" /\ run[r].pc = "drop"
      BY DEF CalmInv, Playable
    <2>2. ASSUME Active = {} PROVE tally = Cardinality(copies)
      <3>1. tally = IF copies = {} THEN 0 ELSE 1
        BY <2>2 DEF CalmInv, Books, Active, DownloadTypeOK
      <3>2. copies = {} => Cardinality(copies) = 0
        BY FS_EmptySet
      <3>3. copies # {} => Cardinality(copies) = 1
        BY FS_Singleton DEF CalmInv, Books
      <3> QED
        BY <3>1, <3>2, <3>3
    <2> QED
      BY <2>1, <2>2 DEF Served
  <1> QED
    BY <1>1, DownloadInvariant, PTL

-----------------------------------------------------------------------------
(* Playlists (Playlists)                                                   *)

Going == phase \in {"plays", "asks"}

\* The types, and that a player that plays or asks has an episode.
PlaylistTyped == PlaylistTypeOK /\ (Going => playing \in Episodes)

LEMMA Listed ==
  ASSUME PlaylistTypeOK
  PROVE /\ Matching \subseteq Episodes /\ List \subseteq Matching
        /\ Looked \subseteq List /\ (~Trip("long") => Looked = List)
        /\ \A e \in Episodes : Candidates(e) \subseteq Looked
  BY DEF PlaylistTypeOK, Matching, List, Looked, FirstOf, Candidates, Behind

LEMMA PlaylistTypes == PlaylistTyped /\ [PlaylistNext]_playlistVars => PlaylistTyped'
  <1> SUFFICES ASSUME PlaylistTyped, [PlaylistNext]_playlistVars PROVE PlaylistTyped'
    OBVIOUS
  <1> USE DEF PlaylistTyped, PlaylistTypeOK, Going
  <1>0. 0 \in Far /\ 2 \in Far /\ \A e \in List : e \in Episodes
    BY Listed DEF Far
  <1>1. ASSUME NEW e \in Episodes, Choose(e) PROVE PlaylistTyped'
    <2>1. ahead' \subseteq Episodes
      BY <1>0, <1>1 DEF Choose, Behind
    <2> QED
      BY <1>0, <1>1, <2>1 DEF Choose, StartPlaying
  <1>2. ASSUME NEW p \in Far, ReportFar(p) PROVE PlaylistTyped'
    BY <1>2 DEF ReportFar
  <1>3. CASE EndEpisode
    <2>1. sending' \in [Episodes -> {"no", "sent", "half"}]
      BY <1>3 DEF EndEpisode
    <2>2. played' \subseteq Episodes
      BY <1>3 DEF EndEpisode
    <2> QED
      BY <1>3, <2>1, <2>2 DEF EndEpisode
  <1>4. CASE AskNext
    <2>1. Candidates(playing) \subseteq Episodes
      BY <1>4, Listed DEF AskNext
    <2> QED
      BY <1>0, <1>4, <2>1 DEF AskNext, StartPlaying
  <1>5. CASE AskNextFails
    BY <1>5 DEF AskNextFails
  <1>6. ASSUME NEW e \in Episodes, MarkCompleted(e) PROVE PlaylistTyped'
    <2>1. sending' \in [Episodes -> {"no", "sent", "half"}]
      BY <1>6 DEF MarkCompleted
    <2> QED
      BY <1>6, <2>1 DEF MarkCompleted
  <1>7. ASSUME NEW e \in Episodes, MarkHistory(e) PROVE PlaylistTyped'
    BY <1>0, <1>7 DEF MarkHistory
  <1>8. ASSUME NEW e \in Episodes, Arrive(e) PROVE PlaylistTyped'
    BY <1>8 DEF Arrive
  <1>9. ASSUME NEW e \in Episodes, NEW p \in Far, NEW mark \in BOOLEAN, PlayElsewhere(e, p, mark)
        PROVE PlaylistTyped'
    <2>1. far' \in [Episodes -> Far]
      BY <1>9 DEF PlayElsewhere
    <2> QED
      BY <1>9, <2>1 DEF PlayElsewhere
  <1>10. CASE UNCHANGED playlistVars
    BY <1>10 DEF playlistVars
  <1> QED
    BY <1>1, <1>2, <1>3, <1>4, <1>5, <1>6, <1>7, <1>8, <1>9, <1>10 DEF PlaylistNext

LEMMA PlaylistStarts == PlaylistInit => PlaylistTyped
  <1> SUFFICES ASSUME PlaylistInit PROVE PlaylistTyped
    OBVIOUS
  <1>1. 0 \in Far /\ far \in [Episodes -> Far] /\ sending \in [Episodes -> {"no", "sent", "half"}]
    BY DEF PlaylistInit, Far
  <1> QED
    BY <1>1 DEF PlaylistInit, PlaylistTyped, PlaylistTypeOK, Going

-----------------------------------------------------------------------------
(* What is listed.                                                         *)

\* Nothing about an episode that the query asks for changes.
Untouched(x) == /\ x \in present' <=> x \in present
                /\ far'[x] = far[x]
                /\ x \in marked' <=> x \in marked

LEMMA UntouchedListed ==
  ASSUME NEW x, Untouched(x), rules' = rules
  PROVE x \in Matching' <=> x \in Matching
  BY DEF Untouched, Matching, InClass

\* With all three classes the query asks for nothing else.
LEMMA AllListed == PlaylistTypeOK /\ rules = Classes => Matching = present
  <1> SUFFICES ASSUME PlaylistTypeOK, rules = Classes PROVE Matching = present
    OBVIOUS
  <1>1. \A e \in present : far[e] \in 0..2
    BY DEF PlaylistTypeOK, Far
  <1>2. ASSUME NEW e \in present PROVE \E class \in rules : InClass(e, class)
    <2>1. InClass(e, "unplayed") \/ InClass(e, "partial") \/ InClass(e, "played")
      BY <1>1 DEF InClass
    <2> QED
      BY <2>1 DEF Classes
  <1> QED
    BY <1>2 DEF Matching

LEMMA AfterListed ==
  ASSUME PlaylistTypeOK'
  PROVE Matching' \subseteq Episodes /\ (rules' = Classes => Matching' = present')
  <1>1. (PlaylistTypeOK /\ rules = Classes => Matching = present)'
    BY AllListed, PTL
  <1> QED
    BY <1>1 DEF Matching, PlaylistTypeOK, Classes

Before(S, d) == {x \in S : x < d}

LEMMA FewerBefore ==
  ASSUME NEW A \in SUBSET Episodes, NEW B \in SUBSET Episodes, A \subseteq B, NEW d \in Episodes
  PROVE /\ Cardinality(Before(A, d)) \in Nat /\ Cardinality(Before(B, d)) \in Nat
        /\ Cardinality(Before(A, d)) <= Cardinality(Before(B, d))
  <1>1. IsFiniteSet(Episodes)
    BY PlaylistAssumption, FS_Interval DEF Episodes
  <1>2. /\ Before(A, d) \subseteq Before(B, d) /\ Before(B, d) \subseteq Episodes
        /\ Before(A, d) \subseteq Episodes
    BY DEF Before
  <1>3. IsFiniteSet(Before(B, d)) /\ IsFiniteSet(Before(A, d))
    BY <1>1, <1>2, FS_Subset
  <1> QED
    BY <1>2, <1>3, FS_Subset, FS_CardinalityType

LEMMA InList ==
  ASSUME PlaylistTypeOK, NEW d \in Episodes
  PROVE d \in List <=> d \in Matching /\ (limit # 0 => Cardinality(Before(Matching, d)) < limit)
  BY DEF List, FirstOf, Before

-----------------------------------------------------------------------------
(* An episode that is still to be played is at or behind the one in the    *)
(* player.  Unless it is that one, nobody marks it, and it is listed: of   *)
(* what comes before it, never more is listed than when it was chosen.     *)
ToCome(d) ==
  /\ d >= playing
  /\ d # playing => sending[d] = "no" /\ d \in Matching
  /\ limit # 0 => Cardinality(Before(Matching \cup {playing}, d)) < limit

\* What was played is, or will be, neither unplayed nor in progress.
Settled(x) == sending[x] = "sent" \/ (x \in marked /\ (sending[x] = "half" \/ far[x] = 2))

Through ==
  /\ phase = "plays" => playing \notin played
  /\ phase = "asks" => playing \notin ahead /\ \A x \in Episodes \ {playing} : sending[x] = "no"
  /\ \A d \in ahead : ToCome(d)
  /\ rules = Classes => playing \in List /\ \A x \in played : x <= playing
  /\ "played" \notin rules => \A x \in played : Settled(x)

PlaylistInv ==
  /\ "played" \in rules => rules = Classes
  /\ ~again
  /\ phase = "over" => ahead = {}
  /\ Going => Through

PlaylistGood == PlaylistTyped /\ PlaylistInv /\ trips = {}

\* No more is listed than before, but for what the player plays.
Shrinks == limit # 0 => Matching' \cup {playing'} \subseteq Matching \cup {playing}

LEMMA ComesStill ==
  ASSUME PlaylistTyped, PlaylistTyped', Going, Going', limit' = limit, Shrinks,
         NEW d \in Episodes, ToCome(d), d >= playing',
         d # playing' => sending'[d] = "no" /\ d \in Matching'
  PROVE ToCome(d)'
  <1>1. ASSUME limit # 0
        PROVE Cardinality(Before(Matching \cup {playing}, d))' < limit
    <2> DEFINE A == Matching' \cup {playing'}
               B == Matching \cup {playing}
    <2>1. A \subseteq B /\ Cardinality(Before(B, d)) < limit
      BY <1>1 DEF Shrinks, ToCome
    <2>2. B \subseteq Episodes /\ A \subseteq Episodes
      BY <2>1, Listed DEF PlaylistTyped
    <2>3. limit \in Nat
      BY PlaylistAssumption DEF PlaylistTyped, PlaylistTypeOK
    <2> HIDE DEF A, B
    <2>4. Cardinality(Before(A, d)) < limit
      BY <2>1, <2>2, <2>3, FewerBefore
    <2> QED
      BY <2>4 DEF A, Before
  <1> QED
    BY <1>1 DEF ToCome

LEMMA SameList ==
  ASSUME PlaylistTypeOK, PlaylistTypeOK', rules = Classes, UNCHANGED <<rules, present, limit>>
  PROVE List' = List
  <1>1. Matching' = Matching
    BY AllListed, AfterListed
  <1> QED
    BY <1>1 DEF List, FirstOf

LEMMA ChooseThrough ==
  ASSUME PlaylistGood, PlaylistTyped', NEW e \in Episodes, Choose(e)
  PROVE PlaylistInv'
  <1>1. /\ playing' = e /\ phase' = "plays" /\ far' = [far EXCEPT ![e] = 0] /\ e \in List
        /\ played' = {} /\ ahead' = {d \in Behind(List, e) : sending[d] = "no"} /\ again' = FALSE
        /\ UNCHANGED <<present, marked, rules, limit, sending>>
    BY DEF Choose, StartPlaying
  <1>2. \A x \in Episodes \ {e} : Untouched(x)
    BY <1>1 DEF Untouched, PlaylistGood, PlaylistTyped, PlaylistTypeOK
  <1>3. \A x \in Episodes \ {e} : x \in Matching' <=> x \in Matching
    BY <1>1, <1>2, UntouchedListed
  <1>4. Matching \subseteq Episodes /\ Matching' \subseteq Episodes /\ List \subseteq Matching /\ limit \in Nat
    BY Listed, AfterListed, PlaylistAssumption DEF PlaylistGood, PlaylistTyped, PlaylistTypeOK
  <1>5. Matching' \cup {e} \subseteq Matching
    BY <1>1, <1>3, <1>4
  <1>6. ASSUME NEW d \in ahead' PROVE ToCome(d)'
    <2>1. d \in List /\ d > e /\ sending[d] = "no" /\ d \in Episodes
      BY <1>1, <1>4 DEF Behind
    <2>2. d \in Matching'
      BY <1>3, <1>4, <2>1 DEF Episodes
    <2> DEFINE A == Matching' \cup {e}
    <2>3. limit # 0 => Cardinality(Before(Matching, d)) < limit
      BY <2>1, InList DEF PlaylistGood, PlaylistTyped
    <2>4. A \subseteq Matching /\ Matching \subseteq Episodes
      BY <1>4, <1>5
    <2> HIDE DEF A
    <2>5. limit # 0 => Cardinality(Before(A, d)) < limit
      BY <1>4, <2>1, <2>3, <2>4, FewerBefore
    <2>6. limit # 0 => Cardinality(Before(Matching \cup {playing}, d))' < limit
      BY <1>1, <2>5 DEF A, Before
    <2> QED
      BY <1>1, <2>1, <2>2, <2>6 DEF ToCome, Episodes
  <1>7. rules = Classes => e \in List'
    BY <1>1, SameList DEF PlaylistGood, PlaylistTyped
  <1>8. Through'
    BY <1>1, <1>6, <1>7 DEF Through, Classes
  <1> QED
    BY <1>1, <1>8 DEF PlaylistGood, PlaylistInv, Classes

LEMMA ReportThrough ==
  ASSUME PlaylistGood, PlaylistTyped', NEW p \in Far, ReportFar(p)
  PROVE PlaylistInv'
  <1>1. /\ phase = "plays" /\ far' = [far EXCEPT ![playing] = p]
        /\ UNCHANGED <<present, marked, rules, limit, playing, phase, sending, played, ahead, again>>
        /\ Going /\ Through /\ playing \in Episodes
    BY DEF ReportFar, PlaylistGood, PlaylistTyped, PlaylistInv, Going
  <1>2. \A x \in Episodes \ {playing} : Untouched(x)
    BY <1>1 DEF Untouched, PlaylistGood, PlaylistTyped, PlaylistTypeOK
  <1>3. \A x \in Episodes \ {playing} : x \in Matching' <=> x \in Matching
    BY <1>1, <1>2, UntouchedListed
  <1>4. Shrinks
    BY <1>1, <1>3, AfterListed DEF Shrinks, PlaylistGood, PlaylistTyped
  <1>5. ASSUME NEW d \in ahead' PROVE ToCome(d)'
    <2>1. d \in Episodes /\ ToCome(d)
      BY <1>1 DEF Through, PlaylistGood, PlaylistTyped, PlaylistTypeOK
    <2> QED
      BY <1>1, <1>3, <1>4, <2>1, ComesStill DEF ToCome, PlaylistGood, Going
  <1>6. rules = Classes => List' = List
    BY <1>1, SameList DEF PlaylistGood, PlaylistTyped
  <1>7. ASSUME NEW x \in played, Settled(x) PROVE Settled(x)'
    <2>1. x \in Episodes /\ x # playing
      BY <1>1 DEF Through, PlaylistGood, PlaylistTyped, PlaylistTypeOK
    <2> QED
      BY <1>1, <1>2, <1>7, <2>1 DEF Settled, Untouched
  <1>8. Through'
    BY <1>1, <1>5, <1>6, <1>7 DEF Through, Classes
  <1> QED
    BY <1>1, <1>8 DEF PlaylistGood, PlaylistInv, Classes

LEMMA EndThrough ==
  ASSUME PlaylistGood, PlaylistTyped', EndEpisode
  PROVE PlaylistInv'
  <1>1. /\ phase = "plays" /\ phase' = "asks" /\ \A e \in Episodes : sending[e] = "no"
        /\ played' = played \cup {playing} /\ ahead' = ahead \ {playing}
        /\ sending' = [sending EXCEPT ![playing] = "sent"]
        /\ UNCHANGED <<present, far, marked, rules, limit, playing, again>>
        /\ Going /\ Going' /\ Through /\ playing \in Episodes
        /\ sending \in [Episodes -> {"no", "sent", "half"}]
        /\ played \subseteq Episodes /\ ahead \subseteq Episodes
    BY DEF EndEpisode, PlaylistGood, PlaylistTyped, PlaylistTypeOK, PlaylistInv, Going, Trip
  <1>2. Matching' = Matching /\ List' = List
    BY <1>1 DEF Matching, InClass, List, FirstOf
  <1>3. Shrinks
    BY <1>1, <1>2 DEF Shrinks
  <1>4. ASSUME NEW d \in ahead' PROVE ToCome(d)'
    <2>1. d \in Episodes /\ ToCome(d) /\ d # playing
      BY <1>1 DEF Through
    <2> QED
      BY <1>1, <1>2, <1>3, <2>1, ComesStill DEF ToCome, PlaylistGood
  <1>5. ASSUME NEW x \in played', "played" \notin rules PROVE Settled(x)'
    <2>1. CASE x = playing
      BY <1>1, <2>1 DEF Settled
    <2>2. CASE x # playing
      BY <1>1, <1>5, <2>2 DEF Through, Settled
    <2> QED
      BY <2>1, <2>2
  <1>6. playing <= playing
    BY <1>1 DEF Episodes
  <1>7. Through'
    BY <1>1, <1>2, <1>4, <1>5, <1>6 DEF Through, Classes
  <1> QED
    BY <1>1, <1>7 DEF PlaylistGood, PlaylistInv, Classes

LEMMA AskThrough ==
  ASSUME PlaylistGood, PlaylistTyped', AskNext
  PROVE PlaylistInv'
  <1>1. /\ phase = "asks" /\ UNCHANGED <<present, marked, rules, limit, sending, played, ahead>>
        /\ Going /\ Through /\ playing \in Episodes /\ Looked = List /\ List \subseteq Matching
        /\ Matching \subseteq Episodes /\ ahead \subseteq Episodes /\ played \subseteq Episodes /\ ~again
        /\ limit \in Nat /\ far \in [Episodes -> Far]
    BY Listed, PlaylistAssumption
      DEF AskNext, PlaylistGood, PlaylistTyped, PlaylistTypeOK, PlaylistInv, Going, Trip
  <1>2. ASSUME NEW d \in ahead PROVE d \in Candidates(playing)
    <2>1. d \in Episodes /\ ToCome(d) /\ d # playing
      BY <1>1 DEF Through
    <2>2. d \in Matching /\ d > playing
      BY <1>1, <2>1 DEF ToCome, Episodes
    <2>3. ASSUME limit # 0 PROVE Cardinality(Before(Matching, d)) < limit
      <3> DEFINE B == Matching \cup {playing}
      <3>1. Cardinality(Before(B, d)) < limit
        BY <2>1, <2>3 DEF ToCome
      <3>2. Matching \subseteq B /\ B \subseteq Episodes
        BY <1>1
      <3> HIDE DEF B
      <3> QED
        BY <1>1, <2>1, <3>1, <3>2, FewerBefore
    <2>4. d \in List
      BY <2>1, <2>2, <2>3, InList DEF PlaylistGood, PlaylistTyped
    <2> QED
      BY <1>1, <2>2, <2>4 DEF Candidates, Behind
  <1>3. CASE Candidates(playing) = {}
    <2>1. phase' = "over" /\ again' = again
      BY <1>3 DEF AskNext
    <2> QED
      BY <1>1, <1>2, <1>3, <2>1 DEF PlaylistGood, PlaylistInv, Going, Classes
  <1>4. CASE Candidates(playing) # {}
    <2>1. PICK e \in Candidates(playing) :
            /\ \A d \in Candidates(playing) : e <= d
            /\ playing' = e /\ phase' = "plays" /\ far' = [far EXCEPT ![e] = 0]
            /\ again' = (again \/ e \in played)
      BY <1>4 DEF AskNext, StartPlaying
    <2>2. e \in List /\ e \in Episodes /\ e # playing /\ (playing \in List => e > playing)
      BY <1>1, <2>1 DEF Candidates, Behind, Episodes
    <2>3. e \notin played
      <3>1. CASE rules = Classes
        BY <1>1, <2>2, <3>1 DEF Through, Episodes
      <3>2. CASE "played" \notin rules
        <4>1. SUFFICES ASSUME e \in played PROVE FALSE
          OBVIOUS
        <4>2. e \in marked /\ far[e] = 2
          BY <1>1, <2>2, <3>2, <4>1 DEF Through, Settled
        <4>3. PICK class \in rules : InClass(e, class)
          BY <1>1, <2>2 DEF Matching
        <4>4. class \in {"unplayed", "partial"}
          BY <3>2 DEF PlaylistGood, PlaylistTyped, PlaylistTypeOK, Classes
        <4> QED
          BY <4>2, <4>3, <4>4 DEF InClass
      <3> QED
        BY <3>1, <3>2 DEF PlaylistGood, PlaylistInv
    <2>4. \A x \in Episodes \ {e} : Untouched(x)
      BY <1>1, <2>1 DEF Untouched
    <2>5. \A x \in Episodes \ {e} : x \in Matching' <=> x \in Matching
      BY <1>1, <2>4, UntouchedListed
    <2>6. Shrinks
      BY <1>1, <2>1, <2>2, <2>5, AfterListed DEF Shrinks, PlaylistGood, PlaylistTyped
    <2>7. ASSUME NEW d \in ahead' PROVE ToCome(d)'
      <3>1. d \in Episodes /\ ToCome(d) /\ d # playing /\ d >= e
        BY <1>1, <1>2, <2>1, <2>2 DEF Through, Episodes
      <3>2. d # e => sending'[d] = "no" /\ d \in Matching'
        BY <1>1, <2>5, <3>1 DEF ToCome
      <3> QED
        BY <1>1, <2>1, <2>6, <3>1, <3>2, ComesStill DEF PlaylistGood, Going
    <2>8. rules = Classes => e \in List'
      BY <1>1, <2>2, SameList DEF PlaylistGood, PlaylistTyped
    <2>9. rules = Classes => \A x \in played : x <= e
      <3>1. rules = Classes => playing \in List /\ \A x \in played : x <= playing
        BY <1>1 DEF Through
      <3>2. playing \in Int /\ e \in Int /\ \A x \in played : x \in Int
        BY <1>1, <2>2 DEF Episodes, PlaylistGood, PlaylistTyped, PlaylistTypeOK
      <3> QED
        BY <2>2, <3>1, <3>2
    <2>10. ASSUME NEW x \in played, Settled(x) PROVE Settled(x)'
      BY <1>1, <2>3, <2>4, <2>10 DEF Settled, Untouched
    <2>11. Through'
      BY <1>1, <2>1, <2>3, <2>7, <2>8, <2>9, <2>10 DEF Through, Classes
    <2> QED
      BY <1>1, <2>1, <2>3, <2>11 DEF PlaylistGood, PlaylistInv, Classes
  <1> QED
    BY <1>3, <1>4

\* A mark, here or elsewhere, that comes while the player plays or asks.
LEMMA OthersThrough ==
  ASSUME PlaylistGood, PlaylistTyped', UNCHANGED <<rules, limit, playing, phase, played, again>>,
         ahead' \subseteq ahead,
         Going => Shrinks,
         Going => \A d \in ahead' \ {playing} : sending'[d] = "no" /\ d \in Matching',
         phase = "asks" => \A x \in Episodes \ {playing} : sending'[x] = "no",
         Going => \A x \in played : Settled(x) => Settled(x)',
         Going /\ rules = Classes => playing \in List'
  PROVE PlaylistInv'
  <1>1. CASE Going
    <2>1. Through /\ Going' /\ ahead \subseteq Episodes
      BY <1>1 DEF PlaylistGood, PlaylistInv, PlaylistTyped, PlaylistTypeOK, Going
    <2>2. ASSUME NEW d \in ahead' PROVE ToCome(d)'
      <3>1. d \in Episodes /\ ToCome(d)
        BY <2>1 DEF Through
      <3> QED
        BY <1>1, <2>1, <3>1, ComesStill DEF ToCome, PlaylistGood
    <2>3. Through'
      BY <1>1, <2>1, <2>2 DEF Through, Classes
    <2> QED
      BY <1>1, <2>3 DEF PlaylistGood, PlaylistInv, Classes, Going
  <1>2. CASE ~Going
    BY <1>2 DEF PlaylistGood, PlaylistInv, Going, Classes
  <1> QED
    BY <1>1, <1>2

LEMMA MarkedThrough ==
  ASSUME PlaylistGood, PlaylistTyped', NEW e \in Episodes, MarkCompleted(e) \/ MarkHistory(e)
  PROVE PlaylistInv'
  <1>1. /\ UNCHANGED <<present, rules, limit, playing, phase, played, ahead, again>>
        /\ sending[e] # "no" /\ \A x \in Episodes \ {e} : sending'[x] = sending[x]
        /\ \A x \in Episodes \ {e} : Untouched(x)
        /\ \/ /\ sending[e] = "sent" /\ sending'[e] = "half"
              /\ marked' = marked \cup {e} /\ far' = far
           \/ sending[e] = "half" /\ far'[e] = 2 /\ marked' = marked
    <2>1. CASE MarkCompleted(e)
      <3>1. sending' = [sending EXCEPT ![e] = "half"] /\ marked' = marked \cup {e}
        BY <2>1 DEF MarkCompleted, Trip, PlaylistGood
      <3>2. /\ UNCHANGED <<present, rules, limit, playing, phase, played, ahead, again, far>>
            /\ sending[e] = "sent" /\ sending \in [Episodes -> {"no", "sent", "half"}]
        BY <2>1 DEF MarkCompleted, PlaylistTyped, PlaylistTypeOK, PlaylistGood
      <3>3. sending'[e] = "half" /\ \A x \in Episodes \ {e} : sending'[x] = sending[x]
        BY <3>1, <3>2
      <3>4. \A x \in Episodes \ {e} : Untouched(x)
        BY <3>1, <3>2 DEF Untouched
      <3> QED
        BY <3>1, <3>2, <3>3, <3>4
    <2>2. CASE MarkHistory(e)
      BY <2>2 DEF MarkHistory, Untouched, PlaylistTyped, PlaylistTypeOK, PlaylistGood
    <2> QED
      BY <2>1, <2>2
  <1>2. \A x \in Episodes \ {e} : x \in Matching' <=> x \in Matching
    BY <1>1, UntouchedListed
  <1>3. /\ "played" \in rules => rules = Classes
        /\ rules \subseteq Classes /\ Matching \subseteq Episodes /\ ahead \subseteq Episodes /\ played \subseteq Episodes
        /\ Going => Through
    BY Listed DEF PlaylistGood, PlaylistInv, PlaylistTyped, PlaylistTypeOK
  <1>4. Matching' \subseteq Matching
    <2>1. CASE rules = Classes
      BY <1>1, <2>1, AllListed, AfterListed DEF PlaylistGood, PlaylistTyped
    <2>2. CASE "played" \notin rules
      <3>1. ASSUME e \in Matching' PROVE e \in Matching
        <4>1. PICK class \in rules : InClass(e, class)' /\ e \in present
          BY <1>1, <3>1 DEF Matching
        <4>2. class \in {"unplayed", "partial"}
          BY <1>3, <2>2 DEF Classes
        <4>3. InClass(e, class)
          BY <1>1, <4>1, <4>2 DEF InClass
        <4> QED
          BY <4>1, <4>3 DEF Matching
      <3> QED
        BY <1>2, <3>1, AfterListed DEF PlaylistTyped
    <2> QED
      BY <1>3, <2>1, <2>2
  <1>5. ASSUME Going, NEW d \in ahead \ {playing} PROVE sending'[d] = "no" /\ d \in Matching'
    <2>1. d \in Episodes /\ ToCome(d)
      BY <1>3, <1>5 DEF Through
    <2> QED
      BY <1>1, <1>2, <1>5, <2>1 DEF ToCome
  <1>6. ASSUME phase = "asks", NEW x \in Episodes \ {playing} PROVE sending'[x] = "no"
    BY <1>1, <1>3, <1>6 DEF Going, Through
  <1>7. ASSUME NEW x \in played, Settled(x) PROVE Settled(x)'
    BY <1>1, <1>3, <1>7 DEF Settled, Untouched
  <1>8. rules = Classes => List' = List
    BY <1>1, SameList DEF PlaylistGood, PlaylistTyped
  <1>9. Going /\ rules = Classes => playing \in List'
    BY <1>3, <1>8 DEF Through
  <1>10. Shrinks
    BY <1>1, <1>4 DEF Shrinks
  <1> QED
    BY <1>1, <1>5, <1>6, <1>7, <1>9, <1>10, OthersThrough

LEMMA MeanwhileThrough ==
  ASSUME PlaylistGood, PlaylistTyped', NEW e \in Episodes,
         Arrive(e) \/ \E p \in Far, mark \in BOOLEAN : PlayElsewhere(e, p, mark)
  PROVE PlaylistInv'
  <1>1. /\ UNCHANGED <<rules, limit, playing, phase, sending, played, again>>
        /\ ahead' \subseteq ahead
        /\ marked \subseteq marked' /\ \A x \in Episodes : far'[x] >= far[x]
        /\ Going /\ limit # 0 => e \in Matching
        /\ (e \notin present /\ present' = present \cup {e}) \/ (e \notin ahead' /\ present' = present)
        /\ \A x \in Episodes \ {e} : Untouched(x)
    BY DEF Arrive, PlayElsewhere, MayEnter, Trip, Untouched, Going, PlaylistGood, PlaylistTyped, PlaylistTypeOK, Far
  <1>2. \A x \in Episodes \ {e} : x \in Matching' <=> x \in Matching
    BY <1>1, UntouchedListed
  <1>3. /\ Matching \subseteq Episodes /\ Matching \subseteq present
        /\ ahead \subseteq Episodes /\ played \subseteq Episodes
        /\ Going => Through
    BY Listed DEF PlaylistGood, PlaylistInv, PlaylistTyped, PlaylistTypeOK, Matching
  <1>4. Going => Shrinks
    BY <1>1, <1>2, AfterListed DEF Shrinks, PlaylistTyped
  <1>5. ASSUME Going, NEW d \in ahead' \ {playing} PROVE sending'[d] = "no" /\ d \in Matching'
    <2>1. d \in Episodes /\ ToCome(d)
      BY <1>1, <1>3, <1>5 DEF Through
    <2>2. d \in Matching /\ d # e
      BY <1>1, <1>3, <1>5, <2>1 DEF ToCome
    <2> QED
      BY <1>1, <1>2, <1>5, <2>1, <2>2 DEF ToCome
  <1>6. ASSUME phase = "asks", NEW x \in Episodes \ {playing} PROVE sending'[x] = "no"
    BY <1>1, <1>3, <1>6 DEF Going, Through
  <1>7. ASSUME NEW x \in played, Settled(x) PROVE Settled(x)'
    <2>1. far'[x] \in 0..2
      BY <1>3, <1>7 DEF PlaylistTyped, PlaylistTypeOK, Far
    <2>2. far[x] = 2 => far'[x] = 2
      BY <1>1, <1>3, <2>1
    <2> QED
      BY <1>1, <1>7, <2>2 DEF Settled
  <1>8. ASSUME Going, rules = Classes PROVE playing \in List'
    <2>1. CASE present' = present
      BY <1>1, <1>3, <1>8, <2>1, SameList DEF Through, PlaylistGood, PlaylistTyped
    <2>2. CASE e \notin present /\ present' = present \cup {e}
      <3>1. limit = 0
        BY <1>1, <1>3, <1>8, <2>2
      <3>2. List' = Matching' /\ List = Matching
        BY <1>1, <3>1 DEF List
      <3>3. playing \in present
        BY <1>3, <1>8, <3>2 DEF Through
      <3> QED
        BY <1>1, <1>8, <2>2, <3>2, <3>3, AfterListed DEF PlaylistTyped
    <2> QED
      BY <1>1, <2>1, <2>2
  <1> QED
    BY <1>1, <1>4, <1>5, <1>6, <1>7, <1>8, OthersThrough

LEMMA PlaylistSteps == PlaylistGood /\ [PlaylistNext]_playlistVars => PlaylistInv'
  <1> SUFFICES ASSUME PlaylistGood, [PlaylistNext]_playlistVars PROVE PlaylistInv'
    OBVIOUS
  <1>1. PlaylistTyped'
    BY PlaylistTypes DEF PlaylistGood
  <1>2. ~AskNextFails
    BY DEF AskNextFails, Trip, PlaylistGood
  <1>3. CASE UNCHANGED playlistVars
    BY <1>3 DEF playlistVars, PlaylistGood, PlaylistInv, Classes, Going, Through, ToCome, Settled,
      List, Matching, FirstOf, InClass, Before
  <1> QED
    BY <1>1, <1>2, <1>3, ChooseThrough, ReportThrough, EndThrough, AskThrough, MarkedThrough, MeanwhileThrough
      DEF PlaylistNext

PlaylistIInv == PlaylistTyped /\ (trips = {} => PlaylistInv)

LEMMA PlaylistInvariant == PlaylistSpec => []PlaylistIInv
  <1>1. PlaylistInit => PlaylistIInv
    BY PlaylistStarts DEF PlaylistIInv, PlaylistInit, PlaylistInv, Going, Classes
  <1>2. PlaylistIInv /\ [PlaylistNext]_playlistVars => PlaylistIInv'
    <2> SUFFICES ASSUME PlaylistIInv, [PlaylistNext]_playlistVars PROVE PlaylistIInv'
      OBVIOUS
    <2>1. trips' = trips
      BY DEF PlaylistNext, Choose, ReportFar, EndEpisode, AskNext, AskNextFails, MarkCompleted, MarkHistory,
        Arrive, PlayElsewhere, playlistVars
    <2> QED
      BY <2>1, PlaylistTypes, PlaylistSteps DEF PlaylistIInv, PlaylistGood
  <1> QED
    BY <1>1, <1>2, PTL DEF PlaylistSpec

\* The types of the tables and of the player, whatever goes wrong.
THEOREM PlaylistTypesKept == PlaylistSpec => []PlaylistTypeOK
  <1>1. PlaylistIInv => PlaylistTypeOK
    BY DEF PlaylistIInv, PlaylistTyped
  <1> QED
    BY <1>1, PlaylistInvariant, PTL

\* A listener who lets the player go on hears all that was listed behind the
\* episode chosen, each once, for playlists of any length and any limit,
\* whatever order the mark, the question what is next, new episodes and the other
\* players' reports come in.
THEOREM PlaylistPlayedThrough == PlaylistSpec => []PlaysThrough
  <1>1. PlaylistIInv => PlaysThrough
    BY DEF PlaylistIInv, PlaylistInv, PlaysThrough
  <1> QED
    BY <1>1, PlaylistInvariant, PTL

-----------------------------------------------------------------------------
(* The parts side by side (MCLibrary)                                      *)

LEMMA PartsStep ==
  [MCNext]_allVars =>
    /\ [Next]_vars /\ [ActionNext]_actionVars /\ [LibraryNext]_libraryVars
    /\ [DownloadNext]_downloadVars /\ [PlaylistNext]_playlistVars
  BY DEF MCNext, allVars, otherVars

\* Each part, beside the others, behaves as it does alone, so that what is
\* proved of it holds in the runs of MCLibrary.
THEOREM LibraryParts ==
  MCSpec => Spec /\ ActionSpec /\ LibrarySpec /\ DownloadSpec /\ PlaylistSpec
  <1>1. MCInit => Init /\ ActionInit /\ LibraryInit /\ DownloadInit /\ PlaylistInit
    BY DEF MCInit
  <1> QED
    BY <1>1, PartsStep, PTL DEF MCSpec, Spec, ActionSpec, LibrarySpec, DownloadSpec, PlaylistSpec

\* The types of all five parts.
THEOREM PartsTyped == MCSpec => []TypeInvariant
  BY LibraryParts, SyncTypesKept, ActionTypesKept, LibraryTypesKept, DownloadTypesKept, PlaylistTypesKept, PTL
     DEF TypeInvariant
=============================================================================
