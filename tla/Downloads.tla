------------------------------ MODULE Downloads ------------------------------
(***************************************************************************)
(* The server's copy of one episode for one user: the file, the rows in    *)
(* DownloadedEpisodes and the counter in UserStats, and the work that      *)
(* changes them: downloads on request, as part of a whole podcast and by   *)
(* the refresh (tasks.rs), deletion on request and the nightly deletion of *)
(* old downloads (database.rs).  All downloads of an episode have the same *)
(* path, and nothing but a look at the rows keeps two from running.        *)
(*                                                                         *)
(* mishaps names what else may happen in a behaviour.                      *)
(***************************************************************************)
EXTENDS Integers, FiniteSets

CONSTANTS
  Runs,        \* the downloads and deletions of a behaviour
  NoFile,      \* there is no file at the path
  Chunks,      \* how many pieces the file arrives in
  MishapSets   \* the sets of faults to consider

DownloadFaults == {
  "twice",     \* a download overlaps with another one or with a deletion
  "whole",     \* a whole podcast is downloaded
  "stop" }     \* work stops between a change of the rows and the rest

ASSUME DownloadAssumption ==
  /\ NoFile \notin Runs
  /\ Chunks \in Nat \ {0}
  /\ \A set \in MishapSets : set \subseteq DownloadFaults

VARIABLES
  path,      \* the file at the path, named by the download that created it
  content,   \* the pieces in each file
  copies,    \* DownloadedEpisodes: the rows, named by the download
  old,       \* those past the retention window
  tally,     \* UserStats.episodesdownloaded
  run,       \* where each download or deletion is
  mishaps    \* what else may go wrong

downloadVars == <<path, content, copies, old, tally, run, mishaps>>

Gets == {"get", "all", "auto"}   \* on request, with the podcast, by the refresh
Drops == {"delete", "nightly"}

Fresh == [op |-> "none", pc |-> "new", file |-> NoFile, sent |-> 0, had |-> FALSE]

DownloadTypeOK ==
  /\ path \in Runs \cup {NoFile}
  /\ content \in [Runs -> SUBSET (1..Chunks)]
  /\ copies \subseteq Runs /\ old \subseteq copies
  /\ tally \in Int
  /\ run \in [Runs -> [op : Gets \cup Drops \cup {"none"},
                       pc : {"new", "look", "create", "write", "insert", "count",
                             "drop", "discount", "unlink", "done"},
                       file : Runs \cup {NoFile}, sent : 0..Chunks, had : BOOLEAN]]
  /\ mishaps \in MishapSets

DownloadInit ==
  /\ path = NoFile /\ content = [r \in Runs |-> {}]
  /\ copies = {} /\ old = {} /\ tally = 0
  /\ run = [r \in Runs |-> Fresh]
  /\ mishaps \in MishapSets

Mishap(fault) == fault \in mishaps

Active == {r \in Runs : run[r].pc \notin {"new", "done"}}

Step(r, pc) == run' = [run EXCEPT ![r].pc = pc]

-----------------------------------------------------------------------------
(* Downloading                                                             *)

\* The refresh downloads an episode it has just inserted, without a look.
StartGet(r, op) ==
  /\ run[r] = Fresh
  /\ Mishap("twice") \/ Active = {}
  /\ op = "all" => Mishap("whole")
  /\ op = "auto" => copies = {} /\ \A s \in Runs : run[s] = Fresh
  /\ run' = [run EXCEPT ![r] = [Fresh EXCEPT !.op = op,
                                             !.pc = IF op = "auto" THEN "create" ELSE "look"]]
  /\ UNCHANGED <<path, content, copies, old, tally, mishaps>>

\* "Content already downloaded."
Found(r) == IF copies # {} THEN "done" ELSE "create"

LookFirst(r) ==
  /\ run[r].pc = "look"
  /\ Step(r, Found(r))
  /\ UNCHANGED <<path, content, copies, old, tally, mishaps>>

\* A file that is there is truncated.
CreateFile(r) ==
  /\ run[r].pc = "create"
  /\ LET file == IF path = NoFile THEN r ELSE path
     IN /\ path' = file
        /\ content' = [content EXCEPT ![file] = {}]
        /\ run' = [run EXCEPT ![r].pc = "write", ![r].file = file]
  /\ UNCHANGED <<copies, old, tally, mishaps>>

\* The next piece goes where this download is in the file.
WriteChunk(r) ==
  /\ run[r].pc = "write" /\ run[r].sent < Chunks
  /\ content' = [content EXCEPT ![run[r].file] = @ \cup {run[r].sent + 1}]
  /\ run' = [run EXCEPT ![r].sent = @ + 1]
  /\ UNCHANGED <<path, copies, old, tally, mishaps>>

FinishFile(r) ==
  /\ run[r].pc = "write" /\ run[r].sent = Chunks
  /\ Step(r, "insert")
  /\ UNCHANGED <<path, content, copies, old, tally, mishaps>>

\* The download of a whole podcast does not count its episodes.
InsertCopy(r) ==
  /\ run[r].pc = "insert"
  /\ copies' = copies \cup {r}
  /\ Step(r, IF run[r].op = "all" THEN "done" ELSE "count")
  /\ UNCHANGED <<path, content, old, tally, mishaps>>

CountCopy(r) ==
  /\ run[r].pc = "count"
  /\ tally' = tally + 1
  /\ Step(r, "done")
  /\ UNCHANGED <<path, content, copies, old, mishaps>>

\* The host does not answer, the disk is full, the server stops: what has been
\* written stays.
FailGet(r) ==
  /\ run[r].op \in Gets
  /\ run[r].pc \in {"look", "create", "write", "insert"} \/ (Mishap("stop") /\ run[r].pc = "count")
  /\ Step(r, "done")
  /\ UNCHANGED <<path, content, copies, old, tally, mishaps>>

-----------------------------------------------------------------------------
(* Deleting                                                                *)

\* A request reads the path before it deletes the rows; the nightly deletion
\* has it from the row it found old.
StartDrop(r, op) ==
  /\ run[r] = Fresh
  /\ Mishap("twice") \/ \A s \in Active : run[s].op \in Drops
  /\ op = "nightly" => old # {}
  /\ run' = [run EXCEPT ![r] = [Fresh EXCEPT !.op = op, !.had = copies # {},
                                             !.pc = IF op = "nightly" THEN "unlink" ELSE "drop"]]
  /\ UNCHANGED <<path, content, copies, old, tally, mishaps>>

\* Mutant: the counter is changed whether a row was deleted or not.
Always(r) == "discount"

\* "Only update UserStats if a row was actually deleted".
AfterDrop(r) ==
  IF copies # {} THEN "discount"
  ELSE IF run[r].op = "delete" /\ run[r].had THEN "unlink" ELSE "done"

\* All rows of the episode.
DropCopies(r) ==
  /\ run[r].pc = "drop"
  /\ copies' = {} /\ old' = {}
  /\ Step(r, AfterDrop(r))
  /\ UNCHANGED <<path, content, tally, mishaps>>

Discount(r) ==
  /\ run[r].pc = "discount"
  /\ tally' = tally - 1
  /\ Step(r, IF run[r].op = "delete" /\ run[r].had THEN "unlink" ELSE "done")
  /\ UNCHANGED <<path, content, copies, old, mishaps>>

\* On request the file goes last, in the night it goes first.
Unlink(r) ==
  /\ run[r].pc = "unlink"
  /\ path' = NoFile
  /\ Step(r, IF run[r].op = "delete" THEN "done" ELSE "drop")
  /\ UNCHANGED <<content, copies, old, tally, mishaps>>

FailDrop(r) ==
  /\ Mishap("stop")
  /\ run[r].op \in Drops /\ r \in Active
  /\ Step(r, "done")
  /\ UNCHANGED <<path, content, copies, old, tally, mishaps>>

Age ==
  /\ old # copies
  /\ old' = copies
  /\ UNCHANGED <<path, content, copies, tally, run, mishaps>>

DownloadNext ==
  \/ \E r \in Runs :
       \/ \E op \in Gets : StartGet(r, op)
       \/ LookFirst(r) \/ CreateFile(r) \/ WriteChunk(r) \/ FinishFile(r)
       \/ InsertCopy(r) \/ CountCopy(r) \/ FailGet(r)
       \/ \E op \in Drops : StartDrop(r, op)
       \/ DropCopies(r) \/ Discount(r) \/ Unlink(r) \/ FailDrop(r)
  \/ Age

DownloadSpec == DownloadInit /\ [][DownloadNext]_downloadVars

-----------------------------------------------------------------------------
(* Properties                                                              *)

\* An episode shown as downloaded is played from the file: a row means that the
\* whole file is at the path, or that the nightly deletion is about to delete the
\* row; and when no work is in progress the counter is the number of rows.
\* Downloads that fail half-way, are repeated, and deletions that overlap must
\* not leave one without the other.
Served ==
  mishaps = {} =>
    /\ copies # {} =>
         \/ path # NoFile /\ content[path] = 1..Chunks
         \/ \E r \in Runs : run[r].op = "nightly" /\ run[r].pc = "drop"
    /\ Active = {} => tally = Cardinality(copies)
=============================================================================
