------------------------------- MODULE Library -------------------------------
(***************************************************************************)
(* One user's podcasts (database.rs): their rows, which of them are shown, *)
(* the podcasts merged into another one, and the counter in UserStats.     *)
(* Requests are workers that run their statements one by one; merging,     *)
(* unmerging and removing by name and URL use a transaction, adding and    *)
(* removing by id do not.                                                  *)
(*                                                                         *)
(* A merged podcast is hidden and is read through the list of ids its      *)
(* primary keeps, one level deep.  trouble names what else may happen in a *)
(* behaviour; without it requests that change what is there come one after *)
(* the other, from pages that are up to date.                              *)
(***************************************************************************)
EXTENDS Integers, FiniteSets

CONSTANTS
  Urls,         \* the feeds the user may add
  NoUrl,        \* an id that has no row
  Workers,      \* the requests that may be handled at once
  MaxId,        \* bound of the podcast ids ...
  MaxTroubled,  \* ... and the bound where something else may go wrong
  TroubleSets   \* the sets of faults to consider

LibraryFaults == {
  "overlap",   \* requests other than adding overlap
  "stale",     \* a request comes from a page that is out of date
  "fail" }     \* a request ends between two statements

ASSUME LibraryAssumption ==
  /\ NoUrl \notin Urls
  /\ IsFiniteSet(Workers) /\ MaxId \in Nat /\ MaxTroubled \in 0..MaxId
  /\ \A set \in TroubleSets : set \subseteq LibraryFaults

Ids == 1..MaxId

VARIABLES
  url,      \* Podcasts: the feed of each id
  next,     \* the next id
  shown,    \* the ids whose displaypodcast is not FALSE
  merged,   \* mergedpodcastids of each id
  added,    \* UserStats.podcastsadded
  job,      \* the request a worker handles
  trouble   \* what else may go wrong

libraryVars == <<url, next, shown, merged, added, job, trouble>>

Rows == {i \in Ids : url[i] # NoUrl}

NoJob == [op |-> "none", pc |-> "start", url |-> NoUrl, id |-> 0, other |-> 0, list |-> {}]

LibraryTypeOK ==
  /\ url \in [Ids -> Urls \cup {NoUrl}]
  /\ next \in 1..MaxId + 1
  /\ shown \subseteq Ids
  /\ merged \in [Ids -> SUBSET Ids]
  /\ added \in Int
  /\ \A w \in Workers :
       /\ job[w].op \in {"none", "add", "merge", "unmerge", "remove", "remove_id"}
       /\ job[w].pc \in {"start", "check", "lock", "read", "write", "count"}
       /\ job[w].id \in 0..MaxId /\ job[w].other \in 0..MaxId /\ job[w].list \subseteq Ids
  /\ \A i, j \in Rows : url[i] = url[j] => i = j
  /\ trouble \in TroubleSets

LibraryInit ==
  /\ url = [i \in Ids |-> NoUrl] /\ next = 1
  /\ shown = {} /\ merged = [i \in Ids |-> {}]
  /\ added = 0
  /\ job = [w \in Workers |-> NoJob]
  /\ trouble \in TroubleSets

Has(fault) == fault \in trouble

Take(w, j) ==
  /\ job[w] = NoJob
  /\ Has("overlap") \/ j.op = "add" \/ \A v \in Workers : job[v].op \in {"none", "add"}
  /\ job' = [job EXCEPT ![w] = j]
  /\ UNCHANGED <<url, next, shown, merged, added, trouble>>

Goto(w, pc) == job' = [job EXCEPT ![w].pc = pc]
Return(w) == job' = [job EXCEPT ![w] = NoJob]

\* The rows a transaction of another worker has updated.
Locked(w, i) == \E v \in Workers \ {w} : job[v].pc \in {"read", "write"} /\ job[v].other = i
                                         /\ job[v].op = "merge"

-----------------------------------------------------------------------------
(* Adding                                                                  *)

\* Ids are bounded.
AskAdd(w, u) ==
  /\ next + Cardinality({v \in Workers : job[v].op = "add"})
       <= IF trouble = {} THEN MaxId ELSE MaxTroubled
  /\ Take(w, [NoJob EXCEPT !.op = "add", !.url = u])

\* A feed the user has is not added again.
CheckAdd(w) ==
  /\ job[w].op = "add" /\ job[w].pc = "start"
  /\ IF \E i \in Ids : url[i] = job[w].url THEN Return(w) ELSE Goto(w, "write")
  /\ UNCHANGED <<url, next, shown, merged, added, trouble>>

\* Mutant: a row that is refused is counted all the same.
InsertIgnored(w) ==
  /\ job[w].op = "add" /\ job[w].pc = "write"
  /\ IF \E i \in Ids : url[i] = job[w].url
     THEN UNCHANGED <<url, next, shown>>
     ELSE /\ url' = [url EXCEPT ![next] = job[w].url]
          /\ shown' = shown \cup {next}
          /\ next' = next + 1
  /\ Goto(w, "count")
  /\ UNCHANGED <<merged, added, trouble>>

\* UNIQUE(UserID, FeedURL) refuses the row of a request that came between.
InsertRow(w) ==
  /\ job[w].op = "add" /\ job[w].pc = "write"
  /\ IF \E i \in Ids : url[i] = job[w].url
     THEN Return(w) /\ UNCHANGED <<url, next, shown>>
     ELSE /\ url' = [url EXCEPT ![next] = job[w].url]
          /\ shown' = shown \cup {next}
          /\ next' = next + 1
          /\ Goto(w, "count")
  /\ UNCHANGED <<merged, added, trouble>>

CountAdded(w) ==
  /\ job[w].op = "add" /\ job[w].pc = "count"
  /\ added' = added + 1
  /\ Return(w)
  /\ UNCHANGED <<url, next, shown, merged, trouble>>

-----------------------------------------------------------------------------
(* Merging and unmerging                                                   *)

\* The page of a podcast offers the shown podcasts to be merged into it.
AskMerge(w, i, j) ==
  /\ Has("stale") \/ {i, j} \subseteq shown \cap Rows
  /\ i # j   \* refused by the handler
  /\ Take(w, [NoJob EXCEPT !.op = "merge", !.id = i, !.other = j])

\* Both must be the user's.
Verify(w) ==
  /\ job[w].op \in {"merge", "unmerge"} /\ job[w].pc = "start"
  /\ IF {job[w].id, job[w].other} \subseteq Rows
     THEN Goto(w, IF job[w].op = "merge" THEN "check" ELSE "read")
     ELSE Return(w)
  /\ UNCHANGED <<url, next, shown, merged, added, trouble>>

MergedOf(i) == IF i \in Rows THEN merged[i] ELSE {}

\* Mutant: "Prevent circular merges" is left out.
AnyMerge(w) == TRUE

\* "Prevent circular merges".
Mergeable(w) == MergedOf(job[w].other) = {}

CheckMerge(w) ==
  /\ job[w].op = "merge" /\ job[w].pc = "check"
  /\ IF Mergeable(w) THEN Goto(w, "lock") ELSE Return(w)
  /\ UNCHANGED <<url, next, shown, merged, added, trouble>>

\* The transaction first hides the podcast, which other requests see at its end.
LockMerge(w) ==
  /\ job[w].op = "merge" /\ job[w].pc = "lock"
  /\ ~Locked(w, job[w].other)
  /\ Goto(w, "read")
  /\ UNCHANGED <<url, next, shown, merged, added, trouble>>

\* The list of the primary is read on another connection.
ReadList(w) ==
  /\ job[w].op \in {"merge", "unmerge"} /\ job[w].pc = "read"
  /\ job' = [job EXCEPT ![w].pc = "write", ![w].list = MergedOf(job[w].id)]
  /\ UNCHANGED <<url, next, shown, merged, added, trouble>>

WriteMerge(w) ==
  /\ job[w].op = "merge" /\ job[w].pc = "write"
  /\ ~Locked(w, job[w].id)
  /\ merged' = IF job[w].id \in Rows
               THEN [merged EXCEPT ![job[w].id] = job[w].list \cup {job[w].other}] ELSE merged
  /\ shown' = shown \ {job[w].other}
  /\ Return(w)
  /\ UNCHANGED <<url, next, added, trouble>>

AskUnmerge(w, i, j) ==
  /\ Has("stale") \/ (i \in shown /\ j \in MergedOf(i))
  /\ Take(w, [NoJob EXCEPT !.op = "unmerge", !.id = i, !.other = j])

WriteUnmerge(w) ==
  /\ job[w].op = "unmerge" /\ job[w].pc = "write"
  /\ ~Locked(w, job[w].id) /\ ~Locked(w, job[w].other)
  /\ merged' = IF job[w].id \in Rows
               THEN [merged EXCEPT ![job[w].id] = job[w].list \ {job[w].other}] ELSE merged
  /\ shown' = shown \cup ({job[w].other} \cap Rows)
  /\ Return(w)
  /\ UNCHANGED <<url, next, added, trouble>>

\* Two merges that each wait for a row of the other: the database ends one.
Deadlocked(w) ==
  \E v \in Workers :
    /\ job[w].op = "merge" /\ job[w].pc = "write" /\ job[v].op = "merge" /\ job[v].pc = "write"
    /\ job[w].id = job[v].other /\ job[v].id = job[w].other

AbortMerge(w) ==
  /\ Deadlocked(w)
  /\ Return(w)
  /\ UNCHANGED <<url, next, shown, merged, added, trouble>>

-----------------------------------------------------------------------------
(* Removing                                                                *)

AskRemove(w, op, i) ==
  /\ Has("stale") \/ i \in shown \cap Rows
  /\ added > -MaxId   \* bound of the counter
  /\ Take(w, [NoJob EXCEPT !.op = op, !.id = i])

\* Removing by name and URL looks the row up first.
FindRow(w) ==
  /\ job[w].op = "remove" /\ job[w].pc = "start"
  /\ IF job[w].id \in Rows THEN Goto(w, "write") ELSE Return(w)
  /\ UNCHANGED <<url, next, shown, merged, added, trouble>>

WithoutRow(i) ==
  /\ url' = [url EXCEPT ![i] = NoUrl]
  /\ shown' = shown \ {i}
  /\ merged' = [merged EXCEPT ![i] = {}]

\* One transaction, which does not look whether it deletes a row.
RemoveRow(w) ==
  /\ job[w].op = "remove" /\ job[w].pc = "write"
  /\ ~Locked(w, job[w].id)
  /\ WithoutRow(job[w].id)
  /\ added' = added - 1
  /\ Return(w)
  /\ UNCHANGED <<next, trouble>>

DeleteRow(w) ==
  /\ job[w].op = "remove_id" /\ job[w].pc = "start"
  /\ ~Locked(w, job[w].id)
  /\ WithoutRow(job[w].id)
  /\ Goto(w, "count")
  /\ UNCHANGED <<next, added, trouble>>

CountRemoved(w) ==
  /\ job[w].op = "remove_id" /\ job[w].pc = "count"
  /\ added' = added - 1
  /\ Return(w)
  /\ UNCHANGED <<url, next, shown, merged, trouble>>

\* A statement fails or the server stops; a transaction leaves nothing behind.
FailJob(w) ==
  /\ Has("fail")
  /\ job[w] # NoJob
  /\ Return(w)
  /\ UNCHANGED <<url, next, shown, merged, added, trouble>>

LibraryNext ==
  \E w \in Workers :
    \/ \E u \in Urls : AskAdd(w, u)
    \/ \E i, j \in 1..next - 1 : AskMerge(w, i, j) \/ AskUnmerge(w, i, j)
    \/ \E i \in 1..next - 1, op \in {"remove", "remove_id"} : AskRemove(w, op, i)
    \/ CheckAdd(w) \/ InsertRow(w) \/ CountAdded(w)
    \/ Verify(w) \/ CheckMerge(w) \/ LockMerge(w) \/ ReadList(w)
    \/ WriteMerge(w) \/ WriteUnmerge(w) \/ AbortMerge(w)
    \/ FindRow(w) \/ RemoveRow(w) \/ DeleteRow(w) \/ CountRemoved(w)
    \/ FailJob(w)

LibrarySpec == LibraryInit /\ [][LibraryNext]_libraryVars

-----------------------------------------------------------------------------
(* Properties                                                              *)

\* A podcast the user finds: shown, or in the list of a shown one.
Within(i) == i \in shown \/ \E j \in shown \cap Rows : i \in merged[j]

\* What "Prevent circular merges" (database.rs:1791) is for, over every sequence of
\* merges, unmerges, additions and removals: no step takes a podcast the user keeps
\* out of reach, but the removal of the one it is merged into.
RemovalHides ==
  trouble = {} =>
    \A i \in Rows \cap Rows' :
      Within(i) => Within(i)' \/ \E j \in Rows \ Rows' : i \in merged[j]

HiddenByRemoval == [][RemovalHides]_libraryVars

\* "so a partial failure can't leave ... a wrong UserStats count"
\* (database.rs:1071-1072): when no request is in progress the counter is the
\* number of podcasts, also when requests to add the same feed overlap.
Counted ==
  trouble = {} /\ (\A w \in Workers : job[w] = NoJob) => added = Cardinality(Rows)
=============================================================================
