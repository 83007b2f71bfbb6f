----------------------------- MODULE FeedRefresh -----------------------------
(***************************************************************************)
(* How new episodes of one feed reach the podcast rows that subscribe to   *)
(* it (rust-api/src/handlers/refresh.rs and database.rs): the scheduled    *)
(* refresh, which fetches a shared feed once for all its rows and sends    *)
(* the validator (ETag, Last-Modified) it stored last time; the refresh a  *)
(* user asks for, which fetches in full for that user's row; and the fetch *)
(* that follows a new subscription.  Nothing keeps these jobs apart, and   *)
(* each is a sequence of HTTP requests and single SQL statements.          *)
(*                                                                         *)
(* Feeds are independent of each other, so one feed is modelled.  An       *)
(* entry stands for what the three-way match (GUID, URL, title) takes for  *)
(* the same episode; texts and artwork are left out.                       *)
(***************************************************************************)
EXTENDS Naturals, Sequences, FiniteSets

CONSTANTS
  Podcasts,    \* rows of Podcasts with this feed's URL, one per subscriber
  CutOff,      \* those of them with FeedCutoffDays > 0
  Entries,     \* the episodes the publisher may list
  None,        \* no podcast
  Jobs,        \* refreshes that run at the same time
  Kinds,       \* the kinds of job that start
  Unreliable,  \* TRUE: a fetch may fail, a body may not parse
  Fails,       \* TRUE: a statement may fail, or the server stop, at any point
  MaxVersions  \* bound: the versions of the feed

AllKinds == {"background", "user", "add"}

ASSUME NoneAssumption == None \notin Podcasts
ASSUME CutOffAssumption == CutOff \subseteq Podcasts
ASSUME KindsAssumption == Kinds \subseteq AllKinds
ASSUME SwitchesAssumption == Unreliable \in BOOLEAN /\ Fails \in BOOLEAN
ASSUME BoundAssumption == MaxVersions \in Nat

VARIABLES
  feed,       \* the versions the publisher has served, each the set of its entries
  old,        \* entries published before every cutoff date
  subscribed, \* the rows that exist
  validator,  \* FeedETag / FeedLastModified: a version, 0 for NULL
  backoff,    \* rows whose failure backoff has not elapsed
  episodes,   \* rows of Episodes: podcast -> entry -> how many
  handed,     \* how often an entry went to auto-download and auto-queue
  lost,       \* entries of a row whose own statement failed, or whose batch was
              \* aborted, when last tried: a record for the properties
  job         \* what each job is doing

library == <<episodes, handed, lost>>
vars == <<feed, old, subscribed, validator, backoff, episodes, handed, lost, job>>

(* sent: the validator of the request; got: the version that answered;     *)
(* fresh: the answer's validator; ids: the group; todo: its rows still to  *)
(* serve; at: the row being served; left and new: its entries still to     *)
(* insert, and inserted.                                                   *)
Request(kind, ids, sent) ==
  [kind |-> kind, pc |-> "fetch", ids |-> ids, todo |-> ids, at |-> None,
   sent |-> sent, got |-> 0, fresh |-> 0, left |-> {}, new |-> {}]

NoJob == [Request("none", {}, 0) EXCEPT !.pc = "idle"]

Steps == {"idle", "fetch", "apply", "insert", "store", "record", "hand", "failed"}

Version == Len(feed)

Job == [kind : AllKinds \cup {"none"}, pc : Steps,
        ids : SUBSET Podcasts, todo : SUBSET Podcasts, at : Podcasts \cup {None},
        sent : 0..Version, got : 0..Version, fresh : 0..Version,
        left : SUBSET Entries, new : SUBSET Entries]

JobOK(b) ==
  /\ b \in Job
  /\ b.todo \subseteq b.ids
  /\ b.kind = "user" => b.sent = 0
  /\ b.pc \in {"fetch", "apply"} => b.todo # {}
  /\ b.pc \in {"apply", "insert", "store"} => b.got > 0
  /\ b.pc \in {"insert", "hand"} \/ (b.kind = "user" /\ b.pc \in {"store", "record"})
       => b.at \in b.ids

TypeOK ==
  /\ feed \in Seq(SUBSET Entries) /\ Version > 0
  /\ old \subseteq Entries
  /\ subscribed \subseteq Podcasts
  /\ validator \in [Podcasts -> 0..Version]
  /\ backoff \subseteq Podcasts
  /\ episodes \in [Podcasts -> [Entries -> Nat]]
  /\ handed \in [Podcasts -> [Entries -> Nat]]
  /\ lost \in [Podcasts -> SUBSET Entries]
  /\ job \in [Jobs -> Job] /\ \A j \in Jobs : JobOK(job[j])

Init ==
  /\ feed \in {<<S>> : S \in SUBSET Entries}
  /\ old = {}
  /\ subscribed \in SUBSET Podcasts
  /\ validator = [p \in Podcasts |-> 0]
  /\ backoff = {}
  /\ episodes = [p \in Podcasts |-> [e \in Entries |-> 0]]
  /\ handed = [p \in Podcasts |-> [e \in Entries |-> 0]]
  /\ lost = [p \in Podcasts |-> {}]
  /\ job = [j \in Jobs |-> NoJob]

-----------------------------------------------------------------------------
Has(p, e) == episodes[p][e] > 0

Become(j, r) == job' = [job EXCEPT ![j] = r]

(* "Reuse any stored validator from the group": the first row that has     *)
(* one, in whatever order the SELECT returned them.                        *)
Validators(ids) ==
  LET stored == {validator[p] : p \in ids} \ {0}
  IN  IF stored = {} THEN {0} ELSE stored

(* The rows a scheduled refresh selects.                                   *)
Eligible == subscribed \ backoff

StartBackground(j) ==
  /\ "background" \in Kinds
  /\ job[j] = NoJob
  /\ Eligible # {}
  /\ \E v \in Validators(Eligible) : Become(j, Request("background", Eligible, v))
  /\ UNCHANGED <<feed, old, subscribed, validator, backoff, library>>

(* A user's refresh ignores the backoff and sends no validator.            *)
StartUser(j) ==
  /\ "user" \in Kinds
  /\ job[j] = NoJob
  /\ \E p \in subscribed : Become(j, Request("user", {p}, 0))
  /\ UNCHANGED <<feed, old, subscribed, validator, backoff, library>>

(* add_podcast: a new row, or one that has no episodes yet.                *)
StartAdd(j) ==
  /\ "add" \in Kinds
  /\ job[j] = NoJob
  /\ \E p \in Podcasts :
       /\ p \in subscribed => \A e \in Entries : ~Has(p, e)
       /\ subscribed' = subscribed \cup {p}
       /\ Become(j, Request("add", {p}, 0))
  /\ UNCHANGED <<feed, old, validator, backoff, library>>

-----------------------------------------------------------------------------
(* fetch_feed_conditional: 304 Not Modified.                               *)
NotModified(j) ==
  /\ job[j].pc = "fetch"
  /\ job[j].sent = Version
  /\ Become(j, [job[j] EXCEPT !.pc = "record", !.sent = 0, !.got = Version])
  /\ UNCHANGED <<feed, old, subscribed, validator, backoff, library>>

\* Mutant: the validators are stored before the episodes.
FetchedStores(j) ==
  /\ job[j].pc = "fetch"
  /\ \E v \in {0, Version} :
       /\ Become(j, [job[j] EXCEPT !.pc = "apply", !.sent = 0, !.got = Version, !.fresh = v])
       /\ validator' = [p \in Podcasts |-> IF p \in job[j].ids THEN v ELSE validator[p]]
  /\ UNCHANGED <<feed, old, subscribed, backoff, library>>

(* 200 with the body; without validators when the server sends none or     *)
(* try_fetch_feed had to be used.                                          *)
Fetched(j) ==
  /\ job[j].pc = "fetch"
  /\ \E v \in {0, Version} :
       Become(j, [job[j] EXCEPT !.pc = "apply", !.sent = 0, !.got = Version, !.fresh = v])
  /\ UNCHANGED <<feed, old, subscribed, validator, backoff, library>>

FetchFails(j) ==
  /\ Unreliable
  /\ job[j].pc = "fetch"
  /\ Become(j, IF job[j].kind = "add" THEN NoJob ELSE [job[j] EXCEPT !.pc = "failed"])
  /\ UNCHANGED <<feed, old, subscribed, validator, backoff, library>>

(* The body does not parse: a user's refresh returns and records nothing.  *)
ParseFails(j) ==
  /\ Unreliable
  /\ job[j].pc = "fetch"
  /\ Become(j, IF job[j].kind = "background" THEN [job[j] EXCEPT !.pc = "failed"] ELSE NoJob)
  /\ UNCHANGED <<feed, old, subscribed, validator, backoff, library>>

-----------------------------------------------------------------------------
(* apply_parsed_episodes, one row of the group after the other.            *)
Candidates(j, p) ==
  {e \in feed[job[j].got] : p \in CutOff /\ job[j].kind # "add" => e \notin old}

\* Mutant: existing episodes are not looked up.
ApplyBlindly(j) ==
  /\ job[j].pc = "apply"
  /\ \E p \in job[j].todo :
       Become(j, [job[j] EXCEPT !.pc = "insert", !.at = p, !.todo = @ \ {p},
                                !.left = Candidates(j, p), !.new = {}])
  /\ UNCHANGED <<feed, old, subscribed, validator, backoff, library>>

(* fetch_existing_episodes: which candidates are new to this row is        *)
(* decided once, before the loop that inserts them.                        *)
Apply(j) ==
  /\ job[j].pc = "apply"
  /\ \E p \in job[j].todo :
       Become(j, [job[j] EXCEPT !.pc = "insert", !.at = p, !.todo = @ \ {p},
                                !.left = {e \in Candidates(j, p) : ~Has(p, e)},
                                !.new = {}])
  /\ UNCHANGED <<feed, old, subscribed, validator, backoff, library>>

Insert(j) ==
  /\ job[j].pc = "insert"
  /\ \E e \in job[j].left :
       /\ episodes' = [episodes EXCEPT ![job[j].at][e] = @ + 1]
       /\ lost' = [lost EXCEPT ![job[j].at] = @ \ {e}]
       /\ Become(j, [job[j] EXCEPT !.left = @ \ {e}, !.new = @ \cup {e}])
  /\ UNCHANGED <<feed, old, subscribed, validator, backoff, handed>>

(* "a single bad episode logs and skips rather than aborting the entire    *)
(* batch"                                                                  *)
Skip(j) ==
  /\ Fails
  /\ job[j].pc = "insert"
  /\ \E e \in job[j].left :
       /\ lost' = [lost EXCEPT ![job[j].at] = @ \cup {e}]
       /\ Become(j, [job[j] EXCEPT !.left = @ \ {e}])
  /\ UNCHANGED <<feed, old, subscribed, validator, backoff, episodes, handed>>

\* Mutant: the loop does not end with the group.
NextRowAgain(j) ==
  [job[j] EXCEPT !.pc = "apply", !.at = None, !.left = {}, !.new = {}]

NextRow(j) ==
  [job[j] EXCEPT !.pc = IF job[j].todo = {} THEN "store" ELSE "apply",
                 !.at = None, !.left = {}, !.new = {}]

(* An UPDATE of an existing episode, or the recount, fails: what is left   *)
(* is not inserted, nothing is handed on; a group goes on with its next    *)
(* row.                                                                    *)
ApplyFails(j) ==
  /\ Fails
  /\ job[j].pc = "insert"
  /\ \/ /\ job[j].kind = "background"
        /\ lost' = [lost EXCEPT ![job[j].at] = @ \cup job[j].left]
        /\ Become(j, NextRow(j))
     \/ job[j].kind # "background" /\ Become(j, NoJob) /\ UNCHANGED lost
  /\ UNCHANGED <<feed, old, subscribed, validator, backoff, episodes, handed>>

HandOver(p, new) ==
  handed' = [handed EXCEPT ![p] = [e \in Entries |-> IF e \in new THEN @[e] + 1 ELSE @[e]]]

(* The scheduled refresh hands the new episodes of a row on at once        *)
(* (queue_auto_downloads, queue_auto_new_episodes); add_podcast never.     *)
Applied(j) ==
  /\ job[j].pc = "insert"
  /\ job[j].left = {}
  /\ \/ /\ job[j].kind = "background"
        /\ HandOver(job[j].at, job[j].new)
        /\ Become(j, NextRow(j))
     \/ job[j].kind = "user" /\ Become(j, [job[j] EXCEPT !.pc = "store"]) /\ UNCHANGED handed
     \/ job[j].kind = "add" /\ Become(j, NoJob) /\ UNCHANGED handed
  /\ UNCHANGED <<feed, old, subscribed, validator, backoff, episodes, lost>>

-----------------------------------------------------------------------------
\* Mutant: every row with this feed gets the validators, not only the group.
StoreForAll(j) ==
  /\ job[j].pc = "store"
  /\ \/ validator' = [p \in Podcasts |-> IF p \in subscribed THEN job[j].fresh ELSE validator[p]]
     \/ Fails /\ UNCHANGED validator
  /\ Become(j, [job[j] EXCEPT !.pc = "record"])
  /\ UNCHANGED <<feed, old, subscribed, backoff, library>>

(* store_feed_cache_validators; its error is ignored.                      *)
Store(j) ==
  /\ job[j].pc = "store"
  /\ \/ validator' = [p \in Podcasts |-> IF p \in job[j].ids THEN job[j].fresh ELSE validator[p]]
     \/ Fails /\ UNCHANGED validator
  /\ Become(j, [job[j] EXCEPT !.pc = "record"])
  /\ UNCHANGED <<feed, old, subscribed, backoff, library>>

\* Mutant: a user's refresh ends here.
RecordEnds(j) ==
  /\ job[j].pc = "record"
  /\ backoff' = backoff \ job[j].ids
  /\ Become(j, NoJob)
  /\ UNCHANGED <<feed, old, subscribed, validator, library>>

(* record_refresh_success; its error is ignored.                           *)
Record(j) ==
  /\ job[j].pc = "record"
  /\ \/ backoff' = backoff \ job[j].ids
     \/ Fails /\ UNCHANGED backoff
  /\ Become(j, IF job[j].kind = "user" THEN [job[j] EXCEPT !.pc = "hand"] ELSE NoJob)
  /\ UNCHANGED <<feed, old, subscribed, validator, library>>

(* A user's refresh hands its new episodes on last.                        *)
Hand(j) ==
  /\ job[j].pc = "hand"
  /\ HandOver(job[j].at, job[j].new)
  /\ Become(j, NoJob)
  /\ UNCHANGED <<feed, old, subscribed, validator, backoff, episodes, lost>>

(* record_refresh_failure                                                  *)
RecordFailure(j) ==
  /\ job[j].pc = "failed"
  /\ \/ backoff' = backoff \cup job[j].ids
     \/ Fails /\ UNCHANGED backoff
  /\ Become(j, NoJob)
  /\ UNCHANGED <<feed, old, subscribed, validator, library>>

(* The server stops and starts again.                                      *)
Crash ==
  /\ Fails
  /\ job # [j \in Jobs |-> NoJob]
  /\ job' = [j \in Jobs |-> NoJob]
  /\ UNCHANGED <<feed, old, subscribed, validator, backoff, library>>

-----------------------------------------------------------------------------
(* The publisher changes the feed.                                         *)
Publish ==
  /\ Version < MaxVersions
  /\ \E S \in SUBSET Entries : S # feed[Version] /\ feed' = Append(feed, S)
  /\ UNCHANGED <<old, subscribed, validator, backoff, library, job>>

(* Time passes: an entry falls behind the cutoff dates ...                 *)
Age(e) ==
  /\ CutOff # {}
  /\ e \notin old
  /\ old' = old \cup {e}
  /\ UNCHANGED <<feed, subscribed, validator, backoff, library, job>>

\* Mutant: a feed that failed is never tried again.
BackoffStays(p) ==
  /\ p \in backoff
  /\ UNCHANGED vars

(* ... and a backoff elapses: it is at most 30 minutes times 48.           *)
BackoffOver(p) ==
  /\ p \in backoff
  /\ backoff' = backoff \ {p}
  /\ UNCHANGED <<feed, old, subscribed, validator, library, job>>

Answer(j) == NotModified(j) \/ Fetched(j)

Work(j) ==
  \/ Apply(j) \/ Insert(j) \/ Skip(j) \/ ApplyFails(j) \/ Applied(j)
  \/ Store(j) \/ Record(j) \/ Hand(j) \/ RecordFailure(j)

Next ==
  \/ \E j \in Jobs :
       \/ StartBackground(j) \/ StartUser(j) \/ StartAdd(j)
       \/ Answer(j) \/ FetchFails(j) \/ ParseFails(j)
       \/ Work(j)
  \/ Crash
  \/ Publish
  \/ \E e \in Entries : Age(e)
  \/ \E p \in Podcasts : BackoffOver(p)

Spec == Init /\ [][Next]_vars

(* The cron job comes round again and again, finds a job slot free again   *)
(* and again, and its publisher answers again and again; the runtime polls *)
(* every job; time passes.                                                 *)
Fairness ==
  /\ \A j \in Jobs : WF_vars(Work(j)) /\ SF_vars(Answer(j))
  /\ SF_vars(\E j \in Jobs : StartBackground(j))
  /\ \A p \in Podcasts : WF_vars(BackoffOver(p))

FairSpec == Spec /\ Fairness
-----------------------------------------------------------------------------
(* Properties                                                              *)

(* What a row must hold once it has been served from version v.            *)
Due(p, v) == {e \in feed[v] : p \in CutOff => e \notin old}

(* The row holds an entry, or the statement that was to insert it failed.  *)
Settled(p, e) == Has(p, e) \/ e \in lost[p]

(* A stored validator tells the truth: of the version it names the row     *)
(* lacks no entry but those whose own statement failed, so a 304 for it    *)
(* hides nothing else - however refreshes of the same row and its          *)
(* subscribers interleave, fail and are cut off by a restart.              *)
ValidatorsHonest ==
  \A p \in Podcasts : validator[p] > 0 => \A e \in Due(p, validator[p]) : Settled(p, e)

(* "then applied to every subscriber's podcast row": when a refresh        *)
(* records its success, each row of its group holds every entry of the     *)
(* version the publisher answered for.                                     *)
Succeeds(j) == job[j].pc = "record" /\ job'[j].pc # "record" /\ backoff' = backoff \ job[j].ids

ServesGroup ==
  [][\A j \in Jobs : Succeeds(j) =>
       \A p \in job[j].ids : \A e \in Due(p, job[j].got) : Settled(p, e)]_vars

(* "dedup against existing rows" (database.rs:7122): rows of one entry are *)
(* added by jobs that looked before the first of them was there, one by    *)
(* each at most.  Nothing that fails, restarts or runs later *)
(* adds another, and one job by itself never adds a second.                *)
Pending(p, e) == {j \in Jobs : job[j].pc = "insert" /\ job[j].at = p /\ e \in job[j].left}

RowsPerJob ==
  \A p \in Podcasts, e \in Entries :
    Has(p, e) => episodes[p][e] + Cardinality(Pending(p, e)) <= Cardinality(Jobs)

(* An entry that stays in the feed reaches a subscriber, through failed    *)
(* fetches, backoff and answers of 304.                                    *)
Delivered ==
  \A p \in Podcasts, e \in Entries :
    <>[](p \in subscribed /\ e \in Due(p, Version)) => <>Has(p, e)

(* What a refresh inserts it hands on: no episode is left out because a    *)
(* later step of the same refresh ran first.                               *)
HandedOver ==
  \A j \in Jobs, p \in Podcasts, e \in Entries :
    (job[j].at = p /\ e \in job[j].new /\ job[j].kind # "add") ~> handed[p][e] > 0
=============================================================================
