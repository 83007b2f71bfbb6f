-------------------------- MODULE FeedRefresh_proofs --------------------------
(***************************************************************************)
(* Proofs about FeedRefresh for every number of subscribers, entries and   *)
(* jobs, and every kind of job: types, that stored validators are honest   *)
(* whatever fails, that a sole subscriber is served, and how many rows an  *)
(* entry can get.                                                          *)
(***************************************************************************)
EXTENDS FeedRefresh, FiniteSetTheorems, TLAPS

(* The version of an answer and its validator exist.                       *)
Answered(b) == b.got \in 1..Version /\ b.fresh \in {0, b.got}

(* Row p holds all it must hold of version v, or the statement failed.     *)
Served(p, v) == \A e \in Due(p, v) : Settled(p, e)

-----------------------------------------------------------------------------
(* The feed only gets versions, the cutoff only moves on and episodes are  *)
(* only inserted: what was served stays served.                            *)
Grows ==
  /\ Version <= Version'
  /\ \A v \in 1..Version : feed'[v] = feed[v]
  /\ old \subseteq old'
  /\ \A p \in Podcasts, e \in Entries : Settled(p, e) => Settled(p, e)'

LEMMA GrowsStep == TypeOK /\ [Next]_vars => Grows
<1> SUFFICES ASSUME TypeOK, [Next]_vars PROVE Grows
  OBVIOUS
<1> USE DEF TypeOK, Grows, Settled, Has, Version, vars, library
<1>1. CASE UNCHANGED <<feed, old, episodes, lost>>
  BY <1>1
<1>2. CASE Publish
  <2>1. PICK S \in SUBSET Entries : feed' = Append(feed, S)
    BY <1>2 DEF Publish
  <2>2. Len(feed') = Len(feed) + 1 /\ \A v \in 1..Len(feed) : feed'[v] = feed[v]
    BY <2>1
  <2>3. UNCHANGED <<old, episodes, lost>>
    BY <1>2 DEF Publish
  <2> QED
    BY <2>2, <2>3
<1>3. ASSUME NEW e \in Entries, Age(e) PROVE Grows
  BY <1>3 DEF Age
<1>4. ASSUME NEW j \in Jobs, Insert(j) PROVE Grows
  <2>1. UNCHANGED <<feed, old>>
    BY <1>4 DEF Insert
  <2>2. PICK e \in job[j].left :
          /\ episodes' = [episodes EXCEPT ![job[j].at][e] = @ + 1]
          /\ lost' = [lost EXCEPT ![job[j].at] = @ \ {e}]
    BY <1>4 DEF Insert
  <2>3. \A p \in Podcasts, f \in Entries : episodes[p][f] \in Nat
    OBVIOUS
  <2>4. \A p \in Podcasts, f \in Entries : episodes[p][f] > 0 => episodes'[p][f] > 0
    BY <2>2, <2>3
  <2>5. \A p \in Podcasts, f \in Entries :
          f \in lost[p] => f \in lost'[p] \/ episodes'[p][f] > 0
    BY <2>2, <2>3
  <2> QED
    BY <2>1, <2>4, <2>5
<1>5. ASSUME NEW j \in Jobs, Skip(j) \/ ApplyFails(j) PROVE Grows
  <2>1. UNCHANGED <<feed, old, episodes>>
    BY <1>5 DEF Skip, ApplyFails
  <2>2. \A p \in Podcasts : lost[p] \subseteq lost'[p]
    BY <1>5 DEF Skip, ApplyFails
  <2> QED
    BY <2>1, <2>2
<1>8. ASSUME NEW j \in Jobs,
             StartBackground(j) \/ StartUser(j) \/ StartAdd(j) \/ NotModified(j) \/ Fetched(j)
               \/ FetchFails(j) \/ ParseFails(j) \/ Apply(j)
               \/ Applied(j) \/ Store(j) \/ Record(j) \/ Hand(j) \/ RecordFailure(j)
      PROVE  UNCHANGED <<feed, old, episodes, lost>>
  BY <1>8 DEF StartBackground, StartUser, StartAdd, NotModified, Fetched, FetchFails, ParseFails,
     Apply, Applied, Store, Record, Hand, RecordFailure
<1>6. CASE Crash
  BY <1>6, <1>1 DEF Crash
<1>7. ASSUME NEW p \in Podcasts, BackoffOver(p) PROVE Grows
  BY <1>7, <1>1 DEF BackoffOver
<1> QED
  BY <1>1, <1>2, <1>3, <1>4, <1>5, <1>6, <1>7, <1>8 DEF Next, Answer, Work

LEMMA ServedStays ==
  ASSUME TypeOK, Grows, NEW p \in Podcasts, NEW v \in 1..Version, Served(p, v)
  PROVE  Served(p, v)'
<1>1. \A e : e \in Due(p, v)' => e \in Due(p, v)
  BY DEF Due, Grows
<1>2. Due(p, v) \subseteq Entries
  BY DEF Due, TypeOK, Version
<1> QED
  BY <1>1, <1>2 DEF Served, Grows

-----------------------------------------------------------------------------
(* Types.                                                                  *)

(* The part of TypeOK that is not about one job.                           *)
TablesOK ==
  /\ feed \in Seq(SUBSET Entries) /\ Version > 0
  /\ old \subseteq Entries
  /\ subscribed \subseteq Podcasts
  /\ validator \in [Podcasts -> 0..Version]
  /\ backoff \subseteq Podcasts
  /\ episodes \in [Podcasts -> [Entries -> Nat]]
  /\ handed \in [Podcasts -> [Entries -> Nat]]
  /\ lost \in [Podcasts -> SUBSET Entries]

LEMMA TypeParts ==
  TypeOK <=> TablesOK /\ DOMAIN job = Jobs /\ job = [j \in Jobs |-> job[j]] /\ \A j \in Jobs : JobOK(job[j])
<1> USE DEF TypeOK, TablesOK, JobOK
<1>1. TypeOK => DOMAIN job = Jobs /\ job = [j \in Jobs |-> job[j]]
  OBVIOUS
<1>2. TypeOK => TablesOK /\ \A j \in Jobs : JobOK(job[j])
  OBVIOUS
<1>3. ASSUME TablesOK, job = [j \in Jobs |-> job[j]], \A j \in Jobs : JobOK(job[j])
      PROVE  TypeOK
  BY <1>3
<1> QED
  BY <1>1, <1>2, <1>3

LEMMA OneBecomes ==
  ASSUME TypeOK, Grows, TablesOK', NEW j \in Jobs,
         job' = [job EXCEPT ![j] = job'[j]], JobOK(job[j])'
  PROVE  TypeOK'
<1>1. \A i \in Jobs : JobOK(job[i])
  BY TypeParts
<1>2. DOMAIN job = Jobs
  BY TypeParts
<1>3. ASSUME NEW i \in Jobs, i # j PROVE JobOK(job[i])'
  <2>1. job'[i] = job[i] /\ JobOK(job[i])
    BY <1>1, <1>2, <1>3
  <2>2. Version \in Nat /\ Version' \in Nat /\ Version <= Version'
    BY DEF TypeOK, TablesOK, Grows, Version
  <2>3. 0..Version \subseteq 0..Version'
    BY <2>2
  <2>4. job[i] \in Job'
    BY <2>1, <2>3 DEF JobOK, Job
  <2> QED
    BY <2>1, <2>4 DEF JobOK
<1>4. \A i \in Jobs : JobOK(job[i])'
  BY <1>3
<1>5. DOMAIN job' = Jobs /\ job' = [i \in Jobs |-> job'[i]]
  BY <1>2
<1>6. job' \in [Jobs -> Job']
  BY <1>4, <1>5 DEF JobOK
<1> QED
  BY <1>4, <1>6 DEF TypeOK, TablesOK, JobOK

(* The steps of one job keep the types: one step per action.               *)
LEMMA JobTypeStep ==
  ASSUME TypeOK, Grows, NEW j \in Jobs
  PROVE  /\ StartBackground(j) \/ StartUser(j) \/ StartAdd(j) => TypeOK'
         /\ Answer(j) \/ FetchFails(j) \/ ParseFails(j) => TypeOK'
         /\ Work(j) => TypeOK'
<1> DEFINE b == job[j]
<1>0. /\ JobOK(b)
      /\ DOMAIN job = Jobs
      /\ Version \in Nat \ {0}
      /\ feed \in Seq(SUBSET Entries)
  BY TypeParts DEF TypeOK, Version
<1>n. NoJob.pc = "idle" /\ JobOK(NoJob)
  BY <1>0 DEF NoJob, Request, JobOK, Job, Steps, AllKinds
<1>t. ASSUME UNCHANGED <<feed, old, subscribed, validator, backoff, episodes, handed, lost>>
      PROVE  TablesOK'
  BY <1>t, TypeParts DEF TablesOK, Version
<1>q. ASSUME NEW kind \in AllKinds, NEW ids \in SUBSET Podcasts, NEW v \in 0..Version,
             ids # {}, kind = "user" => v = 0
      PROVE  JobOK(Request(kind, ids, v))
  BY <1>0, <1>q DEF Request, JobOK, Job, Steps
<1>1. ASSUME StartBackground(j) PROVE TypeOK'
  <2>1. PICK v \in Validators(Eligible) : Become(j, Request("background", Eligible, v))
    BY <1>1 DEF StartBackground
  <2>2. Eligible \subseteq Podcasts /\ Eligible # {}
    BY <1>1 DEF StartBackground, Eligible, TypeOK
  <2>3. v \in 0..Version
    <3>1. \A p \in Eligible : validator[p] \in 0..Version
      BY <2>2 DEF TypeOK
    <3>2. v = 0 \/ \E p \in Eligible : v = validator[p]
      BY DEF Validators
    <3> QED
      BY <3>1, <3>2, <1>0
  <2>4. job'[j] = Request("background", Eligible, v)
    BY <2>1, <1>0 DEF Become
  <2>5. JobOK(job'[j])
    BY <2>2, <2>3, <2>4, <1>q DEF AllKinds
  <2>6. UNCHANGED <<feed, old, subscribed, validator, backoff, episodes, handed, lost>>
    BY <1>1 DEF StartBackground, library
  <2> QED
    BY <2>1, <2>4, <2>5, <2>6, <1>t, OneBecomes DEF Become, JobOK, Job, Version
<1>2. ASSUME StartUser(j) PROVE TypeOK'
  <2>1. PICK p \in subscribed : Become(j, Request("user", {p}, 0))
    BY <1>2 DEF StartUser
  <2>2. p \in Podcasts
    BY DEF TypeOK
  <2>4. job'[j] = Request("user", {p}, 0)
    BY <2>1, <1>0 DEF Become
  <2>5. JobOK(job'[j])
    <3>1. {p} \in SUBSET Podcasts /\ {p} # {} /\ "user" \in AllKinds /\ 0 \in 0..Version
      BY <2>2, <1>0 DEF AllKinds
    <3> QED
      BY <2>4, <3>1, <1>q
  <2>6. UNCHANGED <<feed, old, subscribed, validator, backoff, episodes, handed, lost>>
    BY <1>2 DEF StartUser, library
  <2> QED
    BY <2>1, <2>4, <2>5, <2>6, <1>t, OneBecomes DEF Become, JobOK, Job, Version
<1>3. ASSUME StartAdd(j) PROVE TypeOK'
  <2>1. PICK p \in Podcasts : /\ subscribed' = subscribed \cup {p}
                             /\ Become(j, Request("add", {p}, 0))
    BY <1>3 DEF StartAdd
  <2>4. job'[j] = Request("add", {p}, 0)
    BY <2>1, <1>0 DEF Become
  <2>5. JobOK(job'[j])
    <3>1. {p} \in SUBSET Podcasts /\ {p} # {} /\ "add" \in AllKinds /\ 0 \in 0..Version
      BY <1>0 DEF AllKinds
    <3> QED
      BY <2>4, <3>1, <1>q
  <2>6. UNCHANGED <<feed, old, validator, backoff, episodes, handed, lost>>
    BY <1>3 DEF StartAdd, library
  <2>7. TablesOK'
    BY <2>1, <2>6, TypeParts DEF TablesOK, Version
  <2> QED
    BY <2>1, <2>4, <2>5, <2>6, <2>7, OneBecomes DEF Become, JobOK, Job, Version
<1>4. ASSUME NotModified(j) PROVE TypeOK'
  <2>1. job'[j] = [kind |-> b.kind, pc |-> "record", ids |-> b.ids, todo |-> b.todo, at |-> b.at,
                   sent |-> 0, got |-> Version, fresh |-> b.fresh, left |-> b.left, new |-> b.new]
    BY <1>4, <1>0 DEF NotModified, Become, JobOK, Job
  <2>2. JobOK(job'[j])
    BY <2>1, <1>4, <1>0 DEF NotModified, JobOK, Job, Steps
  <2>3. UNCHANGED <<feed, old, subscribed, validator, backoff, episodes, handed, lost>>
    BY <1>4 DEF NotModified, library
  <2>4. job' = [job EXCEPT ![j] = job'[j]]
    BY <1>4, <1>0 DEF NotModified, Become
  <2> QED
    BY <2>2, <2>3, <2>4, <1>t, OneBecomes DEF JobOK, Job, Version
<1>5. ASSUME Fetched(j) PROVE TypeOK'
  <2>1. PICK v \in {0, Version} :
          Become(j, [b EXCEPT !.pc = "apply", !.sent = 0, !.got = Version, !.fresh = v])
    BY <1>5 DEF Fetched
  <2>2. job'[j] = [kind |-> b.kind, pc |-> "apply", ids |-> b.ids, todo |-> b.todo, at |-> b.at,
                   sent |-> 0, got |-> Version, fresh |-> v, left |-> b.left, new |-> b.new]
    BY <2>1, <1>0 DEF Become, JobOK, Job
  <2>3. v \in 0..Version /\ b.pc = "fetch"
    BY <1>5, <1>0 DEF Fetched
  <2>4. JobOK(job'[j])
    BY <2>2, <2>3, <1>0 DEF JobOK, Job, Steps
  <2>5. UNCHANGED <<feed, old, subscribed, validator, backoff, episodes, handed, lost>>
    BY <1>5 DEF Fetched, library
  <2>6. job' = [job EXCEPT ![j] = job'[j]]
    BY <2>1, <1>0 DEF Become
  <2> QED
    BY <2>4, <2>5, <2>6, <1>t, OneBecomes DEF JobOK, Job, Version
<1>6. ASSUME FetchFails(j) PROVE TypeOK'
  <2>1. JobOK(job'[j])
    BY <1>6, <1>0, <1>n DEF FetchFails, Become, JobOK, Job, Steps, AllKinds, Version
  <2>2. UNCHANGED <<feed, old, subscribed, validator, backoff, episodes, handed, lost>>
    BY <1>6 DEF FetchFails, library
  <2>3. job' = [job EXCEPT ![j] = job'[j]]
    BY <1>6, <1>0 DEF FetchFails, Become
  <2> QED
    BY <2>1, <2>2, <2>3, <1>t, OneBecomes DEF JobOK, Job, Version
<1>7. ASSUME ParseFails(j) PROVE TypeOK'
  <2>1. JobOK(job'[j])
    BY <1>7, <1>0, <1>n DEF ParseFails, Become, JobOK, Job, Steps, AllKinds, Version
  <2>2. UNCHANGED <<feed, old, subscribed, validator, backoff, episodes, handed, lost>>
    BY <1>7 DEF ParseFails, library
  <2>3. job' = [job EXCEPT ![j] = job'[j]]
    BY <1>7, <1>0 DEF ParseFails, Become
  <2> QED
    BY <2>1, <2>2, <2>3, <1>t, OneBecomes DEF JobOK, Job, Version
<1>8. ASSUME Apply(j) PROVE TypeOK'
  <2>1. PICK p \in b.todo :
          Become(j, [b EXCEPT !.pc = "insert", !.at = p, !.todo = @ \ {p},
                              !.left = {e \in Candidates(j, p) : ~Has(p, e)}, !.new = {}])
    BY <1>8 DEF Apply
  <2> DEFINE left == {e \in Candidates(j, p) : ~Has(p, e)}
  <2>2. job'[j] = [kind |-> b.kind, pc |-> "insert", ids |-> b.ids, todo |-> b.todo \ {p}, at |-> p,
                   sent |-> b.sent, got |-> b.got, fresh |-> b.fresh, left |-> left, new |-> {}]
    BY <2>1, <1>0 DEF Become, JobOK, Job
  <2>3. left \subseteq Entries
    <3>1. Candidates(j, p) \subseteq feed[b.got]
      BY DEF Candidates
    <3>2. b.got \in 1..Version
      BY <1>8, <1>0 DEF Apply, JobOK, Job
    <3> QED
      BY <3>1, <3>2, <1>0 DEF Version
  <2> HIDE DEF left
  <2>4. JobOK(job'[j])
    <3>1. p \in b.ids /\ b.pc = "apply"
      BY <1>8, <1>0 DEF Apply, JobOK
    <3> QED
      BY <2>2, <2>3, <3>1, <1>0 DEF JobOK, Job, Steps
  <2>5. UNCHANGED <<feed, old, subscribed, validator, backoff, episodes, handed, lost>>
    BY <1>8 DEF Apply, library
  <2>6. job' = [job EXCEPT ![j] = job'[j]]
    BY <2>1, <1>0 DEF Become
  <2> QED
    BY <2>4, <2>5, <2>6, <1>t, OneBecomes DEF JobOK, Job, Version
<1>9. ASSUME Insert(j) PROVE TypeOK'
  <2>1. PICK e \in b.left :
          /\ episodes' = [episodes EXCEPT ![b.at][e] = @ + 1]
          /\ lost' = [lost EXCEPT ![b.at] = @ \ {e}]
          /\ Become(j, [b EXCEPT !.left = @ \ {e}, !.new = @ \cup {e}])
    BY <1>9 DEF Insert
  <2>2. e \in Entries /\ b.at \in Podcasts
    BY <1>9, <1>0 DEF Insert, JobOK, Job
  <2>3. job'[j] = [kind |-> b.kind, pc |-> b.pc, ids |-> b.ids, todo |-> b.todo, at |-> b.at,
                   sent |-> b.sent, got |-> b.got, fresh |-> b.fresh,
                   left |-> b.left \ {e}, new |-> b.new \cup {e}]
    BY <2>1, <1>0 DEF Become, JobOK, Job
  <2>4. JobOK(job'[j])
    BY <2>2, <2>3, <1>0 DEF JobOK, Job, Steps
  <2>5. episodes' \in [Podcasts -> [Entries -> Nat]] /\ lost' \in [Podcasts -> SUBSET Entries]
    BY <2>1, <2>2 DEF TypeOK
  <2>6. UNCHANGED <<feed, old, subscribed, validator, backoff, handed>>
    BY <1>9 DEF Insert
  <2>7. TablesOK'
    BY <2>5, <2>6, TypeParts DEF TablesOK, Version
  <2>8. job' = [job EXCEPT ![j] = job'[j]]
    BY <2>1, <1>0 DEF Become
  <2> QED
    BY <2>4, <2>6, <2>7, <2>8, OneBecomes DEF JobOK, Job, Version
<1>10. ASSUME Skip(j) PROVE TypeOK'
  <2>1. PICK e \in b.left : /\ lost' = [lost EXCEPT ![b.at] = @ \cup {e}]
                           /\ Become(j, [b EXCEPT !.left = @ \ {e}])
    BY <1>10 DEF Skip
  <2>2. job'[j] = [b EXCEPT !.left = b.left \ {e}]
    BY <2>1, <1>0 DEF Become, JobOK, Job
  <2>3. b.left \ {e} \subseteq Entries /\ e \in Entries
    BY <1>0 DEF JobOK, Job
  <2>4. JobOK(job'[j])
    BY <2>2, <2>3, <1>0 DEF JobOK, Job, Steps
  <2>5. UNCHANGED <<feed, old, subscribed, validator, backoff, episodes, handed>>
    BY <1>10 DEF Skip
  <2>6. job' = [job EXCEPT ![j] = job'[j]]
    BY <2>1, <1>0 DEF Become
  <2>7. lost' \in [Podcasts -> SUBSET Entries]
    BY <2>1, <2>3 DEF TypeOK
  <2>8. TablesOK'
    BY <2>5, <2>7, TypeParts DEF TablesOK, Version
  <2> QED
    BY <2>4, <2>5, <2>6, <2>8, OneBecomes DEF JobOK, Job, Version
<1>11. ASSUME ApplyFails(j) PROVE TypeOK'
  <2>1. b.kind = "background" => JobOK(NextRow(j))
    BY <1>11, <1>0 DEF ApplyFails, NextRow, JobOK, Job, Steps
  <2>2. (b.kind = "background" /\ Become(j, NextRow(j))) \/ Become(j, NoJob)
    BY <1>11 DEF ApplyFails
  <2>3. job' = [job EXCEPT ![j] = job'[j]] /\ JobOK(job'[j])
    BY <2>1, <2>2, <1>0, <1>n DEF Become
  <2>4. UNCHANGED <<feed, old, subscribed, validator, backoff, episodes, handed>>
    BY <1>11 DEF ApplyFails
  <2>5. lost' \in [Podcasts -> SUBSET Entries]
    <3>1. lost \in [Podcasts -> SUBSET Entries] /\ b.left \subseteq Entries
      BY <1>0 DEF TypeOK, JobOK, Job
    <3>2. UNCHANGED lost \/ lost' = [lost EXCEPT ![b.at] = @ \cup b.left]
      BY <1>11 DEF ApplyFails
    <3> QED
      BY <3>1, <3>2
  <2>6. TablesOK'
    BY <2>4, <2>5, TypeParts DEF TablesOK, Version
  <2> QED
    BY <2>3, <2>4, <2>6, OneBecomes DEF JobOK, Job, Version
<1>h. ASSUME NEW p \in Podcasts, NEW S, HandOver(p, S)
      PROVE  handed' \in [Podcasts -> [Entries -> Nat]]
  <2>1. handed[p] \in [Entries -> Nat] /\ handed \in [Podcasts -> [Entries -> Nat]]
    BY DEF TypeOK
  <2>2. [e \in Entries |-> IF e \in S THEN handed[p][e] + 1 ELSE handed[p][e]] \in [Entries -> Nat]
    BY <2>1
  <2> QED
    BY <2>1, <2>2, <1>h DEF HandOver
<1>12. ASSUME Applied(j) PROVE TypeOK'
  <2>1. b.pc = "insert" /\ b.at \in Podcasts /\ UNCHANGED <<feed, old, subscribed, validator, backoff, episodes, lost>>
    BY <1>12, <1>0 DEF Applied, JobOK, Job
  <2>2. /\ job' = [job EXCEPT ![j] = job'[j]]
        /\ handed' \in [Podcasts -> [Entries -> Nat]]
        /\ JobOK(job'[j])
    <3>0. b.kind \in {"background", "user", "add"}
      BY <1>12 DEF Applied
    <3>1. CASE b.kind = "background"
      <4>1. Become(j, NextRow(j)) /\ HandOver(b.at, b.new)
        BY <1>12, <3>1 DEF Applied
      <4>2. JobOK(NextRow(j))
        BY <1>0, <2>1, <3>1 DEF NextRow, JobOK, Job, Steps
      <4> QED
        BY <4>1, <4>2, <2>1, <1>h, <1>0 DEF Become
    <3>2. CASE b.kind = "user"
      <4>1. Become(j, [b EXCEPT !.pc = "store"]) /\ UNCHANGED handed
        BY <1>12, <3>2 DEF Applied
      <4>2. JobOK([b EXCEPT !.pc = "store"])
        BY <1>0, <2>1, <3>2 DEF JobOK, Job, Steps
      <4> QED
        BY <4>1, <4>2, <1>0 DEF Become, TypeOK
    <3>3. CASE b.kind = "add"
      <4>1. Become(j, NoJob) /\ UNCHANGED handed
        BY <1>12, <3>3 DEF Applied
      <4> QED
        BY <4>1, <1>0, <1>n DEF Become, TypeOK
    <3> QED
      BY <3>0, <3>1, <3>2, <3>3
  <2>3. TablesOK'
    BY <2>1, <2>2, TypeParts DEF TablesOK, Version
  <2> QED
    BY <2>1, <2>2, <2>3, OneBecomes DEF JobOK, Job, Version
<1>13. ASSUME Store(j) PROVE TypeOK'
  <2>1. JobOK(job'[j])
    BY <1>13, <1>0, <1>n DEF Store, Become, JobOK, Job, Steps, AllKinds, Version
  <2>2. feed' = feed /\ TablesOK'
    BY <1>13, <1>0, TypeParts DEF Store, TablesOK, Version, library, Job, JobOK
  <2>3. job' = [job EXCEPT ![j] = job'[j]]
    BY <1>13, <1>0 DEF Store, Become
  <2> QED
    BY <2>1, <2>2, <2>3, <1>t, OneBecomes DEF JobOK, Job, Version
<1>14. ASSUME Record(j) PROVE TypeOK'
  <2>1. JobOK(job'[j])
    BY <1>14, <1>0, <1>n DEF Record, Become, JobOK, Job, Steps, AllKinds, Version
  <2>2. feed' = feed /\ TablesOK'
    BY <1>14, <1>0, TypeParts DEF Record, TablesOK, Version, library, Job, JobOK
  <2>3. job' = [job EXCEPT ![j] = job'[j]]
    BY <1>14, <1>0 DEF Record, Become
  <2> QED
    BY <2>1, <2>2, <2>3, <1>t, OneBecomes DEF JobOK, Job, Version
<1>15. ASSUME Hand(j) PROVE TypeOK'
  <2>1. /\ HandOver(b.at, b.new)
        /\ Become(j, NoJob)
        /\ b.at \in Podcasts
        /\ UNCHANGED <<feed, old, subscribed, validator, backoff, episodes, lost>>
    BY <1>15, <1>0 DEF Hand, JobOK, Job
  <2>2. handed' \in [Podcasts -> [Entries -> Nat]]
    BY <2>1, <1>h
  <2>3. TablesOK'
    BY <2>1, <2>2, TypeParts DEF TablesOK, Version
  <2>4. job' = [job EXCEPT ![j] = job'[j]] /\ JobOK(job'[j])
    BY <2>1, <1>0, <1>n DEF Become
  <2> QED
    BY <2>1, <2>3, <2>4, OneBecomes DEF JobOK, Job, Version
<1>16. ASSUME RecordFailure(j) PROVE TypeOK'
  <2>1. JobOK(job'[j])
    BY <1>16, <1>0, <1>n DEF RecordFailure, Become, JobOK, Job, Steps, AllKinds, Version
  <2>2. feed' = feed /\ TablesOK'
    BY <1>16, <1>0, TypeParts DEF RecordFailure, TablesOK, Version, library, Job, JobOK
  <2>3. job' = [job EXCEPT ![j] = job'[j]]
    BY <1>16, <1>0 DEF RecordFailure, Become
  <2> QED
    BY <2>1, <2>2, <2>3, <1>t, OneBecomes DEF JobOK, Job, Version
<1> QED
  BY <1>1, <1>2, <1>3, <1>4, <1>5, <1>6, <1>7, <1>8, <1>9, <1>10, <1>11, <1>12, <1>13, <1>14,
     <1>15, <1>16 DEF Answer, Work

LEMMA TypeStep == TypeOK /\ [Next]_vars => TypeOK'
<1> SUFFICES ASSUME TypeOK, [Next]_vars PROVE TypeOK'
  OBVIOUS
<1>0. Grows /\ TablesOK /\ Version \in Nat /\ \A j \in Jobs : JobOK(job[j])
  BY GrowsStep, TypeParts DEF TypeOK, Version
<1>1. CASE UNCHANGED vars
  BY <1>1 DEF vars, library, TypeOK, JobOK, Job, Version
<1>2. ASSUME NEW j \in Jobs,
             \/ StartBackground(j) \/ StartUser(j) \/ StartAdd(j)
             \/ Answer(j) \/ FetchFails(j) \/ ParseFails(j)
             \/ Work(j)
      PROVE  TypeOK'
  BY <1>0, <1>2, JobTypeStep
<1>3. CASE Crash
  <2>1. JobOK(NoJob)
    BY <1>0 DEF NoJob, Request, JobOK, Job, Steps
  <2>2. \A j \in Jobs : job'[j] = NoJob
    BY <1>3 DEF Crash
  <2>3. job' \in [Jobs -> Job]
    BY <1>3, <2>1 DEF Crash, JobOK
  <2> QED
    BY <1>3, <2>1, <2>2, <2>3 DEF Crash, library, TypeOK, JobOK, Job, Version
<1>4. CASE Publish
  <2>1. PICK S \in SUBSET Entries : feed' = Append(feed, S)
    BY <1>4 DEF Publish
  <2>2. feed' \in Seq(SUBSET Entries) /\ Version' = Version + 1
    BY <2>1, <1>0 DEF TablesOK, Version
  <2>3. 0..Version \subseteq 0..Version'
    BY <2>2, <1>0
  <2>4. Job \subseteq Job'
    BY <2>3 DEF Job
  <2>5. UNCHANGED <<old, subscribed, validator, backoff, episodes, handed, lost, job>>
    BY <1>4 DEF Publish, library
  <2>6. \A j \in Jobs : JobOK(job[j])'
    BY <1>0, <2>4, <2>5 DEF JobOK
  <2>7. validator' \in [Podcasts -> 0..Version']
    BY <2>3, <2>5 DEF TypeOK
  <2>8. job' \in [Jobs -> Job']
    BY <2>4, <2>5 DEF TypeOK
  <2> QED
    BY <2>2, <2>5, <2>6, <2>7, <2>8, <1>0 DEF TypeOK
<1>5. ASSUME NEW e \in Entries, Age(e) PROVE TypeOK'
  BY <1>5 DEF Age, library, TypeOK, JobOK, Job, Version
<1>6. ASSUME NEW p \in Podcasts, BackoffOver(p) PROVE TypeOK'
  BY <1>6 DEF BackoffOver, library, TypeOK, JobOK, Job, Version
<1> QED
  BY <1>1, <1>2, <1>3, <1>4, <1>5, <1>6 DEF Next

LEMMA TypeInit == Init => TypeOK
<1> SUFFICES ASSUME Init PROVE TypeOK
  OBVIOUS
<1>1. feed \in Seq(SUBSET Entries) /\ Version = 1
  <2>1. PICK S \in SUBSET Entries : feed = <<S>>
    BY DEF Init
  <2> QED
    BY <2>1 DEF Version
<1>2. JobOK(NoJob)
  BY <1>1 DEF NoJob, Request, JobOK, Job, Steps
<1> QED
  BY <1>1, <1>2 DEF Init, TypeOK, JobOK

(* Every variable keeps its type, whatever fails.                          *)
THEOREM TypeCorrect == Spec => []TypeOK
BY TypeInit, TypeStep, PTL DEF Spec

-----------------------------------------------------------------------------
(* What a job knows of the rows it has served.  The conjuncts under Sole   *)
(* do not hold when subscribers share the feed.                            *)

Sole == \A p, q \in Podcasts : p = q

JobInv(b) ==
  /\ b.pc \in {"apply", "insert", "store"} => Answered(b)
  /\ b.pc = "record" => b.got \in 1..Version
  /\ b.kind \in {"user", "add"} => \E p \in Podcasts : b.ids = {p}
  /\ b.pc = "apply" => \A p \in b.ids \ b.todo : Served(p, b.got)
  /\ b.pc = "insert" => /\ \A p \in b.ids \ (b.todo \cup {b.at}) : Served(p, b.got)
                        /\ \A e \in Due(b.at, b.got) : Settled(b.at, e) \/ e \in b.left
  /\ b.pc = "store" => \A p \in b.ids : Served(p, b.got)
  /\ b.pc = "fetch" => b.todo = b.ids
  /\ Sole /\ b.pc = "fetch" /\ b.sent > 0 => \A p \in b.ids : Served(p, b.sent)
  /\ Sole /\ b.pc = "record" => \A p \in b.ids : Served(p, b.got)

RefreshInv == TypeOK /\ ValidatorsHonest /\ \A j \in Jobs : JobInv(job[j])

LEMMA JobKept ==
  ASSUME TypeOK, Grows, NEW j \in Jobs, job'[j] = job[j], JobInv(job[j])
  PROVE  JobInv(job[j])'
<1> DEFINE b == job[j]
<1>1. JobOK(b) /\ Version \in Nat /\ Version' \in Nat
  BY TypeParts DEF TypeOK, Grows, Version
<1>2. \A p \in Podcasts, v \in 1..Version : Served(p, v) => \A e \in Due(p, v)' : Settled(p, e)'
  <2> SUFFICES ASSUME NEW p \in Podcasts, NEW v \in 1..Version, Served(p, v)
               PROVE  Served(p, v)'
    BY DEF Served
  <2> QED
    BY ServedStays
<1>3. Answered(b) => Answered(b)'
  BY <1>1 DEF Answered, Grows
<1>4. ASSUME b.pc = "insert" PROVE \A e \in Due(b.at, b.got)' : Settled(b.at, e)' \/ e \in b.left
  BY <1>1, <1>4 DEF JobInv, Answered, JobOK, Job, Due, Grows, TypeOK, Version
<1>5. b.ids \subseteq Podcasts /\ b.sent \in 0..Version
  BY <1>1 DEF JobOK, Job
<1>6. b.sent > 0 => b.sent \in 1..Version
  BY <1>1, <1>5
<1>7. b.pc \in {"apply", "insert", "store", "record"} => b.got \in 1..Version
  BY DEF JobInv, Answered
<1>8. 1..Version \subseteq 1..Version'
  BY <1>1 DEF Grows
<1> QED
  BY <1>2, <1>3, <1>4, <1>5, <1>6, <1>7, <1>8 DEF JobInv, Served

(* The job that moves keeps its own part of the invariant: one step per    *)
(* action.                                                                 *)
LEMMA JobMoves ==
  ASSUME RefreshInv, NEW j \in Jobs
  PROVE  /\ StartBackground(j) \/ StartUser(j) \/ StartAdd(j) => JobInv(job[j])'
         /\ Answer(j) \/ FetchFails(j) \/ ParseFails(j) => JobInv(job[j])'
         /\ Work(j) => JobInv(job[j])'
<1> DEFINE b == job[j]
<1>0. /\ JobOK(b) /\ JobInv(b) /\ DOMAIN job = Jobs
      /\ Version \in Nat \ {0} /\ ValidatorsHonest
  BY TypeParts DEF RefreshInv, TypeOK, Version
<1>s. ASSUME UNCHANGED <<feed, old, episodes, lost>>
      PROVE  /\ \A p, v : Served(p, v)' = Served(p, v)
             /\ Version' = Version
             /\ \A p, v : Due(p, v)' = Due(p, v)
             /\ \A p, e : Settled(p, e)' = Settled(p, e)
  BY <1>s DEF Served, Due, Settled, Has, Version
<1>i. ASSUME Become(j, NoJob) PROVE JobInv(job[j])'
  BY <1>i, <1>0 DEF Become, NoJob, Request, JobInv
<1>1. ASSUME StartBackground(j) PROVE JobInv(job[j])'
  <2>1. PICK v \in Validators(Eligible) : Become(j, Request("background", Eligible, v))
    BY <1>1 DEF StartBackground
  <2>2. Eligible \subseteq Podcasts
    BY DEF RefreshInv, Eligible, TypeOK
  <2>3. UNCHANGED <<feed, old, episodes, lost>>
    BY <1>1 DEF StartBackground, library
  <2>4. job'[j] = Request("background", Eligible, v)
    BY <2>1, <1>0 DEF Become
  <2>5. ASSUME Sole, v > 0 PROVE \A p \in Eligible : Served(p, v)
    <3>1. PICK q \in Eligible : v = validator[q]
      BY <2>5 DEF Validators
    <3>2. \A p \in Eligible : p = q
      BY <2>2, <2>5 DEF Sole
    <3>3. Served(q, v)
      BY <2>2, <2>5, <3>1, <1>0 DEF ValidatorsHonest, Served
    <3> QED
      BY <3>2, <3>3
  <2> QED
    <3>1. /\ job'[j].pc = "fetch" /\ job'[j].kind = "background" /\ job'[j].ids = Eligible
          /\ job'[j].todo = Eligible /\ job'[j].sent = v
      BY <2>4 DEF Request
    <3>2. Sole /\ v > 0 => \A p \in Eligible : Served(p, v)'
      BY <2>3, <2>5, <1>s
    <3> QED
      BY <3>1, <3>2 DEF JobInv
<1>2. ASSUME StartUser(j) PROVE JobInv(job[j])'
  <2>1. PICK p \in Podcasts : job'[j] = Request("user", {p}, 0)
    BY <1>2, <1>0 DEF StartUser, Become, RefreshInv, TypeOK
  <2> QED
    BY <2>1 DEF Request, JobInv
<1>3. ASSUME StartAdd(j) PROVE JobInv(job[j])'
  <2>1. PICK p \in Podcasts : job'[j] = Request("add", {p}, 0)
    BY <1>3, <1>0 DEF StartAdd, Become
  <2> QED
    BY <2>1 DEF Request, JobInv
<1>4. ASSUME NotModified(j) PROVE JobInv(job[j])'
  <2>1. UNCHANGED <<feed, old, episodes, lost>>
    BY <1>4 DEF NotModified, library
  <2>2. /\ b.pc = "fetch" /\ b.sent = Version
        /\ job'[j] = [b EXCEPT !.pc = "record", !.sent = 0, !.got = Version]
    BY <1>4, <1>0 DEF NotModified, Become
  <2> QED
    BY <2>1, <2>2, <1>0, <1>s DEF JobInv, JobOK, Job
<1>5. ASSUME Fetched(j) PROVE JobInv(job[j])'
  <2>1. UNCHANGED <<feed, old, episodes, lost>>
    BY <1>5 DEF Fetched, library
  <2>2. PICK v \in {0, Version} :
          job'[j] = [b EXCEPT !.pc = "apply", !.sent = 0, !.got = Version, !.fresh = v]
    BY <1>5, <1>0 DEF Fetched, Become
  <2>3. b.pc = "fetch"
    BY <1>5 DEF Fetched
  <2>4. b.todo = b.ids
    BY <2>3, <1>0 DEF JobInv
  <2> QED
    BY <2>1, <2>2, <2>4, <1>0, <1>s DEF JobInv, Answered, JobOK, Job
<1>6. ASSUME FetchFails(j) \/ ParseFails(j) PROVE JobInv(job[j])'
  <2>1. UNCHANGED <<feed, old, episodes, lost>>
    BY <1>6 DEF FetchFails, ParseFails, library
  <2>2. job'[j] = NoJob \/ job'[j] = [b EXCEPT !.pc = "failed"]
    BY <1>6, <1>0 DEF FetchFails, ParseFails, Become
  <2>3. CASE job'[j] = NoJob
    BY <2>3 DEF NoJob, Request, JobInv
  <2>4. CASE job'[j] = [b EXCEPT !.pc = "failed"]
    BY <2>4, <1>0 DEF JobInv, JobOK, Job
  <2> QED
    BY <2>2, <2>3, <2>4
<1>7. ASSUME Apply(j) PROVE JobInv(job[j])'
  <2>1. UNCHANGED <<feed, old, episodes, lost>> /\ b.pc = "apply"
    BY <1>7 DEF Apply, library
  <2>2. PICK p \in b.todo :
          job'[j] = [b EXCEPT !.pc = "insert", !.at = p, !.todo = b.todo \ {p},
                              !.left = {e \in Candidates(j, p) : ~Has(p, e)}, !.new = {}]
    BY <1>7, <1>0 DEF Apply, Become, JobOK, Job
  <2>3. \A e \in Due(p, b.got) : e \in Candidates(j, p)
    BY DEF Due, Candidates
  <2>4. \A e \in Due(p, b.got) : Settled(p, e) \/ e \in {f \in Candidates(j, p) : ~Has(p, f)}
    BY <2>3 DEF Settled
  <2>5. /\ job'[j].pc = "insert" /\ job'[j].ids = b.ids /\ job'[j].kind = b.kind
        /\ job'[j].got = b.got /\ job'[j].fresh = b.fresh /\ job'[j].at = p
        /\ job'[j].todo = b.todo \ {p}
        /\ job'[j].left = {e \in Candidates(j, p) : ~Has(p, e)}
    BY <2>2, <1>0 DEF JobOK, Job
  <2>6. \A q \in b.ids \ ((b.todo \ {p}) \cup {p}) : Served(q, b.got)
    BY <2>1, <1>0 DEF JobInv
  <2> QED
    BY <2>1, <2>4, <2>5, <2>6, <1>0, <1>s DEF JobInv, Answered
<1>8. ASSUME Insert(j) PROVE JobInv(job[j])'
  <2>1. PICK e \in b.left :
          /\ episodes' = [episodes EXCEPT ![b.at][e] = @ + 1]
          /\ lost' = [lost EXCEPT ![b.at] = @ \ {e}]
          /\ job'[j] = [b EXCEPT !.left = b.left \ {e}, !.new = b.new \cup {e}]
    BY <1>8, <1>0 DEF Insert, Become, JobOK, Job
  <2>2. b.pc = "insert" /\ UNCHANGED <<feed, old>>
    BY <1>8 DEF Insert
  <2>3. e \in Entries /\ b.at \in Podcasts /\ b.ids \subseteq Podcasts
    BY <2>2, <1>0 DEF JobOK, Job
  <2>4. \A p \in Podcasts, f \in Entries : Settled(p, f) => Settled(p, f)'
    BY <2>1, <2>3 DEF Settled, Has, RefreshInv, TypeOK
  <2>5. Settled(b.at, e)'
    BY <2>1, <2>3 DEF Settled, Has, RefreshInv, TypeOK
  <2>6. \A p, v : Due(p, v)' = Due(p, v)
    BY <2>2 DEF Due
  <2>7. b.got \in 1..Version /\ Version' = Version
    BY <2>2, <1>0 DEF JobInv, Answered, Version
  <2>8. \A p : Due(p, b.got) \subseteq Entries
    <3>0. feed \in Seq(SUBSET Entries) /\ b.got \in 1..Len(feed)
      BY <2>7 DEF RefreshInv, TypeOK, Version
    <3>1. feed[b.got] \subseteq Entries
      BY <3>0
    <3> QED
      BY <3>1 DEF Due
  <2>9. /\ job'[j].pc = "insert" /\ job'[j].ids = b.ids /\ job'[j].kind = b.kind
        /\ job'[j].got = b.got /\ job'[j].fresh = b.fresh /\ job'[j].at = b.at
        /\ job'[j].todo = b.todo /\ job'[j].left = b.left \ {e}
    BY <2>1, <2>2, <1>0 DEF JobOK, Job
  <2>10. \A p \in b.ids \ (b.todo \cup {b.at}) : \A f \in Due(p, b.got) : Settled(p, f)'
    BY <2>2, <2>3, <2>4, <2>8, <1>0 DEF JobInv, Served
  <2>11. \A f \in Due(b.at, b.got) : Settled(b.at, f)' \/ f \in b.left \ {e}
    <3>1. \A f \in Due(b.at, b.got) : Settled(b.at, f) \/ f \in b.left
      BY <2>2, <1>0 DEF JobInv
    <3>2. ASSUME NEW f \in Due(b.at, b.got) PROVE Settled(b.at, f)' \/ f \in b.left
      <4>1. f \in Entries /\ b.at \in Podcasts
        BY <2>3, <2>8
      <4> QED
        BY <4>1, <3>1, <2>4, <2>9
    <3> QED
      BY <3>2, <2>5
  <2> QED
    BY <2>6, <2>7, <2>9, <2>10, <2>11, <1>0, <2>2 DEF JobInv, Answered, Served
<1>9. ASSUME Skip(j) PROVE JobInv(job[j])'
  <2>1. PICK e \in b.left : /\ lost' = [lost EXCEPT ![b.at] = @ \cup {e}]
                           /\ job'[j] = [b EXCEPT !.left = b.left \ {e}]
    BY <1>9, <1>0 DEF Skip, Become, JobOK, Job
  <2>2. b.pc = "insert" /\ UNCHANGED <<feed, old, episodes>>
    BY <1>9 DEF Skip
  <2>3. e \in Entries /\ b.at \in Podcasts /\ b.ids \subseteq Podcasts
    BY <2>2, <1>0 DEF JobOK, Job
  <2>4. /\ \A p \in Podcasts : \A f : Settled(p, f) => Settled(p, f)'
        /\ Settled(b.at, e)'
        /\ \A p, v : Due(p, v)' = Due(p, v)
    BY <2>1, <2>2, <2>3 DEF Settled, Has, Due, RefreshInv, TypeOK
  <2>5. b.got \in 1..Version /\ Version' = Version
    BY <2>2, <1>0 DEF JobInv, Answered, Version
  <2>6. /\ job'[j].pc = "insert" /\ job'[j].ids = b.ids /\ job'[j].kind = b.kind
        /\ job'[j].got = b.got /\ job'[j].fresh = b.fresh /\ job'[j].at = b.at
        /\ job'[j].todo = b.todo /\ job'[j].left = b.left \ {e}
    BY <2>1, <2>2, <1>0 DEF JobOK, Job
  <2>7. \A p \in b.ids \ (b.todo \cup {b.at}) : Served(p, b.got)'
    BY <2>2, <2>3, <2>4, <2>6, <1>0 DEF JobInv, Served
  <2>8. ASSUME NEW f \in Due(b.at, b.got) PROVE Settled(b.at, f)' \/ f \in b.left \ {e}
    <3>1. Settled(b.at, f) \/ f \in b.left
      BY <2>2, <1>0 DEF JobInv
    <3>2. CASE Settled(b.at, f)
      BY <3>2, <2>3, <2>4, <2>6
    <3>3. CASE f = e
      BY <3>3, <2>4
    <3> QED
      BY <3>1, <3>2, <3>3
  <2> QED
    BY <2>2, <2>4, <2>5, <2>6, <2>7, <2>8, <1>0 DEF JobInv, Answered, Served
<1>14. ASSUME ApplyFails(j) PROVE JobInv(job[j])'
  <2>1. b.pc = "insert" /\ UNCHANGED <<feed, old, episodes>>
    BY <1>14 DEF ApplyFails
  <2>2. b.at \in b.ids /\ b.ids \subseteq Podcasts
    BY <2>1, <1>0 DEF JobOK, Job
  <2>3. CASE b.kind = "background"
    <3>1. lost' = [lost EXCEPT ![b.at] = @ \cup b.left] /\ job'[j] = NextRow(j)
      BY <1>14, <2>3, <1>0 DEF ApplyFails, Become
    <3>2. /\ job'[j].pc = IF b.todo = {} THEN "store" ELSE "apply"
          /\ job'[j].ids = b.ids /\ job'[j].kind = b.kind /\ job'[j].got = b.got
          /\ job'[j].fresh = b.fresh /\ job'[j].todo = b.todo
      BY <3>1, <1>0 DEF NextRow, JobOK, Job
    <3>a. lost \in [Podcasts -> SUBSET Entries]
      BY DEF RefreshInv, TypeOK
    <3>b. PICK r \in Podcasts : r = b.at
      BY <2>2
    <3>c. b.left \subseteq lost'[r] /\ \A p \in Podcasts : lost[p] \subseteq lost'[p]
      BY <3>b, <3>1, <3>a
    <3>3. /\ \A p \in Podcasts : \A f : Settled(p, f) => Settled(p, f)'
          /\ \A f \in b.left : Settled(r, f)'
          /\ \A p, v : Due(p, v)' = Due(p, v)
          /\ Version' = Version
      <4>1. \A p \in Podcasts : \A f : Settled(p, f) => Settled(p, f)'
        BY <2>1, <3>c DEF Settled, Has
      <4>2. \A f \in b.left : Settled(r, f)'
        BY <3>c DEF Settled
      <4> QED
        BY <4>1, <4>2, <2>1 DEF Due, Version
    <3>4. ASSUME NEW p \in b.ids \ b.todo PROVE \A f \in Due(p, b.got) : Settled(p, f)'
      <4>1. CASE p # r
        BY <4>1, <2>1, <2>2, <3>b, <3>3, <1>0 DEF JobInv, Served
      <4>2. CASE p = r
        <5>1. \A f \in Due(r, b.got) : Settled(r, f) \/ f \in b.left
          BY <2>1, <3>b, <1>0 DEF JobInv
        <5> QED
          BY <5>1, <4>2, <3>3
      <4> QED
        BY <4>1, <4>2
    <3>5. Answered(b)
      BY <2>1, <1>0 DEF JobInv
    <3> QED
      BY <2>3, <3>2, <3>3, <3>4, <3>5 DEF JobInv, Answered, Served
  <2>4. CASE b.kind # "background"
    BY <1>14, <2>4, <1>i DEF ApplyFails
  <2> QED
    BY <2>3, <2>4
<1>10. ASSUME Applied(j) PROVE JobInv(job[j])'
  <2>1. UNCHANGED <<feed, old, episodes, lost>> /\ b.pc = "insert" /\ b.left = {}
    BY <1>10 DEF Applied
  <2>2. b.at \in b.ids /\ b.ids \subseteq Podcasts
    BY <2>1, <1>0 DEF JobOK, Job
  <2>3. \A p \in b.ids \ b.todo : Served(p, b.got)
    BY <2>1, <2>2, <1>0 DEF JobInv, Served
  <2>4. Answered(b)
    BY <2>1, <1>0 DEF JobInv
  <2>5. CASE b.kind = "background"
    <3>1. job'[j] = NextRow(j)
      BY <1>10, <2>5, <1>0 DEF Applied, Become
    <3>2. /\ job'[j].pc = IF b.todo = {} THEN "store" ELSE "apply"
          /\ job'[j].ids = b.ids /\ job'[j].kind = b.kind /\ job'[j].got = b.got
          /\ job'[j].fresh = b.fresh /\ job'[j].todo = b.todo
      BY <3>1, <1>0 DEF NextRow, JobOK, Job
    <3> QED
      BY <3>2, <2>1, <2>3, <2>4, <2>5, <1>s DEF JobInv, Answered
  <2>6. CASE b.kind = "user"
    <3>1. job'[j] = [b EXCEPT !.pc = "store"]
      BY <1>10, <2>6, <1>0 DEF Applied, Become
    <3>2. /\ job'[j].pc = "store" /\ job'[j].ids = b.ids /\ job'[j].kind = b.kind
          /\ job'[j].got = b.got /\ job'[j].fresh = b.fresh
      BY <3>1, <1>0 DEF JobOK, Job
    <3>3. b.ids = {b.at}
      BY <2>2, <2>6, <1>0 DEF JobInv
    <3>4. Served(b.at, b.got)
      BY <2>1, <1>0 DEF JobInv, Served
    <3> QED
      BY <3>2, <3>3, <3>4, <2>1, <2>2, <2>4, <1>s DEF JobInv, Answered
  <2>7. CASE b.kind = "add"
    BY <1>10, <2>7, <1>i DEF Applied
  <2> QED
    BY <1>10, <2>5, <2>6, <2>7 DEF Applied
<1>11. ASSUME Store(j) PROVE JobInv(job[j])'
  <2>1. UNCHANGED <<feed, old, episodes, lost>> /\ b.pc = "store"
    BY <1>11 DEF Store, library
  <2>2. job'[j] = [b EXCEPT !.pc = "record"]
    BY <1>11, <1>0 DEF Store, Become
  <2> QED
    BY <2>1, <2>2, <1>0, <1>s DEF JobInv, Answered, JobOK, Job
<1>12. ASSUME Record(j) PROVE JobInv(job[j])'
  <2>1. job'[j] = NoJob \/ job'[j] = [b EXCEPT !.pc = "hand"]
    BY <1>12, <1>0 DEF Record, Become
  <2>2. CASE job'[j] = NoJob
    BY <2>2 DEF NoJob, Request, JobInv
  <2>3. CASE job'[j] = [b EXCEPT !.pc = "hand"]
    BY <2>3, <1>0 DEF JobInv, JobOK, Job
  <2> QED
    BY <2>1, <2>2, <2>3
<1>13. ASSUME Hand(j) \/ RecordFailure(j) PROVE JobInv(job[j])'
  BY <1>13, <1>i DEF Hand, RecordFailure
<1> QED
  BY <1>1, <1>2, <1>3, <1>4, <1>5, <1>6, <1>7, <1>8, <1>9, <1>10, <1>11, <1>12, <1>13, <1>14
     DEF Answer, Work

-----------------------------------------------------------------------------
LEMMA HonestStep ==
  ASSUME RefreshInv, TypeOK', Grows, [Next]_vars
  PROVE  ValidatorsHonest'
<1>1. \A p \in Podcasts, v \in 1..Version : Served(p, v) => \A e \in Due(p, v)' : Settled(p, e)'
  <2> SUFFICES ASSUME NEW p \in Podcasts, NEW v \in 1..Version, Served(p, v)
               PROVE  Served(p, v)'
    BY DEF Served
  <2> QED
    BY ServedStays DEF RefreshInv
<1>2. /\ Version \in Nat /\ validator \in [Podcasts -> 0..Version]
      /\ \A p \in Podcasts : validator[p] > 0 => Served(p, validator[p])
  BY DEF RefreshInv, TypeOK, ValidatorsHonest, Served, Version
<1>3. CASE UNCHANGED validator
  BY <1>1, <1>2, <1>3 DEF ValidatorsHonest
<1>4. ASSUME NEW j \in Jobs, Store(j) PROVE ValidatorsHonest'
  <2> DEFINE b == job[j]
  <2>1. /\ \/ validator' = [p \in Podcasts |-> IF p \in b.ids THEN b.fresh ELSE validator[p]]
           \/ UNCHANGED validator
        /\ b.pc = "store"
    BY <1>4 DEF Store
  <2>2. Answered(b) /\ \A p \in b.ids : Served(p, b.got)
    BY <2>1 DEF RefreshInv, JobInv
  <2>3. CASE validator' = [p \in Podcasts |-> IF p \in b.ids THEN b.fresh ELSE validator[p]]
    BY <2>2, <2>3, <1>1, <1>2 DEF ValidatorsHonest, Answered
  <2> QED
    BY <2>1, <2>3, <1>3
<1>5. ASSUME NEW j \in Jobs,
             StartBackground(j) \/ StartUser(j) \/ StartAdd(j) \/ NotModified(j) \/ Fetched(j)
               \/ FetchFails(j) \/ ParseFails(j) \/ Apply(j) \/ Insert(j) \/ Skip(j)
               \/ ApplyFails(j) \/ Applied(j) \/ Record(j) \/ Hand(j) \/ RecordFailure(j)
      PROVE  UNCHANGED validator
  BY <1>5 DEF StartBackground, StartUser, StartAdd, NotModified, Fetched, FetchFails, ParseFails,
     Apply, Insert, Skip, ApplyFails, Applied, Record, Hand, RecordFailure
<1>6. ASSUME Crash \/ Publish \/ (\E e \in Entries : Age(e)) \/ (\E p \in Podcasts : BackoffOver(p))
             \/ UNCHANGED vars
      PROVE  UNCHANGED validator
  BY <1>6 DEF Crash, Publish, Age, BackoffOver, vars
<1> QED
  BY <1>3, <1>4, <1>5, <1>6 DEF Next, Answer, Work

LEMMA RefreshStep == RefreshInv /\ [Next]_vars => RefreshInv'
<1> SUFFICES ASSUME RefreshInv, [Next]_vars PROVE RefreshInv'
  OBVIOUS
<1>1. TypeOK /\ TypeOK' /\ Grows
  BY TypeStep, GrowsStep DEF RefreshInv
<1>2. ValidatorsHonest'
  BY <1>1, HonestStep
<1>3. ASSUME NEW j \in Jobs, job'[j] = job[j] PROVE JobInv(job[j])'
  BY <1>1, <1>3, JobKept DEF RefreshInv
<1>4. ASSUME NEW j \in Jobs,
             \/ StartBackground(j) \/ StartUser(j) \/ StartAdd(j)
             \/ Answer(j) \/ FetchFails(j) \/ ParseFails(j)
             \/ Work(j)
      PROVE  \A i \in Jobs : JobInv(job[i])'
  <2>1. JobInv(job[j])'
    BY <1>4, JobMoves
  <2>2. ASSUME NEW i \in Jobs, i # j PROVE job'[i] = job[i]
    BY <1>4, <2>2, <1>1 DEF Answer, Work, StartBackground, StartUser, StartAdd, NotModified, Fetched,
       FetchFails, ParseFails, Apply, Insert, Skip, ApplyFails, Applied, Store, Record, Hand,
       RecordFailure, Become, TypeOK
  <2>3. ASSUME NEW i \in Jobs, i # j PROVE JobInv(job[i])'
    BY <2>2, <2>3, <1>3
  <2> QED
    BY <2>1, <2>3
<1>5. ASSUME Publish \/ (\E e \in Entries : Age(e)) \/ (\E p \in Podcasts : BackoffOver(p))
             \/ UNCHANGED vars
      PROVE  \A i \in Jobs : JobInv(job[i])'
  <2>1. job' = job
    BY <1>5 DEF Publish, Age, BackoffOver, vars
  <2> QED
    BY <2>1, <1>3
<1>6. ASSUME Crash PROVE \A i \in Jobs : JobInv(job[i])'
  BY <1>6 DEF Crash, NoJob, Request, JobInv
<1> QED
  BY <1>1, <1>2, <1>4, <1>5, <1>6 DEF Next, RefreshInv

LEMMA RefreshInit == Init => RefreshInv
<1> SUFFICES ASSUME Init PROVE RefreshInv
  OBVIOUS
<1>1. TypeOK
  BY TypeInit
<1>2. ValidatorsHonest
  BY DEF Init, ValidatorsHonest
<1>3. \A j \in Jobs : JobInv(job[j])
  BY DEF Init, NoJob, Request, JobInv
<1> QED
  BY <1>1, <1>2, <1>3 DEF RefreshInv

(* However scheduled and user refreshes, new subscriptions, failures,      *)
(* restarts and changes of the feed interleave, a validator that a refresh *)
(* stored (store_feed_cache_validators) never names a version of which its *)
(* row lacks an episode, unless the statement for that very episode and    *)
(* row failed.                                                             *)
THEOREM ValidatorsStayHonest == Spec => []ValidatorsHonest
<1>1. RefreshInv /\ [Next]_vars => RefreshInv'
  BY RefreshStep
<1>2. RefreshInv => ValidatorsHonest
  BY DEF RefreshInv
<1> QED
  BY <1>1, <1>2, RefreshInit, PTL DEF Spec

(* With one subscriber, a refresh that records its success has put every   *)
(* episode of the version the publisher answered for in the row, but those *)
(* whose statement failed - after a 304 as well, where refresh_feed_group  *)
(* reads nothing.                                                          *)
THEOREM SoleSubscriberServed ==
  ASSUME Sole
  PROVE  Spec => ServesGroup
<1>1. RefreshInv /\ [Next]_vars => RefreshInv'
  BY RefreshStep
<1>2. RefreshInv =>
        (\A j \in Jobs : Succeeds(j) => \A p \in job[j].ids : \A e \in Due(p, job[j].got) : Settled(p, e))
  BY DEF RefreshInv, Succeeds, JobInv, Served
<1> QED
  BY <1>1, <1>2, RefreshInit, PTL DEF Spec, ServesGroup

-----------------------------------------------------------------------------
(* Duplicates.  The look-up of fetch_existing_episodes is as good as a     *)
(* unique index while no other job inserts into the row.                   *)
Inserts(j) == job[j].pc = "insert"

Apart == \A i, j \in Jobs : i # j /\ Inserts(i) /\ Inserts(j) => job[i].at # job[j].at

(* One row per podcast and entry.                                          *)
NoDuplicateRows == \A p \in Podcasts, e \in Entries : episodes[p][e] <= 1

(* A job that does not insert starts on entries its row lacks, or goes on  *)
(* with fewer.                                                             *)
LEMMA LooksFirst ==
  ASSUME TypeOK, NEW j \in Jobs,
         \/ StartBackground(j) \/ StartUser(j) \/ StartAdd(j) \/ Answer(j) \/ FetchFails(j)
         \/ ParseFails(j) \/ Work(j),
         ~Insert(j)
  PROVE  /\ UNCHANGED episodes
         /\ \A i \in Jobs \ {j} : job'[i] = job[i]
         /\ Inserts(j)' =>
              \/ \A e \in job'[j].left : ~Has(job'[j].at, e)
              \/ Inserts(j) /\ job'[j].at = job[j].at /\ job'[j].left \subseteq job[j].left
<1> DEFINE b == job[j]
<1>0. JobOK(b) /\ DOMAIN job = Jobs /\ NoJob.pc = "idle"
  BY TypeParts DEF NoJob, Request
<1>1. UNCHANGED episodes
  BY DEF Answer, Work, StartBackground, StartUser, StartAdd, NotModified, Fetched, FetchFails, ParseFails,
     Apply, Skip, ApplyFails, Applied, Store, Record, Hand, RecordFailure, library
<1>2. \A i \in Jobs \ {j} : job'[i] = job[i]
  BY <1>0 DEF Answer, Work, StartBackground, StartUser, StartAdd, NotModified, Fetched, FetchFails,
     ParseFails, Apply, Skip, ApplyFails, Applied, Store, Record, Hand, RecordFailure, Become
<1>3. CASE Apply(j)
  <2>1. PICK p \in b.todo :
          job'[j] = [b EXCEPT !.pc = "insert", !.at = p, !.todo = b.todo \ {p},
                              !.left = {e \in Candidates(j, p) : ~Has(p, e)}, !.new = {}]
    BY <1>3, <1>0 DEF Apply, Become, JobOK, Job
  <2>2. job'[j].at = p /\ job'[j].left = {e \in Candidates(j, p) : ~Has(p, e)}
    BY <2>1, <1>0 DEF JobOK, Job
  <2> QED
    BY <2>2, <1>1, <1>2
<1>4. CASE Skip(j)
  <2>1. PICK e \in b.left : job'[j] = [b EXCEPT !.left = b.left \ {e}]
    BY <1>4, <1>0 DEF Skip, Become, JobOK, Job
  <2>2. job'[j].pc = b.pc /\ job'[j].at = b.at /\ job'[j].left = b.left \ {e}
    BY <2>1, <1>0 DEF JobOK, Job
  <2> QED
    BY <2>2, <1>1, <1>2 DEF Inserts
<1>5. CASE ~Apply(j) /\ ~Skip(j)
  <2>1. ASSUME StartBackground(j) \/ StartUser(j) \/ StartAdd(j) PROVE job'[j].pc = "fetch"
    BY <2>1, <1>0 DEF StartBackground, StartUser, StartAdd, Become, Request
  <2>2. ASSUME Answer(j) \/ FetchFails(j) \/ ParseFails(j) PROVE job'[j].pc # "insert"
    BY <2>2, <1>0 DEF Answer, NotModified, Fetched, FetchFails, ParseFails, Become, JobOK, Job
  <2>3. ASSUME ApplyFails(j) \/ Applied(j) PROVE job'[j].pc # "insert"
    <3>1. NextRow(j).pc # "insert" /\ [b EXCEPT !.pc = "store"].pc # "insert"
      BY <1>0 DEF NextRow, JobOK, Job
    <3>2. job'[j] \in {NextRow(j), [b EXCEPT !.pc = "store"], NoJob}
      BY <2>3, <1>0 DEF ApplyFails, Applied, Become
    <3> QED
      BY <3>1, <3>2, <1>0
  <2>4. ASSUME Store(j) \/ Record(j) \/ Hand(j) \/ RecordFailure(j) PROVE job'[j].pc # "insert"
    BY <2>4, <1>0 DEF Store, Record, Hand, RecordFailure, Become, JobOK, Job
  <2>5. job'[j].pc # "insert"
    BY <1>5, <2>1, <2>2, <2>3, <2>4 DEF Work
  <2> QED
    BY <2>5, <1>1, <1>2 DEF Inserts
<1> QED
  BY <1>3, <1>4, <1>5

(* What a job has still to insert, its row lacks.                          *)
StillNew(j) == Inserts(j) => \A e \in job[j].left : ~Has(job[j].at, e)

RowsInv == TypeOK /\ NoDuplicateRows /\ \A j \in Jobs : StillNew(j)

LEMMA RowsInsert ==
  ASSUME RowsInv, Apart, NEW j \in Jobs, Insert(j)
  PROVE  NoDuplicateRows' /\ \A i \in Jobs : StillNew(i)'
<1> DEFINE b == job[j]
<1>1. /\ JobOK(b) /\ DOMAIN job = Jobs /\ b.pc = "insert"
      /\ episodes \in [Podcasts -> [Entries -> Nat]]
  BY TypeParts DEF RowsInv, TypeOK, Insert
<1>2. PICK e \in b.left :
        /\ episodes' = [episodes EXCEPT ![b.at][e] = @ + 1]
        /\ job' = [job EXCEPT ![j] = [b EXCEPT !.left = b.left \ {e}, !.new = b.new \cup {e}]]
  BY <1>1 DEF Insert, Become, JobOK, Job
<1>3. e \in Entries /\ b.at \in Podcasts
  BY <1>1 DEF JobOK, Job
<1>4. episodes[b.at][e] = 0
  BY <1>1, <1>3 DEF RowsInv, StillNew, Inserts, Has
<1>5. /\ episodes'[b.at][e] = 1
      /\ \A p \in Podcasts, f \in Entries : p # b.at \/ f # e => episodes'[p][f] = episodes[p][f]
  BY <1>1, <1>2, <1>3, <1>4
<1>6. /\ job'[j].pc = "insert" /\ job'[j].at = b.at /\ job'[j].left = b.left \ {e}
      /\ \A i \in Jobs \ {j} : job'[i] = job[i]
  BY <1>1, <1>2 DEF JobOK, Job
<1>7. NoDuplicateRows'
  BY <1>5 DEF RowsInv, NoDuplicateRows
<1>8. StillNew(j)'
  <2>1. \A f \in b.left \ {e} : f \in Entries /\ ~(episodes[b.at][f] > 0)
    BY <1>1 DEF RowsInv, StillNew, Inserts, Has, JobOK, Job
  <2> QED
    BY <2>1, <1>3, <1>5, <1>6 DEF StillNew, Has
<1>9. ASSUME NEW i \in Jobs, i # j PROVE StillNew(i)'
  <2>1. job'[i] = job[i] /\ JobOK(job[i])
    BY <1>6, <1>9, TypeParts DEF RowsInv
  <2>2. Inserts(i) => job[i].at # b.at /\ job[i].at \in Podcasts /\ job[i].left \subseteq Entries
    BY <1>1, <1>9, <2>1 DEF Apart, Inserts, JobOK, Job
  <2> QED
    BY <2>1, <2>2, <1>5 DEF RowsInv, StillNew, Inserts, Has
<1> QED
  BY <1>7, <1>8, <1>9

LEMMA RowsJob ==
  ASSUME RowsInv, NEW j \in Jobs,
         \/ StartBackground(j) \/ StartUser(j) \/ StartAdd(j) \/ Answer(j) \/ FetchFails(j)
         \/ ParseFails(j) \/ Work(j),
         ~Insert(j)
  PROVE  UNCHANGED episodes /\ \A i \in Jobs : StillNew(i)'
<1>1. /\ UNCHANGED episodes
      /\ \A i \in Jobs \ {j} : job'[i] = job[i]
      /\ Inserts(j)' =>
           \/ \A e \in job'[j].left : ~Has(job'[j].at, e)
           \/ Inserts(j) /\ job'[j].at = job[j].at /\ job'[j].left \subseteq job[j].left
  BY LooksFirst DEF RowsInv
<1>2. ASSUME NEW i \in Jobs, i # j PROVE StillNew(i)'
  BY <1>1, <1>2 DEF RowsInv, StillNew, Inserts, Has
<1>3. StillNew(j)'
  BY <1>1 DEF RowsInv, StillNew, Inserts, Has
<1> QED
  BY <1>1, <1>2, <1>3

LEMMA RowsStep == RowsInv /\ Apart /\ [Next]_vars => RowsInv'
<1> SUFFICES ASSUME RowsInv, Apart, [Next]_vars PROVE RowsInv'
  OBVIOUS
<1>1. TypeOK'
  BY TypeStep DEF RowsInv
<1>2. ASSUME UNCHANGED episodes PROVE NoDuplicateRows'
  BY <1>2 DEF RowsInv, NoDuplicateRows
<1>3. ASSUME NEW j \in Jobs,
             \/ StartBackground(j) \/ StartUser(j) \/ StartAdd(j) \/ Answer(j) \/ FetchFails(j)
             \/ ParseFails(j) \/ Work(j)
      PROVE  NoDuplicateRows' /\ \A i \in Jobs : StillNew(i)'
  BY <1>2, <1>3, RowsInsert, RowsJob
<1>4. ASSUME Publish \/ (\E e \in Entries : Age(e)) \/ (\E p \in Podcasts : BackoffOver(p))
             \/ UNCHANGED vars
      PROVE  NoDuplicateRows' /\ \A i \in Jobs : StillNew(i)'
  <2>1. UNCHANGED <<episodes, job>>
    BY <1>4 DEF Publish, Age, BackoffOver, vars, library
  <2> QED
    BY <2>1, <1>2 DEF RowsInv, StillNew, Inserts, Has
<1>5. CASE Crash
  <2>1. UNCHANGED episodes /\ \A j \in Jobs : job'[j].pc = "idle"
    BY <1>5 DEF Crash, library, NoJob, Request
  <2> QED
    BY <2>1, <1>1, <1>2 DEF RowsInv, StillNew, Inserts
<1> QED
  BY <1>1, <1>3, <1>4, <1>5 DEF Next, RowsInv

LEMMA RowsInit == Init => RowsInv
<1> SUFFICES ASSUME Init PROVE RowsInv
  OBVIOUS
<1>1. \A j \in Jobs : job[j].pc = "idle"
  BY DEF Init, NoJob, Request
<1> QED
  BY <1>1, TypeInit DEF Init, RowsInv, NoDuplicateRows, StillNew, Inserts

(* No row gets an entry twice unless two jobs insert into that row at the  *)
(* same time: whatever fails, wherever the server stops, however often the *)
(* same version is applied again, and whatever other jobs do meanwhile     *)
(* (fetch_existing_episodes, refresh.rs and database.rs).                  *)
THEOREM RowsUnique == Spec /\ []Apart => []NoDuplicateRows
<1>1. RowsInv => NoDuplicateRows
  BY DEF RowsInv
<1> QED
  BY <1>1, RowsInit, RowsStep, PTL DEF Spec

-----------------------------------------------------------------------------
(* How many duplicates there can be when jobs do overlap.                  *)
RowsBound == TypeOK /\ RowsPerJob

LEMMA PendingFinite ==
  ASSUME IsFiniteSet(Jobs), NEW S \in SUBSET Jobs, NEW T \in SUBSET S
  PROVE  Cardinality(S) \in Nat /\ Cardinality(T) \in Nat /\ Cardinality(T) <= Cardinality(S)
<1>1. IsFiniteSet(S)
  BY FS_Subset
<1> QED
  BY <1>1, FS_Subset, FS_CardinalityType

(* An entry that is there gets no new candidates: the look-up of a job     *)
(* that starts on the row finds it.                                        *)
LEMMA PendingShrinks ==
  ASSUME TypeOK, NEW p \in Podcasts, NEW e \in Entries, Has(p, e), NEW j \in Jobs,
         \/ StartBackground(j) \/ StartUser(j) \/ StartAdd(j) \/ Answer(j) \/ FetchFails(j)
         \/ ParseFails(j) \/ Work(j),
         ~Insert(j)
  PROVE  Pending(p, e)' \subseteq Pending(p, e)
  BY LooksFirst DEF Pending, Inserts

(* An insert takes its own job out of those that have the entry to insert. *)
LEMMA InsertSpends ==
  ASSUME TypeOK, NEW p \in Podcasts, NEW e \in Entries, NEW j \in Jobs, Insert(j)
  PROVE  \/ episodes'[p][e] = episodes[p][e] /\ Pending(p, e)' \subseteq Pending(p, e)
         \/ /\ episodes'[p][e] = episodes[p][e] + 1
            /\ j \in Pending(p, e) /\ Pending(p, e)' \subseteq Pending(p, e) \ {j}
<1> DEFINE b == job[j]
<1>1. /\ JobOK(b) /\ DOMAIN job = Jobs /\ b.pc = "insert"
      /\ episodes \in [Podcasts -> [Entries -> Nat]]
  BY TypeParts DEF TypeOK, Insert
<1>2. PICK f \in b.left :
        /\ episodes' = [episodes EXCEPT ![b.at][f] = @ + 1]
        /\ job' = [job EXCEPT ![j] = [b EXCEPT !.left = b.left \ {f}, !.new = b.new \cup {f}]]
  BY <1>1 DEF Insert, Become, JobOK, Job
<1>3. f \in Entries /\ b.at \in Podcasts
  BY <1>1 DEF JobOK, Job
<1>4. /\ job'[j].pc = "insert" /\ job'[j].at = b.at /\ job'[j].left = b.left \ {f}
      /\ \A i \in Jobs \ {j} : job'[i] = job[i]
  BY <1>1, <1>2 DEF JobOK, Job
<1>5. Pending(p, e)' \subseteq Pending(p, e)
  BY <1>1, <1>4 DEF Pending
<1>6. CASE p = b.at /\ e = f
  <2>1. episodes'[p][e] = episodes[p][e] + 1
    BY <1>1, <1>2, <1>3, <1>6
  <2>2. j \in Pending(p, e) /\ j \notin Pending(p, e)'
    BY <1>1, <1>4, <1>6 DEF Pending
  <2> QED
    BY <2>1, <2>2, <1>5
<1>7. CASE ~(p = b.at /\ e = f)
  <2>1. episodes'[p][e] = episodes[p][e]
    BY <1>1, <1>2, <1>3, <1>7
  <2> QED
    BY <2>1, <1>5
<1> QED
  BY <1>6, <1>7

LEMMA RowsBoundStep ==
  ASSUME IsFiniteSet(Jobs), RowsBound, [Next]_vars
  PROVE  RowsBound'
<1>1. TypeOK /\ TypeOK' /\ RowsPerJob
  BY TypeStep DEF RowsBound
<1>2. SUFFICES ASSUME NEW p \in Podcasts, NEW e \in Entries, Has(p, e)'
               PROVE  episodes'[p][e] + Cardinality(Pending(p, e)') <= Cardinality(Jobs)
  BY <1>1 DEF RowsBound, RowsPerJob
<1> DEFINE P == Pending(p, e)
           Q == Pending(p, e)'
<1>3. /\ P \subseteq Jobs /\ Q \subseteq Jobs
      /\ Cardinality(P) \in Nat /\ Cardinality(Q) \in Nat /\ Cardinality(Jobs) \in Nat
  BY PendingFinite DEF Pending
<1>4. episodes[p][e] \in Nat /\ episodes'[p][e] \in Nat
  BY <1>1 DEF TypeOK
<1>5. Has(p, e) => episodes[p][e] + Cardinality(P) <= Cardinality(Jobs)
  BY <1>1 DEF RowsPerJob
<1>6. ASSUME episodes'[p][e] = episodes[p][e], Q \subseteq P
      PROVE  episodes'[p][e] + Cardinality(Q) <= Cardinality(Jobs)
  <2>1. Cardinality(Q) <= Cardinality(P)
    BY <1>3, <1>6, PendingFinite
  <2>2. Has(p, e)
    BY <1>2, <1>6 DEF Has
  <2> QED
    BY <1>3, <1>4, <1>5, <1>6, <2>1, <2>2
<1>7. ASSUME NEW j \in Jobs, Insert(j)
      PROVE  episodes'[p][e] + Cardinality(Q) <= Cardinality(Jobs)
  <2>1. CASE episodes'[p][e] = episodes[p][e] /\ Q \subseteq P
    BY <2>1, <1>6
  <2>2. CASE episodes'[p][e] = episodes[p][e] + 1 /\ j \in P /\ Q \subseteq P \ {j}
    <3>1. IsFiniteSet(P) /\ IsFiniteSet(Jobs)
      BY <1>3, FS_Subset
    <3>2. /\ Cardinality(P \ {j}) = Cardinality(P) - 1
          /\ Cardinality(Jobs \ {j}) = Cardinality(Jobs) - 1
      BY <2>2, <3>1, FS_RemoveElement
    <3>3. Cardinality(Q) <= Cardinality(P \ {j})
      BY <1>3, <2>2, PendingFinite
    <3>4. Cardinality(Q) <= Cardinality(Jobs \ {j})
      BY <1>3, <2>2, PendingFinite
    <3>5. CASE Has(p, e)
      BY <3>5, <1>3, <1>4, <1>5, <2>2, <3>2, <3>3
    <3>6. CASE ~Has(p, e)
      <4>1. episodes'[p][e] = 1
        BY <3>6, <1>4, <2>2 DEF Has
      <4> QED
        BY <4>1, <1>3, <3>2, <3>4
    <3> QED
      BY <3>5, <3>6
  <2> QED
    BY <1>1, <1>7, <2>1, <2>2, InsertSpends
<1>8. ASSUME NEW j \in Jobs,
             \/ StartBackground(j) \/ StartUser(j) \/ StartAdd(j) \/ Answer(j) \/ FetchFails(j)
             \/ ParseFails(j) \/ Work(j),
             ~Insert(j)
      PROVE  episodes'[p][e] + Cardinality(Q) <= Cardinality(Jobs)
  <2>1. UNCHANGED episodes
    BY <1>1, <1>8, LooksFirst
  <2>2. Has(p, e)
    BY <1>2, <2>1 DEF Has
  <2> QED
    BY <1>1, <1>6, <1>8, <2>1, <2>2, PendingShrinks
<1>9. CASE Crash
  <2>1. UNCHANGED episodes /\ \A j \in Jobs : job'[j].pc = "idle"
    BY <1>9 DEF Crash, library, NoJob, Request
  <2>2. Q \subseteq P
    BY <2>1 DEF Pending
  <2> QED
    BY <1>6, <2>1, <2>2
<1>10. ASSUME Publish \/ (\E f \in Entries : Age(f)) \/ (\E q \in Podcasts : BackoffOver(q))
              \/ UNCHANGED vars
       PROVE  episodes'[p][e] + Cardinality(Q) <= Cardinality(Jobs)
  <2>1. UNCHANGED <<episodes, job>>
    BY <1>10 DEF Publish, Age, BackoffOver, vars, library
  <2>2. Q \subseteq P
    BY <2>1 DEF Pending
  <2> QED
    BY <1>6, <2>1, <2>2
<1> QED
  BY <1>7, <1>8, <1>9, <1>10 DEF Next

(* However many jobs run at once, fail and are cut off, an entry gets at   *)
(* most one row of a podcast from each of them, and none once it is there  *)
(* and the jobs that had looked before are through: duplicates of the race *)
(* at fetch_existing_episodes do not grow with later refreshes.  A server  *)
(* that runs one job at a time has no duplicates.                          *)
THEOREM DuplicatesBounded ==
  ASSUME IsFiniteSet(Jobs)
  PROVE  Spec => []RowsPerJob
<1>1. Init => RowsBound
  BY TypeInit DEF Init, RowsBound, RowsPerJob, Has
<1>2. RowsBound /\ [Next]_vars => RowsBound'
  BY RowsBoundStep
<1>3. RowsBound => RowsPerJob
  BY DEF RowsBound
<1> QED
  BY <1>1, <1>2, <1>3, PTL DEF Spec

=============================================================================
