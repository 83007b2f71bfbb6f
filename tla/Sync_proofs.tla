----------------------------- MODULE Sync_proofs ------------------------------
(***************************************************************************)
(* Theorems about what PinePods and a gPodder server tell each other: the  *)
(* subscriptions, with the invariant that finds every difference, and the  *)
(* positions of an episode, with the one that exchanges every position.    *)
(***************************************************************************)
EXTENDS SubscriptionSync, ActionSync, FiniteSetTheorems, TLAPS

-----------------------------------------------------------------------------
(* Subscriptions (SubscriptionSync)                                        *)

\* There is a device whose changes the server does not attribute to PinePods.
OtherDevice == \E d \in Devices : d # Own

SyncTyped == TypeOK /\ \A c \in log \cup open : c.at <= now

\* The feeds that the answers are about, when nothing but syncs changed them twice.
News(f) == \E c \in log : c.feed = f /\ c.at > last
NewOnes == {f \in subs : last = 0 \/ News(f)}
GoneOnes == {f \in Feeds \ subs : News(f)}

\* A sync runs alone, and in a later second than the last one.
SyncAlone ==
  /\ sync # NoSync =>
       /\ open = {} /\ sync.pc # "idle" /\ ~sync.full /\ sync.since = last
       /\ now > last \/ now = MaxTime
  /\ \A c \in open :
       /\ c.at = now /\ now > last
       /\ last # 0 => ~News(c.feed) /\ \A e \in open : e.feed = c.feed => e = c

\* What the server has not changed since the last sync is as the snapshot says,
\* and of what it has changed there is one kind of change.
Snapped ==
  /\ last = 0 /\ sync.pc # "close" => snap = {}
  /\ last # 0 /\ ~(sync.pc = "save" /\ now = last) =>
       \A f \in Feeds : ~News(f) => (f \in subs <=> f \in snap)
  /\ last # 0 => \A c \in log : c.at > last => (c.act = "add" <=> c.feed \in subs)

\* What the sync was told, and what of it is applied.
Pulling ==
  sync.pc = "pull" =>
    /\ sync.add \subseteq NewOnes /\ sync.remove \subseteq GoneOnes
    /\ kind = "external" =>
         \A d \in Devices \ sync.todo :
           AddedFor(d, last) \subseteq sync.add /\ RemovedFor(d, last) \subseteq sync.remove
    /\ sync.todo = {} => NewOnes \subseteq sync.add /\ (last # 0 => GoneOnes \subseteq sync.remove)
    /\ sync.todo # {} => sync.adding = sync.add /\ sync.removing = sync.remove
    /\ sync.adding \subseteq sync.add /\ sync.removing \subseteq sync.remove
    /\ sync.add \ sync.adding \subseteq local /\ (sync.remove \ sync.removing) \cap local = {}

\* What is uploaded is the difference; then there is none.
Sending ==
  /\ sync.pc = "send" =>
       /\ sync.up.add = sync.mine \ subs /\ sync.up.remove = subs \ sync.mine
       /\ last # 0 => \A f \in Feeds : News(f) => (f \in sync.mine <=> f \in subs)
  /\ sync.pc \in {"save", "close"} => subs = sync.mine
  /\ sync.pc = "close" => snap = sync.mine

SyncInv == SyncAlone /\ Snapped /\ Pulling /\ Sending

SyncIInv == faults = {} => SyncInv
-----------------------------------------------------------------------------
(* Types                                                                   *)

LEMMA NoSyncTyped == NoSync \in Sync
  BY SyncAssumption DEF NoSync, Sync

LEMMA SyncTypesInit == Init => SyncTyped
  BY SyncAssumption, NoSyncTyped DEF Init, SyncTyped, TypeOK

LEMMA AnswersAreFeeds ==
  ASSUME SyncTyped
  PROVE /\ \A d, since : AddedFor(d, since) \subseteq Feeds /\ RemovedFor(d, since) \subseteq Feeds
        /\ \A since : AddedForAll(since) \subseteq Feeds /\ RemovedForAll(since) \subseteq Feeds
  BY DEF SyncTyped, TypeOK, AddedFor, RemovedFor, ChangesFor, AddedForAll, RemovedForAll, Touched, Change

LEMMA UploadedAreChanges ==
  ASSUME SyncTyped
  PROVE Uploaded \subseteq Change /\ \A c \in Uploaded : c.at = now
  <1>1. sync.up.add \subseteq Feeds /\ sync.up.remove \subseteq Feeds /\ now \in 0..MaxTime /\ Own \in Devices
    BY SyncAssumption DEF SyncTyped, TypeOK, Sync
  <1> QED
    BY <1>1 DEF Uploaded, Change

\* A step of a sync, whatever it does.
LEMMA SyncStepTypes ==
  ASSUME SyncTyped, SyncStep
  PROVE SyncTyped'
  <1> USE SyncAssumption DEF SyncTyped
  <1>1. ASSUME NEW d \in Devices, Ask(d) PROVE SyncTyped'
    <2>1. AddedFor(d, sync.since) \subseteq Feeds /\ RemovedFor(d, sync.since) \subseteq Feeds
      BY AnswersAreFeeds
    <2>2. sync' \in Sync
      BY <1>1, <2>1 DEF Ask, TypeOK, Sync
    <2> QED
      BY <1>1, <2>2 DEF Ask, TypeOK, settings
  <1>2. ASSUME NEW d \in Devices, AskFails(d) PROVE SyncTyped'
    BY <1>2 DEF AskFails, TypeOK, Sync, settings
  <1>3. CASE AskOnce
    <2>1. AddedForAll(sync.since) \subseteq Feeds /\ RemovedForAll(sync.since) \subseteq Feeds
      BY AnswersAreFeeds
    <2>2. sync' \in Sync
      BY <1>3, <2>1 DEF AskOnce, TypeOK, Sync
    <2> QED
      BY <1>3, <2>2 DEF AskOnce, TypeOK, settings
  <1>4. CASE AskOnceFails
    BY <1>4 DEF AskOnceFails, TypeOK, Sync, settings
  <1>5. ASSUME NEW f \in Feeds, AddOne(f) PROVE SyncTyped'
    BY <1>5 DEF AddOne, TypeOK, Sync, settings
  <1>6. ASSUME NEW f \in Feeds, AddFails(f) PROVE SyncTyped'
    BY <1>6 DEF AddFails, TypeOK, Sync, settings
  <1>7. ASSUME NEW f \in Feeds, RemoveOne(f) PROVE SyncTyped'
    BY <1>7 DEF RemoveOne, TypeOK, Sync, settings
  <1>8. CASE Compare
    <2>1. Delta \in [add : SUBSET Feeds, remove : SUBSET Feeds]
      BY DEF Delta, TypeOK
    <2>2. sync' \in Sync
      BY <1>8, <2>1 DEF Compare, TypeOK, Sync
    <2> QED
      BY <1>8, <2>2 DEF Compare, TypeOK, settings
  <1>9. CASE Send
    <2>1. Uploaded \subseteq Change /\ \A c \in Uploaded : c.at = now
      BY UploadedAreChanges
    <2>2. sync' \in Sync
      BY <1>9 DEF Send, TypeOK, Sync
    <2>3. sync.up.add \subseteq Feeds
      BY DEF TypeOK, Sync
    <2> QED
      BY <1>9, <2>1, <2>2, <2>3 DEF Send, TypeOK, settings
  <1>10. CASE SendFails
    BY <1>10 DEF SendFails, TypeOK, Sync, settings
  <1>11. CASE Save
    <2>1. sync' \in Sync /\ sync.mine \subseteq Feeds
      BY <1>11 DEF Save, TypeOK, Sync
    <2> QED
      BY <1>11, <2>1 DEF Save, TypeOK, settings
  <1>12. CASE Close
    BY <1>12, NoSyncTyped DEF Close, TypeOK, settings
  <1> QED
    BY <1>1, <1>2, <1>3, <1>4, <1>5, <1>6, <1>7, <1>8, <1>9, <1>10, <1>11, <1>12 DEF SyncStep

LEMMA SyncTypesStep == SyncTyped /\ [Next]_vars => SyncTyped'
  <1> SUFFICES ASSUME SyncTyped, Next PROVE SyncTyped'
    BY DEF SyncTyped, TypeOK, vars, settings
  <1> USE SyncAssumption DEF SyncTyped
  <1>1. CASE Tick
    <2>1. \A c \in log \cup open : c.at \in Int
      BY DEF TypeOK, Change
    <2> QED
      BY <1>1, <2>1 DEF Tick, TypeOK, settings
  <1>2. ASSUME NEW d \in Phones, NEW f \in Feeds, NEW act \in {"add", "remove"}, Stamp(d, f, act) PROVE SyncTyped'
    BY <1>2 DEF Stamp, Event, TypeOK, Change, settings
  <1>3. ASSUME NEW c \in open, Commit(c) PROVE SyncTyped'
    <2>1. c \in Change
      BY DEF TypeOK
    <2>2. After(subs, c) \subseteq Feeds
      BY <2>1 DEF After, Change, TypeOK
    <2> QED
      BY <1>3, <2>1, <2>2 DEF Commit, TypeOK, settings
  <1>4. ASSUME NEW f \in Feeds, Edit(f) PROVE SyncTyped'
    BY <1>4 DEF Edit, Event, TypeOK, settings
  <1>5. ASSUME NEW full \in BOOLEAN, Begin(full) PROVE SyncTyped'
    <2>1. last \in 0..MaxTime
      BY DEF TypeOK
    <2>2. sync' \in Sync
      <3>1. sync' = [pc |-> "pull", full |-> full, since |-> IF full THEN 0 ELSE last, todo |-> Devices,
                     add |-> {}, remove |-> {}, adding |-> {}, removing |-> {}, mine |-> {}, up |-> [add |-> {}, remove |-> {}]]
        BY <1>5 DEF Begin, NoSync
      <3>2. (IF full THEN 0 ELSE last) \in 0..MaxTime
        BY <2>1
      <3> HIDE SyncAssumption
      <3> QED
        BY <3>1, <3>2 DEF Sync
    <2> QED
      BY <1>5, <2>2 DEF Begin, TypeOK, settings
  <1>6. CASE SyncStep
    BY <1>6, SyncStepTypes
  <1>7. CASE Stop
    BY <1>7, NoSyncTyped DEF Stop, Event, TypeOK, settings
  <1> QED
    BY <1>1, <1>2, <1>3, <1>4, <1>5, <1>6, <1>7 DEF Next

-----------------------------------------------------------------------------
(* Both sides are equal but for what the next sync finds                   *)

SyncGood == SyncTyped /\ SyncInv /\ faults = {}

LEMMA SyncInvInit == Init => SyncIInv
  BY DEF Init, SyncIInv, SyncInv, SyncAlone, Snapped, Pulling, Sending, NoSync

\* A phase of a sync that leaves the server, the snapshot and the last sync alone.
LEMMA PhaseKeeps ==
  ASSUME SyncGood, UNCHANGED <<snap, last, subs, log, open, now>>, sync # NoSync,
         sync'.pc \in {"pull", "send"}, sync'.full = sync.full, sync'.since = sync.since, sync.pc = "pull",
         Pulling', Sending'
  PROVE SyncInv'
  BY DEF SyncGood, SyncInv, SyncAlone, Snapped, News

LEMMA TickKeeps ==
  ASSUME SyncGood, Prompt, Tick
  PROVE SyncInv'
  <1>1. /\ open = {} /\ now < MaxTime /\ now' = now + 1 /\ now \in Int /\ last \in Int /\ last <= now /\ MaxTime \in Int
        /\ UNCHANGED <<local, snap, last, subs, log, open, sync, kind>>
    BY SyncAssumption DEF SyncGood, SyncTyped, TypeOK, Prompt, May, Tick, settings
  <1>2. sync.pc = "save" => now # last
    BY <1>1 DEF SyncGood, SyncInv, SyncAlone, NoSync
  <1> QED
    BY <1>1, <1>2 DEF SyncGood, SyncInv, SyncAlone, Snapped, Pulling, Sending, News, NewOnes, GoneOnes,
       AddedFor, RemovedFor, ChangesFor

LEMMA StampKeeps ==
  ASSUME SyncGood, NEW d \in Phones, NEW f \in Feeds, NEW act \in {"add", "remove"}, Stamp(d, f, act)
  PROVE SyncInv'
  <1>1. /\ sync = NoSync /\ now > last /\ ~Changed(f)
        /\ open' = open \cup {[dev |-> d, feed |-> f, act |-> act, at |-> now]}
        /\ UNCHANGED <<local, snap, last, subs, log, sync, now>>
    BY DEF Stamp, May, SyncGood
  <1>2. last # 0 => ~News(f) /\ \A c \in open : c.feed # f
    BY <1>1 DEF Changed, News, SyncGood, SyncInv, SyncAlone
  <1> QED
    BY <1>1, <1>2 DEF SyncGood, SyncInv, SyncAlone, Snapped, Pulling, Sending, News, NoSync

LEMMA CommitKeeps ==
  ASSUME SyncGood, NEW c \in open, Commit(c)
  PROVE SyncInv'
  <1>1. /\ open' = open \ {c} /\ log' = log \cup {c} /\ subs' = After(subs, c)
        /\ UNCHANGED <<local, snap, last, sync, now>>
    BY DEF Commit
  <1>2. sync = NoSync /\ c.at = now /\ now > last /\ (last # 0 => ~News(c.feed) /\ \A e \in open : e.feed = c.feed => e = c)
    BY DEF SyncGood, SyncInv, SyncAlone
  <1>3. c.act \in {"add", "remove"}
    BY DEF SyncGood, SyncTyped, TypeOK, Change
  <1>4. \A f \in Feeds : News(f)' <=> News(f) \/ f = c.feed
    BY <1>1, <1>2 DEF News
  <1>5. \A f : f # c.feed => (f \in subs' <=> f \in subs)
    BY <1>1 DEF After
  <1>6. c.feed \in subs' <=> c.act = "add"
    BY <1>1, <1>3 DEF After
  <1>7. Snapped'
    <2>1. last # 0 => \A e \in log : e.at > last => (e.act = "add" <=> e.feed \in subs')
      BY <1>2, <1>5 DEF News, SyncGood, SyncInv, Snapped
    <2> QED
      BY <1>1, <1>2, <1>4, <1>5, <1>6, <2>1 DEF SyncGood, SyncInv, Snapped, NoSync
  <1>8. SyncAlone'
    <2>1. \A e \in open' : last # 0 => ~News(e.feed)'
      <3>1. \A e \in open' : last # 0 => e.feed # c.feed /\ ~News(e.feed)
        BY <1>1, <1>2 DEF SyncGood, SyncInv, SyncAlone
      <3> QED
        BY <1>1, <3>1 DEF News
    <2> QED
      BY <1>1, <1>2, <2>1 DEF SyncGood, SyncInv, SyncAlone
  <1> QED
    BY <1>1, <1>2, <1>7, <1>8 DEF SyncInv, Pulling, Sending, NoSync

LEMMA EditKeeps ==
  ASSUME SyncGood, NEW f \in Feeds, Edit(f)
  PROVE SyncInv'
  <1>1. sync.pc # "pull" /\ UNCHANGED <<snap, last, subs, log, open, sync, now>>
    BY DEF Edit, May, SyncGood
  <1> QED
    BY <1>1 DEF SyncGood, SyncInv, SyncAlone, Snapped, Pulling, Sending, News

LEMMA BeginKeeps ==
  ASSUME SyncGood, NEW full \in BOOLEAN, Begin(full)
  PROVE SyncInv'
  <1>1. /\ sync = NoSync /\ open = {} /\ (now > last \/ now = MaxTime) /\ ~full
        /\ UNCHANGED <<local, snap, last, subs, log, open, now, settings>>
    BY DEF Begin, Prompt, May, SyncGood
  <1>2. sync' = [pc |-> "pull", full |-> FALSE, since |-> last, todo |-> Devices,
                 add |-> {}, remove |-> {}, adding |-> {}, removing |-> {}, mine |-> {}, up |-> [add |-> {}, remove |-> {}]]
    BY <1>1 DEF Begin, NoSync
  <1>3. Devices # {}
    BY SyncAssumption
  <1>4. Pulling'
    BY <1>2, <1>3 DEF Pulling
  <1> QED
    BY <1>1, <1>2, <1>4 DEF SyncGood, SyncInv, SyncAlone, Snapped, Sending, News, NoSync

\* What is told is what changed since the last sync, once.
LEMMA AnswersOf ==
  ASSUME SyncGood
  PROVE /\ \A d : AddedFor(d, last) \subseteq NewOnes /\ RemovedFor(d, last) \subseteq GoneOnes
        /\ AddedForAll(last) = NewOnes /\ RemovedForAll(last) \subseteq GoneOnes
        /\ last # 0 => RemovedForAll(last) = GoneOnes
        /\ last # 0 /\ OtherDevice => /\ \A f \in NewOnes : \E d \in Devices : f \in AddedFor(d, last)
                                     /\ \A f \in GoneOnes : \E d \in Devices : f \in RemovedFor(d, last)
  <1>1. log \subseteq Change /\ Own \in Devices
    BY SyncAssumption DEF SyncGood, SyncTyped, TypeOK
  <1>2. last # 0 => \A c \in log : c.at > last => (c.act = "add" <=> c.feed \in subs)
    BY DEF SyncGood, SyncInv, Snapped
  <1>3. \A d : AddedFor(d, last) \subseteq NewOnes /\ RemovedFor(d, last) \subseteq GoneOnes
    BY <1>1, <1>2 DEF AddedFor, RemovedFor, ChangesFor, NewOnes, GoneOnes, News, Change
  <1>4. \A f : f \in Touched(last) <=> News(f)
    BY DEF Touched, News
  <1>5. Touched(last) \subseteq Feeds
    BY <1>1 DEF Touched, Change
  <1>6. /\ AddedForAll(last) = NewOnes /\ RemovedForAll(last) \subseteq GoneOnes
        /\ last # 0 => RemovedForAll(last) = GoneOnes
    BY <1>4, <1>5 DEF AddedForAll, RemovedForAll, NewOnes, GoneOnes
  <1>7. ASSUME last # 0, OtherDevice, NEW c \in log, c.at > last
        PROVE \E d \in Devices : c.dev # d
    BY <1>1, <1>7 DEF OtherDevice
  <1>8. ASSUME last # 0, OtherDevice, NEW f \in NewOnes PROVE \E d \in Devices : f \in AddedFor(d, last)
    <2>1. PICK c \in log : c.feed = f /\ c.at > last /\ c.act = "add"
      BY <1>2, <1>8 DEF NewOnes, News
    <2> QED
      BY <1>7, <1>8, <2>1 DEF AddedFor, ChangesFor
  <1>9. ASSUME last # 0, OtherDevice, NEW f \in GoneOnes PROVE \E d \in Devices : f \in RemovedFor(d, last)
    <2>1. PICK c \in log : c.feed = f /\ c.at > last /\ c.act = "remove"
      BY <1>1, <1>2, <1>9 DEF GoneOnes, News, Change
    <2> QED
      BY <1>7, <1>9, <2>1 DEF RemovedFor, ChangesFor
  <1> QED
    BY <1>3, <1>6, <1>8, <1>9

LEMMA AskKeeps ==
  ASSUME SyncGood, OtherDevice, NEW d \in Devices, Ask(d)
  PROVE SyncInv'
  <1>1. /\ kind = "external" /\ sync.pc = "pull" /\ d \in sync.todo /\ sync.since = last
        /\ UNCHANGED <<local, snap, last, subs, log, open, now, kind>>
    BY DEF Ask, settings, SyncGood, SyncInv, SyncAlone, NoSync
  <1> DEFINE adds == AddedFor(d, last)
             removes == RemovedFor(d, last)
  <1>2. /\ sync'.pc = "pull" /\ sync'.full = sync.full /\ sync'.since = sync.since /\ sync'.todo = sync.todo \ {d}
        /\ sync'.add = sync.add \cup adds /\ sync'.adding = sync.adding \cup adds
        /\ sync'.remove = sync.remove \cup removes /\ sync'.removing = sync.removing \cup removes
    BY <1>1 DEF Ask, SyncGood, SyncTyped, TypeOK, Sync
  <1>3. adds \subseteq NewOnes /\ removes \subseteq GoneOnes
    BY AnswersOf
  <1>4. NewOnes' = NewOnes /\ GoneOnes' = GoneOnes /\ \A e : (AddedFor(e, last))' = AddedFor(e, last) /\ (RemovedFor(e, last))' = RemovedFor(e, last)
    BY <1>1 DEF NewOnes, GoneOnes, News, AddedFor, RemovedFor, ChangesFor
  <1>5. \A e \in Devices \ sync'.todo : AddedFor(e, last) \subseteq sync'.add /\ RemovedFor(e, last) \subseteq sync'.remove
    BY <1>1, <1>2 DEF SyncGood, SyncInv, Pulling
  <1>6. ASSUME sync'.todo = {} PROVE NewOnes \subseteq sync'.add /\ (last # 0 => GoneOnes \subseteq sync'.remove)
    <2>1. last = 0 => NewOnes \subseteq adds
      BY DEF NewOnes, AddedFor
    <2>2. last # 0 => /\ \A f \in NewOnes : \E e \in Devices : f \in AddedFor(e, last)
                      /\ \A f \in GoneOnes : \E e \in Devices : f \in RemovedFor(e, last)
      BY AnswersOf
    <2> QED
      BY <1>2, <1>5, <1>6, <2>1, <2>2
  <1>7. Pulling'
    <2> HIDE DEF adds, removes
    <2>1. /\ sync.add \subseteq NewOnes /\ sync.remove \subseteq GoneOnes
          /\ sync.adding = sync.add /\ sync.removing = sync.remove
      BY <1>1 DEF SyncGood, SyncInv, Pulling
    <2> QED
      BY <1>1, <1>2, <1>3, <1>4, <1>5, <1>6, <2>1 DEF Pulling
  <1> QED
    BY <1>1, <1>2, <1>7, PhaseKeeps DEF Sending, NoSync

LEMMA AskOnceKeeps ==
  ASSUME SyncGood, AskOnce
  PROVE SyncInv'
  <1>1. /\ kind = "nextcloud" /\ sync.pc = "pull" /\ sync.todo # {} /\ sync.since = last
        /\ UNCHANGED <<local, snap, last, subs, log, open, now, kind>>
    BY DEF AskOnce, settings, SyncGood, SyncInv, SyncAlone, NoSync
  <1>2. /\ sync'.pc = "pull" /\ sync'.full = sync.full /\ sync'.since = sync.since /\ sync'.todo = {}
        /\ sync'.add = AddedForAll(last) /\ sync'.adding = AddedForAll(last)
        /\ sync'.remove = RemovedForAll(last) /\ sync'.removing = RemovedForAll(last)
    BY <1>1 DEF AskOnce, SyncGood, SyncTyped, TypeOK, Sync
  <1>3. NewOnes' = NewOnes /\ GoneOnes' = GoneOnes
    BY <1>1 DEF NewOnes, GoneOnes, News
  <1>4. Pulling'
    BY <1>1, <1>2, <1>3, AnswersOf DEF Pulling
  <1> QED
    BY <1>1, <1>2, <1>4, PhaseKeeps DEF Sending, NoSync

\* Something that was told is applied.
LEMMA ApplyKeeps ==
  ASSUME SyncGood, NEW f \in Feeds, AddOne(f) \/ RemoveOne(f)
  PROVE SyncInv'
  <1>1. /\ sync.pc = "pull" /\ sync.todo = {}
        /\ UNCHANGED <<snap, last, subs, log, open, now, kind>>
        /\ sync'.pc = "pull" /\ sync'.full = sync.full /\ sync'.since = sync.since /\ sync'.todo = {}
        /\ sync'.add = sync.add /\ sync'.remove = sync.remove
    BY DEF AddOne, RemoveOne, settings, SyncGood, SyncTyped, TypeOK, Sync
  <1>2. \/ /\ f \in sync.adding /\ local' = local \cup {f}
           /\ sync'.adding = sync.adding \ {f} /\ sync'.removing = sync.removing
        \/ /\ f \in sync.removing /\ local' = local \ {f}
           /\ sync'.removing = sync.removing \ {f} /\ sync'.adding = sync.adding
    BY DEF AddOne, RemoveOne, SyncGood, SyncTyped, TypeOK, Sync
  <1>3. NewOnes' = NewOnes /\ GoneOnes' = GoneOnes /\ \A e : (AddedFor(e, last))' = AddedFor(e, last) /\ (RemovedFor(e, last))' = RemovedFor(e, last)
    BY <1>1 DEF NewOnes, GoneOnes, News, AddedFor, RemovedFor, ChangesFor
  <1>4. NewOnes \cap GoneOnes = {}
    BY DEF NewOnes, GoneOnes
  <1>5. Pulling'
    <2>1. Pulling
      BY DEF SyncGood, SyncInv
    <2>2. /\ sync'.adding \subseteq sync.add /\ sync'.removing \subseteq sync.remove
          /\ sync.add \ sync'.adding \subseteq local' /\ (sync.remove \ sync'.removing) \cap local' = {}
      BY <1>1, <1>2, <1>4, <2>1 DEF Pulling
    <2> QED
      BY <1>1, <1>3, <2>1, <2>2 DEF Pulling
  <1> QED
    BY <1>1, <1>5, PhaseKeeps DEF Sending, NoSync

\* When all that was told is applied, the snapshot tells the difference.
LEMMA Difference ==
  ASSUME SyncGood, sync.pc = "pull", sync.todo = {}, sync.adding = {}, sync.removing = {}
  PROVE /\ Delta.add = local \ subs /\ Delta.remove = subs \ local
        /\ last # 0 => \A f \in Feeds : News(f) => (f \in local <=> f \in subs)
  <1>1. /\ sync.add = NewOnes /\ NewOnes \subseteq local /\ NewOnes \subseteq subs
        /\ sync.remove \subseteq GoneOnes /\ sync.remove \cap local = {}
        /\ last # 0 => sync.remove = GoneOnes
    BY DEF SyncGood, SyncInv, Pulling, NewOnes
  <1>2. local \subseteq Feeds /\ subs \subseteq Feeds /\ snap \subseteq Feeds
    BY DEF SyncGood, SyncTyped, TypeOK
  <1>3. CASE last = 0
    <2>1. snap = {} /\ NewOnes = subs
      BY <1>3 DEF SyncGood, SyncInv, Snapped, NewOnes
    <2> QED
      BY <1>1, <1>3, <2>1 DEF Delta
  <1>4. CASE last # 0
    <2>1. ASSUME NEW f \in Feeds, News(f)
          PROVE (f \in local <=> f \in subs) /\ (f \in sync.add <=> f \in subs) /\ (f \in sync.remove <=> f \notin subs)
      BY <1>1, <1>4, <2>1 DEF NewOnes, GoneOnes
    <2>2. ASSUME NEW f \in Feeds, ~News(f)
          PROVE (f \in snap <=> f \in subs) /\ f \notin sync.add /\ f \notin sync.remove
      BY <1>1, <1>4, <2>2 DEF NewOnes, GoneOnes, SyncGood, SyncInv, Snapped
    <2> QED
      BY <1>2, <2>1, <2>2 DEF Delta
  <1> QED
    BY <1>3, <1>4

LEMMA CompareKeeps ==
  ASSUME SyncGood, Compare
  PROVE SyncInv'
  <1>1. /\ sync.pc = "pull" /\ sync.todo = {} /\ sync.adding = {} /\ sync.removing = {} /\ ~sync.full
        /\ UNCHANGED <<local, snap, last, subs, log, open, now>>
    BY DEF Compare, SyncGood, SyncInv, SyncAlone, NoSync
  <1>2. /\ sync'.pc = "send" /\ sync'.full = sync.full /\ sync'.since = sync.since
        /\ sync'.mine = local /\ sync'.up = Delta
    BY <1>1 DEF Compare, SyncGood, SyncTyped, TypeOK, Sync
  <1>3. Sending'
    BY <1>1, <1>2, Difference DEF Sending, News
  <1>4. Pulling'
    BY <1>2 DEF Pulling
  <1> QED
    BY <1>1, <1>2, <1>3, <1>4, PhaseKeeps DEF NoSync

LEMMA SendKeeps ==
  ASSUME SyncGood, Send
  PROVE SyncInv'
  <1>1. /\ sync.pc = "send" /\ sync # NoSync /\ sync'.pc = "save" /\ sync'.full = sync.full /\ sync'.since = sync.since
        /\ sync'.mine = sync.mine /\ sync' # NoSync
        /\ UNCHANGED <<local, snap, last, open, now>>
        /\ log' = log \cup Uploaded /\ subs' = (subs \cup sync.up.add) \ sync.up.remove
    BY DEF Send, SyncGood, SyncTyped, TypeOK, Sync, NoSync
  <1>2. /\ sync.up.add = sync.mine \ subs /\ sync.up.remove = subs \ sync.mine
        /\ last # 0 => \A f \in Feeds : News(f) => (f \in sync.mine <=> f \in subs)
        /\ open = {} /\ ~sync.full /\ sync.since = last /\ (now > last \/ now = MaxTime)
    BY <1>1 DEF SyncGood, SyncInv, Sending, SyncAlone
  <1>3. subs' = sync.mine
    BY <1>1, <1>2
  <1>4. /\ now \in Int /\ last \in Int /\ last <= now /\ subs \subseteq Feeds /\ sync.mine \subseteq Feeds
        /\ log \subseteq Change
    BY DEF SyncGood, SyncTyped, TypeOK, Sync
  <1>5. /\ \A c \in Uploaded : c.at = now /\ (c.act = "add" <=> c.feed \in sync.mine)
        /\ \A f : f \in sync.up.add \cup sync.up.remove => \E c \in Uploaded : c.feed = f
    <2> DEFINE Up(f, act) == [dev |-> Own, feed |-> f, act |-> act, at |-> now]
    <2>1. \A f \in sync.up.add : Up(f, "add") \in Uploaded
      BY DEF Uploaded
    <2>2. \A f \in sync.up.remove : Up(f, "remove") \in Uploaded
      BY DEF Uploaded
    <2>3. ASSUME NEW c \in Uploaded PROVE c.at = now /\ (c.act = "add" <=> c.feed \in sync.mine)
      <3>1. (\E f \in sync.up.add : c = Up(f, "add")) \/ (\E f \in sync.up.remove : c = Up(f, "remove"))
        BY DEF Uploaded
      <3> QED
        BY <1>2, <3>1
    <2> QED
      BY <2>1, <2>2, <2>3
  <1>6. ASSUME last # 0, NEW c \in log', c.at > last PROVE c.act = "add" <=> c.feed \in subs'
    <2>1. CASE c \in Uploaded
      BY <1>3, <1>5, <2>1
    <2>2. CASE c \in log
      <3>1. News(c.feed) /\ c.feed \in Feeds /\ (c.act = "add" <=> c.feed \in subs)
        BY <1>4, <1>6, <2>2 DEF News, SyncGood, SyncInv, Snapped, Change
      <3> QED
        BY <1>2, <1>3, <1>6, <3>1
    <2> QED
      BY <1>1, <2>1, <2>2
  <1>7. ASSUME last # 0, now # last, NEW f \in Feeds, ~News(f)' PROVE f \in subs' <=> f \in snap
    <2>1. ~News(f) /\ f \notin sync.up.add \cup sync.up.remove
      <3>1. now > last
        BY <1>4, <1>7
      <3> QED
        BY <1>1, <1>5, <1>7, <3>1 DEF News
    <2>2. f \in subs <=> f \in snap
      BY <1>1, <1>7, <2>1 DEF SyncGood, SyncInv, Snapped
    <2> QED
      BY <1>1, <2>1, <2>2
  <1>8. Snapped'
    BY <1>1, <1>6, <1>7 DEF SyncGood, SyncInv, Snapped
  <1>9. SyncAlone'
    BY <1>1, <1>2 DEF SyncAlone
  <1> QED
    BY <1>1, <1>3, <1>8, <1>9 DEF SyncInv, Pulling, Sending

LEMMA SaveKeeps ==
  ASSUME SyncGood, Save
  PROVE SyncInv'
  <1>1. /\ sync.pc = "save" /\ sync # NoSync /\ sync'.pc = "close" /\ sync'.full = sync.full /\ sync'.since = sync.since
        /\ sync'.mine = sync.mine /\ snap' = sync.mine
        /\ UNCHANGED <<local, last, subs, log, open, now>>
    BY DEF Save, SyncGood, SyncTyped, TypeOK, Sync, NoSync
  <1>2. subs = sync.mine
    BY <1>1 DEF SyncGood, SyncInv, Sending
  <1> QED
    BY <1>1, <1>2 DEF SyncGood, SyncInv, SyncAlone, Snapped, Pulling, Sending, News

LEMMA CloseKeeps ==
  ASSUME SyncGood, Close
  PROVE SyncInv'
  <1>1. /\ sync.pc = "close" /\ ~sync.full /\ sync' = NoSync /\ last' = now /\ open = {}
        /\ UNCHANGED <<local, snap, subs, log, open, now>> /\ subs = snap
    BY DEF Close, SyncGood, SyncInv, SyncAlone, Sending, NoSync
  <1>2. now \in Int /\ now # 0 /\ \A c \in log : c.at <= now /\ c.at \in Int
    BY DEF SyncGood, SyncTyped, TypeOK, Change
  <1>3. \A c \in log' : ~(c.at > last')
    BY <1>1, <1>2
  <1> QED
    BY <1>1, <1>2, <1>3 DEF SyncInv, SyncAlone, Snapped, Pulling, Sending, News, NoSync

\* Wherever a sync stops, the snapshot still is that of the last one.
LEMMA StopKeeps ==
  ASSUME SyncGood, Stop
  PROVE SyncInv'
  <1>1. /\ sync # NoSync /\ sync' = NoSync /\ now < MaxTime /\ (last # 0 \/ sync.pc # "close")
        /\ UNCHANGED <<local, snap, last, subs, log, open, now>>
    BY DEF Stop, Event, May, SyncGood
  <1>2. now \in Int /\ last \in Int /\ MaxTime \in Int /\ now > last
    BY <1>1, SyncAssumption DEF SyncGood, SyncTyped, TypeOK, SyncInv, SyncAlone
  <1> QED
    BY <1>1, <1>2 DEF SyncGood, SyncInv, SyncAlone, Snapped, Pulling, Sending, News, NoSync

LEMMA SyncInvStep == OtherDevice /\ SyncTyped /\ SyncIInv /\ [Next]_vars => SyncIInv'
  <1> SUFFICES ASSUME OtherDevice, SyncTyped, SyncIInv, [Next]_vars, faults' = {} PROVE SyncInv'
    BY DEF SyncIInv
  <1>1. CASE UNCHANGED vars
    BY <1>1 DEF vars, settings, SyncIInv, SyncInv, SyncAlone, Snapped, Pulling, Sending, News, NewOnes, GoneOnes,
                AddedFor, RemovedFor, ChangesFor
  <1>2. CASE Next
    <2>1. faults = {}
      BY <1>2 DEF Next, Tick, Stamp, Commit, Edit, Begin, SyncStep, Ask, AskFails, AskOnce, AskOnceFails,
                  AddOne, AddFails, RemoveOne, Compare, Send, SendFails, Save, Close, Stop, settings
    <2>2. SyncGood
      BY <2>1 DEF SyncGood, SyncIInv
    <2>3. CASE SyncStep
      <3>1. /\ \A d \in Devices : ~AskFails(d)
            /\ ~AskOnceFails /\ ~SendFails /\ \A f \in Feeds : ~AddFails(f)
        BY <2>1 DEF AskFails, AskOnceFails, SendFails, AddFails, May
      <3> QED
        BY <2>2, <2>3, <3>1, AskKeeps, AskOnceKeeps, ApplyKeeps, CompareKeeps, SendKeeps, SaveKeeps, CloseKeeps DEF SyncStep
    <2> QED
      BY <1>2, <2>2, <2>3, TickKeeps, StampKeeps, CommitKeeps, EditKeeps, BeginKeeps, StopKeeps DEF Next
  <1> QED
    BY <1>1, <1>2

\* The tables, the log and the sync are what they should be, whatever goes wrong.
THEOREM SyncTypesKept == Spec => []TypeOK
  <1>1. SyncTyped => TypeOK
    BY DEF SyncTyped
  <1> QED
    BY <1>1, SyncTypesInit, SyncTypesStep, PTL DEF Spec

LEMMA SyncInvKept ==
  ASSUME OtherDevice
  PROVE Spec => [](SyncTyped /\ SyncIInv)
  <1>1. Init => SyncTyped /\ SyncIInv
    BY SyncTypesInit, SyncInvInit
  <1>2. SyncTyped /\ SyncIInv /\ [Next]_vars => (SyncTyped /\ SyncIInv)'
    BY SyncTypesStep, SyncInvStep
  <1> QED
    BY <1>1, <1>2, PTL DEF Spec

\* Between syncs a difference is one that the next sync finds.
THEOREM DifferencesFound ==
  ASSUME OtherDevice
  PROVE Spec => []Reconciled
  <1>1. ASSUME SyncTyped, SyncIInv, faults = {} PROVE Repairable
    <2>1. SyncGood
      BY <1>1 DEF SyncGood, SyncIInv
    <2>2. SUFFICES ASSUME sync = NoSync, NEW f \in Feeds, (f \in local) # (f \in subs), ~FoundHere(f) PROVE FoundThere(f)
      BY DEF Repairable
    <2>3. CASE last = 0
      <3>1. snap = {} /\ Own \in Devices
        BY <2>1, <2>2, <2>3, SyncAssumption DEF SyncGood, SyncInv, Snapped, NoSync
      <3> QED
        BY <2>2, <2>3, <3>1 DEF FoundHere, FoundThere, AddedFor, AddedForAll
    <2>4. CASE last # 0
      <3>1. News(f)
        BY <2>1, <2>2, <2>4 DEF FoundHere, SyncGood, SyncInv, Snapped, NoSync
      <3>2. f \in subs => f \in NewOnes
        BY <3>1 DEF NewOnes
      <3>3. f \notin subs => f \in GoneOnes
        BY <3>1 DEF GoneOnes
      <3> QED
        BY <2>1, <2>2, <2>4, <3>2, <3>3, AnswersOf DEF FoundThere
    <2> QED
      BY <2>3, <2>4
  <1>2. SyncTyped /\ SyncIInv => Reconciled
    BY <1>1 DEF Reconciled
  <1> QED
    BY <1>2, SyncInvKept, PTL

\* What an incremental sync uploads is news to the server.
THEOREM OnlyNewsUploaded ==
  ASSUME OtherDevice
  PROVE Spec => []UploadsNews
  <1>1. SyncTyped /\ SyncIInv => UploadsNews
    BY DEF SyncIInv, SyncInv, Sending, UploadsNews
  <1> QED
    BY <1>1, SyncInvKept, PTL

-----------------------------------------------------------------------------
(* Positions (ActionSync)                                                  *)

-----------------------------------------------------------------------------
(* The least and the greatest of a set of numbers                          *)

\* The library's induction theorems cannot be instantiated; its theorem that the
\* subsets of a finite set are well-founded can.
LEMMA GreatestOf ==
  ASSUME NEW S, IsFiniteSet(S), S # {}, S \subseteq Int
  PROVE \E m \in S : \A s \in S : s <= m
  <1> DEFINE Above(x) == {y \in S : y > x}
             Aboves == {Above(x) : x \in S}
  <1>1. IsWellFoundedOn(StrictSubsetOrdering(S), SUBSET S)
    BY FS_StrictSubsetOrderingWellFounded, FS_FiniteSubsetsOfFinite
  <1>2. PICK A \in Aboves : \A B \in Aboves : <<B, A>> \notin StrictSubsetOrdering(S)
    <2>1. Aboves \subseteq SUBSET S /\ Aboves # {}
      OBVIOUS
    <2> HIDE DEF Aboves
    <2> QED
      BY <1>1, <2>1, WFMin
  <1>3. PICK m \in S : A = Above(m)
    OBVIOUS
  <1>4. ASSUME NEW s \in S, s > m PROVE FALSE
    <2>1. Above(s) \subseteq Above(m) /\ s \in Above(m) /\ s \notin Above(s)
      <3>1. \A y \in S : y > s => y > m
        BY <1>4, SMT
      <3>2. s > m /\ ~(s > s)
        BY <1>4, SMT
      <3> HIDE DEF Aboves
      <3> QED
        BY <3>1, <3>2, Zenon
    <2>2. <<Above(s), A>> \in StrictSubsetOrdering(S)
      BY <1>3, <2>1 DEF StrictSubsetOrdering
    <2> QED
      BY <1>2, <2>2
  <1> QED
    BY <1>4

-----------------------------------------------------------------------------
(* The actions of two installations                                        *)

\* An action the position here has taken in.
Level(a) == reset < a.at => a.pos <= heard.pos

ActionTyped ==
  /\ ActionTypeOK /\ IsFiniteSet(plays) /\ IsFiniteSet(pull.up)
  /\ \A a \in plays \cup {heard} \cup pull.todo \cup pull.up : a.at <= clock

\* Two actions of one second are one of a phone and one of PinePods, that came
\* after it.
Tied == \A a, b \in plays : a # b /\ a.at = b.at => Level(a)

\* What was set here up to the last sync is in the log.
Logged == heard.pos > 0 /\ heard.at <= synced => heard \in plays

\* What each phase of a sync has taken in.
Pulled ==
  /\ pull # NoPull => pull.pc # "idle" /\ clock > synced /\ pull.since = synced /\ synced <= pull.from
  /\ pull.todo \subseteq plays /\ \A a \in pull.todo : a.at > synced
  /\ pull = NoPull => \A a \in plays : a.at <= synced => Level(a)
  /\ pull.pc = "fetch" => \A a \in plays : a.at <= pull.from => Level(a) \/ a \in pull.todo
  /\ pull.pc = "apply" => \A a \in plays : Level(a) \/ a \in pull.todo
  /\ pull.pc \in {"upload", "close"} => pull.todo = {} /\ \A a \in plays : Level(a)
  /\ pull.pc = "upload" => pull.up \subseteq {heard} /\ (heard.pos > 0 => heard \in plays \cup pull.up)
  /\ pull.pc = "close" => (heard.pos > 0 => heard \in plays)

ActionInv == Tied /\ Logged /\ Pulled

ActionIInv == wrong = {} => ActionInv
-----------------------------------------------------------------------------
(* The oldest actions after a time                                         *)

\* A page that is full ends at the time of its latest action, and what it leaves
\* out is of that time or later.
LEMMA FullPage ==
  ASSUME ActionTypeOK, IsFiniteSet(plays), NEW since \in 0..MaxClock, NEW page \in Pages(since), page # {}
  PROVE /\ Latest(page) \in 0..MaxClock /\ since < Latest(page)
        /\ \E l \in page : l.at = Latest(page)
        /\ \A a \in plays : since < a.at /\ a.at < Latest(page) => a \in page
  <1> DEFINE Times == {a.at : a \in page}
  <1>1. page \subseteq plays /\ page \subseteq Play /\ \A a \in page : a.at > since
    BY DEF Pages, ActionTypeOK
  <1>2. Times \subseteq Int /\ Times # {} /\ Times \subseteq 0..MaxClock
    BY <1>1 DEF Play
  <1>3. IsFiniteSet(Times)
    <2>1. IsFiniteSet(0..MaxClock)
      BY FS_Interval, ActionAssumption
    <2> HIDE DEF Times
    <2> QED
      BY <1>2, <2>1, FS_Subset
  <1>4. \E m \in Times : \A t \in Times : t <= m
    <2> HIDE DEF Times
    <2> QED
      BY <1>2, <1>3, GreatestOf
  <1>5. Latest(page) \in Times /\ \A t \in Times : t <= Latest(page)
    BY <1>4 DEF Latest
  <1>6. PICK l \in page : l.at = Latest(page)
    BY <1>5
  <1>7. ASSUME NEW a \in plays, since < a.at, a.at < Latest(page) PROVE a \in page
    <2>1. a \notin page => l.at <= a.at
      BY <1>6, <1>7 DEF Pages
    <2>2. a.at \in Int /\ l.at \in Int
      BY <1>1, <1>6 DEF ActionTypeOK, Play
    <2> QED
      BY <1>6, <1>7, <2>1, <2>2
  <1> QED
    BY <1>1, <1>2, <1>5, <1>6, <1>7

\* A page that is not full leaves nothing out.
LEMMA LastPage ==
  ASSUME IsFiniteSet(plays), NEW since, NEW page \in Pages(since), Cardinality(page) < Page
  PROVE \A a \in plays : a.at > since => a \in page
  <1> DEFINE due == {a \in plays : a.at > since}
  <1>1. IsFiniteSet(due) /\ page \in SUBSET due
        /\ Cardinality(page) = IF Cardinality(due) < Page THEN Cardinality(due) ELSE Page
    BY FS_Subset DEF Pages
  <1>2. Cardinality(due) \in Nat /\ Page \in Nat
    BY <1>1, FS_CardinalityType, ActionAssumption
  <1>3. Cardinality(page) = Cardinality(due)
    BY <1>1, <1>2
  <1>4. due = page
    <2> HIDE DEF due
    <2> QED
      BY <1>1, <1>3, FS_Subset
  <1> QED
    BY <1>4

-----------------------------------------------------------------------------
(* Types                                                                   *)

LEMMA OneIsFinite == \A x : IsFiniteSet({x})
  BY FS_Singleton

LEMMA ActionTypesInit == ActionInit => ActionTyped
  BY ActionAssumption, FS_EmptySet DEF ActionInit, ActionTyped, ActionTypeOK, NoPull, Play

LEMMA AppliedIsPlay ==
  ASSUME ActionTyped, NEW a \in Play, a.at <= clock
  PROVE Applied(a) \in Play /\ Applied(a).at <= clock
  BY ActionAssumption DEF Applied, ActionTyped, ActionTypeOK, Play

PullType ==
  [pc : {"idle", "fetch", "apply", "upload", "close"}, since : 0..MaxClock, from : 0..MaxClock,
   todo : SUBSET Play, up : SUBSET Play]

LEMMA NoPullTyped == NoPull \in PullType /\ NoPull.todo = {} /\ NoPull.up = {} /\ IsFiniteSet(NoPull.up)
  BY ActionAssumption, FS_EmptySet DEF NoPull, PullType

LEMMA ActionTypesStep == ActionTyped /\ [ActionNext]_actionVars => ActionTyped'
  <1> SUFFICES ASSUME ActionTyped, ActionNext PROVE ActionTyped'
    BY DEF ActionTyped, ActionTypeOK, actionVars
  <1> USE ActionAssumption DEF ActionTyped
  <1>1. CASE Pass
    BY <1>1 DEF Pass, ActionTypeOK, Play
  <1>2. ASSUME NEW p \in 1..Length, NEW at \in 1..MaxClock, PhonePlays(p, at) PROVE ActionTyped'
    <2>1. plays' = plays \cup {[pos |-> p, at |-> at]} /\ [pos |-> p, at |-> at] \in Play /\ at <= clock
      BY <1>2 DEF PhonePlays, ActionTypeOK, Play
    <2>2. IsFiniteSet(plays')
      BY <2>1, FS_AddElement
    <2> QED
      BY <1>2, <2>1, <2>2 DEF PhonePlays, Deed, ActionTypeOK, Play
  <1>3. ASSUME NEW p \in 1..Length, Listen(p) PROVE ActionTyped'
    BY <1>3 DEF Listen, Deed, ActionTypeOK, Play
  <1>4. CASE SetBack
    BY <1>4, ActionAssumption DEF SetBack, Deed, ActionTypeOK, Play
  <1>5. CASE BeginPull
    <2>1. pull' = [pc |-> "fetch", since |-> synced, from |-> synced, todo |-> {}, up |-> {}]
      BY <1>5 DEF BeginPull, NoPull
    <2>2. pull'.todo = {} /\ pull'.up = {} /\ synced \in 0..MaxClock
      BY <2>1 DEF ActionTypeOK
    <2> QED
      BY <1>5, <2>1, <2>2, FS_EmptySet DEF BeginPull, ActionTypeOK
  <1>6. CASE Fetch
    <2>1. PICK page \in Pages(pull.from) :
            LET got == [pull EXCEPT !.todo = @ \cup page]
            IN pull' = IF Cardinality(page) < Page THEN [got EXCEPT !.pc = "apply"]
                       ELSE [got EXCEPT !.from = NextSince(page)]
      BY <1>6 DEF Fetch
    <2>2. page \subseteq Play /\ pull.from \in 0..MaxClock
      BY DEF Pages, ActionTypeOK
    <2>3. ~(Cardinality(page) < Page) => NextSince(page) \in 0..MaxClock
      <3>1. ~(Cardinality(page) < Page) => page # {}
        <4>1. Cardinality({}) < Page
          BY FS_EmptySet
        <4> QED
          BY <4>1
      <3> QED
        BY <2>2, <3>1, FullPage DEF NextSince
    <2>4. /\ pull' \in PullType /\ pull'.todo = pull.todo \cup page /\ pull'.up = pull.up
      <3>1. pull \in PullType
        BY DEF ActionTypeOK, PullType
      <3>2. CASE Cardinality(page) < Page
        BY <2>1, <2>2, <3>1, <3>2 DEF PullType
      <3>3. CASE ~(Cardinality(page) < Page)
        <4>1. pull' = [[pull EXCEPT !.todo = @ \cup page] EXCEPT !.from = NextSince(page)]
          BY <2>1, <3>3
        <4> QED
          BY <2>2, <2>3, <3>1, <3>3, <4>1 DEF PullType
      <3> QED
        BY <3>2, <3>3
    <2>5. page \subseteq plays
      BY DEF Pages
    <2> QED
      BY <1>6, <2>4, <2>5 DEF Fetch, ActionTypeOK, PullType
  <1>7. CASE FetchFails
    BY <1>7 DEF FetchFails, ActionTypeOK
  <1>8. ASSUME NEW a \in pull.todo, Apply(a) PROVE ActionTyped'
    <2>1. a \in Play /\ a.at <= clock
      BY DEF ActionTypeOK
    <2>2. pull' \in PullType /\ pull'.todo = pull.todo \ {a} /\ pull'.up = pull.up
      BY <1>8 DEF Apply, ActionTypeOK, PullType
    <2>3. heard' \in Play /\ heard'.at <= clock
      BY <1>8, <2>1, AppliedIsPlay DEF Apply, ActionTypeOK
    <2> QED
      BY <1>8, <2>2, <2>3 DEF Apply, ActionTypeOK, PullType
  <1>9. ASSUME NEW a \in pull.todo, Skip(a) PROVE ActionTyped'
    BY <1>9 DEF Skip, ActionTypeOK
  <1>10. CASE ReadHistory
    <2>1. /\ pull' \in PullType /\ pull'.todo = pull.todo
          /\ pull'.up = IF heard.at > pull.since /\ heard.pos > 0 THEN {heard} ELSE {}
      BY <1>10 DEF ReadHistory, ActionTypeOK, PullType
    <2>2. IsFiniteSet(pull'.up) /\ pull'.up \subseteq {heard}
      BY <2>1, OneIsFinite, FS_EmptySet
    <2> QED
      BY <1>10, <2>1, <2>2 DEF ReadHistory, ActionTypeOK, PullType
  <1>11. CASE Upload
    <2>1. PICK taken \in {pull.up, {}} : plays' = plays \cup taken
      BY <1>11 DEF Upload
    <2>2. IsFiniteSet(plays')
      BY <2>1, FS_Union, FS_EmptySet
    <2>3. pull' \in PullType /\ pull'.todo = pull.todo /\ pull'.up = pull.up
      BY <1>11 DEF Upload, ActionTypeOK, PullType
    <2> QED
      BY <1>11, <2>1, <2>2, <2>3 DEF Upload, ActionTypeOK, PullType
  <1>12. CASE ClosePull
    BY <1>12, NoPullTyped DEF PullType, ClosePull, ActionTypeOK
  <1>13. CASE StopPull
    BY <1>13, NoPullTyped DEF PullType, StopPull, ActionTypeOK
  <1> QED
    BY <1>1, <1>2, <1>3, <1>4, <1>5, <1>6, <1>7, <1>8, <1>9, <1>10, <1>11, <1>12, <1>13 DEF ActionNext

-----------------------------------------------------------------------------
(* What is exchanged                                                       *)

ActionGood == ActionTyped /\ ActionInv /\ wrong = {}

LEMMA ActionInvInit == ActionInit => ActionIInv
  BY ActionAssumption DEF ActionInit, ActionIInv, ActionInv, Tied, Logged, Pulled, NoPull

\* What was taken in stays so: the position is only set back now.
LEMMA LevelStays ==
  ASSUME ActionTyped, heard' \in Play, (heard'.pos >= heard.pos /\ reset' = reset) \/ reset' = clock
  PROVE \A a \in plays : Level(a) => Level(a)'
  BY DEF Level, ActionTyped, ActionTypeOK, Play

LEMMA PassExchanges ==
  ASSUME ActionGood, ActionTyped', Pass
  PROVE ActionInv'
  <1>1. UNCHANGED <<heard, reset, synced, plays, pull>> /\ clock' = clock + 1
    BY DEF Pass
  <1>2. synced \in Int /\ clock \in Int
    BY DEF ActionGood, ActionTyped, ActionTypeOK
  <1> QED
    BY <1>1, <1>2 DEF ActionGood, ActionInv, Tied, Logged, Pulled, Level

LEMMA PhoneExchanges ==
  ASSUME ActionGood, ActionTyped', NEW p \in 1..Length, NEW at \in 1..MaxClock, PhonePlays(p, at)
  PROVE ActionInv'
  <1> DEFINE new == [pos |-> p, at |-> at]
  <1>1. /\ UNCHANGED <<heard, reset, synced, pull, clock>> /\ plays' = plays \cup {new}
        /\ pull = NoPull /\ at = clock /\ clock > synced /\ \A a \in plays : a.at # at
    BY DEF PhonePlays, Deed, Goes, ActionGood
  <1>2. \A a \in plays : Level(a)' <=> Level(a)
    BY <1>1 DEF Level
  <1>3. Tied'
    BY <1>1, <1>2 DEF ActionGood, ActionInv, Tied
  <1>4. Logged'
    BY <1>1 DEF ActionGood, ActionInv, Logged
  <1>5. Pulled'
    <2>1. synced \in Int /\ clock \in Int
      BY DEF ActionGood, ActionTyped, ActionTypeOK
    <2> QED
      BY <1>1, <1>2, <2>1 DEF ActionGood, ActionInv, Pulled, NoPull
  <1> QED
    BY <1>3, <1>4, <1>5 DEF ActionInv

\* The user sets the position here, after the last sync.
LEMMA SetExchanges ==
  ASSUME ActionGood, ActionTyped', Deed, UNCHANGED <<synced, plays, pull, clock>>, heard'.at = clock,
         (heard'.pos >= heard.pos /\ reset' = reset) \/ reset' = clock
  PROVE ActionInv'
  <1>1. clock > synced /\ pull.pc \in {"idle", "fetch", "apply"}
    BY DEF Deed, Goes, ActionGood
  <1>2. \A a \in plays : Level(a) => Level(a)'
    BY LevelStays DEF ActionGood, ActionTyped, ActionTypeOK
  <1>3. Tied'
    BY <1>2 DEF ActionGood, ActionInv, Tied
  <1>4. Logged'
    <2>1. synced \in Int /\ clock \in Int
      BY DEF ActionGood, ActionTyped, ActionTypeOK
    <2> QED
      BY <1>1, <2>1 DEF Logged
  <1>5. Pulled'
    BY <1>1, <1>2 DEF ActionGood, ActionInv, Pulled
  <1> QED
    BY <1>3, <1>4, <1>5 DEF ActionInv

LEMMA BeginExchanges ==
  ASSUME ActionGood, BeginPull
  PROVE ActionInv'
  <1>1. /\ UNCHANGED <<heard, reset, synced, plays, clock>> /\ clock > synced /\ pull = NoPull
        /\ pull' = [pc |-> "fetch", since |-> synced, from |-> synced, todo |-> {}, up |-> {}]
    BY DEF BeginPull, NoPull
  <1>2. synced \in Int
    BY DEF ActionGood, ActionTyped, ActionTypeOK
  <1>3. Pulled'
    BY <1>1, <1>2 DEF ActionGood, ActionInv, Pulled, Level, NoPull
  <1> QED
    BY <1>1, <1>3 DEF ActionGood, ActionInv, Tied, Logged, Level

LEMMA FetchExchanges ==
  ASSUME ActionGood, ActionTyped', Fetch
  PROVE ActionInv'
  <1>1. UNCHANGED <<heard, reset, synced, plays, clock>> /\ pull.pc = "fetch"
    BY DEF Fetch
  <1>2. PICK page \in Pages(pull.from) :
          LET got == [pull EXCEPT !.todo = @ \cup page]
          IN pull' = IF Cardinality(page) < Page THEN [got EXCEPT !.pc = "apply"]
                     ELSE [got EXCEPT !.from = NextSince(page)]
    BY DEF Fetch
  <1>3. /\ page \subseteq plays /\ \A a \in page : a.at > pull.from
        /\ pull.from \in 0..MaxClock /\ synced \in 0..MaxClock /\ plays \subseteq Play /\ IsFiniteSet(plays)
    <2>1. page \subseteq plays /\ \A a \in page : a.at > pull.from
      BY DEF Pages
    <2>2. clock \in 0..MaxClock /\ synced \in 0..clock /\ MaxClock \in Int
      BY ActionAssumption DEF ActionGood, ActionTyped, ActionTypeOK
    <2> QED
      BY <2>1, <2>2 DEF ActionGood, ActionTyped, ActionTypeOK
  <1>4. /\ clock > synced /\ pull.since = synced /\ synced <= pull.from
        /\ pull.todo \subseteq plays /\ \A a \in pull.todo : a.at > synced
        /\ \A a \in plays : a.at <= pull.from => Level(a) \/ a \in pull.todo
    BY <1>1 DEF ActionGood, ActionInv, Pulled, NoPull
  <1>5. pull'.todo = pull.todo \cup page /\ pull'.since = pull.since
    BY <1>2 DEF ActionGood, ActionTyped, ActionTypeOK
  <1>6. \A a \in pull'.todo : a \in plays /\ a.at > synced
    BY <1>3, <1>4, <1>5 DEF Play
  <1>7. CASE Cardinality(page) < Page
    <2>1. pull'.pc = "apply" /\ pull'.from = pull.from
      BY <1>2, <1>7 DEF ActionGood, ActionTyped, ActionTypeOK
    <2>2. \A a \in plays : Level(a) \/ a \in pull'.todo
      <3>1. \A a \in plays : a.at > pull.from => a \in page
        BY <1>3, <1>7, LastPage
      <3> QED
        BY <1>3, <1>4, <1>5, <3>1 DEF Play
    <2> QED
      BY <1>1, <1>4, <1>5, <1>6, <2>1, <2>2 DEF ActionGood, ActionInv, Tied, Logged, Pulled, Level, NoPull
  <1>8. CASE ~(Cardinality(page) < Page)
    <2>1. pull'.pc = "fetch" /\ pull'.from = Latest(page)
      BY <1>1, <1>2, <1>8 DEF ActionGood, ActionTyped, ActionTypeOK, NextSince
    <2>2. page # {}
      <3>1. Cardinality({}) < Page
        BY FS_EmptySet, ActionAssumption
      <3> QED
        BY <1>8, <3>1
    <2>3. /\ Latest(page) \in 0..MaxClock /\ pull.from < Latest(page)
          /\ \E l \in page : l.at = Latest(page)
          /\ \A a \in plays : pull.from < a.at /\ a.at < Latest(page) => a \in page
      BY <1>3, <2>2, FullPage DEF ActionGood, ActionTyped
    <2>4. ASSUME NEW a \in plays, a.at <= Latest(page) PROVE Level(a) \/ a \in pull'.todo
      <3>1. a.at \in Int
        BY <1>3 DEF Play
      <3>2. PICK l \in page : l.at = Latest(page)
        BY <2>3
      <3>3. a # l /\ a.at = l.at => Level(a)
        BY <1>3 DEF ActionGood, ActionInv, Tied
      <3>4. CASE a.at <= pull.from
        BY <1>4, <1>5, <3>4
      <3>5. CASE pull.from < a.at /\ a.at < Latest(page)
        BY <1>5, <2>3, <3>5
      <3>6. CASE a.at = Latest(page)
        BY <1>5, <3>2, <3>3, <3>6
      <3> QED
        BY <1>3, <2>3, <2>4, <3>1, <3>4, <3>5, <3>6
    <2>5. synced <= Latest(page)
      BY <1>3, <1>4, <2>3
    <2> QED
      BY <1>1, <1>4, <1>5, <1>6, <2>1, <2>4, <2>5 DEF ActionGood, ActionInv, Tied, Logged, Pulled, Level, NoPull
  <1> QED
    BY <1>7, <1>8

\* What is applied is taken in, and is later than the last sync.
LEMMA ApplyExchanges ==
  ASSUME ActionGood, ActionTyped', NEW a \in pull.todo, Apply(a)
  PROVE ActionInv'
  <1>1. /\ UNCHANGED <<reset, synced, plays, clock>> /\ pull.pc = "apply"
        /\ heard' = Applied(a)
        /\ pull'.pc = "apply" /\ pull'.todo = pull.todo \ {a}
        /\ pull'.since = pull.since /\ pull'.from = pull.from
    BY DEF Apply, ActionGood, ActionTyped, ActionTypeOK
  <1>2. /\ a \in plays /\ a.at > synced /\ clock > synced /\ pull.since = synced /\ synced <= pull.from
        /\ pull.todo \subseteq plays /\ \A b \in pull.todo : b.at > synced
        /\ \A b \in plays : Level(b) \/ b \in pull.todo
    BY <1>1 DEF ActionGood, ActionInv, Pulled, NoPull
  <1>3. a \in Play /\ heard \in Play /\ heard' \in Play /\ Near \in Nat /\ Length \in Nat
    BY <1>2, ActionAssumption DEF ActionGood, ActionTyped, ActionTypeOK
  <1>4. heard'.pos >= heard.pos /\ heard'.pos >= a.pos
    BY <1>1, <1>3 DEF Applied, Play
  <1>5. heard' = heard \/ heard'.at > synced
    BY <1>1, <1>2, <1>3 DEF Applied, Play
  <1>6. \A b \in plays : Level(b) => Level(b)'
    BY <1>1, <1>3, <1>4, LevelStays DEF ActionGood
  <1>7. Level(a)'
    BY <1>1, <1>3, <1>4 DEF Level, Play
  <1>8. Logged'
    <2>1. heard' \in Play /\ synced \in Int
      BY <1>3 DEF ActionGood, ActionTyped, ActionTypeOK
    <2> QED
      BY <1>1, <1>5, <2>1 DEF ActionGood, ActionInv, Logged, Play
  <1>9. Pulled'
    BY <1>1, <1>2, <1>6, <1>7 DEF Pulled, NoPull
  <1> QED
    BY <1>1, <1>6, <1>8, <1>9 DEF ActionGood, ActionInv, Tied

LEMMA ReadExchanges ==
  ASSUME ActionGood, ReadHistory
  PROVE ActionInv'
  <1>1. /\ UNCHANGED <<heard, reset, synced, plays, clock>>
        /\ pull.pc = "apply" /\ pull.todo = {} /\ pull'.pc = "upload" /\ pull'.todo = {}
        /\ pull'.since = pull.since /\ pull'.from = pull.from
        /\ pull'.up = IF heard.at > pull.since /\ heard.pos > 0 THEN {heard} ELSE {}
    BY DEF ReadHistory, ActionGood, ActionTyped, ActionTypeOK
  <1>2. heard.pos > 0 => heard \in plays \cup pull'.up
    <2>1. heard.at \in Int /\ synced \in Int /\ pull.since = synced
      BY <1>1 DEF ActionGood, ActionInv, Pulled, NoPull, ActionTyped, ActionTypeOK, Play
    <2> QED
      BY <1>1, <2>1 DEF ActionGood, ActionInv, Logged
  <1> QED
    BY <1>1, <1>2 DEF ActionGood, ActionInv, Tied, Logged, Pulled, Level, NoPull

\* What is uploaded is the position here, which all actions are level with.
LEMMA UploadExchanges ==
  ASSUME ActionGood, Upload
  PROVE ActionInv'
  <1>1. /\ UNCHANGED <<heard, reset, synced, clock>> /\ plays' = plays \cup pull.up
        /\ pull.pc = "upload" /\ pull'.pc = "close" /\ pull'.todo = pull.todo
        /\ pull'.since = pull.since /\ pull'.from = pull.from
    BY DEF Upload, Goes, ActionGood, ActionTyped, ActionTypeOK
  <1>2. /\ pull.todo = {} /\ \A a \in plays : Level(a)
        /\ pull.up \subseteq {heard} /\ (heard.pos > 0 => heard \in plays \cup pull.up)
        /\ clock > synced /\ pull.since = synced /\ synced <= pull.from
    BY <1>1 DEF ActionGood, ActionInv, Pulled, NoPull
  <1>3. \A a \in plays' : Level(a)'
    <2>1. heard.pos <= heard.pos
      BY DEF ActionGood, ActionTyped, ActionTypeOK, Play
    <2> QED
      BY <1>1, <1>2, <2>1 DEF Level
  <1> QED
    BY <1>1, <1>2, <1>3 DEF ActionGood, ActionInv, Tied, Logged, Pulled, NoPull

LEMMA CloseExchanges ==
  ASSUME ActionGood, ClosePull
  PROVE ActionInv'
  <1>1. UNCHANGED <<heard, reset, plays, clock>> /\ pull.pc = "close" /\ pull' = NoPull
    BY DEF ClosePull
  <1>2. (\A a \in plays : Level(a)) /\ (heard.pos > 0 => heard \in plays)
    BY <1>1 DEF ActionGood, ActionInv, Pulled
  <1> QED
    BY <1>1, <1>2 DEF ActionGood, ActionInv, Tied, Logged, Pulled, Level, NoPull

\* What was taken in up to the last sync is not lost with the sync.
LEMMA StopExchanges ==
  ASSUME ActionGood, StopPull
  PROVE ActionInv'
  <1>1. UNCHANGED <<heard, reset, synced, plays, clock>> /\ pull # NoPull /\ pull' = NoPull
    BY DEF StopPull
  <1>2. pull.pc \in {"fetch", "apply", "upload", "close"}
    BY <1>1 DEF ActionGood, ActionInv, Pulled, ActionTyped, ActionTypeOK
  <1>3. plays \subseteq Play /\ synced \in Int /\ pull.from \in Int
    BY DEF ActionGood, ActionTyped, ActionTypeOK
  <1>4. /\ synced <= pull.from /\ \A a \in pull.todo : a.at > synced
        /\ \A a \in plays : a.at <= pull.from \/ pull.pc # "fetch" => Level(a) \/ a \in pull.todo
    BY <1>1, <1>2 DEF ActionGood, ActionInv, Pulled
  <1>5. ASSUME NEW a \in plays, a.at <= synced PROVE Level(a)
    <2>1. a.at \in Int
      BY <1>3 DEF Play
    <2> QED
      BY <1>3, <1>4, <1>5, <2>1
  <1> QED
    BY <1>1, <1>5 DEF ActionGood, ActionInv, Tied, Logged, Pulled, Level, NoPull

LEMMA ActionInvStep == ActionTyped /\ ActionTyped' /\ ActionIInv /\ [ActionNext]_actionVars => ActionIInv'
  <1> SUFFICES ASSUME ActionTyped, ActionTyped', ActionIInv, [ActionNext]_actionVars, wrong' = {}
               PROVE ActionInv'
    BY DEF ActionIInv
  <1>1. CASE UNCHANGED actionVars
    BY <1>1 DEF actionVars, ActionIInv, ActionInv, Tied, Logged, Pulled, Level
  <1>2. CASE ActionNext
    <2>1. wrong = {}
      BY <1>2 DEF ActionNext, Pass, PhonePlays, Listen, SetBack, BeginPull, Fetch, FetchFails, Apply, Skip,
                  ReadHistory, Upload, ClosePull, StopPull
    <2>2. ActionGood
      BY <2>1 DEF ActionGood, ActionIInv
    <2>3. ASSUME NEW p \in 1..Length, Listen(p) PROVE ActionInv'
      <3>1. heard' = [pos |-> p, at |-> clock] /\ p > heard.pos /\ Deed /\ UNCHANGED <<reset, synced, plays, pull, clock>>
        BY <2>3 DEF Listen
      <3>2. heard'.pos >= heard.pos /\ heard'.at = clock
        BY <3>1 DEF ActionTyped, ActionTypeOK, Play
      <3> QED
        BY <2>2, <3>1, <3>2, SetExchanges
    <2>4. CASE SetBack
      BY <2>2, <2>4, SetExchanges DEF SetBack
    <2>5. ~FetchFails /\ \A a \in pull.todo : ~Skip(a)
      BY <2>1 DEF FetchFails, Skip, Goes
    <2> QED
      BY <1>2, <2>2, <2>3, <2>4, <2>5, PassExchanges, PhoneExchanges, BeginExchanges, FetchExchanges, ApplyExchanges,
         ReadExchanges, UploadExchanges, CloseExchanges, StopExchanges DEF ActionNext
  <1> QED
    BY <1>1, <1>2

\* The history, the log and the sync are what they should be, whatever goes wrong.
THEOREM ActionTypesKept == ActionSpec => []ActionTypeOK
  <1>1. ActionInit => ActionTyped
    BY ActionTypesInit
  <1>2. ActionTyped /\ [ActionNext]_actionVars => ActionTyped'
    BY ActionTypesStep
  <1>3. ActionTyped => ActionTypeOK
    BY DEF ActionTyped
  <1> QED
    BY <1>1, <1>2, <1>3, PTL DEF ActionSpec

\* Between syncs neither side hides an action from the other.
THEOREM PositionsExchanged == ActionSpec => []Exchanged
  <1>1. ActionInit => ActionTyped /\ ActionIInv
    BY ActionTypesInit, ActionInvInit
  <1>2. ActionTyped /\ ActionIInv /\ [ActionNext]_actionVars => (ActionTyped /\ ActionIInv)'
    BY ActionTypesStep, ActionInvStep
  <1>3. ActionTyped /\ ActionIInv => Exchanged
    BY DEF ActionIInv, ActionInv, Exchanged, Logged, Pulled, Level
  <1> QED
    BY <1>1, <1>2, <1>3, PTL DEF ActionSpec

=============================================================================
