--------------------------- MODULE SubscriptionSync ---------------------------
(***************************************************************************)
(* One user's podcast subscriptions, kept equal between PinePods and the   *)
(* gpodder server of another installation (sync type "external") that      *)
(* phone applications sync with too.  The gpodder server beside PinePods   *)
(* itself works on PinePods' own table of podcasts.                        *)
(*                                                                         *)
(* The server (gpodder-api) keeps the user's subscriptions and a log of    *)
(* changes with the device that made them and a time in whole seconds; a   *)
(* device asks for the changes of other devices after a time.  PinePods    *)
(* (database.rs) asks in the name of every device since its own last sync, *)
(* applies what it is told, compares the result with the snapshot it saved *)
(* at the end of the last sync, uploads the difference, saves the snapshot *)
(* and sets the time of the last sync.  With a Nextcloud server it does    *)
(* the same by other functions and in the name of nobody in particular.    *)
(*                                                                         *)
(* Users edit both sides between syncs, and a sync may stop half-way;      *)
(* faults names what else may happen in a behaviour.                       *)
(***************************************************************************)
EXTENDS Naturals

CONSTANTS
  Feeds,     \* the podcasts' feed URLs
  Devices,   \* the devices registered with the server
  Phones,    \* those of other applications
  Own,       \* the device in whose name PinePods uploads
  Kinds,     \* the kinds of server to consider
  FaultSets, \* the sets of faults to consider, each a subset of FaultKinds
  MaxTime,   \* bound of the clock
  MaxEvents, \* bound of the number of edits, phone changes and stopped syncs ...
  MaxFaulty  \* ... and the bound where something else may go wrong

FaultKinds == {
  "meanwhile",  \* phones upload changes while PinePods syncs
  "slow",       \* a phone's upload commits after the second it is stamped with
  "again",      \* a feed changes twice on the server between two syncs
  "edit",       \* the user edits in PinePods while it asks and applies
  "full",       \* a full sync, when the user links the server or asks for one
  "first",      \* the first sync stops between saving the snapshot and the time
  "upload",     \* the server does not take PinePods' upload
  "add",        \* a feed cannot be fetched when it is to be added
  "device" }    \* the answer for one device is an error

ASSUME SyncAssumption ==
  /\ Phones \subseteq Devices
  /\ Own \in Devices
  /\ Kinds \subseteq {"external", "nextcloud"}
  /\ \A set \in FaultSets : set \subseteq FaultKinds
  /\ MaxTime \in Nat \ {0} /\ MaxEvents \in Nat /\ MaxFaulty \in Nat

VARIABLES
  local,   \* Podcasts of PinePods: the feeds the user is subscribed to
  snap,    \* GpodderSubscriptionSnapshot: the feeds at the end of the last sync
  last,    \* Users.LastSyncTime; 0 stands for none
  subs,    \* Podcasts of the server
  log,     \* GpodderSyncSubscriptions of the server
  open,    \* uploads of phones that are stamped and not committed
  sync,    \* the sync PinePods is in
  now,     \* the clock of both, in seconds
  events,  \* edits, phone changes and stopped syncs so far
  kind,    \* Users.Pod_Sync_Type: "external" or "nextcloud"
  faults   \* what else may go wrong

settings == <<kind, faults>>
vars == <<local, snap, last, subs, log, open, sync, now, events, settings>>

Change == [dev : Devices, feed : Feeds, act : {"add", "remove"}, at : 0..MaxTime]

Sync == [pc : {"idle", "pull", "send", "save", "close"},
         full : BOOLEAN,           \* a forced full sync
         since : 0..MaxTime,       \* the time it asks from
         todo : SUBSET Devices,    \* devices still to be asked about
         add : SUBSET Feeds,       \* what the answers said, ...
         remove : SUBSET Feeds,
         adding : SUBSET Feeds,    \* ... and what of it is still to be applied
         removing : SUBSET Feeds,
         mine : SUBSET Feeds,      \* local as it was read for the comparison
         up : [add : SUBSET Feeds, remove : SUBSET Feeds]]

NoSync == [pc |-> "idle", full |-> FALSE, since |-> 0, todo |-> {},
           add |-> {}, remove |-> {}, adding |-> {}, removing |-> {},
           mine |-> {}, up |-> [add |-> {}, remove |-> {}]]

TypeOK ==
  /\ local \subseteq Feeds /\ snap \subseteq Feeds /\ subs \subseteq Feeds
  /\ log \subseteq Change /\ open \subseteq Change
  /\ sync \in Sync
  /\ now \in 1..MaxTime /\ last \in 0..now
  /\ events \in Nat
  /\ kind \in Kinds /\ faults \in FaultSets

\* PinePods is linked to the server; each side has the feeds it has.
Init ==
  /\ local \in SUBSET Feeds /\ subs \in SUBSET Feeds
  /\ snap = {} /\ last = 0
  /\ log = {} /\ open = {}
  /\ sync = NoSync
  /\ now = 1 /\ events = 0
  /\ kind \in Kinds /\ faults \in FaultSets

May(fault) == fault \in faults

\* Nothing but syncs happens in the last second of the bounded clock.
Event ==
  /\ events < (IF faults = {} THEN MaxEvents ELSE MaxFaulty) /\ now < MaxTime
  /\ events' = events + 1

Tick ==
  /\ now < MaxTime
  /\ now' = now + 1
  /\ UNCHANGED <<local, snap, last, subs, log, open, sync, events, settings>>

-----------------------------------------------------------------------------
(* The server                                                              *)

\* What device d is told: from the beginning, the subscriptions; from a later
\* time, what other devices added and, separately, what they removed.
ChangesFor(d, act, since) ==
  {e.feed : e \in {c \in log : c.dev # d /\ c.act = act /\ c.at > since}}

\* Mutant: the answer leaves the removals out.
NoRemovals(d, since) == {}

AddedFor(d, since) == IF since = 0 THEN subs ELSE ChangesFor(d, "add", since)
RemovedFor(d, since) == IF since = 0 THEN {} ELSE ChangesFor(d, "remove", since)

\* Nextcloud answers the same to all: the feeds whose last change is later.
Touched(since) == {c.feed : c \in {e \in log : e.at > since}}
AddedForAll(since) == IF since = 0 THEN subs ELSE subs \cap Touched(since)
RemovedForAll(since) == Touched(since) \ subs

After(s, c) == IF c.act = "add" THEN s \cup {c.feed} ELSE s \ {c.feed}

\* A feed with a change that the next sync will be told of as such.
Changed(f) == last # 0 /\ \E c \in log \cup open : c.feed = f /\ c.at > last

\* The upload takes its time stamp, fetches what it adds and commits.
Stamp(d, f, act) ==
  /\ Event
  /\ May("meanwhile") \/ (sync = NoSync /\ now > last)
  /\ May("again") \/ ~Changed(f)
  /\ open' = open \cup {[dev |-> d, feed |-> f, act |-> act, at |-> now]}
  /\ UNCHANGED <<local, snap, last, subs, log, sync, now, settings>>

Commit(c) ==
  /\ May("slow") \/ c.at = now
  /\ open' = open \ {c}
  /\ log' = log \cup {c}
  /\ subs' = After(subs, c)
  /\ UNCHANGED <<local, snap, last, sync, now, events, settings>>

\* Without "slow" the clock and PinePods wait for an upload to commit.
Prompt == May("slow") \/ open = {}

-----------------------------------------------------------------------------
(* PinePods                                                                *)

\* The user subscribes to a podcast or unsubscribes from one.
Edit(f) ==
  /\ Event
  /\ May("edit") \/ sync.pc # "pull"
  /\ local' = IF f \in local THEN local \ {f} ELSE local \cup {f}
  /\ UNCHANGED <<snap, last, subs, log, open, sync, now, settings>>

\* A sync starts in a later second than the one the last sync ended in; the last
\* second of the bounded clock stands for all that follow.
Begin(full) ==
  /\ sync = NoSync
  /\ now > last \/ now = MaxTime
  /\ full => May("full") /\ kind = "external"
  /\ Prompt
  /\ sync' = [NoSync EXCEPT !.pc = "pull", !.full = full,
                            !.since = IF full THEN 0 ELSE last, !.todo = Devices]
  /\ UNCHANGED <<local, snap, last, subs, log, open, now, events, settings>>

\* One device is asked about; the answers of all devices are put together.
Ask(d) ==
  /\ kind = "external" /\ sync.pc = "pull" /\ d \in sync.todo
  /\ LET adds == AddedFor(d, sync.since)
         removes == RemovedFor(d, sync.since)
     IN sync' = [sync EXCEPT !.todo = @ \ {d},
                             !.add = @ \cup adds, !.adding = @ \cup adds,
                             !.remove = @ \cup removes, !.removing = @ \cup removes]
  /\ UNCHANGED <<local, snap, last, subs, log, open, now, events, settings>>

AskFails(d) ==
  /\ kind = "external" /\ May("device") /\ sync.pc = "pull" /\ d \in sync.todo
  /\ sync' = [sync EXCEPT !.todo = @ \ {d}]
  /\ UNCHANGED <<local, snap, last, subs, log, open, now, events, settings>>

\* With Nextcloud there is one question.
AskOnce ==
  /\ kind = "nextcloud" /\ sync.pc = "pull" /\ sync.todo # {}
  /\ LET adds == AddedForAll(sync.since)
         removes == RemovedForAll(sync.since)
     IN sync' = [sync EXCEPT !.todo = {}, !.add = adds, !.adding = adds,
                             !.remove = removes, !.removing = removes]
  /\ UNCHANGED <<local, snap, last, subs, log, open, now, events, settings>>

\* An answer that is not a success is taken for one that has no changes.
AskOnceFails ==
  /\ kind = "nextcloud" /\ May("device") /\ sync.pc = "pull" /\ sync.todo # {}
  /\ sync' = [sync EXCEPT !.todo = {}]
  /\ UNCHANGED <<local, snap, last, subs, log, open, now, events, settings>>

\* Additions are applied first, then removals.
AddOne(f) ==
  /\ sync.pc = "pull" /\ sync.todo = {} /\ f \in sync.adding
  /\ local' = local \cup {f}
  /\ sync' = [sync EXCEPT !.adding = @ \ {f}]
  /\ UNCHANGED <<snap, last, subs, log, open, now, events, settings>>

AddFails(f) ==
  /\ May("add") /\ f \notin local
  /\ sync.pc = "pull" /\ sync.todo = {} /\ f \in sync.adding
  /\ sync' = [sync EXCEPT !.adding = @ \ {f}]
  /\ UNCHANGED <<local, snap, last, subs, log, open, now, events, settings>>

RemoveOne(f) ==
  /\ sync.pc = "pull" /\ sync.todo = {} /\ sync.adding = {} /\ f \in sync.removing
  /\ local' = local \ {f}
  /\ sync' = [sync EXCEPT !.removing = @ \ {f}]
  /\ UNCHANGED <<snap, last, subs, log, open, now, events, settings>>

\* Mutants: the removals are left out; what the server said is uploaded again.
DeltaAdds == [add |-> (local \ snap) \ sync.add, remove |-> {}]
DeltaEchoes == [add |-> local \ snap, remove |-> snap \ local]

\* What the user changed here since the snapshot, without what the server said
\* itself; a full sync uploads everything.
Delta == [add |-> (local \ snap) \ sync.add, remove |-> (snap \ local) \ sync.remove]

Compare ==
  /\ sync.pc = "pull" /\ sync.todo = {} /\ sync.adding = {} /\ sync.removing = {}
  /\ sync' = [sync EXCEPT !.pc = "send", !.mine = local,
                !.up = IF sync.full THEN [add |-> local, remove |-> {}] ELSE Delta]
  /\ UNCHANGED <<local, snap, last, subs, log, open, now, events, settings>>

Uploaded ==
  {[dev |-> Own, feed |-> f, act |-> "add", at |-> now] : f \in sync.up.add} \cup
  {[dev |-> Own, feed |-> f, act |-> "remove", at |-> now] : f \in sync.up.remove}

Send ==
  /\ sync.pc = "send"
  /\ log' = log \cup Uploaded
  /\ subs' = (subs \cup sync.up.add) \ sync.up.remove
  /\ sync' = [sync EXCEPT !.pc = "save"]
  /\ UNCHANGED <<local, snap, last, open, now, events, settings>>

\* A failed upload is logged, and the sync goes on.
SendFails ==
  /\ May("upload") /\ sync.pc = "send"
  /\ sync.up # [add |-> {}, remove |-> {}]
  /\ sync' = [sync EXCEPT !.pc = "save"]
  /\ UNCHANGED <<local, snap, last, subs, log, open, now, events, settings>>

Save ==
  /\ sync.pc = "save"
  /\ snap' = sync.mine
  /\ sync' = [sync EXCEPT !.pc = "close"]
  /\ UNCHANGED <<local, last, subs, log, open, now, events, settings>>

\* Mutant: the next sync asks from the second after this one.
CloseLate ==
  /\ sync.pc = "close"
  /\ last' = IF sync.full THEN 0 ELSE now + 1
  /\ sync' = NoSync
  /\ UNCHANGED <<local, snap, subs, log, open, now, events, settings>>

\* A full sync clears the time of the last sync, "to start fresh".
Close ==
  /\ sync.pc = "close"
  /\ last' = IF sync.full THEN 0 ELSE now
  /\ sync' = NoSync
  /\ UNCHANGED <<local, snap, subs, log, open, now, events, settings>>

\* A statement fails, or the server is restarted: the sync ends where it is.
Stop ==
  /\ Event
  /\ sync # NoSync
  /\ May("first") \/ last # 0 \/ sync.pc # "close"
  /\ sync' = NoSync
  /\ UNCHANGED <<local, snap, last, subs, log, open, now, settings>>

SyncStep ==
  \/ \E d \in Devices : Ask(d) \/ AskFails(d)
  \/ AskOnce \/ AskOnceFails
  \/ \E f \in Feeds : AddOne(f) \/ AddFails(f) \/ RemoveOne(f)
  \/ Compare \/ Send \/ SendFails \/ Save \/ Close

Next ==
  \/ Prompt /\ Tick
  \/ \E d \in Phones, f \in Feeds, act \in {"add", "remove"} : Stamp(d, f, act)
  \/ \E c \in open : Commit(c)
  \/ \E f \in Feeds : Edit(f)
  \/ \E full \in BOOLEAN : Begin(full)
  \/ SyncStep
  \/ Stop

Spec == Init /\ [][Next]_vars

-----------------------------------------------------------------------------
(* Properties                                                              *)

\* The difference the next sync will find by itself: the user's own changes,
\* and what the answers will say.
FoundHere(f) == (f \in local) # (f \in snap)
FoundThere(f) ==
  IF kind = "nextcloud"
  THEN f \in IF f \in local THEN RemovedForAll(last) ELSE AddedForAll(last)
  ELSE \E d \in Devices : f \in IF f \in local THEN RemovedFor(d, last) ELSE AddedFor(d, last)

\* The snapshot records "the reconciled local state" (database.rs:16033), "so the
\* next sync only uploads genuine local changes" (16677): between syncs, a feed
\* that only one side has is one the next sync will find, in the comparison with
\* the snapshot or in the server's answers.  A difference that neither shows is
\* never repaired.
Repairable ==
  sync = NoSync /\ open = {} =>
    \A f \in Feeds : (f \in local) # (f \in subs) => FoundHere(f) \/ FoundThere(f)

\* That is so when nothing else goes wrong, wherever syncs stop.
Reconciled == faults = {} => Repairable

\* "We only upload real local add/removes ... and never re-upload what the
\* server just sent us (echo)" (database.rs:16014-16017), also after a sync that
\* stopped half-way: what an incremental sync uploads is news to the server.
UploadsNews ==
  faults = {} /\ sync.pc = "send" =>
    sync.up.add \cap subs = {} /\ sync.up.remove \subseteq subs

\* When the users stop editing, both sides end up with the same subscriptions
\* and stay so.
Converges == faults = {} => <>[](local = subs)
=============================================================================
