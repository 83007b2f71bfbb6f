------------------------------ MODULE ActionSync ------------------------------
(***************************************************************************)
(* How far the user has listened to one episode, kept equal between        *)
(* PinePods and the gpodder server of another installation.  The server    *)
(* (episode.go) keeps a log of "play" actions, each with a position and    *)
(* the time in whole seconds its client gave it, and hands them out in     *)
(* pages, the oldest first.  A sync of PinePods (database.rs) fetches all  *)
(* pages after the time of the last sync, applies them to the history,     *)
(* uploads the history that is newer than that time and sets it to now.    *)
(*                                                                         *)
(* Episodes do not interact but for the pages they share, so one is        *)
(* enough.  wrong names what else may happen in a behaviour.               *)
(***************************************************************************)
EXTENDS Integers, FiniteSets

CONSTANTS
  Length,     \* the duration of the episode; positions are 0..Length
  Near,       \* the positions from here on count as its end
  Page,       \* most actions in one answer (25000)
  WrongSets,  \* the sets of faults to consider
  MaxClock,   \* bound of the clock
  MaxDeeds,   \* bound of the number of things users do ...
  MaxWrong    \* ... and the bound where something else may go wrong

ActionFaults == {
  "ties",       \* two actions have the same second
  "late",       \* a phone that was offline uploads an action of an earlier time
  "meanwhile",  \* phones upload, and the user listens, while PinePods uploads
  "fetch",      \* a page cannot be fetched
  "unknown",    \* the episode is not in the tables yet, or a statement fails
  "upload" }    \* the server does not take PinePods' upload

ASSUME ActionAssumption ==
  /\ Length \in Nat /\ Near \in 1..Length
  /\ Page \in Nat \ {0}
  /\ \A set \in WrongSets : set \subseteq ActionFaults
  /\ MaxClock \in Nat \ {0} /\ MaxDeeds \in Nat /\ MaxWrong \in Nat

VARIABLES
  heard,   \* UserEpisodeHistory: the position and the time it was set
  reset,   \* ghost: when the position was last set back
  synced,  \* Users.LastSyncTime
  plays,   \* GpodderSyncEpisodeActions of the server
  pull,    \* the sync PinePods is in
  clock,   \* the clock of all, in seconds
  deeds,   \* things users did so far
  wrong    \* what else may go wrong

actionVars == <<heard, reset, synced, plays, pull, clock, deeds, wrong>>

Play == [pos : 0..Length, at : 0..MaxClock]

NoPull == [pc |-> "idle", since |-> 0, from |-> 0, todo |-> {}, up |-> {}]

ActionTypeOK ==
  /\ heard \in Play /\ plays \subseteq Play
  /\ reset \in 0..clock /\ synced \in 0..clock /\ clock \in 0..MaxClock
  /\ pull \in [pc : {"idle", "fetch", "apply", "upload", "close"},
               since : 0..MaxClock, from : 0..MaxClock,
               todo : SUBSET Play, up : SUBSET Play]
  /\ deeds \in Nat /\ wrong \in WrongSets

ActionInit ==
  /\ heard = [pos |-> 0, at |-> 0] /\ reset = 0
  /\ synced = 0 /\ plays = {} /\ pull = NoPull
  /\ clock = 1 /\ deeds = 0
  /\ wrong \in WrongSets

Goes(fault) == fault \in wrong

Pass ==
  /\ clock < MaxClock
  /\ clock' = clock + 1
  /\ UNCHANGED <<heard, reset, synced, plays, pull, deeds, wrong>>

\* What users do comes in a later second than the last sync, and not between
\* PinePods' reading its history and setting the time of the sync.
Deed ==
  /\ deeds < IF wrong = {} THEN MaxDeeds ELSE MaxWrong
  /\ deeds' = deeds + 1
  /\ Goes("meanwhile") \/ (clock > synced /\ pull.pc \in {"idle", "fetch", "apply"})

-----------------------------------------------------------------------------
(* The server                                                              *)

\* A phone uploads that it played up to p; what has been fetched and not yet
\* been followed by a later fetch makes it a change during the sync.
PhonePlays(p, at) ==
  /\ Deed
  /\ Goes("meanwhile") \/ pull = NoPull
  /\ at = clock \/ (Goes("late") /\ at \in 1..clock)
  /\ Goes("ties") \/ \A a \in plays : a.at # at
  /\ plays' = plays \cup {[pos |-> p, at |-> at]}
  /\ UNCHANGED <<heard, reset, synced, pull, clock, wrong>>

\* The oldest actions after a time, as many as a page holds; those of one second
\* in any order.
Pages(since) ==
  LET due == {a \in plays : a.at > since}
  IN {page \in SUBSET due :
        /\ Cardinality(page) = IF Cardinality(due) < Page THEN Cardinality(due) ELSE Page
        /\ \A a \in page, b \in due \ page : a.at <= b.at}

Latest(S) == CHOOSE t \in {a.at : a \in S} : \A a \in S : a.at <= t

\* Mutant: the answer names the latest action there is, not that of the page.
LatestOfAll(page) == Latest(plays)

NextSince(page) == Latest(page)

-----------------------------------------------------------------------------
(* PinePods                                                                *)

\* A report of the player raises the position; marking the episode as completed
\* sets it to the end.
Listen(p) ==
  /\ Deed
  /\ p > heard.pos
  /\ heard' = [pos |-> p, at |-> clock]
  /\ UNCHANGED <<reset, synced, plays, pull, clock, wrong>>

\* The user marks the episode as not completed, or starts it in the web player.
SetBack ==
  /\ Deed
  /\ heard.pos > 0
  /\ heard' = [pos |-> 0, at |-> clock]
  /\ reset' = clock
  /\ UNCHANGED <<synced, plays, pull, clock, wrong>>

BeginPull ==
  /\ pull = NoPull
  /\ clock > synced
  /\ pull' = [NoPull EXCEPT !.pc = "fetch", !.since = synced, !.from = synced]
  /\ UNCHANGED <<heard, reset, synced, plays, clock, deeds, wrong>>

\* A page that is not full is the last one.
Fetch ==
  /\ pull.pc = "fetch"
  /\ \E page \in Pages(pull.from) :
       LET got == [pull EXCEPT !.todo = @ \cup page]
       IN pull' = IF Cardinality(page) < Page THEN [got EXCEPT !.pc = "apply"]
                  ELSE [got EXCEPT !.from = NextSince(page)]
  /\ UNCHANGED <<heard, reset, synced, plays, clock, deeds, wrong>>

\* The sync goes on with the pages it has.
FetchFails ==
  /\ Goes("fetch") /\ pull.pc = "fetch"
  /\ pull' = [pull EXCEPT !.pc = "apply"]
  /\ UNCHANGED <<heard, reset, synced, plays, clock, deeds, wrong>>

Oldest(a) == a \in pull.todo /\ \A b \in pull.todo : a.at <= b.at

\* Near the end the episode is marked as completed, now; else the position only
\* grows, and the time is that of the action.
Applied(a) ==
  IF a.pos >= Near THEN [pos |-> Length, at |-> clock]
  ELSE [a EXCEPT !.pos = IF heard.pos > a.pos THEN heard.pos ELSE a.pos]

Apply(a) ==
  /\ pull.pc = "apply" /\ Oldest(a)
  /\ heard' = Applied(a)
  /\ pull' = [pull EXCEPT !.todo = @ \ {a}]
  /\ UNCHANGED <<reset, synced, plays, clock, deeds, wrong>>

\* The action is counted as not found, or the rest is given up.
Skip(a) ==
  /\ Goes("unknown") /\ pull.pc = "apply" /\ Oldest(a)
  /\ \E rest \in {pull.todo \ {a}, {}} : pull' = [pull EXCEPT !.todo = rest]
  /\ UNCHANGED <<heard, reset, synced, plays, clock, deeds, wrong>>

ReadHistory ==
  /\ pull.pc = "apply" /\ pull.todo = {}
  /\ pull' = [pull EXCEPT !.pc = "upload",
                !.up = IF heard.at > pull.since /\ heard.pos > 0 THEN {heard} ELSE {}]
  /\ UNCHANGED <<heard, reset, synced, plays, clock, deeds, wrong>>

\* A refused upload is logged, and the sync goes on.
Upload ==
  /\ pull.pc = "upload"
  /\ \E taken \in {pull.up} \cup (IF Goes("upload") THEN {{}} ELSE {}) :
       plays' = plays \cup taken
  /\ pull' = [pull EXCEPT !.pc = "close"]
  /\ UNCHANGED <<heard, reset, synced, clock, deeds, wrong>>

ClosePull ==
  /\ pull.pc = "close"
  /\ synced' = clock
  /\ pull' = NoPull
  /\ UNCHANGED <<heard, reset, plays, clock, deeds, wrong>>

\* A statement fails, or PinePods is restarted.
StopPull ==
  /\ pull # NoPull
  /\ pull' = NoPull
  /\ UNCHANGED <<heard, reset, synced, plays, clock, deeds, wrong>>

ActionNext ==
  \/ Pass
  \/ \E p \in 1..Length, at \in 1..MaxClock : PhonePlays(p, at)
  \/ \E p \in 1..Length : Listen(p)
  \/ SetBack
  \/ BeginPull \/ Fetch \/ FetchFails
  \/ \E a \in pull.todo : Apply(a) \/ Skip(a)
  \/ ReadHistory \/ Upload \/ ClosePull \/ StopPull

ActionSpec == ActionInit /\ [][ActionNext]_actionVars

-----------------------------------------------------------------------------
(* Properties                                                              *)

\* "that lets the client page forward through everything" (episode.go:388-389):
\* between syncs, the position here is at or beyond that of every action up to
\* the time of the last sync, but for what the user set back since; and a position
\* older than the last sync is in the log.  Neither the end of a page, a sync that
\* stopped half-way nor an action of another time that is merged into the
\* position hides one side from the other.
Exchanged ==
  wrong = {} /\ pull = NoPull =>
    /\ \A a \in plays : reset < a.at /\ a.at <= synced => a.pos <= heard.pos
    /\ heard.pos > 0 /\ heard.at <= synced => heard \in plays
=============================================================================
