------------------------------ MODULE Playlists ------------------------------
(***************************************************************************)
(* A listener lets the web player go through a smart playlist              *)
(* (components/audio.rs): when an episode ends the player asks the server  *)
(* for the next one and marks the one that ended, two requests that are    *)
(* under way at once.  The server has no cursor: it queries the playlist   *)
(* afresh and looks for the episode that ended (database.rs), which what   *)
(* was played may have taken out of the list or put into it.               *)
(*                                                                         *)
(* Episodes are numbered in the order of the playlist, which is by date,   *)
(* duration, title or podcast.  Meanwhile episodes arrive and the user's   *)
(* other players report and mark.  trips names what else may happen.       *)
(***************************************************************************)
EXTENDS Integers, FiniteSets

CONSTANTS
  Size,      \* the number of episodes
  Limits,    \* the limits a playlist may have; 0 is none
  Window,      \* how much of the list the server looks through (500)
  TripSets   \* the sets of faults to consider

TripKinds == {
  "fail",    \* a mark is not sent or fails, or the question what is next does
  "gap",     \* the rules take played episodes, but not those of every class
  "crowd",   \* episodes enter a list with a limit while it is played
  "long" }   \* the list is longer than the server looks

ASSUME PlaylistAssumption ==
  /\ Size \in Nat /\ Window \in Nat /\ Limits \subseteq Nat
  /\ \A set \in TripSets : set \subseteq TripKinds

Episodes == 1..Size

Classes == {"unplayed", "partial", "played"}

\* What is reported of an episode, as the query tells it apart: nothing or the
\* start, further, and within 10 per cent or 30 seconds of the end.
Far == 0..2

VARIABLES
  present,   \* Episodes: those of the user's podcasts that pass the other filters
  far,       \* UserEpisodeHistory
  marked,    \* Episodes.completed
  rules,     \* includeunplayed, includepartiallyplayed, includeplayed
  limit,     \* maxepisodes
  playing,   \* the episode in the player; 0 for none
  phase,     \* of the player
  sending,   \* how far the request to mark each episode is
  played,    \* ghost: what the player has played to its end since the listener chose one
  ahead,     \* ghost: what was listed behind that one and is still to be played
  again,     \* ghost: the player chose one it had played
  trips      \* what else may go wrong

playlistVars == <<present, far, marked, rules, limit, playing, phase, sending, played, ahead, again, trips>>

PlaylistTypeOK ==
  /\ present \subseteq Episodes /\ marked \subseteq Episodes
  /\ far \in [Episodes -> Far]
  /\ rules \subseteq Classes /\ limit \in Limits
  /\ playing \in Episodes \cup {0}
  /\ phase \in {"off", "plays", "asks", "over"}
  /\ sending \in [Episodes -> {"no", "sent", "half"}]
  /\ played \subseteq Episodes /\ ahead \subseteq Episodes /\ again \in BOOLEAN
  /\ trips \in TripSets

PlaylistInit ==
  /\ present \in SUBSET Episodes
  /\ far = [e \in Episodes |-> 0] /\ marked = {}
  /\ rules \in SUBSET Classes /\ limit \in Limits
  /\ playing = 0 /\ phase = "off"
  /\ sending = [e \in Episodes |-> "no"]
  /\ played = {} /\ ahead = {} /\ again = FALSE
  /\ trips \in TripSets
  /\ "gap" \in trips \/ ("played" \in rules => rules = Classes)

Trip(fault) == fault \in trips

-----------------------------------------------------------------------------
(* The playlist                                                            *)

\* "Partial" does not ask whether the episode is completed.
InClass(e, class) ==
  CASE class = "unplayed" -> e \notin marked /\ far[e] = 0
    [] class = "partial"  -> far[e] = 1
    [] OTHER              -> e \in marked \/ far[e] = 2

Matching == {e \in present : \E class \in rules : InClass(e, class)}

FirstOf(S, n) == {e \in S : Cardinality({d \in S : d < e}) < n}
List == IF limit = 0 THEN Matching ELSE FirstOf(Matching, limit)

\* What the server looks through.
Looked == IF Trip("long") THEN FirstOf(List, Window) ELSE List

Behind(S, e) == {d \in S : d > e}

\* Mutant: what is not in the list has nothing behind it.
NothingLeft(e) == IF e \in Looked THEN Behind(Looked, e) ELSE {}

\* An episode that "was filtered out because it just completed" is followed by the
\* first one that is listed.
Candidates(e) == IF e \in Looked THEN Behind(Looked, e) ELSE Looked

-----------------------------------------------------------------------------
(* The player                                                              *)

\* To start an episode stores the position 0.
StartPlaying(e) ==
  /\ playing' = e /\ phase' = "plays"
  /\ far' = [far EXCEPT ![e] = 0]

Choose(e) ==
  /\ phase # "asks"
  /\ e \in List
  /\ StartPlaying(e)
  /\ played' = {} /\ ahead' = {d \in Behind(List, e) : sending[d] = "no"} /\ again' = FALSE
  /\ UNCHANGED <<present, marked, rules, limit, sending, trips>>

ReportFar(p) ==
  /\ phase = "plays"
  /\ p > far[playing]
  /\ far' = [far EXCEPT ![playing] = p]
  /\ UNCHANGED <<present, marked, rules, limit, playing, phase, sending, played, ahead, again, trips>>

\* The episode ends.  The requests of the one before have been answered by now.
EndEpisode ==
  /\ phase = "plays"
  /\ \A e \in Episodes : sending[e] = "no"
  /\ phase' = "asks"
  /\ played' = played \cup {playing} /\ ahead' = ahead \ {playing}
  /\ \/ sending' = [sending EXCEPT ![playing] = "sent"]
     \/ Trip("fail") /\ UNCHANGED sending
  /\ UNCHANGED <<present, far, marked, rules, limit, playing, again, trips>>

AskNext ==
  /\ phase = "asks"
  /\ IF Candidates(playing) = {}
     THEN phase' = "over" /\ playing' = 0 /\ UNCHANGED <<far, again>>
     ELSE \E e \in Candidates(playing) :
            /\ \A d \in Candidates(playing) : e <= d
            /\ StartPlaying(e)
            /\ again' = (again \/ e \in played)
  /\ UNCHANGED <<present, marked, rules, limit, sending, played, ahead, trips>>

\* The player goes on with something else.
AskNextFails ==
  /\ Trip("fail")
  /\ phase = "asks"
  /\ phase' = "off" /\ playing' = 0
  /\ UNCHANGED <<present, far, marked, rules, limit, sending, played, ahead, again, trips>>

\* The two statements of the mark; the request may also fail before either.
MarkCompleted(e) ==
  /\ sending[e] = "sent"
  /\ \/ sending' = [sending EXCEPT ![e] = "half"] /\ marked' = marked \cup {e}
     \/ Trip("fail") /\ sending' = [sending EXCEPT ![e] = "no"] /\ UNCHANGED marked
  /\ UNCHANGED <<present, far, rules, limit, playing, phase, played, ahead, again, trips>>

MarkHistory(e) ==
  /\ sending[e] = "half"
  /\ sending' = [sending EXCEPT ![e] = "no"]
  /\ far' = [far EXCEPT ![e] = 2]
  /\ UNCHANGED <<present, marked, rules, limit, playing, phase, played, ahead, again, trips>>

-----------------------------------------------------------------------------
(* Meanwhile                                                               *)

MayEnter == limit = 0 \/ Trip("crowd") \/ phase = "off"

Arrive(e) ==
  /\ e \notin present
  /\ MayEnter
  /\ present' = present \cup {e}
  /\ UNCHANGED <<far, marked, rules, limit, playing, phase, sending, played, ahead, again, trips>>

\* Another player gets further, or marks, alone or with many others, which leaves
\* the history alone.
PlayElsewhere(e, p, mark) ==
  /\ e \in present /\ p >= far[e]
  /\ MayEnter \/ e \in Matching
  /\ far' = [far EXCEPT ![e] = p]
  /\ marked' = IF mark THEN marked \cup {e} ELSE marked
  /\ far' # far \/ marked' # marked
  /\ ahead' = ahead \ {e}
  /\ UNCHANGED <<present, rules, limit, playing, phase, sending, played, again, trips>>

PlaylistNext ==
  \/ \E e \in Episodes :
       \/ Choose(e) \/ MarkCompleted(e) \/ MarkHistory(e) \/ Arrive(e)
       \/ \E p \in Far, mark \in BOOLEAN : PlayElsewhere(e, p, mark)
  \/ \E p \in Far : ReportFar(p)
  \/ EndEpisode \/ AskNext \/ AskNextFails

PlaylistSpec == PlaylistInit /\ [][PlaylistNext]_playlistVars

-----------------------------------------------------------------------------
(* Properties                                                              *)

\* What the server's fresh query must not cost the listener: a player that was told
\* there is nothing more has played all that was listed behind the episode the
\* listener chose, unless another player touched it, and it never plays one twice;
\* whichever of its requests is first, whatever arrives.  The doc of the query
\* promises the exact order too (database.rs:12049), which is not claimed here.
PlaysThrough ==
  trips = {} => ~again /\ (phase = "over" => ahead = {})
=============================================================================
