----------------------------- MODULE PlayOrder ------------------------------
(***************************************************************************)
(* What the play queue promises its listener: a "now playing + up next"    *)
(* list (rust-api/src/database.rs, the comment on QueuePlacement).  It is   *)
(* a set of queued items with a strict total order, each change of which   *)
(* is one indivisible step.  Rows, positions, statements and transactions  *)
(* belong to EpisodeQueue, which implements this module when one request   *)
(* runs at a time.                                                         *)
(***************************************************************************)
CONSTANT Items

VARIABLES queued,  \* the items in the list
          ahead    \* <<a, b>> \in ahead: a plays before b

vars == <<queued, ahead>>

StrictOrder(R, S) ==
  /\ R \subseteq S \X S
  /\ \A a \in S : <<a, a>> \notin R
  /\ \A a, b \in S : a # b => (<<a, b>> \in R \/ <<b, a>> \in R)
  /\ \A a, b, c \in S : <<a, b>> \in R /\ <<b, c>> \in R => <<a, c>> \in R

TypeOK == queued \subseteq Items /\ StrictOrder(ahead, queued)

Init == queued = {} /\ ahead = {}

\* The items that play up to and including a.
UpTo(a) == {b \in queued : b = a \/ <<b, a>> \in ahead}

\* Where new items may land: first, last, or directly under an item.
Cuts == {{}, queued} \cup {UpTo(a) : a \in queued}

(* queue_episode, bulk_queue_episodes: the new items land together, right  *)
(* after the items of a prefix P; whatever was queued keeps its order.     *)
Add(S, P) ==
  /\ S # {} /\ S \cap queued = {}
  /\ queued' = queued \cup S
  /\ LET R == ahead' \cap (S \X S)
     IN  StrictOrder(R, S) /\ ahead' = ahead \cup R \cup (P \X S) \cup (S \X (queued \ P))

(* move_queue_episode_to_top *)
Bump(i) ==
  /\ queued' = queued \cup {i}
  /\ ahead' = {p \in ahead : p[1] # i /\ p[2] # i} \cup ({i} \X (queued \ {i}))

(* remove_queued_episode, clear_queue, and the removal of a podcast: the   *)
(* items that stay keep their order.                                       *)
Drop(S) ==
  /\ queued' = queued \ S
  /\ ahead' = {p \in ahead : p[1] \notin S /\ p[2] \notin S}

(* reorder_queue with a list of everything queued *)
Reorder ==
  /\ UNCHANGED queued
  /\ ahead' \in {R \in SUBSET (queued \X queued) : StrictOrder(R, queued)}

Next ==
  \/ \E i \in Items : Bump(i)
  \/ \E S \in SUBSET Items : (\E P \in Cuts : Add(S, P)) \/ Drop(S)
  \/ Reorder

Spec == Init /\ [][Next]_vars
=============================================================================
