------------------------------- MODULE TaskLife -------------------------------
(***************************************************************************)
(* What the activity center promises of a background task: it is created   *)
(* once, moves from pending to running, ends once, as completed or failed, *)
(* keeps that status, and goes away some time.  Abstract: no store, no     *)
(* writers, no sockets.                                                    *)
(***************************************************************************)
CONSTANT Tasks

VARIABLE status

Statuses == {"none", "pending", "running", "completed", "failed", "gone"}
Active(t) == status[t] \in {"pending", "running"}

Init == status = [t \in Tasks |-> "none"]

Becomes(t, s) == status' = [status EXCEPT ![t] = s]

Create(t) == status[t] = "none" /\ Becomes(t, "pending")

Start(t) == status[t] = "pending" /\ Becomes(t, "running")

End(t) == Active(t) /\ \E s \in {"completed", "failed"} : Becomes(t, s)

\* Tasks go away, also several at once, and one whose creation fails without
\* having been shown.
Vanish(T) == status' = [t \in Tasks |-> IF t \in T THEN "gone" ELSE status[t]]

Next ==
  \/ \E t \in Tasks : Create(t) \/ Start(t) \/ End(t)
  \/ \E T \in SUBSET Tasks : Vanish(T)

Safe == Init /\ [][Next]_status

\* No task is shown as active for ever.
Spec == Safe /\ \A t \in Tasks : WF_status(Active(t) /\ (End(t) \/ Vanish({t})))
=============================================================================
