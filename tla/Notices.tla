------------------------------- MODULE Notices -------------------------------
(***************************************************************************)
(* The durable notifications of one user (services/task_manager.rs): a key *)
(* with a time to live per notification and an index of the user's         *)
(* notifications.  Every operation is a sequence of single commands; they  *)
(* come from different requests and meet in any order.  A request that     *)
(* goes through the index treats one notification after the other and      *)
(* remembers nothing from one to the next, so each has a place of its own  *)
(* in it.                                                                  *)
(***************************************************************************)
EXTENDS Naturals, Sequences

CONSTANTS
  Notes,    \* the notifications, each of which is pushed once
  Missing   \* what Valkey returns for a key that is not there

ASSUME NoticeAssumption == Missing \notin {"unread", "read"}

VARIABLES
  note,      \* notif:{user}:{id}: "unread", "read" or Missing
  listed,    \* notif:index:{user}
  push,      \* how far the push of a notification is
  mark,      \* how far its marking as read is
  dismiss,   \* how far its dismissal is
  clear,     \* how far a clearing is with it
  listing,   \* how far a listing is with it
  lapsed,    \* notifications past their expires_at
  answered   \* those that were dismissed or cleared

noticeVars == <<note, listed, push, mark, dismiss, clear, listing, lapsed, answered>>

Resting == "idle"

NoticeTypeOK ==
  /\ note \in [Notes -> {"unread", "read", Missing}]
  /\ listed \subseteq Notes
  /\ push \in [Notes -> {"none", "set", "index", "done"}]
  /\ mark \in [Notes -> {Resting, "set", "index"}]
  /\ dismiss \in [Notes -> {Resting, "unlist"}]
  /\ clear \in [Notes -> {Resting, "check", "delete", "unlist"}]
  /\ listing \in [Notes -> {Resting, "get", "delete", "unlist"}]
  /\ lapsed \subseteq Notes /\ answered \subseteq Notes

NoticeInit ==
  /\ note = [n \in Notes |-> Missing] /\ listed = {}
  /\ push = [n \in Notes |-> "none"]
  /\ mark = [n \in Notes |-> Resting] /\ dismiss = [n \in Notes |-> Resting]
  /\ clear = [n \in Notes |-> Resting] /\ listing = [n \in Notes |-> Resting]
  /\ lapsed = {} /\ answered = {}

-----------------------------------------------------------------------------
(* Saving: the key with its time to live first, then the index             *)

\* Mutant: the index first.
IndexBefore == <<"index", "set">>
SaveOrder == <<"set", "index">>

Saved(at, over) == IF at = SaveOrder[1] THEN SaveOrder[2] ELSE over

Save(n, at, value) ==
  \/ at = "set" /\ note' = [note EXCEPT ![n] = value] /\ UNCHANGED listed
  \/ at = "index" /\ listed' = listed \cup {n} /\ UNCHANGED note

StartPush(n) ==
  /\ push[n] = "none"
  /\ push' = [push EXCEPT ![n] = SaveOrder[1]]
  /\ UNCHANGED <<note, listed, mark, dismiss, clear, listing, lapsed, answered>>

Push(n) ==
  /\ Save(n, push[n], "unread")
  /\ push' = [push EXCEPT ![n] = Saved(@, "done")]
  /\ UNCHANGED <<mark, dismiss, clear, listing, lapsed, answered>>

\* Marking as read gets the record and saves a changed copy, whatever has become
\* of the record meanwhile.
Mark(n) ==
  /\ push[n] = "done" /\ note[n] # Missing /\ mark[n] = Resting
  /\ mark' = [mark EXCEPT ![n] = SaveOrder[1]]
  /\ UNCHANGED <<note, listed, push, dismiss, clear, listing, lapsed, answered>>

SaveMark(n) ==
  /\ Save(n, mark[n], "read")
  /\ mark' = [mark EXCEPT ![n] = Saved(@, Resting)]
  /\ UNCHANGED <<push, dismiss, clear, listing, lapsed, answered>>

-----------------------------------------------------------------------------
(* Removing: the key first, then the index                                 *)

Without(n) == [note EXCEPT ![n] = Missing]

\* A dismissal looks at nothing before.
Dismiss(n) ==
  /\ push[n] = "done" /\ dismiss[n] = Resting
  /\ answered' = answered \cup {n}
  /\ note' = Without(n)
  /\ dismiss' = [dismiss EXCEPT ![n] = "unlist"]
  /\ UNCHANGED <<listed, push, mark, clear, listing, lapsed>>

\* All notifications, or those that are read; one clearing is under way at a time.
Clear(readOnly) ==
  /\ listed # {}
  /\ \A n \in Notes : clear[n] = Resting
  /\ clear' = [n \in Notes |->
       IF n \notin listed THEN Resting ELSE IF readOnly THEN "check" ELSE "delete"]
  /\ answered' = IF readOnly THEN answered ELSE answered \cup listed
  /\ UNCHANGED <<note, listed, push, mark, dismiss, listing, lapsed>>

\* One that is unread stays; a read one, or one that is gone, is removed.
Keeps(n) == note[n] = "unread"

Check(n) ==
  /\ clear[n] = "check"
  /\ clear' = [clear EXCEPT ![n] = IF Keeps(n) THEN Resting ELSE "delete"]
  /\ answered' = IF note[n] = "read" THEN answered \cup {n} ELSE answered
  /\ UNCHANGED <<note, listed, push, mark, dismiss, listing, lapsed>>

\* A listing gets each notification of the index; one past its time is deleted,
\* one whose key is gone is unlisted.
ListNotices ==
  /\ \A n \in Notes : listing[n] = Resting
  /\ listing' = [n \in Notes |-> IF n \in listed THEN "get" ELSE Resting]
  /\ UNCHANGED <<note, listed, push, mark, dismiss, clear, lapsed, answered>>

Look(n) ==
  /\ listing[n] = "get"
  /\ listing' = [listing EXCEPT ![n] =
       IF note[n] = Missing THEN "unlist" ELSE IF n \in lapsed THEN "delete" ELSE Resting]
  /\ UNCHANGED <<note, listed, push, mark, dismiss, clear, lapsed, answered>>

Delete(n) ==
  /\ \/ clear[n] = "delete" /\ clear' = [clear EXCEPT ![n] = "unlist"] /\ UNCHANGED listing
     \/ listing[n] = "delete" /\ listing' = [listing EXCEPT ![n] = "unlist"] /\ UNCHANGED clear
  /\ note' = Without(n)
  /\ UNCHANGED <<listed, push, mark, dismiss, lapsed, answered>>

Unlist(n) ==
  /\ \/ dismiss[n] = "unlist" /\ dismiss' = [dismiss EXCEPT ![n] = Resting]
        /\ UNCHANGED <<clear, listing>>
     \/ clear[n] = "unlist" /\ clear' = [clear EXCEPT ![n] = Resting]
        /\ UNCHANGED <<dismiss, listing>>
     \/ listing[n] = "unlist" /\ listing' = [listing EXCEPT ![n] = Resting]
        /\ UNCHANGED <<dismiss, clear>>
  /\ listed' = listed \ {n}
  /\ UNCHANGED <<note, push, mark, lapsed, answered>>

\* Time passes; a push takes less of it than a notification has.  Marking as
\* read renews the key and not expires_at.
Lapse(n) ==
  /\ push[n] = "done" /\ n \notin lapsed
  /\ lapsed' = lapsed \cup {n}
  /\ UNCHANGED <<note, listed, push, mark, dismiss, clear, listing, answered>>

ExpireNotice(n) ==
  /\ n \in lapsed
  /\ note' = Without(n)
  /\ UNCHANGED <<listed, push, mark, dismiss, clear, listing, lapsed, answered>>

NoticeNext ==
  \/ \E n \in Notes :
       \/ StartPush(n) \/ Push(n) \/ Mark(n) \/ SaveMark(n) \/ Dismiss(n)
       \/ Check(n) \/ Look(n) \/ Delete(n) \/ Unlist(n) \/ Lapse(n) \/ ExpireNotice(n)
  \/ ListNotices
  \/ \E readOnly \in BOOLEAN : Clear(readOnly)

NoticeSpec == NoticeInit /\ [][NoticeNext]_noticeVars

-----------------------------------------------------------------------------
(* Properties                                                              *)

Removing(n) == dismiss[n] # Resting \/ clear[n] # Resting

\* "List a user's live notifications ... pruning the index" (task_manager.rs:660):
\* whatever meets, a notification whose time has not passed is stored and listed
\* until somebody dismisses or clears it, and clearing the read ones spares an
\* unread one.  One that was removed never counts as unread again: the copy that a
\* mark in progress writes back and lists again (693-697) is a read one.
TillDismissed ==
  \A n \in Notes : push[n] = "done" =>
    /\ n \notin answered \cup lapsed => note[n] # Missing /\ n \in listed
    /\ n \in answered /\ ~Removing(n) => note[n] # "unread"
=============================================================================
