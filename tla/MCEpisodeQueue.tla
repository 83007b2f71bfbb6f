--------------------------- MODULE MCEpisodeQueue ---------------------------
(***************************************************************************)
(* Instances of EpisodeQueue for TLC.  e1 and v1 share the numeric id 1:   *)
(* an episode and a video.                                                 *)
(***************************************************************************)
EXTENDS EpisodeQueue

e1 == <<1, FALSE>>
v1 == <<1, TRUE>>
e2 == <<2, FALSE>>
v2 == <<2, TRUE>>

Make(op, place, anchor, items) ==
  [op |-> op, place |-> place, anchor |-> anchor, items |-> items, typed |-> TRUE]

Add(i, place, anchor) == Make("queue", place, anchor, <<i>>)
BulkAt(place, items) == Make("bulk", place, e1, items)
Bulk(items) == BulkAt("top", items)
Bump(i) == Make("bump", "top", e1, <<i>>)
Remove(i) == Make("remove", "top", e1, <<i>>)
Purge(items) == Make("purge", "top", e1, items)
Reorder(items) == Make("reorder", "top", e1, items)
Clear == Make("clear", "top", e1, <<>>)
Untyped(q) == [q EXCEPT !.typed = FALSE]

Orders(S) == {f \in [1..Cardinality(S) -> S] : \A k, l \in DOMAIN f : f[k] = f[l] => k = l}

\* One request at a time, every operation; v2 is never queued.
SerialItems == {e1, v1, e2}
SerialRequests ==
  {Add(i, p, e1) : i \in SerialItems, p \in {"top", "bottom"}}
    \cup {Add(i, "under", a) : i, a \in SerialItems}
    \cup {Bump(i) : i \in SerialItems} \cup {Remove(i) : i \in SerialItems}
    \cup {BulkAt(p, f) : p \in {"top", "bottom", "under"}, f \in UNION {Orders(S) : S \in SUBSET SerialItems}}
    \cup {Reorder(f) : f \in UNION {Orders(S) : S \in SUBSET SerialItems}}
    \cup {Clear}

\* Requests that meet: adds at every placement, bumps, removes, bulk adds,
\* stale and id-only reorders, the removal of a channel.
MeetingRequests ==
  {Add(e1, "bottom", e1), Add(e1, "top", e1), Add(v1, "under", e1), Bump(e1),
   Bulk(<<e1, v1>>), Remove(e1), Reorder(<<v1, e1>>), Untyped(Reorder(<<e1>>)), Purge(<<e1>>)}

\* Transactions that lock the same rows in opposite orders.
LockRequests ==
  {Bulk(<<e1, v1>>), Remove(e1),
   Reorder(<<v1, e1>>), Reorder(<<e1, v1>>)}
=============================================================================
