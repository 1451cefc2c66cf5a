------------------------------- MODULE Rings --------------------------------
(***************************************************************************)
(* Ring and TimedRing of pm-model: a buffer of fixed capacity, the place   *)
(* of the next entry and the number of live ones.  What was in the buffer  *)
(* before a clear stays there.  An entry is the event it was taken from,   *)
(* whose time is the ts_ns of a TimedRing.                                 *)
(***************************************************************************)
EXTENDS Integers, Sequences, FiniteSetsExt

\* Stands for the zeros of a new buffer and for no entry.
NoEvent == [market |-> 0, nth |-> 0, at |-> 0, mid |-> 0, side |-> FALSE]

NewRing(cap) == [buf |-> [i \in 0 .. cap - 1 |-> NoEvent], head |-> 0, len |-> 0]

Cap(ring) == Cardinality(DOMAIN ring.buf)

PushRing(ring, x) ==
  [buf  |-> [ring.buf EXCEPT ![ring.head] = x],
   head |-> (ring.head + 1) % Cap(ring),
   len  |-> Min({ring.len + 1, Cap(ring)})]

\* Faulty variant: the next entry goes where it would have gone.
Emptied(ring) == [ring EXCEPT !.len = 0]

ClearRing(ring) == [buf |-> ring.buf, head |-> 0, len |-> 0]

Oldest(ring) ==
  IF ring.len = 0 THEN NoEvent
  ELSE ring.buf[IF ring.len < Cap(ring) THEN 0 ELSE ring.head]
Newest(ring) ==
  IF ring.len = 0 THEN NoEvent ELSE ring.buf[(ring.head + Cap(ring) - 1) % Cap(ring)]

\* The i-th live entry, from 0.
Entry(ring, i) == ring.buf[(ring.head + Cap(ring) - ring.len + i) % Cap(ring)]

\* What mean_last_n, std_last_n, sign_flips_last_n and mean_abs_last_n go through.
LastN(ring, n) ==
  LET k == Min({n, ring.len}) IN [i \in 1 .. k |-> Entry(ring, ring.len - k + i - 1)]
Live(ring) == LastN(ring, ring.len)

\* value_at_or_before goes from the oldest entry to the newest and takes the first.
ValueAtOrBefore(ring, target) ==
  LET found == {i \in 0 .. ring.len - 1 : Entry(ring, i).at <= target}
  IN  IF found = {} THEN NoEvent ELSE Entry(ring, Min(found))
=============================================================================
