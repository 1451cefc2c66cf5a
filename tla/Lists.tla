------------------------------- MODULE Lists --------------------------------
(***************************************************************************)
(* Keeping some elements of a list, and listing a set in an order: what    *)
(* Vec::retain, filtering loops and the sorts of slices come to.  They are *)
(* written out here, and not taken from SelectSeq and SortSeq, because     *)
(* those two have no definition that the proof system can unfold.          *)
(***************************************************************************)
EXTENDS Integers, Sequences, FiniteSets

\* The elements of seq to be kept, in their order.
Filter(seq, Keep(_)) ==
  LET kept[k \in 0 .. Len(seq)] ==
        IF k = 0 THEN <<>>
        ELSE IF Keep(seq[k]) THEN Append(kept[k - 1], seq[k]) ELSE kept[k - 1]
  IN  kept[Len(seq)]

\* The lists one after the other.
Concat(lists) ==
  LET n == Cardinality(DOMAIN lists)
      joined[k \in 0 .. n] == IF k = 0 THEN <<>> ELSE joined[k - 1] \o lists[k]
  IN  joined[n]

\* The elements of the finite set S, each once, each Before all later ones.
Sorted(S, Before(_, _)) ==
  CHOOSE s \in [1 .. Cardinality(S) -> S] : \A i, j \in DOMAIN s : i < j => Before(s[i], s[j])
=============================================================================
