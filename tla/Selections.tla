------------------------------ MODULE Selections ------------------------------
(***************************************************************************)
(* The list comprehension [x for x in s if x in keep].                       *)
(***************************************************************************)
EXTENDS Integers, Sequences

\* SelectSeq for a set of elements, as a function that a proof can unfold.
Only(s, keep) ==
  LET kept[n \in 0 .. Len(s)] ==
        IF n = 0 THEN <<>>
        ELSE IF s[n] \in keep THEN Append(kept[n - 1], s[n]) ELSE kept[n - 1]
  IN kept[Len(s)]
=============================================================================
