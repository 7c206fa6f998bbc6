-------------------------------- MODULE Picking --------------------------------
(* The elements of a sequence that are in a set, in their order: what a     *)
(* list comprehension with a condition builds.  SelectSeq says the same of  *)
(* a predicate; this form can be proved about (PickingProofs), for it takes *)
(* a set and is defined by a recursive function.                            *)
EXTENDS Naturals, Sequences

(* What is picked of the first n elements, for every n.                     *)
PickedOf(s, T) ==
  LET p[n \in 0 .. Len(s)] ==
        IF n = 0 THEN <<>>
        ELSE IF s[n] \in T THEN Append(p[n - 1], s[n]) ELSE p[n - 1]
  IN p

Pick(s, T) == PickedOf(s, T)[Len(s)]
================================================================================
