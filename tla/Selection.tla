----------------------------- MODULE Selection -----------------------------
(* The elements of a sequence that belong to a set, in their order. *)
EXTENDS Integers, Sequences

Keep(q, S) ==
  LET kept[n \in 0 .. Len(q)] ==
        IF n = 0 THEN <<>>
        ELSE IF q[n] \in S THEN Append(kept[n - 1], q[n]) ELSE kept[n - 1]
  IN  kept[Len(q)]
=============================================================================
