-------------------------------- MODULE Lists --------------------------------
(* List comprehensions: what is left of a list.  The provers know nothing  *)
(* of SelectSeq, so the selection is spelled out as a recursive function.  *)
EXTENDS Naturals, Sequences

(* [x for x in list if x in those]                                         *)
Kept(list, those) ==
  LET kept[n \in 0 .. Len(list)] ==
        IF n = 0 THEN <<>>
        ELSE IF list[n] \in those THEN Append(kept[n - 1], list[n])
        ELSE kept[n - 1]
  IN  kept[Len(list)]
=============================================================================
