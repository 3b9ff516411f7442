--------------------------- MODULE MCRecordLayout ---------------------------
(***************************************************************************)
(* Small sets of types for RecordLayout.                                   *)
(***************************************************************************)
EXTENDS RecordLayout, Bitwise

Scalar(n) == [size |-> n, align |-> n]
CharShortIntDouble == <<Scalar(1), Scalar(2), Scalar(4), Scalar(8)>>
Three == {3}

\* roundup is the bit arithmetic of type.cc:68 (here in sixteen bits).
ASSUME \A x \in 0..40, align \in Aligns :
         roundup(x, align) = (x + align - 1) & (2^16 - align)
=============================================================================
