--------------------------- MODULE MCDecodeStream ---------------------------
EXTENDS DecodeStream

Rising(f) == /\ f[0] = 0 /\ f[Encoded] = Total
             /\ \A i \in 0..(Encoded - 1) : f[i] <= f[i + 1]

(* An xz stream ends in bytes that decode to nothing; a deflate stream may   *)
(* end in the byte that the last of its output comes from.                   *)
MCYields ==
  LET all == {f \in [0..Encoded -> 0..Total] : Rising(f)}
  IN  [k \in Kinds |-> IF k = "xz" THEN {f \in all : f[Encoded - 1] = Total} ELSE all]
=============================================================================
