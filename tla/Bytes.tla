-------------------------------- MODULE Bytes --------------------------------
(***************************************************************************)
(* Sequences of bytes as the content of a stream.                          *)
(***************************************************************************)
EXTENDS Integers, Sequences

Larger(a, b)  == IF a > b THEN a ELSE b
Smaller(a, b) == IF a < b THEN a ELSE b

\* f with the bytes of d at position p, over what is there.
Over(f, p, d) ==
  IF d = <<>> THEN f
  ELSE [i \in 1 .. Larger(Len(f), p + Len(d)) |->
          IF i \in p + 1 .. p + Len(d) THEN d[i - p] ELSE f[i]]

\* f with n bytes, filled with zeros.
Resized(f, n) == [i \in 1 .. n |-> IF i <= Len(f) THEN f[i] ELSE 0]

\* f without its first k bytes.
Rest(f, k) == SubSeq(f, k + 1, Len(f))

=============================================================================
