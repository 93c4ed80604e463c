------------------------------ MODULE ByteStream ------------------------------
(***************************************************************************)
(* What a System.IO.Stream of BootTo.NET that can be read, written and     *)
(* sought promises its user: a sequence of bytes and a position in it.  A  *)
(* call reads or writes some bytes at the position, moves it, or sets the  *)
(* length; a call that throws may have done a part.  After a call that     *)
(* leaves the stream astray nothing is promised.                           *)
(***************************************************************************)
EXTENDS Bytes

CONSTANT Byte

VARIABLES
  content,   \* the bytes of the stream
  pos,       \* the position, the number of bytes before it
  got,       \* what the call in progress has read
  given,     \* what the call in progress has still to write
  aim,       \* where the call in progress, a seek, is to move the position, else -1
  astray     \* the promise is void

vars == <<content, pos, got, given, aim, astray>>

Init == content \in Seq(Byte) /\ pos = 0 /\ got = <<>> /\ given = <<>> /\ aim = -1 /\ ~astray

Begin == given' \in Seq(Byte) /\ aim' \in Int /\ UNCHANGED <<content, pos, got>>

\* The next k bytes are read.
Get(k) ==
  /\ got' = got \o SubSeq(content, pos + 1, pos + k)
  /\ pos' = pos + k
  /\ UNCHANGED <<content, given, aim>>

\* The next k bytes are written.
Put(k) ==
  /\ content' = Over(content, pos, SubSeq(given, 1, k))
  /\ pos' = pos + k
  /\ given' = Rest(given, k)
  /\ UNCHANGED <<got, aim>>

Jump == pos' = aim /\ aim' = -1 /\ UNCHANGED <<content, got, given>>

\* Bytes before the end keep their values, and the position stays, if it can.
Resize(n) ==
  /\ content' = Resized(content, n)
  /\ pos' = Smaller(pos, n)
  /\ UNCHANGED <<got, given, aim>>

\* A call is over.
End == got' = <<>> /\ given' = <<>> /\ aim' = -1 /\ UNCHANGED <<content, pos>>

Next ==
  \/ astray'
  \/ /\ UNCHANGED astray
     /\ \/ Begin \/ Jump \/ End
        \/ \E k \in 1 .. Len(content) - pos : Get(k)
        \/ \E k \in 1 .. Len(given) : Put(k)
        \/ Resize(Len(content'))

Spec == Init /\ [][Next]_vars

=============================================================================
