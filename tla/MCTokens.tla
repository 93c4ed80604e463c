------------------------------ MODULE MCTokens ------------------------------
(***************************************************************************)
(* Two classes that work within the calls of their user, for TLC: sources  *)
(* of cancellation, whose callbacks call again, and a buffered stream,     *)
(* whose inner stream fails in parts.  They share nothing.                 *)
(***************************************************************************)
EXTENDS Cancellation

CONSTANTS
  Byte, BufferSize, MaxLength   \* of BufferedStream

VARIABLES
  which,         \* the component at work, see MCInit
  file, place, buffer, rpos, rlen, wpos, flushed, closed, op, threw, astray   \* BufferedStream

BVars == <<file, place, buffer, rpos, rlen, wpos, flushed, closed, op, threw, astray>>
MCVars == <<which, vars, BVars>>

B == INSTANCE BufferedStream

\* One of them is at work; the others stay as they begin.
COnly == which = "source" /\ UNCHANGED <<which, BVars>>
BOnly == which = "stream" /\ UNCHANGED <<which, vars>>

MCInit ==
  /\ which \in {"source", "stream"}
  /\ Init /\ (which # "source" => created = Source)
  /\ B!Init /\ (which # "stream" => file = <<>>)

MCNext ==
  \/ COnly /\ Next
  \/ BOnly /\ B!Next

MCSpec == MCInit /\ [][MCNext]_MCVars

-----------------------------------------------------------------------------
ASSUME StreamAssumption == B!BufferAssumption

Symmetry == Permutations(Source) \cup Permutations(Callback) \cup Permutations(Delay)

\* Sound and RunsOnceUnlessRemoved, of Cancellation: no registration is missed, a linked source
\* is canceled with its parent, and a Cancel runs what it took; a callback runs once, and not
\* when it was removed, and the delay of a CancelAfter that another one replaced cancels nothing.

\* The buffer of a stream never shows what the file does not hold; after a Close that did not
\* throw everything written is in the file, and a read stops short only at the end
\* (BufferedStream).
ClosedIsSaved == B!Sound /\ B!ClosedIsSaved /\ B!ReadStopsAtEnd

\* A buffered stream is a sequence of bytes with a position (ByteStream).
ImplementsByteStream == B!ImplementsByteStream

=============================================================================
