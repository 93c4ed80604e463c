---------------------------- MODULE BufferedStream ----------------------------
(***************************************************************************)
(* System.IO.BufferedStream of BootTo.NET over a file: one buffer, which   *)
(* holds either bytes read ahead or bytes not yet written.  A call is a    *)
(* sequence of steps, one for each use of the inner stream and each copy;  *)
(* the inner stream may accept a part of a write, or throw.                *)
(*                                                                         *)
(* Content and Pos map a state to one of ByteStream, which this module     *)
(* implements.                                                             *)
(***************************************************************************)
EXTENDS Bytes

CONSTANTS
  Byte,          \* the values of a byte, 0 among them
  BufferSize,
  MaxLength      \* bound: the length of the file

BufferAssumption == BufferSize \in Nat \ {0} /\ MaxLength \in Nat /\ 0 \in Byte

VARIABLES
  file, place,        \* the inner stream: its bytes, its position
  buffer,             \* _buffer
  rpos, rlen, wpos,   \* _readPosition, _readLength, _writePosition
  flushed,            \* total of FlushWriteBuffer
  closed,             \* _closed
  op,                 \* the call in progress, see Op
  threw,              \* the last call has thrown
  astray              \* history: a call has broken the promise of ByteStream

innerVars == <<file, place>>
readVars  == <<rpos, rlen>>
writeVars == <<wpos, flushed>>
vars == <<innerVars, buffer, readVars, writeVars, closed, op, threw, astray>>

Content == Over(file, place, SubSeq(buffer, flushed + 1, wpos))
Pos     == place - (rlen - rpos) + (wpos - flushed)

Ahead == rlen - rpos      \* bytes read ahead

\* A call in progress: where it is, what it is, the count or the offset, the data it has still
\* to write, what it has read, and its aim: where the position is to be
\* (of a seek), or how many bytes are to be read.
At(at, do, n, data, want) ==
  [at |-> at, do |-> do, n |-> n, data |-> data, got |-> <<>>, want |-> want]

Idle == At("idle", "none", 0, <<>>, 0)

\* The call goes on at another step, or is over.
GoTo(at) == op' = [op EXCEPT !.at = at] /\ UNCHANGED threw
Return   == op' = Idle /\ threw' = FALSE
Throws   == op' = Idle /\ threw' = TRUE

\* Bound: a stream that is astray is not used further.
Begin(o) ==
  /\ op = Idle /\ ~closed /\ ~astray
  /\ op' = o
  /\ threw' = FALSE

ForgetAhead == rpos' = 0 /\ rlen' = 0

-----------------------------------------------------------------------------
(* The buffer is written.                                                   *)

CallFlush ==
  /\ Begin(At("flush", "return", 0, <<>>, 0))
  /\ UNCHANGED <<innerVars, buffer, readVars, writeVars, closed, astray>>

\* The inner stream accepts k bytes.
FlushSome(k) ==
  /\ op.at = "flush"
  /\ file' = Over(file, place, SubSeq(buffer, flushed + 1, flushed + k))
  /\ place' = place + k
  /\ flushed' = flushed + k
  /\ UNCHANGED <<buffer, readVars, wpos, closed, op, threw, astray>>

\* An exception: what has been written will be written once more.
FlushThrows ==
  /\ op.at = "flush" /\ flushed < wpos
  /\ Throws
  /\ flushed' = 0
  /\ astray' = (astray \/ flushed > 0)
  /\ closed' = (op.do = "close")
  /\ UNCHANGED <<innerVars, buffer, readVars, wpos>>

\* FlushWriteBuffer is over.  Flush goes on with the Flush of the inner stream, which may
\* throw, too.
FlushEnds ==
  /\ op.at = "flush" /\ flushed = wpos
  /\ wpos' = 0 /\ flushed' = 0
  /\ \/ GoTo(op.do) /\ UNCHANGED closed
     \/ op.do # "write" /\ Throws /\ closed' = (op.do = "close")
  /\ UNCHANGED <<innerVars, buffer, readVars, astray>>

CallReturns ==
  /\ op.at = "return" /\ Return
  /\ UNCHANGED <<innerVars, buffer, readVars, writeVars, closed, astray>>

-----------------------------------------------------------------------------
(* Reading.                                                                 *)

CallRead(n) ==
  /\ Begin(At(IF wpos # 0 THEN "flush" ELSE "read", "read", n, <<>>, n))
  /\ UNCHANGED <<innerVars, buffer, readVars, writeVars, closed, astray>>

\* As many bytes as the buffer has come from the inner stream, from behind what was given
\* out; fewer go through the buffer.
Read ==
  /\ op.at = "read"
  /\ UNCHANGED <<buffer, writeVars, closed, astray>>
  /\ IF op.n >= BufferSize
       THEN LET p == place - Ahead
                k == Smaller(op.n, Len(file) - p)
            IN  /\ op' = [op EXCEPT !.at = "return", !.got = SubSeq(file, p + 1, p + k)]
                /\ place' = p + k
                /\ ForgetAhead
                /\ UNCHANGED <<file, threw>>
       ELSE GoTo("copy") /\ UNCHANGED <<innerVars, readVars>>

\* DiscardReadBuffer, or the inner stream, throws.
ReadThrows ==
  /\ op.at = "read" \/ (op.at = "copy" /\ Ahead = 0)
  /\ op.at = "read" => op.n >= BufferSize
  /\ Throws
  /\ IF op.at = "read" /\ Ahead > 0
       THEN \/ UNCHANGED <<place, readVars>>
            \/ place' = place - Ahead /\ ForgetAhead
       ELSE UNCHANGED <<place, readVars>>
  /\ UNCHANGED <<file, buffer, writeVars, closed, astray>>

Fill ==
  /\ op.at = "copy" /\ Ahead = 0
  /\ LET k == Smaller(BufferSize, Len(file) - place)
     IN  /\ buffer' = Over(buffer, 0, SubSeq(file, place + 1, place + k))
         /\ place' = place + k
         /\ rpos' = 0 /\ rlen' = k
         /\ op' = [op EXCEPT !.at = IF k = 0 THEN "return" ELSE "copy"]
  /\ UNCHANGED <<file, writeVars, closed, threw, astray>>

Copy ==
  /\ op.at = "copy" /\ Ahead > 0
  /\ LET k == Smaller(op.n, Ahead)
     IN  /\ op' = [op EXCEPT !.got = @ \o SubSeq(buffer, rpos + 1, rpos + k), !.n = @ - k,
                             !.at = IF k = op.n THEN "return" ELSE "copy"]
         /\ rpos' = rpos + k
  /\ UNCHANGED <<innerVars, buffer, rlen, writeVars, closed, threw, astray>>

-----------------------------------------------------------------------------
(* Writing.                                                                 *)

\* What was read ahead is given back.
CallWrite(d) ==
  /\ Begin(At("write", "write", 0, d, 0))
  /\ place' = place - Ahead /\ ForgetAhead
  /\ UNCHANGED <<file, buffer, writeVars, closed, astray>>

\* The inner stream does not take back what was read ahead.
CallWriteThrows ==
  /\ op = Idle /\ ~closed /\ ~astray /\ Ahead > 0
  /\ Throws
  /\ UNCHANGED <<innerVars, buffer, readVars, writeVars, closed, astray>>

\* As many bytes as the buffer has go to the inner stream, which accepts k of them.
WriteDirect(k) ==
  /\ op.at = "write" /\ wpos = 0 /\ Len(op.data) >= BufferSize
  /\ file' = Over(file, place, SubSeq(op.data, 1, k))
  /\ place' = place + k
  /\ op' = [op EXCEPT !.data = Rest(@, k)]
  /\ UNCHANGED <<buffer, readVars, writeVars, closed, threw, astray>>

WriteThrows ==
  /\ op.at = "write" /\ wpos = 0 /\ Len(op.data) >= BufferSize
  /\ Throws
  /\ UNCHANGED <<innerVars, buffer, readVars, writeVars, closed, astray>>

\* Fewer go into the buffer, which is written when it is full.
WriteBuffered ==
  /\ op.at = "write" /\ op.data # <<>>
  /\ wpos # 0 \/ Len(op.data) < BufferSize
  /\ LET k == Smaller(Len(op.data), BufferSize - wpos)
     IN  /\ buffer' = Over(buffer, wpos, SubSeq(op.data, 1, k))
         /\ wpos' = wpos + k
         /\ op' = [op EXCEPT !.data = Rest(@, k),
                             !.at = IF wpos + k = BufferSize THEN "flush" ELSE "write"]
  /\ UNCHANGED <<innerVars, readVars, flushed, closed, threw, astray>>

WriteReturns ==
  /\ op.at = "write" /\ op.data = <<>>
  /\ Return
  /\ UNCHANGED <<innerVars, buffer, readVars, writeVars, closed, astray>>

-----------------------------------------------------------------------------
(* Moving, the length, closing.                                             *)

\* Seek to off from the beginning, and the setter of Position.
CallSeek(off) ==
  /\ Begin(At("flush", "seek", off, <<>>, off))
  /\ UNCHANGED <<innerVars, buffer, readVars, writeVars, closed, astray>>

\* Mutant: what was read ahead is not counted.
SeekCurrentFromPlace(off) ==
  /\ Begin(At("flush", "seekCurrent", off, <<>>, Pos + off))
  /\ UNCHANGED <<innerVars, buffer, readVars, writeVars, closed, astray>>

\* Seek from the current position; the inner stream is ahead by what was read ahead.
CallSeekCurrent(off) ==
  /\ Begin(At("flush", "seekCurrent", off - Ahead, <<>>, Pos + off))
  /\ UNCHANGED <<innerVars, buffer, readVars, writeVars, closed, astray>>

CallSeekEnd(off) ==
  /\ Begin(At("flush", "seekEnd", off, <<>>, Len(Content) + off))
  /\ UNCHANGED <<innerVars, buffer, readVars, writeVars, closed, astray>>

SeekTarget ==
  CASE op.at = "seek"        -> op.n
    [] op.at = "seekCurrent" -> place + op.n
    [] op.at = "seekEnd"     -> Len(file) + op.n

\* A seek that throws has already forgotten what was read ahead.
Seek ==
  /\ op.at \in {"seek", "seekCurrent", "seekEnd"}
  /\ ForgetAhead
  /\ \/ SeekTarget >= 0 /\ place' = SeekTarget /\ Return /\ UNCHANGED astray
     \/ UNCHANGED place /\ Throws /\ astray' = (astray \/ Ahead > 0)
  /\ UNCHANGED <<file, buffer, writeVars, closed>>

CallSetLength(n) ==
  /\ Begin(At("flush", "length", n, <<>>, 0))
  /\ UNCHANGED <<innerVars, buffer, readVars, writeVars, closed, astray>>

\* What was read ahead is forgotten, but not given back.
SetLength ==
  /\ op.at = "length"
  /\ ForgetAhead
  /\ astray' = (astray \/ Ahead > 0)
  /\ \/ /\ file' = Resized(file, op.n)
        /\ place' = Smaller(place, op.n)
        /\ Return
     \/ UNCHANGED innerVars /\ Throws
  /\ UNCHANGED <<buffer, writeVars, closed>>

\* Mutant: the buffer is not written.
CallCloseUnflushed ==
  /\ Begin(At("close", "close", 0, <<>>, 0))
  /\ UNCHANGED <<innerVars, buffer, readVars, writeVars, closed, astray>>

CallClose ==
  /\ Begin(At("flush", "close", 0, <<>>, 0))
  /\ UNCHANGED <<innerVars, buffer, readVars, writeVars, closed, astray>>

Close ==
  /\ op.at = "close"
  /\ closed' = TRUE /\ Return
  /\ UNCHANGED <<innerVars, buffer, readVars, writeVars, astray>>

-----------------------------------------------------------------------------

\* The user gives no data that would make the file longer than MaxLength.
Data == UNION {[1 .. n -> Byte] : n \in 1 .. MaxLength - Pos}

Init ==
  /\ file \in UNION {[1 .. n -> Byte] : n \in 0 .. MaxLength} /\ place = 0
  /\ buffer = [i \in 1 .. BufferSize |-> 0]
  /\ rpos = 0 /\ rlen = 0 /\ wpos = 0 /\ flushed = 0
  /\ closed = FALSE /\ op = Idle /\ threw = FALSE /\ astray = FALSE

Call ==
  \/ CallFlush \/ CallClose
  \/ \E n \in 1 .. BufferSize + 1 : CallRead(n)
  \/ \E d \in Data : CallWrite(d)
  \/ CallWriteThrows
  \/ \E p \in 0 .. Len(Content) : CallSeek(p) \/ CallSeekCurrent(p - Pos) \/ CallSeekEnd(p - Len(Content))
  \/ \E n \in 0 .. MaxLength : CallSetLength(n)

Step ==
  \/ \E k \in 1 .. wpos - flushed : FlushSome(k)
  \/ FlushThrows \/ FlushEnds \/ CallReturns
  \/ Read \/ ReadThrows \/ Fill \/ Copy
  \/ \E k \in 1 .. Len(op.data) : WriteDirect(k)
  \/ WriteThrows \/ WriteBuffered \/ WriteReturns
  \/ Seek \/ SetLength \/ Close

Next == Call \/ Step

Spec == Init /\ [][Next]_vars

-----------------------------------------------------------------------------

\* Every variable has its type, and a position is inside of what it is a position of.
TypeOK ==
  /\ file \in Seq(Byte) /\ place \in 0 .. Len(file)
  /\ buffer \in [1 .. BufferSize -> Byte]
  /\ rlen \in 0 .. BufferSize /\ rpos \in 0 .. rlen
  /\ wpos \in 0 .. BufferSize /\ flushed \in 0 .. wpos
  /\ closed \in BOOLEAN /\ threw \in BOOLEAN /\ astray \in BOOLEAN
  /\ op.at \in {"idle", "flush", "return", "read", "copy", "write", "seek", "seekCurrent",
                "seekEnd", "length", "close"}

\* The buffer is never used for reading and for writing at once.
OneUse == wpos > 0 => Ahead = 0

\* What was read ahead is what the file holds before the inner position, so that reading on
\* returns what the file holds and giving back ends where reading ended.
ReadAheadIsFresh ==
  Ahead <= place /\ SubSeq(buffer, rpos + 1, rlen) = SubSeq(file, place - Ahead + 1, place)

\* The buffer has one use, and reading ahead never shows bytes the file does not hold.
Sound == TypeOK /\ OneUse /\ ReadAheadIsFresh

\* After a Close that did not throw, everything written is in the file.
ClosedIsSaved == closed /\ ~threw => wpos = 0

\* A read that is over has read as many bytes as asked, or is at the end of the stream.
ReadStopsAtEnd ==
  op.at = "return" /\ op.do = "read" => Pos = Len(Content) \/ Len(op.got) = op.want

\* Whatever is in the buffer, reads return the bytes of the stream at the position, writes put
\* theirs there, and a seek ends where the user asked, counted from the position the user sees.
Abstract == INSTANCE ByteStream WITH 
  content <- Content, pos <- Pos, got <- op.got, given <- op.data,
  aim <- IF op.do \in {"seek", "seekCurrent", "seekEnd"} THEN op.want ELSE -1

ImplementsByteStream == Abstract!Spec

=============================================================================
