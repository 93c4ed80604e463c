------------------------------ MODULE MCDevices -----------------------------
(***************************************************************************)
(* Two classes whose calls wait for a device, for TLC: a file stream and a *)
(* sound player.  They share nothing.                                      *)
(***************************************************************************)
EXTENDS FileStream

CONSTANTS
  Rates, OutputSampleRate, BufferLimit, ChunkLimit, MaxPlay, MaxInput, Clips   \* of SoundPlayer

VARIABLES
  which,         \* the component at work, see MCInit
  rate, stream, audioIo, failed, remaining, active, device, call, given, handed   \* SoundPlayer

SVars == <<rate, stream, audioIo, failed, remaining, active, device, call, given, handed>>
MCVars == <<which, codeVars, SVars>>

S == INSTANCE SoundPlayer

\* One of them is at work; the others stay as they begin.
FOnly == which = "file" /\ UNCHANGED <<which, SVars>>
SOnly == which = "sound" /\ UNCHANGED <<which, codeVars>>

MCInit ==
  /\ which \in {"file", "sound"}
  /\ Init /\ (which # "file" => this.async)
  /\ S!Init /\ (which # "sound" => rate = 1)

MCNext ==
  \/ FOnly /\ Next
  \/ SOnly /\ S!Next

MCSpec == MCInit /\ [][MCNext]_MCVars

\* The fairness of each: the CPU executes, the firmware and the driver are done some time.
MCFairness ==
  /\ WF_MCVars((FOnly /\ Statement("Timer")) \/ (SOnly /\ S!Step))
  /\ SF_MCVars(FOnly /\ TickEnds) /\ SF_MCVars(FOnly /\ Statement("App"))
  /\ SF_MCVars(FOnly /\ \E c \in Context : UserReturns(c) \/ Awaited(c))
  /\ SF_MCVars(FOnly /\ \E c \in Context : Poll(c))
  /\ WF_MCVars((FOnly /\ \E x \in Slot : Signal(x)) \/ (SOnly /\ S!StreamingPlaybackDone))

MCFairSpec == MCSpec /\ MCFairness

-----------------------------------------------------------------------------
ASSUME PlayerAssumed == S!RateAssumption /\ S!LimitAssumption

\* Sound, of FileStream: no operation of a file is lost, no buffer is written after it, and a
\* Close leaves nothing in progress but what a continuation began meanwhile.

\* The bytes the player counts are those the driver has; the driver is given the conversion of
\* what was accepted, whatever the chunks, and PlaySync plays all of its clip (SoundPlayer).
StreamIsExact == S!Sound /\ S!StreamIsExact /\ S!SyncPlaysAll

\* A Close ends, unless it is stranded or at null, and every call of the player does.
CallsReturn == []<>(CloseIsOver /\ S!Returned)

=============================================================================
