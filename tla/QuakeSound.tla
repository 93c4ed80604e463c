----------------------------- MODULE QuakeSound -----------------------------
(***************************************************************************)
(* The way of Quake's sound to the driver: the mixer paints ahead of what  *)
(* is played into a ring (snd_dma.c, snd_mix.c), the backend hands what is *)
(* painted to SoundPlayer, which plays it at another rate (snd_btdn.c,     *)
(* quakegeneric.cs), and the position that is played is computed from what *)
(* SoundPlayer still has to play, rounded up to frames of Quake.  There is *)
(* no clock: an update of the mixer and the end of a transfer come at any  *)
(* time, the latter between two writes of one update, too.                 *)
(***************************************************************************)
EXTENDS Integers, Sequences

CONSTANTS
  Frames,        \* BTDN_AUDIO_FRAMES, the length of the ring
  MixAhead,      \* _snd_mixahead * shm->speed, in frames
  SubmitFrames,  \* BTDN_AUDIO_SUBMIT_FRAMES
  TimeLimit,     \* 0x40000000: where times are chopped off
  InRate,        \* BTDN_AUDIO_RATE
  OutRate        \* OutputSampleRate of SoundPlayer

SoundAssumption ==
  /\ {Frames, MixAhead, SubmitFrames, InRate, OutRate} \subseteq Nat \ {0}
  /\ TimeLimit \in Nat /\ TimeLimit > 2 * Frames
  /\ MixAhead < Frames
  /\ InRate <= OutRate

VARIABLES
  ring,         \* shm->buffer: the time each cell was painted for, or Silence
  paintedtime,
  buffers, oldsamplepos,   \* of GetSoundtime
  submitted,    \* submitted_frames
  phase,        \* _streamInputFrames, up to a multiple of InRate
  queue,        \* the transfers of the driver, in output frames: s_remainingBytes is their sum
  at,           \* "idle", or "submit" inside SNDDMA_Submit
  miscounted    \* history: the position has fallen back, see FallsBack

vars == <<ring, paintedtime, buffers, oldsamplepos, submitted, phase, queue, at, miscounted>>

Silence == -1

Init ==
  /\ ring = [c \in 0 .. Frames - 1 |-> Silence]
  /\ paintedtime = 0 /\ buffers = 0 /\ oldsamplepos = 0
  /\ submitted = 0 /\ phase = 0
  /\ queue = <<>> /\ at = "idle" /\ miscounted = FALSE

-----------------------------------------------------------------------------
(* What is played.                                                          *)

\* The first transfers together, for each number of them.
Sums(q) ==
  LET sum[n \in 0 .. Len(q)] == IF n = 0 THEN 0 ELSE sum[n - 1] + q[n] IN sum

Remaining == Sums(queue)[Len(queue)]

\* BufferedFrameCount: frames of Quake, rounded up.
Buffered == (Remaining * InRate + OutRate - 1) \div OutRate

\* SNDDMA_GetDMAPos, in frames.
SNDDMA_GetDMAPos == (IF Buffered < submitted THEN submitted - Buffered ELSE 0) % Frames

\* A transfer is over.
StreamingPlaybackDone ==
  /\ queue # <<>>
  /\ queue' = Tail(queue)
  /\ UNCHANGED <<ring, paintedtime, buffers, oldsamplepos, submitted, phase, at, miscounted>>

-----------------------------------------------------------------------------
(* The mixer.                                                               *)

\* GetSoundtime takes a position below the last one for a wrap of the ring.
Wraps == SNDDMA_GetDMAPos < oldsamplepos
Chops == Wraps /\ paintedtime > TimeLimit

\* The rounding may take the position back by a frame, when more was written but no transfer
\* has ended: a wrap, or nearly a whole lap, is counted that was none.
FallsBack == (SNDDMA_GetDMAPos - oldsamplepos) % Frames = Frames - 1

Buffers   == IF Chops THEN 0 ELSE IF Wraps THEN buffers + 1 ELSE buffers
Soundtime == Buffers * Frames + SNDDMA_GetDMAPos

\* Mutant: the painted time stays what it was when times are chopped off.
PaintFromUnchopped == IF paintedtime < Soundtime THEN Soundtime ELSE paintedtime

\* Where the mixer begins: it does not paint what is past.
PaintFrom ==
  LET p == IF Chops THEN Frames ELSE paintedtime
  IN  IF p < Soundtime THEN Soundtime ELSE p

PaintTo == Soundtime + MixAhead

\* S_PaintChannels into the ring, which S_StopAllSounds has cleared if times are chopped off.
\* Bound: the ring is not followed any more when the position has fallen back.
S_PaintChannels ==
  ring' = [c \in 0 .. Frames - 1 |->
             LET t == (PaintTo - 1) - ((PaintTo - 1 - c) % Frames)   \* the last time of the cell
             IN  IF miscounted' \/ (Chops /\ t < PaintFrom) THEN Silence
             ELSE IF t >= PaintFrom THEN t ELSE ring[c]]

\* S_Update_ up to SNDDMA_Submit, which takes the painted time back if times were chopped off.
S_Update_ ==
  /\ at = "idle"
  /\ buffers' = Buffers /\ oldsamplepos' = SNDDMA_GetDMAPos
  /\ miscounted' = (miscounted \/ FallsBack)
  /\ S_PaintChannels
  /\ paintedtime' = IF PaintTo > PaintFrom THEN PaintTo ELSE PaintFrom
  /\ submitted' = IF paintedtime' < submitted THEN paintedtime' ELSE submitted
  /\ at' = "submit"
  /\ UNCHANGED <<phase, queue>>

-----------------------------------------------------------------------------
(* The backend.                                                             *)

\* The output frames up to the n-th input frame: ConvertStreamingPcm.
Output(n) == IF n = 0 THEN 0 ELSE ((n - 1) * OutRate) \div InRate + 1

\* One write of SNDDMA_Submit: up to the end of the ring and of the chunk.
WriteCount ==
  LET left == Frames - (submitted % Frames)
      want == paintedtime - submitted
      n    == IF want > left THEN left ELSE want
  IN  IF n > SubmitFrames THEN SubmitFrames ELSE n

\* The total of input frames counts only up to its phase.
Phase(n) == IF n > InRate THEN 1 + ((n - 1) % InRate) ELSE n

QG_AudioWrite ==
  /\ at = "submit" /\ submitted < paintedtime
  /\ submitted' = submitted + WriteCount
  /\ phase' = Phase(phase + WriteCount)
  /\ LET n == Output(phase + WriteCount) - Output(phase)
     IN  queue' = IF n = 0 THEN queue ELSE Append(queue, n)
  /\ UNCHANGED <<ring, paintedtime, buffers, oldsamplepos, at, miscounted>>

\* SoundPlayer has no capacity, or fails: the rest waits for the next update.
WriteRefused ==
  /\ at = "submit" /\ submitted < paintedtime
  /\ at' = "idle"
  /\ UNCHANGED <<ring, paintedtime, buffers, oldsamplepos, submitted, phase, queue, miscounted>>

Submitted ==
  /\ at = "submit" /\ submitted = paintedtime
  /\ at' = "idle"
  /\ UNCHANGED <<ring, paintedtime, buffers, oldsamplepos, submitted, phase, queue, miscounted>>

Next ==
  \/ StreamingPlaybackDone
  \/ S_Update_
  \/ QG_AudioWrite \/ WriteRefused \/ Submitted

Spec == Init /\ [][Next]_vars

FairSpec ==
  /\ Spec
  /\ WF_vars(StreamingPlaybackDone) /\ WF_vars(S_Update_)
  /\ WF_vars(Submitted) /\ SF_vars(QG_AudioWrite)

-----------------------------------------------------------------------------
(* What holds.                                                              *)

Sound ==
  /\ paintedtime \in Nat /\ buffers \in Nat /\ oldsamplepos \in 0 .. Frames - 1
  /\ submitted \in 0 .. paintedtime
  /\ phase \in 0 .. InRate
  /\ queue \in Seq(1 .. Output(SubmitFrames + 1))
  /\ ring \in [0 .. Frames - 1 -> Nat \cup {Silence}]
  /\ at \in {"idle", "submit"}

\* What is handed to the driver is what the mixer has painted for that time, not yet painted
\* over and not left from the lap before (SNDDMA_Submit against S_Update_), as long as the
\* position never fell back.
HandsOutWhatWasPainted ==
  ~miscounted => \A t \in submitted .. paintedtime - 1 : ring[t % Frames] = t

\* The mixer is never behind what is played, so that nothing is left out ("check to make sure
\* that we haven't overshot"), as long as the position never fell back.
NeverOvershoots ==
  ~miscounted /\ ~FallsBack => Soundtime <= IF Chops THEN Frames ELSE paintedtime

\* Times that were chopped off when all was played, at the very start of a lap, make a mixer
\* that is ahead of a time that stands still.
Stuck ==
  /\ paintedtime = Frames /\ submitted = Frames
  /\ buffers = 0 /\ oldsamplepos = 0 /\ queue = <<>>

\* The sound goes on, whatever was refused, underrun or miscounted, across the end of the ring
\* and of the times, except in that one case.
GoesOn == []<><<QG_AudioWrite>>_vars \/ <>[]Stuck

-----------------------------------------------------------------------------
(* A comment of the code says so, and the code does otherwise (README, Findings). *)

\* "buffer wrapped" (GetSoundtime): a position below the last one is one of the next lap, not
\* the same one rounded otherwise.
FallsOnlyWhenWrapped == ~miscounted

=============================================================================
