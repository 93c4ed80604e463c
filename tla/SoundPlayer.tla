----------------------------- MODULE SoundPlayer -----------------------------
(***************************************************************************)
(* System.Media.SoundPlayer of BootTo.NET: one player that appends chunks  *)
(* of PCM to a stream, another that plays a clip to its end, and the audio *)
(* driver below, which both feed.  The application calls; the driver's     *)
(* callback preempts it wherever the TPL is not raised.  Lengths count     *)
(* frames of the output, of four bytes each; a sample is the number of its *)
(* input frame, and an output frame names the input it is made of.         *)
(***************************************************************************)
EXTENDS Integers, Sequences

CONSTANTS
  Rates,             \* sample rates of the stream
  OutputSampleRate,
  BufferLimit,       \* MinimumStreamingBufferBytes
  ChunkLimit,        \* SynchronousChunkBytes
  MaxPlay,           \* bound: input frames of one Play
  MaxInput,          \* bound: input frames of the stream
  Clips              \* lengths of clips

RateAssumption == Rates \subseteq Nat \ {0} /\ OutputSampleRate \in Nat \ {0}
LimitAssumption ==
  BufferLimit \in Nat /\ ChunkLimit \in 1 .. BufferLimit /\ MaxPlay \in Nat /\ MaxInput \in Nat
  /\ Clips \subseteq Nat \ {0}

VARIABLES
  rate,       \* _pcmSampleRate
  stream,     \* _streamInputFrames, _streamOutputFrames, _hasStreamLastFrame, _streamLast*
  audioIo,    \* s_audioIo # null, with its event
  failed,     \* s_failed
  remaining,  \* s_remainingBytes
  active,     \* s_streamingPlaybackActive
  device,     \* the transfers the driver has, the oldest first
  call,       \* the call in progress, see Call
  given,      \* history: input frames of the stream that Play has accepted
  handed      \* history: output frames of the stream the driver was given

driverVars == <<audioIo, failed, remaining, active, device>>
vars == <<rate, stream, driverVars, call, given, handed>>

\* A call: where it is; its input frames, or the frames of the clip still to be queued; the
\* output it is about to queue; whether it waits; the length of the clip and what of it was played.
Call(at, clip, n, wait) ==
  [at |-> at, clip |-> clip, n |-> n, out |-> <<>>, wait |-> wait,
   total |-> n, played |-> 0]

Idle == Call("idle", FALSE, 0, FALSE)

IsAvailable == audioIo /\ ~failed

At(at) == call.at = at

GoTo(at) == call' = [call EXCEPT !.at = at]

\* Play returns 0; PlaySync stops what it has queued.
Fails == IF call.clip THEN GoTo("abandon") ELSE call' = Idle

-----------------------------------------------------------------------------
(* The resampler.                                                           *)

\* ReadStreamingSample: the kept frame, or one of the n that were given, numbered from given.
Sample(n, local) ==
  IF stream.hasLast /\ local = 0 /\ stream.in # 0 THEN stream.last
  ELSE LET k == local - (IF stream.in = 0 THEN 0 ELSE 1)
       IN  IF k \in 0 .. n - 1 THEN given + k ELSE -1

\* InterpolateStreamingSample: without a fraction only the first sample counts.
Interpolate(source, next, fraction) ==
  IF fraction = 0 THEN <<source>> ELSE <<source, next, fraction>>

\* ConvertStreamingPcm: the output frames up to the last of n input frames.
ConvertStreamingPcm(n) ==
  LET total == stream.in + n
      last  == ((total - 1) * OutputSampleRate) \div rate
      base  == IF stream.in = 0 THEN 0 ELSE stream.in - 1
      Frame(g) ==
        LET source == (g * rate) \div OutputSampleRate
            next   == IF source + 1 < total THEN source + 1 ELSE source
        IN  Interpolate(Sample(n, source - base), Sample(n, next - base),
                        (g * rate) % OutputSampleRate)
  IN  IF last < stream.out THEN <<>>
      ELSE [i \in 1 .. last - stream.out + 1 |-> Frame(stream.out + i - 1)]

\* Mutant: the last frame of a chunk is not kept.
CommitForgetsLast(n, k) ==
  /\ stream' = [stream EXCEPT !.hasLast = TRUE, !.in = @ + n, !.out = @ + k]
  /\ given' = given + n

CommitStreamingPcmState(n, k) ==
  /\ stream' = [hasLast |-> TRUE, last |-> given + n - 1, in |-> stream.in + n,
                out |-> stream.out + k]
  /\ given' = given + n

\* An upper bound for the output of n frames, in AppendPcm.
MaxOutput(n) == (n * OutputSampleRate + rate - 1) \div rate + 1

-----------------------------------------------------------------------------
(* The driver's queue.                                                      *)

\* The frames of the first transfers, for each number of them.
Sums(transfers) ==
  LET sum[k \in 0 .. Len(transfers)] == IF k = 0 THEN 0 ELSE sum[k - 1] + transfers[k].n IN sum

Total(transfers) == Sums(transfers)[Len(transfers)]

\* What a transfer of n frames, that is over or will not be, gives back.
Less(n) == IF n >= remaining THEN 0 ELSE remaining - n

\* StreamingPlaybackDone, the driver's callback.
StreamingPlaybackDone ==
  /\ device # <<>>
  /\ remaining' = Less(Head(device).n)
  /\ device' = Tail(device)
  /\ call' = IF Head(device).clip THEN [call EXCEPT !.played = @ + Head(device).n] ELSE call
  /\ UNCHANGED <<rate, stream, audioIo, failed, active, given, handed>>

\* StopPlayback: the driver drops its transfers without a callback.
StopPlayback ==
  /\ device' = IF active THEN <<>> ELSE device
  /\ active' = FALSE
  /\ remaining' = 0

-----------------------------------------------------------------------------
(* What Play (AppendPcm) and PlaySync (QueueOutputPcmChunk) have in common. *)

\* ReserveStreamingCapacity: a call that waits is stuck here until there is capacity.
ReserveStreamingCapacity ==
  /\ At("reserve")
  /\ UNCHANGED <<rate, stream, audioIo, failed, active, device, given, handed>>
  /\ IF IsAvailable /\ Len(call.out) <= BufferLimit
       THEN \/ /\ remaining <= BufferLimit - Len(call.out)
               /\ remaining' = remaining + Len(call.out) /\ GoTo("alloc")
            \/ /\ remaining > BufferLimit - Len(call.out) /\ ~call.wait
               /\ Fails /\ UNCHANGED remaining
       ELSE Fails /\ UNCHANGED remaining

\* AllocHGlobal; without memory the capacity is released.
Alloc ==
  /\ At("alloc")
  /\ \/ GoTo("start") /\ UNCHANGED remaining
     \/ Fails /\ remaining' = Less(Len(call.out))
  /\ UNCHANGED <<rate, stream, audioIo, failed, active, device, given, handed>>

\* SetupPlayback and StartPlaybackAsync, at TPL_NOTIFY: the driver takes the transfer or not.
StartPlayback ==
  /\ At("start")
  /\ \/ /\ device' = Append(device, [n |-> Len(call.out), clip |-> call.clip])
        /\ handed' = IF call.clip THEN handed ELSE handed \o call.out
        /\ GoTo("queued")
     \/ GoTo("refused") /\ UNCHANGED <<device, handed>>
  /\ UNCHANGED <<rate, stream, audioIo, failed, remaining, active, given>>

\* The capacity is released, and the device has failed for good.
Refused ==
  /\ At("refused")
  /\ remaining' = Less(Len(call.out)) /\ failed' = TRUE /\ Fails
  /\ UNCHANGED <<rate, stream, audioIo, active, device, given, handed>>

Queued ==
  /\ At("queued")
  /\ active' = TRUE
  /\ IF call.clip
       THEN GoTo("next") /\ UNCHANGED <<stream, given>>
       ELSE CommitStreamingPcmState(call.n, Len(call.out)) /\ call' = Idle
  /\ UNCHANGED <<rate, audioIo, failed, remaining, device, handed>>

\* EnsurePcmAudio, which initializes a device that is not there: ok when it is available.
EnsurePcmAudio(ok) ==
  IF audioIo THEN ok = ~failed /\ UNCHANGED <<audioIo, failed>>
             ELSE ok \in BOOLEAN /\ audioIo' = ok /\ failed' = ~ok

-----------------------------------------------------------------------------
(* Play.                                                                    *)

CallPlay(n, wait) ==
  /\ At("idle") /\ given + n <= MaxInput
  /\ call' = Call("append", FALSE, n, wait)
  /\ UNCHANGED <<rate, stream, driverVars, given, handed>>

\* A call that does not wait asks first whether there can be capacity.
Full ==
  /\ At("append") /\ ~call.wait /\ IsAvailable
  /\ MaxOutput(call.n) > BufferLimit \/ remaining > BufferLimit - MaxOutput(call.n)
  /\ call' = Idle
  /\ UNCHANGED <<rate, stream, driverVars, given, handed>>

AppendPcm ==
  /\ At("append")
  /\ call.wait \/ ~IsAvailable
       \/ (MaxOutput(call.n) <= BufferLimit /\ remaining <= BufferLimit - MaxOutput(call.n))
  /\ \E ok \in BOOLEAN :
       /\ EnsurePcmAudio(ok)
       /\ LET out == ConvertStreamingPcm(call.n)
          IN  IF ~ok THEN call' = Idle /\ UNCHANGED <<stream, given>>
              ELSE IF out = <<>> THEN CommitStreamingPcmState(call.n, 0) /\ call' = Idle
              ELSE call' = [call EXCEPT !.at = "reserve", !.out = out] /\ UNCHANGED <<stream, given>>
  /\ UNCHANGED <<rate, remaining, active, device, handed>>

-----------------------------------------------------------------------------
(* PlaySync.                                                                *)

\* PlayOutputPcmChunks begins with a StopPlayback.
CallPlaySync(n) ==
  /\ At("idle")
  /\ \E ok \in BOOLEAN :
       /\ EnsurePcmAudio(ok)
       /\ call' = IF ok THEN Call("next", TRUE, n, TRUE) ELSE Idle
       /\ IF ok THEN StopPlayback ELSE UNCHANGED <<remaining, active, device>>
  /\ UNCHANGED <<rate, stream, given, handed>>

\* The next chunk of the clip is queued.
NextChunk ==
  /\ At("next")
  /\ LET k == IF call.n < ChunkLimit THEN call.n ELSE ChunkLimit
     IN  call' = IF k = 0 THEN [call EXCEPT !.at = "finish"]
                 ELSE [call EXCEPT !.at = "reserve", !.n = @ - k, !.out = [i \in 1 .. k |-> <<>>]]
  /\ UNCHANGED <<rate, stream, driverVars, given, handed>>

\* WaitForStreamingCompletion is over, and PlayOutputPcmChunks stops the playback.
Finish ==
  /\ At("finish") /\ remaining = 0
  /\ StopPlayback
  /\ GoTo("done")
  /\ UNCHANGED <<rate, stream, audioIo, failed, given, handed>>

\* PlaySync returns, after CompletePlayback.
Done ==
  /\ At("done")
  /\ StopPlayback /\ call' = Idle
  /\ UNCHANGED <<rate, stream, audioIo, failed, given, handed>>

\* A chunk was not queued: PlaySync throws.
Abandon ==
  /\ At("abandon")
  /\ StopPlayback /\ call' = Idle
  /\ UNCHANGED <<rate, stream, audioIo, failed, given, handed>>

-----------------------------------------------------------------------------

Init ==
  /\ rate \in Rates
  /\ stream = [hasLast |-> FALSE, last |-> 0, in |-> 0, out |-> 0]
  /\ audioIo = FALSE /\ failed = FALSE /\ remaining = 0 /\ active = FALSE /\ device = <<>>
  /\ call = Idle /\ given = 0 /\ handed = <<>>

Step ==
  \/ Full \/ AppendPcm \/ ReserveStreamingCapacity \/ Alloc \/ StartPlayback \/ Refused \/ Queued
  \/ NextChunk \/ Finish \/ Done \/ Abandon

Next ==
  \/ \E n \in 1 .. MaxPlay, wait \in BOOLEAN : CallPlay(n, wait)
  \/ \E n \in Clips : CallPlaySync(n)
  \/ Step
  \/ StreamingPlaybackDone

Spec == Init /\ [][Next]_vars

\* The CPU executes, and the driver plays what it has.
FairSpec == Spec /\ WF_vars(Step) /\ WF_vars(StreamingPlaybackDone)

-----------------------------------------------------------------------------
(* Properties.                                                              *)

\* Every variable has its type.
TypeOK ==
  /\ rate \in Rates
  /\ stream \in [hasLast : BOOLEAN, last : Nat, in : Nat, out : Nat]
  /\ audioIo \in BOOLEAN /\ failed \in BOOLEAN /\ active \in BOOLEAN
  /\ remaining \in 0 .. BufferLimit
  /\ device \in Seq([n : 1 .. BufferLimit, clip : BOOLEAN])
  /\ call.at \in {"idle", "append", "reserve", "alloc", "start", "queued", "refused", "next",
                  "finish", "done", "abandon"}
  /\ given \in 0 .. MaxInput

\* s_remainingBytes is what the driver has and what a call has reserved: the limit bounds what
\* the driver is given, and nothing stays reserved, wherever a transfer ends or fails.
Accounted ==
  remaining = Total(device) + (IF call.at \in {"alloc", "start", "refused"} THEN Len(call.out) ELSE 0)

Sound == TypeOK /\ Accounted

\* Frame g of the output for the whole input at once.
Reference(g) ==
  LET source == (g * rate) \div OutputSampleRate
  IN  Interpolate(source, source + 1, (g * rate) % OutputSampleRate)

\* Whatever the chunks, and although chunks are refused in between, the driver is given the
\* conversion of the input that Play accepted, every frame once and in order, up to the last
\* one that does not need input yet to come.
StreamIsExact ==
  /\ \A i \in DOMAIN handed : handed[i] = Reference(i - 1)
  /\ call.at # "queued" =>
       Len(handed) = IF given = 0 THEN 0 ELSE ((given - 1) * OutputSampleRate) \div rate + 1

\* A PlaySync that returns without an exception has played its clip to the end.
SyncPlaysAll == call.at = "done" => call.played = call.total

\* Every call returns, however full the queue, while the driver plays.
Returned == call.at = "idle"
CallsReturn == []<>Returned

=============================================================================
