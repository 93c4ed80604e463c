----------------------------- MODULE QuakeMixer -----------------------------
(***************************************************************************)
(* The channels of Quake's sound (snd_dma.c) and how they are painted      *)
(* (snd_mix.c).  A channel plays a sound from pos on and is over at the    *)
(* time end; the time moves when the channels are painted, also past what  *)
(* they have, and a sound that loops is then begun again.  Ambient sounds  *)
(* come first, then those of entities, which take each other's channels,   *)
(* then static ones.                                                       *)
(***************************************************************************)
EXTENDS Integers, FiniteSets, FiniteSetsExt

CONSTANTS
  Ambients,      \* NUM_AMBIENTS
  Dynamics,      \* MAX_DYNAMIC_CHANNELS
  Statics,       \* MAX_CHANNELS, less the others
  Sfx, NoSfx,    \* the sounds
  Length,        \* their lengths
  LoopStart,     \* where they loop, or -1
  AmbientSfx,    \* the sound of an ambient channel
  Entity, View,  \* entities, and cl.viewentity
  MaxSkip,       \* 0.1 * shm->speed
  Ahead,         \* bound: how far the time goes in one update
  MaxTime        \* bound: paintedtime

MixerAssumption ==
  /\ {Ambients, Dynamics} \subseteq Nat \ {0} /\ Statics \in Nat
  /\ NoSfx \notin Sfx /\ View \in Entity /\ 0 \notin Entity
  /\ Length \in [Sfx -> Nat \ {0}]
  /\ \A s \in Sfx : LoopStart[s] \in -1 .. Length[s] - 1
  /\ AmbientSfx \in [0 .. Ambients - 1 -> Sfx]
  /\ {MaxSkip, Ahead} \subseteq Nat \ {0}

VARIABLES
  paintedtime,
  channels,
  total        \* total_channels

vars == <<paintedtime, channels, total>>

Channel == 0 .. Ambients + Dynamics + Statics - 1
AmbientChannel == 0 .. Ambients - 1
DynamicChannel == Ambients .. Ambients + Dynamics - 1

\* The entity 0 is the world; an entity's channel 0 never overrides, -1 overrides any.
Label == {-1, 0, 1}
Cleared == [sfx |-> NoSfx, pos |-> 0, end |-> 0, ent |-> 0, label |-> 0]
Plays(c) == channels[c].sfx # NoSfx

Init ==
  /\ paintedtime = 0
  /\ channels = [c \in Channel |-> Cleared]
  /\ total = Ambients + Dynamics

-----------------------------------------------------------------------------

\* SND_PickChannel: a channel of the same entity, or the one with the least left to play; a
\* sound of the player gives way to no other.  {} if there is none.
SND_PickChannel(e, l) ==
  LET Same  == {c \in DynamicChannel : l # 0 /\ channels[c].ent = e /\ l \in {channels[c].label, -1}}
      Other == {c \in DynamicChannel : ~(channels[c].ent = View /\ e # View /\ Plays(c))}
  IN  IF Same # {} THEN {Min(Same)}
      ELSE {c \in Other : \A d \in Other :
                     \/ channels[c].end < channels[d].end
                     \/ channels[c].end = channels[d].end /\ c <= d}

\* Mutant: a sound that begins a little into it ends where it would have.
S_StartSoundShort(e, l, s) ==
  \E c \in SND_PickChannel(e, l), skip \in 0 .. MaxSkip - 1 :
    /\ channels' = [channels EXCEPT ![c] = [Cleared EXCEPT !.ent = e, !.label = l, !.sfx = s,
                                              !.pos = skip, !.end = paintedtime + Length[s]]]
    /\ UNCHANGED <<paintedtime, total>>

\* S_StartSound.  The sound is not heard (S_Spatialize) or not loaded, and the channel stays
\* empty; or it is started, a little into it if the same sound has been started this frame.
S_StartSound(e, l, s) ==
  \E c \in SND_PickChannel(e, l) :
    LET empty  == [Cleared EXCEPT !.ent = e, !.label = l]
        twin   == \E d \in DynamicChannel \ {c} : channels[d].sfx = s /\ channels[d].pos = 0
        finish == paintedtime + Length[s]
    IN  /\ \/ channels' = [channels EXCEPT ![c] = empty]
           \/ \E rand \in IF twin THEN 0 .. MaxSkip - 1 ELSE {0} :
                LET skip == IF rand >= finish THEN finish - 1 ELSE rand
                IN  channels' = [channels EXCEPT ![c] =
                                   [empty EXCEPT !.sfx = s, !.pos = skip, !.end = finish - skip]]
        /\ UNCHANGED <<paintedtime, total>>

\* S_StopSound, which looks at the first MAX_DYNAMIC_CHANNELS channels.
Stopped(e, l) == {c \in 0 .. Dynamics - 1 : channels[c].ent = e /\ channels[c].label = l}
S_StopSound(e, l) ==
  /\ Stopped(e, l) # {}
  /\ channels' = [channels EXCEPT ![Min(Stopped(e, l))].end = 0, ![Min(Stopped(e, l))].sfx = NoSfx]
  /\ UNCHANGED <<paintedtime, total>>

S_StopAllSounds ==
  /\ total' = Ambients + Dynamics
  /\ channels' = [c \in Channel |-> Cleared]
  /\ UNCHANGED paintedtime

\* S_StaticSound takes a channel before it knows that the sound loops.
S_StaticSound(s) ==
  /\ total \in Channel
  /\ total' = total + 1
  /\ channels' = IF LoopStart[s] = -1 THEN channels
                 ELSE [channels EXCEPT ![total].sfx = s, ![total].end = paintedtime + Length[s]]
  /\ UNCHANGED paintedtime

\* S_UpdateAmbientSounds: all of them, or none outside the world.
S_UpdateAmbientSounds ==
  /\ \E on \in BOOLEAN :
       channels' = [c \in Channel |-> IF c \in AmbientChannel
                      THEN [channels[c] EXCEPT !.sfx = IF on THEN AmbientSfx[c] ELSE NoSfx]
                      ELSE channels[c]]
  /\ UNCHANGED <<paintedtime, total>>

-----------------------------------------------------------------------------

\* A turn of the loop of S_PaintChannels for a channel that is painted up to a time: it is painted
\* up to the time to or to the end of its sound, which is then begun again or over.
Turn(painted, to) ==
  LET ch    == painted.channel
      count == (IF ch.end < to THEN ch.end ELSE to) - painted.time
      next  == IF count > 0 THEN painted.time + count ELSE painted.time
      moved == [ch EXCEPT !.pos = @ + (next - painted.time)]
      loop  == LoopStart[ch.sfx]
      left  == CASE next < ch.end -> moved
                 [] next >= ch.end /\ loop = -1 -> [moved EXCEPT !.sfx = NoSfx]
                 [] OTHER -> [moved EXCEPT !.pos = loop, !.end = next + Length[ch.sfx] - loop]
  IN  IF painted.time < to /\ ch.sfx # NoSfx THEN [channel |-> left, time |-> next] ELSE painted

\* All its turns: only the first may paint nothing.
Turns(ch, from, to) ==
  LET after[n \in 0 .. to - from + 1] ==
        IF n = 0 THEN [channel |-> ch, time |-> from] ELSE Turn(after[n - 1], to)
  IN  after
Painted(ch, from, to) == Turns(ch, from, to)[to - from + 1].channel

Playing == {c \in Channel : c < total /\ Plays(c)}

\* S_PaintChannels: those that play and are heard are painted.
S_PaintChannels(to, heard) ==
  /\ paintedtime < to
  /\ channels' = [c \in Channel |-> IF c \in heard THEN Painted(channels[c], paintedtime, to)
                                                    ELSE channels[c]]
  /\ paintedtime' = to
  /\ UNCHANGED total

\* S_Update_ sets the time forward without painting.
Overshoot(to) ==
  /\ paintedtime < to /\ paintedtime' = to
  /\ UNCHANGED <<channels, total>>

Next ==
  \/ \E e \in Entity, l \in Label : S_StopSound(e, l) \/ \E s \in Sfx : S_StartSound(e, l, s)
  \/ \E s \in Sfx : S_StaticSound(s)
  \/ S_StopAllSounds \/ S_UpdateAmbientSounds
  \/ \E to \in paintedtime + 1 .. paintedtime + Ahead :
       /\ to <= MaxTime
       /\ Overshoot(to) \/ \E heard \in SUBSET Playing : S_PaintChannels(to, heard)

Spec == Init /\ [][Next]_vars

-----------------------------------------------------------------------------

\* What a channel has still to play lies inside its sound, wherever the time was set, however
\* far it was skipped and looped: SND_PaintChannelFrom8 reads as much from pos on.
ReadsInsideSound ==
  \A c \in Channel : Plays(c) =>
    channels[c].pos + (channels[c].end - paintedtime) <= Length[channels[c].sfx]

\* "allways override sound from same entity": one entity does not play twice on one of its
\* channels (SND_PickChannel).
OneSoundPerLabel ==
  \A c, d \in DynamicChannel :
    Plays(c) /\ Plays(d) /\ channels[c].label = 1 /\ channels[d].label = 1
      /\ channels[c].ent = channels[d].ent => c = d

-----------------------------------------------------------------------------
(* A comment of the code says so, and the code does otherwise (README, Findings). *)

\* "0 to MAX_DYNAMIC_CHANNELS-1 = normal entity sounds": what an entity plays is where
\* S_StopSound looks for it.
EntitySoundsComeFirst ==
  \A c \in Channel : Plays(c) /\ channels[c].ent # 0 => c < Dynamics

=============================================================================
