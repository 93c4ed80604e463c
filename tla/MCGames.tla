------------------------------- MODULE MCGames ------------------------------
(***************************************************************************)
(* The games, for TLC, what may happen at any time: the states of Doom,    *)
(* the channels of Quake's mixer, and Quake's keys, once with two that     *)
(* fire, once with a console that is typed at.  They share nothing here.   *)
(***************************************************************************)
EXTENDS DoomGame, Integers

CONSTANTS
  Ambients, Dynamics, Statics, Sfx, NoSfx, Length, LoopStart, AmbientSfx, Entity, View, MaxSkip,
  Ahead, MaxTime,   \* of QuakeMixer
  FireKeys, ConsoleKeys, Taps, UsbMax, MaxTyped, MaxCommands   \* of QuakeKeys

VARIABLES
  which,         \* the component at work, see MCInit
  paintedtime, channels, total,   \* QuakeMixer
  keyUsb, keyHeld, keyAt, keyRepeats, keyLast, keyDest, keyPage, keyCbuf, keyBound, keyGame,
  keyB, keyLost, keyOwed, keyTyped   \* QuakeKeys

MVars == <<paintedtime, channels, total>>
KVars == <<keyUsb, keyHeld, keyAt, keyRepeats, keyLast, keyDest, keyPage, keyCbuf, keyBound, keyGame,
  keyB, keyLost, keyOwed, keyTyped>>
MCVars == <<which, vars, MVars, KVars>>

\* Constants, see the .cfg: one of the sounds loops.
Sounds       == {"once", "loop"}
SoundLength  == [s \in Sounds |-> IF s = "once" THEN 1 ELSE 2]
SoundLoop    == [s \in Sounds |-> IF s = "once" THEN -1 ELSE 1]
AmbientSound == [c \in {0} |-> "loop"]

M == INSTANCE QuakeMixer
K == INSTANCE QuakeKeys WITH
  usb <- keyUsb, held <- keyHeld, at <- keyAt, repeats <- keyRepeats, last <- keyLast,
  dest <- keyDest, page <- keyPage, cbuf <- keyCbuf, bound <- keyBound, game <- keyGame,
  b <- keyB, lost <- keyLost, owed <- keyOwed, typed <- keyTyped

\* One of them is at work; the others stay as they begin.
GOnly == which = "doom" /\ UNCHANGED <<which, MVars, KVars>>
MOnly == which = "mixer" /\ UNCHANGED <<which, vars, KVars>>
KOnly == which = "keys" /\ UNCHANGED <<which, vars, MVars>>
COnly == which = "console" /\ keyHeld' \subseteq ConsoleKeys /\ UNCHANGED <<which, vars, MVars>>

MCInit ==
  /\ which \in {"doom", "mixer", "keys", "console"}
  /\ Init
  /\ M!Init
  /\ K!Init /\ (keyTyped = 0 <=> which = "console")

MCNext ==
  \/ GOnly /\ Next
  \/ MOnly /\ M!Next
  \/ K!Next /\ (KOnly \/ COnly)

MCSpec == MCInit /\ [][MCNext]_MCVars

-----------------------------------------------------------------------------
ASSUME GameAssumed  == GameAssumption
ASSUME MixerAssumed == M!MixerAssumption
ASSUME KeysAssumed  == K!KeysAssumption

\* Quake's fire button is down exactly while a key holds it, and no press is lost (QuakeKeys).
FiresWhileHeld == K!Sound

\* Quake's mixer reads inside the sounds it plays, one for each label (QuakeMixer).
ReadsInsideSound == M!ReadsInsideSound /\ M!OneSoundPerLabel

=============================================================================
