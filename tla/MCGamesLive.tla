----------------------------- MODULE MCGamesLive ----------------------------
(***************************************************************************)
(* The games, for TLC, what must go on: Doom's main loop, the movers of a  *)
(* level (a door, two lifts, or two crushers) and a player's weapon; and   *)
(* Quake's session of host, client and server, and the ring of its sound   *)
(* device.  They share nothing here.                                       *)
(***************************************************************************)
EXTENDS DoomWeapon

CONSTANTS
  TicRate, Second, Width, BackupTics, MaxAhead, MaxWipe, Tics,   \* of DoomLoop
  Doors, Lifts, Crushers, Levels, InitFloor, InitCeiling, LowFloor, HighFloor, DoorTop, HighCeiling,
  Thing, Reached, ByHand, CrushGap, WaitTime, MaxPlats, MaxCeilings, Leftover, Address,   \* of DoomMovers
  Frames, MixAhead, SubmitFrames, TimeLimit, InRate, OutRate   \* of QuakeSound

VARIABLES
  which,         \* the component at work, see MCInit
  clock, remainder, maketic, gametic, ticdata, lasttime, skiptics, oldentertics, loopAt,
  newtics, entertic, counts, lowtic, ran, idle,   \* DoomLoop
  level, floor, ceiling, unset, thing, specialdata, mover, activeplats, activeceilings, failed,   \* DoomMovers
  sessionPhase, h, typed,   \* QuakeSession
  ring, paintedtime, buffers, oldsamplepos, submitted, dmaPhase, queue, dmaAt, miscounted   \* QuakeSound

LVars == <<clock, remainder, maketic, gametic, ticdata, lasttime, skiptics, oldentertics, loopAt,
  newtics, entertic, counts, lowtic, ran, idle>>
MVars == <<level, floor, ceiling, unset, thing, specialdata, mover, activeplats, activeceilings, failed>>
SVars == <<sessionPhase, h, typed>>
DVars == <<ring, paintedtime, buffers, oldsamplepos, submitted, dmaPhase, queue, dmaAt, miscounted>>
MCVars == <<which, LVars, MVars, vars, SVars, DVars>>

\* Constants, see the .cfg.
DoomLevels  == {{"door"}, {"lift", "lift2"}, {"crusher", "crusher2"}}
DoomSectors == UNION DoomLevels
DoomFloor   == [s \in DoomSectors |-> IF s = "lift" THEN 1 ELSE 0]
DoomCeiling == [s \in DoomSectors |-> IF s = "door" THEN 0 ELSE 2]
DoomKinds   == {"clip", "shell", "cell", "misl"}
DoomAmmo    == [a \in DoomKinds |-> CASE a = "shell" -> 3 [] a = "cell" -> 0 [] OTHER -> 1]
DoomClip    == [a \in DoomKinds |-> 1]

L == INSTANCE DoomLoop WITH at <- loopAt
M == INSTANCE DoomMovers
S == INSTANCE QuakeSession WITH
  Command <- {"map", "map missing", "changelevel", "changelevel missing", "load", "load missing", "load stray",
   "disconnect", "connect", "playdemo", "playdemo missing", "stopdemo", "demos", "record", "record map", "stop"},
  MaxTyped <- 5, phase <- sessionPhase
D == INSTANCE QuakeSound WITH phase <- dmaPhase, at <- dmaAt

\* One of them is at work; the others stay as they begin.
LOnly == which = "loop" /\ UNCHANGED <<which, MVars, vars, SVars, DVars>>
MOnly == which = "movers" /\ UNCHANGED <<which, LVars, vars, SVars, DVars>>
WOnly == which = "weapon" /\ UNCHANGED <<which, LVars, MVars, SVars, DVars>>
SOnly == which = "session" /\ UNCHANGED <<which, LVars, MVars, vars, DVars>>
DOnly == which = "sound" /\ UNCHANGED <<which, LVars, MVars, vars, SVars>>

MCInit ==
  /\ which \in {"loop", "movers", "weapon", "session", "sound"}
  /\ L!Init
  /\ M!Init /\ (which # "movers" => level = {"door"})
  /\ Init
  /\ S!Init
  /\ D!Init

MCNext ==
  \/ LOnly /\ L!Next
  \/ MOnly /\ M!Next
  \/ WOnly /\ Next
  \/ SOnly /\ S!Next
  \/ DOnly /\ D!Next

MCSpec == MCInit /\ [][MCNext]_MCVars
MCFairSpec ==
  /\ MCSpec
  /\ WF_MCVars(\/ LOnly /\ L!Work
               \/ MOnly /\ M!Think(1) /\ UNCHANGED level
               \/ WOnly /\ Hold
               \/ DOnly /\ D!StreamingPlaybackDone)
  /\ WF_MCVars((MOnly /\ M!Think(2) /\ UNCHANGED level) \/ (DOnly /\ D!S_Update_))
  /\ WF_MCVars(DOnly /\ D!Submitted) /\ SF_MCVars(DOnly /\ D!QG_AudioWrite)
  /\ WF_sessionPhase(SOnly /\ S!Turn)

-----------------------------------------------------------------------------
ASSUME WeaponAssumed == WeaponAssumption
ASSUME LoopAssumed   == L!LoopAssumption
ASSUME MoversAssumed == M!MoverAssumption /\ M!LevelAssumption
ASSUME SoundAssumed  == D!SoundAssumption

\* Every command of Doom is run once (DoomLoop), no pointer is left to a mover that is gone
\* (DoomMovers).
RunsWhatWasMade == L!RunsWhatWasMade /\ M!Sound

\* Quake: the two halves of the session agree on their connection, one step of the signon is
\* under way at a time, and the host has no error of its own making (QuakeSession).
OneStepUnderWay == S!Sound /\ S!OneStepUnderWay /\ S!NoError

\* Quake: what is handed to the driver was painted for that time, and nothing is left out
\* (QuakeSound).
HandsOutWhatWasPainted == D!Sound /\ D!HandsOutWhatWasPainted /\ D!NeverOvershoots

\* Doom: two frames without a tic never follow each other and its loop goes on until the time
\* overflows, movers that are left alone come to rest, and a player who holds the button goes on
\* attacking.
DoomGoesOn ==
  /\ L!SoonRunsATic
  /\ []<><<LOnly /\ L!RunTic>>_LVars \/ <>(which = "loop" => L!Frozen)
  /\ <>[][MOnly /\ \E a \in {1, 2} : M!Think(a)]_MVars => <>[]M!AtRest
  /\ <>[][WOnly /\ Hold]_vars => []<>(which = "weapon" => Attacking)

\* Quake: who is connected gets into the level (QuakeSession), and the sound goes on, but for
\* one case (QuakeSound).
QuakeGoesOn ==
  /\ S!GetsIn
  /\ []<><<DOnly /\ D!QG_AudioWrite>>_DVars \/ <>[](which = "sound" => D!Stuck)

=============================================================================
