------------------------------ MODULE DoomLoop ------------------------------
(***************************************************************************)
(* The game loop of Doom without a network (src/doomgeneric/d_loop.c): a   *)
(* command is made for each 35th of a second that has passed, at most      *)
(* MaxAhead of them ahead of the game, and a frame of the program          *)
(* (doomgeneric.cs, d_main.c) runs some of those that are made.            *)
(*                                                                         *)
(* The clock is the program's own: milliseconds it has slept.  Two tics    *)
(* are computed from it, an unsigned and a signed one, and both products   *)
(* overflow, the signed one at half the way.                               *)
(***************************************************************************)
EXTENDS Integers

CONSTANTS
  TicRate,      \* TICRATE, the frames in a second, too
  Second,       \* 1000 ms
  Width,        \* 2^32
  BackupTics,   \* BACKUPTICS
  MaxAhead,     \* 5
  MaxWipe,      \* bound: the milliseconds of a wipe
  Tics          \* bound: tics are numbered modulo Tics

LoopAssumption ==
  /\ {TicRate, Second, BackupTics, MaxAhead, MaxWipe, Tics} \subseteq Nat \ {0}
  /\ Width \in Nat /\ Width > 2 * Second /\ Width % 2 = 0
  /\ TicRate < Second
  /\ Tics % BackupTics = 0 /\ Tics > MaxAhead /\ BackupTics >= MaxAhead

VARIABLES
  clock,        \* s_ticks * TICRATE, modulo the width
  remainder,    \* s_tickMillisecondRemainder
  maketic, gametic,
  ticdata,      \* the tic whose command is in each cell
  lasttime, skiptics,
  oldentertics,
  at,           \* where the program is, and where NetUpdate returns to
  newtics,      \* of NetUpdate: the commands still to be made
  entertic, counts, lowtic,   \* of TryRunTics
  ran, idle     \* history: a tic was run this frame; the frames in a row without one

timeVars == <<clock, remainder>>
callVars == <<at, newtics, entertic, counts, lowtic>>
vars == <<timeVars, maketic, gametic, ticdata, lasttime, skiptics, oldentertics, callVars, ran, idle>>

I_GetTime == clock \div Second

\* GetAdjustedTime: the division of C is towards zero.
GetAdjustedTime ==
  IF clock < Width \div 2 THEN clock \div Second ELSE -((Width - clock) \div Second)

Sleep(ms) == clock' = (clock + ms * TicRate) % Width

\* The commands made and not run, up to a tic.
Upto(tic) == (tic - gametic) % Tics

Init ==
  /\ clock = 0 /\ remainder = 0
  /\ maketic = 0 /\ gametic = 0
  /\ ticdata = [c \in 0 .. BackupTics - 1 |-> 0]
  /\ lasttime = 0 /\ skiptics = 0 /\ oldentertics = 0
  /\ at = "enter" /\ newtics = 0 /\ entertic = 0 /\ counts = 0 /\ lowtic = 0
  /\ ran = FALSE /\ idle = 0

-----------------------------------------------------------------------------
(* NetUpdate.                                                               *)

Elapsed == GetAdjustedTime - lasttime

\* A time that goes back is taken off the tics to come.  The call goes on at "update" and
\* returns to where it was made from.
NetUpdate(back) ==
  /\ lasttime' = GetAdjustedTime
  /\ newtics' = IF skiptics <= Elapsed THEN Elapsed - skiptics ELSE 0
  /\ skiptics' = IF skiptics <= Elapsed THEN 0 ELSE skiptics - Elapsed
  /\ at' = back

\* One command, unless the game is too far behind, which ends the loop.
BuildNewTic ==
  /\ newtics > 0
  /\ IF Upto(maketic) >= MaxAhead
       THEN newtics' = 0 /\ UNCHANGED <<maketic, ticdata>>
       ELSE /\ newtics' = newtics - 1
            /\ ticdata' = [ticdata EXCEPT ![maketic % BackupTics] = maketic]
            /\ maketic' = (maketic + 1) % Tics
  /\ UNCHANGED <<timeVars, gametic, lasttime, skiptics, oldentertics, at, entertic, counts, lowtic, ran, idle>>

At(place) == at = place /\ newtics = 0

-----------------------------------------------------------------------------
(* TryRunTics.                                                              *)

Minimum(a, b) == IF a < b THEN a ELSE b

\* realtics is kept in counts until it is decided how many tics to run.
Enter ==
  /\ At("enter")
  /\ entertic' = I_GetTime /\ oldentertics' = I_GetTime
  /\ counts' = I_GetTime - oldentertics
  /\ NetUpdate("decide")
  /\ UNCHANGED <<timeVars, maketic, gametic, ticdata, lowtic, ran, idle>>

Decide ==
  /\ At("decide")
  /\ lowtic' = maketic
  /\ LET available == Upto(maketic)
         n == IF counts < available - 1 THEN counts + 1 ELSE Minimum(counts, available)
     IN  counts' = IF n < 1 THEN 1 ELSE n
  /\ at' = "wait"
  /\ UNCHANGED <<timeVars, maketic, gametic, ticdata, lasttime, skiptics, oldentertics, newtics, entertic, ran, idle>>

\* Tics that are not there yet are waited for, until the time has moved on.
Wait ==
  /\ At("wait") /\ Upto(lowtic) < counts
  /\ NetUpdate("waited")
  /\ UNCHANGED <<timeVars, maketic, gametic, ticdata, oldentertics, entertic, counts, lowtic, ran, idle>>

\* Mutant: the time does not go on while it is waited for.
WaitedBusily ==
  /\ At("waited")
  /\ lowtic' = maketic
  /\ at' = IF I_GetTime > entertic THEN "display" ELSE "wait"
  /\ UNCHANGED <<timeVars, maketic, gametic, ticdata, lasttime, skiptics, oldentertics, newtics, entertic, counts, ran, idle>>

Waited ==
  /\ At("waited")
  /\ lowtic' = maketic
  /\ IF I_GetTime > entertic
       THEN at' = "display" /\ UNCHANGED clock
       ELSE at' = "wait" /\ Sleep(1)
  /\ UNCHANGED <<remainder, maketic, gametic, ticdata, lasttime, skiptics, oldentertics, newtics, entertic, counts, ran, idle>>

Ready ==
  /\ At("wait") /\ Upto(lowtic) >= counts
  /\ at' = "run"
  /\ UNCHANGED <<timeVars, maketic, gametic, ticdata, lasttime, skiptics, oldentertics, newtics, entertic, counts, lowtic, ran, idle>>

\* The tic of ticdata's cell is run, and NetUpdate called after it.
RunTic ==
  /\ At("run") /\ counts > 0
  /\ gametic' = (gametic + 1) % Tics
  /\ counts' = counts - 1
  /\ ran' = TRUE /\ idle' = 0
  /\ NetUpdate("run")
  /\ UNCHANGED <<timeVars, maketic, ticdata, oldentertics, entertic, lowtic>>

Done ==
  /\ At("run") /\ counts = 0
  /\ at' = "display"
  /\ UNCHANGED <<timeVars, maketic, gametic, ticdata, lasttime, skiptics, oldentertics, newtics, entertic, counts, lowtic, ran, idle>>

-----------------------------------------------------------------------------
(* The frame around it.                                                     *)

\* D_Display, and R_RenderPlayerView before it, call NetUpdate as well.
D_Display ==
  /\ At("display")
  /\ NetUpdate("frame")
  /\ UNCHANGED <<timeVars, maketic, gametic, ticdata, oldentertics, entertic, counts, lowtic, ran, idle>>

\* A wipe sleeps until the time has moved on, again and again.
Wipe(ms) ==
  /\ At("frame") /\ ran
  /\ Sleep(ms)
  /\ at' = "wiped"
  /\ UNCHANGED <<remainder, maketic, gametic, ticdata, lasttime, skiptics, oldentertics, newtics, entertic, counts, lowtic, ran, idle>>

\* WaitForNextTick, and doomgeneric_Tick again.
WaitForNextTick ==
  /\ At("frame") \/ At("wiped")
  /\ Sleep((remainder + Second) \div TicRate)
  /\ remainder' = (remainder + Second) % TicRate
  /\ at' = "enter" /\ ran' = FALSE
  /\ idle' = IF ran THEN 0 ELSE Minimum(idle + 1, 2)
  /\ UNCHANGED <<maketic, gametic, ticdata, lasttime, skiptics, oldentertics, newtics, entertic, counts, lowtic>>

Work ==
  \/ BuildNewTic
  \/ Enter \/ Decide \/ Wait \/ Waited \/ Ready \/ RunTic \/ Done
  \/ D_Display \/ WaitForNextTick

Next == Work \/ \E ms \in 1 .. MaxWipe : Wipe(ms)

Spec == Init /\ [][Next]_vars
FairSpec == Spec /\ WF_vars(Work)

-----------------------------------------------------------------------------
(* What holds.                                                              *)

\* Every command is run, once and for the tic it was made for: none of those to be run is
\* painted over in the ring (BuildNewTic against TryRunTics), and none is run that was not made
\* ("gametic>lowtic").
RunsWhatWasMade ==
  /\ \A d \in 0 .. Upto(maketic) - 1 :
       LET tic == (gametic + d) % Tics IN ticdata[tic % BackupTics] = tic
  /\ at = "run" => counts <= Upto(lowtic) /\ Upto(lowtic) <= Upto(maketic)
  /\ Upto(maketic) <= MaxAhead

\* Back in time: NetUpdate waits for as many tics as the signed time fell back.
Frozen == skiptics > 0

\* Two frames without a tic never follow each other, whatever the remainders and the wipes,
\* until the signed time overflows.
SoonRunsATic == [][idle' > idle /\ idle' = 2 => Frozen]_vars

\* The game goes on until then, and is never so far behind that it stops.
GoesOnUntilFrozen == []<><<RunTic>>_vars \/ <>Frozen

\* "TryRunTics (); // will run at least one tic" (doomgeneric_Tick), "Don't stay in this loop
\* forever" (TryRunTics): the game goes on for ever.
GoesOn == []<><<RunTic>>_vars

=============================================================================
