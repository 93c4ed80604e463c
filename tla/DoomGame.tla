------------------------------ MODULE DoomGame ------------------------------
(***************************************************************************)
(* What Doom is doing (src/doomgeneric/g_game.c, d_main.c): showing the    *)
(* pages and demos of its title sequence, or playing a level, counting it  *)
(* up, and ending.  What is to change is left in gameaction, by the menu   *)
(* and by the level, and carried out at the beginning of the next tic; the *)
(* title sequence has a flag of its own.  Commands are made ahead: a tic   *)
(* runs the command of a moment when other things were asked for.          *)
(*                                                                         *)
(* Shareware, one player, no recording.  An event, a command, and each     *)
(* thing a tic carries out is a step.                                      *)
(***************************************************************************)
EXTENDS Naturals, Sequences

CONSTANTS
  LastMap,     \* 8: the maps are 1 .. LastMap
  Demos,       \* 3: the demos of the title sequence, one before every second page
  MaxAhead     \* the commands that may be made ahead (d_loop.c)

GameAssumption == {LastMap, Demos, MaxAhead} \subseteq Nat \ {0}

VARIABLES
  gamestate, gameaction,
  advancedemo, demosequence,
  demoplayback, usergame, paused,
  gamemap,
  playerstate,           \* of players[consoleplayer]
  intermission,          \* what WI_Start has loaded is in memory
  oldgamestate,          \* of the last tic
  cmds,                  \* the commands made and not run, by their special button
  sendpause, sendsave,
  gamekeydown, held,     \* of one key; history: its last event was a press
  menu,                  \* what is on screen: "none", the "save" menu, the question of "end"
  defdemo, demoLump,     \* the demo that plays; the demos whose lump is static
  at                     \* "loop", "events" in BuildNewTic, "actions" in G_Ticker

titleVars  == <<advancedemo, demosequence>>
inputVars  == <<sendpause, sendsave, gamekeydown, held, menu>>
playVars   == <<demoplayback, usergame, paused, gamemap, playerstate, defdemo, demoLump>>
stateVars  == <<gamestate, gameaction, oldgamestate, intermission>>
vars == <<titleVars, inputVars, playVars, stateVars, cmds, at>>

Map == 1 .. LastMap
Pages == 2 * Demos     \* the steps of the title sequence, a demo at every odd one

Init ==
  /\ gamestate = "demoscreen" /\ gameaction = "nothing" /\ oldgamestate = "none"
  /\ advancedemo = TRUE /\ demosequence = Pages - 1       \* D_StartTitle: -1
  /\ demoplayback = FALSE /\ usergame = FALSE /\ paused = FALSE
  /\ gamemap = 1 /\ playerstate = "live" /\ intermission = FALSE
  /\ cmds = <<>> /\ sendpause = FALSE /\ sendsave = FALSE
  /\ gamekeydown = FALSE /\ held = FALSE /\ menu = "none"
  /\ defdemo = 0 /\ demoLump = {} /\ at = "loop"

-----------------------------------------------------------------------------
(* BuildNewTic: the events, then a command if the game is not too far behind. *)

I_StartTic ==
  /\ at = "loop" /\ at' = "events"
  /\ UNCHANGED <<titleVars, inputVars, playVars, stateVars, cmds>>

Event == at = "events" /\ UNCHANGED <<playVars, gamestate, oldgamestate, intermission, cmds, at>>

\* Keys open the menu while the title sequence runs.
InTitle == gameaction = "nothing" /\ (demoplayback \/ gamestate = "demoscreen")

\* The menu, the automap or a text may eat a press, but not a release.
KeyDown ==
  /\ Event /\ ~held /\ held' = TRUE
  /\ gamekeydown' \in IF InTitle THEN {gamekeydown} ELSE {gamekeydown, TRUE}
  /\ UNCHANGED <<titleVars, gameaction, sendpause, sendsave, menu>>

KeyUp ==
  /\ Event /\ held /\ held' = FALSE
  /\ gamekeydown' = (InTitle /\ gamekeydown)
  /\ UNCHANGED <<titleVars, gameaction, sendpause, sendsave, menu>>

PauseKey ==
  /\ Event /\ ~InTitle /\ sendpause' = TRUE
  /\ UNCHANGED <<titleVars, gameaction, sendsave, gamekeydown, held, menu>>

\* G_DeferedInitNew and G_LoadGame.
Ask(action) ==
  /\ Event /\ menu = "none" /\ gameaction' = action
  /\ UNCHANGED <<titleVars, inputVars>>

\* What is on screen goes, or comes; the game and the title sequence go on under it.
Shows(next) ==
  /\ Event /\ menu' = next
  /\ UNCHANGED <<titleVars, gameaction, sendpause, sendsave, gamekeydown, held>>

\* Only a game in a level has a menu of its savegames, and only a game is asked whether to end.
M_SaveGame   == menu = "none" /\ usergame /\ gamestate = "level" /\ Shows("save")
M_EndGame    == menu = "none" /\ usergame /\ Shows("end")
M_ClearMenus == menu # "none" /\ Shows("none")

\* M_DoSave: whatever became of the game since the menu was opened.
G_SaveGame ==
  /\ Event /\ menu = "save" /\ menu' = "none"
  /\ sendsave' = TRUE
  /\ UNCHANGED <<titleVars, gameaction, sendpause, gamekeydown, held>>

\* M_EndGameResponse: whatever became of the game since the question was put.
D_StartTitle ==
  /\ Event /\ menu = "end" /\ menu' = "none"
  /\ gameaction' = "nothing"
  /\ demosequence' = Pages - 1 /\ advancedemo' = TRUE
  /\ UNCHANGED <<sendpause, sendsave, gamekeydown, held>>

G_BuildTiccmd ==
  /\ at = "events" /\ at' = "loop"
  /\ IF Len(cmds) >= MaxAhead
       THEN UNCHANGED <<cmds, sendpause, sendsave>>
       ELSE /\ cmds' = Append(cmds, IF sendsave THEN "save" ELSE IF sendpause THEN "pause" ELSE "plain")
            /\ sendpause' = FALSE /\ sendsave' = FALSE
  /\ UNCHANGED <<titleVars, playVars, stateVars, gamekeydown, held, menu>>

-----------------------------------------------------------------------------
(* RunTic: the title sequence first, then what is to change the game.       *)

\* D_DoAdvanceDemo.  A player who is to be born again makes G_DoReborn ask for the level.
RunTic ==
  /\ at = "loop" /\ cmds # <<>> /\ at' = "actions"
  /\ LET next == (demosequence + 1) % Pages
         reborn == playerstate = "reborn" /\ ~advancedemo
     IN  IF advancedemo
           THEN /\ advancedemo' = FALSE /\ demosequence' = next
                /\ usergame' = FALSE /\ paused' = FALSE /\ playerstate' = "live"
                /\ gameaction' = IF next % 2 = 1 THEN "playdemo" ELSE "nothing"
                /\ gamestate' = IF next % 2 = 1 THEN gamestate ELSE "demoscreen"
                /\ defdemo' = IF next % 2 = 1 THEN next ELSE defdemo
           ELSE /\ gameaction' = IF reborn THEN "loadlevel" ELSE gameaction
                /\ UNCHANGED <<titleVars, usergame, paused, playerstate, gamestate, defdemo>>
  /\ UNCHANGED <<inputVars, demoplayback, gamemap, demoLump, oldgamestate, intermission, cmds>>

Acts(action) ==
  at = "actions" /\ gameaction = action /\ UNCHANGED <<titleVars, oldgamestate, held, cmds, at>>

\* Mutant: the keys that are down stay down.
G_DoLoadLevelKeys(map) ==
  /\ gamestate' = "level" /\ gameaction' = "nothing"
  /\ gamemap' = map /\ playerstate' = "live"
  /\ paused' = FALSE
  /\ sendpause' = FALSE /\ sendsave' = FALSE
  /\ UNCHANGED <<intermission, gamekeydown, menu>>

\* G_DoLoadLevel clears what the events had set.
G_DoLoadLevel(map) ==
  /\ gamestate' = "level" /\ gameaction' = "nothing"
  /\ gamemap' = map /\ playerstate' = "live"
  /\ paused' = FALSE
  /\ gamekeydown' = FALSE /\ sendpause' = FALSE /\ sendsave' = FALSE
  /\ UNCHANGED <<intermission, menu>>

LoadLevel ==
  /\ Acts("loadlevel") /\ G_DoLoadLevel(gamemap)
  /\ UNCHANGED <<demoplayback, usergame, defdemo, demoLump>>

\* Mutant: the demo that was on plays into the new game.
G_DoNewGameInDemo ==
  /\ Acts("newgame") /\ G_DoLoadLevel(1)
  /\ usergame' = TRUE
  /\ UNCHANGED <<demoplayback, defdemo, demoLump>>

G_DoNewGame ==
  /\ Acts("newgame") /\ G_DoLoadLevel(1)
  /\ demoplayback' = FALSE /\ usergame' = TRUE
  /\ UNCHANGED <<defdemo, demoLump>>

\* A file that is missing, or no savegame, is left.
G_DoLoadGame ==
  /\ Acts("loadgame")
  /\ \/ \E map \in Map : G_DoLoadLevel(map) /\ demoplayback' = FALSE /\ usergame' = TRUE
     \/ /\ gameaction' = "nothing"
        /\ UNCHANGED <<gamestate, intermission, inputVars, demoplayback, usergame, paused, gamemap, playerstate>>
  /\ UNCHANGED <<defdemo, demoLump>>

G_DoSaveGame ==
  /\ Acts("savegame") /\ gameaction' = "nothing"
  /\ UNCHANGED <<gamestate, intermission, inputVars, playVars>>

\* The demo's lump is made static, until it has been played to its end.
G_DoPlayDemo ==
  /\ Acts("playdemo")
  /\ \E map \in Map : G_DoLoadLevel(map)
  /\ demoplayback' = TRUE /\ usergame' = FALSE
  /\ demoLump' = demoLump \cup {defdemo} /\ UNCHANGED defdemo

G_DoCompleted ==
  /\ Acts("completed")
  /\ IF gamemap = LastMap
       THEN gameaction' = "victory" /\ UNCHANGED <<gamestate, intermission>>
       ELSE gameaction' = "nothing" /\ gamestate' = "intermission" /\ intermission' = TRUE
  /\ UNCHANGED <<inputVars, playVars>>

F_StartFinale ==
  /\ Acts("victory") /\ gameaction' = "nothing" /\ gamestate' = "finale"
  /\ UNCHANGED <<intermission, inputVars, playVars>>

G_DoWorldDone ==
  /\ Acts("worlddone") /\ G_DoLoadLevel(gamemap + 1)
  /\ UNCHANGED <<demoplayback, usergame, defdemo, demoLump>>

Act ==
  \/ LoadLevel \/ G_DoNewGame \/ G_DoLoadGame \/ G_DoSaveGame \/ G_DoPlayDemo
  \/ G_DoCompleted \/ F_StartFinale \/ G_DoWorldDone

-----------------------------------------------------------------------------
(* The rest of G_Ticker: the command, its special button, and the state's own ticker. *)

\* The special button of the command, or of the demo, which has none.
Special(button) ==
  IF button = "save" THEN "savegame" ELSE "nothing"

\* What the state's ticker may ask for: P_Ticker, which does nothing while paused, and
\* WI_Ticker.
Tickers(pause) ==
  CASE gamestate = "level" /\ ~pause -> {"nothing", "completed", "die", "reborn"}
    [] gamestate = "intermission"    -> {"nothing", "worlddone"}
    [] gamestate = "demoscreen"      -> {"nothing", "advance"}
    [] OTHER                         -> {"nothing"}

\* Mutant: an intermission ends only in the title sequence.
WI_EndInTitle == oldgamestate = "intermission" /\ gamestate = "demoscreen"

\* The pictures of an intermission are given back when it is over.
WI_End == oldgamestate = "intermission" /\ gamestate # "intermission"

G_Ticker ==
  /\ at = "actions" /\ gameaction = "nothing" /\ at' = "loop"
  /\ cmds' = Tail(cmds)
  /\ \E ends \in IF demoplayback THEN BOOLEAN ELSE {FALSE} :
       LET button == IF demoplayback /\ ~ends THEN "plain" ELSE Head(cmds)
           pause  == IF button = "pause" THEN ~paused ELSE paused
       IN  \E ticker \in Tickers(pause) :
             /\ demoplayback' = (demoplayback /\ ~ends)
             /\ demoLump' = IF ends THEN demoLump \ {defdemo} ELSE demoLump
             /\ paused' = pause
             /\ gameaction' = IF ticker \in {"completed", "worlddone"} THEN ticker ELSE Special(button)
             /\ playerstate' = CASE ticker = "die" -> "dead"
                                 [] ticker = "reborn" /\ playerstate = "dead" -> "reborn"
                                 [] OTHER -> playerstate
             /\ advancedemo' = (ends \/ ticker = "advance")
  /\ intermission' = (intermission /\ ~WI_End)
  /\ oldgamestate' = gamestate
  /\ UNCHANGED <<gamestate, demosequence, usergame, gamemap, defdemo, inputVars>>

Events ==
  \/ KeyDown \/ KeyUp \/ PauseKey
  \/ Ask("newgame") \/ Ask("loadgame")
  \/ M_SaveGame \/ M_EndGame \/ M_ClearMenus \/ G_SaveGame \/ D_StartTitle

Work == G_BuildTiccmd \/ RunTic \/ Act \/ G_Ticker

Next == I_StartTic \/ Events \/ Work

Spec == Init /\ [][Next]_vars

-----------------------------------------------------------------------------
(* What holds.                                                              *)

\* The states fit each other, wherever menu, level and title sequence took the game: a demo is
\* not the user's game and has a static lump, the title is no game at all, and the picture of
\* an intermission can be drawn as long as there is one.
Fits ==
  /\ demoplayback => ~usergame
  /\ demoplayback /\ gameaction # "playdemo" => defdemo \in demoLump
  /\ gamestate = "demoscreen" => ~usergame
  /\ gamestate = "intermission" => intermission
  /\ gameaction = "worlddone" => gamemap < LastMap
  /\ Len(cmds) <= MaxAhead

\* There is always something on: a page of the title, a demo, the user's game, or the title
\* about to go on; nobody is left in a level that is nobody's, where no menu helps
\* (D_DoAdvanceDemo against what the menu asks for in between).
SomethingIsOn ==
  at = "loop" => gamestate = "demoscreen" \/ demoplayback \/ usergame \/ advancedemo

\* The states fit each other, and there is always something on.
Sound == Fits /\ SomethingIsOn

\* What an intermission has loaded is given back in the tic that ends it (WI_End), before
\* another one begins: it is loaded only once.
LoadedOnce == [][G_DoCompleted /\ intermission' => ~intermission]_vars

\* A key is down for the game only while it is: its release is never missed by a level the
\* user plays, whoever else looks at events (D_ProcessEvents, G_Responder).
NoStuckKey == gamestate = "level" /\ usergame /\ ~advancedemo => (gamekeydown => held)

-----------------------------------------------------------------------------
(* A comment of the code says so, and the code does otherwise (README, Findings). *)

\* "no save / end game here" (D_DoAdvanceDemo): a game is saved only while there is one.
NoSaveHere == [][G_DoSaveGame => usergame]_vars

=============================================================================
