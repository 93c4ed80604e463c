----------------------------- MODULE QuakeKeys -----------------------------
(***************************************************************************)
(* From the keyboard of Quake to the buttons of a move: the USB callback   *)
(* queues the keys (ConsoleApp1/System/Console.cs), the frame takes them   *)
(* (quakegeneric_btdn.c, in_null.c), gives each to the game, the console   *)
(* or a menu (keys.c, menu.c, console.c), the commands they stand for wait *)
(* in the command buffer (cmd.c), and those of the button +attack keep its *)
(* state (cl_input.c), which a move sends.                                 *)
(*                                                                         *)
(* Several keys are bound to +attack.  The keys that are not are pressed   *)
(* and released in one event, except that their releases do nothing.       *)
(***************************************************************************)
EXTENDS Integers, Sequences

CONSTANTS
  FireKeys,     \* bound to +attack
  ConsoleKeys,  \* those of them that the console takes for itself (consolekeys)
  Taps,         \* of "esc", "enter", "n" and "tilde", which is bound to toggleconsole
  UsbMax,       \* how many events s_usbEvents holds
  MaxTyped,     \* bound: lines typed at the console
  MaxCommands   \* bound: commands in the buffer

None == "none"
Typed == "typed"                                \* the key of a +attack typed without one

Lines == {<<line, None>> : line \in {"map", "disconnect", "wait", "plus", "minus"}}
         \cup {<<"unbind", k>> : k \in FireKeys}

KeysAssumption ==
  ConsoleKeys \subseteq FireKeys /\ UsbMax \in Nat \ {0}
  /\ MaxTyped \in Nat /\ MaxCommands \in Nat \ {0}
  /\ FireKeys \cap (Taps \cup {None, Typed}) = {}

VARIABLES
  usb,      \* s_usbEvents: the keys and whether they went down
  held,     \* the keys a finger is on
  at,       \* how far _Host_Frame is: "input", "exec", "send", or "ask" in SCR_ModalMessage
  repeats,  \* key_repeats (2 for more)
  last,     \* key_lastpress, if it answers the dialog
  dest,     \* key_dest
  page,     \* m_state
  cbuf,     \* cmd_text, command by command
  bound,    \* the keys whose binding is +attack
  game,     \* a game runs here and the client is in it (sv.active, cls.signon)
  b,        \* in_attack
  lost,     \* ghost: keys whose release cannot reach the button: dropped, or no longer bound
  owed,     \* ghost: the button went down and no move has said so
  typed     \* ghost: the lines typed so far, or not to be typed
ui == <<dest, page, last>>
vars == <<usb, held, at, repeats, ui, cbuf, bound, game, b, lost, owed, typed>>

Up == [down |-> <<None, None>>, on |-> FALSE, pressed |-> FALSE]

Init ==
  /\ usb = <<>> /\ held = {} /\ at = "input" /\ repeats = [k \in FireKeys |-> 0]
  /\ last = None /\ dest = "game" /\ page = "none" /\ cbuf = <<>> /\ bound = FireKeys
  /\ game = TRUE /\ b = Up /\ lost = {} /\ owed = FALSE /\ typed \in 0 .. MaxTyped

-----------------------------------------------------------------------------
(* The callback of the keyboard (ProcessUsbReport) may come at any time;    *)
(* only taking a key depends on whether it came.                            *)

\* EnqueueUsbKey drops the oldest event of a full queue.
EnqueueUsbKey(e) ==
  LET full == Len(usb) = UsbMax
      first == Head(usb)
  IN  /\ usb' = Append(IF full THEN Tail(usb) ELSE usb, e)
      /\ lost' = IF full /\ first.key \in FireKeys /\ ~first.down THEN lost \cup {first.key}
                 ELSE lost

Device(e) ==
  /\ at \in {"input", "ask"} /\ EnqueueUsbKey(e)
  /\ UNCHANGED <<at, repeats, ui, cbuf, bound, game, b, owed, typed>>

Press(k)   == k \notin held /\ held' = held \cup {k} /\ Device([key |-> k, down |-> TRUE])
Release(k) == k \in held /\ held' = held \ {k} /\ Device([key |-> k, down |-> FALSE])
Tap(k)     == held' = held /\ Device([key |-> k, down |-> TRUE])

-----------------------------------------------------------------------------
(* IN_Commands: QG_GetKey and Key_Event, for each key there is.             *)

NewUi(d, p, k) == dest' = d /\ page' = p /\ last' = IF k \in {"y", "n", "esc"} THEN k ELSE None

\* Key_Event for a key of +attack.
FireEvent(e) ==
  LET k == e.key
      toGame == \/ dest \in {"game", "console"} /\ k \notin ConsoleKeys
                \/ dest = "game" /\ game
      n == IF repeats[k] = 0 THEN 1 ELSE 2
  IN  /\ repeats' = [repeats EXCEPT ![k] = IF e.down THEN n ELSE 0]
      /\ cbuf' = IF k \in bound /\ (IF e.down THEN n = 1 /\ toGame ELSE TRUE)
                 THEN Append(cbuf, <<IF e.down THEN "+" ELSE "-", k>>) ELSE cbuf
      /\ NewUi(dest, page, None)
      /\ UNCHANGED <<at, typed, bound, lost>>

\* Escape: M_ToggleMenu_f, Con_ToggleConsole_f, or the menu's own.
Escape ==
  /\ CASE dest = "menu" /\ page = "main" -> NewUi("game", "none", "esc")
       [] dest = "menu" /\ page # "main" -> NewUi("menu", "main", "esc")
       [] dest = "console" /\ game       -> NewUi("game", page, "esc")
       [] OTHER                          -> NewUi("menu", "main", "esc")
  /\ UNCHANGED <<at, cbuf, typed>>

\* Enter at the console runs the line; in the menus it leads to "New Game".
EnterConsole ==
  /\ dest = "console" \/ (dest = "game" /\ ~game)
  /\ typed < MaxTyped /\ typed' = typed + 1
  /\ \E line \in Lines : cbuf' = Append(cbuf, line)
  /\ NewUi(dest, page, "enter") /\ UNCHANGED at

EnterMenu ==
  /\ dest = "menu" /\ UNCHANGED typed
  /\ \/ page = "main" /\ NewUi("menu", "single", "enter") /\ UNCHANGED <<cbuf, at>>
     \/ /\ page = "single"
        /\ IF game THEN NewUi("menu", page, "enter") /\ at' = "ask" /\ UNCHANGED cbuf
           ELSE NewUi("game", page, "enter") /\ cbuf' = Append(cbuf, <<"map", None>>) /\ UNCHANGED at

Toggle ==    \* the binding of tilde, except in a menu
  /\ cbuf' = IF dest = "menu" THEN cbuf ELSE Append(cbuf, <<"toggleconsole", None>>)
  /\ NewUi(dest, page, "tilde") /\ UNCHANGED <<at, typed>>

Other(k) == NewUi(dest, page, k) /\ UNCHANGED <<at, cbuf, typed>>

TapEvent(k) ==
  /\ \/ k = "esc" /\ Escape
     \/ k = "enter" /\ (EnterConsole \/ EnterMenu)
     \/ k = "enter" /\ dest # "menu" /\ ((dest = "game" /\ game) \/ typed = MaxTyped) /\ Other(k)
     \/ k = "tilde" /\ Toggle
     \/ k = "n" /\ Other(k)
  /\ UNCHANGED <<repeats, bound, lost>>

GetKey ==
  /\ at = "input" /\ usb # <<>> /\ usb' = Tail(usb) /\ Len(cbuf) < MaxCommands
  /\ LET e == Head(usb) IN IF e.key \in FireKeys THEN FireEvent(e) ELSE TapEvent(e.key)
  /\ UNCHANGED <<held, game, b, owed>>

NoMoreKeys ==
  /\ at = "input" /\ (usb = <<>> \/ Len(cbuf) = MaxCommands) /\ at' = "exec"
  /\ UNCHANGED <<usb, held, repeats, ui, cbuf, bound, game, b, lost, owed, typed>>

\* SCR_ModalMessage's loop.  Sys_SendKeyEvents is empty here: no key is taken in it.
Ask ==
  /\ at = "ask"
  /\ IF last \in {"y", "n", "esc"}
     THEN /\ at' = "input"
          /\ dest' = (IF last = "y" THEN "game" ELSE dest)
          /\ cbuf' = IF last = "y" THEN cbuf \o <<<<"disconnect", None>>, <<"map", None>>>> ELSE cbuf
     ELSE UNCHANGED <<at, dest, cbuf>>
  /\ UNCHANGED <<usb, held, repeats, page, last, bound, game, b, lost, owed, typed>>

-----------------------------------------------------------------------------
(* Cbuf_Execute: a command after the other, until "wait".                   *)

KeyDown(k) ==
  LET slot == IF b.down[1] = None THEN 1 ELSE 2 IN
  IF k \in {b.down[1], b.down[2]} \/ None \notin {b.down[1], b.down[2]} THEN UNCHANGED <<b, owed>>
  ELSE /\ b' = [b EXCEPT !.down[slot] = k, !.on = TRUE, !.pressed = @ \/ ~b.on]
       /\ owed' = (owed \/ ~b.on)

\* Mutant: the button goes up with the first of its keys.
KeyUpFirst(k) ==
  LET slot == IF b.down[1] = k THEN 1 ELSE 2
  IN  /\ b' = CASE k = None -> Up
                [] k # None /\ k \notin {b.down[1], b.down[2]} -> b
                [] OTHER -> [b EXCEPT !.down[slot] = None, !.on = FALSE]
      /\ owed' = (owed /\ k # None)

KeyUp(k) ==
  LET slot == IF b.down[1] = k THEN 1 ELSE 2
      other == b.down[3 - slot]
  IN  /\ IF k = None THEN b' = Up
         ELSE IF k \notin {b.down[1], b.down[2]} THEN b' = b
         ELSE IF other # None THEN b' = [b EXCEPT !.down[slot] = None]
         ELSE b' = [b EXCEPT !.down[slot] = None, !.on = FALSE]
      /\ owed' = (owed /\ k # None)

Con_ToggleConsole_f ==
  CASE dest = "console" /\ game  -> dest' = "game" /\ UNCHANGED page
    [] dest = "console" /\ ~game -> dest' = "menu" /\ page' = "main"
    [] OTHER                     -> dest' = "console" /\ UNCHANGED page

Command(c) ==
  /\ CASE c[1] = "+"     -> KeyDown(c[2])
       [] c[1] = "plus"  -> KeyDown(Typed)
       [] c[1] = "-"     -> KeyUp(c[2])
       [] c[1] = "minus" -> KeyUp(None)
       [] OTHER -> UNCHANGED <<b, owed>>
  /\ IF c[1] = "toggleconsole" THEN Con_ToggleConsole_f
     ELSE dest' = (IF c[1] = "map" THEN "game" ELSE dest) /\ UNCHANGED page
  /\ game' = CASE c[1] = "map" -> TRUE [] c[1] = "disconnect" -> FALSE [] OTHER -> game
  /\ bound' = IF c[1] = "unbind" THEN bound \ {c[2]} ELSE bound
  /\ lost' = IF c[1] = "unbind" THEN lost \cup {c[2]} ELSE lost

Cbuf_Execute ==
  /\ at = "exec" /\ cbuf # <<>> /\ cbuf' = Tail(cbuf)
  /\ Command(Head(cbuf))
  /\ at' = IF Head(cbuf)[1] = "wait" THEN "send" ELSE "exec"
  /\ UNCHANGED <<usb, held, repeats, last, typed>>

NoMoreCommands ==
  /\ at = "exec" /\ cbuf = <<>> /\ at' = "send"
  /\ UNCHANGED <<usb, held, repeats, ui, cbuf, bound, game, b, lost, owed, typed>>

Fires == b.on \/ b.pressed

\* CL_SendMove (of the first two moves of a level, only the state is taken).
CL_SendCmd ==
  /\ at = "send" /\ at' = "input"
  /\ IF game THEN b' = [b EXCEPT !.pressed = FALSE] /\ owed' = FALSE ELSE UNCHANGED <<b, owed>>
  /\ UNCHANGED <<usb, held, repeats, ui, cbuf, bound, game, lost, typed>>

Frame == GetKey \/ NoMoreKeys \/ Ask \/ Cbuf_Execute \/ NoMoreCommands \/ CL_SendCmd

Next ==
  \/ Frame
  \/ \E k \in FireKeys : Press(k) \/ Release(k)
  \/ \E k \in Taps : Tap(k)

Spec == Init /\ [][Next]_vars
FairSpec == Spec /\ WF_vars(Frame)

-----------------------------------------------------------------------------
(* What holds.                                                              *)

Released(k) == \/ k \notin held /\ \E i \in 1 .. Len(usb) : usb[i] = [key |-> k, down |-> FALSE]
               \/ \E i \in 1 .. Len(cbuf) : cbuf[i] = <<"-", k>>

\* "to keep the character from continuing an action started before a console switch": a key
\* that holds the button down is held, or its release is on its way, whatever menu or console
\* came between; and the button is down exactly when a key holds it.
ButtonFollowsKeys ==
  /\ b.on <=> (b.down # <<None, None>>)
  /\ \A i \in 1 .. 2 : b.down[i] \in FireKeys \ lost => b.down[i] \in held \/ Released(b.down[i])
  /\ b.down[1] # b.down[2] \/ b.down[1] = None

\* And a press is not lost on its way to a move, even if the key goes up in the same frame (bit
\* 1 of the state is the "edge triggered"); and a menu that takes the keys shows a page.
Sound == ButtonFollowsKeys /\ (owed => Fires) /\ (dest = "menu" => page # "none")

\* "waits for a Y or N keypress" (SCR_ModalMessage): it does not wait for ever with a key at hand.
AnswersTheDialog == []<>~(at = "ask" /\ \E i \in 1 .. Len(usb) : usb[i].key = "n")

=============================================================================
