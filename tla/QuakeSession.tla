---------------------------- MODULE QuakeSession ----------------------------
(***************************************************************************)
(* A session of Quake with one player (src/quakegeneric): the server       *)
(* (sv_main.c, sv_user.c, host.c, host_cmd.c) and the client (cl_main.c,   *)
(* cl_parse.c, cl_demo.c) are one program, joined by two sockets in memory *)
(* (net_loop.c).  They run in turns, in Host_Frame: the console's          *)
(* commands, what the client sends, the server, what the client reads.     *)
(* The client gets into a level by asking for it in three steps.           *)
(*                                                                         *)
(* The steps are functions of one record, the state of the host; an error  *)
(* leaves the frame (longjmp), after shutting down server and client.      *)
(* Moves and keepalive messages, which change nothing here, are left out.  *)
(***************************************************************************)
EXTENDS Integers, Sequences

CONSTANTS
  Command,    \* what the user may type, or a key be bound to
  MaxTyped    \* bound on how many of those, and of level changes by the game

VARIABLES
  phase,      \* in Host_Frame: "frame", "commands", "send", "server", "read", or "exit" (Sys_Error)
  h,          \* the host
  typed

vars == <<phase, h, typed>>

Closed == [open |-> FALSE, linked |-> FALSE, canSend |-> TRUE, q |-> <<>>]
Open   == [Closed EXCEPT !.open = TRUE, !.linked = TRUE]

Host0 ==
  [cbuf |-> <<"startdemos">>, error |-> "none",
   \* the server, and svs.clients[0]
   sv |-> FALSE, issued |-> FALSE, loadgame |-> FALSE, paused |-> FALSE,
   active |-> FALSE, spawned |-> FALSE, sendsignon |-> FALSE, out |-> <<>>, conns |-> 0,
   \* the client
   state |-> "disconnected", signon |-> 0, world |-> FALSE, msg |-> <<>>,
   demoloop |-> TRUE, demoplayback |-> FALSE, demorecording |-> FALSE, demofile |-> "none",
   \* the sockets
   pending |-> FALSE, client |-> Closed, server |-> Closed,
   \* a level was left before the client was in it, or for one that does not exist
   early |-> FALSE, stranded |-> FALSE]

Init == phase = "frame" /\ h = Host0 /\ typed = 0

-----------------------------------------------------------------------------
(* net_loop.c.                                                              *)

\* A reliable message: the sender waits until it is read.
SendTo(g, from, to, message) ==
  IF g[from].linked THEN [g EXCEPT ![from].canSend = FALSE, ![to].q = Append(@, message)] ELSE g

CanSend(g, s) == g[s].linked /\ g[s].canSend

\* Mutant: who sent the message is not told that it was read.
ReceivedSilently(g, s, peer, n) == [g EXCEPT ![s].q = <<>>]

Received(g, s, peer, n) ==
  [g EXCEPT ![s].q = <<>>, ![peer].canSend = @ \/ (g[s].linked /\ n > 0)]

CloseSocket(g, s, peer) ==
  IF g[s].open THEN [g EXCEPT ![s] = Closed, ![peer].linked = @ /\ ~g[s].linked] ELSE g

\* No socket is to be had while a client of the server counts as connected.
NoSocket(g) == g.conns >= 1 /\ ~(g.client.open /\ g.server.open)

Loop_Connect(g) == [g EXCEPT !.pending = TRUE, !.client = Open, !.server = Open]

-----------------------------------------------------------------------------
(* Leaving: CL_Disconnect and Host_ShutdownServer call each other.          *)

StopPlayback(g) ==
  IF g.demoplayback
    THEN [g EXCEPT !.demoplayback = FALSE, !.demofile = "none", !.state = "disconnected"] ELSE g

StopRecording(g) ==
  IF g.demorecording THEN [g EXCEPT !.demorecording = FALSE, !.demofile = "none"] ELSE g

\* The client's end, with the server left as it is.
LeaveServer(g) ==
  LET c == CASE g.demoplayback -> StopPlayback(g)
             [] ~g.demoplayback /\ g.state = "connected" ->
                  [CloseSocket(StopRecording(g), "client", "server")
                     EXCEPT !.msg = <<>>, !.state = "disconnected"]
             [] OTHER -> g
  IN  [c EXCEPT !.signon = 0]

SV_DropClient(g) ==
  [CloseSocket(g, "server", "client") EXCEPT !.active = FALSE, !.conns = @ - 1]

\* The client has closed its end by now: neither what is pending nor the goodbye goes out.
Host_ShutdownServer(g) ==
  IF ~g.sv THEN g
  ELSE LET c == IF g.state = "connected" THEN LeaveServer([g EXCEPT !.sv = FALSE])
                                         ELSE [g EXCEPT !.sv = FALSE]
           d == IF c.active THEN SV_DropClient(c) ELSE c
       IN  [d EXCEPT !.spawned = FALSE, !.sendsignon = FALSE, !.out = <<>>]

CL_Disconnect(g) ==
  LET connected == ~g.demoplayback /\ g.state = "connected"
  IN  IF connected THEN Host_ShutdownServer(LeaveServer(g)) ELSE LeaveServer(g)

CL_Disconnect_f(g) == Host_ShutdownServer(CL_Disconnect(g))

Host_Error(g, what) ==
  [CL_Disconnect(Host_ShutdownServer(g)) EXCEPT !.demoloop = FALSE, !.error = what]

CL_NextDemo(g) == IF g.demoloop THEN [g EXCEPT !.cbuf = <<"playdemo">> \o @] ELSE g

Host_EndGame(g) ==
  LET c == Host_ShutdownServer(g) IN IF c.demoloop THEN CL_NextDemo(c) ELSE CL_Disconnect(c)

-----------------------------------------------------------------------------
(* Going to a level.                                                        *)

Host_Reconnect_f(g) == [g EXCEPT !.signon = 0]

\* Mutant: the client stays spawned while it loads the new level.
SV_SendServerinfoSpawned(g) == [g EXCEPT !.out = Append(@, "info"), !.sendsignon = TRUE]

SV_SendServerinfo(g) ==
  [g EXCEPT !.out = Append(@, "info"), !.sendsignon = TRUE, !.spawned = FALSE]

\* Those who are connected are told to wait for the steps again; a level that does not exist
\* leaves no server, and its client as it was.
SV_SpawnServer(g, exists) ==
  LET told == IF g.sv THEN Host_Reconnect_f(IF g.active THEN SendTo(g, "server", "client", <<"reconnect">>)
                                                        ELSE g)
                      ELSE g
      clear == [told EXCEPT !.issued = FALSE, !.signon = 0, !.world = FALSE, !.sv = exists,
                             !.loadgame = FALSE, !.paused = FALSE]
  IN  IF exists /\ clear.active THEN SV_SendServerinfo(clear) ELSE clear

Entered(g) == g.signon = 4 /\ g.world

Host_Changelevel_f(g, exists) ==
  IF ~g.sv \/ g.demoplayback THEN g
  ELSE SV_SpawnServer([g EXCEPT !.early = @ \/ (g.state = "connected" /\ ~Entered(g)),
                                !.stranded = @ \/ ~exists], exists)

CL_EstablishConnection(g) ==
  LET c == CL_Disconnect(g) IN
  IF NoSocket(c) THEN Host_Error(c, "connect failed")
  ELSE [Loop_Connect(c) EXCEPT !.demoloop = FALSE, !.state = "connected", !.signon = 0]

Host_Connect_f(g) ==
  Host_Reconnect_f(CL_EstablishConnection(CL_Disconnect(StopPlayback([g EXCEPT !.demoloop = FALSE]))))

Host_Map_f(g, exists) ==
  LET c == SV_SpawnServer(CL_Disconnect_f([g EXCEPT !.demoloop = FALSE]), exists)
  IN  IF c.sv THEN Host_Connect_f(c) ELSE c

\* No file, or one of another version; a file of a level that does not exist; or a savegame.
Host_Loadgame_f(g, file) ==
  LET stays == [g EXCEPT !.demoloop = FALSE]
      c == SV_SpawnServer(CL_Disconnect_f(stays), file = "good")
  IN  CASE file = "none"  -> stays
        [] file = "stray" -> c
        [] file = "good"  ->
             Host_Reconnect_f(CL_EstablishConnection([c EXCEPT !.loadgame = TRUE, !.paused = TRUE]))

CL_PlayDemo_f(g, exists) ==
  LET c == CL_Disconnect(g) IN
  IF exists THEN [c EXCEPT !.demoplayback = TRUE, !.state = "connected", !.demofile = "play"]
            ELSE [c EXCEPT !.demofile = "none", !.demoloop = FALSE]

Record(g) == [g EXCEPT !.demorecording = TRUE, !.demofile = "record"]

\* A command executed by Cbuf_Execute.
Executed(g, c) ==
  CASE c = "startdemos" -> IF ~g.sv /\ g.demoloop /\ ~g.demoplayback THEN CL_NextDemo(g)
                                                                   ELSE [g EXCEPT !.demoloop = FALSE]
    [] c = "map"          -> Host_Map_f(g, TRUE)
    [] c = "map missing"  -> Host_Map_f(g, FALSE)
    [] c \in {"changelevel", "restart"} -> Host_Changelevel_f(g, TRUE)
    [] c = "changelevel missing" -> Host_Changelevel_f(g, FALSE)
    [] c = "load"         -> Host_Loadgame_f(g, "good")
    [] c = "load missing" -> Host_Loadgame_f(g, "none")
    [] c = "load stray"   -> Host_Loadgame_f(g, "stray")
    [] c = "connect"      -> Host_Connect_f(g)
    [] c = "reconnect"    -> Host_Reconnect_f(g)
    [] c = "disconnect"   -> CL_Disconnect_f(g)
    [] c = "playdemo"     -> CL_PlayDemo_f(g, TRUE)
    [] c = "playdemo missing" -> CL_PlayDemo_f(g, FALSE)
    [] c = "stopdemo"     -> IF g.demoplayback THEN CL_Disconnect(StopPlayback(g)) ELSE g
    [] c = "demos"        -> CL_NextDemo(CL_Disconnect_f([g EXCEPT !.demoloop = TRUE]))
    [] c = "record"       -> IF g.state = "connected" THEN g ELSE Record(g)
    [] c = "record map"   -> Record(Host_Map_f(g, TRUE))
    [] c = "stop"         -> StopRecording(g)

-----------------------------------------------------------------------------
(* Host_Frame.                                                              *)

\* setjmp, Host_FilterTime and Sys_SendKeyEvents.
Frame ==
  /\ phase = "frame"
  /\ \/ h' = h /\ typed' = typed
     \/ typed < MaxTyped /\ typed' = typed + 1
        /\ \E c \in Command : h' = [h EXCEPT !.cbuf = Append(@, c)]
  /\ phase' = "commands"

\* An error that was not there leaves the frame.
Failed(g) == g.error # "none"
Goes(g, next) ==
  /\ h' = [g EXCEPT !.error = h.error]
  /\ phase' = IF Failed(g) THEN "frame" ELSE next

Cbuf_Execute ==
  /\ phase = "commands"
  /\ IF h.cbuf = <<>> THEN phase' = "send" /\ UNCHANGED h
     ELSE LET g == Executed([h EXCEPT !.cbuf = Tail(@), !.error = "none"], Head(h.cbuf))
          IN  /\ h' = [g EXCEPT !.error = IF Failed(g) THEN @ ELSE h.error]
              /\ phase' = IF Failed(g) THEN "frame" ELSE "commands"
  /\ UNCHANGED typed

CL_SendCmd ==
  /\ phase = "send" /\ phase' = "server"
  /\ h' = CASE h.state = "connected" /\ h.demoplayback -> [h EXCEPT !.msg = <<>>]
            [] h.state = "connected" /\ ~h.demoplayback /\ h.msg # <<>> /\ CanSend(h, "client") ->
                 [SendTo(h, "client", "server", h.msg) EXCEPT !.msg = <<>>]
            [] OTHER -> h
  /\ UNCHANGED typed

SV_CheckForNewClients(g) ==
  IF ~g.pending THEN g
  ELSE SV_SendServerinfo(
         [g EXCEPT !.pending = FALSE, !.client.q = <<>>, !.client.canSend = TRUE,
                   !.server.q = <<>>, !.server.canSend = TRUE,
                   !.active = TRUE, !.out = <<>>, !.conns = @ + 1])

\* The commands of a client: Host_PreSpawn_f, Host_Spawn_f, Host_Begin_f.
Served(g, c) ==
  CASE c = "prespawn" /\ ~g.spawned -> [g EXCEPT !.out = Append(@, "baselines"), !.sendsignon = TRUE]
    [] c = "spawn" /\ ~g.spawned    -> [g EXCEPT !.out = <<"stats">>, !.sendsignon = TRUE,
                                              !.paused = @ /\ ~g.loadgame]
    [] c = "begin"                  -> [g EXCEPT !.spawned = TRUE]
    [] OTHER -> g

Flat(q) ==
  LET F[n \in 0 .. Len(q)] == IF n = 0 THEN <<>> ELSE F[n - 1] \o q[n] IN F[Len(q)]

SV_RunClients(g) ==
  LET all == Flat(g.server.q)
      S[n \in 0 .. Len(all)] ==
        IF n = 0 THEN Received(g, "server", "client", Len(g.server.q)) ELSE Served(S[n - 1], all[n])
  IN  IF g.active THEN S[Len(all)] ELSE g

\* The game itself asks for the next level (PF_changelevel), once.
Asks(g) == [g EXCEPT !.issued = TRUE, !.cbuf = Append(@, "changelevel")]

SV_SendClientMessages(g) ==
  LET updated == IF g.spawned THEN [g EXCEPT !.client.q = Append(@, <<"update">>)] ELSE g IN
  CASE ~g.active -> g
    [] g.active /\ g.spawned /\ ~g.server.linked -> SV_DropClient(g)
    [] g.active /\ ~g.spawned /\ ~g.sendsignon -> g
    [] OTHER -> IF g.out # <<>> /\ CanSend(g, "server")
                  THEN [SendTo(updated, "server", "client", g.out) EXCEPT !.out = <<>>, !.sendsignon = FALSE]
                  ELSE updated

Host_ServerFrame ==
  /\ phase = "server"
  /\ IF ~h.sv THEN phase' = "read" /\ UNCHANGED <<h, typed>>
     ELSE IF h.pending /\ h.active     \* "no free clients"
       THEN phase' = "exit" /\ UNCHANGED <<h, typed>>
       ELSE LET g == SV_RunClients(SV_CheckForNewClients(h)) IN
            /\ \/ h' = SV_SendClientMessages(g) /\ typed' = typed
               \/ /\ g.active /\ g.spawned /\ ~g.issued /\ typed < MaxTyped
                  /\ h' = SV_SendClientMessages(Asks(g)) /\ typed' = typed + 1
            /\ phase' = "read"

\* CL_ParseServerMessage; a step of the signon out of order is an error.
Step(n, reply, g) ==
  IF n <= g.signon THEN Host_Error(g, "signon") ELSE [g EXCEPT !.signon = n, !.msg = Append(@, reply)]

Parsed(g, m) ==
  CASE Failed(g) -> g
    [] ~Failed(g) /\ m = "info"      -> Step(1, "prespawn", [g EXCEPT !.world = TRUE, !.msg = <<>>])
    [] ~Failed(g) /\ m = "baselines" -> Step(2, "spawn", g)
    [] ~Failed(g) /\ m = "stats"     -> Step(3, "begin", g)
    [] ~Failed(g) /\ m = "update"    -> [g EXCEPT !.signon = IF @ = 3 THEN 4 ELSE @]
    [] ~Failed(g) /\ m = "reconnect" -> [g EXCEPT !.cbuf = Append(@, "reconnect")]

ReadNetwork ==
  /\ ~h.demoplayback /\ h.state = "connected"
  /\ LET all == Flat(h.client.q)
         reliable == {i \in 1 .. Len(h.client.q) : h.client.q[i] # <<"update">>}
         P[n \in 0 .. Len(all)] ==
           IF n = 0 THEN [Received(h, "client", "server", IF reliable = {} THEN 0 ELSE 1) EXCEPT !.error = "none"]
                    ELSE Parsed(P[n - 1], all[n])
         g == P[Len(all)]
     IN  h' = [g EXCEPT !.error = IF Failed(g) THEN @ ELSE h.error]

\* A demo goes on, says goodbye, or ends in the middle.
ReadDemo ==
  /\ h.demoplayback
  /\ \/ h' = [h EXCEPT !.signon = 4, !.world = TRUE]
     \/ h' = Host_EndGame(h)
     \/ h' = StopPlayback(h)

CL_ReadFromServer ==
  /\ phase = "read" /\ phase' = "frame"
  /\ ReadNetwork \/ ReadDemo \/ (h.state # "connected" /\ UNCHANGED h)
  /\ UNCHANGED typed

Run  == Cbuf_Execute \/ CL_SendCmd \/ Host_ServerFrame \/ CL_ReadFromServer
Next == Frame \/ Run

Spec == Init /\ [][Next]_vars

\* The main loop calls Host_Frame again and again, and a frame goes on to its next part.
Turn == phase # "exit" /\ phase' \in {"frame", "commands", "send", "server", "read"}
FairSpec == Spec /\ WF_phase(Turn)

-----------------------------------------------------------------------------
(* What holds.                                                              *)

\* The two halves agree on their connection: a client of the server has its socket, is the one
\* that counts, and no demo plays beside a server; a connection that waits for the server has
\* both sockets (Loop_CheckNewConnections uses them).
Sound ==
  /\ h.active => h.server.open
  /\ h.conns = IF h.active THEN 1 ELSE 0
  /\ h.client.linked = h.server.linked
  /\ h.sv /\ h.pending => h.client.linked /\ ~h.active
  /\ ~(h.sv /\ h.demoplayback)
  /\ phase # "exit"

\* While the client goes through the steps of the signon, exactly one step is under way:
\* asked for, on its way there, being answered or on its way back.
Items(q, S) == LET all == Flat(q) IN {i \in 1 .. Len(all) : all[i] \in S}
Signing == h.sv /\ h.state = "connected" /\ h.active /\ ~h.early

OneStepUnderWay ==
  Signing /\ h.signon \in 1 .. 3 /\ phase = "frame" =>
    Len(h.msg) + Len(Flat(h.server.q)) + (IF h.spawned THEN 1 ELSE 0) + Len(h.out) = 1

\* The host has no error of its own making: unless a level was left before the client was in
\* it, or one that does not exist was asked for.
NoError == h.error = "none" \/ h.early \/ h.stranded

\* Who is connected to a server gets into the level, and a loaded game, which waits for that,
\* goes on.
GetsIn ==
  <>[](phase = "frame" /\ h.sv /\ h.state = "connected" => (Entered(h) /\ ~h.paused) \/ h.early)

-----------------------------------------------------------------------------
(* A comment of the code says so, and the code does otherwise (README, Findings). *)

\* The same, whatever the user does ("Goes to a new map, taking all clients along",
\* Host_Changelevel_f).
TakesAllAlong == <>[](phase = "frame" /\ h.sv /\ h.state = "connected" => Entered(h))

=============================================================================
