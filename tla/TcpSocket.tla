------------------------------ MODULE TcpSocket ------------------------------
(***************************************************************************)
(* The stream half of System.Net.Sockets.Socket of BootTo.NET: a client,   *)
(* a listener or an accepted socket with one connect, receive, transmit,   *)
(* close, listen and accept in flight, the wait for a DHCP address, the    *)
(* 30 s timeouts of its connects, and the TCP4 child of the firmware.      *)
(* A call that returns an error before it changes anything is left out.    *)
(***************************************************************************)
EXTENDS Handlers

Role  == {"client", "listener", "accepted"}
Token == {"connect", "receive", "transmit", "close", "accept"}
Slot  == Token \cup {"listen"}

VARIABLE lapses   \* history: which of the paths named in Lapses have been taken

vars == <<codeVars, lapses>>

\* A token: with the firmware, its event signaled.
NoToken == [queued |-> FALSE, signaled |-> FALSE]

Pending(s) == {s.slot[x] : x \in Slot} \ {0}

-----------------------------------------------------------------------------
(* The methods that call nobody back, as functions.                         *)

UpdatePollingRegistration(s) == [s EXCEPT !.polled = s.waiting \/ Pending(s) # {}]

\* The pending operations and waitingForAddress are left as they are.
ReleaseTcp(s) ==
  [s EXCEPT !.tcp = FALSE, !.configured = FALSE, !.polled = FALSE,
            !.token = [x \in Token |-> NoToken]]

\* The outcomes: no child, or no events for it, are errors.
InitializeTcp(s) ==
  IF s.tcp THEN {[s |-> s, ok |-> TRUE]}
  ELSE {[s |-> [s EXCEPT !.tcp = TRUE], ok |-> TRUE],
        [s |-> s, ok |-> FALSE], [s |-> ReleaseTcp(s), ok |-> FALSE]}

\* The firmware does not configure a child twice.
ConfigureTcp(s) ==
  {[s |-> s, status |-> "error"]} \cup
  (IF s.configured THEN {}
   ELSE {[s |-> s, status |-> "noMapping"], [s |-> [s EXCEPT !.configured = TRUE], status |-> "ok"]})

\* The firmware takes a token it does not have yet, of a configured child.
Submit(s, x) ==
  {[s |-> s, ok |-> FALSE]} \cup
  (IF s.configured /\ ~s.token[x].queued
     THEN {[s |-> [s EXCEPT !.token[x] = [@ EXCEPT !.queued = TRUE]], ok |-> TRUE]}
     ELSE {})

Taken(s, x) == [s EXCEPT !.slot[x] = 0]

Of(s, x) == {s.slot[x]} \ {0}

-----------------------------------------------------------------------------
(* The completions.                                                         *)

\* Mutant: the child is kept after a timeout.
CompleteConnectKeepsChild(c, s, status, ls) ==
  LET s1 == [Taken(s, "connect") EXCEPT !.waiting = FALSE, !.connected = (status # "error")]
  IN  Settle(c, UpdatePollingRegistration(s1), Of(s, "connect"), ls)

\* On a timeout the child goes, too.
CompleteConnect(c, s, status, ls) ==
  LET s1 == [Taken(s, "connect") EXCEPT !.waiting = FALSE, !.connected = (status = "ok")]
      s2 == IF status = "timeout" THEN ReleaseTcp(s1) ELSE s1
  IN  Settle(c, UpdatePollingRegistration(s2), Of(s, "connect"), ls)

\* CompleteTransmit and CompleteReceive.
CompleteIo(c, s, x, ls) ==
  Settle(c, UpdatePollingRegistration(Taken(s, x)), Of(s, x), ls)

\* With the accepted connection, if there is one, comes a child of its own, which the new
\* socket owns, or which is destroyed when that cannot be made.
CompleteAccept(c, s, ok, ls) ==
  IF Of(s, "accept") = {} THEN Proceed(c, s, ls)
  ELSE Settle(c, [Taken(s, "accept") EXCEPT !.child = s.child /\ ~ok], Of(s, "accept"),
              <<Do("update")>> \o ls)

CompleteListen(c, s, status, ls) ==
  LET s1 == [Taken(s, "listen") EXCEPT !.waiting = FALSE, !.listening = @ \/ status = "ok"]
  IN  Settle(c, IF status = "ok" THEN s1 ELSE ReleaseTcp(s1), Of(s, "listen"),
             <<Do("update")>> \o ls)

\* The connect in progress ends first, then the close itself, then the accept.
CompleteClose(c, s, status, ls) ==
  LET s1 == Taken(Taken(s, "close"), "connect")
      s2 == ReleaseTcp([s1 EXCEPT !.connected = FALSE, !.listening = FALSE])
  IN  Settle(c, IF status = "ok" THEN s2 ELSE s1, Of(s, "connect"),
             <<L("finish", "close", s.slot["close"]), L("finish", "accept", 0), Do("update")>> \o ls)

\* The rest of CompleteClose; the accept is taken only now.
Finish(c) ==
  /\ At(c, "finish")
  /\ LET l == Head(todo[c])
     IN  IF l.x = "close" THEN Settle(c, this, {l.op} \ {0}, <<>>)
                          ELSE Settle(c, Taken(this, "accept"), Of(this, "accept"), <<>>)

Update(c) == At(c, "update") /\ Proceed(c, UpdatePollingRegistration(this), <<>>)

SubmitConnect(c, s, ls) ==
  \E r \in Submit(s, "connect") :
    IF r.ok THEN Proceed(c, UpdatePollingRegistration(r.s), ls)
            ELSE CompleteConnect(c, s, "error", ls)

-----------------------------------------------------------------------------
(* The calls.  A client binds, connects, receives, sends and closes, a      *)
(* listener listens, accepts and closes.                                    *)

CallConnect(c) ==
  /\ CanCall(c) /\ this.role = "client"
  /\ ~this.connected /\ this.slot["connect"] = 0
  /\ Start(c, this, <<L("set", "connect", New), L("go", "connect", New)>>)
  /\ Pend(New)

\* ReceiveTcpAsync and SendTcpAsync.
CallIo(c, x) ==
  /\ CanCall(c)
  /\ this.connected /\ this.slot[x] = 0
  /\ Start(c, this, <<L("set", x, New), L("go", x, New)>>)
  /\ Pend(New)

CallAccept(c) ==
  /\ CanCall(c)
  /\ this.listening /\ this.tcp /\ this.slot["accept"] = 0
  /\ Start(c, this, <<L("set", "accept", New), L("go", "accept", New)>>)
  /\ Pend(New)

CallClose(c) ==
  /\ CanCall(c)
  /\ this.tcp /\ this.slot["close"] = 0
  /\ Start(c, this, <<L("set", "close", New), L("go", "close", New)>>)
  /\ Pend(New)

\* Without an address the listener waits for one.
CallListenAsync(c) ==
  /\ CanCall(c) /\ this.role = "listener"
  /\ ~this.listening /\ this.slot["listen"] = 0
  /\ \E i \in InitializeTcp(this) :
       IF ~i.ok THEN Return(c, i.s)
       ELSE \E g \in ConfigureTcp(i.s) :
              CASE g.status = "ok"    -> Return(c, [g.s EXCEPT !.listening = TRUE])
                [] g.status = "error" -> Return(c, ReleaseTcp(g.s))
                [] OTHER -> /\ Start(c, UpdatePollingRegistration(
                                     [g.s EXCEPT !.slot["listen"] = New, !.waiting = TRUE]), <<>>)
                            /\ Pend(New)

\* Listen does not wait, and does not look at a ListenAsync in progress.
CallListen(c) ==
  /\ CanCall(c) /\ this.role = "listener"
  /\ ~this.listening
  /\ \E i \in InitializeTcp(this) :
       IF ~i.ok THEN Return(c, i.s)
       ELSE \E g \in ConfigureTcp(i.s) :
              Return(c, IF g.status = "ok" THEN [g.s EXCEPT !.listening = TRUE] ELSE ReleaseTcp(g.s))

\* The completion source is stored.
SetSlot(c) ==
  /\ At(c, "set")
  /\ LET l == Head(todo[c]) IN Proceed(c, [this EXCEPT !.slot[l.x] = l.op], <<>>)

\* ConnectTcpAsync; the timeout is started for a wait as well as for a connect.
GoConnect(c) ==
  /\ At(c, "go") /\ Head(todo[c]).x = "connect"
  /\ \E i \in InitializeTcp(this) :
       IF ~i.ok THEN CompleteConnect(c, i.s, "error", <<>>)
       ELSE \E g \in ConfigureTcp(i.s) :
              LET timed == [g.s EXCEPT !.delays = @ \cup {Head(todo[c]).op}]
              IN  CASE g.status = "error"     -> CompleteConnect(c, g.s, "error", <<>>)
                    [] g.status = "noMapping" ->
                         Proceed(c, UpdatePollingRegistration([timed EXCEPT !.waiting = TRUE]), <<>>)
                    [] OTHER -> Proceed(c, timed, <<L("submitConnect", "connect", Head(todo[c]).op)>>)

GoSubmitConnect(c) == At(c, "submitConnect") /\ this.tcp /\ SubmitConnect(c, this, <<>>)

\* A tick may have released the child since it was found; what the call through the null
\* pointer does then is not modelled.
GoIo(c) ==
  /\ At(c, "go") /\ Head(todo[c]).x \in {"receive", "transmit"}
  /\ this.tcp
  /\ LET x == Head(todo[c]).x
     IN  \E r \in Submit(this, x) :
           IF r.ok THEN Proceed(c, UpdatePollingRegistration(r.s), <<>>)
                   ELSE CompleteIo(c, this, x, <<>>)

\* SubmitAccept.
GoAccept(c) ==
  /\ At(c, "go") /\ Head(todo[c]).x = "accept"
  /\ IF this.slot["accept"] = 0 \/ ~this.tcp THEN Proceed(c, this, <<>>)
     ELSE \E r \in Submit(this, "accept") :
            IF r.ok THEN Proceed(c, UpdatePollingRegistration(r.s), <<>>)
                    ELSE CompleteAccept(c, this, FALSE, <<>>)

GoClose(c) ==
  /\ At(c, "go") /\ Head(todo[c]).x = "close"
  /\ this.tcp
  /\ \E r \in Submit(this, "close") :
       IF r.ok THEN Proceed(c, UpdatePollingRegistration(r.s), <<>>)
               ELSE CompleteClose(c, this, "error", <<>>)

-----------------------------------------------------------------------------
(* The polls.                                                               *)

\* PollTcp.
Poll(c) ==
  /\ this.polled
  /\ Pass(c, this, IF this.tcp THEN <<Do("pollAddress")>> \o
                        [i \in 1 .. 5 |-> L("pollToken",
                           <<"connect", "transmit", "receive", "close", "accept">>[i], 0)]
                   ELSE <<>>)

\* PollTcpAddressConfiguration: a listen is served before a connect.
Answered(c, s, status) ==
  IF s.slot["listen"] # 0 THEN CompleteListen(c, s, status, <<>>)
  ELSE IF status # "ok" THEN CompleteConnect(c, s, status, <<>>)
  ELSE SubmitConnect(c, [s EXCEPT !.waiting = FALSE], <<>>)

PollAddress(c) ==
  /\ At(c, "pollAddress")
  /\ \/ Proceed(c, this, <<>>)
     \/ /\ this.waiting
        /\ \E g \in ConfigureTcp(this) : g.status # "noMapping" /\ Answered(c, g.s, g.status)

\* Mutant: the event of a connect is tested whether or not a connect is in progress.
PollTokenUnasked(c) ==
  /\ At(c, "pollToken")
  /\ LET x == Head(todo[c]).x
         s == [this EXCEPT !.token[x].signaled = FALSE]
     IN  IF ~this.token[x].signaled THEN Proceed(c, this, <<>>)
         ELSE CASE x = "connect" -> \E status \in {"ok", "error", "timeout"} :
                                      CompleteConnect(c, s, status, <<>>)
                [] x = "close"   -> \E status \in {"ok", "error"} : CompleteClose(c, s, status, <<>>)
                [] x = "accept"  -> \E ok \in BOOLEAN : CompleteAccept(c, s, ok, <<>>)
                [] OTHER         -> CompleteIo(c, s, x, <<>>)

\* The test resets the event.
PollToken(c) ==
  /\ At(c, "pollToken")
  /\ LET x == Head(todo[c]).x
         s == [this EXCEPT !.token[x].signaled = FALSE]
     IN  IF this.slot[x] = 0 \/ ~this.token[x].signaled \/ (x = "connect" /\ this.waiting)
           THEN Proceed(c, this, <<>>)
         ELSE CASE x = "connect" -> \E status \in {"ok", "error", "timeout"} :
                                      CompleteConnect(c, s, status, <<>>)
                [] x = "close"   -> \E status \in {"ok", "error"} : CompleteClose(c, s, status, <<>>)
                [] x = "accept"  -> CompleteAccept(c, s, this.child, <<>>)
                [] OTHER         -> CompleteIo(c, s, x, <<>>)

\* The 30 s delay of connect o elapses in a pass.
Elapse(c, o) ==
  /\ o \in this.delays
  /\ Pass(c, [this EXCEPT !.delays = @ \ {o}], <<L("timeout", "none", o)>>)

\* The timeout of any connect ends the connect that is in progress.
ConnectTimedOut(c) ==
  /\ At(c, "timeout")
  /\ IF this.slot["connect"] = 0 THEN Proceed(c, this, <<>>)
                                 ELSE CompleteConnect(c, this, "timeout", <<>>)

-----------------------------------------------------------------------------
(* The firmware: a token is done; the end of a close is the end of all.     *)

Signal(x) ==
  /\ this.token[x].queued
  /\ LET ended == IF x = "close" THEN Token ELSE {x}
     IN  \E child \in IF x = "accept" THEN BOOLEAN ELSE {FALSE} :
           Outside([this EXCEPT
             !.token = [y \in Token |-> IF y \in ended /\ @[y].queued
                                          THEN [queued |-> FALSE, signaled |-> TRUE] ELSE @[y]],
             !.child = @ \/ child])

-----------------------------------------------------------------------------

\* tcp # null, the flags, the connects whose 30 s delay runs, the operations whose
\* completion sources are set, the tokens, the poller, a connection in listenToken.
Fresh(role) ==
  [role |-> role, tcp |-> role = "accepted", connected |-> role = "accepted",
   listening |-> FALSE, configured |-> role = "accepted", waiting |-> FALSE, delays |-> {},
   slot |-> [x \in Slot |-> 0], token |-> [x \in Token |-> NoToken],
   polled |-> FALSE, child |-> FALSE]

Init == (\E role \in Role : this = Fresh(role)) /\ lapses = {} /\ HandlersInit

Statement(c) ==
  \/ SetSlot(c) \/ GoConnect(c) \/ GoSubmitConnect(c) \/ GoIo(c) \/ GoAccept(c) \/ GoClose(c)
  \/ Finish(c) \/ Update(c) \/ PollAddress(c) \/ PollToken(c) \/ ConnectTimedOut(c)
  \/ PassEnds(c) \/ UserReturns(c)

Call(c) ==
  \/ CallConnect(c) \/ CallAccept(c) \/ CallClose(c) \/ CallListen(c) \/ CallListenAsync(c)
  \/ \E x \in {"receive", "transmit"} : CallIo(c, x)

\* Paths after which an operation, a token or an accepted connection may be left behind.
\*   "released": the child goes under an operation in progress (the timeout of a connect, a
\*     Listen that fails, a close between the two tests that would see the end of a receive
\*     or transmit), or, in a tick, under a call that is about to use it
\*   "overtaken": an operation is submitted after a tick has ended it
\*   "closeFailed": a close that the firmware refuses, or fails, ends the connect and the
\*     accept all the same, but neither the wait for an address nor the tokens
\*   "acceptEnded": a close ends an accept whose connection has arrived, or which its own
\*     continuation has begun
\*   "listensTwice": a Listen succeeds while a ListenAsync waits
Lapses ==
  LET Steps(c, at) == At(c, at) /\ todo'[c] # todo[c]
      Goes(c)      == Steps(c, "go") \/ Steps(c, "submitConnect")
      Taking       == IF \E l \in Labels' : l.at = "finish" /\ l.x = "accept"
                        THEN Of(this', "accept") ELSE {}
      Begun        == {l.op : l \in {k \in Labels' : k.at = "submitConnect" \/
                                        (k.at \in {"set", "go"} /\ k.x # "connect")}}
      When(b, name) == IF b THEN {name} ELSE {}
  IN  When(this.tcp /\ ~this'.tcp /\ (Pending(this') \ Taking) \cup Begun # {}, "released")
      \cup When(\E c \in Context : Goes(c) /\ this.slot[Head(todo[c]).x] # Head(todo[c]).op, "overtaken")
      \cup When(this.slot["close"] # 0 /\ this'.slot["close"] = 0 /\ this'.tcp, "closeFailed")
      \cup When(/\ \E c \in Context : Steps(c, "finish") /\ Head(todo[c]).x = "accept"
                /\ this.slot["accept"] # 0 /\ (this.child \/ this.tcp), "acceptEnded")
      \cup When(this'.listening /\ this'.slot["listen"] # 0, "listensTwice")

Next ==
  /\ \/ \E c \in Context :
          Statement(c) \/ Call(c) \/ Poll(c) \/ \E o \in this.delays : Elapse(c, o)
     \/ \E x \in Token : Signal(x)
     \/ TimerTick \/ TickEnds
  /\ lapses' = lapses \cup Lapses

Spec == Init /\ [][Next]_vars

\* As for UdpSocket; besides, the firmware ends a close, and no continuation waits for ever
\* (one that runs in a tick could: the application it has preempted does not go on).
Fairness ==
  /\ WF_codeVars(Statement("Timer")) /\ SF_codeVars(TickEnds)
  /\ SF_codeVars(Statement("App"))
  /\ SF_codeVars(\E c \in Context : UserReturns(c))
  /\ SF_codeVars(\E c \in Context : Poll(c))
  /\ SF_codeVars(\E c \in Context, o \in Op : Elapse(c, o))
  /\ WF_codeVars(Signal("close"))

FairSpec == Spec /\ Fairness

-----------------------------------------------------------------------------
(* Properties.                                                              *)

\* Every variable has its type, and the operations are those of the role of the socket.
TypeOK ==
  /\ this \in [role : Role, tcp : BOOLEAN, connected : BOOLEAN, listening : BOOLEAN,
               configured : BOOLEAN, waiting : BOOLEAN, delays : SUBSET Op,
               slot : [Slot -> Op \cup {0}],
               token : [Token -> [queued : BOOLEAN, signaled : BOOLEAN]],
               polled : BOOLEAN, child : BOOLEAN]
  /\ this.role # "listener" => this.slot["listen"] = 0 /\ this.slot["accept"] = 0
  /\ this.role = "listener" => \A x \in {"connect", "receive", "transmit"} : this.slot[x] = 0
  /\ HandlersTypeOK({"set", "go", "submitConnect", "finish", "update", "pollAddress",
                     "pollToken", "timeout"}, Slot)
  /\ lapses \subseteq {"released", "closeFailed", "overtaken", "acceptEnded", "listensTwice"}

\* No operation is forgotten: while its task is not done, a slot of the socket has it, or the
\* code that stores it or ends it is about to.
InPlace ==
  \A o \in Op : done[o] = "pending" =>
    o \in Pending(this) \/ \E l \in Labels : l.at \in {"set", "finish"} /\ l.op = o

\* An operation is with the firmware, or waits for an address, or some code is about to submit
\* or end it.
WithFirmware ==
  lapses = {} => \A x \in Token : \A o \in Of(this, x) :
    \/ this.token[x].queued \/ this.token[x].signaled
    \/ x = "connect" /\ this.waiting
    \/ \E l \in Labels : (l.at = "go" /\ l.op = o) \/ (l.at = "submitConnect" /\ x = "connect")
                         \/ (l.at = "finish" /\ l.x = x)

\* A socket that waits for something is polled.
PolledWhileWaiting ==
  "released" \notin lapses /\ (this.waiting \/ Pending(this) # {}) =>
     this.polled \/ \E l \in Labels : l.at \in {"go", "update", "submitConnect", "finish"}

\* A connected or listening socket has a configured child.
OpenHasChild ==
  this.connected \/ this.listening => (this.tcp /\ this.configured) \/ "listensTwice" \in lapses

\* The firmware has a token only for an operation in progress.
NoStrayToken ==
  lapses = {} => \A x \in Token : this.token[x].queued => this.slot[x] # 0

\* A connection that the firmware accepted is given to the accept in progress.
AcceptedIsOwned == this.child /\ lapses = {} => this.slot["accept"] # 0

\* The state is sound: no operation is lost, whatever began it and wherever a tick fell, and the
\* firmware keeps nothing of one that ended.
Sound ==
  /\ TypeOK /\ InPlace /\ WithFirmware /\ PolledWhileWaiting /\ OpenHasChild
  /\ NoStrayToken /\ AcceptedIsOwned

\* A socket becomes connected only when that is reported to the caller of a connect.
ConnectIsReported ==
  [][~this.connected /\ this'.connected =>
       \E o \in Of(this, "connect") : done[o] = "pending" /\ done'[o] = "done"]_vars

\* A connect ends: by an answer, or by its timeout.
ConnectIsOver == Of(this, "connect") = {}
ConnectEnds == []<>ConnectIsOver

\* A close ends, unless a path of Lapses releases the child under it.
CloseIsOver == Of(this, "close") = {} \/ lapses # {}
CloseEnds == []<>CloseIsOver

=============================================================================
