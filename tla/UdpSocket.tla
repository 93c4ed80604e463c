------------------------------ MODULE UdpSocket ------------------------------
(***************************************************************************)
(* The datagram half of System.Net.Sockets.Socket of BootTo.NET: binding,  *)
(* the wait for a DHCP address, one connect, receive, transmit and close   *)
(* in flight, and the UDP4 child of the firmware below them.               *)
(*                                                                         *)
(* A call that returns an error before it changes anything is left out.    *)
(***************************************************************************)
EXTENDS Handlers

Slot  == {"connect", "receive", "from", "transmit", "close"}
Token == {"receive", "transmit"}

VARIABLE stranded   \* history: operations that a path of the code leaves behind, see Strands

vars == <<codeVars, stranded>>

\* A token: with the firmware, its event signaled.
TokenState == [queued : BOOLEAN, signaled : BOOLEAN]

NoToken == [queued |-> FALSE, signaled |-> FALSE]

\* Operations of slot x of s; a receive is in one of two slots.
Of(s, x) == (IF x = "receive" THEN {s.slot["receive"], s.slot["from"]} ELSE {s.slot[x]}) \ {0}

TokenOf(x) == IF x = "transmit" THEN "transmit" ELSE "receive"

Pending(s) == {s.slot[x] : x \in Slot} \ {0}

-----------------------------------------------------------------------------
(* The methods that change the socket and call nobody back, as functions.   *)

UpdatePollingRegistration(s) == [s EXCEPT !.polled = s.waiting \/ Pending(s) # {}]

ReleaseUdp(s) ==
  [s EXCEPT !.udp = FALSE, !.bound = FALSE, !.connected = FALSE, !.configured = FALSE,
            !.waiting = FALSE, !.attempt = @ + 1, !.polled = FALSE,
            !.token = [x \in Token |-> NoToken]]

\* Mutant: the timeout gets the number of the attempt before.
BeginOldAttempt(s) ==
  IF s.waiting THEN s
  ELSE UpdatePollingRegistration(
         [s EXCEPT !.waiting = TRUE, !.attempt = @ + 1, !.delays = @ \cup {s.attempt}])

BeginUdpAddressConfigurationWait(s) ==
  IF s.waiting THEN s
  ELSE UpdatePollingRegistration(
         [s EXCEPT !.waiting = TRUE, !.attempt = @ + 1, !.delays = @ \cup {s.attempt + 1}])

\* The outcomes: no child, or no events for it, are errors.
InitializeUdp(s) ==
  IF s.udp THEN {[s |-> s, ok |-> TRUE]}
  ELSE {[s |-> [s EXCEPT !.udp = TRUE], ok |-> TRUE],
        [s |-> s, ok |-> FALSE], [s |-> ReleaseUdp(s), ok |-> FALSE]}

Abort(t) == IF t.queued THEN [queued |-> FALSE, signaled |-> TRUE] ELSE t

\* Configure(null) aborts what the firmware has.
ConfigureUdp(s) ==
  LET r == IF s.configured
             THEN [s EXCEPT !.configured = FALSE,
                            !.token = [x \in Token |-> Abort(s.token[x])]]
             ELSE s
  IN  {[s |-> [r EXCEPT !.configured = TRUE], status |-> "ok"]}
        \cup {[s |-> r, status |-> st] : st \in {"noMapping", "error"}}
        \cup (IF s.configured THEN {[s |-> s, status |-> "error"]} ELSE {})

\* Bind, of a socket that is not bound.
BindUdp(s) ==
  {[s |-> i.s, ok |-> FALSE] : i \in {j \in InitializeUdp(s) : ~j.ok}}
    \cup UNION {{ [s |-> CASE g.status = "error"     -> ReleaseUdp(g.s)
                           [] g.status = "noMapping" ->
                                [BeginUdpAddressConfigurationWait(g.s) EXCEPT !.bound = TRUE]
                           [] OTHER -> [g.s EXCEPT !.bound = TRUE],
                   ok |-> g.status # "error"] : g \in ConfigureUdp(i.s)}
                 : i \in {j \in InitializeUdp(s) : j.ok}}

EnsureBound(s) == IF s.bound THEN {[s |-> s, ok |-> TRUE]} ELSE BindUdp(s)

\* The firmware takes a token it does not have yet, of a configured child.
Submit(s, x) ==
  {[s |-> s, ok |-> FALSE]} \cup
  (IF s.configured /\ ~s.token[x].queued
     THEN {[s |-> [s EXCEPT !.token[x] = [@ EXCEPT !.queued = TRUE]], ok |-> TRUE]}
     ELSE {})

-----------------------------------------------------------------------------
(* The completions.                                                         *)

Cleared(s, x) ==
  [s EXCEPT !.slot = [y \in Slot |->
     IF y = x \/ (x = "receive" /\ y = "from") THEN 0 ELSE s.slot[y]]]

\* Mutant: the source of a receive-from is cleared but not completed.
CompleteForgetsFrom(c, s, x, ls) ==
  Settle(c, UpdatePollingRegistration(Cleared(s, x)), {s.slot[x]} \ {0},
         <<Do("maybe")>> \o ls)

\* CompleteUdpReceive and CompleteUdpTransmit.
CompleteIo(c, s, x, ls) ==
  Settle(c, UpdatePollingRegistration(Cleared(s, x)), Of(s, x),
         (IF x = "receive" \/ Of(s, x) # {} THEN <<Do("maybe")>> ELSE <<>>) \o ls)

\* On a timeout the child goes, too.
CompleteConnect(c, s, status, ls) ==
  LET s1 == [s EXCEPT !.slot["connect"] = 0, !.waiting = FALSE, !.connected = (status = "ok")]
      s2 == IF status = "timeout" THEN ReleaseUdp(s1) ELSE s1
  IN  Settle(c, UpdatePollingRegistration(s2), Of(s, "connect"), ls)

\* CompleteUdpAddressConfiguration: the connect first, then the queued operations, which
\* are submitted, or fail together with the child.
CompleteUdpAddressConfiguration(c, s, status) ==
  LET s1 == [s EXCEPT !.waiting = FALSE, !.attempt = @ + 1]
      ls == IF status = "ok"
              THEN <<L("submit", "receive", 0), L("submit", "transmit", 0), Do("update")>>
              ELSE <<L("abort", "transmit", 0), L("abort", "receive", 0), Do("release")>>
  IN  IF Of(s, "connect") # {} THEN CompleteConnect(c, s1, status, ls)
                               ELSE Proceed(c, s1, ls)

\* MaybeCompleteUdpClose.
MaybeClose(c) ==
  /\ At(c, "maybe")
  /\ IF Of(this, "close") = {} \/ Of(this, "receive") # {} \/ Of(this, "transmit") # {}
       THEN Proceed(c, this, <<>>)
       ELSE Settle(c, [ReleaseUdp(this) EXCEPT !.slot["close"] = 0], Of(this, "close"), <<>>)

AbortIo(c) ==
  /\ At(c, "abort")
  /\ LET x == Head(todo[c]).x
     IN  IF Of(this, x) = {} THEN Proceed(c, this, <<>>) ELSE CompleteIo(c, this, x, <<>>)

\* A queued operation goes to the firmware once there is an address.
SubmitIo(c) ==
  /\ At(c, "submit")
  /\ LET x == Head(todo[c]).x
     IN  IF Of(this, x) = {} THEN Proceed(c, this, <<>>)
         ELSE \E r \in Submit(this, x) :
                IF r.ok THEN Proceed(c, r.s, <<>>) ELSE CompleteIo(c, this, x, <<>>)

ReleaseChild(c) ==
  /\ At(c, "release")
  /\ Proceed(c, IF this.udp THEN ReleaseUdp(this) ELSE this, <<>>)

Update(c) == At(c, "update") /\ Proceed(c, UpdatePollingRegistration(this), <<>>)

-----------------------------------------------------------------------------
(* The calls.                                                               *)

CallConnect(c) ==
  /\ CanCall(c)
  /\ ~this.connected /\ Of(this, "connect") = {}
  /\ Start(c, this, <<L("set", "connect", New), L("go", "connect", New)>>)
  /\ Pend(New)

\* ReceiveAsync; ReceiveFromAsync does not look at a close in progress.
CallReceive(c, x) ==
  /\ CanCall(c)
  /\ Of(this, "receive") = {}
  /\ x = "receive" => Of(this, "close") = {}
  /\ \E b \in EnsureBound(this) :
       IF b.ok THEN Start(c, b.s, <<L("set", x, New), L("go", x, New)>>) /\ Pend(New)
               ELSE Return(c, b.s)

CallTransmit(c) ==
  /\ CanCall(c)
  /\ \E b \in EnsureBound(this) :
       IF b.ok /\ Of(b.s, "transmit") = {} /\ Of(b.s, "close") = {}
         THEN Start(c, b.s, <<L("set", "transmit", New), L("go", "transmit", New)>>) /\ Pend(New)
         ELSE Return(c, b.s)

CallBind(c) ==
  /\ CanCall(c)
  /\ ~this.bound /\ ~this.connected
  /\ \E b \in BindUdp(this) : Return(c, b.s)

\* A connect in progress is failed at once.
CallClose(c) ==
  /\ CanCall(c)
  /\ this.udp /\ Of(this, "close") = {}
  /\ LET s == [this EXCEPT !.slot["close"] = New, !.slot["connect"] = 0]
     IN  Start(c, s, Continuations(Of(this, "connect")) \o <<L("close", "close", New)>>)
  /\ done' = [Finished(Of(this, "connect")) EXCEPT ![New] = "pending"]

\* The completion source is stored.
SetSlot(c) ==
  /\ At(c, "set")
  /\ LET l == Head(todo[c]) IN Proceed(c, [this EXCEPT !.slot[l.x] = l.op], <<>>)

\* Without an address the operation is queued, with one it goes to the firmware.  A tick may
\* have released the child since it was found (the timeout of the wait); what the call
\* through the null pointer does then is not modelled.
GoIo(c) ==
  /\ At(c, "go") /\ Head(todo[c]).x # "connect"
  /\ this.udp
  /\ LET x == TokenOf(Head(todo[c]).x)
     IN  IF this.waiting THEN Proceed(c, UpdatePollingRegistration(this), <<>>)
         ELSE \E r \in Submit(this, x) :
                IF r.ok THEN Proceed(c, UpdatePollingRegistration(r.s), <<>>)
                        ELSE CompleteIo(c, this, x,
                               IF x = "transmit" THEN <<Do("update")>> ELSE <<>>)

GoConnect(c) ==
  /\ At(c, "go") /\ Head(todo[c]).x = "connect"
  /\ \E i \in InitializeUdp(this) :
       IF ~i.ok THEN CompleteConnect(c, i.s, "error", <<>>)
       ELSE \E g \in ConfigureUdp([i.s EXCEPT !.bound = TRUE]) :
              IF g.status = "noMapping"
                THEN Proceed(c, BeginUdpAddressConfigurationWait(g.s), <<>>)
                ELSE CompleteConnect(c, g.s, g.status, <<>>)

\* Mutant: the firmware is not asked to cancel.
CloseCancelsNothing(c) ==
  /\ At(c, "close")
  /\ IF Of(this, "receive") = {} /\ Of(this, "transmit") = {}
       THEN Settle(c, [ReleaseUdp(this) EXCEPT !.slot["close"] = 0], {Head(todo[c]).op}, <<>>)
       ELSE Proceed(c, UpdatePollingRegistration(this), <<>>)

\* Operations queued for an address fail at once; what the firmware has is canceled.
CloseGoes(c) ==
  /\ At(c, "close")
  /\ \/ /\ Of(this, "receive") = {} /\ Of(this, "transmit") = {}
        /\ Settle(c, [ReleaseUdp(this) EXCEPT !.slot["close"] = 0],
                  {Head(todo[c]).op}, <<>>)
     \/ /\ Of(this, "receive") # {} \/ Of(this, "transmit") # {}
        /\ this.waiting
        /\ Proceed(c, [this EXCEPT !.waiting = FALSE, !.attempt = @ + 1],
                   <<L("abort", "receive", 0), L("abort", "transmit", 0), Do("maybe")>>)
     \/ /\ Of(this, "receive") # {} \/ Of(this, "transmit") # {}
        /\ ~this.waiting
        /\ Proceed(c, UpdatePollingRegistration(
                        [this EXCEPT !.token = [x \in Token |->
                           IF Of(this, x) # {} THEN Abort(this.token[x]) ELSE this.token[x]]]), <<>>)

-----------------------------------------------------------------------------
(* The polls.                                                               *)

\* A pass polls the socket, which its poller list contains.
Poll(c) ==
  /\ this.polled
  /\ Pass(c, this, IF this.udp THEN <<Do("pollAddress"), L("pollToken", "receive", 0),
                                      L("pollToken", "transmit", 0), Do("maybe")>>
                               ELSE <<>>)

\* TryConfigureWhenAddressAvailable: not yet, an error, or an address.
PollAddress(c) ==
  /\ At(c, "pollAddress")
  /\ \/ Proceed(c, this, <<>>)
     \/ /\ this.waiting
        /\ \/ this.udp /\ \E g \in ConfigureUdp(this) :
                IF g.status = "noMapping" THEN Proceed(c, g.s, <<>>)
                ELSE CompleteUdpAddressConfiguration(c, g.s, g.status)
           \/ CompleteUdpAddressConfiguration(c, this, "error")

\* The test resets the event.
PollToken(c) ==
  /\ At(c, "pollToken")
  /\ LET x == Head(todo[c]).x
     IN  IF Of(this, x) # {} /\ this.token[x].signaled
           THEN CompleteIo(c, [this EXCEPT !.token[x].signaled = FALSE], x, <<>>)
           ELSE Proceed(c, this, <<>>)

\* The 30 s delay of an attempt elapses in a pass.
Elapse(c, a) ==
  /\ a \in this.delays
  /\ Pass(c, [this EXCEPT !.delays = @ \ {a}], <<L("timeout", "none", a)>>)

UdpAddressConfigurationTimedOut(c) ==
  /\ At(c, "timeout")
  /\ IF this.waiting /\ Head(todo[c]).op = this.attempt
       THEN CompleteUdpAddressConfiguration(c, this, "timeout")
       ELSE Proceed(c, this, <<>>)

-----------------------------------------------------------------------------
(* The firmware.                                                            *)

\* The firmware is done with a token.
Signal(x) ==
  /\ this.token[x].queued
  /\ Outside([this EXCEPT !.token[x] = [queued |-> FALSE, signaled |-> TRUE]])

-----------------------------------------------------------------------------

\* udp # null, the flags, udpAddressConfigurationAttempt, the attempts whose 30 s delay
\* runs, the operations whose completion sources are set, the tokens, the poller.
Fresh == [udp |-> FALSE, bound |-> FALSE, connected |-> FALSE, configured |-> FALSE,
          waiting |-> FALSE, attempt |-> 0, delays |-> {}, slot |-> [x \in Slot |-> 0],
          token |-> [x \in Token |-> NoToken], polled |-> FALSE]

Init == this = Fresh /\ stranded = {} /\ HandlersInit

Statement(c) ==
  \/ SetSlot(c) \/ GoIo(c) \/ GoConnect(c) \/ CloseGoes(c)
  \/ MaybeClose(c) \/ AbortIo(c) \/ SubmitIo(c) \/ ReleaseChild(c) \/ Update(c)
  \/ PollAddress(c) \/ PollToken(c) \/ UdpAddressConfigurationTimedOut(c)
  \/ PassEnds(c) \/ UserReturns(c)

Call(c) ==
  \/ CallBind(c) \/ CallConnect(c) \/ CallTransmit(c) \/ CallClose(c)
  \/ \E x \in {"receive", "from"} : CallReceive(c, x)

\* Operations the next step leaves behind: still in their slots when the child goes (line
\* 850, or a close during which a connect began); queued for an address when a connect finds
\* one (line 1430); submitted after the close that was to cancel them (lines 859, 865);
\* submitted, or failed, while their token is in use: submitted before, by a continuation of
\* the connect or in a tick (lines 736, 859, 865), aborted by a Configure and still signaled,
\* or begun by a continuation on a new child and failed with the earlier attempt (lines
\* 846-849); or submitted after a tick has ended them (lines 704, 736).
Strands ==
  LET InUse(x) == this.token[x].queued \/ this.token[x].signaled
      LeftBy(c, l) ==
        CASE l.at = "go" /\ l.x = "connect" ->
               IF this.waiting /\ ~this'.waiting
                 THEN Of(this, "receive") \cup Of(this, "transmit") ELSE {}
          [] l.at = "go" /\ l.x # "connect" ->
               IF InUse(TokenOf(l.x)) \/ l.op \notin Of(this, TokenOf(l.x)) THEN {l.op} ELSE {}
          [] l.at \in {"submit", "abort"} ->
               IF InUse(l.x) \/ (l.at = "submit" /\ Of(this, "close") # {})
                 THEN Of(this, l.x) ELSE {}
          [] OTHER -> {}
  IN  (IF this.udp /\ ~this'.udp THEN Pending(this') ELSE {})
        \cup UNION {LeftBy(c, Head(todo[c])) : c \in {d \in Context :
                      OnCpu(d) /\ todo[d] # <<>> /\ todo'[d] # todo[d]}}

Next ==
  /\ \/ \E c \in Context :
          Statement(c) \/ Call(c) \/ Poll(c) \/ \E a \in this.delays : Elapse(c, a)
     \/ \E x \in Token : Signal(x)
     \/ TimerTick \/ TickEnds
  /\ stranded' = stranded \cup Strands

Spec == Init /\ [][Next]_vars

\* The CPU executes, continuations return, every pass polls what is registered (EachIsPolled
\* of TaskScheduler), also a delay that is over, and the application comes to an end of
\* what it does, so that ticks poll.
Fairness ==
  /\ WF_codeVars(Statement("Timer")) /\ SF_codeVars(TickEnds)
  /\ SF_codeVars(Statement("App")) /\ SF_codeVars(\E c \in Context : UserReturns(c))
  /\ SF_codeVars(\E c \in Context : Poll(c))
  /\ SF_codeVars(\E c \in Context, a \in this.delays : Elapse(c, a))

FairSpec == Spec /\ Fairness

-----------------------------------------------------------------------------
(* Properties.                                                              *)

\* Every variable has its type.
TypeOK ==
  /\ this \in [udp : BOOLEAN, bound : BOOLEAN, connected : BOOLEAN, configured : BOOLEAN,
               waiting : BOOLEAN, attempt : Nat, delays : SUBSET (1 .. this.attempt),
               slot : [Slot -> Op \cup {0}], token : [Token -> TokenState], polled : BOOLEAN]
  /\ HandlersTypeOK({"set", "go", "close", "abort", "maybe", "submit", "release", "update",
                     "pollAddress", "pollToken", "timeout"}, Slot)
  /\ stranded \subseteq Op

\* No operation is forgotten: while its task is not done, a slot of the socket has it, or the
\* call that began it is about to put it there.
InPlace ==
  \A o \in Op : done[o] = "pending" =>
    o \in Pending(this) \/ \E l \in Labels : l.at = "set" /\ l.op = o

\* An operation of a socket that does not wait for an address is with the firmware, or some
\* code is about to submit or end it.
WithFirmware ==
  \A x \in Token : \A o \in Of(this, x) \ stranded :
    ~this.waiting =>
      \/ this.token[x].queued \/ this.token[x].signaled
      \/ \E l \in Labels : (l.at = "go" /\ l.op = o) \/ (l.at \in {"submit", "abort"} /\ l.x = x)

\* A socket that waits for something is polled.
PolledWhileWaiting ==
  (this.waiting \/ Pending(this) \ stranded # {}) =>
     this.polled \/ \E l \in Labels : l.at \in {"go", "close", "update", "abort", "maybe"}

\* A socket that is bound has a child, and a token is with the firmware only for a
\* configured child.
ChildConsistent ==
  /\ this.bound => this.udp
  /\ \A x \in Token : this.token[x].queued => this.udp /\ this.configured

\* The state is sound: no operation is lost, whatever began it and wherever a tick fell.
Sound == TypeOK /\ InPlace /\ WithFirmware /\ PolledWhileWaiting /\ ChildConsistent

\* The firmware has a token only for an operation that is in progress: a close or a failure
\* that ends the operation takes the token back, or the child goes with it.
NoStrayToken ==
  \A x \in Token : this.token[x].queued /\ stranded = {} => Of(this, x) # {}

\* A close that is in progress has taken back every token, except those of receives that
\* began after it (ReceiveFromAsync does not look at udpCloseCompletion).
CloseTakesBack ==
  \A k \in Of(this, "close"), x \in Token :
    this.token[x].queued /\ stranded = {} =>
      \/ \E o \in Of(this, x) : o > k
      \/ \E l \in Labels : l.at = "close" /\ l.op = k

\* A wait for an address ends, by an answer or by its timeout.
WaitIsOver == ~this.waiting
WaitEnds == []<>WaitIsOver

\* A close ends, unless an operation is left behind or another receive begins.
CloseIsOver ==
  \A k \in Of(this, "close") : stranded # {} \/ \E o \in Of(this, "receive") : o > k
CloseEnds == []<>CloseIsOver

=============================================================================
