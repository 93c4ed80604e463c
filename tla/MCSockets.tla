------------------------------ MODULE MCSockets -----------------------------
(***************************************************************************)
(* The sockets, for TLC: one of TCP, which is a client, an accepted socket *)
(* or a listener, or one of UDP, with variables of its own.                *)
(***************************************************************************)
EXTENDS TcpSocket

CONSTANT UdpCalls   \* bound: the operations begun on the UDP socket; MaxCalls is that of TCP

VARIABLES
  which,                                      \* the component at work, see MCInit
  uthis, utodo, udone, ucalls, utick, stranded   \* UdpSocket

U == INSTANCE UdpSocket WITH
  MaxCalls <- UdpCalls,
  this <- uthis, todo <- utodo, done <- udone, calls <- ucalls, tick <- utick

UCode    == <<uthis, utodo, udone, ucalls, utick>>
MCVars   == <<which, UCode, stranded, vars>>
bothVars == <<UCode, codeVars>>

\* One of them is at work; the other stays as it begins.
UOnly == which = "udp" /\ UNCHANGED <<which, vars>>
TOnly == which = "tcp" /\ UNCHANGED <<which, UCode, stranded>>

MCInit ==
  /\ U!Init /\ Init
  /\ which = "tcp" \/ (which = "udp" /\ this.role = "client")

MCNext ==
  \/ UOnly /\ U!Next
  \/ TOnly /\ Next

MCSpec == MCInit /\ [][MCNext]_MCVars

\* The fairness of UdpSocket and of TcpSocket, whichever is at work.
Runs(c) == (UOnly /\ U!Statement(c)) \/ (TOnly /\ Statement(c))
MCFairness ==
  /\ WF_bothVars(Runs("Timer"))
  /\ SF_bothVars((UOnly /\ U!TickEnds) \/ (TOnly /\ TickEnds))
  /\ SF_bothVars(Runs("App"))
  /\ SF_bothVars(\E c \in Context : (UOnly /\ U!UserReturns(c)) \/ (TOnly /\ UserReturns(c)))
  /\ SF_bothVars(\E c \in Context : (UOnly /\ U!Poll(c)) \/ (TOnly /\ Poll(c)))
  /\ SF_bothVars(\E c \in Context :
        \/ UOnly /\ \E a \in uthis.delays : U!Elapse(c, a)
        \/ TOnly /\ \E o \in Op : Elapse(c, o))
  /\ WF_bothVars(TOnly /\ Signal("close"))

MCFairSpec == MCSpec /\ MCFairness

-----------------------------------------------------------------------------
ASSUME U!CallAssumption

\* UDP: no operation is lost, whatever began it and wherever a tick fell; the firmware has a
\* token, and so the caller's buffer, only for an operation in progress, and a close has taken
\* back every token.  Of TCP the same is Sound, of TcpSocket.
DatagramsAreSound == U!Sound /\ U!NoStrayToken /\ U!CloseTakesBack

\* Again and again no wait for an address and no connect is left: each ends, by an answer or
\* by its timeout.
EveryWaitEnds == []<>(U!WaitIsOver /\ ConnectIsOver)

\* The same of a close, unless an operation is left behind, another receive begins (UDP), or a
\* path of Lapses releases the child under it (TCP).
EveryCloseEnds == []<>(U!CloseIsOver /\ CloseIsOver)

=============================================================================
