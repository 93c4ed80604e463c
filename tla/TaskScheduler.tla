--------------------------- MODULE TaskScheduler ---------------------------
(***************************************************************************)
(* The cooperative scheduler of BootTo.NET (ConsoleApp1/TaskScheduler.cs)  *)
(* on its single CPU.  Two contexts run its code:                          *)
(*   "App"    the application, at TPL_APPLICATION, and                     *)
(*   "Timer"  the notification of the 1 ms System.Timers.Timer, at         *)
(*            TPL_CALLBACK, which preempts the application between any two *)
(*            statements and runs to its end before the application goes   *)
(*            on.                                                          *)
(* s_pollers is the intrusive list the source builds from TaskPoller.Next; *)
(* Register, Unregister, PollOnce and Yield are modelled statement by      *)
(* statement, since a tick may fall between the statements.  Poll() runs   *)
(* whatever the poller's continuations do: calls to Register, Unregister   *)
(* and Task.Wait on any poller, in any order, before it returns.           *)
(***************************************************************************)
EXTENDS Integers, Sequences

CONSTANTS
  Poller,       \* the TaskPoller objects
  Shared,       \* those both contexts hold (sockets, streams); the others are
                \* operations known to their creator until their task is returned
  Nil,          \* the null reference
  MaxCalls      \* bound: calls to Register, Unregister, Wait and Yield

ASSUME NilAssumption  == Nil \notin Poller
ASSUME SharedAssumption == Shared \subseteq Poller
ASSUME CallAssumption == MaxCalls \in Nat

Context == {"App", "Timer"}
Ref     == Poller \cup {Nil}

VARIABLES
  head,         \* s_pollers
  next,         \* TaskPoller.Next
  registered,   \* TaskPoller.IsRegistered
  yielding,     \* s_yielding
  again,        \* s_yieldAgain
  timer,        \* s_schedulerTimer: "none" (null), "running", or "dead" (Start failed)
  tick,         \* the timer notification is on the CPU
  op,           \* the list operation each context is inside
  ypc,          \* where each context is in Yield
  frames,       \* the PollOnce activations of each context, innermost last
  awaits,       \* the poller whose task the outermost Wait of a context waits for
  calls,        \* calls made so far
  clock,        \* history: registrations so far
  age,          \* history: the registration that linked a poller
  passClock,    \* history: clock when the current pass of Yield's loop began
  torn          \* history: a tick changed the list inside an operation of the application

listVars == <<head, next, registered, clock, age>>
passVars == <<yielding, again, passClock>>
vars == <<listVars, passVars, timer, tick, op, ypc, frames, awaits, calls, torn>>

-----------------------------------------------------------------------------
(* The state of one context.                                               *)

NoOp == [pc |-> "none", p |-> Nil, prev |-> Nil, cur |-> Nil]

OpPc == {"none", "rCheck", "rLink", "rFlag", "rPublish", "rNotify",
         "uCheck", "uWalk", "uUnlink", "uClear", "uGiveUp"}

Operation == [pc : OpPc, p : Ref, prev : Ref, cur : Ref]

YieldPc == {"idle", "check", "set", "loop", "pass", "test", "finally"}

Frame == [cur : Ref, nxt : Ref, phase : {"fetch", "poll"}, wait : Ref]

\* The context that has the CPU: a tick runs to completion on top of the application.
OnCpu(c) == tick = (c = "Timer")

Top(c) == frames[c][Len(frames[c])]

ReplaceTop(c, f) == frames' = [frames EXCEPT ![c] = [@ EXCEPT ![Len(@)] = f]]

\* Code outside the scheduler is running: the application between two calls, or
\* the body of the Poll the innermost PollOnce has called.
InUserCode(c) ==
  /\ OnCpu(c)
  /\ op[c].pc = "none"
  /\ \/ c = "App" /\ ypc[c] = "idle" /\ awaits[c] = Nil
     \/ ypc[c] = "pass" /\ frames[c] # <<>> /\ Top(c).phase = "poll"

\* A list operation of the application that has read the list and not finished.
Quiet == {"none", "rCheck", "rNotify", "uCheck"}
AppInOperation == op["App"].pc \notin Quiet

Tear(c) == torn' = (torn \/ (c = "Timer" /\ AppInOperation))

Goto(c, pc) == op' = [op EXCEPT ![c].pc = pc]
Done(c)     == op' = [op EXCEPT ![c] = NoOp]

At(c, pc) == OnCpu(c) /\ op[c].pc = pc

Call(c) == InUserCode(c) /\ calls < MaxCalls /\ calls' = calls + 1

\* The other context is inside an operation on p.
Busy(p) == \E c \in Context : op[c].p = p

-----------------------------------------------------------------------------
(* Register.                                                               *)

CallRegister(c, p) ==
  /\ Call(c)
  /\ Busy(p) => p \in Shared
  /\ op' = [op EXCEPT ![c] = [NoOp EXCEPT !.pc = "rCheck", !.p = p]]
  /\ UNCHANGED <<listVars, passVars, timer, tick, ypc, frames, awaits, torn>>

RegisterCheck(c) ==
  /\ At(c, "rCheck")
  /\ IF registered[op[c].p] THEN Done(c) ELSE Goto(c, "rLink")
  /\ UNCHANGED <<listVars, passVars, timer, tick, ypc, frames, awaits, calls, torn>>

RegisterLink(c) ==
  /\ At(c, "rLink")
  /\ next' = [next EXCEPT ![op[c].p] = head]
  /\ Goto(c, "rFlag")
  /\ Tear(c)
  /\ UNCHANGED <<head, registered, clock, age, passVars, timer, tick, ypc, frames, awaits, calls>>

RegisterFlag(c) ==
  /\ At(c, "rFlag")
  /\ registered' = [registered EXCEPT ![op[c].p] = TRUE]
  /\ Goto(c, "rPublish")
  /\ Tear(c)
  /\ UNCHANGED <<head, next, clock, age, passVars, timer, tick, ypc, frames, awaits, calls>>

RegisterPublish(c) ==
  /\ At(c, "rPublish")
  /\ head'  = op[c].p
  /\ clock' = clock + 1
  /\ age'   = [age EXCEPT ![op[c].p] = clock + 1]
  /\ Goto(c, "rNotify")
  /\ Tear(c)
  /\ UNCHANGED <<next, registered, passVars, timer, tick, ypc, frames, awaits, calls>>

\* EnsureSchedulerTimer keeps a timer whose Start failed, and never retries it.
RegisterNotify(c) ==
  /\ At(c, "rNotify")
  /\ timer' \in IF timer = "none" THEN {"running", "dead"} ELSE {timer}
  /\ again' = (again \/ yielding)
  /\ Done(c)
  /\ UNCHANGED <<listVars, yielding, passClock, tick, ypc, frames, awaits, calls, torn>>

-----------------------------------------------------------------------------
(* Unregister.                                                             *)

CallUnregister(c, p) ==
  /\ Call(c)
  /\ Busy(p) => p \in Shared
  /\ op' = [op EXCEPT ![c] = [NoOp EXCEPT !.pc = "uCheck", !.p = p]]
  /\ UNCHANGED <<listVars, passVars, timer, tick, ypc, frames, awaits, torn>>

UnregisterCheck(c) ==
  /\ At(c, "uCheck")
  /\ IF registered[op[c].p]
       THEN op' = [op EXCEPT ![c] = [@ EXCEPT !.pc = "uWalk", !.cur = head]]
       ELSE Done(c)
  /\ UNCHANGED <<listVars, passVars, timer, tick, ypc, frames, awaits, calls, torn>>

\* One turn of the while loop.
UnregisterWalk(c) ==
  /\ At(c, "uWalk")
  /\ \/ op[c].cur = Nil /\ Goto(c, "uGiveUp")
     \/ op[c].cur = op[c].p /\ Goto(c, "uUnlink")
     \/ /\ op[c].cur \notin {Nil, op[c].p}
        /\ op' = [op EXCEPT ![c] =
                    [@ EXCEPT !.prev = op[c].cur, !.cur = next[op[c].cur]]]
  /\ UNCHANGED <<listVars, passVars, timer, tick, ypc, frames, awaits, calls, torn>>

UnregisterUnlink(c) ==
  /\ At(c, "uUnlink")
  /\ \/ /\ op[c].prev = Nil
        /\ head' = next[op[c].cur]
        /\ UNCHANGED next
     \/ /\ op[c].prev # Nil
        /\ next' = [next EXCEPT ![op[c].prev] = next[op[c].cur]]
        /\ UNCHANGED head
  /\ Goto(c, "uClear")
  /\ Tear(c)
  /\ UNCHANGED <<registered, clock, age, passVars, timer, tick, ypc, frames, awaits, calls>>

\* Mutant: the poller keeps its Next when it leaves the list.
ClearKeepsNext(c) ==
  /\ OnCpu(c) /\ op[c].pc \in {"uClear", "uGiveUp"}
  /\ registered' = [registered EXCEPT ![op[c].p] = FALSE]
  /\ age'        = [age EXCEPT ![op[c].p] = 0]
  /\ Done(c)
  /\ Tear(c)
  /\ UNCHANGED <<head, next, clock, passVars, timer, tick, ypc, frames, awaits, calls>>

\* Both ends of Unregister reset the poller: after the unlink, and after a walk
\* that did not find it.
UnregisterClear(c) ==
  /\ OnCpu(c) /\ op[c].pc \in {"uClear", "uGiveUp"}
  /\ next'       = [next EXCEPT ![op[c].p] = Nil]
  /\ registered' = [registered EXCEPT ![op[c].p] = FALSE]
  /\ age'        = [age EXCEPT ![op[c].p] = 0]
  /\ Done(c)
  /\ Tear(c)
  /\ UNCHANGED <<head, clock, passVars, timer, tick, ypc, frames, awaits, calls>>

-----------------------------------------------------------------------------
(* Yield, Wait and PollOnce.                                               *)

\* Task.Wait calls Wait until the task of p is completed; p = Nil is a plain Yield.
\* The task waited for was returned by a call that has registered its poller.
\* Outside a pass Wait is Yield; inside one it is a nested PollOnce.
CallWait(c, p) ==
  /\ Call(c)
  /\ p # Nil => registered[p] /\ ~Busy(p)
  /\ IF ypc[c] = "idle"
       THEN /\ ypc'    = [ypc EXCEPT ![c] = "check"]
            /\ awaits' = [awaits EXCEPT ![c] = p]
            /\ UNCHANGED <<frames, again>>
       ELSE /\ p # Nil
            /\ again'  = TRUE
            /\ frames' = [frames EXCEPT ![c] =
                 Append(@, [cur |-> head, nxt |-> Nil, phase |-> "fetch", wait |-> p])]
            /\ UNCHANGED <<ypc, awaits>>
  /\ UNCHANGED <<listVars, yielding, passClock, timer, tick, op, torn>>

\* Control comes back to Yield's caller.  The tick ends, and the loop of Task.Wait
\* calls again while the task it waits for is pending.
YieldReturn(c) ==
  /\ tick' = FALSE
  /\ IF awaits[c] # Nil /\ registered[awaits[c]]
       THEN ypc' = [ypc EXCEPT ![c] = "check"] /\ UNCHANGED awaits
       ELSE ypc' = [ypc EXCEPT ![c] = "idle"] /\ awaits' = [awaits EXCEPT ![c] = Nil]

\* Mutant: Yield does not look at s_yielding.
CheckDropped(c) ==
  /\ OnCpu(c) /\ ypc[c] = "check"
  /\ ypc' = [ypc EXCEPT ![c] = "set"]
  /\ UNCHANGED <<listVars, passVars, timer, tick, op, frames, awaits, calls, torn>>

\* A Yield that finds a pass active only asks it for another one.
YieldCheck(c) ==
  /\ OnCpu(c) /\ ypc[c] = "check"
  /\ \/ /\ yielding
        /\ again' = TRUE
        /\ YieldReturn(c)
     \/ /\ ~yielding
        /\ ypc' = [ypc EXCEPT ![c] = "set"]
        /\ UNCHANGED <<again, tick, awaits>>
  /\ UNCHANGED <<listVars, yielding, passClock, timer, op, frames, calls, torn>>

YieldSet(c) ==
  /\ OnCpu(c) /\ ypc[c] = "set"
  /\ yielding' = TRUE
  /\ ypc' = [ypc EXCEPT ![c] = "loop"]
  /\ UNCHANGED <<listVars, again, passClock, timer, tick, op, frames, awaits, calls, torn>>

\* s_yieldAgain = false, and PollOnce reads the head of the list.
YieldLoop(c) ==
  /\ OnCpu(c) /\ ypc[c] = "loop"
  /\ again' = FALSE
  /\ passClock' = clock
  /\ ypc' = [ypc EXCEPT ![c] = "pass"]
  /\ frames' = [frames EXCEPT ![c] =
       <<[cur |-> head, nxt |-> Nil, phase |-> "fetch", wait |-> Nil]>>]
  /\ UNCHANGED <<listVars, yielding, timer, tick, op, awaits, calls, torn>>

InPoll(c) == OnCpu(c) /\ ypc[c] = "pass" /\ op[c].pc = "none" /\ frames[c] # <<>>

\* next = current.Next is read before current.Poll() is called.
PollCurrent(c) ==
  /\ InPoll(c)
  /\ Top(c).phase = "fetch" /\ Top(c).cur # Nil
  /\ ReplaceTop(c, [Top(c) EXCEPT !.nxt = next[Top(c).cur], !.phase = "poll"])
  /\ UNCHANGED <<listVars, passVars, timer, tick, op, ypc, awaits, calls, torn>>

\* Poll() returns and the walk goes on with the reference read before the call.
PollReturns(c) ==
  /\ InPoll(c)
  /\ Top(c).phase = "poll"
  /\ ReplaceTop(c, [Top(c) EXCEPT !.cur = Top(c).nxt, !.nxt = Nil, !.phase = "fetch"])
  /\ UNCHANGED <<listVars, passVars, timer, tick, op, ypc, awaits, calls, torn>>

\* The end of a walk: the pass of Yield's loop is over, or Wait's nested PollOnce
\* is, which starts again while the task it waits for is pending.
PollOnceEnds(c) ==
  /\ InPoll(c)
  /\ Top(c).phase = "fetch" /\ Top(c).cur = Nil
  /\ \/ /\ Len(frames[c]) = 1
        /\ frames' = [frames EXCEPT ![c] = <<>>]
        /\ ypc' = [ypc EXCEPT ![c] = "test"]
        /\ UNCHANGED again
     \/ /\ Len(frames[c]) > 1
        /\ IF registered[Top(c).wait]
             THEN again' = TRUE /\ ReplaceTop(c, [Top(c) EXCEPT !.cur = head])
             ELSE /\ frames' = [frames EXCEPT ![c] = SubSeq(@, 1, Len(@) - 1)]
                  /\ UNCHANGED again
        /\ UNCHANGED ypc
  /\ UNCHANGED <<listVars, yielding, passClock, timer, tick, op, awaits, calls, torn>>

\* Poll() throws: the exception leaves the enclosing PollOnce activations until an
\* asynchronous method catches it in the body of an outer Poll (some n > 0 are left),
\* or Yield's finally block runs.  What an exception does once it leaves the timer
\* notification is up to the compiled code and not modelled.
PollThrows(c) ==
  /\ c = "App"
  /\ InUserCode(c) /\ ypc[c] = "pass"
  /\ \E n \in 0 .. Len(frames[c]) - 1 :
       /\ frames' = [frames EXCEPT ![c] = SubSeq(@, 1, n)]
       /\ IF n = 0 THEN /\ ypc' = [ypc EXCEPT ![c] = "finally"]
                        /\ awaits' = [awaits EXCEPT ![c] = Nil]
                   ELSE UNCHANGED <<ypc, awaits>>
  /\ UNCHANGED <<listVars, passVars, timer, tick, op, calls, torn>>

\* Mutant: the pass is not repeated.
TestIgnoresAgain(c) ==
  /\ OnCpu(c) /\ ypc[c] = "test"
  /\ ypc' = [ypc EXCEPT ![c] = "finally"]
  /\ UNCHANGED <<listVars, passVars, timer, tick, op, frames, awaits, calls, torn>>

YieldTest(c) ==
  /\ OnCpu(c) /\ ypc[c] = "test"
  /\ ypc' = [ypc EXCEPT ![c] = IF again THEN "loop" ELSE "finally"]
  /\ UNCHANGED <<listVars, passVars, timer, tick, op, frames, awaits, calls, torn>>

\* Mutant: the flag outlives the pass.
FinallyKeepsYielding(c) ==
  /\ OnCpu(c) /\ ypc[c] = "finally"
  /\ again' = FALSE
  /\ YieldReturn(c)
  /\ UNCHANGED <<listVars, yielding, passClock, timer, op, frames, calls, torn>>

YieldFinally(c) ==
  /\ OnCpu(c) /\ ypc[c] = "finally"
  /\ yielding' = FALSE
  /\ again' = FALSE
  /\ YieldReturn(c)
  /\ UNCHANGED <<listVars, passClock, timer, op, frames, calls, torn>>

\* The firmware signals the timer event: SchedulerTimerElapsed calls Yield.
TimerTick ==
  /\ ~tick /\ timer = "running"
  /\ tick' = TRUE
  /\ ypc' = [ypc EXCEPT !["Timer"] = "check"]
  /\ UNCHANGED <<listVars, passVars, timer, op, frames, awaits, calls, torn>>

-----------------------------------------------------------------------------

Init ==
  /\ head = Nil
  /\ next = [p \in Poller |-> Nil]
  /\ registered = [p \in Poller |-> FALSE]
  /\ yielding = FALSE /\ again = FALSE
  /\ timer = "none" /\ tick = FALSE
  /\ op = [c \in Context |-> NoOp]
  /\ ypc = [c \in Context |-> "idle"]
  /\ frames = [c \in Context |-> <<>>]
  /\ awaits = [c \in Context |-> Nil]
  /\ calls = 0 /\ clock = 0 /\ passClock = 0
  /\ age = [p \in Poller |-> 0]
  /\ torn = FALSE

ListStep(c) ==
  \/ RegisterCheck(c)   \/ RegisterLink(c)   \/ RegisterFlag(c)
  \/ RegisterPublish(c) \/ RegisterNotify(c)
  \/ UnregisterCheck(c) \/ UnregisterWalk(c) \/ UnregisterUnlink(c) \/ UnregisterClear(c)

PassStep(c) ==
  \/ YieldCheck(c) \/ YieldSet(c) \/ YieldLoop(c) \/ YieldTest(c) \/ YieldFinally(c)
  \/ PollCurrent(c) \/ PollReturns(c) \/ PollOnceEnds(c) \/ PollThrows(c)

CallStep(c) ==
  \/ \E p \in Poller : CallRegister(c, p) \/ CallUnregister(c, p)
  \/ \E p \in Ref : CallWait(c, p)

Next == TimerTick \/ \E c \in Context : ListStep(c) \/ PassStep(c) \/ CallStep(c)

Spec == Init /\ [][Next]_vars

\* The CPU executes: a notification runs to its end, the application gets on
\* between ticks, and the firmware keeps signalling the periodic timer.
Fairness ==
  /\ WF_vars(ListStep("Timer") \/ PassStep("Timer"))
  /\ SF_vars(ListStep("App") \/ PassStep("App"))
  /\ WF_vars(TimerTick)

FairSpec == Spec /\ Fairness

-----------------------------------------------------------------------------
(* Properties.                                                             *)

\* Every variable has its type.
TypeOK ==
  /\ head \in Ref
  /\ next \in [Poller -> Ref]
  /\ registered \in [Poller -> BOOLEAN]
  /\ yielding \in BOOLEAN /\ again \in BOOLEAN
  /\ timer \in {"none", "running", "dead"}
  /\ tick \in BOOLEAN
  /\ op \in [Context -> Operation]
  /\ ypc \in [Context -> YieldPc]
  /\ frames \in [Context -> Seq(Frame)]
  /\ awaits \in [Context -> Ref]
  /\ calls \in Nat /\ clock \in Nat /\ passClock \in Nat
  /\ age \in [Poller -> Nat]
  /\ torn \in BOOLEAN

Passing(c) == ypc[c] \in {"loop", "pass", "test", "finally"}

\* s_yielding is set exactly while one context is inside Yield's pass, the two
\* contexts never are at the same time, and only a pass has PollOnce activations.
\* This is what the flag is for: a tick never walks a list the application walks.
OnePass ==
  /\ yielding <=> Passing("App") \/ Passing("Timer")
  /\ ~(Passing("App") /\ Passing("Timer"))
  /\ \A c \in Context : frames[c] # <<>> => ypc[c] = "pass"

\* A tick that falls inside a pass of the application leaves the list alone.
TickInsidePassIsInert ==
  [][tick /\ Passing("App") => UNCHANGED listVars]_vars

\* A poller registered during a pass makes Yield poll again before it returns, so an
\* operation that a continuation starts does not wait for the next tick: Yield leaves its
\* loop only when nothing was registered since the last pass began, or an exception ended it.
YieldLeavesNothingNew ==
  [][\A c \in Context :
       (ypc[c] = "test" /\ ypc'[c] = "finally") => clock = passClock]_vars

\* hd, nx: a list of exactly the members of L, each once, in decreasing order of ag.
IsList(hd, nx, ag, L) ==
  /\ hd = Nil => L = {}
  /\ hd # Nil => hd \in L /\ \A r \in L : ag[r] <= ag[hd]
  /\ \A p \in L : nx[p] = Nil => \A r \in L : ag[p] <= ag[r]
  /\ \A p \in L : nx[p] # Nil =>
       /\ nx[p] \in L /\ ag[nx[p]] < ag[p]
       /\ \A r \in L : ag[r] < ag[p] => ag[r] <= ag[nx[p]]
  /\ \A p, r \in L : ag[p] = ag[r] => p = r

\* An operation has flagged p and not yet linked it, or has unlinked it and not yet
\* reset its flag.
Detached(p) == \E c \in Context : op[c].p = p /\ op[c].pc \in {"rPublish", "uClear"}
Linked(p)   == registered[p] /\ ~Detached(p)

\* Unless a tick has changed the list inside an operation of the application, the
\* list holds exactly the registered pollers, each once, the latest first, and an
\* unregistered poller points nowhere.
ListSound ==
  ~torn =>
    /\ IsList(head, next, age, {p \in Poller : Linked(p)})
    /\ \A p \in Poller : ~registered[p] /\ next[p] # Nil =>
         \E c \in Context : op[c].p = p /\ op[c].pc = "rFlag"

\* While the list is sound and the scheduler timer runs, a poller that stays in the
\* list is polled again and again: no registration order, nested Wait or
\* unregistration of its neighbours starves it.
EachIsPolled ==
  \A p \in Poller :
    <>[](Linked(p) /\ ~torn /\ timer = "running")
      => []<><<\E c \in Context : PollCurrent(c) /\ Top(c).cur = p>>_vars

\* TaskScheduler.cs says of a Wait called from a continuation that it "must poll
\* its I/O task even though the outer continuation pass is active".
NestedWait(p) == \E c \in Context : \E i \in 2 .. Len(frames[c]) : frames[c][i].wait = p
Polled(p)     == \E c \in Context : \E i \in 1 .. Len(frames[c]) :
                   frames[c][i].cur = p /\ frames[c][i].phase = "poll"

NestedWaitPollsItsTask == \A p \in Poller : NestedWait(p) ~> (Polled(p) \/ ~NestedWait(p))

=============================================================================
