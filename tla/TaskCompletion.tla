--------------------------- MODULE TaskCompletion ---------------------------
(***************************************************************************)
(* System.Threading.Tasks.Task of BootTo.NET (ConsoleApp1/CoreLib.cs): the *)
(* state of a task, its multicast delegate of continuations, and the calls *)
(* that race on them.  OnCompleted and the TrySet methods are modelled     *)
(* statement by statement for two contexts of one CPU: the application     *)
(* ("App"), and the tick of the scheduler timer ("Timer"), which preempts  *)
(* the application between any two statements, unless the application is   *)
(* inside a pass of TaskScheduler.Yield, and runs to its end.              *)
(* Continuations run synchronously inside the call that completes the      *)
(* task; they may complete, await or wait for any task, and may throw.     *)
(***************************************************************************)
EXTENDS Integers, Sequences, SequencesExt

CONSTANTS
  Task,          \* tasks, not yet completed when the program gets them
  Continuation,  \* the delegates passed to OnCompleted, each made for one await
  None,          \* no task, no continuation
  MaxCalls       \* bound: calls of OnCompleted, TrySet and Wait

ASSUME NoneAssumption == None \notin Task \cup Continuation
ASSUME CallAssumption == MaxCalls \in Nat

Context == {"App", "Timer"}
Outcome == {"completed", "faulted", "canceled"}

VARIABLES
  state,      \* Task._state
  list,       \* Task._continuation, an immutable list of delegates
  stack,      \* the calls each context is inside, innermost last
  tick,       \* the timer notification is on the CPU
  passing,    \* the application is inside a pass of Yield (s_yielding)
  calls,      \* calls made so far
  phase,      \* history of a continuation: see Phase
  home,       \* history: the task a continuation was added to
  raced       \* history: a tick changed the task inside a call of the application

taskVars == <<state, list>>
history  == <<phase, home, raced>>
vars == <<taskVars, stack, tick, passing, calls, history>>

\* "new" (not passed to OnCompleted yet), "adding" (its call runs), "added",
\* "taken" (by the call that completes its task, or run by OnCompleted itself),
\* "ran", "dropped" (an earlier continuation of the same delegate threw).
Phase == {"new", "adding", "added", "taken", "ran", "dropped"}

-----------------------------------------------------------------------------
(* A call: the statement it is at, the task, the continuation it adds or    *)
(* runs, the delegate it has read, the outcome it sets.                     *)

Pc == {"addCheck", "addRead", "addWrite",
       "setCheck", "setOutcome", "setTake", "setClear", "run", "body", "wait"}

Activation == [pc : Pc, t : Task \cup {None}, k : Continuation \cup {None},
               seq : Seq(Continuation), out : Outcome]

Frame(pc, t, k, seq, out) == [pc |-> pc, t |-> t, k |-> k, seq |-> seq, out |-> out]

Top(c) == Last(stack[c])

OnCpu(c) == tick = (c = "Timer")

At(c, pc) == OnCpu(c) /\ stack[c] # <<>> /\ Top(c).pc = pc

Push(c, a)    == stack' = [stack EXCEPT ![c] = Append(@, a)]
Replace(c, a) == stack' = [stack EXCEPT ![c] = Append(Front(@), a)]
Pop(c)        == stack' = [stack EXCEPT ![c] = Front(@)]

Goto(c, pc) == Replace(c, [Top(c) EXCEPT !.pc = pc])

\* User code: the application or a poll of the tick, a continuation, or a poll made
\* by a Task.Wait.
InUserCode(c) == OnCpu(c) /\ (stack[c] # <<>> => Top(c).pc \in {"body", "wait"})

\* The application runs inside a pass of Yield, its own or one made by a Wait.
InPass == passing \/ \E i \in 1 .. Len(stack["App"]) - 1 : stack["App"][i].pc = "wait"

\* A call of the application on t that has read the task and not finished with it.
Window(t) == \E i \in DOMAIN stack["App"] :
  stack["App"][i].t = t
    /\ stack["App"][i].pc \in {"addRead", "addWrite", "setOutcome", "setTake", "setClear"}

Touch(c, t) == raced' = [raced EXCEPT ![t] = @ \/ (c = "Timer" /\ Window(t))]

-----------------------------------------------------------------------------
(* OnCompleted.                                                             *)

Call(c) == InUserCode(c) /\ calls < MaxCalls /\ calls' = calls + 1

CallOnCompleted(c, t, k) ==
  /\ Call(c)
  /\ phase[k] = "new"
  /\ Push(c, Frame("addCheck", t, k, <<>>, "completed"))
  /\ phase' = [phase EXCEPT ![k] = "adding"]
  /\ home' = [home EXCEPT ![k] = t]
  /\ UNCHANGED <<taskVars, tick, passing, raced>>

\* Mutant: the continuation is added to a task that is already completed.
AddUnchecked(c) ==
  /\ At(c, "addCheck")
  /\ Goto(c, "addRead")
  /\ UNCHANGED <<taskVars, tick, passing, calls, history>>

\* A completed task runs the continuation at once.
AddCheck(c) ==
  /\ At(c, "addCheck")
  /\ \/ /\ state[Top(c).t] = "pending"
        /\ Goto(c, "addRead")
        /\ UNCHANGED phase
     \/ /\ state[Top(c).t] # "pending"
        /\ Replace(c, [Top(c) EXCEPT !.pc = "run", !.seq = <<Top(c).k>>])
        /\ phase' = [phase EXCEPT ![Top(c).k] = "taken"]
  /\ UNCHANGED <<taskVars, tick, passing, calls, home, raced>>

\* _continuation += continuation reads the field ...
AddRead(c) ==
  /\ At(c, "addRead")
  /\ Replace(c, [Top(c) EXCEPT !.pc = "addWrite", !.seq = list[Top(c).t]])
  /\ UNCHANGED <<taskVars, tick, passing, calls, history>>

\* Mutant: the delegate is replaced instead of combined.
AddReplaces(c) ==
  /\ At(c, "addWrite")
  /\ list' = [list EXCEPT ![Top(c).t] = <<Top(c).k>>]
  /\ phase' = [phase EXCEPT ![Top(c).k] = "added"]
  /\ Pop(c)
  /\ Touch(c, Top(c).t)
  /\ UNCHANGED <<state, tick, passing, calls, home>>

\* ... and writes the combined delegate.
AddWrite(c) ==
  /\ At(c, "addWrite")
  /\ list' = [list EXCEPT ![Top(c).t] = Append(Top(c).seq, Top(c).k)]
  /\ phase' = [phase EXCEPT ![Top(c).k] = "added"]
  /\ Pop(c)
  /\ Touch(c, Top(c).t)
  /\ UNCHANGED <<state, tick, passing, calls, home>>

-----------------------------------------------------------------------------
(* TrySetResult, TrySetException and TrySetCanceled.                        *)

CallTrySet(c, t, out) ==
  /\ Call(c)
  /\ Push(c, Frame("setCheck", t, None, <<>>, out))
  /\ UNCHANGED <<taskVars, tick, passing, history>>

\* Only a pending task is completed.
SetCheck(c) ==
  /\ At(c, "setCheck")
  /\ IF state[Top(c).t] = "pending" THEN Goto(c, "setOutcome") ELSE Pop(c)
  /\ UNCHANGED <<taskVars, tick, passing, calls, history>>

SetOutcome(c) ==
  /\ At(c, "setOutcome")
  /\ state' = [state EXCEPT ![Top(c).t] = Top(c).out]
  /\ Goto(c, "setTake")
  /\ Touch(c, Top(c).t)
  /\ UNCHANGED <<list, tick, passing, calls, phase, home>>

SetTake(c) ==
  /\ At(c, "setTake")
  /\ Replace(c, [Top(c) EXCEPT !.pc = "setClear", !.seq = list[Top(c).t]])
  /\ UNCHANGED <<taskVars, tick, passing, calls, history>>

\* Mutant: the call returns without invoking the delegate.
RunSkipped(c) ==
  /\ At(c, "run") /\ Top(c).seq # <<>>
  /\ Pop(c)
  /\ UNCHANGED <<taskVars, tick, passing, calls, history>>

\* Mutant: the delegate that was taken stays in the task.
ClearForgotten(c) ==
  /\ At(c, "setClear")
  /\ Goto(c, "run")
  /\ phase' = [k \in Continuation |-> IF \E i \in DOMAIN Top(c).seq : Top(c).seq[i] = k
                                        THEN "taken" ELSE phase[k]]
  /\ UNCHANGED <<taskVars, tick, passing, calls, home, raced>>

SetClear(c) ==
  /\ At(c, "setClear")
  /\ list' = [list EXCEPT ![Top(c).t] = <<>>]
  /\ Goto(c, "run")
  /\ phase' = [k \in Continuation |-> IF k \in ToSet(Top(c).seq) THEN "taken" ELSE phase[k]]
  /\ UNCHANGED <<state, tick, passing, calls, home, raced>>

\* continuation() invokes the delegates one after the other, then the call returns.
RunNext(c) ==
  /\ At(c, "run") /\ Top(c).seq # <<>>
  /\ LET k    == Head(Top(c).seq)
         rest == [Top(c) EXCEPT !.seq = Tail(@)]
     IN  /\ stack' = [stack EXCEPT ![c] =
              Front(@) \o <<rest, Frame("body", None, k, <<>>, "completed")>>]
         /\ phase' = [phase EXCEPT ![k] = "ran"]
  /\ UNCHANGED <<taskVars, tick, passing, calls, home, raced>>

RunEnds(c) ==
  /\ At(c, "run") /\ Top(c).seq = <<>>
  /\ Pop(c)
  /\ UNCHANGED <<taskVars, tick, passing, calls, history>>

-----------------------------------------------------------------------------
(* User code.                                                               *)

\* Task.Wait spins in TaskScheduler.Wait, whose polls are user code again.
CallWait(c, t) ==
  /\ Call(c)
  /\ Push(c, Frame("wait", t, None, <<>>, "completed"))
  /\ UNCHANGED <<taskVars, tick, passing, history>>

WaitReturns(c) ==
  /\ At(c, "wait")
  /\ state[Top(c).t] = "completed"
  /\ Pop(c)
  /\ UNCHANGED <<taskVars, tick, passing, calls, history>>

BodyReturns(c) ==
  /\ At(c, "body")
  /\ Pop(c)
  /\ UNCHANGED <<taskVars, tick, passing, calls, history>>

\* An exception, of a body or of the Wait for a faulted or canceled task, leaves the
\* calls above the continuation that catches it, or all the calls of the application.
\* What those calls had still to run is dropped.  What an exception does that
\* leaves the tick is up to the compiled code and not modelled.
Throw(c) ==
  /\ \/ At(c, "body")
     \/ At(c, "wait") /\ state[Top(c).t] \in {"faulted", "canceled"}
  /\ \E n \in 0 .. Len(stack[c]) - 1 :
       /\ IF n = 0 THEN c = "App" ELSE stack[c][n].pc = "body"
       /\ stack' = [stack EXCEPT ![c] = SubSeq(@, 1, n)]
       /\ phase' = [k \in Continuation |->
            IF \E i \in n + 1 .. Len(stack[c]) : k \in ToSet(stack[c][i].seq)
              THEN "dropped" ELSE phase[k]]
  /\ UNCHANGED <<taskVars, tick, passing, calls, home, raced>>

BeginPass ==
  /\ ~tick /\ stack["App"] = <<>> /\ ~passing
  /\ passing' = TRUE
  /\ UNCHANGED <<taskVars, stack, tick, calls, history>>

EndPass ==
  /\ ~tick /\ stack["App"] = <<>> /\ passing
  /\ passing' = FALSE
  /\ UNCHANGED <<taskVars, stack, tick, calls, history>>

\* A tick inside a pass only sets s_yieldAgain; another one polls.
TimerTick ==
  /\ ~tick /\ ~InPass
  /\ tick' = TRUE
  /\ UNCHANGED <<taskVars, stack, passing, calls, history>>

TickEnds ==
  /\ tick /\ stack["Timer"] = <<>>
  /\ tick' = FALSE
  /\ UNCHANGED <<taskVars, stack, passing, calls, history>>

-----------------------------------------------------------------------------

Init ==
  /\ state = [t \in Task |-> "pending"]
  /\ list = [t \in Task |-> <<>>]
  /\ stack = [c \in Context |-> <<>>]
  /\ tick = FALSE /\ passing = FALSE
  /\ calls = 0
  /\ phase = [k \in Continuation |-> "new"]
  /\ home = [k \in Continuation |-> None]
  /\ raced = [t \in Task |-> FALSE]

Statement(c) ==
  \/ AddCheck(c) \/ AddRead(c) \/ AddWrite(c)
  \/ SetCheck(c) \/ SetOutcome(c) \/ SetTake(c) \/ SetClear(c)
  \/ RunNext(c) \/ RunEnds(c)

UserStep(c) ==
  \/ \E t \in Task :
       \/ \E k \in Continuation : CallOnCompleted(c, t, k)
       \/ \E out \in Outcome : CallTrySet(c, t, out)
       \/ CallWait(c, t)
  \/ Throw(c)

Return(c) == BodyReturns(c) \/ WaitReturns(c)

Next ==
  \/ \E c \in Context : Statement(c) \/ UserStep(c) \/ Return(c)
  \/ BeginPass \/ EndPass \/ TimerTick \/ TickEnds

Spec == Init /\ [][Next]_vars

\* The CPU executes: ticks run to their end, the application gets on between them,
\* and user code returns once it has nothing more to call.
Fairness ==
  /\ WF_vars(Statement("Timer") \/ Return("Timer"))
  /\ WF_vars(TickEnds)
  /\ SF_vars(Statement("App") \/ Return("App"))

FairSpec == Spec /\ Fairness

-----------------------------------------------------------------------------
(* Properties.                                                              *)

\* Every variable has its type.
TypeOK ==
  /\ state \in [Task -> {"pending"} \cup Outcome]
  /\ list \in [Task -> Seq(Continuation)]
  /\ stack \in [Context -> Seq(Activation)]
  /\ tick \in BOOLEAN /\ passing \in BOOLEAN
  /\ calls \in Nat
  /\ phase \in [Continuation -> Phase]
  /\ home \in [Continuation -> Task \cup {None}]
  /\ raced \in [Task -> BOOLEAN]

\* Some call is about to run k.
Scheduled(k) == \E c \in Context : \E i \in DOMAIN stack[c] :
  stack[c][i].pc = "run" /\ k \in ToSet(stack[c][i].seq)

\* Some call completes t and has not taken its continuations yet.
Completing(t) == \E c \in Context : \E i \in DOMAIN stack[c] :
  stack[c][i].t = t /\ stack[c][i].pc \in {"setTake", "setClear"}

\* The task has k, or the call that completes it is about to take it.
Kept(k) ==
  /\ k \in ToSet(list[home[k]])
  /\ state[home[k]] = "pending" \/ Completing(home[k])

\* No await is forgotten: a continuation that was added is with its pending task, or
\* with the call that completes it, unless a tick changed the task inside a call of the
\* application (OnCompleted checks the state and combines the delegates in two
\* unprotected steps, CoreLib.cs:3183-3186); once taken it is about to run.
NotForgotten ==
  \A k \in Continuation :
    /\ phase[k] = "added" /\ ~raced[home[k]] => Kept(k)
    /\ phase[k] = "taken" => Scheduled(k)

\* Every variable has its type and no await is forgotten.
Sound == TypeOK /\ NotForgotten

\* An await resumes at most once, even on a task that the application and a tick
\* complete at the same time: the delegate is taken before it is invoked.
ResumesOnce ==
  [][\A k \in Continuation :
       phase[k] \in {"ran", "dropped"} => phase'[k] = phase[k]]_vars

\* Nothing is left behind: while no Wait blocks for ever, a continuation that was taken
\* runs or is dropped by an exception.
Waiting == \E c \in Context : \E i \in DOMAIN stack[c] : stack[c][i].pc = "wait"

TakenRuns ==
  \A k \in Continuation :
    []<>~Waiting => (phase[k] = "taken" ~> phase[k] \in {"ran", "dropped"})

-----------------------------------------------------------------------------
(* A task keeps the promise, up to the first race on it.                    *)

\* What the promise says of k; a continuation that no call will ever run is "lost".
Fate(k) ==
  CASE phase[k] \in {"new", "adding"} -> "none"
    [] phase[k] \notin {"new", "adding"} /\ raced[home[k]] -> "spoiled"
    [] phase[k] = "added" /\ ~raced[home[k]] ->
         IF ~Kept(k) THEN "lost" ELSE IF state[home[k]] = "pending" THEN "waiting" ELSE "due"
    [] phase[k] = "taken" /\ ~raced[home[k]] -> IF Scheduled(k) THEN "due" ELSE "lost"
    [] phase[k] \in {"ran", "dropped"} /\ ~raced[home[k]] -> phase[k]

\* The task as its awaiters see it.
Abstract == INSTANCE Promise WITH
  outcome <- [t \in Task |-> IF raced[t] THEN "spoiled" ELSE state[t]],
  of      <- [k \in Continuation |-> IF phase[k] \in {"new", "adding"} THEN None ELSE home[k]],
  fate    <- [k \in Continuation |-> Fate(k)]

\* Every step of the statements above is a step of the promise: a continuation waits
\* exactly until its task has an outcome, and is then run once or dropped by an exception.
\* The first TrySet decides: an outcome never changes, up to the first race.
KeepsPromise == Abstract!Spec

=============================================================================
