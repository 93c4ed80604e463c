------------------------------- MODULE Handlers -------------------------------
(***************************************************************************)
(* How code of BootTo.NET that keeps one operation of a kind in flight is  *)
(* executed: what sockets, file streams and the like have in common.       *)
(*                                                                         *)
(* Two contexts of one CPU run such a component: the application ("App")   *)
(* and the tick of the scheduler timer ("Timer"), which preempts the       *)
(* application, unless that is inside a pass of polls, and runs to its     *)
(* end.  A handler is a list of labels, one for each stretch between two   *)
(* points where other code may get in: a tick, or the continuations of the *)
(* task that the stretch completes (label "user"), which may call every    *)
(* method and, through Task.Wait, poll.                                    *)
(***************************************************************************)
EXTENDS Integers, Sequences, FiniteSets, SequencesExt

CONSTANT MaxCalls     \* bound: operations started on the component

ASSUME CallAssumption == MaxCalls \in Nat

Context == {"App", "Timer"}
Op      == 1 .. MaxCalls

VARIABLES
  this,      \* the fields of the component and what the firmware has of it, a record
  todo,      \* the labels each context still has to execute, the next one first
  done,      \* of the task of every operation: "none" (not begun), "pending", "done"
  calls,     \* operations started
  tick       \* the timer notification is on the CPU

codeVars == <<this, todo, done, calls, tick>>

\* A label: the stretch, its parameter, the operation or attempt it belongs to.
L(at, x, op) == [at |-> at, x |-> x, op |-> op]
Do(at)       == L(at, "none", 0)

OnCpu(c) == tick = (c = "Timer")

At(c, at) == OnCpu(c) /\ todo[c] # <<>> /\ Head(todo[c]).at = at

\* The application, a continuation, or some poll of the tick.
InUserCode(c) == OnCpu(c) /\ (todo[c] # <<>> => Head(todo[c]).at = "user")

\* Code that lets the scheduler poll: also code inside Task.Wait (label "await").
Yields(c) == InUserCode(c) \/ At(c, "await")

InPass == \E i \in DOMAIN todo["App"] : todo["App"][i].at = "passEnd"

\* The application is inside a handler, which has neither called user code nor waits.
InCall == todo["App"] # <<>> /\ Head(todo["App"]).at \notin {"user", "await"}

\* The component belongs to one flow of control: a tick that preempts a call of the
\* application polls it and runs its continuations, but these do not call it.
CanCall(c) == InUserCode(c) /\ calls < MaxCalls /\ (c = "Timer" => ~InCall)

New == calls + 1

Labels == UNION {ToSet(todo[c]) : c \in Context}

-----------------------------------------------------------------------------

\* The next label of c is done: the component becomes s, and ls comes next.
Proceed(c, s, ls) ==
  /\ this' = s
  /\ todo' = [todo EXCEPT ![c] = ls \o Tail(@)]
  /\ UNCHANGED <<done, calls, tick>>

Finished(ops) == [o \in Op |-> IF o \in ops THEN "done" ELSE done[o]]

\* The continuations of the tasks of ops, if there are any.
Continuations(ops) == IF ops = {} THEN <<>> ELSE <<Do("user")>>

\* The same as Proceed, after which the tasks of ops complete and their continuations run.
Settle(c, s, ops, ls) ==
  /\ this' = s
  /\ done' = Finished(ops)
  /\ todo' = [todo EXCEPT ![c] = Continuations(ops) \o ls \o Tail(@)]
  /\ UNCHANGED <<calls, tick>>

\* User code calls: the operation is numbered, the component becomes s, ls comes next.
Start(c, s, ls) ==
  /\ this' = s
  /\ calls' = calls + 1
  /\ todo' = [todo EXCEPT ![c] = ls \o @]
  /\ UNCHANGED tick

Pend(op) == done' = [done EXCEPT ![op] = "pending"]

\* A call that ends at once, with a result or an exception.
Return(c, s) == Start(c, s, <<>>) /\ done' = [done EXCEPT ![New] = "done"]

\* A pass of the scheduler reaches the component, whose poll executes ls.
Pass(c, s, ls) ==
  /\ Yields(c)
  /\ this' = s
  /\ todo' = [todo EXCEPT ![c] = ls \o <<Do("passEnd")>> \o @]
  /\ UNCHANGED <<done, calls, tick>>

PassEnds(c) == At(c, "passEnd") /\ Proceed(c, this, <<>>)

\* Task.Wait for the operation returns.
Awaited(c) ==
  /\ At(c, "await") /\ done[Head(todo[c]).op] = "done"
  /\ Proceed(c, this, <<>>)

UserReturns(c) == At(c, "user") /\ Proceed(c, this, <<>>)

\* Something outside of the CPU changes the component.
Outside(s) == this' = s /\ UNCHANGED <<todo, done, calls, tick>>

\* A tick inside a pass only sets s_yieldAgain; another one polls.
TimerTick ==
  /\ ~tick /\ ~InPass
  /\ tick' = TRUE
  /\ UNCHANGED <<this, todo, done, calls>>

TickEnds ==
  /\ tick /\ todo["Timer"] = <<>>
  /\ tick' = FALSE
  /\ UNCHANGED <<this, todo, done, calls>>

HandlersInit ==
  /\ todo = [c \in Context |-> <<>>]
  /\ done = [o \in Op |-> "none"]
  /\ calls = 0 /\ tick = FALSE

\* The labels are of the given stretches and parameters.
HandlersTypeOK(stretches, params) ==
  /\ todo \in [Context -> Seq([at : stretches \cup {"user", "passEnd"},
                               x : params \cup {"none"}, op : Nat])]
  /\ done \in [Op -> {"none", "pending", "done"}]
  /\ calls \in 0 .. MaxCalls /\ tick \in BOOLEAN

=============================================================================
