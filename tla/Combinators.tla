----------------------------- MODULE Combinators -----------------------------
(***************************************************************************)
(* Task.WhenAll and Task.WhenAny of BootTo.NET (Task.Combinators.cs) over  *)
(* one list of tasks.  The combinator adds a continuation to every task of *)
(* the list, in a loop; a task may be completed while the loop runs, by    *)
(* the application ("App"), which runs the loop, or by the tick of the     *)
(* scheduler timer ("Timer"), which preempts the application between any   *)
(* two statements, also inside a continuation.  System.Threading.          *)
(* Interlocked is a plain read and a plain write on this system, so its    *)
(* methods are two statements.  A single TrySet is modelled down to its    *)
(* statements in TaskCompletion; here only the result it stores, which a   *)
(* generic task overwrites before it looks at its state, is kept apart.    *)
(***************************************************************************)
EXTENDS Integers, FiniteSets

CONSTANT N        \* tasks in the list

NAssumption == N \in Nat \ {0}

Context == {"App", "Timer"}
Index   == 1 .. N
Outcome == {"completed", "faulted", "canceled"}

VARIABLES
  kind,       \* the combinator: "all" or "any"
  input,      \* the state of each task of the list
  next,       \* the loop of the combinator: the next task it awaits
  found,      \* the loop has found that task pending and is about to add the continuation
  attached,   \* the tasks whose continuation is registered and has not been taken
  remaining,  \* WhenAll: continuations that have not finished
  failures,   \* WhenAll: the indices stored in exceptions
  canceled,   \* WhenAll: some task was canceled
  results,    \* WhenAll: the indices stored in results
  completed,  \* WhenAny: some task has won
  state,      \* the state of the combinator's task
  result,     \* the result of the combinator's task: WhenAny's winner
  cont,       \* the continuation each context is inside
  tick,       \* the timer notification is on the CPU
  raced,      \* history: a tick ran a continuation inside one of the application
  first       \* history: the result when the combinator's task was completed

taskVars == <<input, next, found, attached>>
allVars  == <<remaining, failures, canceled, results>>
outVars  == <<state, result, first>>
vars == <<kind, taskVars, allVars, completed, outVars, cont, tick, raced>>

Pc == {"none", "note", "read", "write", "finish", "check", "set"}

\* A continuation: the task it belongs to, the statement, the value it has read.
Turn == [i : 0 .. N, pc : Pc, seen : 0 .. N]

Idle == [i |-> 0, pc |-> "none", seen |-> 0]

OnCpu(c) == tick = (c = "Timer")

At(c, pc) == OnCpu(c) /\ cont[c].pc = pc

Goto(c, pc) == cont' = [cont EXCEPT ![c].pc = pc]

Leave(c) == cont' = [cont EXCEPT ![c] = Idle]

\* WhenAny's continuation starts with the exchange.
Enter(c, i) ==
  /\ cont' = [cont EXCEPT ![c] =
       [i |-> i, pc |-> IF kind = "all" THEN "note" ELSE "read", seen |-> 0]]
  /\ raced' = (raced \/ (c = "Timer" /\ cont["App"].pc # "none"))

-----------------------------------------------------------------------------

\* The loop looks at the next task: a task that is done runs its continuation at once.
Attach ==
  /\ OnCpu("App") /\ cont["App"].pc = "none" /\ next <= N /\ ~found
  /\ IF input[next] = "pending"
       THEN found' = TRUE /\ UNCHANGED <<next, cont, raced>>
       ELSE next' = next + 1 /\ Enter("App", next) /\ UNCHANGED found
  /\ UNCHANGED <<kind, input, attached, allVars, completed, outVars, tick>>

\* It adds the continuation to the task it has found pending, whatever a tick made of it since.
Add ==
  /\ OnCpu("App") /\ found
  /\ found' = FALSE /\ next' = next + 1
  /\ attached' = attached \cup {next}
  /\ UNCHANGED <<kind, input, allVars, completed, outVars, cont, tick, raced>>

\* Somebody completes a task of the list: a tick, or the application before or after its loop.
Settle(c, i, out) ==
  /\ OnCpu(c) /\ cont[c].pc = "none"
  /\ c = "App" => ~found /\ next \in {1, N + 1}
  /\ input[i] = "pending"
  /\ input' = [input EXCEPT ![i] = out]
  /\ attached' = attached \ {i}
  /\ IF i \in attached THEN Enter(c, i) ELSE UNCHANGED <<cont, raced>>
  /\ UNCHANGED <<kind, next, found, allVars, completed, outVars, tick>>

\* Mutant: a canceled task is taken for a completed one.
NoteForgetsCanceled(c) ==
  /\ At(c, "note")
  /\ LET i == cont[c].i
     IN  /\ failures' = IF input[i] = "faulted" THEN failures \cup {i} ELSE failures
         /\ results' = IF input[i] # "faulted" THEN results \cup {i} ELSE results
  /\ Goto(c, "read")
  /\ UNCHANGED <<kind, taskVars, remaining, canceled, completed, outVars, tick, raced>>

\* WhenAll: the continuation stores what became of its task.
Note(c) ==
  /\ At(c, "note")
  /\ LET i == cont[c].i
     IN  /\ failures' = IF input[i] = "faulted" THEN failures \cup {i} ELSE failures
         /\ canceled' = (canceled \/ input[i] = "canceled")
         /\ results' = IF input[i] = "completed" THEN results \cup {i} ELSE results
  /\ Goto(c, "read")
  /\ UNCHANGED <<kind, taskVars, remaining, completed, outVars, tick, raced>>

\* Interlocked.Decrement(ref remaining), CompareExchange(ref completed, 1, 0): the read.
Read(c) ==
  /\ At(c, "read")
  /\ cont' = [cont EXCEPT ![c].pc = "write",
                ![c].seen = IF kind = "all" THEN remaining ELSE completed]
  /\ UNCHANGED <<kind, taskVars, allVars, completed, outVars, tick, raced>>

\* The write, and the test of the value it returns.
Write(c) ==
  /\ At(c, "write")
  /\ \/ /\ kind = "all"
        /\ remaining' = cont[c].seen - 1
        /\ IF cont[c].seen = 1 THEN Goto(c, "finish") ELSE Leave(c)
        /\ UNCHANGED completed
     \/ /\ kind = "any"
        /\ completed' = 1
        /\ IF cont[c].seen = 0 THEN Goto(c, "finish") ELSE Leave(c)
        /\ UNCHANGED remaining
  /\ UNCHANGED <<kind, taskVars, failures, canceled, results, outVars, tick, raced>>

\* What CompleteWhenAll makes of the lists.
Verdict == IF failures # {} THEN "faulted" ELSE IF canceled THEN "canceled" ELSE "completed"

\* Task<TResult>.TrySetResult stores the result before it looks at the state.
Finish(c) ==
  /\ At(c, "finish")
  /\ result' = IF kind = "any" THEN cont[c].i ELSE result
  /\ Goto(c, "check")
  /\ UNCHANGED <<kind, taskVars, allVars, completed, state, first, tick, raced>>

Check(c) ==
  /\ At(c, "check")
  /\ IF state = "pending" THEN Goto(c, "set") ELSE Leave(c)
  /\ UNCHANGED <<kind, taskVars, allVars, completed, outVars, tick, raced>>

Complete(c) ==
  /\ At(c, "set")
  /\ state' = IF kind = "all" THEN Verdict ELSE "completed"
  /\ first' = IF state = "pending" THEN result ELSE first
  /\ Leave(c)
  /\ UNCHANGED <<kind, taskVars, allVars, completed, result, tick, raced>>

TimerTick ==
  /\ ~tick
  /\ tick' = TRUE
  /\ UNCHANGED <<kind, taskVars, allVars, completed, outVars, cont, raced>>

TickEnds ==
  /\ tick /\ cont["Timer"].pc = "none"
  /\ tick' = FALSE
  /\ UNCHANGED <<kind, taskVars, allVars, completed, outVars, cont, raced>>

-----------------------------------------------------------------------------

Init ==
  /\ kind \in {"all", "any"}
  /\ input = [i \in Index |-> "pending"]
  /\ next = 1 /\ found = FALSE /\ attached = {}
  /\ remaining = N /\ failures = {} /\ canceled = FALSE /\ results = {}
  /\ completed = 0
  /\ state = "pending" /\ result = 0 /\ first = 0
  /\ cont = [c \in Context |-> Idle]
  /\ tick = FALSE /\ raced = FALSE

Statement(c) ==
  Note(c) \/ Read(c) \/ Write(c) \/ Finish(c) \/ Check(c) \/ Complete(c)

Next ==
  \/ Attach \/ Add
  \/ \E c \in Context :
       Statement(c) \/ \E i \in Index, out \in Outcome : Settle(c, i, out)
  \/ TimerTick \/ TickEnds

Spec == Init /\ [][Next]_vars

\* The CPU executes: a tick runs to its end, the application gets on between ticks.
Fairness ==
  /\ WF_vars(Statement("Timer")) /\ WF_vars(TickEnds)
  /\ SF_vars(Statement("App") \/ Attach \/ Add)

FairSpec == Spec /\ Fairness

-----------------------------------------------------------------------------
(* Properties.                                                              *)

\* Every variable has its type.
TypeOK ==
  /\ kind \in {"all", "any"}
  /\ input \in [Index -> {"pending"} \cup Outcome]
  /\ next \in 1 .. N + 1 /\ attached \subseteq Index
  /\ found \in BOOLEAN /\ (found => next \in Index)
  /\ remaining \in 0 .. N /\ completed \in 0 .. 1 /\ canceled \in BOOLEAN
  /\ failures \subseteq Index /\ results \subseteq Index
  /\ state \in {"pending"} \cup Outcome
  /\ result \in 0 .. N /\ first \in 0 .. N
  /\ cont \in [Context -> Turn]
  /\ tick \in BOOLEAN /\ raced \in BOOLEAN

\* The tasks whose continuation has not counted down yet.
Outstanding == attached \cup next .. N \cup
  {cont[c].i : c \in {d \in Context : cont[d].pc \in {"note", "read", "write"}}}

\* WhenAll counts exactly the continuations that have not finished, unless a tick ran one
\* inside another: then a decrement is lost and WhenAll never completes.
CountIsExact == kind = "all" /\ ~raced => remaining = Cardinality(Outstanding)

\* The verdict of WhenAll is the one of all the tasks: a fault wins over a cancellation,
\* and nothing is decided before every task is done.
AllVerdict ==
  kind = "all" /\ state # "pending" =>
    /\ \A i \in Index : input[i] # "pending"
    /\ state = IF \E i \in Index : input[i] = "faulted" THEN "faulted"
               ELSE IF \E i \in Index : input[i] = "canceled" THEN "canceled"
               ELSE "completed"
    /\ state = "completed" => results = Index

\* WhenAny's winner is a task that is done.
WinnerIsDone == result # 0 => input[result] # "pending"

\* Every variable has its type, the count is exact and the winner is done.
Sound == TypeOK /\ CountIsExact /\ WinnerIsDone

\* The winner WhenAny has reported stays the winner, unless a tick ran a continuation inside
\* another: both then pass the exchange and the second overwrites the result.
WinnerStays == kind = "any" /\ state # "pending" /\ ~raced => result = first

\* The tasks that a tick completed between the test and the addition of the continuation: it
\* was added to a task that is done, and is never taken.
Missed == {i \in attached : input[i] # "pending"}

\* WhenAll completes when all the tasks have, unless a decrement was lost or a continuation was
\* missed, and WhenAny when a task has whose continuation was not missed.
Decided ==
  /\ kind = "all" /\ (\A i \in Index : input[i] # "pending") =>
       state # "pending" \/ raced \/ Missed # {}
  /\ kind = "any" /\ (\E i \in Index \ Missed : input[i] # "pending") => state # "pending"
Decides == []<>Decided

=============================================================================
