------------------------------- MODULE MCTasks ------------------------------
(***************************************************************************)
(* Tasks, for TLC: tasks with their continuations, and the combinators.    *)
(* They share nothing here.                                                *)
(***************************************************************************)
EXTENDS TaskCompletion

CONSTANT N   \* of Combinators

VARIABLES
  which,         \* the component at work, see MCInit
  kind, input, next, found, attached, remaining, failures, canceled, results, completed, combState,
  result, cont, combTick, combRaced, first   \* Combinators

CVars == <<kind, input, next, found, attached, remaining, failures, canceled, results, completed, combState,
  result, cont, combTick, combRaced, first>>
MCVars == <<which, vars, CVars>>

C == INSTANCE Combinators WITH
  state <- combState, tick <- combTick, raced <- combRaced

\* One of them is at work; the others stay as they begin.
TOnly == which = "task" /\ UNCHANGED <<which, CVars>>
COnly == which = "combinator" /\ UNCHANGED <<which, vars>>

MCInit ==
  /\ which \in {"task", "combinator"}
  /\ Init
  /\ C!Init /\ (which # "combinator" => kind = "all")

MCNext ==
  \/ TOnly /\ Next
  \/ COnly /\ C!Next

MCSpec == MCInit /\ [][MCNext]_MCVars

\* The fairness of each: the CPU executes, the application gets on between ticks.
MCFairness ==
  /\ WF_MCVars((TOnly /\ (Statement("Timer") \/ Return("Timer"))) \/ (COnly /\ C!Statement("Timer")))
  /\ WF_MCVars((TOnly /\ TickEnds) \/ (COnly /\ C!TickEnds))
  /\ SF_MCVars(\/ TOnly /\ (Statement("App") \/ Return("App"))
               \/ COnly /\ (C!Statement("App") \/ C!Attach \/ C!Add))

MCFairSpec == MCSpec /\ MCFairness

-----------------------------------------------------------------------------
ASSUME ListAssumption == C!NAssumption

\* WhenAll's count is exact, its verdict is the one of all its tasks, and WhenAny's winner stays
\* (Combinators).
Verdict == C!Sound /\ C!AllVerdict /\ C!WinnerStays

\* A continuation that was taken runs, and the combinators decide.
Ends == TakenRuns /\ C!Decides

=============================================================================
