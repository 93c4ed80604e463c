------------------------------- MODULE Promise -------------------------------
(***************************************************************************)
(* What a task promises its awaiters: one outcome, settled at most once;   *)
(* a continuation waits until the task has its outcome, then it is due,    *)
(* and it runs once, or is dropped by an exception.  A task may be         *)
(* spoiled, after which nothing is promised of it or of its continuations. *)
(***************************************************************************)
CONSTANTS Task, Continuation, None, Outcome

VARIABLES
  outcome,  \* of a task: "pending", its outcome, or "spoiled"
  of,       \* the task a continuation was added to
  fate      \* of a continuation: "none", "waiting", "due", "ran", "dropped", "spoiled"

vars == <<outcome, of, fate>>

Init ==
  /\ outcome = [t \in Task |-> "pending"]
  /\ of = [k \in Continuation |-> None]
  /\ fate = [k \in Continuation |-> "none"]

Subscribe(k, t) ==
  /\ fate[k] = "none"
  /\ of' = [of EXCEPT ![k] = t]
  /\ fate' = [fate EXCEPT ![k] = CASE outcome[t] = "pending" -> "waiting"
                                   [] outcome[t] = "spoiled" -> "spoiled"
                                   [] OTHER                  -> "due"]
  /\ UNCHANGED outcome

Settle(t, out) ==
  /\ outcome[t] = "pending"
  /\ outcome' = [outcome EXCEPT ![t] = out]
  /\ fate' = [k \in Continuation |->
                IF of[k] = t /\ fate[k] = "waiting" THEN "due" ELSE fate[k]]
  /\ UNCHANGED of

Run(k) ==
  /\ fate[k] = "due"
  /\ fate' = [fate EXCEPT ![k] = "ran"]
  /\ UNCHANGED <<outcome, of>>

Drop(K) ==
  /\ \A k \in K : fate[k] = "due"
  /\ fate' = [k \in Continuation |-> IF k \in K THEN "dropped" ELSE fate[k]]
  /\ UNCHANGED <<outcome, of>>

\* The step that spoils t may be the one that adds a continuation to it.
Spoil(t) ==
  /\ outcome' = [outcome EXCEPT ![t] = "spoiled"]
  /\ \E K \in SUBSET {k \in Continuation : fate[k] = "none"} :
       /\ of' = [k \in Continuation |-> IF k \in K THEN t ELSE of[k]]
       /\ fate' = [k \in Continuation |-> IF of'[k] = t THEN "spoiled" ELSE fate[k]]

Next ==
  \/ \E t \in Task :
       \/ \E k \in Continuation : Subscribe(k, t)
       \/ \E out \in Outcome : Settle(t, out)
       \/ Spoil(t)
  \/ \E k \in Continuation : Run(k)
  \/ \E K \in SUBSET Continuation : Drop(K)

Spec == Init /\ [][Next]_vars

=============================================================================
