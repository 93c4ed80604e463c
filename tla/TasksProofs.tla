----------------------------- MODULE TasksProofs ----------------------------
(***************************************************************************)
(* Tasks, for every number of tasks, continuations and calls: no await is  *)
(* forgotten unless a tick raced a call of the application, none resumes   *)
(* twice even then, and a task keeps the promise up to the first race.     *)
(* Then the combinators (C!), for every length of their list.              *)
(***************************************************************************)
EXTENDS MCTasks, SequenceTheorems, FiniteSetTheorems, TLAPS

-----------------------------------------------------------------------------
(* The inductive invariant.                                                 *)

Adding  == {"addCheck", "addRead", "addWrite"}
Setting == {"setOutcome", "setTake", "setClear"}
Taking  == {"setTake", "setClear"}
Calling == {"run", "body", "wait"}   \* user code may run on top of it

\* No delegate is in s twice; every one is in phase p.
Once(s) == \A i, j \in 1 .. Len(s) : s[i] = s[j] => i = j
InPhase(s, p) == \A i \in 1 .. Len(s) : phase[s[i]] = p

\* The delegates of s were added to t.
AddedTo(s, t) == \A i \in 1 .. Len(s) : phase[s[i]] = "added" /\ home[s[i]] = t

\* What a call knows of its own.
FrameOK(c, i) ==
  LET a == stack[c][i]
  IN  /\ a.pc # "body" => a.t \in Task
      /\ i # Len(stack[c]) => a.pc \in Calling
      /\ a.pc \in Adding => a.k \in Continuation /\ phase[a.k] = "adding" /\ home[a.k] = a.t
      /\ a.pc \notin {"addWrite", "setClear", "run"} => a.seq = <<>>
      /\ a.pc = "run" => InPhase(a.seq, "taken") /\ Once(a.seq)
      /\ a.pc = "setClear" \/ (a.pc = "addWrite" /\ state[a.t] = "pending") =>
           AddedTo(a.seq, a.t) /\ Once(a.seq)

Frames == \A c \in Context : \A i \in 1 .. Len(stack[c]) : FrameOK(c, i)

\* A delegate is about to be run by one call only.
InRun(c, i, k) ==
  stack[c][i].pc = "run" /\ \E m \in 1 .. Len(stack[c][i].seq) : stack[c][i].seq[m] = k
RunOnce ==
  \A k \in Continuation : \A c, d \in Context :
    \A i \in 1 .. Len(stack[c]), j \in 1 .. Len(stack[d]) :
      InRun(c, i, k) /\ InRun(d, j, k) => c = d /\ i = j

\* The two contexts do not add the same delegate.
AddOnce ==
  \A c, d \in Context :
    /\ stack[c] # <<>> /\ stack[d] # <<>>
    /\ Top(c).pc \in Adding /\ Top(d).pc \in Adding
    /\ Top(c).k = Top(d).k
    => c = d

\* The list of a task that is pending, or about to be taken, has what was added to it.
Taker(t) ==
  \E c \in Context : stack[c] # <<>> /\ Top(c).t = t /\ Top(c).pc \in {"setOutcome", "setTake"}
Lists ==
  \A t \in Task : state[t] = "pending" \/ Taker(t) => AddedTo(list[t], t) /\ Once(list[t])

\* What a call has read of its task still holds, unless a tick changed the task.
StatementOK(c) ==
  stack[c] # <<>> =>
    LET a == Top(c)
        spoilt == c = "App" /\ raced[a.t]
    IN  /\ a.pc \in {"addRead", "addWrite", "setOutcome"} => state[a.t] = "pending" \/ spoilt
        /\ a.pc = "addWrite" => a.seq = list[a.t] \/ spoilt
        /\ a.pc \in Taking => state[a.t] # "pending"
        /\ a.pc = "setClear" => a.seq = list[a.t]
Statements == \A c \in Context : StatementOK(c)

\* A tick that completes the task of a call of the application has spoilt it.
Crossing ==
  /\ stack["App"] # <<>> /\ stack["Timer"] # <<>>
  /\ Top("App").t = Top("Timer").t /\ Top("Timer").pc \in Taking
  => /\ Top("App").pc \notin Taking
     /\ Top("App").pc \in {"addRead", "addWrite", "setOutcome"} => raced[Top("App").t]

\* A continuation that some call was made for has a task.
Homes == \A k \in Continuation : phase[k] # "new" => home[k] \in Task

TickInv == ~tick => stack["Timer"] = <<>>

IInv ==
  /\ TypeOK /\ NotForgotten /\ Frames /\ RunOnce /\ AddOnce /\ Lists /\ Statements
  /\ Crossing /\ Homes /\ TickInv

-----------------------------------------------------------------------------
(* What the operators on the stack do.                                      *)

\* The stacks are sequences of calls.
LEMMA StackType ==
  ASSUME TypeOK, NEW c \in Context
  PROVE  /\ stack[c] \in Seq(Activation)
         /\ Len(stack[c]) \in Nat
         /\ (stack[c] # <<>>) = (Len(stack[c]) > 0)
         /\ \A i \in 1 .. Len(stack[c]) : stack[c][i] \in Activation
<1>1. stack[c] \in Seq(Activation)
  BY DEF TypeOK
<1> QED  BY <1>1, EmptySeq, LenProperties, ElementOfSeq

\* A call is pushed.
LEMMA PushFacts ==
  ASSUME TypeOK, NEW c \in Context, NEW a \in Activation, Push(c, a)
  PROVE  /\ stack' \in [Context -> Seq(Activation)]
         /\ \A d \in Context : d # c => stack'[d] = stack[d]
         /\ Len(stack'[c]) = Len(stack[c]) + 1
         /\ \A i \in 1 .. Len(stack[c]) : stack'[c][i] = stack[c][i]
         /\ stack'[c][Len(stack[c]) + 1] = a
<1>1. stack[c] \in Seq(Activation) /\ stack' = [stack EXCEPT ![c] = Append(@, a)]
  BY StackType DEF Push
<1>2. stack'[c] = Append(stack[c], a) /\ Append(stack[c], a) \in Seq(Activation)
  BY <1>1, AppendProperties DEF TypeOK
<1> QED  BY <1>1, <1>2, AppendProperties DEF TypeOK

\* The front of a sequence that is not empty.
LEMMA FrontFacts ==
  ASSUME NEW S, NEW s \in Seq(S), s # <<>>
  PROVE  /\ Front(s) \in Seq(S)
         /\ Len(Front(s)) = Len(s) - 1
         /\ \A i \in 1 .. Len(s) - 1 : Front(s)[i] = s[i]
<1>1. Len(s) \in Nat \ {0} /\ \A i \in 1 .. Len(s) - 1 : s[i] \in S
  BY EmptySeq, ElementOfSeq
<1>2. /\ SubSeq(s, 1, Len(s) - 1) \in Seq(S)
      /\ Len(SubSeq(s, 1, Len(s) - 1)) =
           IF 1 <= Len(s) - 1 THEN (Len(s) - 1) - 1 + 1 ELSE 0
      /\ \A i \in 1 .. (Len(s) - 1) - 1 + 1 : SubSeq(s, 1, Len(s) - 1)[i] = s[1 + i - 1]
  BY <1>1, SubSeqProperties
<1>3. Front(s) = SubSeq(s, 1, Len(s) - 1)
  BY DEF Front
<1>4. \A i \in 1 .. Len(s) - 1 : i \in 1 .. (Len(s) - 1) - 1 + 1 /\ 1 + i - 1 = i
  BY <1>1
<1>5. \A i \in 1 .. Len(s) - 1 : Front(s)[i] = s[i]
  BY <1>2, <1>3, <1>4
<1>6. Front(s) \in Seq(S)
  BY <1>2, <1>3
<1>7. Len(Front(s)) = IF 1 <= Len(s) - 1 THEN (Len(s) - 1) - 1 + 1 ELSE 0
  BY <1>2, <1>3
<1>8. \A n \in Nat \ {0} : (IF 1 <= n - 1 THEN (n - 1) - 1 + 1 ELSE 0) = n - 1
  OBVIOUS
<1>9. Len(Front(s)) = Len(s) - 1
  BY <1>1, <1>7, <1>8, Zenon
<1> QED  BY <1>5, <1>6, <1>9

\* The innermost call becomes another one.
LEMMA ReplaceFacts ==
  ASSUME TypeOK, NEW c \in Context, NEW a \in Activation, stack[c] # <<>>, Replace(c, a)
  PROVE  /\ stack' \in [Context -> Seq(Activation)]
         /\ \A d \in Context : d # c => stack'[d] = stack[d]
         /\ Len(stack'[c]) = Len(stack[c])
         /\ \A i \in 1 .. Len(stack[c]) : i # Len(stack[c]) => stack'[c][i] = stack[c][i]
         /\ stack'[c][Len(stack[c])] = a
<1>1. stack[c] \in Seq(Activation) /\ stack' = [stack EXCEPT ![c] = Append(Front(@), a)]
  BY StackType DEF Replace
<1>2. /\ Front(stack[c]) \in Seq(Activation)
      /\ Len(Front(stack[c])) = Len(stack[c]) - 1
      /\ \A i \in 1 .. Len(stack[c]) - 1 : Front(stack[c])[i] = stack[c][i]
  BY <1>1, FrontFacts
<1>3. stack'[c] = Append(Front(stack[c]), a) /\ Len(stack[c]) \in Nat /\ Len(stack[c]) > 0
  BY <1>1, StackType DEF TypeOK
<1>4. stack' \in [Context -> Seq(Activation)]
  BY <1>1, <1>2, AppendProperties DEF TypeOK
<1>5. /\ Len(stack'[c]) = Len(Front(stack[c])) + 1
      /\ \A i \in 1 .. Len(Front(stack[c])) : stack'[c][i] = Front(stack[c])[i]
      /\ stack'[c][Len(Front(stack[c])) + 1] = a
  BY <1>2, <1>3, AppendProperties
<1> QED  BY <1>1, <1>2, <1>3, <1>4, <1>5 DEF TypeOK

\* The innermost call returns.
LEMMA PopFacts ==
  ASSUME TypeOK, NEW c \in Context, stack[c] # <<>>, Pop(c)
  PROVE  /\ stack' \in [Context -> Seq(Activation)]
         /\ \A d \in Context : d # c => stack'[d] = stack[d]
         /\ Len(stack'[c]) = Len(stack[c]) - 1
         /\ \A i \in 1 .. Len(stack[c]) - 1 : stack'[c][i] = stack[c][i]
<1>1. stack[c] \in Seq(Activation) /\ stack' = [stack EXCEPT ![c] = Front(@)]
  BY StackType DEF Pop
<1> QED  BY <1>1, FrontFacts DEF TypeOK

\* The set of the elements of a sequence.
LEMMA InToSet ==
  ASSUME NEW S, NEW s \in Seq(S), NEW x
  PROVE  x \in ToSet(s) <=> \E i \in 1 .. Len(s) : s[i] = x
BY LenProperties DEF ToSet

\* A delegate is about to be run when some call has it; a task is being completed when some
\* call is about to take its delegate.
ScheduledDef ==
  \A k \in Continuation :
    Scheduled(k) <=> \E c \in Context : \E i \in 1 .. Len(stack[c]) : InRun(c, i, k)
CompletingDef ==
  \A t \in Task :
    Completing(t) <=> \E c \in Context : \E i \in 1 .. Len(stack[c]) :
                        stack[c][i].t = t /\ stack[c][i].pc \in Taking

\* What Scheduled and Completing say, with the domains of the stacks as intervals.
LEMMA Existentials == TypeOK => ScheduledDef /\ CompletingDef
<1> SUFFICES ASSUME TypeOK  PROVE ScheduledDef /\ CompletingDef
  OBVIOUS
<1>1. \A c \in Context : DOMAIN stack[c] = 1 .. Len(stack[c])
  BY StackType, LenProperties
<1>2. ASSUME NEW c \in Context, NEW i \in 1 .. Len(stack[c]), NEW k \in Continuation
      PROVE  (stack[c][i].pc = "run" /\ k \in ToSet(stack[c][i].seq)) <=> InRun(c, i, k)
  <2>1. stack[c][i].seq \in Seq(Continuation)
    BY StackType DEF Activation
  <2> QED  BY <2>1, InToSet DEF InRun
<1>3. ScheduledDef
  BY <1>1, <1>2 DEF Scheduled, ScheduledDef
<1>4. CompletingDef
  BY <1>1 DEF Completing, Taking, CompletingDef
<1> QED  BY <1>3, <1>4

\* The same after a step.
LEMMA ExistentialsNext == TypeOK' => ScheduledDef' /\ CompletingDef'
BY Existentials, PTL

-----------------------------------------------------------------------------
(* Steps that change nothing but a stack.                                   *)

\* The innermost call of the context on the CPU; while the application has the CPU, the tick
\* is in no call.
LEMMA OnTop ==
  ASSUME IInv, NEW c \in Context, OnCpu(c), stack[c] # <<>>
  PROVE  /\ Len(stack[c]) \in Nat /\ Len(stack[c]) > 0
         /\ Top(c) = stack[c][Len(stack[c])]
         /\ Top(c) \in Activation
         /\ FrameOK(c, Len(stack[c]))
         /\ StatementOK(c)
         /\ c = "App" => stack["Timer"] = <<>>
<1>1. Len(stack[c]) \in Nat /\ Len(stack[c]) > 0 /\ stack[c][Len(stack[c])] \in Activation
  BY StackType DEF IInv
<1>2. FrameOK(c, Len(stack[c])) /\ StatementOK(c)
  BY <1>1 DEF IInv, Frames, Statements
<1>3. c = "App" => stack["Timer"] = <<>>
  BY DEF OnCpu, IInv, TickInv
<1> QED  BY <1>1, <1>2, <1>3 DEF Top, Last

\* A call goes on to its next statement.
LEMMA GotoKeeps ==
  ASSUME IInv, NEW c \in Context, OnCpu(c), stack[c] # <<>>,
         NEW b \in Activation, Replace(c, b),
         UNCHANGED <<taskVars, tick, passing, calls, history>>,
         b.t = Top(c).t, Top(c).pc # "run",
         b.pc \in {"addRead", "addWrite", "setOutcome", "setClear"},
         b.pc \in Adding => Top(c).pc \in Adding /\ b.k = Top(c).k,
         b.pc = "setOutcome" => state[b.t] = "pending",
         Top(c).pc \in Taking <=> b.pc = "setClear",
         FrameOK(c, Len(stack[c]))', StatementOK(c)', Crossing'
  PROVE  IInv'
<1> DEFINE n == Len(stack[c])
<1>1. /\ n \in Nat /\ n > 0 /\ Top(c) = stack[c][n] /\ Top(c) \in Activation
      /\ c = "App" => stack["Timer"] = <<>>
  BY OnTop
<1>2. /\ stack' \in [Context -> Seq(Activation)]
      /\ \A d \in Context : d # c => stack'[d] = stack[d]
      /\ Len(stack'[c]) = n
      /\ \A i \in 1 .. n : i # n => stack'[c][i] = stack[c][i]
      /\ stack'[c][n] = b
  BY ReplaceFacts DEF IInv
<1>3. TypeOK'
  BY <1>2 DEF IInv, TypeOK, taskVars, history
<1>4. \A d \in Context : Len(stack'[d]) = Len(stack[d])
  BY <1>2 DEF n
<1>5. Frames'
  <2>1. ASSUME NEW d \in Context  PROVE \A i \in 1 .. Len(stack'[d]) : FrameOK(d, i)'
    <3>0. TAKE i \in 1 .. Len(stack'[d])
    <3>1. CASE d = c /\ i = n
      BY <1>2, <3>1 DEF FrameOK
    <3>2. CASE ~(d = c /\ i = n)
      <4>1. stack'[d][i] = stack[d][i] /\ FrameOK(d, i) /\ Len(stack'[d]) = Len(stack[d])
        BY <1>2, <1>4, <3>0, <3>2 DEF n, IInv, Frames
      <4> QED  BY <4>1 DEF FrameOK, taskVars, history, AddedTo, InPhase
    <3> QED  BY <3>1, <3>2
  <2> QED  BY <2>1 DEF Frames
<1>6. RunOnce'
  <2>1. ASSUME NEW d \in Context  PROVE \A i \in 1 .. Len(stack'[d]) : \A k \in Continuation :
          InRun(d, i, k)' => InRun(d, i, k) /\ i \in 1 .. Len(stack[d])
    BY <1>2, <1>4 DEF InRun
  <2>2. RunOnce
    BY DEF IInv
  <2> QED  BY <2>1, <2>2 DEF RunOnce
<1>7. \A d \in Context : d # c => Top(d)' = Top(d) /\ (stack'[d] # <<>>) = (stack[d] # <<>>)
  BY <1>2 DEF Top, Last
<1>8. Top(c)' = b /\ stack'[c] # <<>>
  BY <1>1, <1>2, EmptySeq DEF Top, Last
<1>9. AddOnce'
  BY <1>7, <1>8 DEF IInv, AddOnce
<1>10. Lists'
  <2>1. \A t \in Task : Taker(t)' => Taker(t) \/ state[t] = "pending"
    BY <1>7, <1>8 DEF Taker
  <2> QED  BY <2>1 DEF IInv, Lists, taskVars, history, AddedTo
<1>11. Statements'
  <2>1. ASSUME NEW d \in Context, d # c  PROVE StatementOK(d)'
    <3>1. StatementOK(d) /\ Top(d)' = Top(d) /\ stack'[d] = stack[d]
      BY <1>2, <1>7, <2>1 DEF IInv, Statements
    <3> QED  BY <3>1 DEF StatementOK, taskVars, history
  <2> QED  BY <2>1 DEF Statements
<1>12. Homes' /\ TickInv'
  BY <1>1, <1>2 DEF IInv, Homes, TickInv, taskVars, history, OnCpu, Context
<1>13. NotForgotten'
  <2>1. ASSUME NEW k \in Continuation, Scheduled(k)  PROVE Scheduled(k)'
    <3>1. PICK d \in Context : \E i \in 1 .. Len(stack[d]) : InRun(d, i, k)
      BY <2>1, Existentials DEF IInv, ScheduledDef
    <3>2. PICK i \in 1 .. Len(stack[d]) : InRun(d, i, k)
      BY <3>1
    <3>3. i \in 1 .. Len(stack'[d]) /\ InRun(d, i, k)'
      BY <1>1, <1>2, <1>4, <3>2 DEF InRun
    <3> QED  BY <1>3, <3>3, ExistentialsNext DEF ScheduledDef
  <2>2. ASSUME NEW t \in Task, Completing(t)  PROVE Completing(t)'
    <3>1. PICK d \in Context : \E i \in 1 .. Len(stack[d]) :
             stack[d][i].t = t /\ stack[d][i].pc \in Taking
      BY <2>2, Existentials DEF IInv, CompletingDef
    <3>2. PICK i \in 1 .. Len(stack[d]) : stack[d][i].t = t /\ stack[d][i].pc \in Taking
      BY <3>1
    <3>3. i \in 1 .. Len(stack'[d]) /\ stack'[d][i].t = t /\ stack'[d][i].pc \in Taking
      BY <1>1, <1>2, <1>4, <3>2 DEF Taking
    <3> QED  BY <1>3, <3>3, ExistentialsNext DEF CompletingDef
  <2> QED  BY <2>1, <2>2 DEF IInv, NotForgotten, Kept, Homes, taskVars, history
<1> QED  BY <1>3, <1>5, <1>6, <1>9, <1>10, <1>11, <1>12, <1>13 DEF IInv

\* User code calls: TrySet and Wait have not looked at the task yet.
LEMMA PushKeeps ==
  ASSUME IInv, NEW c \in Context, InUserCode(c),
         NEW b \in Activation, Push(c, b), b.pc \in {"setCheck", "wait"}, b.seq = <<>>, b.t \in Task,
         UNCHANGED <<taskVars, tick, passing, history>>, calls' \in Nat
  PROVE  IInv'
<1> DEFINE n == Len(stack[c])
<1>1. /\ n \in Nat
      /\ n > 0 => stack[c][n].pc \in Calling
      /\ c = "App" => stack["Timer"] = <<>>
  BY StackType, OnTop DEF IInv, InUserCode, Top, Last, Calling, OnCpu, TickInv
<1>2. /\ stack' \in [Context -> Seq(Activation)]
      /\ \A d \in Context : d # c => stack'[d] = stack[d]
      /\ Len(stack'[c]) = n + 1
      /\ \A i \in 1 .. n : stack'[c][i] = stack[c][i]
      /\ stack'[c][n + 1] = b
  BY PushFacts DEF IInv
<1>3. TypeOK'
  BY <1>2 DEF IInv, TypeOK, taskVars, history
<1>4. \A d \in Context : \A i \in 1 .. Len(stack'[d]) :
        (i \in 1 .. Len(stack[d]) /\ stack'[d][i] = stack[d][i]) \/ (d = c /\ i = n + 1)
  BY <1>1, <1>2
<1>5. Frames'
  <2>1. ASSUME NEW d \in Context  PROVE \A i \in 1 .. Len(stack'[d]) : FrameOK(d, i)'
    <3>0. TAKE i \in 1 .. Len(stack'[d])
    <3>1. CASE d = c /\ i = n + 1
      BY <1>2, <3>1 DEF FrameOK, Once, Adding
    <3>2. CASE ~(d = c /\ i = n + 1)
      <4>1. stack'[d][i] = stack[d][i] /\ FrameOK(d, i)
        BY <1>4, <3>0, <3>2 DEF IInv, Frames
      <4>2. i # Len(stack'[d]) => i # Len(stack[d]) \/ stack[d][i].pc \in Calling
        BY <1>1, <1>2, <3>0, <3>2
      <4> QED  BY <4>1, <4>2 DEF FrameOK, taskVars, history, AddedTo, InPhase
    <3> QED  BY <3>1, <3>2
  <2> QED  BY <2>1 DEF Frames
<1>6. RunOnce'
  <2>1. ASSUME NEW d \in Context  PROVE \A i \in 1 .. Len(stack'[d]) : \A k \in Continuation :
          InRun(d, i, k)' => InRun(d, i, k) /\ i \in 1 .. Len(stack[d])
    BY <1>2, <1>4 DEF InRun
  <2>2. RunOnce
    BY DEF IInv
  <2> QED  BY <2>1, <2>2 DEF RunOnce
<1>7. \A d \in Context : d # c => Top(d)' = Top(d) /\ (stack'[d] # <<>>) = (stack[d] # <<>>)
  BY <1>2 DEF Top, Last
<1>8. Top(c)' = b /\ b.pc \notin Adding /\ b.pc \notin Setting /\ b.pc \notin Taking
  BY <1>1, <1>2 DEF Top, Last, Adding, Setting, Taking
<1>9. AddOnce'
  BY <1>7, <1>8 DEF IInv, AddOnce
<1>10. Lists'
  <2>1. \A t \in Task : Taker(t)' => Taker(t)
    BY <1>7, <1>8 DEF Taker, Setting
  <2> QED  BY <2>1 DEF IInv, Lists, taskVars, history, AddedTo
<1>11. Statements'
  <2>1. ASSUME NEW d \in Context, d # c  PROVE StatementOK(d)'
    <3>1. StatementOK(d) /\ Top(d)' = Top(d) /\ stack'[d] = stack[d]
      BY <1>2, <1>7, <2>1 DEF IInv, Statements
    <3> QED  BY <3>1 DEF StatementOK, taskVars, history
  <2>2. StatementOK(c)'
    BY <1>8 DEF StatementOK, Adding, Setting, Taking
  <2> QED  BY <2>1, <2>2 DEF Statements
<1>12. Crossing'
  BY <1>1, <1>2, <1>7, <1>8 DEF IInv, Crossing, Adding, Setting, Taking, taskVars, history, Context
<1>13. Homes' /\ TickInv'
  BY <1>1, <1>2 DEF IInv, Homes, TickInv, taskVars, history, OnCpu, InUserCode, Context
<1>14. NotForgotten'
  <2>1. ASSUME NEW k \in Continuation, Scheduled(k)  PROVE Scheduled(k)'
    <3>1. PICK d \in Context : \E i \in 1 .. Len(stack[d]) : InRun(d, i, k)
      BY <2>1, Existentials DEF IInv, ScheduledDef
    <3>2. PICK i \in 1 .. Len(stack[d]) : InRun(d, i, k)
      BY <3>1
    <3>3. i \in 1 .. Len(stack'[d]) /\ InRun(d, i, k)'
      BY <1>1, <1>2, <3>2 DEF InRun
    <3> QED  BY <1>3, <3>3, ExistentialsNext DEF ScheduledDef
  <2>2. ASSUME NEW t \in Task, Completing(t)  PROVE Completing(t)'
    <3>1. PICK d \in Context : \E i \in 1 .. Len(stack[d]) :
             stack[d][i].t = t /\ stack[d][i].pc \in Taking
      BY <2>2, Existentials DEF IInv, CompletingDef
    <3>2. PICK i \in 1 .. Len(stack[d]) : stack[d][i].t = t /\ stack[d][i].pc \in Taking
      BY <3>1
    <3>3. i \in 1 .. Len(stack'[d]) /\ stack'[d][i].t = t /\ stack'[d][i].pc \in Taking
      BY <1>1, <1>2, <3>2
    <3> QED  BY <1>3, <3>3, ExistentialsNext DEF CompletingDef
  <2> QED  BY <2>1, <2>2 DEF IInv, NotForgotten, Kept, Homes, taskVars, history
<1> QED  BY <1>3, <1>5, <1>6, <1>9, <1>10, <1>11, <1>12, <1>13, <1>14 DEF IInv

\* A call returns that has nothing left to run.
LEMMA PopKeeps ==
  ASSUME IInv, NEW c \in Context, OnCpu(c), stack[c] # <<>>, Pop(c),
         Top(c).pc \in {"setCheck", "run", "wait", "body"}, Top(c).seq = <<>>,
         UNCHANGED <<taskVars, tick, passing, calls, history>>
  PROVE  IInv'
<1> DEFINE n == Len(stack[c])
<1>1. /\ n \in Nat /\ n > 0 /\ Top(c) = stack[c][n]
      /\ c = "App" => stack["Timer"] = <<>>
  BY OnTop
<1>2. /\ stack' \in [Context -> Seq(Activation)]
      /\ \A d \in Context : d # c => stack'[d] = stack[d]
      /\ Len(stack'[c]) = n - 1
      /\ \A i \in 1 .. n - 1 : stack'[c][i] = stack[c][i]
  BY PopFacts DEF IInv
<1>3. TypeOK'
  BY <1>2 DEF IInv, TypeOK, taskVars, history
<1>4. \A d \in Context : \A i \in 1 .. Len(stack'[d]) :
        i \in 1 .. Len(stack[d]) /\ stack'[d][i] = stack[d][i] /\ (d = c => i # n)
  BY <1>1, <1>2
<1>5. Frames'
  <2>1. ASSUME NEW d \in Context  PROVE \A i \in 1 .. Len(stack'[d]) : FrameOK(d, i)'
    <3>0. TAKE i \in 1 .. Len(stack'[d])
    <3>1. stack'[d][i] = stack[d][i] /\ FrameOK(d, i)
      BY <1>4, <3>0 DEF IInv, Frames
    <3>2. i # Len(stack'[d]) => i # Len(stack[d])
      <4>1. CASE d = c
        BY <1>4, <3>0, <4>1
      <4>2. CASE d # c
        BY <1>2, <4>2
      <4> QED  BY <4>1, <4>2
    <3> QED  BY <3>1, <3>2 DEF FrameOK, taskVars, history, AddedTo, InPhase
  <2> QED  BY <2>1 DEF Frames
<1>6. RunOnce'
  <2>1. ASSUME NEW d \in Context  PROVE \A i \in 1 .. Len(stack'[d]) : \A k \in Continuation :
          InRun(d, i, k)' => InRun(d, i, k) /\ i \in 1 .. Len(stack[d])
    BY <1>4 DEF InRun
  <2> QED  BY <2>1 DEF IInv, RunOnce
<1>7. \A d \in Context : d # c => Top(d)' = Top(d) /\ (stack'[d] # <<>>) = (stack[d] # <<>>)
  BY <1>2 DEF Top, Last
<1>8. stack'[c] # <<>> => Top(c)'.pc \in Calling
  <2>1. ASSUME stack'[c] # <<>>  PROVE Top(c)'.pc \in Calling
    <3>1. stack'[c] \in Seq(Activation)
      BY <1>2
    <3>2. n - 1 \in 1 .. n
      BY <1>1, <1>2, <2>1, <3>1, EmptySeq
    <3>3. Top(c)' = stack[c][n - 1] /\ FrameOK(c, n - 1)
      BY <1>2, <3>2 DEF IInv, Frames, Top, Last
    <3> QED  BY <3>2, <3>3 DEF FrameOK
  <2> QED  BY <2>1
<1>9. AddOnce'
  BY <1>7, <1>8 DEF IInv, AddOnce, Calling, Adding
<1>10. Lists'
  <2>1. \A t \in Task : Taker(t)' => Taker(t)
    BY <1>7, <1>8 DEF Taker, Calling
  <2> QED  BY <2>1 DEF IInv, Lists, taskVars, history, AddedTo
<1>11. Statements'
  <2>1. ASSUME NEW d \in Context, d # c  PROVE StatementOK(d)'
    <3>1. StatementOK(d) /\ Top(d)' = Top(d) /\ stack'[d] = stack[d]
      BY <1>2, <1>7, <2>1 DEF IInv, Statements
    <3> QED  BY <3>1 DEF StatementOK, taskVars, history
  <2>2. StatementOK(c)'
    BY <1>8 DEF StatementOK, Calling, Taking
  <2> QED  BY <2>1, <2>2 DEF Statements
<1>12. Crossing'
  BY <1>1, <1>2, <1>7, <1>8 DEF IInv, Crossing, Calling, Taking, taskVars, history, Context
<1>13. Homes' /\ TickInv'
  BY <1>1, <1>2 DEF IInv, Homes, TickInv, taskVars, history, OnCpu, Context
<1>14. NotForgotten'
  <2>1. ASSUME NEW k \in Continuation, Scheduled(k)  PROVE Scheduled(k)'
    <3>1. PICK d \in Context : \E i \in 1 .. Len(stack[d]) : InRun(d, i, k)
      BY <2>1, Existentials DEF IInv, ScheduledDef
    <3>2. PICK i \in 1 .. Len(stack[d]) : InRun(d, i, k)
      BY <3>1
    <3>3. ~(d = c /\ i = n)
      BY <1>1, <3>2 DEF InRun
    <3>4. i \in 1 .. Len(stack'[d]) /\ InRun(d, i, k)'
      BY <1>1, <1>2, <3>2, <3>3 DEF InRun
    <3> QED  BY <1>3, <3>4, ExistentialsNext DEF ScheduledDef
  <2>2. ASSUME NEW t \in Task, Completing(t)  PROVE Completing(t)'
    <3>1. PICK d \in Context : \E i \in 1 .. Len(stack[d]) :
             stack[d][i].t = t /\ stack[d][i].pc \in Taking
      BY <2>2, Existentials DEF IInv, CompletingDef
    <3>2. PICK i \in 1 .. Len(stack[d]) : stack[d][i].t = t /\ stack[d][i].pc \in Taking
      BY <3>1
    <3>3. ~(d = c /\ i = n)
      BY <1>1, <3>2 DEF Taking
    <3>4. i \in 1 .. Len(stack'[d]) /\ stack'[d][i].t = t /\ stack'[d][i].pc \in Taking
      BY <1>1, <1>2, <3>2, <3>3
    <3> QED  BY <1>3, <3>4, ExistentialsNext DEF CompletingDef
  <2> QED  BY <2>1, <2>2 DEF IInv, NotForgotten, Kept, Homes, taskVars, history
<1> QED  BY <1>3, <1>5, <1>6, <1>9, <1>10, <1>11, <1>12, <1>13, <1>14 DEF IInv

-----------------------------------------------------------------------------
(* The statements that change nothing but a stack. *)

\* A call goes to another statement.
LEMMA SameButPc ==
  ASSUME NEW a \in Activation, NEW pc \in Pc
  PROVE  LET b == [a EXCEPT !.pc = pc]
         IN  b \in Activation /\ b.pc = pc /\ b.t = a.t /\ b.k = a.k /\ b.seq = a.seq /\ b.out = a.out
BY DEF Activation

\* A call of a TrySet method begins (user code).
LEMMA CallTrySetKeeps ==
  ASSUME IInv, NEW c \in Context, NEW t \in Task, NEW out \in Outcome, CallTrySet(c, t, out)
  PROVE  IInv'
<1> DEFINE b == Frame("setCheck", t, None, <<>>, out)
<1>0. <<>> \in Seq(Continuation) /\ "setCheck" \in Pc
  BY EmptySeq DEF Pc
<1>1. b \in Activation /\ b.pc = "setCheck" /\ b.seq = <<>> /\ b.t = t
  BY <1>0 DEF Frame, Activation
<1>2. InUserCode(c) /\ Push(c, b) /\ UNCHANGED <<taskVars, tick, passing, history>>
  BY DEF CallTrySet, Call
<1>3. calls' \in Nat
  BY DEF CallTrySet, Call, IInv, TypeOK
<1> QED  BY <1>1, <1>2, <1>3, PushKeeps

\* A call of Wait begins (user code).
LEMMA CallWaitKeeps ==
  ASSUME IInv, NEW c \in Context, NEW t \in Task, CallWait(c, t)
  PROVE  IInv'
<1> DEFINE b == Frame("wait", t, None, <<>>, "completed")
<1>0. <<>> \in Seq(Continuation) /\ "wait" \in Pc /\ "completed" \in Outcome
  BY EmptySeq DEF Pc, Outcome
<1>1. b \in Activation /\ b.pc = "wait" /\ b.seq = <<>> /\ b.t = t
  BY <1>0 DEF Frame, Activation
<1>2. InUserCode(c) /\ Push(c, b) /\ UNCHANGED <<taskVars, tick, passing, history>>
  BY DEF CallWait, Call
<1>3. calls' \in Nat
  BY DEF CallWait, Call, IInv, TypeOK
<1> QED  BY <1>1, <1>2, <1>3, PushKeeps

\* The statements that end a call.
LEMMA ReturnKeeps ==
  ASSUME IInv, NEW c \in Context, Return(c) \/ RunEnds(c)
  PROVE  IInv'
<1>1. /\ OnCpu(c) /\ stack[c] # <<>> /\ Pop(c) /\ Top(c).pc \in {"run", "wait", "body"}
      /\ Top(c).pc = "run" => Top(c).seq = <<>>
      /\ UNCHANGED <<taskVars, tick, passing, calls, history>>
  BY DEF Return, RunEnds, BodyReturns, WaitReturns, At
<1>2. Top(c).seq = <<>>
  BY <1>1, OnTop DEF FrameOK
<1> QED  BY <1>1, <1>2, PopKeeps

\* A TrySet method looks at the state: it returns, or goes on to set it.
LEMMA SetCheckKeeps ==
  ASSUME IInv, NEW c \in Context, SetCheck(c)
  PROVE  IInv'
<1> DEFINE a == Top(c)
           n == Len(stack[c])
           b == [a EXCEPT !.pc = "setOutcome"]
<1>1. OnCpu(c) /\ stack[c] # <<>> /\ a.pc = "setCheck"
      /\ UNCHANGED <<taskVars, tick, passing, calls, history>>
  BY DEF SetCheck, At
<1>2. /\ a \in Activation /\ a = stack[c][n] /\ n \in Nat /\ n > 0
      /\ FrameOK(c, n) /\ a.seq = <<>> /\ a.t \in Task
      /\ c = "App" => stack["Timer"] = <<>>
  BY <1>1, OnTop DEF FrameOK
<1>3. CASE state[a.t] = "pending"
  <2>1. Replace(c, b)
    BY <1>3 DEF SetCheck, Goto
  <2>2. b \in Activation /\ b.pc = "setOutcome" /\ b.t = a.t /\ b.k = a.k /\ b.seq = a.seq
    BY <1>2, SameButPc DEF Pc
  <2>3. /\ Len(stack'[c]) = n /\ stack'[c][n] = b /\ stack'[c] # <<>>
        /\ \A d \in Context : d # c => stack'[d] = stack[d]
    BY <1>1, <1>2, <2>1, <2>2, ReplaceFacts, EmptySeq DEF IInv
  <2>4. FrameOK(c, n)'
    BY <1>1, <1>2, <2>2, <2>3 DEF FrameOK, Once, Adding, taskVars, history
  <2>5. Top(c)' = b /\ (\A d \in Context : d # c => Top(d)' = Top(d))
    BY <2>3 DEF Top, Last
  <2>6. StatementOK(c)'
    BY <1>1, <1>3, <2>2, <2>5 DEF StatementOK, Taking, taskVars
  <2>7. Crossing'
    <3>1. CASE c = "App"
      BY <1>2, <2>3, <3>1 DEF Crossing, Context
    <3>2. CASE c = "Timer"
      BY <1>1, <2>2, <2>5, <3>2 DEF Crossing, Context, Taking, taskVars, history
    <3> QED  BY <3>1, <3>2 DEF Context
  <2>8. FrameOK(c, Len(stack[c]))'
    BY <2>3, <2>4 DEF FrameOK
  <2> QED
    BY <1>1, <1>3, <2>1, <2>2, <2>6, <2>7, <2>8, GotoKeeps DEF Adding, Taking
<1>4. CASE state[a.t] # "pending"
  <2>1. Pop(c)
    BY <1>4 DEF SetCheck
  <2> QED  BY <1>1, <1>2, <2>1, PopKeeps
<1> QED  BY <1>3, <1>4

\* What the delegate list of a task holds is a list.
LEMMA ListType ==
  ASSUME TypeOK, NEW t \in Task
  PROVE  list[t] \in Seq(Continuation) /\ Len(list[t]) \in Nat
BY LenProperties DEF TypeOK

\* OnCompleted reads the delegate it will combine with.
LEMMA AddReadKeeps ==
  ASSUME IInv, NEW c \in Context, AddRead(c)
  PROVE  IInv'
<1> DEFINE a == Top(c)
           n == Len(stack[c])
           b == [a EXCEPT !.pc = "addWrite", !.seq = list[a.t]]
<1>1. /\ OnCpu(c) /\ stack[c] # <<>> /\ a.pc = "addRead" /\ Replace(c, b)
      /\ UNCHANGED <<taskVars, tick, passing, calls, history>>
  BY DEF AddRead, At
<1>2. /\ a \in Activation /\ a = stack[c][n] /\ n \in Nat /\ n > 0
      /\ FrameOK(c, n) /\ StatementOK(c) /\ a.t \in Task
      /\ c = "App" => stack["Timer"] = <<>>
  BY <1>1, OnTop DEF FrameOK
<1>3. list[a.t] \in Seq(Continuation)
  BY <1>2, ListType DEF IInv
<1>4. /\ b \in Activation /\ b.pc = "addWrite" /\ b.t = a.t /\ b.k = a.k /\ b.seq = list[a.t]
  <2> HIDE DEF a
  <2> QED  BY <1>2, <1>3 DEF Activation, Pc
<1> HIDE DEF b
<1>5. /\ Len(stack'[c]) = n /\ stack'[c][n] = b /\ stack'[c] # <<>>
      /\ \A d \in Context : d # c => stack'[d] = stack[d]
  BY <1>1, <1>2, <1>4, ReplaceFacts, EmptySeq DEF IInv
<1>6. state[a.t] = "pending" => AddedTo(list[a.t], a.t) /\ Once(list[a.t])
  BY <1>2 DEF IInv, Lists
<1>8. Top(c)' = b /\ (\A d \in Context : d # c => Top(d)' = Top(d))
  BY <1>5 DEF Top, Last
<1>9. FrameOK(c, Len(stack[c]))'
  BY <1>1, <1>2, <1>4, <1>5, <1>6, SMTT(30) DEF FrameOK, Adding, AddedTo, taskVars, history
<1>10. StatementOK(c)'
  BY <1>1, <1>2, <1>4, <1>8 DEF StatementOK, Taking, taskVars, history
<1>11. Crossing'
  <2>1. CASE c = "App"
    BY <1>2, <1>5, <2>1 DEF Crossing, Context
  <2>2. CASE c = "Timer"
    BY <1>1, <1>4, <1>8, <2>2 DEF Crossing, Context, Taking, taskVars, history
  <2> QED  BY <2>1, <2>2 DEF Context
<1> QED  BY <1>1, <1>4, <1>9, <1>10, <1>11, GotoKeeps DEF Adding, Taking

\* A TrySet method reads the delegate into a local.
LEMMA SetTakeKeeps ==
  ASSUME IInv, NEW c \in Context, SetTake(c)
  PROVE  IInv'
<1> DEFINE a == Top(c)
           n == Len(stack[c])
           b == [a EXCEPT !.pc = "setClear", !.seq = list[a.t]]
<1>1. /\ OnCpu(c) /\ stack[c] # <<>> /\ a.pc = "setTake" /\ Replace(c, b)
      /\ UNCHANGED <<taskVars, tick, passing, calls, history>>
  BY DEF SetTake, At
<1>2. /\ a \in Activation /\ a = stack[c][n] /\ n \in Nat /\ n > 0
      /\ FrameOK(c, n) /\ StatementOK(c) /\ a.t \in Task
      /\ c = "App" => stack["Timer"] = <<>>
  BY <1>1, OnTop DEF FrameOK
<1>3. list[a.t] \in Seq(Continuation)
  BY <1>2, ListType DEF IInv
<1>4. /\ b \in Activation /\ b.pc = "setClear" /\ b.t = a.t /\ b.k = a.k /\ b.seq = list[a.t]
  <2> HIDE DEF a
  <2> QED  BY <1>2, <1>3 DEF Activation, Pc
<1> HIDE DEF b
<1>5. /\ Len(stack'[c]) = n /\ stack'[c][n] = b /\ stack'[c] # <<>>
      /\ \A d \in Context : d # c => stack'[d] = stack[d]
  BY <1>1, <1>2, <1>4, ReplaceFacts, EmptySeq DEF IInv
<1>6. AddedTo(list[a.t], a.t) /\ Once(list[a.t])
  BY <1>1, <1>2 DEF IInv, Lists, Taker
<1>8. Top(c)' = b /\ (\A d \in Context : d # c => Top(d)' = Top(d))
  BY <1>5 DEF Top, Last
<1>9. FrameOK(c, Len(stack[c]))'
  <2>1. AddedTo(b.seq, b.t) /\ Once(b.seq)
    BY <1>4, <1>6
  <2>2. phase' = phase /\ home' = home
    BY <1>1 DEF history
  <2>3. stack'[c][Len(stack'[c])] = b /\ Len(stack'[c]) = n
    BY <1>5
  <2> QED  BY <1>2, <1>4, <2>1, <2>2, <2>3 DEF FrameOK, Adding, AddedTo, Once
<1>10. StatementOK(c)'
  BY <1>1, <1>2, <1>4, <1>8 DEF StatementOK, Taking, taskVars, history
<1>11. Crossing'
  <2>1. CASE c = "App"
    BY <1>2, <1>5, <2>1 DEF Crossing, Context
  <2>2. CASE c = "Timer"
    BY <1>1, <1>2, <1>4, <1>5, <1>8, <2>2 DEF IInv, Crossing, Context, Taking, taskVars, history
  <2> QED  BY <2>1, <2>2 DEF Context
<1> QED  BY <1>1, <1>4, <1>9, <1>10, <1>11, GotoKeeps DEF Adding, Taking

-----------------------------------------------------------------------------
(* The statements that change phases, lists or states.                      *)

\* A frame that stays keeps what it knows when only the phases of X change, which it does not
\* need.
LEMMA FrameKept ==
  ASSUME IInv, NEW d \in Context, NEW i \in 1 .. Len(stack[d]),
         i \in 1 .. Len(stack'[d]), stack'[d][i] = stack[d][i],
         i # Len(stack'[d]) => i # Len(stack[d]) \/ stack[d][i].pc \in Calling,
         state'[stack[d][i].t] = "pending" => state[stack[d][i].t] = "pending",
         NEW X, \A x \in Continuation : x \notin X => phase'[x] = phase[x] /\ home'[x] = home[x],
         stack[d][i].pc \in Adding => stack[d][i].k \notin X,
         \/ stack[d][i].pc = "run"
         \/ stack[d][i].pc = "setClear"
         \/ stack[d][i].pc = "addWrite" /\ state[stack[d][i].t] = "pending"
         => \A m \in 1 .. Len(stack[d][i].seq) : stack[d][i].seq[m] \notin X
  PROVE  FrameOK(d, i)'
<1> DEFINE a == stack[d][i]
<1>1. FrameOK(d, i) /\ a \in Activation
  BY StackType DEF IInv, Frames
<1>2. a.seq \in Seq(Continuation) /\ \A m \in 1 .. Len(a.seq) : a.seq[m] \in Continuation
  <2>1. a.seq \in Seq(Continuation)
    BY <1>1 DEF Activation
  <2> QED  BY <2>1, ElementOfSeq
<1> QED  BY <1>1, <1>2 DEF FrameOK, InPhase, AddedTo, Once

\* Frames whose delegates have another phase than those of X.
LEMMA SeqPhases ==
  ASSUME IInv, NEW d \in Context, NEW i \in 1 .. Len(stack[d])
  PROVE  /\ stack[d][i].pc = "run" =>
              \A m \in 1 .. Len(stack[d][i].seq) : phase[stack[d][i].seq[m]] = "taken"
         /\ \/ stack[d][i].pc = "setClear"
            \/ stack[d][i].pc = "addWrite" /\ state[stack[d][i].t] = "pending"
            => \A m \in 1 .. Len(stack[d][i].seq) :
                 phase[stack[d][i].seq[m]] = "added" /\ home[stack[d][i].seq[m]] = stack[d][i].t
         /\ stack[d][i].pc \in Adding => phase[stack[d][i].k] = "adding" /\ i = Len(stack[d])
BY DEF IInv, Frames, FrameOK, InPhase, AddedTo, Adding, Calling

\* A delegate that is being added is in no frame that has taken, or will store, delegates.
LEMMA AddingApart ==
  ASSUME IInv, NEW d \in Context, NEW i \in 1 .. Len(stack[d]), NEW k, phase[k] = "adding"
  PROVE  \/ stack[d][i].pc = "run"
         \/ stack[d][i].pc = "setClear"
         \/ stack[d][i].pc = "addWrite" /\ state[stack[d][i].t] = "pending"
         => \A m \in 1 .. Len(stack[d][i].seq) : stack[d][i].seq[m] \notin {k}
<1>1. ASSUME stack[d][i].pc = "run", NEW m \in 1 .. Len(stack[d][i].seq)
      PROVE  stack[d][i].seq[m] # k
  <2>1. phase[stack[d][i].seq[m]] = "taken"
    BY <1>1, SeqPhases
  <2> QED  BY <2>1
<1>2. ASSUME stack[d][i].pc = "setClear" \/ (stack[d][i].pc = "addWrite" /\ state[stack[d][i].t] = "pending"),
             NEW m \in 1 .. Len(stack[d][i].seq)
      PROVE  stack[d][i].seq[m] # k
  <2>1. phase[stack[d][i].seq[m]] = "added"
    BY <1>2, SeqPhases
  <2> QED  BY <2>1
<1> QED  BY <1>1, <1>2

\* OnCompleted is called: the delegate was in no phase before.
LEMMA CallOnCompletedKeeps ==
  ASSUME IInv, NEW c \in Context, NEW t \in Task, NEW k \in Continuation, CallOnCompleted(c, t, k)
  PROVE  IInv'
<1> DEFINE n == Len(stack[c])
           b == Frame("addCheck", t, k, <<>>, "completed")
<1>1. /\ InUserCode(c) /\ Push(c, b) /\ phase[k] = "new"
      /\ phase' = [phase EXCEPT ![k] = "adding"]
      /\ home' = [home EXCEPT ![k] = t]
      /\ UNCHANGED <<state, list, tick, passing, raced>>
  BY DEF CallOnCompleted, Call, taskVars
<1>2. calls' \in Nat
  BY DEF CallOnCompleted, Call, IInv, TypeOK
<1>3. <<>> \in Seq(Continuation)
  BY EmptySeq
<1>4. /\ b \in Activation /\ b.pc = "addCheck" /\ b.seq = <<>> /\ b.t = t /\ b.k = k
  BY <1>3 DEF Frame, Activation, Pc, Outcome
<1> HIDE DEF b
<1>5. /\ n \in Nat
      /\ n > 0 => stack[c][n].pc \in Calling
      /\ c = "App" => stack["Timer"] = <<>>
  BY <1>1, StackType, OnTop DEF IInv, InUserCode, Top, Last, Calling, OnCpu, TickInv
<1>6. /\ stack' \in [Context -> Seq(Activation)]
      /\ \A d \in Context : d # c => stack'[d] = stack[d]
      /\ Len(stack'[c]) = n + 1
      /\ \A i \in 1 .. n : stack'[c][i] = stack[c][i]
      /\ stack'[c][n + 1] = b
  BY <1>1, <1>4, PushFacts DEF IInv
<1>7. TypeOK'
  BY <1>1, <1>2, <1>6 DEF IInv, TypeOK, Phase
<1>8. \A d \in Context : \A i \in 1 .. Len(stack'[d]) :
        (i \in 1 .. Len(stack[d]) /\ stack'[d][i] = stack[d][i]) \/ (d = c /\ i = n + 1)
  BY <1>5, <1>6
<1>9. /\ phase'[k] = "adding" /\ home'[k] = t
      /\ \A x \in Continuation : x # k => phase'[x] = phase[x] /\ home'[x] = home[x]
  BY <1>1 DEF IInv, TypeOK
<1>10. Frames'
  <2>1. ASSUME NEW d \in Context  PROVE \A i \in 1 .. Len(stack'[d]) : FrameOK(d, i)'
    <3>0. TAKE i \in 1 .. Len(stack'[d])
    <3>1. CASE d = c /\ i = n + 1
      BY <1>4, <1>6, <1>9, <3>1 DEF FrameOK
    <3>2. CASE ~(d = c /\ i = n + 1)
      <4>1. i \in 1 .. Len(stack[d]) /\ stack'[d][i] = stack[d][i]
        BY <1>8, <3>0, <3>2
      <4>2. i # Len(stack'[d]) => i # Len(stack[d]) \/ stack[d][i].pc \in Calling
        BY <1>5, <1>6, <3>0, <3>2
      <4>3. \A x \in Continuation : x \notin {k} => phase'[x] = phase[x] /\ home'[x] = home[x]
        BY <1>9
      <4>4. stack[d][i].pc \in Adding => stack[d][i].k \notin {k}
        BY <1>1, <4>1, SeqPhases
      <4>5. \/ stack[d][i].pc = "run"
            \/ stack[d][i].pc = "setClear"
            \/ stack[d][i].pc = "addWrite" /\ state[stack[d][i].t] = "pending"
            => \A m \in 1 .. Len(stack[d][i].seq) : stack[d][i].seq[m] \notin {k}
        BY <1>1, <4>1, SeqPhases
      <4> QED  BY <1>1, <3>0, <4>1, <4>2, <4>3, <4>4, <4>5, FrameKept
    <3> QED  BY <3>1, <3>2
  <2> QED  BY <2>1 DEF Frames
<1>11. RunOnce'
  <2>1. ASSUME NEW d \in Context  PROVE \A i \in 1 .. Len(stack'[d]) : \A x \in Continuation :
          InRun(d, i, x)' => InRun(d, i, x) /\ i \in 1 .. Len(stack[d])
    BY <1>4, <1>6, <1>8 DEF InRun
  <2> QED  BY <2>1 DEF IInv, RunOnce
<1>12. \A d \in Context : d # c => Top(d)' = Top(d) /\ (stack'[d] # <<>>) = (stack[d] # <<>>)
  BY <1>6 DEF Top, Last
<1>13. Top(c)' = b
  BY <1>5, <1>6 DEF Top, Last
<1>14. AddOnce'
  <2>1. ASSUME NEW d \in Context, d # c, stack[d] # <<>>, Top(d).pc \in Adding  PROVE Top(d).k # k
    <3>1. Len(stack[d]) \in 1 .. Len(stack[d]) /\ Top(d) = stack[d][Len(stack[d])]
      BY <2>1, StackType DEF IInv, Top, Last
    <3> QED  BY <1>1, <2>1, <3>1, SeqPhases
  <2> QED  BY <1>4, <1>12, <1>13, <2>1 DEF IInv, AddOnce
<1>15. Lists'
  <2>1. \A u \in Task : Taker(u)' => Taker(u)
    BY <1>4, <1>12, <1>13 DEF Taker
  <2>2. ASSUME NEW u \in Task, AddedTo(list[u], u)  PROVE AddedTo(list[u], u)'
    <3>1. \A m \in 1 .. Len(list[u]) : list[u][m] \in Continuation
      BY ListType, ElementOfSeq DEF IInv
    <3> QED  BY <1>1, <1>9, <2>2, <3>1 DEF AddedTo
  <2> QED  BY <1>1, <2>1, <2>2 DEF IInv, Lists, Once
<1>16. Statements'
  <2>1. ASSUME NEW d \in Context, d # c  PROVE StatementOK(d)'
    <3>1. StatementOK(d) /\ Top(d)' = Top(d) /\ stack'[d] = stack[d]
      BY <1>6, <1>12, <2>1 DEF IInv, Statements
    <3> QED  BY <1>1, <3>1 DEF StatementOK
  <2>2. StatementOK(c)'
    BY <1>4, <1>13 DEF StatementOK, Taking
  <2> QED  BY <2>1, <2>2 DEF Statements
<1>17. Crossing'
  BY <1>1, <1>4, <1>5, <1>6, <1>12, <1>13 DEF IInv, Crossing, Taking, Context
<1>18. Homes' /\ TickInv'
  BY <1>1, <1>5, <1>6, <1>9 DEF IInv, Homes, TickInv, OnCpu, InUserCode, Context
<1>19. NotForgotten'
  <2>1. ASSUME NEW x \in Continuation, Scheduled(x)  PROVE Scheduled(x)'
    <3>1. PICK d \in Context : \E i \in 1 .. Len(stack[d]) : InRun(d, i, x)
      BY <2>1, Existentials DEF IInv, ScheduledDef
    <3>2. PICK i \in 1 .. Len(stack[d]) : InRun(d, i, x)
      BY <3>1
    <3>3. i \in 1 .. Len(stack'[d]) /\ InRun(d, i, x)'
      BY <1>5, <1>6, <3>2 DEF InRun
    <3> QED  BY <1>7, <3>3, ExistentialsNext DEF ScheduledDef
  <2>2. ASSUME NEW u \in Task, Completing(u)  PROVE Completing(u)'
    <3>1. PICK d \in Context : \E i \in 1 .. Len(stack[d]) :
             stack[d][i].t = u /\ stack[d][i].pc \in Taking
      BY <2>2, Existentials DEF IInv, CompletingDef
    <3>2. PICK i \in 1 .. Len(stack[d]) : stack[d][i].t = u /\ stack[d][i].pc \in Taking
      BY <3>1
    <3>3. i \in 1 .. Len(stack'[d]) /\ stack'[d][i].t = u /\ stack'[d][i].pc \in Taking
      BY <1>5, <1>6, <3>2
    <3> QED  BY <1>7, <3>3, ExistentialsNext DEF CompletingDef
  <2> QED  BY <1>1, <1>9, <2>1, <2>2 DEF IInv, NotForgotten, Kept, Homes
<1> QED  BY <1>7, <1>10, <1>11, <1>14, <1>15, <1>16, <1>17, <1>18, <1>19 DEF IInv

\* The task is pending, or the continuation is run at once.
LEMMA AddCheckKeeps ==
  ASSUME IInv, NEW c \in Context, AddCheck(c)
  PROVE  IInv'
<1> DEFINE a == Top(c)
           n == Len(stack[c])
<1>1. OnCpu(c) /\ stack[c] # <<>> /\ a.pc = "addCheck"
      /\ UNCHANGED <<taskVars, tick, passing, calls, home, raced>>
  BY DEF AddCheck, At
<1>2. /\ a \in Activation /\ a = stack[c][n] /\ n \in Nat /\ n > 0
      /\ FrameOK(c, n) /\ a.t \in Task /\ a.seq = <<>>
      /\ a.k \in Continuation /\ phase[a.k] = "adding" /\ home[a.k] = a.t
      /\ c = "App" => stack["Timer"] = <<>>
  BY <1>1, OnTop DEF FrameOK, Adding
<1>3. CASE state[a.t] = "pending"
  <2> DEFINE b == [a EXCEPT !.pc = "addRead"]
  <2>1. Replace(c, b) /\ UNCHANGED history
    BY <1>1, <1>3 DEF AddCheck, Goto, history
  <2>2. b \in Activation /\ b.pc = "addRead" /\ b.t = a.t /\ b.k = a.k /\ b.seq = a.seq
    BY <1>2, SameButPc DEF Pc
  <2> HIDE DEF b
  <2>3. /\ Len(stack'[c]) = n /\ stack'[c][n] = b /\ stack'[c] # <<>>
        /\ \A d \in Context : d # c => stack'[d] = stack[d]
    BY <1>1, <1>2, <2>1, <2>2, ReplaceFacts, EmptySeq DEF IInv
  <2>4. Top(c)' = b /\ (\A d \in Context : d # c => Top(d)' = Top(d))
    BY <2>3 DEF Top, Last
  <2>5. FrameOK(c, Len(stack[c]))'
    BY <1>1, <1>2, <2>1, <2>2, <2>3 DEF FrameOK, taskVars, history
  <2>6. StatementOK(c)'
    BY <1>1, <1>3, <2>2, <2>4 DEF StatementOK, Taking, taskVars
  <2>7. Crossing'
    <3>1. CASE c = "App"
      BY <1>2, <2>3, <3>1 DEF Crossing, Context
    <3>2. CASE c = "Timer"
      BY <2>2, <2>4, <3>2 DEF Crossing, Context, Taking
    <3> QED  BY <3>1, <3>2 DEF Context
  <2> QED
    BY <1>1, <1>3, <2>1, <2>2, <2>5, <2>6, <2>7, GotoKeeps DEF Adding, Taking
<1>4. CASE state[a.t] # "pending"
  <2> DEFINE k == a.k
             b == [a EXCEPT !.pc = "run", !.seq = <<k>>]
  <2>1. Replace(c, b) /\ phase' = [phase EXCEPT ![k] = "taken"]
    BY <1>1, <1>4 DEF AddCheck
  <2>2. <<k>> \in Seq(Continuation) /\ Len(<<k>>) = 1 /\ <<k>>[1] = k
    BY <1>2
  <2>3. b \in Activation /\ b.pc = "run" /\ b.t = a.t /\ b.k = k /\ b.seq = <<k>>
    <3> HIDE DEF a
    <3> QED  BY <1>2, <2>2 DEF Activation, Pc
  <2> HIDE DEF b
  <2>4. /\ stack' \in [Context -> Seq(Activation)]
        /\ \A d \in Context : d # c => stack'[d] = stack[d]
        /\ Len(stack'[c]) = n
        /\ \A i \in 1 .. n : i # n => stack'[c][i] = stack[c][i]
        /\ stack'[c][n] = b
    BY <1>1, <2>1, <2>3, ReplaceFacts DEF IInv
  <2>5. /\ phase'[k] = "taken" /\ home' = home
        /\ \A x \in Continuation : x # k => phase'[x] = phase[x]
    BY <1>1, <1>2, <2>1 DEF IInv, TypeOK
  <2>6. TypeOK'
    BY <1>1, <2>1, <2>4 DEF IInv, TypeOK, taskVars, Phase
  <2>7. \A d \in Context : Len(stack'[d]) = Len(stack[d])
    BY <2>4
  <2>8. \A d \in Context : d # c => Top(d)' = Top(d) /\ (stack'[d] # <<>>) = (stack[d] # <<>>)
    BY <2>4 DEF Top, Last
  <2>9. Top(c)' = b
    BY <2>4 DEF Top, Last
  <2>10. ASSUME NEW d \in Context, d # c, stack[d] # <<>>, Top(d).pc \in Adding
         PROVE  Top(d).k # k
    BY <1>1, <2>10 DEF IInv, AddOnce, Adding
  <2>11. Frames'
    <3>1. ASSUME NEW d \in Context  PROVE \A i \in 1 .. Len(stack'[d]) : FrameOK(d, i)'
      <4>0. TAKE i \in 1 .. Len(stack'[d])
      <4>1. CASE d = c /\ i = n
        <5>1. i = Len(stack'[d]) /\ stack'[d][i] = b
          BY <2>4, <4>1
        <5> QED  BY <1>2, <2>2, <2>3, <2>5, <5>1 DEF FrameOK, InPhase, Once, Adding
      <4>2. CASE ~(d = c /\ i = n)
        <5>1. i \in 1 .. Len(stack[d]) /\ stack'[d][i] = stack[d][i] /\ Len(stack'[d]) = Len(stack[d])
          BY <2>4, <2>7, <4>0, <4>2
        <5>2. \A x \in Continuation : x \notin {k} => phase'[x] = phase[x] /\ home'[x] = home[x]
          BY <2>5
        <5>3. stack[d][i].pc \in Adding => stack[d][i].k \notin {k}
          <6>1. ASSUME stack[d][i].pc \in Adding  PROVE d # c /\ stack[d] # <<>> /\ Top(d) = stack[d][i]
            BY <4>2, <5>1, <6>1, SeqPhases, StackType DEF IInv, Top, Last
          <6> QED  BY <2>10, <6>1
        <5>4. \/ stack[d][i].pc = "run"
              \/ stack[d][i].pc = "setClear"
              \/ stack[d][i].pc = "addWrite" /\ state[stack[d][i].t] = "pending"
              => \A m \in 1 .. Len(stack[d][i].seq) : stack[d][i].seq[m] \notin {k}
          BY <1>2, <5>1, AddingApart
        <5> QED  BY <1>1, <4>0, <5>1, <5>2, <5>3, <5>4, FrameKept DEF taskVars
      <4> QED  BY <4>1, <4>2
    <3> QED  BY <3>1 DEF Frames
  <2>12. RunOnce'
    <3>1. ASSUME NEW d \in Context, NEW i \in 1 .. Len(stack'[d]), NEW x \in Continuation,
                 InRun(d, i, x)'
          PROVE  (d = c /\ i = n /\ x = k) \/ (x # k /\ i \in 1 .. Len(stack[d]) /\ InRun(d, i, x))
      <4>1. CASE d = c /\ i = n
        BY <2>2, <2>3, <2>4, <3>1, <4>1 DEF InRun
      <4>2. CASE ~(d = c /\ i = n)
        <5>1. i \in 1 .. Len(stack[d]) /\ stack'[d][i] = stack[d][i]
          BY <2>4, <2>7, <3>1, <4>2
        <5>2. InRun(d, i, x)
          BY <3>1, <5>1 DEF InRun
        <5>3. phase[x] = "taken"
          BY <5>1, <5>2, SeqPhases DEF InRun
        <5> QED  BY <1>2, <5>1, <5>2, <5>3
      <4> QED  BY <4>1, <4>2
    <3> QED  BY <3>1 DEF IInv, RunOnce
  <2>13. AddOnce'
    BY <2>3, <2>8, <2>9 DEF IInv, AddOnce, Adding
  <2>14. Lists'
    <3>1. \A u \in Task : Taker(u)' => Taker(u)
      BY <2>3, <2>8, <2>9 DEF Taker
    <3>2. ASSUME NEW u \in Task, AddedTo(list[u], u)  PROVE AddedTo(list[u], u)'
      <4>1. \A m \in 1 .. Len(list[u]) : list[u][m] \in Continuation
        BY ListType, ElementOfSeq DEF IInv
      <4> QED  BY <1>1, <1>2, <2>5, <3>2, <4>1 DEF AddedTo, taskVars
    <3> QED  BY <1>1, <3>1, <3>2 DEF IInv, Lists, Once, taskVars
  <2>15. Statements'
    <3>1. ASSUME NEW d \in Context, d # c  PROVE StatementOK(d)'
      <4>1. StatementOK(d) /\ Top(d)' = Top(d) /\ stack'[d] = stack[d]
        BY <2>4, <2>8, <3>1 DEF IInv, Statements
      <4> QED  BY <1>1, <4>1 DEF StatementOK, taskVars
    <3>2. StatementOK(c)'
      BY <2>3, <2>9 DEF StatementOK, Taking
    <3> QED  BY <3>1, <3>2 DEF Statements
  <2>16. Crossing'
    BY <1>1, <1>2, <2>3, <2>4, <2>8, <2>9 DEF IInv, Crossing, Taking, Context
  <2>17. Homes' /\ TickInv'
    BY <1>1, <1>2, <2>4, <2>5 DEF IInv, Homes, TickInv, OnCpu, Context
  <2>18. NotForgotten'
    <3>1. ASSUME NEW x \in Continuation, Scheduled(x) \/ x = k  PROVE Scheduled(x)'
      <4>1. CASE x = k
        <5>1. n \in 1 .. Len(stack'[c]) /\ stack'[c][n] = b /\ b.seq[1] = x /\ 1 \in 1 .. Len(b.seq)
          BY <1>2, <2>2, <2>3, <2>4, <4>1
        <5>2. \E i \in 1 .. Len(stack'[c]) : InRun(c, i, x)'
          BY <2>3, <5>1 DEF InRun
        <5> QED  BY <2>6, <5>2, ExistentialsNext DEF ScheduledDef
      <4>2. CASE Scheduled(x)
        <5>1. PICK d \in Context : \E i \in 1 .. Len(stack[d]) : InRun(d, i, x)
          BY <4>2, Existentials DEF IInv, ScheduledDef
        <5>2. PICK i \in 1 .. Len(stack[d]) : InRun(d, i, x)
          BY <5>1
        <5>3. ~(d = c /\ i = n)
          BY <1>1, <1>2, <5>2 DEF InRun
        <5>4. i \in 1 .. Len(stack'[d]) /\ InRun(d, i, x)'
          BY <1>2, <2>4, <2>7, <5>2, <5>3 DEF InRun
        <5> QED  BY <2>6, <5>4, ExistentialsNext DEF ScheduledDef
      <4> QED  BY <3>1, <4>1, <4>2
    <3>2. ASSUME NEW u \in Task, Completing(u)  PROVE Completing(u)'
      <4>1. PICK d \in Context : \E i \in 1 .. Len(stack[d]) :
               stack[d][i].t = u /\ stack[d][i].pc \in Taking
        BY <3>2, Existentials DEF IInv, CompletingDef
      <4>2. PICK i \in 1 .. Len(stack[d]) : stack[d][i].t = u /\ stack[d][i].pc \in Taking
        BY <4>1
      <4>3. ~(d = c /\ i = n)
        BY <1>1, <1>2, <4>2 DEF Taking
      <4>4. i \in 1 .. Len(stack'[d]) /\ stack'[d][i].t = u /\ stack'[d][i].pc \in Taking
        BY <1>2, <2>4, <2>7, <4>2, <4>3
      <4> QED  BY <2>6, <4>4, ExistentialsNext DEF CompletingDef
    <3> QED  BY <1>1, <2>5, <3>1, <3>2 DEF IInv, NotForgotten, Kept, Homes, taskVars
  <2> QED  BY <2>6, <2>11, <2>12, <2>13, <2>14, <2>15, <2>16, <2>17, <2>18 DEF IInv
<1> QED  BY <1>3, <1>4

\* A delegate stays about to be run, and a task being completed, while the calls stay that do it.
LEMMA ScheduledKept ==
  ASSUME IInv, TypeOK', NEW x \in Continuation, Scheduled(x),
         \A d \in Context : \A i \in 1 .. Len(stack[d]) :
           InRun(d, i, x) => \E j \in 1 .. Len(stack'[d]) : InRun(d, j, x)'
  PROVE  Scheduled(x)'
<1>1. PICK d \in Context : \E i \in 1 .. Len(stack[d]) : InRun(d, i, x)
  BY Existentials DEF IInv, ScheduledDef
<1>2. \E j \in 1 .. Len(stack'[d]) : InRun(d, j, x)'
  BY <1>1
<1> QED  BY <1>2, ExistentialsNext DEF ScheduledDef

\* The same of a task that is being completed.
LEMMA CompletingKept ==
  ASSUME IInv, TypeOK', NEW u \in Task, Completing(u),
         \A d \in Context : \A i \in 1 .. Len(stack[d]) :
           stack[d][i].t = u /\ stack[d][i].pc \in Taking =>
             \E j \in 1 .. Len(stack'[d]) : stack'[d][j].t = u /\ stack'[d][j].pc \in Taking
  PROVE  Completing(u)'
<1>1. PICK d \in Context : \E i \in 1 .. Len(stack[d]) :
         stack[d][i].t = u /\ stack[d][i].pc \in Taking
  BY Existentials DEF IInv, CompletingDef
<1>2. \E j \in 1 .. Len(stack'[d]) : stack'[d][j].t = u /\ stack'[d][j].pc \in Taking
  BY <1>1
<1> QED  BY <1>2, ExistentialsNext DEF CompletingDef

\* A tick that changes the task of the innermost call of the application spoils it.
LEMMA TouchFacts ==
  ASSUME IInv, NEW c \in Context, NEW t \in Task, Touch(c, t)
  PROVE  /\ raced' \in [Task -> BOOLEAN]
         /\ \A u \in Task : raced[u] => raced'[u]
         /\ \A u \in Task : u # t => raced'[u] = raced[u]
         /\ c = "App" => raced' = raced
         /\ c = "Timer" /\ stack["App"] # <<>> /\ Top("App").t = t
              /\ Top("App").pc \in {"addRead", "addWrite", "setOutcome", "setTake", "setClear"}
            => raced'[t]
<1>1. raced \in [Task -> BOOLEAN]
  BY DEF IInv, TypeOK
<1>2. raced' = [raced EXCEPT ![t] = raced[t] \/ (c = "Timer" /\ Window(t))]
  BY <1>1 DEF Touch
<1>3. (raced[t] \/ (c = "Timer" /\ Window(t))) \in BOOLEAN
  OBVIOUS
<1>4. raced' \in [Task -> BOOLEAN]
  BY <1>1, <1>2, <1>3
<1>5. raced'[t] = (raced[t] \/ (c = "Timer" /\ Window(t)))
  BY <1>1, <1>2, Zenon
<1>6. \A u \in Task : u # t => raced'[u] = raced[u]
  BY <1>1, <1>2
<1>7. \A u \in Task : raced[u] => raced'[u]
  BY <1>5, <1>6
<1>8. ASSUME c = "App"  PROVE raced' = raced
  <2>1. raced'[t] = (raced[t] \/ FALSE)
    BY <1>5, <1>8
  <2>2. raced'[t] = raced[t]
    BY <1>1, <2>1
  <2> QED  BY <1>1, <1>4, <1>6, <2>2
<1>9. ASSUME stack["App"] # <<>>, Top("App").t = t,
             Top("App").pc \in {"addRead", "addWrite", "setOutcome", "setTake", "setClear"}
      PROVE  Window(t)
  <2>1. "App" \in Context
    BY DEF Context
  <2>2. Len(stack["App"]) \in DOMAIN stack["App"] /\ Top("App") = stack["App"][Len(stack["App"])]
    BY <1>9, <2>1, StackType, LenProperties DEF IInv, Top, Last
  <2> QED  BY <1>9, <2>2 DEF Window
<1> QED  BY <1>4, <1>5, <1>6, <1>7, <1>8, <1>9

\* What is appended to a list.
LEMMA AppendFacts ==
  ASSUME NEW s \in Seq(Continuation), NEW k \in Continuation
  PROVE  /\ Append(s, k) \in Seq(Continuation)
         /\ Len(s) \in Nat /\ Len(Append(s, k)) = Len(s) + 1
         /\ Append(s, k)[Len(s) + 1] = k
         /\ \A m \in 1 .. Len(s) : Append(s, k)[m] = s[m] /\ s[m] \in Continuation
         /\ \A x : x \in ToSet(Append(s, k)) <=> x = k \/ x \in ToSet(s)
<1>1. /\ Append(s, k) \in Seq(Continuation)
      /\ Len(s) \in Nat /\ Len(Append(s, k)) = Len(s) + 1
      /\ Append(s, k)[Len(s) + 1] = k
      /\ \A m \in 1 .. Len(s) : Append(s, k)[m] = s[m] /\ s[m] \in Continuation
  BY AppendProperties, LenProperties, ElementOfSeq
<1>2. ASSUME NEW x  PROVE x \in ToSet(Append(s, k)) <=> x = k \/ x \in ToSet(s)
  <2>1. x \in ToSet(s) <=> \E m \in 1 .. Len(s) : s[m] = x
    BY InToSet
  <2>2. x \in ToSet(Append(s, k)) <=> \E m \in 1 .. Len(s) + 1 : Append(s, k)[m] = x
    <3> DEFINE s2 == Append(s, k)
    <3>1. s2 \in Seq(Continuation) /\ Len(s2) = Len(s) + 1
      BY <1>1
    <3> HIDE DEF s2
    <3>2. x \in ToSet(s2) <=> \E m \in 1 .. Len(s2) : s2[m] = x
      BY <3>1, InToSet
    <3> QED  BY <3>1, <3>2 DEF s2
  <2>3. ASSUME NEW m \in 1 .. Len(s) + 1  PROVE m \in 1 .. Len(s) \/ m = Len(s) + 1
    BY <1>1
  <2>4. Len(s) + 1 \in 1 .. Len(s) + 1 /\ \A m \in 1 .. Len(s) : m \in 1 .. Len(s) + 1
    BY <1>1
  <2> QED  BY <1>1, <2>1, <2>2, <2>3, <2>4, Zenon
<1> QED  BY <1>1, <1>2

\* The combined delegate is written.
LEMMA AddWriteKeeps ==
  ASSUME IInv, NEW c \in Context, AddWrite(c)
  PROVE  IInv'
<1> PICK a : a = Top(c)
  OBVIOUS
<1> PICK n : n = Len(stack[c])
  OBVIOUS
<1> PICK k : k = a.k
  OBVIOUS
<1> PICK t : t = a.t
  OBVIOUS
<1>1. /\ OnCpu(c) /\ stack[c] # <<>> /\ a.pc = "addWrite" /\ Pop(c)
      /\ list' = [list EXCEPT ![t] = Append(a.seq, k)]
      /\ phase' = [phase EXCEPT ![k] = "added"]
      /\ Touch(c, t)
      /\ UNCHANGED <<state, tick, passing, calls, home>>
  BY DEF AddWrite, At
<1>2. /\ a \in Activation /\ a = stack[c][n] /\ n \in Nat /\ n > 0
      /\ FrameOK(c, n) /\ StatementOK(c) /\ t \in Task
      /\ k \in Continuation /\ phase[k] = "adding" /\ home[k] = t
      /\ a.seq \in Seq(Continuation)
      /\ c = "App" => stack["Timer"] = <<>>
  BY <1>1, OnTop DEF FrameOK, Adding, Activation
<1>3. /\ stack' \in [Context -> Seq(Activation)]
      /\ \A d \in Context : d # c => stack'[d] = stack[d]
      /\ Len(stack'[c]) = n - 1
      /\ \A i \in 1 .. n - 1 : stack'[c][i] = stack[c][i]
  BY <1>1, PopFacts DEF IInv
<1>4. /\ raced' \in [Task -> BOOLEAN]
      /\ \A u \in Task : raced[u] => raced'[u]
      /\ \A u \in Task : u # t => raced'[u] = raced[u]
      /\ c = "App" => raced' = raced
      /\ c = "Timer" /\ stack["App"] # <<>> /\ Top("App").t = t
           /\ Top("App").pc \in {"addRead", "addWrite", "setOutcome", "setTake", "setClear"}
         => raced'[t]
  BY <1>1, <1>2, TouchFacts
<1>5. /\ phase'[k] = "added" /\ home' = home
      /\ \A x \in Continuation : x # k => phase'[x] = phase[x] /\ home'[x] = home[x]
      /\ \A u \in Task : u # t => list'[u] = list[u]
      /\ list'[t] = Append(a.seq, k)
  BY <1>1, <1>2 DEF IInv, TypeOK
<1>6. TypeOK'
  <2>1. list' \in [Task -> Seq(Continuation)]
    BY <1>1, <1>2, AppendFacts DEF IInv, TypeOK
  <2> QED  BY <1>1, <1>3, <1>4, <2>1 DEF IInv, TypeOK, Phase
<1>7. \A d \in Context : \A i \in 1 .. Len(stack'[d]) :
        i \in 1 .. Len(stack[d]) /\ stack'[d][i] = stack[d][i] /\ (d = c => i # n)
  BY <1>2, <1>3
<1>8. \A d \in Context : \A i \in 1 .. Len(stack[d]) :
        ~(d = c /\ i = n) => i \in 1 .. Len(stack'[d]) /\ stack'[d][i] = stack[d][i]
  BY <1>2, <1>3
<1>9. \A d \in Context : d # c => Top(d)' = Top(d) /\ (stack'[d] # <<>>) = (stack[d] # <<>>)
  BY <1>3 DEF Top, Last
<1>10. stack'[c] # <<>> => Top(c)'.pc \in Calling
  <2>1. ASSUME stack'[c] # <<>>  PROVE Top(c)'.pc \in Calling
    <3>1. stack'[c] \in Seq(Activation)
      BY <1>3
    <3>2. n - 1 \in 1 .. n
      BY <1>2, <1>3, <2>1, <3>1, EmptySeq
    <3>3. Top(c)' = stack[c][n - 1] /\ FrameOK(c, n - 1)
      BY <1>3, <3>2 DEF IInv, Frames, Top, Last
    <3> QED  BY <3>2, <3>3 DEF FrameOK
  <2> QED  BY <2>1
<1>11. ASSUME NEW d \in Context, d # c, stack[d] # <<>>, Top(d).pc \in Adding
       PROVE  Top(d).k # k
  BY <1>1, <1>11 DEF IInv, AddOnce, Adding
<1>12. Frames'
  <2>1. ASSUME NEW d \in Context  PROVE \A i \in 1 .. Len(stack'[d]) : FrameOK(d, i)'
    <3>0. TAKE i \in 1 .. Len(stack'[d])
    <3>1. i \in 1 .. Len(stack[d]) /\ stack'[d][i] = stack[d][i] /\ (d = c => i # n)
      BY <1>7, <3>0
    <3>2. \A x \in Continuation : x \notin {k} => phase'[x] = phase[x] /\ home'[x] = home[x]
      BY <1>5
    <3>3. stack[d][i].pc \in Adding => stack[d][i].k \notin {k}
      <4>1. ASSUME stack[d][i].pc \in Adding
            PROVE  d # c /\ stack[d] # <<>> /\ Top(d) = stack[d][i]
        BY <3>1, <4>1, SeqPhases, StackType DEF IInv, Top, Last
      <4> QED  BY <1>11, <4>1
    <3>4. \/ stack[d][i].pc = "run"
          \/ stack[d][i].pc = "setClear"
          \/ stack[d][i].pc = "addWrite" /\ state[stack[d][i].t] = "pending"
          => \A m \in 1 .. Len(stack[d][i].seq) : stack[d][i].seq[m] \notin {k}
      BY <1>2, <3>1, AddingApart
    <3>5. i # Len(stack'[d]) => i # Len(stack[d]) \/ stack[d][i].pc \in Calling
      BY <1>2, <1>3, <3>0, <3>1
    <3> QED  BY <1>1, <3>0, <3>1, <3>2, <3>3, <3>4, <3>5, FrameKept
  <2> QED  BY <2>1 DEF Frames
<1>13. RunOnce'
  <2>1. ASSUME NEW d \in Context  PROVE \A i \in 1 .. Len(stack'[d]) : \A x \in Continuation :
          InRun(d, i, x)' => InRun(d, i, x) /\ i \in 1 .. Len(stack[d])
    BY <1>7 DEF InRun
  <2> QED  BY <2>1 DEF IInv, RunOnce
<1>14. AddOnce'
  BY <1>9, <1>10 DEF IInv, AddOnce, Calling, Adding
<1>15. Lists'
  <2>1. ASSUME NEW u \in Task, u # t, state'[u] = "pending" \/ Taker(u)'
        PROVE  (AddedTo(list[u], u) /\ Once(list[u]))'
    <3>1. Taker(u)' => Taker(u)
      BY <1>9, <1>10 DEF Taker, Calling
    <3>2. AddedTo(list[u], u) /\ Once(list[u])
      BY <1>1, <2>1, <3>1 DEF IInv, Lists
    <3>3. \A m \in 1 .. Len(list[u]) : list[u][m] \in Continuation
      BY ListType, ElementOfSeq DEF IInv
    <3>4. list'[u] = list[u]
      BY <1>5, <2>1
    <3>5. \A m \in 1 .. Len(list[u]) :
            phase'[list[u][m]] = "added" /\ home'[list[u][m]] = u
      BY <1>2, <1>5, <3>2, <3>3 DEF AddedTo
    <3> QED  BY <3>2, <3>4, <3>5 DEF AddedTo, Once
  <2>2. ASSUME state'[t] = "pending" \/ Taker(t)'
        PROVE  (AddedTo(list[t], t) /\ Once(list[t]))'
    <3>1. state[t] = "pending"
      <4>1. CASE Taker(t)' /\ state[t] # "pending"
        <5>1. PICK d \in Context : stack'[d] # <<>> /\ (Top(d).t)' = t
                                     /\ Top(d)'.pc \in {"setOutcome", "setTake"}
          BY <4>1 DEF Taker
        <5>2. d # c /\ stack[d] # <<>>
          BY <1>9, <1>10, <5>1 DEF Calling
        <5>3. c = "App"
          BY <1>1, <1>2, <4>1 DEF StatementOK
        <5> QED  BY <1>2, <5>2, <5>3 DEF Context
      <4> QED  BY <1>1, <2>2, <4>1
    <3>2. AddedTo(a.seq, t) /\ Once(a.seq)
      BY <1>1, <1>2, <3>1 DEF FrameOK
    <3>3. \A m \in 1 .. Len(a.seq) : a.seq[m] # k
      BY <1>2, <3>2 DEF AddedTo
    <3>4. /\ Len(a.seq) \in Nat /\ Len(list'[t]) = Len(a.seq) + 1
          /\ list'[t][Len(a.seq) + 1] = k
          /\ \A m \in 1 .. Len(a.seq) : list'[t][m] = a.seq[m] /\ a.seq[m] \in Continuation
      <4>1. PICK s \in Seq(Continuation) : s = a.seq
        BY <1>2
      <4>2. /\ Len(s) \in Nat /\ Len(Append(s, k)) = Len(s) + 1
            /\ Append(s, k)[Len(s) + 1] = k
            /\ \A m \in 1 .. Len(s) : Append(s, k)[m] = s[m] /\ s[m] \in Continuation
        BY <1>2, AppendFacts
      <4>3. list'[t] = Append(s, k)
        BY <1>5, <4>1
      <4> QED  BY <4>1, <4>2, <4>3
    <3>5. \A m \in 1 .. Len(list'[t]) : m \in 1 .. Len(a.seq) \/ m = Len(a.seq) + 1
      BY <3>4
    <3>8. \A m \in 1 .. Len(a.seq) : phase'[a.seq[m]] = "added" /\ home'[a.seq[m]] = t
      BY <1>2, <1>5, <3>2, <3>3, <3>4 DEF AddedTo
    <3>9. phase'[k] = "added" /\ home'[k] = t
      BY <1>2, <1>5
    <3>10. \A m \in 1 .. Len(list'[t]) :
             phase'[list'[t][m]] = "added" /\ home'[list'[t][m]] = t
      BY <3>4, <3>5, <3>8, <3>9
    <3>6. AddedTo(list[t], t)'
      BY <3>10 DEF AddedTo
    <3>7. Once(list[t])'
      <4>1. SUFFICES ASSUME NEW i \in 1 .. Len(list'[t]), NEW j \in 1 .. Len(list'[t]), list'[t][i] = list'[t][j]
                     PROVE  i = j
        BY DEF Once
      <4>2. CASE i \in 1 .. Len(a.seq) /\ j \in 1 .. Len(a.seq)
        <5>1. a.seq[i] = a.seq[j]
          BY <3>4, <4>1, <4>2
        <5> QED  BY <3>2, <4>2, <5>1 DEF Once
      <4>3. CASE i = Len(a.seq) + 1 \/ j = Len(a.seq) + 1
        <5>1. ~(i \in 1 .. Len(a.seq)) /\ ~(j \in 1 .. Len(a.seq))
          BY <3>3, <3>4, <4>1, <4>3
        <5> QED  BY <3>5, <4>1, <5>1
      <4> QED  BY <3>5, <4>2, <4>3
    <3> QED  BY <3>6, <3>7
  <2> QED  BY <2>1, <2>2 DEF Lists
<1>16. Statements'
  <2>1. ASSUME NEW d \in Context, d # c  PROVE StatementOK(d)'
    <3>1. StatementOK(d) /\ Top(d)' = Top(d) /\ stack'[d] = stack[d]
      BY <1>3, <1>9, <2>1 DEF IInv, Statements
    <3>2. CASE stack[d] = <<>>
      BY <3>1, <3>2 DEF StatementOK
    <3>3. CASE stack[d] # <<>>
      <4>1. c = "Timer" /\ d = "App"
        BY <1>2, <2>1, <3>3 DEF Context
      <4>2. Top(d) = stack[d][Len(stack[d])] /\ FrameOK(d, Len(stack[d]))
        BY <3>3, StackType DEF IInv, Frames, Top, Last
      <4>3. CASE Top(d).t = t /\ Top(d).pc \in {"addRead", "addWrite", "setOutcome", "setTake", "setClear"}
        <5>1. raced'[t] /\ state[t] = "pending"
          BY <1>1, <1>2, <1>4, <3>3, <4>1, <4>3 DEF StatementOK
        <5> QED  BY <1>1, <3>1, <3>3, <4>1, <4>3, <5>1 DEF StatementOK, Taking
      <4>4. CASE Top(d).t # t
        <5>1. Top(d).pc # "body" => Top(d).t \in Task
          BY <4>2 DEF FrameOK
        <5> QED  BY <1>1, <1>4, <1>5, <3>1, <4>4, <5>1 DEF StatementOK, Taking
      <4>5. CASE Top(d).pc \notin {"addRead", "addWrite", "setOutcome", "setTake", "setClear"}
        BY <3>1, <4>5 DEF StatementOK, Taking
      <4> QED  BY <4>3, <4>4, <4>5
    <3> QED  BY <3>2, <3>3
  <2>2. StatementOK(c)'
    BY <1>10 DEF StatementOK, Calling, Taking
  <2> QED  BY <2>1, <2>2 DEF Statements
<1>17. Crossing'
  BY <1>2, <1>3, <1>9, <1>10 DEF IInv, Crossing, Calling, Taking, Context
<1>18. Homes' /\ TickInv'
  BY <1>1, <1>2, <1>3, <1>5 DEF IInv, Homes, TickInv, OnCpu, Context
<1>19. NotForgotten'
  <2>1. ASSUME NEW x \in Continuation, phase'[x] = "taken"  PROVE Scheduled(x)'
    <3>1. Scheduled(x)
      BY <1>5, <2>1 DEF IInv, NotForgotten
    <3>2. \A d \in Context : \A i \in 1 .. Len(stack[d]) :
            InRun(d, i, x) => \E j \in 1 .. Len(stack'[d]) : InRun(d, j, x)'
      <4>1. ASSUME NEW d \in Context, NEW i \in 1 .. Len(stack[d]), InRun(d, i, x)
            PROVE  i \in 1 .. Len(stack'[d]) /\ InRun(d, i, x)'
        <5>1. ~(d = c /\ i = n)
          BY <1>1, <1>2, <4>1 DEF InRun
        <5>2. i \in 1 .. Len(stack'[d]) /\ stack'[d][i] = stack[d][i]
          BY <1>8, <5>1
        <5> QED  BY <4>1, <5>2 DEF InRun
      <4> QED  BY <4>1
    <3> QED  BY <1>6, <3>1, <3>2, ScheduledKept
  <2>2. ASSUME NEW u \in Task, Completing(u)  PROVE Completing(u)'
    <3>1. \A d \in Context : \A i \in 1 .. Len(stack[d]) :
           stack[d][i].t = u /\ stack[d][i].pc \in Taking =>
             \E j \in 1 .. Len(stack'[d]) : stack'[d][j].t = u /\ stack'[d][j].pc \in Taking
      BY <1>1, <1>2, <1>8 DEF Taking
    <3> QED  BY <1>6, <2>2, <3>1, CompletingKept
  <2>3. ASSUME NEW x \in Continuation, phase'[x] = "added", ~raced'[home'[x]]
        PROVE  Kept(x)'
    <3>0. home[x] = home'[x] /\ home[x] \in Task /\ ~raced[home[x]]
      BY <1>2, <1>4, <1>5, <2>3 DEF IInv, Homes
    <3>1. CASE x = k
      <4>1. state[t] = "pending"
        BY <1>1, <1>2, <3>0, <3>1 DEF StatementOK
      <4>2. k \in ToSet(list'[t])
        <5>1. k \in ToSet(Append(a.seq, k))
          BY <1>2, AppendFacts
        <5> QED  BY <1>5, <5>1
      <4> QED  BY <1>1, <1>2, <1>5, <3>1, <4>1, <4>2 DEF Kept
    <3>2. CASE x # k
      <4>1. Kept(x)
        BY <1>5, <2>3, <3>0, <3>2 DEF IInv, NotForgotten
      <4>2. CASE home[x] = t
        <5>1. a.seq = list[t]
          BY <1>1, <1>2, <3>0, <4>2 DEF StatementOK
        <5>2. x \in ToSet(list'[t])
          <6>1. x \in ToSet(a.seq)
            BY <4>1, <4>2, <5>1 DEF Kept
          <6>2. x \in ToSet(Append(a.seq, k))
            BY <1>2, <6>1, AppendFacts
          <6> QED  BY <1>5, <6>2
        <5> QED  BY <1>1, <1>5, <2>2, <3>0, <4>1, <4>2, <5>2 DEF Kept
      <4>3. CASE home[x] # t
        BY <1>1, <1>5, <2>2, <3>0, <4>1, <4>3 DEF Kept
      <4> QED  BY <4>2, <4>3
    <3> QED  BY <3>1, <3>2
  <2> QED  BY <2>1, <2>3 DEF NotForgotten
<1> QED  BY <1>6, <1>12, <1>13, <1>14, <1>15, <1>16, <1>17, <1>18, <1>19 DEF IInv

\* The outcome is set.
LEMMA SetOutcomeKeeps ==
  ASSUME IInv, NEW c \in Context, SetOutcome(c)
  PROVE  IInv'
<1> PICK a : a = Top(c)
  OBVIOUS
<1> PICK n : n = Len(stack[c])
  OBVIOUS
<1> PICK t : t = a.t
  OBVIOUS
<1>0. PICK b : b = [a EXCEPT !.pc = "setTake"]
  OBVIOUS
<1>1. /\ OnCpu(c) /\ stack[c] # <<>> /\ a.pc = "setOutcome" /\ Replace(c, b)
      /\ state' = [state EXCEPT ![t] = a.out]
      /\ Touch(c, t)
      /\ UNCHANGED <<list, tick, passing, calls, phase, home>>
  BY <1>0 DEF SetOutcome, At, Goto
<1>2. /\ a \in Activation /\ a = stack[c][n] /\ n \in Nat /\ n > 0
      /\ FrameOK(c, n) /\ StatementOK(c) /\ t \in Task
      /\ a.seq = <<>> /\ a.out \in Outcome /\ a.out # "pending"
      /\ c = "App" => stack["Timer"] = <<>>
  BY <1>1, OnTop DEF FrameOK, Activation, Outcome
<1>3. b \in Activation /\ b.pc = "setTake" /\ b.t = t /\ b.k = a.k /\ b.seq = <<>>
  BY <1>0, <1>2, SameButPc DEF Pc
<1>4. /\ stack' \in [Context -> Seq(Activation)]
      /\ \A d \in Context : d # c => stack'[d] = stack[d]
      /\ Len(stack'[c]) = n
      /\ \A i \in 1 .. n : i # n => stack'[c][i] = stack[c][i]
      /\ stack'[c][n] = b
  BY <1>1, <1>3, ReplaceFacts DEF IInv
<1>5. /\ raced' \in [Task -> BOOLEAN]
      /\ \A u \in Task : raced[u] => raced'[u]
      /\ \A u \in Task : u # t => raced'[u] = raced[u]
      /\ c = "App" => raced' = raced
      /\ c = "Timer" /\ stack["App"] # <<>> /\ Top("App").t = t
           /\ Top("App").pc \in {"addRead", "addWrite", "setOutcome", "setTake", "setClear"}
         => raced'[t]
  BY <1>1, <1>2, TouchFacts
<1>6. /\ state'[t] = a.out /\ \A u \in Task : u # t => state'[u] = state[u]
      /\ state' \in [Task -> {"pending"} \cup Outcome]
  BY <1>1, <1>2 DEF IInv, TypeOK
<1>7. TypeOK'
  BY <1>1, <1>4, <1>5, <1>6 DEF IInv, TypeOK
<1>8. \A d \in Context : Len(stack'[d]) = Len(stack[d])
  BY <1>4
<1>9. \A d \in Context : d # c => Top(d)' = Top(d) /\ (stack'[d] # <<>>) = (stack[d] # <<>>)
  BY <1>4 DEF Top, Last
<1>10. Top(c)' = b
  BY <1>4 DEF Top, Last
<1>11. \A d \in Context : \A i \in 1 .. Len(stack'[d]) :
         i \in 1 .. Len(stack[d]) /\ (~(d = c /\ i = n) => stack'[d][i] = stack[d][i])
  BY <1>2, <1>4, <1>8
<1>12. Frames'
  <2>1. ASSUME NEW d \in Context  PROVE \A i \in 1 .. Len(stack'[d]) : FrameOK(d, i)'
    <3>0. TAKE i \in 1 .. Len(stack'[d])
    <3>1. CASE d = c /\ i = n
      <4>1. i = Len(stack'[d]) /\ stack'[d][i] = b
        BY <1>4, <3>1
      <4> QED  BY <1>2, <1>3, <4>1 DEF FrameOK, Adding
    <3>2. CASE ~(d = c /\ i = n)
      <4>1. i \in 1 .. Len(stack[d]) /\ stack'[d][i] = stack[d][i] /\ Len(stack'[d]) = Len(stack[d])
        BY <1>8, <1>11, <3>0, <3>2
      <4>3. state'[stack[d][i].t] = "pending" => state[stack[d][i].t] = "pending"
        BY <1>1, <1>2 DEF IInv, TypeOK
      <4>0. PICK X : X = {}
        OBVIOUS
      <4>4. \A x \in Continuation : x \notin X => phase'[x] = phase[x] /\ home'[x] = home[x]
        BY <1>1
      <4>5. i # Len(stack'[d]) => i # Len(stack[d]) \/ stack[d][i].pc \in Calling
        BY <4>1
      <4>6. /\ stack[d][i].pc \in Adding => stack[d][i].k \notin X
            /\ \A m \in 1 .. Len(stack[d][i].seq) : stack[d][i].seq[m] \notin X
        BY <4>0
      <4>7. i \in 1 .. Len(stack'[d])
        BY <3>0
      <4> QED  BY <4>1, <4>3, <4>4, <4>5, <4>6, <4>7, FrameKept
    <3> QED  BY <3>1, <3>2
  <2> QED  BY <2>1 DEF Frames
<1>13. RunOnce'
  <2>1. ASSUME NEW d \in Context  PROVE \A i \in 1 .. Len(stack'[d]) : \A x \in Continuation :
          InRun(d, i, x)' => InRun(d, i, x) /\ i \in 1 .. Len(stack[d])
    BY <1>3, <1>4, <1>11 DEF InRun
  <2> QED  BY <2>1 DEF IInv, RunOnce
<1>14. AddOnce'
  BY <1>3, <1>9, <1>10 DEF IInv, AddOnce, Adding
<1>15. Lists'
  <2>1. ASSUME NEW u \in Task  PROVE Taker(u)' => Taker(u)
    <3>1. Taker(t)
      BY <1>1 DEF Taker
    <3> QED  BY <1>3, <1>9, <1>10, <3>1 DEF Taker
  <2>2. \A u \in Task : state'[u] = "pending" => state[u] = "pending"
    BY <1>2, <1>6
  <2> QED  BY <1>1, <2>1, <2>2 DEF IInv, Lists, AddedTo, Once
<1>16. Statements'
  <2>1. ASSUME NEW d \in Context, d # c  PROVE StatementOK(d)'
    <3>1. StatementOK(d) /\ Top(d)' = Top(d) /\ stack'[d] = stack[d]
      BY <1>4, <1>9, <2>1 DEF IInv, Statements
    <3>2. CASE stack[d] = <<>>
      BY <3>1, <3>2 DEF StatementOK
    <3>3. CASE stack[d] # <<>>
      <4>1. c = "Timer" /\ d = "App"
        BY <1>2, <2>1, <3>3 DEF Context
      <4>2. Top(d) = stack[d][Len(stack[d])] /\ FrameOK(d, Len(stack[d]))
        BY <3>3, StackType DEF IInv, Frames, Top, Last
      <4>3. CASE Top(d).t = t /\ Top(d).pc \in {"addRead", "addWrite", "setOutcome", "setTake", "setClear"}
        <5>1. raced'[t]
          BY <1>5, <3>3, <4>1, <4>3
        <5> QED  BY <1>1, <1>2, <1>6, <3>1, <3>3, <4>1, <4>3, <5>1 DEF StatementOK, Taking
      <4>4. CASE Top(d).t # t
        <5>1. Top(d).pc # "body" => Top(d).t \in Task
          BY <4>2 DEF FrameOK
        <5> QED  BY <1>1, <1>5, <1>6, <3>1, <4>4, <5>1 DEF StatementOK, Taking
      <4>5. CASE Top(d).pc \notin {"addRead", "addWrite", "setOutcome", "setTake", "setClear"}
        BY <3>1, <4>5 DEF StatementOK, Taking
      <4> QED  BY <4>3, <4>4, <4>5
    <3> QED  BY <3>2, <3>3
  <2>2. StatementOK(c)'
    BY <1>2, <1>3, <1>6, <1>10 DEF StatementOK, Taking
  <2> QED  BY <2>1, <2>2 DEF Statements
<1>17. Crossing'
  <2>1. CASE c = "App"
    BY <1>2, <1>4, <2>1 DEF Crossing, Context
  <2>2. CASE c = "Timer"
    <3>1. SUFFICES ASSUME stack'["App"] # <<>>, Top("App")'.t = Top("Timer")'.t
                   PROVE  /\ Top("App")'.pc \notin Taking
                          /\ Top("App")'.pc \in {"addRead", "addWrite", "setOutcome"} =>
                               raced'[Top("App")'.t]
      BY DEF Crossing
    <3>2. stack["App"] # <<>> /\ Top("App")' = Top("App") /\ Top("App").t = t
      BY <1>3, <1>9, <1>10, <2>2, <3>1 DEF Context
    <3>3. state[t] = "pending"
      BY <1>1, <1>2, <2>2 DEF StatementOK
    <3>4. StatementOK("App")
      BY DEF IInv, Statements, Context
    <3> QED  BY <1>5, <2>2, <3>2, <3>3, <3>4 DEF StatementOK
  <2> QED  BY <2>1, <2>2 DEF Context
<1>18. Homes' /\ TickInv'
  BY <1>1, <1>2, <1>4 DEF IInv, Homes, TickInv, OnCpu, Context
<1>19. NotForgotten'
  <2>1. ASSUME NEW x \in Continuation, phase'[x] = "taken"  PROVE Scheduled(x)'
    <3>1. Scheduled(x)
      BY <1>1, <2>1 DEF IInv, NotForgotten
    <3>2. \A d \in Context : \A i \in 1 .. Len(stack[d]) :
            InRun(d, i, x) => i \in 1 .. Len(stack'[d]) /\ InRun(d, i, x)'
      BY <1>1, <1>2, <1>8, <1>11 DEF InRun
    <3> QED  BY <1>7, <3>1, <3>2, ScheduledKept
  <2>2. ASSUME NEW u \in Task, Completing(u) \/ u = t  PROVE Completing(u)'
    <3>1. CASE u = t
      <4>1. n \in 1 .. Len(stack'[c])
        BY <1>2, <1>4
      <4>2. stack'[c][n].t = u /\ stack'[c][n].pc \in Taking
        BY <1>3, <1>4, <3>1 DEF Taking
      <4> QED  BY <1>7, <4>1, <4>2, ExistentialsNext DEF CompletingDef
    <3>2. CASE Completing(u)
      <4>1. \A d \in Context : \A i \in 1 .. Len(stack[d]) :
             stack[d][i].t = u /\ stack[d][i].pc \in Taking =>
               i \in 1 .. Len(stack'[d]) /\ stack'[d][i].t = u /\ stack'[d][i].pc \in Taking
        BY <1>1, <1>2, <1>8, <1>11 DEF Taking
      <4> QED  BY <1>7, <3>2, <4>1, CompletingKept
    <3> QED  BY <2>2, <3>1, <3>2
  <2>3. ASSUME NEW x \in Continuation, phase'[x] = "added", ~raced'[home'[x]]
        PROVE  Kept(x)'
    <3>1. home[x] = home'[x] /\ home[x] \in Task /\ ~raced[home[x]]
      BY <1>1, <1>5, <2>3 DEF IInv, Homes
    <3>2. Kept(x)
      BY <1>1, <2>3, <3>1 DEF IInv, NotForgotten
    <3> QED  BY <1>1, <1>6, <2>2, <3>1, <3>2 DEF Kept
  <2> QED  BY <2>1, <2>3 DEF NotForgotten
<1> QED  BY <1>7, <1>12, <1>13, <1>14, <1>15, <1>16, <1>17, <1>18, <1>19 DEF IInv

\* The delegate that was taken leaves the task and is about to be run.
LEMMA SetClearKeeps ==
  ASSUME IInv, NEW c \in Context, SetClear(c)
  PROVE  IInv'
<1> PICK a : a = Top(c)
  OBVIOUS
<1> PICK n : n = Len(stack[c])
  OBVIOUS
<1> PICK t : t = a.t
  OBVIOUS
<1> PICK s : s = a.seq
  OBVIOUS
<1>0. PICK b : b = [a EXCEPT !.pc = "run"]
  OBVIOUS
<1>1. /\ OnCpu(c) /\ stack[c] # <<>> /\ a.pc = "setClear" /\ Replace(c, b)
      /\ list' = [list EXCEPT ![t] = <<>>]
      /\ phase' = [k \in Continuation |-> IF k \in ToSet(s) THEN "taken" ELSE phase[k]]
      /\ UNCHANGED <<state, tick, passing, calls, home, raced>>
  BY <1>0 DEF SetClear, At, Goto
<1>2. /\ a \in Activation /\ a = stack[c][n] /\ n \in Nat /\ n > 0
      /\ FrameOK(c, n) /\ StatementOK(c) /\ t \in Task
      /\ s \in Seq(Continuation) /\ s = list[t] /\ state[t] # "pending"
      /\ AddedTo(s, t) /\ Once(s)
      /\ c = "App" => stack["Timer"] = <<>>
  BY <1>1, OnTop DEF FrameOK, Activation, StatementOK, Taking
<1>3. b \in Activation /\ b.pc = "run" /\ b.t = t /\ b.k = a.k /\ b.seq = s
  BY <1>0, <1>2, SameButPc DEF Pc
<1>4. /\ stack' \in [Context -> Seq(Activation)]
      /\ \A d \in Context : d # c => stack'[d] = stack[d]
      /\ Len(stack'[c]) = n
      /\ \A i \in 1 .. n : i # n => stack'[c][i] = stack[c][i]
      /\ stack'[c][n] = b
  BY <1>1, <1>3, ReplaceFacts DEF IInv
<1>5. /\ \A x : x \in ToSet(s) <=> \E m \in 1 .. Len(s) : s[m] = x
      /\ \A m \in 1 .. Len(s) : s[m] \in Continuation
  BY <1>2, InToSet, ElementOfSeq
<1>6. /\ \A x \in Continuation : x \in ToSet(s) => phase[x] = "added" /\ home[x] = t
      /\ \A x \in Continuation : x \in ToSet(s) => phase'[x] = "taken"
      /\ \A x \in Continuation : x \notin ToSet(s) => phase'[x] = phase[x]
      /\ \A u \in Task : u # t => list'[u] = list[u]
      /\ list'[t] = <<>>
  <2>1. ASSUME NEW x \in Continuation, x \in ToSet(s)  PROVE phase[x] = "added" /\ home[x] = t
    BY <1>2, <1>5, <2>1 DEF AddedTo
  <2>2. (\A u \in Task : u # t => list'[u] = list[u]) /\ list'[t] = <<>>
    BY <1>1, <1>2 DEF IInv, TypeOK
  <2> QED  BY <1>1, <2>1, <2>2, Zenon
<1>7. TypeOK'
  <2>1. phase' \in [Continuation -> Phase]
    BY <1>1 DEF IInv, TypeOK, Phase
  <2>2. list' \in [Task -> Seq(Continuation)]
    BY <1>1, <1>2, EmptySeq DEF IInv, TypeOK
  <2> QED  BY <1>1, <1>4, <2>1, <2>2 DEF IInv, TypeOK
<1>8. \A d \in Context : Len(stack'[d]) = Len(stack[d])
  BY <1>4
<1>9. \A d \in Context : d # c => Top(d)' = Top(d) /\ (stack'[d] # <<>>) = (stack[d] # <<>>)
  BY <1>4 DEF Top, Last
<1>10. Top(c)' = b
  BY <1>4 DEF Top, Last
<1>11. \A d \in Context : \A i \in 1 .. Len(stack'[d]) :
         i \in 1 .. Len(stack[d]) /\ (~(d = c /\ i = n) => stack'[d][i] = stack[d][i])
  BY <1>2, <1>4, <1>8
<1>12. ASSUME c = "Timer", stack["App"] # <<>>, Top("App").t = t
       PROVE  /\ Top("App").pc \notin Taking
              /\ Top("App").pc \in {"addRead", "addWrite", "setOutcome"} => raced[t]
  BY <1>1, <1>2, <1>12 DEF IInv, Crossing, Taking
<1>13. Frames'
  <2>1. ASSUME NEW d \in Context  PROVE \A i \in 1 .. Len(stack'[d]) : FrameOK(d, i)'
    <3>0. TAKE i \in 1 .. Len(stack'[d])
    <3>1. CASE d = c /\ i = n
      <4>1. i = Len(stack'[d]) /\ stack'[d][i] = b
        BY <1>4, <3>1
      <4>2. InPhase(s, "taken")' /\ Once(s)
        <5>1. \A m \in 1 .. Len(s) : phase'[s[m]] = "taken"
          BY <1>5, <1>6
        <5> QED  BY <1>2, <5>1 DEF InPhase
      <4> QED  BY <1>2, <1>3, <4>1, <4>2 DEF FrameOK, Adding, Once, InPhase
    <3>2. CASE ~(d = c /\ i = n)
      <4>1. i \in 1 .. Len(stack[d]) /\ stack'[d][i] = stack[d][i] /\ Len(stack'[d]) = Len(stack[d])
        BY <1>8, <1>11, <3>0, <3>2
      <4>2. i # Len(stack'[d]) => i # Len(stack[d]) \/ stack[d][i].pc \in Calling
        BY <4>1
      <4>3. state'[stack[d][i].t] = "pending" => state[stack[d][i].t] = "pending"
        BY <1>1
      <4>4. \A x \in Continuation : x \notin ToSet(s) => phase'[x] = phase[x] /\ home'[x] = home[x]
        BY <1>1, <1>6
      <4>5. stack[d][i].pc \in Adding => stack[d][i].k \notin ToSet(s)
        <5>1. stack[d][i].pc \in Adding => stack[d][i].k \in Continuation
          BY <4>1 DEF IInv, Frames, FrameOK
        <5> QED  BY <1>6, <4>1, <5>1, SeqPhases
      <4>6. stack[d][i] \in Activation
        BY <4>1, StackType DEF IInv
      <4>7. \A m \in 1 .. Len(stack[d][i].seq) : stack[d][i].seq[m] \in Continuation
        BY <4>6, ElementOfSeq DEF Activation
      <4>8. ASSUME stack[d][i].pc = "setClear"  PROVE stack[d][i].t # t
        <5>1. i = Len(stack[d]) /\ d # c /\ stack[d] # <<>>
          <6>1. FrameOK(d, i) /\ Len(stack[d]) \in Nat /\ (stack[d] # <<>>) = (Len(stack[d]) > 0)
            BY <4>1, StackType DEF IInv, Frames
          <6>2. i = Len(stack[d])
            BY <4>8, <6>1 DEF FrameOK, Calling
          <6> QED  BY <1>2, <3>2, <4>1, <6>1, <6>2
        <5>2. c = "Timer" /\ d = "App" /\ Top("App") = stack[d][i]
          BY <1>2, <5>1 DEF Context, Top, Last
        <5> QED  BY <1>12, <4>8, <5>1, <5>2 DEF Taking
      <4>9. ASSUME stack[d][i].pc \in {"run", "setClear"}
                     \/ (stack[d][i].pc = "addWrite" /\ state[stack[d][i].t] = "pending")
            PROVE  \A m \in 1 .. Len(stack[d][i].seq) : stack[d][i].seq[m] \notin ToSet(s)
        BY <1>2, <1>6, <4>1, <4>7, <4>8, <4>9, SeqPhases, SMTT(30)
      <4> QED  BY <3>0, <4>1, <4>2, <4>3, <4>4, <4>5, <4>9, FrameKept
    <3> QED  BY <3>1, <3>2
  <2> QED  BY <2>1 DEF Frames
<1>14. RunOnce'
  <2>1. ASSUME NEW d \in Context, NEW i \in 1 .. Len(stack'[d]), NEW x \in Continuation,
               InRun(d, i, x)'
        PROVE  \/ d = c /\ i = n /\ x \in ToSet(s)
               \/ x \notin ToSet(s) /\ i \in 1 .. Len(stack[d]) /\ InRun(d, i, x)
    <3>1. CASE d = c /\ i = n
      BY <1>3, <1>4, <1>5, <2>1, <3>1 DEF InRun
    <3>2. CASE ~(d = c /\ i = n)
      <4>1. i \in 1 .. Len(stack[d]) /\ InRun(d, i, x)
        BY <1>11, <2>1, <3>2 DEF InRun
      <4>2. phase[x] = "taken"
        BY <4>1, SeqPhases DEF InRun
      <4> QED  BY <1>6, <4>1, <4>2
    <3> QED  BY <3>1, <3>2
  <2> QED  BY <2>1 DEF IInv, RunOnce
<1>15. AddOnce'
  BY <1>3, <1>9, <1>10 DEF IInv, AddOnce, Adding
<1>16. Lists'
  <2>1. ASSUME NEW u \in Task, u # t, state'[u] = "pending" \/ Taker(u)'
        PROVE  (AddedTo(list[u], u) /\ Once(list[u]))'
    <3>1. Taker(u)' => Taker(u)
      BY <1>3, <1>9, <1>10 DEF Taker
    <3>2. AddedTo(list[u], u) /\ Once(list[u])
      BY <1>1, <2>1, <3>1 DEF IInv, Lists
    <3>3. \A m \in 1 .. Len(list[u]) : list[u][m] \in Continuation
      BY ListType, ElementOfSeq DEF IInv
    <3>4. list'[u] = list[u]
      BY <1>6, <2>1
    <3>5. \A m \in 1 .. Len(list[u]) :
            phase'[list[u][m]] = "added" /\ home'[list[u][m]] = u
      BY <1>1, <1>6, <2>1, <3>2, <3>3 DEF AddedTo
    <3> QED  BY <3>2, <3>4, <3>5 DEF AddedTo, Once
  <2>2. (AddedTo(list[t], t) /\ Once(list[t]))'
    <3>1. list'[t] = <<>> /\ Len(<<>>) = 0
      BY <1>6
    <3> QED  BY <3>1 DEF AddedTo, Once
  <2> QED  BY <2>1, <2>2 DEF Lists
<1>17. Statements'
  <2>1. ASSUME NEW d \in Context, d # c  PROVE StatementOK(d)'
    <3>1. StatementOK(d) /\ Top(d)' = Top(d) /\ stack'[d] = stack[d]
      BY <1>4, <1>9, <2>1 DEF IInv, Statements
    <3>2. CASE stack[d] = <<>>
      BY <3>1, <3>2 DEF StatementOK
    <3>3. CASE stack[d] # <<>>
      <4>1. c = "Timer" /\ d = "App"
        BY <1>2, <2>1, <3>3 DEF Context
      <4>2. Top(d) = stack[d][Len(stack[d])] /\ FrameOK(d, Len(stack[d]))
        BY <3>3, StackType DEF IInv, Frames, Top, Last
      <4>3. CASE Top(d).t = t
        <5>1. Top("App").pc \notin Taking
          BY <1>12, <3>3, <4>1, <4>3
        <5>2. Top("App").pc \in {"addRead", "addWrite", "setOutcome"} => raced'[t]
          BY <1>1, <1>12, <3>3, <4>1, <4>3
        <5> QED  BY <1>1, <3>1, <4>1, <4>3, <5>1, <5>2 DEF StatementOK, Taking
      <4>4. CASE Top(d).t # t
        <5>1. Top(d).pc # "body" => Top(d).t \in Task
          BY <4>2 DEF FrameOK
        <5> QED  BY <1>1, <1>6, <3>1, <4>4, <5>1 DEF StatementOK, Taking
      <4> QED  BY <4>3, <4>4
    <3> QED  BY <3>2, <3>3
  <2>2. StatementOK(c)'
    BY <1>3, <1>10 DEF StatementOK, Taking
  <2> QED  BY <2>1, <2>2 DEF Statements
<1>18. Crossing'
  BY <1>2, <1>3, <1>4, <1>9, <1>10 DEF Crossing, Taking, Context
<1>19. Homes' /\ TickInv'
  <2>1. \A x \in Continuation : phase'[x] # "new" => phase[x] # "new"
    BY <1>6
  <2> QED  BY <1>1, <1>2, <1>4, <2>1 DEF IInv, Homes, TickInv, OnCpu, Context
<1>20. NotForgotten'
  <2>1. ASSUME NEW x \in Continuation, phase'[x] = "taken"  PROVE Scheduled(x)'
    <3>1. CASE x \in ToSet(s)
      <4>1. n \in 1 .. Len(stack'[c])
        BY <1>2, <1>4
      <4>2. stack'[c][n].pc = "run" /\ \E m \in 1 .. Len(stack'[c][n].seq) : stack'[c][n].seq[m] = x
        BY <1>3, <1>4, <1>5, <3>1
      <4>3. \E i \in 1 .. Len(stack'[c]) : InRun(c, i, x)'
        BY <4>1, <4>2 DEF InRun
      <4> QED  BY <1>7, <4>3, ExistentialsNext DEF ScheduledDef
    <3>2. CASE x \notin ToSet(s)
      <4>1. Scheduled(x)
        BY <1>6, <2>1, <3>2 DEF IInv, NotForgotten
      <4>2. \A d \in Context : \A i \in 1 .. Len(stack[d]) :
              InRun(d, i, x) => i \in 1 .. Len(stack'[d]) /\ InRun(d, i, x)'
        BY <1>1, <1>2, <1>8, <1>11 DEF InRun
      <4> QED  BY <1>7, <4>1, <4>2, ScheduledKept
    <3> QED  BY <3>1, <3>2
  <2>2. ASSUME NEW u \in Task, Completing(u), u # t  PROVE Completing(u)'
    <3>1. \A d \in Context : \A i \in 1 .. Len(stack[d]) :
           stack[d][i].t = u /\ stack[d][i].pc \in Taking =>
             i \in 1 .. Len(stack'[d]) /\ stack'[d][i].t = u /\ stack'[d][i].pc \in Taking
      BY <1>2, <1>8, <1>11, <2>2 DEF Taking
    <3> QED  BY <1>7, <2>2, <3>1, CompletingKept
  <2>3. ASSUME NEW x \in Continuation, phase'[x] = "added", ~raced'[home'[x]]
        PROVE  Kept(x)'
    <3>1. /\ x \notin ToSet(s) /\ phase[x] = "added"
          /\ home[x] = home'[x] /\ home[x] \in Task /\ ~raced[home[x]]
      BY <1>1, <1>6, <2>3 DEF IInv, Homes
    <3>2. Kept(x)
      BY <3>1 DEF IInv, NotForgotten
    <3>3. home[x] # t
      BY <1>2, <3>1, <3>2 DEF Kept
    <3> QED  BY <1>1, <1>6, <2>2, <3>1, <3>2, <3>3 DEF Kept
  <2> QED  BY <2>1, <2>3 DEF NotForgotten
<1> QED  BY <1>7, <1>13, <1>14, <1>15, <1>16, <1>17, <1>18, <1>19, <1>20 DEF IInv

\* A delegate is invoked.
LEMMA RunNextKeeps ==
  ASSUME IInv, NEW c \in Context, RunNext(c)
  PROVE  IInv'
<1> PICK a : a = Top(c)
  OBVIOUS
<1> PICK n : n = Len(stack[c])
  OBVIOUS
<1> PICK s : s = a.seq
  OBVIOUS
<1> PICK k : k = Head(s)
  OBVIOUS
<1>01. PICK b : b = [a EXCEPT !.seq = Tail(s)]
  OBVIOUS
<1>02. PICK e : e = Frame("body", None, k, <<>>, "completed")
  OBVIOUS
<1>1. /\ OnCpu(c) /\ stack[c] # <<>> /\ a.pc = "run" /\ s # <<>>
      /\ phase' = [phase EXCEPT ![k] = "ran"]
      /\ UNCHANGED <<state, list, tick, passing, calls, home, raced>>
  BY DEF RunNext, At, taskVars
<1>2. /\ a \in Activation /\ a = stack[c][n] /\ n \in Nat /\ n > 0
      /\ FrameOK(c, n)
      /\ s \in Seq(Continuation)
      /\ c = "App" => stack["Timer"] = <<>>
  BY <1>1, OnTop DEF Activation
<1>3. /\ k \in Continuation /\ Len(s) \in Nat /\ Len(s) > 0 /\ s[1] = k
      /\ Tail(s) \in Seq(Continuation)
      /\ Len(Tail(s)) = Len(s) - 1
      /\ \A m \in 1 .. Len(s) - 1 : Tail(s)[m] = s[m + 1]
      /\ \A m \in 1 .. Len(s) : s[m] \in Continuation
  BY <1>1, <1>2, EmptySeq, LenProperties, ElementOfSeq, HeadTailProperties
<1>4. /\ phase[k] = "taken"
      /\ \A m \in 1 .. Len(s) - 1 : phase[Tail(s)[m]] = "taken" /\ Tail(s)[m] # k
      /\ Once(Tail(s))
  <2>1. InPhase(s, "taken") /\ Once(s)
    BY <1>1, <1>2 DEF FrameOK
  <2>2. \A m \in 1 .. Len(s) - 1 : m + 1 \in 1 .. Len(s) /\ m + 1 # 1
    BY <1>3
  <2>3. 1 \in 1 .. Len(s)
    BY <1>3
  <2>4. \A m \in 1 .. Len(s) - 1 : phase[Tail(s)[m]] = "taken" /\ Tail(s)[m] # k
    BY <1>3, <2>1, <2>2, <2>3 DEF InPhase, Once
  <2>5. ASSUME NEW i \in 1 .. Len(Tail(s)), NEW j \in 1 .. Len(Tail(s)), Tail(s)[i] = Tail(s)[j]
        PROVE  i = j
    <3>1. s[i + 1] = s[j + 1] /\ i + 1 \in 1 .. Len(s) /\ j + 1 \in 1 .. Len(s)
      BY <1>3, <2>5
    <3>2. i + 1 = j + 1
      BY <2>1, <3>1 DEF Once
    <3> QED  BY <1>3, <3>2
  <2> QED  BY <1>3, <2>1, <2>3, <2>4, <2>5 DEF InPhase, Once
<1>5. b \in Activation /\ b.pc = "run" /\ b.t = a.t /\ b.k = a.k /\ b.seq = Tail(s)
  BY <1>01, <1>1, <1>2, <1>3 DEF Activation
<1>6. e \in Activation /\ e.pc = "body" /\ e.t = None /\ e.k = k /\ e.seq = <<>>
  <2>1. <<>> \in Seq(Continuation)
    BY EmptySeq
  <2> QED  BY <1>02, <1>3, <2>1 DEF Frame, Activation, Pc, Outcome
<1>7. /\ stack' \in [Context -> Seq(Activation)]
      /\ \A d \in Context : d # c => stack'[d] = stack[d]
      /\ Len(stack'[c]) = n + 1
      /\ \A i \in 1 .. n : i # n => stack'[c][i] = stack[c][i]
      /\ stack'[c][n] = b /\ stack'[c][n + 1] = e
  <2>1. stack' = [stack EXCEPT ![c] = Front(stack[c]) \o <<b, e>>]
    <3>1. stack' = [stack EXCEPT ![c] =
              Front(stack[c]) \o <<[a EXCEPT !.seq = Tail(s)], Frame("body", None, k, <<>>, "completed")>>]
      BY DEF RunNext
    <3> QED  BY <1>01, <1>02, <3>1
  <2>2. PICK f : f = Front(stack[c])
    OBVIOUS
  <2>3. /\ f \in Seq(Activation)
        /\ Len(f) = n - 1
        /\ \A i \in 1 .. n - 1 : f[i] = stack[c][i]
    BY <1>1, <2>2, StackType, FrontFacts DEF IInv
  <2>4. /\ <<b, e>> \in Seq(Activation) /\ Len(<<b, e>>) = 2
        /\ <<b, e>>[1] = b /\ <<b, e>>[2] = e
    BY <1>5, <1>6
  <2>5. PICK g : g = <<b, e>>
    OBVIOUS
  <2>6. g \in Seq(Activation) /\ Len(g) = 2 /\ g[1] = b /\ g[2] = e
    BY <2>4, <2>5
  <2>7. /\ f \o g \in Seq(Activation) /\ Len(f \o g) = n + 1
        /\ \A i \in 1 .. n + 1 : (f \o g)[i] = IF i <= n - 1 THEN f[i] ELSE g[i - (n - 1)]
    <3>1. /\ f \o g \in Seq(Activation) /\ Len(f \o g) = Len(f) + Len(g)
          /\ \A i \in 1 .. Len(f) + Len(g) :
               (f \o g)[i] = IF i <= Len(f) THEN f[i] ELSE g[i - Len(f)]
      BY <2>3, <2>6, ConcatProperties
    <3>2. Len(f) + Len(g) = n + 1
      BY <1>2, <2>3, <2>6
    <3> QED  BY <2>3, <3>1, <3>2
  <2>8. /\ (f \o g)[n] = g[1] /\ (f \o g)[n + 1] = g[2]
        /\ \A i \in 1 .. n : i # n => (f \o g)[i] = f[i]
    <3>1. ASSUME NEW i \in 1 .. n, i # n  PROVE (f \o g)[i] = f[i]
      <4>1. i \in 1 .. n + 1 /\ i <= n - 1
        BY <1>2, <3>1
      <4> QED  BY <2>7, <4>1
    <3>2. n \in 1 .. n + 1 /\ ~(n <= n - 1) /\ n - (n - 1) = 1
      BY <1>2
    <3>3. n + 1 \in 1 .. n + 1 /\ ~(n + 1 <= n - 1) /\ (n + 1) - (n - 1) = 2
      BY <1>2
    <3>4. (f \o g)[n] = g[n - (n - 1)] /\ (f \o g)[n + 1] = g[(n + 1) - (n - 1)]
      BY <2>7, <3>2, <3>3
    <3> QED  BY <3>1, <3>2, <3>3, <3>4
  <2>9. /\ stack'[c] = f \o g
        /\ \A d \in Context : d # c => stack'[d] = stack[d]
        /\ stack' \in [Context -> Seq(Activation)]
    BY <2>1, <2>2, <2>5, <2>7 DEF IInv, TypeOK
  <2>10. \A i \in 1 .. n : i # n => i \in 1 .. n - 1
    BY <1>2
  <2> QED  BY <2>3, <2>6, <2>7, <2>8, <2>9, <2>10, Zenon
<1>8. /\ phase'[k] = "ran" /\ home' = home
      /\ \A x \in Continuation : x # k => phase'[x] = phase[x]
  BY <1>1, <1>3 DEF IInv, TypeOK
<1>9. TypeOK'
  BY <1>1, <1>7 DEF IInv, TypeOK, Phase
<1>10. \A d \in Context : \A i \in 1 .. Len(stack'[d]) :
         \/ i \in 1 .. Len(stack[d]) /\ stack'[d][i] = stack[d][i] /\ ~(d = c /\ i = n)
         \/ d = c /\ i \in {n, n + 1}
  BY <1>2, <1>7
<1>11. \A d \in Context : \A i \in 1 .. Len(stack[d]) :
         i \in 1 .. Len(stack'[d]) /\ (~(d = c /\ i = n) => stack'[d][i] = stack[d][i])
  BY <1>2, <1>7
<1>12. \A d \in Context : d # c => Top(d)' = Top(d) /\ (stack'[d] # <<>>) = (stack[d] # <<>>)
  BY <1>7 DEF Top, Last
<1>13. Top(c)' = e
  BY <1>7 DEF Top, Last
<1>14. Frames'
  <2>1. ASSUME NEW d \in Context  PROVE \A i \in 1 .. Len(stack'[d]) : FrameOK(d, i)'
    <3>0. TAKE i \in 1 .. Len(stack'[d])
    <3>1. CASE d = c /\ i = n
      <4>1. stack'[d][i] = b /\ b.pc \in Calling
        BY <1>5, <1>7, <3>1 DEF Calling
      <4>2. a.t \in Task
        BY <1>1, <1>2 DEF FrameOK
      <4>3. InPhase(Tail(s), "taken")'
        BY <1>3, <1>4, <1>8 DEF InPhase
      <4> QED  BY <1>4, <1>5, <4>1, <4>2, <4>3 DEF FrameOK, Adding, InPhase
    <3>2. CASE d = c /\ i = n + 1
      <4>1. i = Len(stack'[d]) /\ stack'[d][i] = e
        BY <1>7, <3>2
      <4> QED  BY <1>6, <4>1 DEF FrameOK, Adding
    <3>3. CASE ~(d = c /\ i \in {n, n + 1})
      <4>1. i \in 1 .. Len(stack[d]) /\ stack'[d][i] = stack[d][i]
        BY <1>10, <3>0, <3>3
      <4>2. i # Len(stack'[d]) => i # Len(stack[d]) \/ stack[d][i].pc \in Calling
        BY <1>2, <1>7, <3>0, <3>3
      <4>3. state'[stack[d][i].t] = "pending" => state[stack[d][i].t] = "pending"
        BY <1>1
      <4>4. \A x \in Continuation : x \notin {k} => phase'[x] = phase[x] /\ home'[x] = home[x]
        BY <1>8
      <4>5. stack[d][i].pc \in Adding => stack[d][i].k \notin {k}
        BY <1>4, <4>1, SeqPhases
      <4>6. stack[d][i].pc = "run" =>
              \A m \in 1 .. Len(stack[d][i].seq) : stack[d][i].seq[m] \notin {k}
        <5>1. SUFFICES ASSUME stack[d][i].pc = "run", NEW m \in 1 .. Len(stack[d][i].seq),
                              stack[d][i].seq[m] = k
                       PROVE  FALSE
          OBVIOUS
        <5>2. InRun(d, i, k)
          BY <5>1 DEF InRun
        <5>3. n \in 1 .. Len(stack[c]) /\ InRun(c, n, k)
          BY <1>1, <1>2, <1>3 DEF InRun
        <5>4. d = c /\ i = n
          BY <1>3, <4>1, <5>2, <5>3 DEF IInv, RunOnce
        <5> QED  BY <3>3, <5>4
      <4>7. \/ stack[d][i].pc = "run"
            \/ stack[d][i].pc = "setClear"
            \/ stack[d][i].pc = "addWrite" /\ state[stack[d][i].t] = "pending"
            => \A m \in 1 .. Len(stack[d][i].seq) : stack[d][i].seq[m] \notin {k}
        <5>1. \/ stack[d][i].pc = "setClear"
              \/ stack[d][i].pc = "addWrite" /\ state[stack[d][i].t] = "pending"
              => \A m \in 1 .. Len(stack[d][i].seq) : phase[stack[d][i].seq[m]] = "added"
          BY <4>1, SeqPhases
        <5>2. phase[k] # "added"
          BY <1>4
        <5> QED  BY <4>6, <5>1, <5>2
      <4> QED  BY <3>0, <4>1, <4>2, <4>3, <4>4, <4>5, <4>7, FrameKept
    <3> QED  BY <3>1, <3>2, <3>3
  <2> QED  BY <2>1 DEF Frames
<1>15. RunOnce'
  <2>1. ASSUME NEW d \in Context, NEW i \in 1 .. Len(stack'[d]), NEW x \in Continuation,
               InRun(d, i, x)'
        PROVE  i \in 1 .. Len(stack[d]) /\ InRun(d, i, x)
    <3>1. CASE d = c /\ i = n
      <4>1. \E m \in 1 .. Len(s) - 1 : Tail(s)[m] = x
        BY <1>3, <1>5, <1>7, <2>1, <3>1 DEF InRun
      <4>2. \E m \in 1 .. Len(s) : s[m] = x
        BY <1>3, <4>1
      <4> QED  BY <1>1, <1>2, <3>1, <4>2 DEF InRun
    <3>2. CASE d = c /\ i = n + 1
      BY <1>6, <1>7, <2>1, <3>2 DEF InRun
    <3>3. CASE ~(d = c /\ i \in {n, n + 1})
      BY <1>10, <2>1, <3>3 DEF InRun
    <3> QED  BY <3>1, <3>2, <3>3
  <2> QED  BY <2>1 DEF IInv, RunOnce
<1>16. AddOnce'
  BY <1>6, <1>12, <1>13 DEF IInv, AddOnce, Adding
<1>17. Lists'
  <2>1. \A u \in Task : Taker(u)' => Taker(u)
    BY <1>6, <1>12, <1>13 DEF Taker
  <2>2. ASSUME NEW u \in Task, AddedTo(list[u], u)  PROVE AddedTo(list[u], u)'
    <3>1. \A m \in 1 .. Len(list[u]) : list[u][m] \in Continuation
      BY ListType, ElementOfSeq DEF IInv
    <3> QED  BY <1>1, <1>4, <1>8, <2>2, <3>1 DEF AddedTo
  <2> QED  BY <1>1, <2>1, <2>2 DEF IInv, Lists, Once
<1>18. Statements'
  <2>1. ASSUME NEW d \in Context, d # c  PROVE StatementOK(d)'
    <3>1. StatementOK(d) /\ Top(d)' = Top(d) /\ stack'[d] = stack[d]
      BY <1>7, <1>12, <2>1 DEF IInv, Statements
    <3> QED  BY <1>1, <3>1 DEF StatementOK
  <2>2. StatementOK(c)'
    BY <1>6, <1>13 DEF StatementOK, Taking
  <2> QED  BY <2>1, <2>2 DEF Statements
<1>19. Crossing'
  BY <1>2, <1>6, <1>7, <1>12, <1>13 DEF Crossing, Taking, Context
<1>20. Homes' /\ TickInv'
  BY <1>1, <1>2, <1>4, <1>7, <1>8 DEF IInv, Homes, TickInv, OnCpu, Context
<1>21. NotForgotten'
  <2>1. ASSUME NEW x \in Continuation, phase'[x] = "taken"  PROVE Scheduled(x)'
    <3>1. Scheduled(x) /\ x # k
      BY <1>8, <2>1 DEF IInv, NotForgotten
    <3>2. ASSUME NEW d \in Context, NEW i \in 1 .. Len(stack[d]), InRun(d, i, x)
          PROVE  i \in 1 .. Len(stack'[d]) /\ InRun(d, i, x)'
      <4>1. CASE d = c /\ i = n
        <5>1. PICK m \in 1 .. Len(s) : s[m] = x
          BY <1>2, <3>2, <4>1 DEF InRun
        <5>2. m - 1 \in 1 .. Len(s) - 1 /\ (m - 1) + 1 = m
          BY <1>3, <3>1, <5>1
        <5>3. m - 1 \in 1 .. Len(Tail(s)) /\ Tail(s)[m - 1] = x
          BY <1>3, <5>1, <5>2
        <5> QED  BY <1>5, <1>7, <1>11, <3>2, <4>1, <5>3 DEF InRun
      <4>2. CASE ~(d = c /\ i = n)
        BY <1>11, <3>2, <4>2 DEF InRun
      <4> QED  BY <4>1, <4>2
    <3> QED  BY <1>9, <3>1, <3>2, ScheduledKept
  <2>2. ASSUME NEW u \in Task, Completing(u)  PROVE Completing(u)'
    <3>1. \A d \in Context : \A i \in 1 .. Len(stack[d]) :
           stack[d][i].t = u /\ stack[d][i].pc \in Taking =>
             i \in 1 .. Len(stack'[d]) /\ stack'[d][i].t = u /\ stack'[d][i].pc \in Taking
      BY <1>1, <1>2, <1>11 DEF Taking
    <3> QED  BY <1>9, <2>2, <3>1, CompletingKept
  <2>3. ASSUME NEW x \in Continuation, phase'[x] = "added", ~raced'[home'[x]]
        PROVE  Kept(x)'
    <3>1. /\ phase[x] = "added" /\ home[x] = home'[x] /\ home[x] \in Task /\ ~raced[home[x]]
      BY <1>1, <1>8, <2>3 DEF IInv, Homes
    <3>2. Kept(x)
      BY <3>1 DEF IInv, NotForgotten
    <3> QED  BY <1>1, <2>2, <3>1, <3>2 DEF Kept
  <2> QED  BY <2>1, <2>3 DEF NotForgotten
<1> QED  BY <1>9, <1>14, <1>15, <1>16, <1>17, <1>18, <1>19, <1>20, <1>21 DEF IInv

\* An exception ends calls, whose delegates are dropped.
LEMMA ThrowKeeps ==
  ASSUME IInv, NEW c \in Context, Throw(c)
  PROVE  IInv'
<1> PICK n : n = Len(stack[c])
  OBVIOUS
<1>0. stack[c] # <<>> /\ OnCpu(c) /\ Top(c).pc \in {"body", "wait"}
      /\ UNCHANGED <<state, list, tick, passing, calls, home, raced>>
  BY DEF Throw, At, taskVars
<1>1. PICK m \in 0 .. Len(stack[c]) - 1 :
        /\ m # 0 => stack[c][m].pc = "body"
        /\ stack' = [stack EXCEPT ![c] = SubSeq(@, 1, m)]
        /\ phase' = [k \in Continuation |->
             IF \E i \in m + 1 .. Len(stack[c]) : k \in ToSet(stack[c][i].seq)
               THEN "dropped" ELSE phase[k]]
  BY DEF Throw
<1>2. /\ n \in Nat /\ n > 0 /\ m \in 0 .. n - 1 /\ m \in Nat /\ m < n
      /\ stack[c] \in Seq(Activation)
      /\ Top(c) = stack[c][n]
      /\ c = "App" => stack["Timer"] = <<>>
  BY <1>0, <1>1, OnTop, StackType DEF IInv
<1>3. PICK X : X = {k \in Continuation : \E i \in m + 1 .. Len(stack[c]) : InRun(c, i, k)}
  OBVIOUS
<1>4. ASSUME NEW i \in m + 1 .. n, NEW k \in Continuation
      PROVE  k \in ToSet(stack[c][i].seq) <=> InRun(c, i, k)
  <2>1. i \in 1 .. n /\ stack[c][i] \in Activation /\ FrameOK(c, i)
    BY <1>2, StackType DEF IInv, Frames
  <2>2. stack[c][i].pc \in Calling
    BY <1>0, <1>2, <2>1 DEF FrameOK, Calling
  <2>3. stack[c][i].seq \in Seq(Continuation)
    BY <2>1 DEF Activation
  <2>4. k \in ToSet(stack[c][i].seq) <=> \E j \in 1 .. Len(stack[c][i].seq) : stack[c][i].seq[j] = k
    BY <2>3, InToSet
  <2>5. stack[c][i].pc # "run" => stack[c][i].seq = <<>>
    BY <2>1, <2>2 DEF FrameOK, Calling
  <2>6. stack[c][i].pc # "run" => k \notin ToSet(stack[c][i].seq)
    BY <2>4, <2>5
  <2> QED  BY <2>4, <2>6 DEF InRun
<1>5. /\ \A x \in Continuation : x \in X => phase[x] = "taken" /\ phase'[x] = "dropped"
      /\ \A x \in Continuation : x \notin X => phase'[x] = phase[x]
      /\ home' = home
      /\ phase' \in [Continuation -> Phase]
  <2>1. \A x \in Continuation : phase'[x] = IF x \in X THEN "dropped" ELSE phase[x]
    BY <1>1, <1>2, <1>3, <1>4
  <2>2. ASSUME NEW x \in X  PROVE phase[x] = "taken"
    <3>1. PICK i \in m + 1 .. Len(stack[c]) : InRun(c, i, x)
      BY <1>3
    <3>2. i \in 1 .. Len(stack[c])
      BY <1>2, <3>1
    <3> QED  BY <3>1, <3>2, SeqPhases DEF InRun
  <2>3. phase' \in [Continuation -> Phase]
    BY <1>1 DEF IInv, TypeOK, Phase
  <2> QED  BY <1>0, <2>1, <2>2, <2>3
<1>6. /\ stack' \in [Context -> Seq(Activation)]
      /\ \A d \in Context : d # c => stack'[d] = stack[d]
      /\ Len(stack'[c]) = m
      /\ \A i \in 1 .. m : stack'[c][i] = stack[c][i]
  <2>1. \A i \in 1 .. m : stack[c][i] \in Activation
    BY <1>2, ElementOfSeq
  <2>2. /\ SubSeq(stack[c], 1, m) \in Seq(Activation)
        /\ Len(SubSeq(stack[c], 1, m)) = IF 1 <= m THEN m - 1 + 1 ELSE 0
        /\ \A i \in 1 .. m - 1 + 1 : SubSeq(stack[c], 1, m)[i] = stack[c][1 + i - 1]
    BY <1>2, <2>1, SubSeqProperties
  <2>3. PICK f : f = SubSeq(stack[c], 1, m)
    OBVIOUS
  <2>4. f \in Seq(Activation) /\ Len(f) = (IF 1 <= m THEN m - 1 + 1 ELSE 0)
        /\ \A i \in 1 .. m - 1 + 1 : f[i] = stack[c][1 + i - 1]
    BY <2>2, <2>3
  <2>5. Len(f) = m /\ \A i \in 1 .. m : f[i] = stack[c][i]
    BY <1>2, <2>4
  <2>6. stack' = [stack EXCEPT ![c] = f]
    BY <1>1, <2>3 DEF IInv, TypeOK
  <2> QED  BY <2>4, <2>5, <2>6 DEF IInv, TypeOK
<1>7. TypeOK'
  BY <1>0, <1>5, <1>6 DEF IInv, TypeOK
<1>8. \A d \in Context : \A i \in 1 .. Len(stack'[d]) :
        i \in 1 .. Len(stack[d]) /\ stack'[d][i] = stack[d][i] /\ (d = c => i <= m)
  BY <1>2, <1>6
<1>9. \A d \in Context : \A i \in 1 .. Len(stack[d]) :
        ~(d = c /\ i \in m + 1 .. n) => i \in 1 .. Len(stack'[d]) /\ stack'[d][i] = stack[d][i]
  BY <1>2, <1>6
<1>10. \A d \in Context : d # c => Top(d)' = Top(d) /\ (stack'[d] # <<>>) = (stack[d] # <<>>)
  BY <1>6 DEF Top, Last
<1>11. stack'[c] # <<>> => Top(c)'.pc = "body"
  <2>1. stack'[c] # <<>> => m # 0
    BY <1>6, EmptySeq
  <2>2. m # 0 => m \in 1 .. m
    BY <1>2
  <2> QED  BY <1>1, <1>6, <2>1, <2>2 DEF Top, Last
<1>12. ASSUME NEW d \in Context, NEW i \in 1 .. Len(stack'[d]), NEW x \in Continuation, InRun(d, i, x)
       PROVE  x \notin X
  <2>1. SUFFICES ASSUME x \in X  PROVE FALSE
    OBVIOUS
  <2>2. PICK j \in m + 1 .. Len(stack[c]) : InRun(c, j, x)
    BY <1>3, <2>1
  <2>3. j \in 1 .. Len(stack[c]) /\ i \in 1 .. Len(stack[d]) /\ ~(d = c /\ i = j)
    BY <1>2, <1>8, <2>2
  <2> QED  BY <1>12, <2>2, <2>3 DEF IInv, RunOnce
<1>13. Frames'
  <2>1. ASSUME NEW d \in Context  PROVE \A i \in 1 .. Len(stack'[d]) : FrameOK(d, i)'
    <3>0. TAKE i \in 1 .. Len(stack'[d])
    <3>1. i \in 1 .. Len(stack[d]) /\ stack'[d][i] = stack[d][i]
      BY <1>8, <3>0
    <3>2. i # Len(stack'[d]) => i # Len(stack[d]) \/ stack[d][i].pc \in Calling
      BY <1>2, <1>6, <3>0, <3>1
    <3>3. state'[stack[d][i].t] = "pending" => state[stack[d][i].t] = "pending"
      BY <1>0
    <3>4. \A x \in Continuation : x \notin X => phase'[x] = phase[x] /\ home'[x] = home[x]
      BY <1>5
    <3>5. stack[d][i].pc \in Adding => stack[d][i].k \notin X
      <4>1. stack[d][i].pc \in Adding => stack[d][i].k \in Continuation
        BY <3>1 DEF IInv, Frames, FrameOK
      <4> QED  BY <1>5, <3>1, <4>1, SeqPhases
    <3>6. stack[d][i] \in Activation
      BY <3>1, StackType DEF IInv
    <3>7. \A j \in 1 .. Len(stack[d][i].seq) : stack[d][i].seq[j] \in Continuation
      BY <3>6, ElementOfSeq DEF Activation
    <3>8. stack[d][i].pc = "run" =>
            \A j \in 1 .. Len(stack[d][i].seq) : stack[d][i].seq[j] \notin X
      BY <1>12, <3>0, <3>7 DEF InRun
    <3>9. \/ stack[d][i].pc = "run"
          \/ stack[d][i].pc = "setClear"
          \/ stack[d][i].pc = "addWrite" /\ state[stack[d][i].t] = "pending"
          => \A j \in 1 .. Len(stack[d][i].seq) : stack[d][i].seq[j] \notin X
      BY <1>5, <3>1, <3>7, <3>8, SeqPhases
    <3> QED  BY <3>0, <3>1, <3>2, <3>3, <3>4, <3>5, <3>9, FrameKept
  <2> QED  BY <2>1 DEF Frames
<1>14. RunOnce'
  <2>1. ASSUME NEW d \in Context  PROVE \A i \in 1 .. Len(stack'[d]) : \A x \in Continuation :
          InRun(d, i, x)' => InRun(d, i, x) /\ i \in 1 .. Len(stack[d])
    BY <1>8 DEF InRun
  <2> QED  BY <2>1 DEF IInv, RunOnce
<1>15. AddOnce'
  BY <1>10, <1>11 DEF IInv, AddOnce, Adding
<1>16. Lists'
  <2>1. \A u \in Task : Taker(u)' => Taker(u)
    BY <1>10, <1>11 DEF Taker
  <2>2. ASSUME NEW u \in Task, AddedTo(list[u], u)  PROVE AddedTo(list[u], u)'
    <3>1. \A j \in 1 .. Len(list[u]) : list[u][j] \in Continuation
      BY ListType, ElementOfSeq DEF IInv
    <3> QED  BY <1>0, <1>5, <2>2, <3>1 DEF AddedTo
  <2> QED  BY <1>0, <2>1, <2>2 DEF IInv, Lists, Once
<1>17. Statements'
  <2>1. ASSUME NEW d \in Context, d # c  PROVE StatementOK(d)'
    <3>1. StatementOK(d) /\ Top(d)' = Top(d) /\ stack'[d] = stack[d]
      BY <1>6, <1>10, <2>1 DEF IInv, Statements
    <3> QED  BY <1>0, <3>1 DEF StatementOK
  <2>2. StatementOK(c)'
    BY <1>11 DEF StatementOK, Taking
  <2> QED  BY <2>1, <2>2 DEF Statements
<1>18. Crossing'
  BY <1>2, <1>6, <1>10, <1>11 DEF Crossing, Taking, Context
<1>19. Homes' /\ TickInv'
  <2>1. \A x \in Continuation : phase'[x] # "new" => phase[x] # "new"
    BY <1>5
  <2> QED  BY <1>0, <1>2, <1>6, <2>1 DEF IInv, Homes, TickInv, OnCpu, Context
<1>20. NotForgotten'
  <2>1. ASSUME NEW x \in Continuation, phase'[x] = "taken"  PROVE Scheduled(x)'
    <3>1. Scheduled(x) /\ x \notin X
      BY <1>5, <2>1 DEF IInv, NotForgotten
    <3>2. ASSUME NEW d \in Context, NEW i \in 1 .. Len(stack[d]), InRun(d, i, x)
          PROVE  i \in 1 .. Len(stack'[d]) /\ InRun(d, i, x)'
      <4>1. ~(d = c /\ i \in m + 1 .. n)
        BY <1>3, <3>1, <3>2
      <4> QED  BY <1>9, <3>2, <4>1 DEF InRun
    <3> QED  BY <1>7, <3>1, <3>2, ScheduledKept
  <2>2. ASSUME NEW u \in Task, Completing(u)  PROVE Completing(u)'
    <3>1. ASSUME NEW d \in Context, NEW i \in 1 .. Len(stack[d]), stack[d][i].pc \in Taking
          PROVE  i \in 1 .. Len(stack'[d]) /\ stack'[d][i] = stack[d][i]
      <4>1. i = Len(stack[d])
        BY <3>1 DEF IInv, Frames, FrameOK, Taking, Calling
      <4>2. d # c
        BY <1>0, <1>2, <3>1, <4>1 DEF Taking
      <4> QED  BY <1>9, <4>2
    <3> QED  BY <1>7, <2>2, <3>1, CompletingKept
  <2>3. ASSUME NEW x \in Continuation, phase'[x] = "added", ~raced'[home'[x]]
        PROVE  Kept(x)'
    <3>1. /\ phase[x] = "added" /\ home[x] = home'[x] /\ home[x] \in Task /\ ~raced[home[x]]
      BY <1>0, <1>5, <2>3 DEF IInv, Homes
    <3>2. Kept(x)
      BY <3>1 DEF IInv, NotForgotten
    <3> QED  BY <1>0, <2>2, <3>1, <3>2 DEF Kept
  <2> QED  BY <2>1, <2>3 DEF NotForgotten
<1> QED  BY <1>7, <1>13, <1>14, <1>15, <1>16, <1>17, <1>18, <1>19, <1>20 DEF IInv

\* A tick begins or ends, a pass begins or ends, or nothing happens.
LEMMA IdleKeeps ==
  ASSUME IInv, BeginPass \/ EndPass \/ TimerTick \/ TickEnds \/ UNCHANGED vars
  PROVE  IInv'
<1>1. /\ UNCHANGED <<state, list, stack, calls, phase, home, raced>>
      /\ tick' \in BOOLEAN /\ passing' \in BOOLEAN
      /\ ~tick' => stack["Timer"] = <<>>
  BY DEF IInv, TypeOK, TickInv, BeginPass, EndPass, TimerTick, TickEnds, vars, taskVars, history
<1>2. \A c \in Context : Top(c)' = Top(c)
  BY <1>1 DEF Top, Last
<1>3. TypeOK' /\ Homes' /\ TickInv'
  BY <1>1 DEF IInv, TypeOK, Homes, TickInv
<1>4. Frames'
  BY <1>1, SMTT(30) DEF IInv, Frames, FrameOK, InPhase, AddedTo, Once
<1>9. AddOnce'
  BY <1>1, <1>2 DEF IInv, AddOnce
<1>5. RunOnce'
  <2>1. ASSUME NEW d \in Context  PROVE \A i \in 1 .. Len(stack'[d]) : \A x \in Continuation :
          InRun(d, i, x)' => InRun(d, i, x) /\ i \in 1 .. Len(stack[d])
    BY <1>1 DEF InRun
  <2> QED  BY <2>1 DEF IInv, RunOnce
<1>6. Lists'
  BY <1>1, <1>2 DEF IInv, Lists, Taker, AddedTo, Once
<1>7. Statements' /\ Crossing'
  BY <1>1, <1>2 DEF IInv, Statements, StatementOK, Crossing, Context
<1>8. NotForgotten'
  BY <1>1 DEF IInv, NotForgotten, Kept, Scheduled, Completing
<1> QED  BY <1>3, <1>4, <1>5, <1>6, <1>7, <1>8, <1>9 DEF IInv

-----------------------------------------------------------------------------
(* Invariance.                                                              *)

\* The invariant holds at the start.
LEMMA InitKeeps == Init => IInv
<1> SUFFICES ASSUME Init  PROVE IInv
  OBVIOUS
<1>1. \A c \in Context : stack[c] = <<>> /\ Len(stack[c]) = 0
  BY DEF Init
<1>2. \A k \in Continuation : phase[k] = "new"
  BY DEF Init
<1>3. \A t \in Task : list[t] = <<>> /\ Len(list[t]) = 0
  BY DEF Init
<1>4. TypeOK
  <2>1. stack \in [Context -> Seq(Activation)] /\ list \in [Task -> Seq(Continuation)]
    BY EmptySeq DEF Init
  <2> QED  BY <2>1 DEF Init, TypeOK, Phase
<1>5. NotForgotten /\ Homes
  BY <1>2 DEF NotForgotten, Homes
<1>6. Frames /\ RunOnce /\ AddOnce /\ Statements
  BY <1>1 DEF Frames, RunOnce, AddOnce, Statements, StatementOK
<1>7. Lists
  BY <1>3 DEF Lists, AddedTo, Once
<1>8. Crossing /\ TickInv
  BY <1>1 DEF Crossing, TickInv, Context
<1> QED  BY <1>4, <1>5, <1>6, <1>7, <1>8 DEF IInv

\* Every step keeps it: the statements, what user code does, ticks and passes.
LEMMA NextKeeps == IInv /\ [Next]_vars => IInv'
<1> SUFFICES ASSUME IInv, [Next]_vars  PROVE IInv'
  OBVIOUS
<1>1. ASSUME NEW c \in Context, Statement(c)  PROVE IInv'
  BY <1>1, AddCheckKeeps, AddReadKeeps, AddWriteKeeps, SetCheckKeeps, SetOutcomeKeeps,
     SetTakeKeeps, SetClearKeeps, RunNextKeeps, ReturnKeeps DEF Statement
<1>2. ASSUME NEW c \in Context, UserStep(c)  PROVE IInv'
  <2>1. CASE \E t \in Task : \E k \in Continuation : CallOnCompleted(c, t, k)
    BY <2>1, CallOnCompletedKeeps
  <2>2. CASE \E t \in Task : \E out \in Outcome : CallTrySet(c, t, out)
    BY <2>2, CallTrySetKeeps
  <2>3. CASE \E t \in Task : CallWait(c, t)
    BY <2>3, CallWaitKeeps
  <2>4. CASE Throw(c)
    BY <2>4, ThrowKeeps
  <2> QED  BY <1>2, <2>1, <2>2, <2>3, <2>4 DEF UserStep
<1>3. ASSUME NEW c \in Context, Return(c)  PROVE IInv'
  BY <1>3, ReturnKeeps
<1>4. CASE BeginPass \/ EndPass \/ TimerTick \/ TickEnds \/ UNCHANGED vars
  BY <1>4, IdleKeeps
<1> QED  BY <1>1, <1>2, <1>3, <1>4 DEF Next

\* The invariant holds always.
LEMMA Invariance == Spec => []IInv
BY InitKeeps, NextKeeps, PTL DEF Spec

\* No continuation is forgotten unless a tick raced a call of the application on its task
\* (OnCompleted, TrySetResult): it is in the delegate, or some call is about to run it.
THEOREM TasksAreSound == Spec => []Sound
<1>1. IInv => Sound
  BY DEF IInv, Sound
<1> QED  BY <1>1, Invariance, PTL

-----------------------------------------------------------------------------
(* What a step does to tasks and continuations.                             *)

\* A tick may have raced a call on t, and on no other task; what was raced stays so.
OnlyRaces(t) ==
  /\ raced' \in [Task -> BOOLEAN]
  /\ \A u \in Task : u # t => raced'[u] = raced[u]
  /\ raced[t] => raced'[t]

\* Nothing; an await begins; a completed task runs its continuation; a continuation is added;
\* an outcome is set; the continuations of a task are taken; one runs; some are dropped.
Quiet == UNCHANGED <<state, phase, home, raced>>
Asks(k, t) ==
  /\ phase[k] = "new" /\ phase' = [phase EXCEPT ![k] = "adding"]
  /\ home' = [home EXCEPT ![k] = t]
  /\ UNCHANGED <<state, raced>>
RunsAtOnce(k) ==
  /\ phase[k] = "adding" /\ phase' = [phase EXCEPT ![k] = "taken"]
  /\ home[k] \in Task /\ state[home[k]] # "pending"
  /\ UNCHANGED <<state, home, raced>>
IsAdded(k) ==
  /\ phase[k] = "adding" /\ phase' = [phase EXCEPT ![k] = "added"]
  /\ home[k] \in Task /\ OnlyRaces(home[k])
  /\ ~raced'[home[k]] => state[home[k]] = "pending"
  /\ UNCHANGED <<state, home>>
Completes(t, out) ==
  /\ state' = [state EXCEPT ![t] = out]
  /\ OnlyRaces(t)
  /\ ~raced'[t] => state[t] = "pending"
  /\ UNCHANGED <<phase, home>>
TakesAll(t, S) ==
  /\ state[t] # "pending"
  /\ \A k \in S : phase[k] = "added" /\ home[k] = t
  /\ phase' = [k \in Continuation |-> IF k \in S THEN "taken" ELSE phase[k]]
  /\ UNCHANGED <<state, home, raced>>
Runs(k) ==
  /\ phase[k] = "taken" /\ phase' = [phase EXCEPT ![k] = "ran"]
  /\ UNCHANGED <<state, home, raced>>
Drops(S) ==
  /\ \A k \in S : phase[k] = "taken"
  /\ phase' = [k \in Continuation |-> IF k \in S THEN "dropped" ELSE phase[k]]
  /\ UNCHANGED <<state, home, raced>>

\* One of these is what a step comes to, for the tasks and their continuations.
Effect ==
  \/ Quiet
  \/ \E k \in Continuation :
       (\E t \in Task : Asks(k, t)) \/ RunsAtOnce(k) \/ IsAdded(k) \/ Runs(k)
  \/ \E t \in Task :
       (\E out \in Outcome : Completes(t, out)) \/ (\E S \in SUBSET Continuation : TakesAll(t, S))
  \/ \E S \in SUBSET Continuation : Drops(S)

\* What a statement of OnCompleted, of a TrySet method or of Wait comes to.
LEMMA StatementEffect ==
  ASSUME IInv, NEW c \in Context, Statement(c)
  PROVE  Effect
<1> PICK a : a = Top(c)
  OBVIOUS
<1> PICK n : n = Len(stack[c])
  OBVIOUS
<1>0. OnCpu(c) /\ stack[c] # <<>>
  BY DEF Statement, AddCheck, AddRead, AddWrite, SetCheck, SetOutcome, SetTake, SetClear,
         RunNext, RunEnds, At
<1>1. /\ a \in Activation /\ a = stack[c][n] /\ n \in Nat /\ n > 0
      /\ FrameOK(c, n) /\ StatementOK(c)
      /\ a.seq \in Seq(Continuation)
      /\ \A x : x \in ToSet(a.seq) <=> \E m \in 1 .. Len(a.seq) : a.seq[m] = x
      /\ \A m \in 1 .. Len(a.seq) : a.seq[m] \in Continuation
      /\ c = "App" => stack["Timer"] = <<>>
  <2>1. /\ a \in Activation /\ a = stack[c][n] /\ n \in Nat /\ n > 0
        /\ FrameOK(c, n) /\ StatementOK(c) /\ (c = "App" => stack["Timer"] = <<>>)
    BY <1>0, OnTop
  <2>2. a.seq \in Seq(Continuation)
    BY <2>1 DEF Activation
  <2> QED  BY <2>1, <2>2, InToSet, ElementOfSeq
<1>2. CASE AddCheck(c)
  <2>1. CASE state[a.t] = "pending"
    <3>1. Quiet
      BY <1>2, <2>1 DEF AddCheck, Quiet, taskVars
    <3> QED  BY <3>1 DEF Effect
  <2>2. CASE state[a.t] # "pending"
    <3>1. a.k \in Continuation /\ phase[a.k] = "adding" /\ home[a.k] = a.t /\ a.t \in Task
      BY <1>1, <1>2 DEF AddCheck, At, FrameOK, Adding
    <3>2. RunsAtOnce(a.k)
      BY <1>2, <2>2, <3>1 DEF AddCheck, RunsAtOnce, taskVars
    <3> QED  BY <3>1, <3>2 DEF Effect
  <2> QED  BY <2>1, <2>2
<1>3. CASE AddWrite(c)
  <2>1. a.k \in Continuation /\ phase[a.k] = "adding" /\ home[a.k] = a.t /\ a.t \in Task
    BY <1>1, <1>3 DEF AddWrite, At, FrameOK, Adding
  <2>2. a.pc = "addWrite" /\ Touch(c, a.t)
    BY <1>3 DEF AddWrite, At
  <2>3. OnlyRaces(a.t)
    BY <2>1, <2>2, TouchFacts DEF OnlyRaces
  <2>4. raced[a.t] => raced'[a.t]
    BY <2>3 DEF OnlyRaces
  <2>5. ~raced'[a.t] => state[a.t] = "pending"
    BY <1>0, <1>1, <2>2, <2>4 DEF StatementOK
  <2>6. IsAdded(a.k)
    BY <1>3, <2>1, <2>3, <2>5 DEF AddWrite, IsAdded
  <2> QED  BY <2>1, <2>6 DEF Effect
<1>4. CASE SetOutcome(c)
  <2>1. a.t \in Task /\ a.out \in Outcome
    BY <1>1, <1>4 DEF SetOutcome, At, FrameOK, Activation
  <2>2. a.pc = "setOutcome" /\ Touch(c, a.t)
    BY <1>4 DEF SetOutcome, At
  <2>3. OnlyRaces(a.t)
    BY <2>1, <2>2, TouchFacts DEF OnlyRaces
  <2>4. raced[a.t] => raced'[a.t]
    BY <2>3 DEF OnlyRaces
  <2>5. ~raced'[a.t] => state[a.t] = "pending"
    BY <1>0, <1>1, <2>2, <2>4 DEF StatementOK
  <2>6. Completes(a.t, a.out)
    BY <1>4, <2>3, <2>5 DEF SetOutcome, Completes
  <2> QED  BY <2>1, <2>6 DEF Effect
<1>5. CASE SetClear(c)
  <2>1. a.t \in Task /\ a.pc = "setClear" /\ AddedTo(a.seq, a.t) /\ state[a.t] # "pending"
    BY <1>0, <1>1, <1>5 DEF SetClear, At, FrameOK, StatementOK, Taking
  <2>2. ToSet(a.seq) \in SUBSET Continuation
    BY <1>1
  <2>3. \A k \in ToSet(a.seq) : phase[k] = "added" /\ home[k] = a.t
    BY <1>1, <2>1 DEF AddedTo
  <2>4. TakesAll(a.t, ToSet(a.seq))
    BY <1>5, <2>1, <2>3 DEF SetClear, TakesAll
  <2> QED  BY <2>1, <2>2, <2>4 DEF Effect
<1>6. CASE RunNext(c)
  <2>1. a.pc = "run" /\ a.seq # <<>>
    BY <1>6 DEF RunNext, At
  <2>2. Head(a.seq) \in Continuation /\ Head(a.seq) = a.seq[1] /\ 1 \in 1 .. Len(a.seq)
    BY <1>1, <2>1, EmptySeq, HeadTailProperties
  <2>3. phase[Head(a.seq)] = "taken"
    BY <1>1, <2>1, <2>2 DEF FrameOK, InPhase
  <2>4. Runs(Head(a.seq))
    BY <1>6, <2>3 DEF RunNext, Runs, taskVars
  <2> QED  BY <2>2, <2>4 DEF Effect
<1>7. CASE AddRead(c) \/ SetCheck(c) \/ SetTake(c) \/ RunEnds(c)
  <2>1. Quiet
    BY <1>7 DEF AddRead, SetCheck, SetTake, RunEnds, Quiet, taskVars, history
  <2> QED  BY <2>1 DEF Effect
<1> QED  BY <1>2, <1>3, <1>4, <1>5, <1>6, <1>7 DEF Statement

\* What an exception comes to: the delegates of the calls it ends are dropped.
LEMMA ThrowEffect ==
  ASSUME IInv, NEW c \in Context, Throw(c)
  PROVE  Effect
<1>1. PICK m \in 0 .. Len(stack[c]) - 1 :
        phase' = [k \in Continuation |->
             IF \E i \in m + 1 .. Len(stack[c]) : k \in ToSet(stack[c][i].seq)
               THEN "dropped" ELSE phase[k]]
  BY DEF Throw
<1>2. PICK S : S = {k \in Continuation : \E i \in m + 1 .. Len(stack[c]) : k \in ToSet(stack[c][i].seq)}
  OBVIOUS
<1>3. OnCpu(c) /\ stack[c] # <<>> /\ Top(c).pc \in {"body", "wait"}
      /\ UNCHANGED <<state, home, raced>>
  BY DEF Throw, At, taskVars
<1>4. ASSUME NEW k \in S  PROVE phase[k] = "taken"
  <2>1. PICK i \in m + 1 .. Len(stack[c]) : k \in ToSet(stack[c][i].seq)
    BY <1>2
  <2>2. /\ i \in 1 .. Len(stack[c]) /\ stack[c][i] \in Activation /\ FrameOK(c, i)
        /\ Top(c) = stack[c][Len(stack[c])]
    BY <1>1, <1>3, StackType, OnTop DEF IInv, Frames
  <2>3. stack[c][i].pc \in Calling
    BY <1>3, <2>2 DEF FrameOK, Calling
  <2>4. stack[c][i].seq \in Seq(Continuation)
    BY <2>2 DEF Activation
  <2>5. PICK j \in 1 .. Len(stack[c][i].seq) : stack[c][i].seq[j] = k
    BY <2>1, <2>4, InToSet
  <2>6. stack[c][i].pc # "run" => stack[c][i].seq = <<>>
    BY <2>2, <2>3 DEF FrameOK, Calling
  <2>7. stack[c][i].pc = "run"
    BY <2>5, <2>6
  <2> QED  BY <2>2, <2>5, <2>7, SeqPhases
<1>5. Drops(S)
  BY <1>1, <1>2, <1>3, <1>4 DEF Drops
<1>6. S \in SUBSET Continuation
  BY <1>2
<1> QED  BY <1>5, <1>6 DEF Effect

\* What any step comes to.
LEMMA NextEffect == IInv /\ [Next]_vars => Effect
<1> SUFFICES ASSUME IInv, [Next]_vars  PROVE Effect
  OBVIOUS
<1>1. ASSUME NEW c \in Context, UserStep(c)  PROVE Effect
  <2>1. ASSUME NEW t \in Task, NEW k \in Continuation, CallOnCompleted(c, t, k)  PROVE Effect
    <3>1. Asks(k, t)
      BY <2>1 DEF CallOnCompleted, Asks, taskVars
    <3> QED  BY <3>1 DEF Effect
  <2>2. ASSUME NEW t \in Task, CallWait(c, t) \/ \E out \in Outcome : CallTrySet(c, t, out)
        PROVE  Effect
    <3>1. Quiet
      BY <2>2 DEF CallWait, CallTrySet, Quiet, taskVars, history
    <3> QED  BY <3>1 DEF Effect
  <2> QED  BY <1>1, <2>1, <2>2, ThrowEffect DEF UserStep
<1>2. ASSUME NEW c \in Context, Return(c)  PROVE Effect
  <2>1. Quiet
    BY <1>2 DEF Return, BodyReturns, WaitReturns, Quiet, taskVars, history
  <2> QED  BY <2>1 DEF Effect
<1>3. CASE BeginPass \/ EndPass \/ TimerTick \/ TickEnds \/ UNCHANGED vars
  <2>1. Quiet
    BY <1>3 DEF BeginPass, EndPass, TimerTick, TickEnds, Quiet, vars, taskVars, history
  <2> QED  BY <2>1 DEF Effect
<1> QED  BY <1>1, <1>2, <1>3, StatementEffect DEF Next

-----------------------------------------------------------------------------
(* An await resumes once.                                                   *)

\* What has run, or was dropped, stays so.
LEMMA RanStays ==
  IInv /\ Effect =>
    \A k \in Continuation : phase[k] \in {"ran", "dropped"} => phase'[k] = phase[k]
<1> SUFFICES ASSUME IInv, Effect, NEW x \in Continuation, phase[x] \in {"ran", "dropped"}
             PROVE  phase'[x] = phase[x]
  OBVIOUS
<1>1. phase \in [Continuation -> Phase]
  BY DEF IInv, TypeOK
<1> QED
  BY <1>1 DEF Effect, Quiet, Asks, RunsAtOnce, IsAdded, Runs, Completes, TakesAll, Drops

\* A continuation runs at most once, and not after an exception dropped it, even when a tick
\* races the calls of the application (TrySetResult takes the delegate before it runs it).
THEOREM AwaitsResumeOnce == Spec => ResumesOnce
<1>1. IInv /\ [Next]_vars =>
        [\A k \in Continuation : phase[k] \in {"ran", "dropped"} => phase'[k] = phase[k]]_vars
  BY NextEffect, RanStays
<1> QED  BY <1>1, Invariance, PTL DEF Spec, ResumesOnce

-----------------------------------------------------------------------------
(* A task keeps the promise.                                                *)

\* The fate of a continuation when none is lost, and the promise of the tasks.
FateOf(k) ==
  IF phase[k] \in {"new", "adding"} THEN "none"
  ELSE IF raced[home[k]] THEN "spoiled"
  ELSE IF phase[k] = "added" THEN IF state[home[k]] = "pending" THEN "waiting" ELSE "due"
  ELSE IF phase[k] = "taken" THEN "due"
  ELSE phase[k]

FatesAre == \A k \in Continuation : Fate(k) = FateOf(k)

outcomeBar == [t \in Task |-> IF raced[t] THEN "spoiled" ELSE state[t]]
ofBar == [k \in Continuation |-> IF phase[k] \in {"new", "adding"} THEN None ELSE home[k]]
fateBar == [k \in Continuation |-> Fate(k)]

\* In a state of the invariant no continuation is lost: Fate is FateOf.
LEMMA Fates == IInv => FatesAre
<1> SUFFICES ASSUME IInv, NEW k \in Continuation  PROVE Fate(k) = FateOf(k)
  BY DEF FatesAre
<1>1. phase[k] \in Phase
  BY DEF IInv, TypeOK
<1>2. phase[k] = "added" /\ ~raced[home[k]] => Kept(k)
  BY DEF IInv, NotForgotten
<1>3. phase[k] = "taken" => Scheduled(k)
  BY DEF IInv, NotForgotten
<1>4. CASE phase[k] \in {"new", "adding"}
  BY <1>4 DEF Fate, FateOf
<1>5. CASE phase[k] \notin {"new", "adding"} /\ raced[home[k]]
  BY <1>5 DEF Fate, FateOf
<1>6. CASE phase[k] = "added" /\ ~raced[home[k]]
  BY <1>2, <1>6 DEF Fate, FateOf
<1>7. CASE phase[k] = "taken" /\ ~raced[home[k]]
  BY <1>3, <1>7 DEF Fate, FateOf
<1>8. CASE phase[k] \in {"ran", "dropped"} /\ ~raced[home[k]]
  BY <1>8 DEF Fate, FateOf
<1> QED  BY <1>1, <1>4, <1>5, <1>6, <1>7, <1>8 DEF Phase

\* The same after a step.
LEMMA FatesNext == IInv' => FatesAre'
BY Fates, PTL

\* What the maps of the promise are, before and after a step.
LEMMA Bars ==
  ASSUME IInv, IInv'
  PROVE  /\ \A t \in Task : outcomeBar[t] = IF raced[t] THEN "spoiled" ELSE state[t]
         /\ \A t \in Task : outcomeBar'[t] = IF raced'[t] THEN "spoiled" ELSE state'[t]
         /\ \A k \in Continuation :
              ofBar[k] = IF phase[k] \in {"new", "adding"} THEN None ELSE home[k]
         /\ \A k \in Continuation :
              ofBar'[k] = IF phase'[k] \in {"new", "adding"} THEN None ELSE home'[k]
         /\ \A k \in Continuation : fateBar[k] = FateOf(k)
         /\ \A k \in Continuation : fateBar'[k] = FateOf(k)'
<1>1. FatesAre /\ FatesAre'
  BY Fates, FatesNext
<1> QED  BY <1>1 DEF outcomeBar, ofBar, fateBar, FatesAre

\* The promise does not change.
Stutters == UNCHANGED <<outcomeBar, ofBar, fateBar>>

\* When outcomes, homes and fates stay, the promise does.
LEMMA StuttersWhen ==
  ASSUME IInv, IInv',
         \A t \in Task : (IF raced[t] THEN "spoiled" ELSE state[t])
                           = (IF raced'[t] THEN "spoiled" ELSE state'[t]),
         \A k \in Continuation :
           /\ phase[k] \in {"new", "adding"} <=> phase'[k] \in {"new", "adding"}
           /\ phase[k] \notin {"new", "adding"} => home'[k] = home[k]
           /\ FateOf(k)' = FateOf(k)
  PROVE  Stutters
<1>1. \A k \in Continuation : Fate(k)' = Fate(k)
  BY Fates, FatesNext DEF FatesAre
<1>2. fateBar' = fateBar
  BY <1>1 DEF fateBar
<1>3. outcomeBar' = outcomeBar
  BY DEF outcomeBar
<1>4. ofBar' = ofBar
  BY DEF ofBar
<1> QED  BY <1>2, <1>3, <1>4 DEF Stutters

\* A step that changes no task and no continuation.
LEMMA QuietStutters ==
  ASSUME IInv, IInv', Quiet
  PROVE  Stutters
BY StuttersWhen DEF Quiet, FateOf

\* A call of OnCompleted begins: the promise does not know of it yet.
LEMMA AsksStutters ==
  ASSUME IInv, IInv', NEW k \in Continuation, NEW t \in Task, Asks(k, t)
  PROVE  Stutters
<1>1. \A x \in Continuation : x # k => phase'[x] = phase[x] /\ home'[x] = home[x]
  BY DEF Asks, IInv, TypeOK
<1>2. phase[k] = "new" /\ phase'[k] = "adding" /\ UNCHANGED <<state, raced>>
  BY DEF Asks, IInv, TypeOK
<1>3. \A x \in Continuation : FateOf(x)' = FateOf(x)
  BY <1>1, <1>2 DEF FateOf
<1> QED  BY <1>1, <1>2, <1>3, StuttersWhen

\* The delegate of a completed task is taken: its continuations were due already.
LEMMA TakesAllStutters ==
  ASSUME IInv, IInv', NEW t \in Task, NEW S \in SUBSET Continuation, TakesAll(t, S)
  PROVE  Stutters
<1>1. /\ \A x \in S : phase[x] = "added" /\ phase'[x] = "taken" /\ home[x] = t
      /\ \A x \in Continuation : x \notin S => phase'[x] = phase[x]
      /\ state[t] # "pending"
      /\ UNCHANGED <<state, home, raced>>
  BY DEF TakesAll
<1>2. \A x \in Continuation : FateOf(x)' = FateOf(x)
  BY <1>1 DEF FateOf
<1> QED  BY <1>1, <1>2, StuttersWhen

\* A completed task runs its continuation.
LEMMA RunsAtOnceSubscribes ==
  ASSUME IInv, IInv', NEW k \in Continuation, RunsAtOnce(k), NEW t \in Task, t = home[k]
  PROVE  Abstract!Subscribe(k, t)
<1>1. /\ \A x \in Continuation : x # k => phase'[x] = phase[x]
      /\ phase[k] = "adding" /\ phase'[k] = "taken"
      /\ UNCHANGED <<state, home, raced>>
      /\ state[t] # "pending"
      /\ state[t] # "spoiled"
  BY DEF RunsAtOnce, IInv, TypeOK, Outcome
<1>2. /\ FateOf(k) = "none"
      /\ FateOf(k)' = IF raced[t] THEN "spoiled" ELSE "due"
      /\ \A x \in Continuation : x # k => FateOf(x)' = FateOf(x)
  BY <1>1 DEF FateOf
<1>3. outcomeBar' = outcomeBar
  BY <1>1 DEF outcomeBar
<1>4. ofBar' = [ofBar EXCEPT ![k] = t]
  BY <1>1 DEF ofBar
<1>5. outcomeBar[t] = IF raced[t] THEN "spoiled" ELSE state[t]
  BY <1>1, Bars
<1>6. \A x \in Continuation : Fate(x) = FateOf(x) /\ Fate(x)' = FateOf(x)'
  BY Fates, FatesNext DEF FatesAre
<1>7. fateBar' = [fateBar EXCEPT ![k] = IF raced[t] THEN "spoiled" ELSE "due"]
  BY <1>2, <1>6 DEF fateBar
<1>8. (CASE outcomeBar[t] = "pending" -> "waiting"
         [] outcomeBar[t] = "spoiled" -> "spoiled"
         [] OTHER                  -> "due") = IF raced[t] THEN "spoiled" ELSE "due"
  BY <1>1, <1>5
<1>9. fateBar[k] = "none"
  BY <1>2, <1>6 DEF fateBar
<1> QED  BY <1>3, <1>4, <1>7, <1>8, <1>9 DEF Abstract!Subscribe, outcomeBar, ofBar, fateBar

\* A continuation is added to a pending task, or to a task that was spoilt before.
LEMMA AddedSubscribes ==
  ASSUME IInv, IInv', NEW k \in Continuation, IsAdded(k), NEW t \in Task, t = home[k],
         raced'[t] => raced[t]
  PROVE  Abstract!Subscribe(k, t)
<1>1. /\ \A x \in Continuation : x # k => phase'[x] = phase[x]
      /\ phase[k] = "adding" /\ phase'[k] = "added"
      /\ UNCHANGED <<state, home>>
      /\ t \in Task /\ ~raced[t] => state[t] = "pending"
  BY DEF IsAdded, OnlyRaces, IInv, TypeOK
<1>2. UNCHANGED raced
  <2>1. raced \in [Task -> BOOLEAN] /\ raced' \in [Task -> BOOLEAN]
    BY DEF IInv, TypeOK
  <2>2. \A u \in Task : u # t => raced'[u] = raced[u]
    BY DEF IsAdded, OnlyRaces
  <2>3. raced'[t] = raced[t]
    BY <2>1 DEF IsAdded, OnlyRaces
  <2> QED  BY <2>1, <2>2, <2>3
<1>4. /\ FateOf(k) = "none"
      /\ FateOf(k)' = IF raced[t] THEN "spoiled" ELSE "waiting"
      /\ \A x \in Continuation : x # k => FateOf(x)' = FateOf(x)
  BY <1>1, <1>2 DEF FateOf
<1>5. outcomeBar' = outcomeBar
  BY <1>1, <1>2 DEF outcomeBar
<1>6. ofBar' = [ofBar EXCEPT ![k] = t]
  BY <1>1 DEF ofBar
<1>7. outcomeBar[t] = IF raced[t] THEN "spoiled" ELSE "pending"
  BY <1>1, Bars
<1>8. \A x \in Continuation : Fate(x) = FateOf(x) /\ Fate(x)' = FateOf(x)'
  BY Fates, FatesNext DEF FatesAre
<1>9. fateBar' = [fateBar EXCEPT ![k] = IF raced[t] THEN "spoiled" ELSE "waiting"]
  BY <1>4, <1>8 DEF fateBar
<1>10. (CASE outcomeBar[t] = "pending" -> "waiting"
          [] outcomeBar[t] = "spoiled" -> "spoiled"
          [] OTHER                  -> "due") = IF raced[t] THEN "spoiled" ELSE "waiting"
  BY <1>7
<1>11. fateBar[k] = "none"
  BY <1>4, <1>8 DEF fateBar
<1> QED
  BY <1>5, <1>6, <1>9, <1>10, <1>11 DEF Abstract!Subscribe, outcomeBar, ofBar, fateBar

\* The first race on a task spoils it, with the continuations that the step adds to it.
LEMMA RaceSpoils ==
  ASSUME IInv, IInv', NEW t \in Task, NEW S \in SUBSET Continuation,
         OnlyRaces(t), raced'[t],
         \A u \in Task : u # t => state'[u] = state[u],
         \A x \in S : phase[x] = "adding" /\ phase'[x] = "added" /\ home[x] = t,
         \A x \in Continuation : x \notin S => phase'[x] = phase[x],
         UNCHANGED home
  PROVE  Abstract!Spoil(t)
<1>1. \A x \in Continuation : Fate(x) = FateOf(x) /\ Fate(x)' = FateOf(x)'
  BY Fates, FatesNext DEF FatesAre
<1>2. /\ raced' \in [Task -> BOOLEAN]
      /\ \A u \in Task : u # t => raced'[u] = raced[u]
  BY DEF OnlyRaces
<1>3. outcomeBar' = [outcomeBar EXCEPT ![t] = "spoiled"]
  BY <1>2 DEF outcomeBar
<1>4. \A x \in Continuation : phase[x] # "new" => home[x] \in Task
  BY DEF IInv, Homes
<1>5. None \notin Task
  BY NoneAssumption
<1>6. \A x \in Continuation : x \in S => FateOf(x) = "none"
  BY DEF FateOf
<1>7. ASSUME NEW x \in Continuation
      PROVE  /\ FateOf(x)' = IF ofBar'[x] = t THEN "spoiled" ELSE FateOf(x)
             /\ ofBar'[x] = IF x \in S THEN t ELSE ofBar[x]
  <2>1. /\ ofBar[x] = IF phase[x] \in {"new", "adding"} THEN None ELSE home[x]
        /\ ofBar'[x] = IF phase'[x] \in {"new", "adding"} THEN None ELSE home[x]
    BY Bars
  <2>2. CASE x \in S
    BY <2>1, <2>2 DEF FateOf
  <2>3. CASE x \notin S /\ phase[x] \in {"new", "adding"}
    BY <1>5, <2>1, <2>3 DEF FateOf
  <2>4. CASE x \notin S /\ phase[x] \notin {"new", "adding"}
    <3>1. phase'[x] = phase[x] /\ home[x] \in Task /\ ofBar'[x] = home[x] /\ ofBar[x] = home[x]
      BY <1>4, <2>1, <2>4
    <3>2. home[x] = t => FateOf(x)' = "spoiled"
      BY <2>4, <3>1 DEF FateOf
    <3>3. home[x] # t => FateOf(x)' = FateOf(x)
      BY <1>2, <2>4, <3>1 DEF FateOf
    <3> QED  BY <2>4, <3>1, <3>2, <3>3
  <2> QED  BY <2>2, <2>3, <2>4
<1>8. ofBar' = [x \in Continuation |-> IF x \in S THEN t ELSE ofBar[x]]
  BY <1>7 DEF ofBar
<1>9. fateBar' = [x \in Continuation |-> IF ofBar'[x] = t THEN "spoiled" ELSE fateBar[x]]
  BY <1>1, <1>7 DEF fateBar
<1>10. S \in SUBSET {x \in Continuation : fateBar[x] = "none"}
  BY <1>1, <1>6 DEF fateBar
<1> QED  BY <1>3, <1>8, <1>9, <1>10 DEF Abstract!Spoil, outcomeBar, ofBar, fateBar

\* The outcome of a task that no tick raced settles its promise.
LEMMA CompletesSettles ==
  ASSUME IInv, IInv', NEW t \in Task, NEW out \in Outcome, Completes(t, out), ~raced'[t]
  PROVE  Abstract!Settle(t, out)
<1>1. \A x \in Continuation : Fate(x) = FateOf(x) /\ Fate(x)' = FateOf(x)'
  BY Fates, FatesNext DEF FatesAre
<1>2. UNCHANGED <<phase, home, raced>> /\ state[t] = "pending" /\ ~raced[t]
  <2>1. raced \in [Task -> BOOLEAN] /\ raced' \in [Task -> BOOLEAN]
    BY DEF IInv, TypeOK
  <2>2. (\A u \in Task : u # t => raced'[u] = raced[u]) /\ ~raced[t]
    BY DEF Completes, OnlyRaces
  <2>3. raced' = raced
    <3>1. raced'[t] = raced[t]
      BY <2>1, <2>2
    <3> QED  BY <2>1, <2>2, <3>1
  <2> QED  BY <2>2, <2>3 DEF Completes
<1>3. state'[t] = out /\ out # "pending" /\ (\A u \in Task : u # t => state'[u] = state[u])
  BY DEF Completes, IInv, TypeOK, Outcome
<1>4. outcomeBar[t] = "pending" /\ outcomeBar' = [outcomeBar EXCEPT ![t] = out]
  BY <1>2, <1>3 DEF outcomeBar
<1>5. ofBar' = ofBar
  BY <1>2 DEF ofBar
<1>6. \A x \in Continuation : phase[x] # "new" => home[x] \in Task
  BY DEF IInv, Homes
<1>7. ASSUME NEW x \in Continuation
      PROVE  FateOf(x)' = IF ofBar[x] = t /\ FateOf(x) = "waiting" THEN "due" ELSE FateOf(x)
  <2>1. ofBar[x] = IF phase[x] \in {"new", "adding"} THEN None ELSE home[x]
    BY Bars
  <2>2. phase[x] \in Phase
    BY DEF IInv, TypeOK
  <2> QED  BY <1>2, <1>3, <1>6, <2>1, <2>2 DEF FateOf, Phase
<1>8. fateBar' = [x \in Continuation |->
                    IF ofBar[x] = t /\ fateBar[x] = "waiting" THEN "due" ELSE fateBar[x]]
  BY <1>1, <1>7 DEF fateBar
<1> QED  BY <1>4, <1>5, <1>8 DEF Abstract!Settle, outcomeBar, ofBar, fateBar

\* The outcome of a task that was spoilt before changes nothing.
LEMMA CompletesStutters ==
  ASSUME IInv, IInv', NEW t \in Task, NEW out \in Outcome, Completes(t, out), raced[t]
  PROVE  Stutters
<1>1. /\ UNCHANGED <<phase, home>> /\ raced[t] /\ raced'[t]
      /\ \A u \in Task : u # t => raced'[u] = raced[u] /\ state'[u] = state[u]
  BY DEF Completes, OnlyRaces, IInv, TypeOK
<1>2. \A x \in Continuation : phase[x] # "new" => home[x] \in Task
  BY DEF IInv, Homes
<1>3. \A x \in Continuation : FateOf(x)' = FateOf(x)
  BY <1>1, <1>2 DEF FateOf
<1> QED  BY <1>1, <1>3, StuttersWhen

\* A continuation runs.
LEMMA RunsRun ==
  ASSUME IInv, IInv', NEW k \in Continuation, Runs(k)
  PROVE  Abstract!Run(k) \/ Stutters
<1>1. /\ phase[k] = "taken" /\ phase'[k] = "ran"
      /\ \A x \in Continuation : x # k => phase'[x] = phase[x]
      /\ UNCHANGED <<state, home, raced>>
  BY DEF Runs, IInv, TypeOK
<1>2. CASE raced[home[k]]
  <2>1. \A x \in Continuation : FateOf(x)' = FateOf(x)
    BY <1>1, <1>2 DEF FateOf
  <2> QED  BY <1>1, <2>1, StuttersWhen
<1>3. CASE ~raced[home[k]]
  <2>1. \A x \in Continuation : Fate(x) = FateOf(x) /\ Fate(x)' = FateOf(x)'
    BY Fates, FatesNext DEF FatesAre
  <2>2. /\ FateOf(k) = "due" /\ FateOf(k)' = "ran"
        /\ \A x \in Continuation : x # k => FateOf(x)' = FateOf(x)
    BY <1>1, <1>3 DEF FateOf
  <2>3. fateBar[k] = "due" /\ fateBar' = [fateBar EXCEPT ![k] = "ran"]
    BY <2>1, <2>2 DEF fateBar
  <2>4. outcomeBar' = outcomeBar /\ ofBar' = ofBar
    BY <1>1 DEF outcomeBar, ofBar
  <2> QED  BY <2>3, <2>4 DEF Abstract!Run, outcomeBar, ofBar, fateBar
<1> QED  BY <1>2, <1>3

\* Continuations are dropped.
LEMMA DropsDrop ==
  ASSUME IInv, IInv', NEW S \in SUBSET Continuation, Drops(S)
  PROVE  \E K \in SUBSET Continuation : Abstract!Drop(K)
<1>1. /\ \A x \in S : phase[x] = "taken" /\ phase'[x] = "dropped"
      /\ \A x \in Continuation : x \notin S => phase'[x] = phase[x]
      /\ UNCHANGED <<state, home, raced>>
  BY DEF Drops, IInv, TypeOK
<1>2. PICK K : K = {x \in S : ~raced[home[x]]}
  OBVIOUS
<1>3. \A x \in Continuation : Fate(x) = FateOf(x) /\ Fate(x)' = FateOf(x)'
  BY Fates, FatesNext DEF FatesAre
<1>4. \A x \in K : FateOf(x) = "due"
  BY <1>1, <1>2 DEF FateOf
<1>5. \A x \in Continuation : FateOf(x)' = IF x \in K THEN "dropped" ELSE FateOf(x)
  BY <1>1, <1>2 DEF FateOf
<1>6. K \in SUBSET Continuation
  BY <1>2
<1>7. (\A x \in K : fateBar[x] = "due")
      /\ fateBar' = [x \in Continuation |-> IF x \in K THEN "dropped" ELSE fateBar[x]]
  BY <1>3, <1>4, <1>5, <1>6 DEF fateBar
<1>8. outcomeBar' = outcomeBar /\ ofBar' = ofBar
  BY <1>1 DEF outcomeBar, ofBar
<1>9. Abstract!Drop(K)
  BY <1>7, <1>8 DEF Abstract!Drop, outcomeBar, ofBar, fateBar
<1> QED  BY <1>6, <1>9

\* Every effect is a step of the promise, or none.
LEMMA StepPromises ==
  ASSUME IInv, IInv', Effect
  PROVE  Abstract!Next \/ UNCHANGED Abstract!vars
<1>1. Stutters => UNCHANGED Abstract!vars
  BY DEF Stutters, Abstract!vars, outcomeBar, ofBar, fateBar
<1>2. ASSUME NEW k \in Continuation, NEW t \in Task, Abstract!Subscribe(k, t)
      PROVE  Abstract!Next
  BY <1>2 DEF Abstract!Next
<1>3. ASSUME NEW t \in Task, Abstract!Spoil(t) \/ \E out \in Outcome : Abstract!Settle(t, out)
      PROVE  Abstract!Next
  BY <1>3 DEF Abstract!Next
<1>4. CASE Quiet
  BY <1>1, <1>4, QuietStutters
<1>5. ASSUME NEW k \in Continuation, NEW t \in Task, Asks(k, t)
      PROVE  UNCHANGED Abstract!vars
  BY <1>1, <1>5, AsksStutters
<1>6. ASSUME NEW k \in Continuation, RunsAtOnce(k)
      PROVE  Abstract!Next
  <2>1. PICK t \in Task : t = home[k]
    BY <1>6 DEF RunsAtOnce
  <2> QED  BY <1>2, <1>6, <2>1, RunsAtOnceSubscribes
<1>7. ASSUME NEW k \in Continuation, IsAdded(k)
      PROVE  Abstract!Next
  <2>1. PICK t \in Task : t = home[k]
    BY <1>7 DEF IsAdded
  <2>2. CASE raced'[t] => raced[t]
    BY <1>2, <1>7, <2>1, <2>2, AddedSubscribes
  <2>3. CASE raced'[t]
    <3>1. /\ phase[k] = "adding" /\ phase'[k] = "added" /\ OnlyRaces(t)
          /\ \A x \in Continuation : x # k => phase'[x] = phase[x]
          /\ UNCHANGED <<state, home>>
      BY <1>7, <2>1 DEF IsAdded, IInv, TypeOK
    <3>2. PICK S : S = {k}
      OBVIOUS
    <3>3. /\ S \in SUBSET Continuation
          /\ \A x \in S : phase[x] = "adding" /\ phase'[x] = "added" /\ home[x] = t
          /\ \A x \in Continuation : x \notin S => phase'[x] = phase[x]
      BY <2>1, <3>1, <3>2
    <3>4. Abstract!Spoil(t)
      BY <2>1, <2>3, <3>1, <3>3, RaceSpoils
    <3> QED  BY <1>3, <2>1, <3>4
  <2> QED  BY <2>2, <2>3
<1>8. ASSUME NEW t \in Task, NEW out \in Outcome, Completes(t, out)
      PROVE  Abstract!Next \/ UNCHANGED Abstract!vars
  <2>1. CASE ~raced'[t]
    BY <1>3, <1>8, <2>1, CompletesSettles
  <2>2. CASE raced[t]
    BY <1>1, <1>8, <2>2, CompletesStutters
  <2>3. CASE raced'[t]
    <3>1. /\ OnlyRaces(t) /\ UNCHANGED <<phase, home>>
          /\ \A u \in Task : u # t => state'[u] = state[u]
      BY <1>8 DEF Completes, IInv, TypeOK
    <3>2. PICK S : S = {}
      OBVIOUS
    <3>3. /\ S \in SUBSET Continuation
          /\ \A x \in S : phase[x] = "adding" /\ phase'[x] = "added" /\ home[x] = t
          /\ \A x \in Continuation : x \notin S => phase'[x] = phase[x]
      BY <3>1, <3>2
    <3>4. Abstract!Spoil(t)
      BY <2>3, <3>1, <3>3, RaceSpoils
    <3> QED  BY <1>3, <3>4
  <2> QED  BY <2>1, <2>2, <2>3
<1>9. ASSUME NEW t \in Task, NEW S \in SUBSET Continuation, TakesAll(t, S)
      PROVE  UNCHANGED Abstract!vars
  BY <1>1, <1>9, TakesAllStutters
<1>10. ASSUME NEW k \in Continuation, Runs(k)
       PROVE  Abstract!Next \/ UNCHANGED Abstract!vars
  BY <1>1, <1>10, RunsRun DEF Abstract!Next
<1>11. ASSUME NEW S \in SUBSET Continuation, Drops(S)
       PROVE  Abstract!Next
  BY <1>11, DropsDrop DEF Abstract!Next
<1> QED
  BY <1>4, <1>5, <1>6, <1>7, <1>8, <1>9, <1>10, <1>11 DEF Effect

\* The first states are first states of the promise.
LEMMA InitPromises == Init => Abstract!Init
<1> SUFFICES ASSUME Init  PROVE Abstract!Init
  OBVIOUS
<1>1. \A k \in Continuation : Fate(k) = "none" /\ phase[k] = "new"
  BY DEF Init, Fate
<1>2. \A t \in Task : ~raced[t] /\ state[t] = "pending"
  BY DEF Init
<1> QED  BY <1>1, <1>2 DEF Abstract!Init

\* Tasks implement Promise, a task spoilt by a tick's race excepted: continuations subscribe,
\* an outcome settles once, and each continuation runs after it, once, or is dropped by an exception.
THEOREM TasksKeepPromise == Spec => KeepsPromise
<1>1. IInv /\ IInv' /\ [Next]_vars => [Abstract!Next]_(Abstract!vars)
  BY NextEffect, StepPromises
<1> QED  BY <1>1, InitPromises, Invariance, PTL DEF Spec, KeepsPromise, Abstract!Spec

-----------------------------------------------------------------------------
(* WhenAll and WhenAny: the inductive invariant.                            *)

\* A continuation that runs is that of a task which is done and was awaited.
CombTurns ==
  \A c \in C!Context : cont[c].pc # "none" =>
    /\ cont[c].i \in C!Index /\ cont[c].i < next /\ cont[c].i \notin attached
    /\ input[cont[c].i] # "pending"
CombWaits ==
  \A i \in C!Index :
    /\ i \in attached => i < next
    /\ i < next /\ input[i] = "pending" => i \in attached

\* Two continuations run at once only in a tick that found the application inside one.
CombApart ==
  /\ ~combTick => cont["Timer"].pc = "none"
  /\ cont["App"].pc # "none" /\ cont["Timer"].pc # "none" =>
       combRaced /\ cont["App"].i # cont["Timer"].i

\* What is noted of the tasks whose continuation has got past the note.
Noted(i) ==
  /\ i < next /\ i \notin attached
  /\ \A c \in C!Context : ~(cont[c].pc = "note" /\ cont[c].i = i)
CombNotes ==
  /\ \A i \in C!Index : Noted(i) =>
       /\ input[i] = "faulted" => i \in failures
       /\ input[i] = "canceled" => canceled
       /\ input[i] = "completed" => i \in results
  /\ \A i \in failures : input[i] = "faulted"
  /\ canceled => \E i \in C!Index : input[i] = "canceled"

Deciding == {"finish", "check", "set"}
CombCount ==
  /\ remaining >= Cardinality(C!Outstanding)
  /\ \A c \in C!Context : cont[c].pc = "write" => cont[c].seen >= Cardinality(C!Outstanding)
  /\ ~combRaced =>
       /\ remaining = Cardinality(C!Outstanding)
       /\ \A c \in C!Context : cont[c].pc = "write" => cont[c].seen = remaining
CombDecides ==
  (combState # "pending" \/ \E c \in C!Context : cont[c].pc \in Deciding) => C!Outstanding = {}
CombAll == kind = "all" => CombNotes /\ CombCount /\ CombDecides /\ C!AllVerdict

CombAny ==
  kind = "any" =>
    /\ \A c \in C!Context : cont[c].pc # "note"
    /\ completed = 0 => combState = "pending" /\ \A c \in C!Context : cont[c].pc \notin Deciding
    /\ ~combRaced =>
         /\ \A c \in C!Context : cont[c].pc = "write" => cont[c].seen = completed
         /\ \A c \in C!Context : cont[c].pc \in Deciding => combState = "pending"
         /\ combState # "pending" => result = first

CombInv ==
  /\ C!TypeOK /\ CombTurns /\ CombWaits /\ CombApart /\ C!WinnerIsDone /\ CombAll /\ CombAny
-----------------------------------------------------------------------------
(* Turns, and the tasks outstanding.                                        *)

\* The statements of a continuation before it has counted down.
Counting == {"note", "read", "write"}

\* The list has a task.
LEMMA ListSize == N \in Nat /\ N > 0
BY ListAssumption DEF C!NAssumption

\* Which tasks are outstanding, and that they are finitely many.
LEMMA OutstandingNow ==
  ASSUME C!TypeOK, CombTurns
  PROVE  /\ C!Outstanding \subseteq C!Index /\ IsFiniteSet(C!Outstanding)
         /\ Cardinality(C!Outstanding) \in Nat
         /\ \A j \in C!Index :
              j \in C!Outstanding <=>
                \/ j \in attached \/ ~(j < next)
                \/ \E d \in C!Context : cont[d].pc \in Counting /\ cont[d].i = j
<1>1. N \in Nat /\ next \in 1 .. N + 1 /\ attached \subseteq 1 .. N
  BY ListSize DEF C!TypeOK, C!Index
<1>2. \A d \in C!Context : cont[d].pc \in Counting => cont[d].i \in 1 .. N
  BY DEF CombTurns, Counting, C!Index
<1>3. C!Outstanding \subseteq 1 .. N
  <2>1. \A j \in next .. N : j \in 1 .. N
    BY <1>1
  <2>2. \A j \in {cont[c].i : c \in {d \in C!Context : cont[d].pc \in Counting}} : j \in 1 .. N
    BY <1>2
  <2> QED  BY <1>1, <2>1, <2>2 DEF C!Outstanding, Counting
<1>4. IsFiniteSet(1 .. N)
  BY <1>1, FS_Interval
<1>5. IsFiniteSet(C!Outstanding) /\ Cardinality(C!Outstanding) \in Nat
  BY <1>3, <1>4, FS_Subset, FS_CardinalityType
<1>6. ASSUME NEW j \in 1 .. N
      PROVE  j \in C!Outstanding <=>
                \/ j \in attached \/ ~(j < next)
                \/ \E d \in C!Context : cont[d].pc \in Counting /\ cont[d].i = j
  <2>1. j \in next .. N <=> ~(j < next)
    BY <1>1
  <2> QED  BY <2>1 DEF C!Outstanding, Counting
<1> QED  BY <1>3, <1>5, <1>6 DEF C!Index

\* Which tasks are outstanding after a step.
LEMMA OutstandingNext ==
  ASSUME C!TypeOK', CombTurns'
  PROVE  /\ C!Outstanding' \subseteq C!Index
         /\ \A j \in C!Index :
              j \in C!Outstanding' <=>
                \/ j \in attached' \/ ~(j < next')
                \/ \E d \in C!Context : cont'[d].pc \in Counting /\ cont'[d].i = j
<1>1. N \in Nat /\ next' \in 1 .. N + 1 /\ attached' \subseteq 1 .. N
  BY ListSize DEF C!TypeOK, C!Index
<1>2. \A d \in C!Context : cont'[d].pc \in Counting => cont'[d].i \in 1 .. N
  BY DEF CombTurns, Counting, C!Index
<1>3. C!Outstanding' \subseteq 1 .. N
  <2>1. \A j \in next' .. N : j \in 1 .. N
    BY <1>1
  <2>2. \A j \in {cont'[c].i : c \in {d \in C!Context : cont'[d].pc \in Counting}} : j \in 1 .. N
    BY <1>2
  <2> QED  BY <1>1, <2>1, <2>2 DEF C!Outstanding, Counting
<1>6. ASSUME NEW j \in 1 .. N
      PROVE  j \in C!Outstanding' <=>
                \/ j \in attached' \/ ~(j < next')
                \/ \E d \in C!Context : cont'[d].pc \in Counting /\ cont'[d].i = j
  <2>1. j \in next' .. N <=> ~(j < next')
    BY <1>1
  <2> QED  BY <2>1 DEF C!Outstanding, Counting
<1> QED  BY <1>3, <1>6 DEF C!Index

\* A task that is not done is outstanding.
LEMMA PendingIsOut ==
  ASSUME CombInv, NEW i \in C!Index, input[i] = "pending"
  PROVE  i \in C!Outstanding
<1>1. i \in attached \/ ~(i < next)
  BY DEF CombInv, CombWaits
<1> QED  BY <1>1, OutstandingNow DEF CombInv

\* Context c is at a statement of a continuation; nothing else moves.
Turned(c, i, pc, seen) ==
  /\ cont' \in [C!Context -> C!Turn]
  /\ cont'[c].i = i /\ cont'[c].pc = pc /\ cont'[c].seen = seen
  /\ \A d \in C!Context : d # c => cont'[d] = cont[d]

\* The parts of a turn.
LEMMA TurnType ==
  ASSUME C!TypeOK, NEW c \in C!Context
  PROVE  /\ cont \in [C!Context -> C!Turn]
         /\ cont[c] \in C!Turn /\ cont[c].i \in 0 .. N /\ cont[c].pc \in C!Pc /\ cont[c].seen \in 0 .. N
         /\ cont[c] = [i |-> cont[c].i, pc |-> cont[c].pc, seen |-> cont[c].seen]
BY DEF C!TypeOK, C!Turn

\* A turn that is replaced.
LEMMA SetTurn ==
  ASSUME C!TypeOK, NEW c \in C!Context, NEW t \in C!Turn, cont' = [cont EXCEPT ![c] = t]
  PROVE  Turned(c, t.i, t.pc, t.seen)
<1>1. cont \in [C!Context -> C!Turn]
  BY TurnType
<1> QED  BY <1>1 DEF Turned

\* A turn that goes to another statement.
LEMMA GotoTurn ==
  ASSUME C!TypeOK, NEW c \in C!Context, NEW pc \in C!Pc, C!Goto(c, pc)
  PROVE  Turned(c, cont[c].i, pc, cont[c].seen)
<1>1. cont \in [C!Context -> C!Turn] /\ cont[c] \in C!Turn
  BY TurnType
<1>2. PICK t \in C!Turn : t = [cont[c] EXCEPT !.pc = pc] /\ t.i = cont[c].i /\ t.pc = pc /\ t.seen = cont[c].seen
  <2>1. /\ [cont[c] EXCEPT !.pc = pc] \in C!Turn
        /\ [cont[c] EXCEPT !.pc = pc].i = cont[c].i /\ [cont[c] EXCEPT !.pc = pc].pc = pc
        /\ [cont[c] EXCEPT !.pc = pc].seen = cont[c].seen
    BY <1>1 DEF C!Turn
  <2> QED  BY <2>1
<1>3. cont' = [cont EXCEPT ![c] = t]
  BY <1>1, <1>2 DEF C!Goto
<1> QED  BY <1>2, <1>3, SetTurn

\* A turn that ends.
LEMMA LeaveTurn ==
  ASSUME C!TypeOK, NEW c \in C!Context, C!Leave(c)
  PROVE  Turned(c, 0, "none", 0)
<1>1. PICK t \in C!Turn : t = C!Idle /\ t.i = 0 /\ t.pc = "none" /\ t.seen = 0
  <2>1. C!Idle \in C!Turn /\ C!Idle.i = 0 /\ C!Idle.pc = "none" /\ C!Idle.seen = 0
    BY ListSize DEF C!Idle, C!Turn, C!Pc
  <2> QED  BY <2>1
<1>2. cont' = [cont EXCEPT ![c] = t]
  BY <1>1 DEF C!Leave
<1> QED  BY <1>1, <1>2, SetTurn

\* While the application works no tick is inside a continuation.
LEMMA OnlyOne ==
  ASSUME CombInv, NEW c \in C!Context, C!OnCpu(c), NEW d \in C!Context, d # c, cont[d].pc # "none"
  PROVE  c = "Timer" /\ d = "App"
BY DEF CombInv, CombApart, C!OnCpu, C!Context
-----------------------------------------------------------------------------
(* A task is awaited, or done.                                              *)

\* What was done stays done; nothing but the list of tasks and the turns changes.
ListOnly ==
  /\ UNCHANGED <<kind, remaining, failures, canceled, results, completed, combState, result, first, combTick>>
  /\ input' \in [C!Index -> {"pending"} \cup C!Outcome]
  /\ next' \in 1 .. N + 1 /\ attached' \subseteq C!Index
  /\ found' \in BOOLEAN /\ (found' => next' \in C!Index)
  /\ \A j \in C!Index : input[j] # "pending" => input'[j] = input[j]

\* Task i leaves the list of those that wait.
Leaves(i) ==
  /\ i \in attached \/ ~(i < next)
  /\ i \notin attached' /\ i < next' /\ input'[i] # "pending"
  /\ \A j \in C!Index \ {i} :
       (j \in attached' <=> j \in attached) /\ (j < next' <=> j < next) /\ input'[j] = input[j]

\* The turn that a continuation begins with.
LEMMA EnterTurn ==
  ASSUME C!TypeOK, NEW c \in C!Context, NEW i \in C!Index, C!Enter(c, i)
  PROVE  Turned(c, i, IF kind = "all" THEN "note" ELSE "read", 0)
<1> DEFINE pc == IF kind = "all" THEN "note" ELSE "read"
<1>1. PICK t : t = [i |-> i, pc |-> pc, seen |-> 0]
  OBVIOUS
<1>2. t \in C!Turn /\ t.i = i /\ t.pc = pc /\ t.seen = 0
  BY <1>1, ListSize DEF C!Turn, C!Pc, C!Index
<1>3. cont' = [cont EXCEPT ![c] = t]
  BY <1>1 DEF C!Enter
<1> QED  BY <1>2, <1>3, SetTurn

\* A continuation begins: its task was outstanding and still is.
LEMMA EnterKeeps ==
  ASSUME CombInv, NEW c \in C!Context, C!OnCpu(c), cont[c].pc = "none",
         NEW i \in C!Index, C!Enter(c, i), Leaves(i), ListOnly
  PROVE  CombInv'
<1> DEFINE pc == IF kind = "all" THEN "note" ELSE "read"
<1>1. C!TypeOK /\ CombTurns /\ CombWaits /\ CombApart
  BY DEF CombInv
<1>2. /\ cont' \in [C!Context -> C!Turn]
      /\ cont'[c].i = i /\ cont'[c].pc = pc
      /\ \A d \in C!Context : d # c => cont'[d] = cont[d]
  BY <1>1, EnterTurn DEF Turned
<1>3. \A d \in C!Context : d # c /\ cont[d].pc # "none" => cont[d].i # i
  BY <1>1 DEF CombTurns, Leaves
<1>4. combRaced' = (combRaced \/ (c = "Timer" /\ cont["App"].pc # "none")) /\ combRaced \in BOOLEAN
  BY <1>1 DEF C!Enter, C!TypeOK
<1>5. C!TypeOK'
  BY <1>1, <1>2, <1>4 DEF C!TypeOK, ListOnly
<1>6. CombTurns'
  <2>1. ASSUME NEW d \in C!Context, cont'[d].pc # "none"
        PROVE  cont'[d].i \in C!Index /\ cont'[d].i < next' /\ cont'[d].i \notin attached' /\ input'[cont'[d].i] # "pending"
    <3>1. CASE d = c
      BY <3>1, <1>2 DEF Leaves
    <3>2. CASE d # c
      BY <2>1, <3>2, <1>1, <1>2, <1>3 DEF Leaves, CombTurns
    <3> QED  BY <3>1, <3>2
  <2> QED  BY <2>1 DEF CombTurns
<1>7. CombWaits'
  <2>1. ASSUME NEW j \in C!Index
        PROVE  (j \in attached' => j < next') /\ (j < next' /\ input'[j] = "pending" => j \in attached')
    BY <1>1 DEF Leaves, CombWaits
  <2> QED  BY <2>1 DEF CombWaits
<1>8. CombApart'
  <2>1. \A d \in C!Context : d # c /\ cont[d].pc # "none" => c = "Timer" /\ d = "App"
    BY OnlyOne
  <2>2. ~combTick' => cont'["Timer"].pc = "none"
    BY <1>1, <1>2 DEF ListOnly, C!OnCpu, CombApart, C!Context
  <2>3. cont'["App"].pc # "none" /\ cont'["Timer"].pc # "none" => combRaced' /\ cont'["App"].i # cont'["Timer"].i
    BY <1>2, <1>3, <1>4, <2>1 DEF C!Context
  <2> QED  BY <2>2, <2>3 DEF CombApart
<1>9. C!WinnerIsDone'
  BY <1>1 DEF CombInv, C!WinnerIsDone, ListOnly, C!TypeOK, C!Index
<1>10. ASSUME kind = "all"  PROVE  CombAll'
  <2>1. pc = "note"
    BY <1>10
  <2>2. CombNotes /\ CombCount /\ CombDecides /\ C!AllVerdict
    BY <1>10 DEF CombInv, CombAll
  <2>3. i \in C!Outstanding
    BY <1>1, OutstandingNow DEF Leaves
  <2>4. C!Outstanding' = C!Outstanding
    <3>1. \A j \in C!Index : j \in C!Outstanding' <=>
            \/ j \in attached' \/ ~(j < next')
            \/ \E d \in C!Context : cont'[d].pc \in Counting /\ cont'[d].i = j
      BY <1>5, <1>6, OutstandingNext
    <3>2. \A j \in C!Index : j \in C!Outstanding <=>
            \/ j \in attached \/ ~(j < next)
            \/ \E d \in C!Context : cont[d].pc \in Counting /\ cont[d].i = j
      BY <1>1, OutstandingNow
    <3>3. ASSUME NEW j \in C!Index, j # i  PROVE  j \in C!Outstanding' <=> j \in C!Outstanding
      BY <3>1, <3>2, <3>3, <1>2, <2>1 DEF Leaves, Counting
    <3>4. i \in C!Outstanding'
      BY <3>1, <1>2, <2>1 DEF Counting
    <3>5. C!Outstanding \subseteq C!Index /\ C!Outstanding' \subseteq C!Index
      BY <1>1, <1>5, <1>6, OutstandingNow, OutstandingNext
    <3> QED  BY <2>3, <3>3, <3>4, <3>5
  <2>5. combState = "pending" /\ \A d \in C!Context : cont[d].pc \notin Deciding
    BY <2>2, <2>3 DEF CombDecides
  <2>6. combState' = "pending" /\ \A d \in C!Context : cont'[d].pc \notin Deciding
    BY <2>1, <2>5, <1>2 DEF ListOnly, Deciding
  <2>7. CombNotes'
    <3>1. ASSUME NEW j \in C!Index, Noted(j)'  PROVE  Noted(j) /\ j # i
      <4>1. j # i
        BY <3>1, <1>2, <2>1 DEF Noted
      <4>2. \A d \in C!Context : ~(cont[d].pc = "note" /\ cont[d].i = j)
        BY <3>1, <1>2 DEF Noted
      <4> QED  BY <3>1, <4>1, <4>2 DEF Noted, Leaves
    <3>2. \A j \in failures : j \in C!Index /\ input[j] = "faulted"
      BY <1>1, <2>2 DEF CombNotes, C!TypeOK
    <3> QED  BY <3>1, <3>2, <2>2 DEF CombNotes, ListOnly, Leaves
  <2>8. CombCount'
    BY <2>1, <2>2, <2>4, <1>2, <1>4 DEF CombCount, ListOnly
  <2>9. CombDecides' /\ C!AllVerdict'
    BY <2>6 DEF CombDecides, C!AllVerdict
  <2> QED  BY <2>7, <2>8, <2>9 DEF CombAll
<1>11. ASSUME kind # "all"  PROVE  CombAny'
  <2>1. pc = "read" /\ CombAny /\ kind = "any"
    BY <1>11, <1>1 DEF CombInv, C!TypeOK
  <2> QED  BY <2>1, <1>2, <1>4 DEF CombAny, ListOnly, Deciding
<1> QED
  <2>1. kind' = kind
    BY DEF ListOnly
  <2>2. kind # "all" => CombAll'
    BY <2>1 DEF CombAll
  <2>3. kind = "all" => CombAny'
    BY <2>1 DEF CombAny
  <2> QED  BY <1>5, <1>6, <1>7, <1>8, <1>9, <1>10, <1>11, <2>2, <2>3 DEF CombInv

\* No task leaves the list of those that wait, and no continuation moves.
LEMMA QuietKeeps ==
  ASSUME CombInv, ListOnly, CombWaits', UNCHANGED <<cont, combRaced>>,
         \A j \in C!Index : (j \in attached' \/ ~(j < next')) <=> (j \in attached \/ ~(j < next))
  PROVE  CombInv'
<1>1. C!TypeOK /\ CombTurns /\ CombWaits /\ CombApart
  BY DEF CombInv
<1>2. C!TypeOK'
  BY <1>1 DEF C!TypeOK, ListOnly
<1>3. CombTurns'
  BY <1>1 DEF CombTurns, ListOnly
<1>4. CombApart'
  BY <1>1 DEF CombApart, ListOnly
<1>5. C!WinnerIsDone'
  BY <1>1 DEF CombInv, C!WinnerIsDone, ListOnly, C!TypeOK, C!Index
<1>6. C!Outstanding' = C!Outstanding
  <2>1. C!Outstanding \subseteq C!Index /\ C!Outstanding' \subseteq C!Index
    BY <1>1, <1>2, <1>3, OutstandingNow, OutstandingNext
  <2>2. \A j \in C!Index : j \in C!Outstanding' <=>
          \/ j \in attached' \/ ~(j < next')
          \/ \E d \in C!Context : cont'[d].pc \in Counting /\ cont'[d].i = j
    BY <1>2, <1>3, OutstandingNext
  <2>3. \A j \in C!Index : j \in C!Outstanding <=>
          \/ j \in attached \/ ~(j < next)
          \/ \E d \in C!Context : cont[d].pc \in Counting /\ cont[d].i = j
    BY <1>1, OutstandingNow
  <2> QED  BY <2>1, <2>2, <2>3
<1>7. CombAll'
  <2>1. SUFFICES ASSUME kind = "all"  PROVE  (CombNotes /\ CombCount /\ CombDecides /\ C!AllVerdict)'
    BY DEF CombAll, ListOnly
  <2>2. CombNotes /\ CombCount /\ CombDecides /\ C!AllVerdict
    BY <2>1 DEF CombInv, CombAll
  <2>3. CombNotes'
    <3>1. ASSUME NEW j \in C!Index, Noted(j)'  PROVE  Noted(j) /\ input[j] # "pending"
      BY <3>1, <1>1 DEF Noted, CombWaits
    <3>2. \A j \in failures : j \in C!Index
      BY <1>1 DEF C!TypeOK
    <3> QED  BY <3>1, <3>2, <2>2 DEF CombNotes, ListOnly
  <2>4. CombCount'
    BY <2>2, <1>6 DEF CombCount, ListOnly
  <2>5. CombDecides'
    BY <2>2, <1>6 DEF CombDecides, ListOnly
  <2>6. C!AllVerdict'
    BY <2>2 DEF C!AllVerdict, ListOnly
  <2> QED  BY <2>3, <2>4, <2>5, <2>6
<1>8. CombAny'
  BY DEF CombInv, CombAny, ListOnly
<1> QED  BY <1>2, <1>3, <1>4, <1>5, <1>7, <1>8 DEF CombInv

\* Attach: the task is found pending, or its continuation begins.
LEMMA AttachKeeps ==
  ASSUME CombInv, C!Attach  PROVE  CombInv'
<1>1. C!TypeOK /\ CombWaits
  BY DEF CombInv
<1>2. next \in C!Index /\ next \in Int /\ next + 1 \in 1 .. N + 1 /\ ~found
  BY <1>1, ListSize DEF C!Attach, C!TypeOK, C!Index
<1>3. attached' = attached /\ input' = input
  BY DEF C!Attach
<1>4. next \notin attached
  BY <1>1, <1>2 DEF CombWaits
<1>5. CASE input[next] = "pending"
  <2>1. found' = TRUE /\ next' = next /\ UNCHANGED <<cont, combRaced>>
    BY <1>5 DEF C!Attach
  <2>2. ListOnly
    BY <1>1, <1>2, <1>3, <2>1 DEF ListOnly, C!Attach, C!TypeOK, C!allVars, C!outVars
  <2>3. CombWaits'
    BY <1>1, <1>3, <2>1 DEF CombWaits
  <2> QED  BY <1>3, <2>1, <2>2, <2>3, QuietKeeps
<1>6. CASE input[next] # "pending"
  <2>1. found' = found /\ next' = next + 1 /\ C!Enter("App", next)
    BY <1>6 DEF C!Attach
  <2>2. ListOnly
    BY <1>1, <1>2, <1>3, <2>1 DEF ListOnly, C!Attach, C!TypeOK, C!allVars, C!outVars
  <2>3. \A j \in C!Index : j \in Int
    BY DEF C!Index
  <2>4. \A j \in C!Index \ {next} : j < next' <=> j < next
    BY <1>2, <2>1, <2>3
  <2>5. Leaves(next)
    BY <1>2, <1>3, <1>4, <1>6, <2>1, <2>4 DEF Leaves
  <2>6. "App" \in C!Context /\ C!OnCpu("App") /\ cont["App"].pc = "none"
    BY DEF C!Attach, C!Context
  <2> QED  BY <1>2, <2>1, <2>2, <2>5, <2>6, EnterKeeps
<1> QED  BY <1>5, <1>6

\* Add: the task waits with a continuation, or is done and has it for nothing.
LEMMA AddKeeps ==
  ASSUME CombInv, C!Add  PROVE  CombInv'
<1>1. C!TypeOK /\ CombWaits
  BY DEF CombInv
<1>2. next \in C!Index /\ next \in Int /\ next + 1 \in 1 .. N + 1
  BY <1>1, ListSize DEF C!Add, C!TypeOK, C!Index
<1>3. /\ found' = FALSE /\ next' = next + 1 /\ attached' = attached \cup {next}
      /\ UNCHANGED <<input, cont, combRaced>>
  BY DEF C!Add
<1>4. ListOnly
  BY <1>1, <1>2, <1>3 DEF ListOnly, C!Add, C!TypeOK, C!allVars, C!outVars
<1>5. \A j \in C!Index : j \in Int
  BY DEF C!Index
<1>6. \A j \in C!Index \ {next} : j < next' <=> j < next
  BY <1>2, <1>3, <1>5
<1>7. next < next' /\ ~(next < next)
  BY <1>2, <1>3
<1>8. CombWaits'
  <2>1. ASSUME NEW j \in C!Index
        PROVE  (j \in attached' => j < next') /\ (j < next' /\ input'[j] = "pending" => j \in attached')
    BY <1>1, <1>3, <1>6, <1>7 DEF CombWaits
  <2> QED  BY <2>1 DEF CombWaits
<1>9. \A j \in C!Index : (j \in attached' \/ ~(j < next')) <=> (j \in attached \/ ~(j < next))
  BY <1>3, <1>6, <1>7
<1> QED  BY <1>3, <1>4, <1>8, <1>9, QuietKeeps

\* Settle: the continuation of the task begins, if the loop has come to it.
LEMMA SettleKeeps ==
  ASSUME CombInv, NEW c \in C!Context, NEW i \in C!Index, NEW out \in C!Outcome, C!Settle(c, i, out)
  PROVE  CombInv'
<1>1. C!TypeOK /\ CombWaits
  BY DEF CombInv
<1>2. /\ C!OnCpu(c) /\ cont[c].pc = "none" /\ input[i] = "pending"
      /\ input' = [input EXCEPT ![i] = out] /\ attached' = attached \ {i} /\ next' = next /\ found' = found
  BY DEF C!Settle
<1>3. input'[i] = out /\ out # "pending" /\ \A j \in C!Index \ {i} : input'[j] = input[j]
  BY <1>1, <1>2 DEF C!TypeOK, C!Outcome
<1>4. ListOnly
  <2>1. input' \in [C!Index -> {"pending"} \cup C!Outcome]
    BY <1>1, <1>2 DEF C!TypeOK
  <2> QED  BY <1>1, <1>2, <1>3, <2>1 DEF ListOnly, C!Settle, C!TypeOK, C!allVars, C!outVars
<1>5. CASE i \in attached
  <2>1. Leaves(i)
    BY <1>1, <1>2, <1>3, <1>5 DEF Leaves, CombWaits
  <2>2. C!Enter(c, i)
    BY <1>5 DEF C!Settle
  <2> QED  BY <1>2, <1>4, <2>1, <2>2, EnterKeeps
<1>6. CASE i \notin attached
  <2>1. attached' = attached /\ UNCHANGED <<cont, combRaced>>
    BY <1>2, <1>6 DEF C!Settle
  <2>2. CombWaits'
    <3>1. ASSUME NEW j \in C!Index
          PROVE  (j \in attached' => j < next') /\ (j < next' /\ input'[j] = "pending" => j \in attached')
      BY <1>1, <1>2, <1>3, <1>6, <2>1 DEF CombWaits
    <3> QED  BY <3>1 DEF CombWaits
  <2> QED  BY <1>2, <1>4, <2>1, <2>2, QuietKeeps
<1> QED  BY <1>5, <1>6
-----------------------------------------------------------------------------
(* The statements of a continuation.                                        *)

\* Context c makes a statement of its continuation, to statement pc or out of it.
Stmt(c, pc) ==
  /\ C!OnCpu(c) /\ cont[c].pc # "none"
  /\ UNCHANGED <<kind, input, next, found, attached, combTick, combRaced>>
  /\ cont' \in [C!Context -> C!Turn] /\ cont'[c].pc = pc
  /\ pc # "none" => cont'[c].i = cont[c].i
  /\ \A d \in C!Context : d # c => cont'[d] = cont[d]

\* The turns after a statement.
LEMMA StmtTurns ==
  ASSUME CombInv, NEW c \in C!Context, NEW pc, Stmt(c, pc)
  PROVE  /\ CombTurns' /\ CombWaits' /\ CombApart'
         /\ cont[c].i \in C!Index /\ input[cont[c].i] # "pending"
         /\ cont[c].i < next /\ cont[c].i \notin attached
         /\ \A d \in C!Context : d # c /\ cont[d].pc # "none" => combRaced /\ cont[d].i # cont[c].i
<1>1. CombTurns /\ CombWaits /\ CombApart
  BY DEF CombInv
<1>2. CombTurns'
  BY <1>1 DEF CombTurns, Stmt
<1>3. CombWaits'
  BY <1>1 DEF CombWaits, Stmt
<1>4. \A d \in C!Context : d # c /\ cont[d].pc # "none" => c = "Timer" /\ d = "App"
  BY OnlyOne DEF Stmt
<1>5. \A d \in C!Context : d # c /\ cont[d].pc # "none" => combRaced /\ cont[d].i # cont[c].i
  BY <1>1, <1>4 DEF CombApart, Stmt
<1>6. CombApart'
  <2>1. ~combTick' => cont'["Timer"].pc = "none"
    BY <1>1 DEF CombApart, Stmt, C!OnCpu, C!Context
  <2>2. cont'["App"].pc # "none" /\ cont'["Timer"].pc # "none" => combRaced' /\ cont'["App"].i # cont'["Timer"].i
    <3>1. "App" \in C!Context /\ "Timer" \in C!Context /\ c \in {"App", "Timer"}
      BY DEF C!Context
    <3> QED  BY <3>1, <1>5 DEF Stmt
  <2> QED  BY <2>1, <2>2 DEF CombApart
<1> QED  BY <1>1, <1>2, <1>3, <1>5, <1>6 DEF CombTurns, Stmt

\* The tasks outstanding after a statement: all but the one that is counted.
LEMMA StmtOutstanding ==
  ASSUME CombInv, NEW c \in C!Context, NEW pc, Stmt(c, pc), C!TypeOK'
  PROVE  /\ (cont[c].pc \in Counting <=> pc \in Counting) => C!Outstanding' = C!Outstanding
         /\ cont[c].pc \in Counting => cont[c].i \in C!Outstanding
         /\ cont[c].pc \in Counting /\ pc \notin Counting => C!Outstanding' = C!Outstanding \ {cont[c].i}
<1>1. C!TypeOK /\ CombTurns
  BY DEF CombInv
<1>2. /\ CombTurns'
      /\ cont[c].i \in C!Index /\ cont[c].i < next /\ cont[c].i \notin attached
      /\ \A d \in C!Context : d # c /\ cont[d].pc # "none" => cont[d].i # cont[c].i
  BY StmtTurns
<1>3. C!Outstanding \subseteq C!Index /\ C!Outstanding' \subseteq C!Index
  BY <1>1, <1>2, OutstandingNow, OutstandingNext
<1>4. \A j \in C!Index : j \in C!Outstanding <=>
        \/ j \in attached \/ ~(j < next)
        \/ \E d \in C!Context : cont[d].pc \in Counting /\ cont[d].i = j
  BY <1>1, OutstandingNow
<1>5. \A j \in C!Index : j \in C!Outstanding' <=>
        \/ j \in attached \/ ~(j < next)
        \/ \E d \in C!Context : cont'[d].pc \in Counting /\ cont'[d].i = j
  BY <1>2, OutstandingNext DEF Stmt
<1>6. pc # "none" => cont'[c].i = cont[c].i
  BY DEF Stmt
<1>7. cont'[c].pc = pc /\ \A d \in C!Context : d # c => cont'[d] = cont[d]
  BY DEF Stmt
<1>8. "none" \notin Counting
  BY DEF Counting
<1>9. ASSUME NEW j \in C!Index, j # cont[c].i  PROVE  j \in C!Outstanding' <=> j \in C!Outstanding
  BY <1>4, <1>5, <1>6, <1>7, <1>8, <1>9
<1>10. cont[c].i \in C!Outstanding <=> cont[c].pc \in Counting
  BY <1>2, <1>4, <1>8
<1>11. cont[c].i \in C!Outstanding' <=> pc \in Counting
  BY <1>2, <1>5, <1>6, <1>7, <1>8
<1> QED  BY <1>2, <1>3, <1>9, <1>10, <1>11

\* While a task is outstanding nothing is decided.
LEMMA Undecided ==
  ASSUME CombInv, kind = "all", C!Outstanding # {}
  PROVE  combState = "pending" /\ \A d \in C!Context : cont[d].pc \notin Deciding
BY DEF CombInv, CombAll, CombDecides

\* Note: what became of the task is stored before it is counted.
LEMMA NoteKeeps ==
  ASSUME CombInv, NEW c \in C!Context, C!Note(c)  PROVE  CombInv'
<1>1. C!TypeOK /\ CombAny /\ CombAll /\ C!WinnerIsDone
  BY DEF CombInv
<1>2. kind = "all"
  BY <1>1 DEF C!TypeOK, CombAny, C!Note, C!At
<1>3. Turned(c, cont[c].i, "read", cont[c].seen) /\ "read" \in C!Pc
  BY <1>1, GotoTurn DEF C!Note, C!Pc
<1>4. Stmt(c, "read") /\ cont[c].pc = "note"
  BY <1>3 DEF Stmt, Turned, C!Note, C!At, C!taskVars
<1>5. cont[c].i \in C!Index /\ CombTurns' /\ CombWaits' /\ CombApart'
  BY <1>4, StmtTurns
<1> DEFINE i == cont[c].i
<1>6. /\ failures' = IF input[i] = "faulted" THEN failures \cup {i} ELSE failures
      /\ canceled' = (canceled \/ input[i] = "canceled")
      /\ results' = IF input[i] = "completed" THEN results \cup {i} ELSE results
  BY DEF C!Note
<1>7. UNCHANGED <<kind, input, next, found, attached, remaining, completed, combState, result, first, combTick, combRaced>>
  BY DEF C!Note, C!taskVars, C!outVars
<1>8. C!TypeOK'
  <2>1. failures' \subseteq C!Index /\ results' \subseteq C!Index /\ canceled' \in BOOLEAN
    BY <1>1, <1>5, <1>6 DEF C!TypeOK
  <2> QED  BY <2>1, <1>1, <1>4, <1>7 DEF C!TypeOK, Stmt
<1>9. C!Outstanding' = C!Outstanding /\ C!Outstanding # {}
  BY <1>4, <1>8, StmtOutstanding DEF Counting
<1>10. combState = "pending" /\ \A d \in C!Context : cont[d].pc \notin Deciding
  BY <1>2, <1>9, Undecided
<1>11. CombNotes'
  <2>1. CombNotes
    BY <1>1, <1>2 DEF CombAll
  <2>2. ASSUME NEW j \in C!Index, Noted(j)', j # i  PROVE  Noted(j)
    BY <2>2, <1>4, <1>7 DEF Noted, Stmt
  <2>3. \A j \in C!Index : Noted(j)' =>
          /\ input[j] = "faulted" => j \in failures'
          /\ input[j] = "canceled" => canceled'
          /\ input[j] = "completed" => j \in results'
    BY <2>1, <2>2, <1>6 DEF CombNotes
  <2>4. \A j \in failures' : input[j] = "faulted"
    BY <2>1, <1>6 DEF CombNotes
  <2>5. canceled' => \E j \in C!Index : input[j] = "canceled"
    BY <2>1, <1>5, <1>6 DEF CombNotes
  <2> QED  BY <2>3, <2>4, <2>5, <1>7 DEF CombNotes
<1>12. CombCount'
  BY <1>1, <1>2, <1>4, <1>7, <1>9 DEF CombAll, CombCount, Stmt
<1>13. CombDecides' /\ C!AllVerdict'
  BY <1>4, <1>7, <1>10 DEF CombDecides, C!AllVerdict, Stmt, Deciding
<1>14. C!WinnerIsDone'
  BY <1>1, <1>7 DEF C!WinnerIsDone
<1> QED  BY <1>2, <1>5, <1>7, <1>8, <1>11, <1>12, <1>13, <1>14 DEF CombInv, CombAll, CombAny

\* The turn of a continuation that reads the counter.
LEMMA ReadTurn ==
  ASSUME C!TypeOK, NEW c \in C!Context, C!Read(c)
  PROVE  Turned(c, cont[c].i, "write", IF kind = "all" THEN remaining ELSE completed)
<1> DEFINE seen == IF kind = "all" THEN remaining ELSE completed
<1>1. cont \in [C!Context -> C!Turn] /\ cont[c] \in C!Turn
  BY TurnType
<1>2. seen \in 0 .. N
  BY ListSize DEF C!TypeOK
<1>3. PICK s \in 0 .. N : s = seen
  BY <1>2
<1>4. PICK t \in C!Turn : t = [cont[c] EXCEPT !.pc = "write", !.seen = s] /\ t.i = cont[c].i /\ t.pc = "write" /\ t.seen = s
  <2>1. /\ [cont[c] EXCEPT !.pc = "write", !.seen = s] \in C!Turn
        /\ [cont[c] EXCEPT !.pc = "write", !.seen = s].i = cont[c].i
        /\ [cont[c] EXCEPT !.pc = "write", !.seen = s].pc = "write"
        /\ [cont[c] EXCEPT !.pc = "write", !.seen = s].seen = s
    BY <1>1 DEF C!Turn, C!Pc
  <2> QED  BY <2>1
<1>5. cont' = [cont EXCEPT ![c] = t]
  <2>1. cont' = [cont EXCEPT ![c].pc = "write", ![c].seen = s]
    BY <1>3 DEF C!Read
  <2> QED  BY <2>1, <1>1, <1>4
<1> QED  BY <1>3, <1>4, <1>5, SetTurn

\* Read: the value read is the counter, until another continuation writes it.
LEMMA ReadKeeps ==
  ASSUME CombInv, NEW c \in C!Context, C!Read(c)  PROVE  CombInv'
<1>1. C!TypeOK /\ CombAny /\ CombAll /\ C!WinnerIsDone
  BY DEF CombInv
<1>2. Turned(c, cont[c].i, "write", IF kind = "all" THEN remaining ELSE completed)
  BY <1>1, ReadTurn
<1>3. UNCHANGED <<kind, input, next, found, attached, remaining, failures, canceled, results, completed, combState, result,
        first, combTick, combRaced>>
  BY DEF C!Read, C!taskVars, C!allVars, C!outVars
<1>4. Stmt(c, "write") /\ cont[c].pc = "read"
  BY <1>2, <1>3 DEF Stmt, Turned, C!Read, C!At
<1>5. CombTurns' /\ CombWaits' /\ CombApart'
  BY <1>4, StmtTurns
<1>6. C!TypeOK'
  BY <1>1, <1>3, <1>4 DEF C!TypeOK, Stmt
<1>7. C!Outstanding' = C!Outstanding /\ C!Outstanding # {}
  BY <1>4, <1>6, StmtOutstanding DEF Counting
<1>8. C!WinnerIsDone'
  BY <1>1, <1>3 DEF C!WinnerIsDone
<1>9. ASSUME kind = "all"  PROVE  CombAll'
  <2>1. combState = "pending" /\ \A d \in C!Context : cont[d].pc \notin Deciding
    BY <1>7, <1>9, Undecided
  <2>2. CombNotes /\ CombCount
    BY <1>1, <1>9 DEF CombAll
  <2>3. CombNotes'
    <3>1. \A j \in C!Index : Noted(j)' => Noted(j)
      BY <1>3, <1>4 DEF Noted, Stmt
    <3> QED  BY <2>2, <3>1, <1>3 DEF CombNotes
  <2>4. CombCount'
    <3>1. cont'[c].seen = remaining /\ \A d \in C!Context : d # c => cont'[d] = cont[d]
      BY <1>2, <1>9 DEF Turned
    <3> QED  BY <2>2, <3>1, <1>3, <1>7 DEF CombCount
  <2>5. CombDecides' /\ C!AllVerdict'
    BY <2>1, <1>3, <1>4 DEF CombDecides, C!AllVerdict, Stmt, Deciding
  <2> QED  BY <2>3, <2>4, <2>5 DEF CombAll
<1>10. ASSUME kind # "all"  PROVE  CombAny'
  <2>1. cont'[c].seen = completed /\ cont'[c].pc = "write" /\ \A d \in C!Context : d # c => cont'[d] = cont[d]
    BY <1>2, <1>10 DEF Turned
  <2> QED  BY <2>1, <1>1, <1>3 DEF CombAny, Deciding
<1>11. (kind # "all" => CombAll') /\ (kind = "all" => CombAny')
  BY <1>3 DEF CombAll, CombAny
<1> QED  BY <1>5, <1>6, <1>8, <1>9, <1>10, <1>11 DEF CombInv

\* Statements after the count, and the notes and turns they leave alone.
Aside ==
  UNCHANGED <<kind, input, next, found, attached, failures, canceled, results, combState, first, combTick, combRaced>>

\* The notes hold for every task that has been noted before.
LEMMA NotesStay ==
  ASSUME NEW c \in C!Context, NEW pc, Stmt(c, pc), cont[c].pc # "note", pc # "note", Aside, CombNotes
  PROVE  CombNotes'
<1>1. \A j \in C!Index : Noted(j)' => Noted(j)
  BY DEF Noted, Stmt, Aside
<1> QED  BY <1>1 DEF CombNotes, Aside

\* Write of WhenAll: one task less is outstanding, and who counts the last decides.
LEMMA CountKeeps ==
  ASSUME CombInv, NEW c \in C!Context, C!Write(c), kind = "all"  PROVE  CombInv'
<1>1. C!TypeOK /\ CombAny /\ C!WinnerIsDone /\ CombNotes /\ CombCount /\ CombTurns
  BY DEF CombInv, CombAll
<1>2. /\ C!OnCpu(c) /\ cont[c].pc = "write" /\ remaining' = cont[c].seen - 1
      /\ IF cont[c].seen = 1 THEN C!Goto(c, "finish") ELSE C!Leave(c)
      /\ UNCHANGED <<completed, result>> /\ Aside
  BY DEF C!Write, C!At, C!taskVars, C!outVars, Aside
<1> DEFINE pc == IF cont[c].seen = 1 THEN "finish" ELSE "none"
<1>3. Stmt(c, pc)
  <2>1. CASE cont[c].seen = 1
    <3>1. Turned(c, cont[c].i, "finish", cont[c].seen)
      BY <1>1, <1>2, <2>1, GotoTurn DEF C!Pc
    <3> QED  BY <1>2, <2>1, <3>1 DEF Stmt, Turned, Aside
  <2>2. CASE cont[c].seen # 1
    <3>1. Turned(c, 0, "none", 0)
      BY <1>1, <1>2, <2>2, LeaveTurn
    <3> QED  BY <1>2, <2>2, <3>1 DEF Stmt, Turned, Aside
  <2> QED  BY <2>1, <2>2
<1>4. /\ CombTurns' /\ CombWaits' /\ CombApart' /\ cont[c].i \in C!Index
      /\ \A d \in C!Context : d # c /\ cont[d].pc # "none" => combRaced /\ cont[d].i # cont[c].i
  BY <1>3, StmtTurns
<1>5. PICK s \in 0 .. N : s = cont[c].seen
  BY <1>1, TurnType
<1>6. /\ IsFiniteSet(C!Outstanding) /\ Cardinality(C!Outstanding) \in Nat
      /\ cont[c].i \in C!Outstanding
  BY <1>1, <1>2, OutstandingNow DEF Counting, CombTurns
<1>7. PICK n \in Nat : n = Cardinality(C!Outstanding)
  BY <1>6
<1>8. s >= n
  BY <1>1, <1>2, <1>5, <1>7 DEF CombCount
<1>9. n > 0
  <2>1. n # 0
    BY <1>6, <1>7, FS_EmptySet
  <2> QED  BY <2>1
<1>10. remaining' = s - 1 /\ s - 1 \in 0 .. N
  <2>1. s \in Int /\ s > 0 /\ N \in Nat /\ s <= N
    BY <1>5, <1>8, <1>9, ListSize
  <2>2. s - 1 \in 0 .. N
    BY <2>1
  <2> QED  BY <1>2, <1>5, <2>2
<1>11. C!TypeOK'
  <2>1. cont' \in [C!Context -> C!Turn]
    BY <1>3 DEF Stmt
  <2> QED  BY <1>1, <1>2, <1>10, <2>1 DEF C!TypeOK, Aside
<1>12. C!Outstanding' = C!Outstanding \ {cont[c].i}
  BY <1>2, <1>3, <1>11, StmtOutstanding DEF Counting
<1>13. Cardinality(C!Outstanding') = n - 1 /\ IsFiniteSet(C!Outstanding')
  BY <1>6, <1>7, <1>12, FS_RemoveElement
<1>14. combState = "pending" /\ \A d \in C!Context : cont[d].pc \notin Deciding
  BY <1>6, Undecided
<1>15. CombNotes'
  BY <1>1, <1>2, <1>3, NotesStay
<1>16. CombCount'
  <2>1. /\ remaining >= n
        /\ \A d \in C!Context : cont[d].pc = "write" => cont[d].seen >= n
        /\ ~combRaced => remaining = n /\ cont[c].seen = remaining
    BY <1>1, <1>2, <1>7 DEF CombCount
  <2>2. \A d \in C!Context : cont'[d].pc = "write" => d # c /\ cont'[d].seen = cont[d].seen /\ cont[d].pc = "write"
    BY <1>3 DEF Stmt
  <2>3. \A d \in C!Context : cont'[d].pc = "write" => combRaced
    BY <1>4, <2>2
  <2>4. \A d \in C!Context : cont'[d].pc = "write" => cont'[d].seen >= n - 1
    <3>1. ASSUME NEW d \in C!Context, cont'[d].pc = "write"  PROVE  cont'[d].seen >= n - 1
      <4>1. PICK e \in 0 .. N : e = cont[d].seen
        BY <1>1, TurnType
      <4>2. e >= n
        BY <3>1, <4>1, <2>1, <2>2
      <4>3. e >= n - 1
        BY <4>2
      <4> QED  BY <3>1, <4>1, <4>3, <2>2
    <3> QED  BY <3>1
  <2>5. remaining' >= n - 1
    BY <1>8, <1>10
  <2>6. ~combRaced => remaining' = n - 1
    BY <2>1, <1>5, <1>10
  <2> QED  BY <1>2, <1>13, <2>3, <2>4, <2>5, <2>6 DEF CombCount, Aside
<1>17. C!AllVerdict'
  BY <1>2, <1>14 DEF C!AllVerdict, Aside
<1>18. CombDecides'
  <2>1. ASSUME NEW d \in C!Context, cont'[d].pc \in Deciding  PROVE  C!Outstanding' = {}
    <3>1. d = c
      BY <2>1, <1>3, <1>14 DEF Stmt
    <3>2. s = 1
      BY <2>1, <3>1, <1>3, <1>5 DEF Stmt, Deciding
    <3>3. n - 1 = 0
      BY <3>2, <1>8, <1>9
    <3> QED  BY <3>3, <1>13, FS_EmptySet
  <2> QED  BY <2>1, <1>2, <1>14 DEF CombDecides, Aside
<1>19. C!WinnerIsDone'
  BY <1>1, <1>2 DEF C!WinnerIsDone, Aside
<1>20. kind' = "all"
  BY <1>2 DEF Aside
<1> QED  BY <1>4, <1>11, <1>15, <1>16, <1>17, <1>18, <1>19, <1>20 DEF CombInv, CombAll, CombAny

\* Write of WhenAny: who finds 0 is the first, unless one ran inside another.
LEMMA ExchangeKeeps ==
  ASSUME CombInv, NEW c \in C!Context, C!Write(c), kind # "all"  PROVE  CombInv'
<1>1. C!TypeOK /\ CombAny /\ C!WinnerIsDone /\ kind = "any"
  BY DEF CombInv, C!TypeOK
<1>2. /\ C!OnCpu(c) /\ cont[c].pc = "write" /\ completed' = 1
      /\ IF cont[c].seen = 0 THEN C!Goto(c, "finish") ELSE C!Leave(c)
      /\ UNCHANGED <<remaining, result>> /\ Aside
  BY <1>1 DEF C!Write, C!At, C!taskVars, C!outVars, Aside
<1> DEFINE pc == IF cont[c].seen = 0 THEN "finish" ELSE "none"
<1>3. Stmt(c, pc)
  <2>1. CASE cont[c].seen = 0
    <3>1. Turned(c, cont[c].i, "finish", cont[c].seen)
      BY <1>1, <1>2, <2>1, GotoTurn DEF C!Pc
    <3> QED  BY <1>2, <2>1, <3>1 DEF Stmt, Turned, Aside
  <2>2. CASE cont[c].seen # 0
    <3>1. Turned(c, 0, "none", 0)
      BY <1>1, <1>2, <2>2, LeaveTurn
    <3> QED  BY <1>2, <2>2, <3>1 DEF Stmt, Turned, Aside
  <2> QED  BY <2>1, <2>2
<1>4. /\ CombTurns' /\ CombWaits' /\ CombApart'
      /\ \A d \in C!Context : d # c /\ cont[d].pc # "none" => combRaced
  BY <1>3, StmtTurns
<1>5. C!TypeOK'
  <2>1. cont' \in [C!Context -> C!Turn]
    BY <1>3 DEF Stmt
  <2> QED  BY <1>1, <1>2, <2>1 DEF C!TypeOK, Aside
<1>6. CombAny'
  <2>1. pc # "note" /\ \A d \in C!Context : d # c => cont'[d] = cont[d]
    BY <1>3 DEF Stmt
  <2>2. \A d \in C!Context : cont'[d].pc # "note"
    BY <1>1, <1>3 DEF CombAny, Stmt
  <2>3. ASSUME ~combRaced
        PROVE  /\ \A d \in C!Context : cont'[d].pc = "write" => cont'[d].seen = completed'
               /\ \A d \in C!Context : cont'[d].pc \in Deciding => combState = "pending"
               /\ combState # "pending" => result = first
    <3>1. cont[c].seen = completed /\ (combState # "pending" => result = first)
      BY <1>1, <1>2, <2>3 DEF CombAny
    <3>2. \A d \in C!Context : d # c => cont'[d].pc = "none"
      BY <1>4, <2>1, <2>3
    <3>3. cont[c].seen = 0 => combState = "pending"
      BY <1>1, <3>1 DEF CombAny
    <3> QED  BY <1>3, <3>1, <3>2, <3>3 DEF Stmt, Deciding
  <2> QED  BY <1>2, <2>2, <2>3 DEF CombAny, Aside
<1>7. C!WinnerIsDone'
  BY <1>1, <1>2 DEF C!WinnerIsDone, Aside
<1> QED  BY <1>1, <1>2, <1>4, <1>5, <1>6, <1>7 DEF CombInv, CombAll, Aside

\* Finish: WhenAny's winner is stored, before the state is looked at.
LEMMA FinishKeeps ==
  ASSUME CombInv, NEW c \in C!Context, C!Finish(c)  PROVE  CombInv'
<1>1. C!TypeOK /\ CombAny /\ CombAll /\ C!WinnerIsDone
  BY DEF CombInv
<1>2. /\ C!OnCpu(c) /\ cont[c].pc = "finish" /\ C!Goto(c, "check")
      /\ result' = IF kind = "any" THEN cont[c].i ELSE result
      /\ UNCHANGED <<remaining, completed>> /\ Aside
  BY DEF C!Finish, C!At, C!taskVars, C!allVars, Aside
<1>3. Stmt(c, "check")
  <2>1. Turned(c, cont[c].i, "check", cont[c].seen)
    BY <1>1, <1>2, GotoTurn DEF C!Pc
  <2> QED  BY <1>2, <2>1 DEF Stmt, Turned, Aside
<1>4. CombTurns' /\ CombWaits' /\ CombApart' /\ cont[c].i \in C!Index /\ input[cont[c].i] # "pending"
  BY <1>3, StmtTurns
<1>5. C!TypeOK'
  <2>1. cont' \in [C!Context -> C!Turn]
    BY <1>3 DEF Stmt
  <2>2. result' \in 0 .. N
    BY <1>1, <1>2, TurnType DEF C!TypeOK
  <2> QED  BY <1>1, <1>2, <2>1, <2>2 DEF C!TypeOK, Aside
<1>6. C!WinnerIsDone'
  BY <1>1, <1>2, <1>4 DEF C!WinnerIsDone, Aside
<1>7. C!Outstanding' = C!Outstanding
  BY <1>2, <1>3, <1>5, StmtOutstanding DEF Counting
<1>8. CombAll'
  <2>1. SUFFICES ASSUME kind = "all"  PROVE  (CombNotes /\ CombCount /\ CombDecides /\ C!AllVerdict)'
    BY <1>2 DEF CombAll, Aside
  <2>2. CombNotes /\ CombCount /\ CombDecides /\ C!AllVerdict
    BY <1>1, <2>1 DEF CombAll
  <2>3. CombNotes'
    BY <1>2, <1>3, <2>2, NotesStay
  <2>4. CombCount'
    BY <1>2, <1>3, <1>7, <2>2 DEF CombCount, Stmt, Aside
  <2>5. CombDecides'
    BY <1>2, <1>7, <2>2 DEF CombDecides, Aside, Deciding
  <2>6. C!AllVerdict'
    BY <1>2, <2>2 DEF C!AllVerdict, Aside
  <2> QED  BY <2>3, <2>4, <2>5, <2>6
<1>9. CombAny'
  <2>1. SUFFICES ASSUME kind = "any"  PROVE  CombAny'
    BY <1>2 DEF CombAny, Aside
  <2>2. completed # 0
    BY <1>1, <1>2, <2>1 DEF CombAny, Deciding
  <2>3. ~combRaced => combState = "pending"
    BY <1>1, <1>2, <2>1 DEF CombAny, Deciding
  <2> QED  BY <1>1, <1>2, <1>3, <2>1, <2>2, <2>3 DEF CombAny, Aside, Stmt, Deciding
<1> QED  BY <1>4, <1>5, <1>6, <1>8, <1>9 DEF CombInv

\* Check: the way on to the state, or out.
LEMMA CheckKeeps ==
  ASSUME CombInv, NEW c \in C!Context, C!Check(c)  PROVE  CombInv'
<1>1. C!TypeOK /\ CombAny /\ CombAll /\ C!WinnerIsDone
  BY DEF CombInv
<1>2. /\ C!OnCpu(c) /\ cont[c].pc = "check"
      /\ IF combState = "pending" THEN C!Goto(c, "set") ELSE C!Leave(c)
      /\ UNCHANGED <<remaining, completed, result>> /\ Aside
  BY DEF C!Check, C!At, C!taskVars, C!allVars, C!outVars, Aside
<1> DEFINE pc == IF combState = "pending" THEN "set" ELSE "none"
<1>3. Stmt(c, pc)
  <2>1. CASE combState = "pending"
    <3>1. Turned(c, cont[c].i, "set", cont[c].seen)
      BY <1>1, <1>2, <2>1, GotoTurn DEF C!Pc
    <3> QED  BY <1>2, <2>1, <3>1 DEF Stmt, Turned, Aside
  <2>2. CASE combState # "pending"
    <3>1. Turned(c, 0, "none", 0)
      BY <1>1, <1>2, <2>2, LeaveTurn
    <3> QED  BY <1>2, <2>2, <3>1 DEF Stmt, Turned, Aside
  <2> QED  BY <2>1, <2>2
<1>4. CombTurns' /\ CombWaits' /\ CombApart'
  BY <1>3, StmtTurns
<1>5. C!TypeOK'
  <2>1. cont' \in [C!Context -> C!Turn]
    BY <1>3 DEF Stmt
  <2> QED  BY <1>1, <1>2, <2>1 DEF C!TypeOK, Aside
<1>6. C!WinnerIsDone'
  BY <1>1, <1>2 DEF C!WinnerIsDone, Aside
<1>7. C!Outstanding' = C!Outstanding
  BY <1>2, <1>3, <1>5, StmtOutstanding DEF Counting
<1>8. CombAll'
  <2>1. SUFFICES ASSUME kind = "all"  PROVE  (CombNotes /\ CombCount /\ CombDecides /\ C!AllVerdict)'
    BY <1>2 DEF CombAll, Aside
  <2>2. CombNotes /\ CombCount /\ CombDecides /\ C!AllVerdict
    BY <1>1, <2>1 DEF CombAll
  <2>3. CombNotes'
    BY <1>2, <1>3, <2>2, NotesStay
  <2>4. CombCount'
    BY <1>2, <1>3, <1>7, <2>2 DEF CombCount, Stmt, Aside
  <2>5. CombDecides'
    BY <1>2, <1>7, <2>2 DEF CombDecides, Aside, Deciding
  <2>6. C!AllVerdict'
    BY <1>2, <2>2 DEF C!AllVerdict, Aside
  <2> QED  BY <2>3, <2>4, <2>5, <2>6
<1>9. CombAny'
  <2>1. SUFFICES ASSUME kind = "any"  PROVE  CombAny'
    BY <1>2 DEF CombAny, Aside
  <2>2. completed # 0
    BY <1>1, <1>2, <2>1 DEF CombAny, Deciding
  <2> QED  BY <1>1, <1>2, <1>3, <2>1, <2>2 DEF CombAny, Aside, Stmt, Deciding
<1> QED  BY <1>4, <1>5, <1>6, <1>8, <1>9 DEF CombInv

\* Once no task is outstanding the notes say what became of every task.
LEMMA NotesTell ==
  ASSUME C!TypeOK, CombTurns, CombWaits, CombNotes, C!Outstanding = {}
  PROVE  /\ \A j \in C!Index : input[j] # "pending"
         /\ C!Verdict = IF \E j \in C!Index : input[j] = "faulted" THEN "faulted"
                        ELSE IF \E j \in C!Index : input[j] = "canceled" THEN "canceled"
                        ELSE "completed"
         /\ C!Verdict = "completed" => results = C!Index
<1>1. ASSUME NEW j \in C!Index  PROVE  Noted(j) /\ input[j] # "pending"
  <2>1. j \notin attached /\ j < next /\ \A d \in C!Context : ~(cont[d].pc \in Counting /\ cont[d].i = j)
    BY OutstandingNow
  <2>2. \A d \in C!Context : ~(cont[d].pc = "note" /\ cont[d].i = j)
    BY <2>1 DEF Counting
  <2> QED  BY <2>1, <2>2 DEF Noted, CombWaits
<1>2. \A j \in C!Index :
        /\ input[j] = "faulted" => j \in failures
        /\ input[j] = "canceled" => canceled
        /\ input[j] = "completed" => j \in results
  BY <1>1 DEF CombNotes
<1>3. (\E j \in C!Index : input[j] = "faulted") <=> failures # {}
  BY <1>2 DEF CombNotes, C!TypeOK
<1>4. (\E j \in C!Index : input[j] = "canceled") <=> canceled
  BY <1>2 DEF CombNotes
<1>5. C!Verdict = "completed" => results = C!Index
  <2>1. ASSUME failures = {}, ~canceled, NEW j \in C!Index  PROVE  j \in results
    <3>1. input[j] \in {"pending", "completed", "faulted", "canceled"}
      BY DEF C!TypeOK, C!Outcome
    <3> QED  BY <2>1, <3>1, <1>1, <1>2
  <2>2. C!Verdict = "completed" => failures = {} /\ ~canceled
    BY DEF C!Verdict
  <2> QED  BY <2>1, <2>2 DEF C!TypeOK
<1> QED  BY <1>1, <1>3, <1>4, <1>5 DEF C!Verdict

\* Complete: what WhenAll decides is what the notes tell.
LEMMA CompleteKeeps ==
  ASSUME CombInv, NEW c \in C!Context, C!Complete(c)  PROVE  CombInv'
<1>1. C!TypeOK /\ CombAny /\ CombAll /\ C!WinnerIsDone /\ CombTurns /\ CombWaits
  BY DEF CombInv
<1>2. /\ C!OnCpu(c) /\ cont[c].pc = "set" /\ C!Leave(c)
      /\ combState' = IF kind = "all" THEN C!Verdict ELSE "completed"
      /\ first' = IF combState = "pending" THEN result ELSE first
      /\ UNCHANGED <<kind, input, next, found, attached, remaining, failures, canceled, results, completed, result,
           combTick, combRaced>>
  BY DEF C!Complete, C!At, C!taskVars, C!allVars
<1>3. Stmt(c, "none")
  <2>1. Turned(c, 0, "none", 0)
    BY <1>1, <1>2, LeaveTurn
  <2> QED  BY <1>2, <2>1 DEF Stmt, Turned
<1>4. /\ CombTurns' /\ CombWaits' /\ CombApart'
      /\ \A d \in C!Context : d # c /\ cont[d].pc # "none" => combRaced
  BY <1>3, StmtTurns
<1>5. C!TypeOK'
  <2>1. cont' \in [C!Context -> C!Turn]
    BY <1>3 DEF Stmt
  <2>2. combState' \in C!Outcome
    BY <1>2 DEF C!Verdict, C!Outcome
  <2>3. first' \in 0 .. N
    BY <1>1, <1>2 DEF C!TypeOK
  <2> QED  BY <1>1, <1>2, <2>1, <2>2, <2>3 DEF C!TypeOK
<1>6. C!WinnerIsDone'
  BY <1>1, <1>2 DEF C!WinnerIsDone
<1>7. C!Outstanding' = C!Outstanding
  BY <1>2, <1>3, <1>5, StmtOutstanding DEF Counting
<1>8. CombAll'
  <2>1. SUFFICES ASSUME kind = "all"  PROVE  (CombNotes /\ CombCount /\ CombDecides /\ C!AllVerdict)'
    BY <1>2 DEF CombAll
  <2>2. CombNotes /\ CombCount /\ CombDecides
    BY <1>1, <2>1 DEF CombAll
  <2>3. C!Outstanding = {}
    BY <1>2, <2>2 DEF CombDecides, Deciding
  <2>4. CombNotes'
    <3>1. \A j \in C!Index : Noted(j)' => Noted(j)
      BY <1>2, <1>3 DEF Noted, Stmt
    <3> QED  BY <2>2, <3>1, <1>2 DEF CombNotes
  <2>5. CombCount'
    BY <1>2, <1>3, <1>7, <2>2 DEF CombCount, Stmt
  <2>6. CombDecides'
    BY <1>7, <2>3 DEF CombDecides
  <2>7. C!AllVerdict'
    <3>1. combState' = C!Verdict
      BY <1>2, <2>1
    <3>2. /\ \A j \in C!Index : input[j] # "pending"
          /\ C!Verdict = IF \E j \in C!Index : input[j] = "faulted" THEN "faulted"
                         ELSE IF \E j \in C!Index : input[j] = "canceled" THEN "canceled"
                         ELSE "completed"
          /\ C!Verdict = "completed" => results = C!Index
      BY <1>1, <2>2, <2>3, NotesTell
    <3> QED  BY <3>1, <3>2, <1>2 DEF C!AllVerdict
  <2> QED  BY <2>4, <2>5, <2>6, <2>7
<1>9. CombAny'
  <2>1. SUFFICES ASSUME kind = "any"  PROVE  CombAny'
    BY <1>2 DEF CombAny
  <2>2. completed # 0
    BY <1>1, <1>2, <2>1 DEF CombAny, Deciding
  <2>3. \A d \in C!Context : d # c => cont'[d] = cont[d]
    BY <1>3 DEF Stmt
  <2>4. cont'[c].pc = "none" /\ \A d \in C!Context : cont'[d].pc # "note"
    BY <1>1, <1>3, <2>1, <2>3 DEF CombAny, Stmt
  <2>5. ASSUME ~combRaced
        PROVE  (\A d \in C!Context : cont'[d].pc = "none") /\ result = first'
    <3>1. combState = "pending"
      BY <1>1, <1>2, <2>1, <2>5 DEF CombAny, Deciding
    <3> QED  BY <3>1, <1>2, <1>4, <2>3, <2>4, <2>5
  <2> QED  BY <1>2, <2>2, <2>4, <2>5 DEF CombAny, Deciding
<1> QED  BY <1>4, <1>5, <1>6, <1>8, <1>9 DEF CombInv
-----------------------------------------------------------------------------
(* The combinators.                                                         *)

\* The tick comes and goes between continuations.
LEMMA TickKeeps ==
  ASSUME CombInv, C!TimerTick \/ C!TickEnds  PROVE  CombInv'
<1>1. /\ UNCHANGED <<kind, input, next, found, attached, remaining, failures, canceled, results, completed, combState,
           result, first, cont, combRaced>>
      /\ combTick' \in BOOLEAN
      /\ ~combTick' => cont["Timer"].pc = "none"
  BY DEF C!TimerTick, C!TickEnds, C!taskVars, C!allVars, C!outVars
<1>2. C!TypeOK /\ CombTurns /\ CombWaits /\ CombApart /\ C!WinnerIsDone /\ CombAll /\ CombAny
  BY DEF CombInv
<1>3. C!TypeOK'
  BY <1>1, <1>2 DEF C!TypeOK
<1>4. C!Outstanding' = C!Outstanding
  BY <1>1 DEF C!Outstanding
<1>5. CombTurns' /\ CombWaits' /\ CombApart' /\ C!WinnerIsDone'
  BY <1>1, <1>2 DEF CombTurns, CombWaits, CombApart, C!WinnerIsDone
<1>6. CombNotes' = CombNotes /\ CombCount' = CombCount /\ CombDecides' = CombDecides /\ C!AllVerdict' = C!AllVerdict
  BY <1>1, <1>4 DEF CombNotes, Noted, CombCount, CombDecides, C!AllVerdict
<1>7. CombAll'
  BY <1>1, <1>2, <1>6 DEF CombAll
<1>8. CombAny'
  BY <1>1, <1>2 DEF CombAny
<1> QED  BY <1>3, <1>5, <1>7, <1>8 DEF CombInv

\* Every step of the combinators keeps the invariant.
LEMMA CombStep ==
  ASSUME CombInv, [C!Next]_C!vars  PROVE  CombInv'
<1>1. CASE C!Attach \/ C!Add
  BY <1>1, AttachKeeps, AddKeeps
<1>2. ASSUME NEW c \in C!Context, C!Statement(c)  PROVE  CombInv'
  <2>1. CASE C!Write(c)
    BY <2>1, CountKeeps, ExchangeKeeps
  <2> QED  BY <1>2, <2>1, NoteKeeps, ReadKeeps, FinishKeeps, CheckKeeps, CompleteKeeps DEF C!Statement
<1>3. ASSUME NEW c \in C!Context, NEW i \in C!Index, NEW out \in C!Outcome, C!Settle(c, i, out)
      PROVE  CombInv'
  BY <1>3, SettleKeeps
<1>4. CASE C!TimerTick \/ C!TickEnds
  BY <1>4, TickKeeps
<1>5. CASE UNCHANGED C!vars
  <2>1. UNCHANGED <<kind, input, next, found, attached, remaining, failures, canceled, results, completed, combState,
          result, first, cont, combTick, combRaced>>
    BY <1>5 DEF C!vars, C!taskVars, C!allVars, C!outVars
  <2> QED  BY <2>1 DEF CombInv, C!TypeOK, CombTurns, CombWaits, CombApart, C!WinnerIsDone, CombAll, CombAny,
             CombNotes, Noted, CombCount, CombDecides, C!AllVerdict, C!Outstanding
<1> QED  BY <1>1, <1>2, <1>3, <1>4, <1>5 DEF C!Next

\* The invariant holds at the start.
LEMMA CombInit == ASSUME C!Init  PROVE  CombInv
<1>1. N \in Nat /\ N > 0
  BY ListSize
<1>2. /\ C!Idle \in C!Turn /\ C!Idle.pc = "none" /\ C!Idle.i = 0
  BY <1>1 DEF C!Idle, C!Turn, C!Pc
<1>3. cont \in [C!Context -> C!Turn] /\ \A c \in C!Context : cont[c] = C!Idle
  BY <1>2 DEF C!Init
<1>4. \A c \in C!Context : cont[c].pc = "none"
  BY <1>2, <1>3
<1>5. C!TypeOK
  <2>1. input \in [C!Index -> {"pending"} \cup C!Outcome]
    BY DEF C!Init
  <2>2. next \in 1 .. N + 1 /\ remaining \in 0 .. N /\ result \in 0 .. N /\ first \in 0 .. N /\ completed \in 0 .. 1
    BY <1>1 DEF C!Init
  <2> QED  BY <1>3, <2>1, <2>2 DEF C!Init, C!TypeOK
<1>6. CombTurns /\ CombApart
  BY <1>4 DEF CombTurns, CombApart, C!Context
<1>7. \A j \in C!Index : ~(j < next)
  BY <1>1 DEF C!Init, C!Index
<1>8. CombWaits
  BY <1>7 DEF CombWaits, C!Init
<1>9. C!Outstanding = 1 .. N
  <2>1. C!Outstanding \subseteq C!Index /\ \A j \in C!Index : j \in C!Outstanding
    BY <1>5, <1>6, <1>7, OutstandingNow
  <2> QED  BY <2>1 DEF C!Index
<1>10. remaining = Cardinality(C!Outstanding)
  BY <1>1, <1>9, FS_Interval DEF C!Init
<1>11. CombAll
  <2>1. CombNotes
    BY <1>7 DEF CombNotes, Noted, C!Init
  <2>2. CombCount
    <3>1. remaining >= Cardinality(C!Outstanding)
      BY <1>1, <1>10 DEF C!Init
    <3> QED  BY <1>4, <1>10, <3>1 DEF CombCount
  <2> QED  BY <1>4, <2>1, <2>2 DEF CombAll, CombDecides, C!AllVerdict, C!Init, Deciding
<1>12. CombAny
  BY <1>4 DEF CombAny, C!Init, Deciding
<1>13. C!WinnerIsDone
  BY DEF C!WinnerIsDone, C!Init
<1> QED  BY <1>5, <1>6, <1>8, <1>11, <1>12, <1>13 DEF CombInv

\* In every behaviour of the combinators WhenAll's count is exact unless a tick ran one
\* continuation inside another; nothing is decided before every task is done and the verdict is
\* that of all of them; WhenAny's winner is done, and stays the winner.
THEOREM CombinatorsDecideRight == C!Spec => []Verdict
<1>1. C!Spec => []CombInv
  BY CombInit, CombStep, PTL DEF C!Spec
<1>2. CombInv => Verdict
  <2>1. CombInv => C!TypeOK /\ C!WinnerIsDone /\ C!WinnerStays
    BY DEF CombInv, CombAny, C!WinnerStays, C!TypeOK
  <2>2. CombInv => C!CountIsExact
    <3>1. ASSUME CombInv, kind = "all", ~combRaced  PROVE  remaining = Cardinality(C!Outstanding)
      <4>1. CombCount
        BY <3>1 DEF CombInv, CombAll
      <4> QED  BY <3>1, <4>1 DEF CombCount
    <3>2. C!Cardinality(C!Outstanding) = Cardinality(C!Outstanding)
      BY DEF C!Cardinality, Cardinality
    <3> QED  BY <3>1, <3>2 DEF C!CountIsExact
  <2>3. CombInv => C!AllVerdict
    <3>1. CombInv /\ kind = "all" => C!AllVerdict
      BY DEF CombInv, CombAll
    <3>2. kind # "all" => C!AllVerdict
      BY DEF C!AllVerdict
    <3> QED  BY <3>1, <3>2
  <2> QED  BY <2>1, <2>2, <2>3 DEF Verdict, C!Sound
<1> QED  BY <1>1, <1>2, PTL

=============================================================================
