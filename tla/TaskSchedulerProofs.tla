------------------------ MODULE TaskSchedulerProofs ------------------------
(***************************************************************************)
(* TLAPS proofs about TaskScheduler, for every set of pollers, every bound *)
(* on the calls and any sharing of pollers between the two contexts.       *)
(***************************************************************************)
EXTENDS TaskScheduler, SequenceTheorems, TLAPS

\* An operation names its poller, and the node it is about to unlink is that poller.
OpOK ==
  \A c \in Context :
    /\ op[c].pc # "none" => op[c].p \in Poller
    /\ op[c].pc = "uUnlink" => op[c].cur = op[c].p
    /\ op[c].pc = "uCheck" => op[c].prev = Nil

TypeInv == TypeOK /\ OpOK

-----------------------------------------------------------------------------
(* Lemmas about the PollOnce activations.                                  *)

\* Replacing the innermost activation keeps a non-empty sequence of activations.
LEMMA ReplaceTopType ==
  ASSUME NEW c \in Context, NEW f \in Frame, TypeOK, frames[c] # <<>>, ReplaceTop(c, f)
  PROVE  /\ frames' \in [Context -> Seq(Frame)]
         /\ frames'[c] # <<>>
         /\ \A d \in Context : d # c => frames'[d] = frames[d]
<1>1. frames \in [Context -> Seq(Frame)]  BY DEF TypeOK
<1>2. /\ frames[c] \in Seq(Frame) /\ Len(frames[c]) \in 1 .. Len(frames[c])
  BY <1>1, EmptySeq
<1>3. /\ [frames[c] EXCEPT ![Len(frames[c])] = f] \in Seq(Frame)
      /\ Len([frames[c] EXCEPT ![Len(frames[c])] = f]) = Len(frames[c])
  BY <1>2, ExceptSeq
<1>4. [frames[c] EXCEPT ![Len(frames[c])] = f] # <<>>
  BY <1>2, <1>3, EmptySeq
<1>5. frames' = [frames EXCEPT ![c] = [frames[c] EXCEPT ![Len(frames[c])] = f]]
  BY <1>1 DEF ReplaceTop
<1>6. QED  BY <1>1, <1>3, <1>4, <1>5

\* The innermost activation is an activation.
LEMMA TopType ==
  ASSUME NEW c \in Context, TypeOK, frames[c] # <<>>
  PROVE  Top(c) \in Frame
<1>1. frames[c] \in Seq(Frame)  BY DEF TypeOK
<1>2. Len(frames[c]) \in 1 .. Len(frames[c])  BY <1>1, EmptySeq
<1>3. QED  BY <1>1, <1>2, ElementOfSeq DEF Top

\* Cutting the activations back to the n outermost ones leaves activations.
LEMMA CutType ==
  ASSUME NEW c \in Context, TypeOK, NEW n \in Nat, n <= Len(frames[c])
  PROVE  SubSeq(frames[c], 1, n) \in Seq(Frame)
<1>1. frames[c] \in Seq(Frame)  BY DEF TypeOK
<1>2. \A i \in 1 .. n : frames[c][i] \in Frame
  BY <1>1, ElementOfSeq, LenProperties
<1>3. QED  BY <1>2, SubSeqProperties

-----------------------------------------------------------------------------
(* Lemmas about the operation a context is inside.                         *)

\* One context's operation changes, the other's does not.
LEMMA SetOp ==
  ASSUME TypeOK, NEW c \in Context, NEW r \in Operation, op' = [op EXCEPT ![c] = r]
  PROVE  /\ op' \in [Context -> Operation]
         /\ op'[c] = r
         /\ \A d \in Context : d # c => op'[d] = op[d]
BY DEF TypeOK

\* Going on to the next statement keeps the operands.
LEMMA GotoOp ==
  ASSUME TypeOK, NEW c \in Context, NEW pc \in OpPc, Goto(c, pc)
  PROVE  /\ op' \in [Context -> Operation]
         /\ op'[c].pc = pc /\ op'[c].p = op[c].p
         /\ op'[c].prev = op[c].prev /\ op'[c].cur = op[c].cur
         /\ \A d \in Context : d # c => op'[d] = op[d]
<1> DEFINE r == [op[c] EXCEPT !.pc = pc]
<1>1. op[c] \in Operation  BY DEF TypeOK
<1>2. r \in Operation /\ r.pc = pc /\ r.p = op[c].p /\ r.prev = op[c].prev /\ r.cur = op[c].cur
  BY <1>1 DEF Operation
<1>3. op' = [op EXCEPT ![c] = r]  BY DEF Goto
<1> HIDE DEF r
<1>4. QED  BY <1>2, <1>3, SetOp

\* A finished operation leaves the context outside the list code.
LEMMA DoneOp ==
  ASSUME TypeOK, NEW c \in Context, Done(c)
  PROVE  /\ op' \in [Context -> Operation]
         /\ op'[c] = NoOp /\ op'[c].pc = "none" /\ op'[c].p = Nil
         /\ \A d \in Context : d # c => op'[d] = op[d]
<1>1. NoOp \in Operation  BY DEF NoOp, Operation, OpPc, Ref
<1>2. NoOp.pc = "none" /\ NoOp.p = Nil  BY DEF NoOp
<1>3. QED  BY <1>1, <1>2, SetOp DEF Done

\* A call enters the first statement of its operation.
LEMMA EnterOp ==
  ASSUME TypeOK, NEW c \in Context, NEW p \in Poller, NEW pc \in OpPc,
         op' = [op EXCEPT ![c] = [NoOp EXCEPT !.pc = pc, !.p = p]]
  PROVE  /\ op' \in [Context -> Operation]
         /\ op'[c].pc = pc /\ op'[c].p = p /\ op'[c].prev = Nil
         /\ \A d \in Context : d # c => op'[d] = op[d]
<1> DEFINE r == [NoOp EXCEPT !.pc = pc, !.p = p]
<1>1. r \in Operation /\ r.pc = pc /\ r.p = p /\ r.prev = Nil
  BY DEF NoOp, Operation, Ref
<1> HIDE DEF r
<1>2. op' = [op EXCEPT ![c] = r]  BY DEF r
<1>3. QED  BY <1>1, <1>2, SetOp

-----------------------------------------------------------------------------
(* Type correctness.                                                       *)

\* The types hold at first.
LEMMA TypeInvInit == Init => TypeInv
<1> SUFFICES ASSUME Init PROVE TypeInv  OBVIOUS
<1> USE DEF Init, Context, Ref, NoOp, OpPc, YieldPc
<1>1. frames \in [Context -> Seq(Frame)]  BY EmptySeq
<1>2. op \in [Context -> Operation]  BY DEF Operation
<1>3. ypc \in [Context -> YieldPc] /\ awaits \in [Context -> Ref]  OBVIOUS
<1> HIDE DEF Context, Ref, NoOp, OpPc, YieldPc
<1>4. next \in [Poller -> Ref] /\ head \in Ref  BY DEF Ref
<1>5. TypeOK  BY <1>1, <1>2, <1>3, <1>4 DEF TypeOK
<1>6. OpOK  BY DEF OpOK, NoOp
<1>7. QED  BY <1>5, <1>6 DEF TypeInv

\* A call of user code keeps the types.
LEMMA TypeInvCall ==
  ASSUME TypeInv, NEW c \in Context, CallStep(c)
  PROVE  TypeInv'
<1> USE DEF TypeInv
<1>1. ASSUME NEW p \in Poller, NEW pc \in {"rCheck", "uCheck"},
             Call(c), op' = [op EXCEPT ![c] = [NoOp EXCEPT !.pc = pc, !.p = p]],
             UNCHANGED <<listVars, passVars, timer, tick, ypc, frames, awaits, torn>>
      PROVE  TypeInv'
  <2>1. /\ op' \in [Context -> Operation] /\ op'[c].pc = pc /\ op'[c].p = p /\ op'[c].prev = Nil
        /\ \A d \in Context : d # c => op'[d] = op[d]
    BY <1>1, EnterOp DEF OpPc
  <2>2. OpOK'  BY <1>1, <2>1 DEF OpOK
  <2>3. TypeOK'  BY <1>1, <2>1 DEF TypeOK, Call, listVars, passVars
  <2>4. QED  BY <2>2, <2>3
<1>2. ASSUME NEW p \in Poller, CallRegister(c, p)  PROVE TypeInv'
  BY <1>1, <1>2 DEF CallRegister
<1>3. ASSUME NEW p \in Poller, CallUnregister(c, p)  PROVE TypeInv'
  BY <1>1, <1>3 DEF CallUnregister
<1>4. ASSUME NEW p \in Ref, CallWait(c, p)  PROVE TypeInv'
  <2>1. CASE ypc[c] = "idle"
    <3>1. OpOK'  BY <1>4 DEF CallWait, OpOK
    <3>2. ypc' \in [Context -> YieldPc] /\ awaits' \in [Context -> Ref]
      BY <1>4, <2>1 DEF CallWait, TypeOK, YieldPc
    <3>3. QED  BY <1>4, <2>1, <3>1, <3>2 DEF CallWait, Call, TypeOK, listVars, passVars
  <2>2. CASE ypc[c] # "idle"
    <3> DEFINE new == [cur |-> head, nxt |-> Nil, phase |-> "fetch", wait |-> p]
    <3>1. new \in Frame  BY DEF TypeOK, Frame, Ref
    <3>2. Append(frames[c], new) \in Seq(Frame)  BY <3>1, AppendProperties DEF TypeOK
    <3>3. frames' \in [Context -> Seq(Frame)]
      BY <1>4, <2>2, <3>2 DEF CallWait, TypeOK
    <3>4. QED
      BY <1>4, <2>2, <3>3 DEF CallWait, Call, TypeOK, OpOK, listVars, passVars
  <2>3. QED  BY <2>1, <2>2
<1>5. QED  BY <1>2, <1>3, <1>4 DEF CallStep

\* A statement of Register or Unregister keeps the types.
LEMMA TypeInvList ==
  ASSUME TypeInv, NEW c \in Context, ListStep(c)
  PROVE  TypeInv'
<1> USE DEF TypeInv
<1>p. op[c].pc # "none" => op[c].p \in Poller /\ op[c] \in Operation
  BY DEF OpOK, TypeOK
<1>1. ASSUME op' \in [Context -> Operation],
             op'[c].pc # "none" => op'[c].p = op[c].p /\ op[c].pc # "none",
             op'[c].pc = "uUnlink" => op'[c].cur = op'[c].p,
             op'[c].pc # "uCheck",
             \A d \in Context : d # c => op'[d] = op[d]
      PROVE  OpOK'
  BY <1>1 DEF OpOK
<1>2. ASSUME NEW pc \in OpPc \ {"none", "uUnlink", "uCheck"}, Goto(c, pc), op[c].pc # "none"
      PROVE  OpOK' /\ op' \in [Context -> Operation]
  BY <1>1, <1>2, GotoOp
<1>3. ASSUME Done(c)
      PROVE  OpOK' /\ op' \in [Context -> Operation]
  BY <1>1, <1>3, DoneOp
<1> USE DEF At, Tear, passVars, listVars
<1>4. CASE RegisterCheck(c)
  <2>1. OpOK' /\ op' \in [Context -> Operation]
    BY <1>2, <1>3, <1>4 DEF RegisterCheck, OpPc
  <2>2. QED  BY <1>4, <2>1 DEF RegisterCheck, TypeOK
<1>5. CASE RegisterLink(c)
  <2>1. OpOK' /\ op' \in [Context -> Operation]  BY <1>2, <1>5 DEF RegisterLink, OpPc
  <2>2. QED  BY <1>5, <2>1 DEF RegisterLink, TypeOK
<1>6. CASE RegisterFlag(c)
  <2>1. OpOK' /\ op' \in [Context -> Operation]  BY <1>2, <1>6 DEF RegisterFlag, OpPc
  <2>2. QED  BY <1>6, <2>1 DEF RegisterFlag, TypeOK
<1>7. CASE RegisterPublish(c)
  <2>1. OpOK' /\ op' \in [Context -> Operation]  BY <1>2, <1>7 DEF RegisterPublish, OpPc
  <2>2. QED  BY <1>7, <1>p, <2>1 DEF RegisterPublish, TypeOK, Ref
<1>8. CASE RegisterNotify(c)
  <2>1. OpOK' /\ op' \in [Context -> Operation]  BY <1>3, <1>8 DEF RegisterNotify
  <2>2. QED  BY <1>8, <2>1 DEF RegisterNotify, TypeOK
<1>9. CASE UnregisterCheck(c)
  <2> DEFINE r == [op[c] EXCEPT !.pc = "uWalk", !.cur = head]
  <2>1. r \in Operation /\ r.pc = "uWalk" /\ r.p = op[c].p
    BY <1>9, <1>p DEF UnregisterCheck, Operation, OpPc, TypeOK
  <2> HIDE DEF r
  <2>2. CASE registered[op[c].p]
    <3>1. op' = [op EXCEPT ![c] = r]  BY <1>9, <2>2 DEF UnregisterCheck, r
    <3>2. OpOK' /\ op' \in [Context -> Operation]
      BY <1>1, <1>9, <2>1, <3>1, SetOp DEF UnregisterCheck
    <3>3. QED  BY <1>9, <3>2 DEF UnregisterCheck, TypeOK
  <2>3. CASE ~registered[op[c].p]
    <3>1. OpOK' /\ op' \in [Context -> Operation]
      BY <1>3, <1>9, <2>3 DEF UnregisterCheck
    <3>2. QED  BY <1>9, <3>1 DEF UnregisterCheck, TypeOK
  <2>4. QED  BY <2>2, <2>3
<1>10. CASE UnregisterWalk(c)
  <2>1. OpOK' /\ op' \in [Context -> Operation]
    <3>1. CASE op[c].cur = Nil /\ Goto(c, "uGiveUp")
      BY <1>2, <1>10, <3>1 DEF UnregisterWalk, OpPc
    <3>2. CASE op[c].cur = op[c].p /\ Goto(c, "uUnlink")
      <4>1. "uUnlink" \in OpPc  BY DEF OpPc
      <4>2. QED  BY <1>1, <1>10, <3>2, <4>1, GotoOp DEF UnregisterWalk
    <3>3. CASE /\ op[c].cur \notin {Nil, op[c].p}
               /\ op' = [op EXCEPT ![c] =
                           [@ EXCEPT !.prev = op[c].cur, !.cur = next[op[c].cur]]]
      <4> DEFINE r == [op[c] EXCEPT !.prev = op[c].cur, !.cur = next[op[c].cur]]
      <4>1. op[c].cur \in Poller /\ next[op[c].cur] \in Ref
        BY <1>10, <1>p, <3>3 DEF UnregisterWalk, Operation, Ref, TypeOK
      <4>2. r \in Operation /\ r.pc = "uWalk" /\ r.p = op[c].p
        BY <1>10, <1>p, <4>1 DEF UnregisterWalk, Operation, Ref
      <4> HIDE DEF r
      <4>3. op' = [op EXCEPT ![c] = r]  BY <3>3 DEF r
      <4>4. QED  BY <1>1, <1>10, <4>2, <4>3, SetOp DEF UnregisterWalk
    <3>4. QED  BY <1>10, <3>1, <3>2, <3>3 DEF UnregisterWalk
  <2>2. QED  BY <1>10, <2>1 DEF UnregisterWalk, TypeOK
<1>11. CASE UnregisterUnlink(c)
  <2>1. OpOK' /\ op' \in [Context -> Operation]  BY <1>2, <1>11 DEF UnregisterUnlink, OpPc
  <2>2. next[op[c].cur] \in Ref
    BY <1>11, <1>p DEF UnregisterUnlink, OpOK, TypeOK
  <2>3. QED  BY <1>11, <2>1, <2>2 DEF UnregisterUnlink, TypeOK
<1>12. CASE UnregisterClear(c)
  <2>1. OpOK' /\ op' \in [Context -> Operation]  BY <1>3, <1>12 DEF UnregisterClear
  <2>2. QED  BY <1>12, <2>1 DEF UnregisterClear, TypeOK, Ref
<1>13. QED
  BY <1>4, <1>5, <1>6, <1>7, <1>8, <1>9, <1>10, <1>11, <1>12 DEF ListStep

\* Returning from Yield keeps the types.
LEMMA YieldReturnType ==
  ASSUME TypeOK, NEW c \in Context, YieldReturn(c)
  PROVE  ypc' \in [Context -> YieldPc] /\ awaits' \in [Context -> Ref] /\ tick' = FALSE
BY DEF YieldReturn, TypeOK, YieldPc, Ref

\* A statement of Yield keeps the types.
LEMMA TypeInvPass ==
  ASSUME TypeInv, NEW c \in Context, PassStep(c)
  PROVE  TypeInv'
<1> USE DEF TypeInv, YieldPc, passVars, listVars
<1>op. OpOK'
  <2>1. UNCHANGED op
    BY DEF PassStep, YieldCheck, YieldSet, YieldLoop, YieldTest, YieldFinally,
           PollCurrent, PollReturns, PollOnceEnds, PollThrows
  <2>2. QED  BY <2>1 DEF OpOK
<1>1. CASE YieldCheck(c)
  <2>1. ypc' \in [Context -> YieldPc] /\ awaits' \in [Context -> Ref] /\ tick' \in BOOLEAN
    BY <1>1, YieldReturnType DEF YieldCheck, TypeOK
  <2>2. again' \in BOOLEAN  BY <1>1 DEF YieldCheck, TypeOK
  <2>3. QED  BY <1>1, <1>op, <2>1, <2>2 DEF YieldCheck, TypeOK
<1>2. CASE YieldSet(c)      BY <1>2, <1>op DEF YieldSet, TypeOK
<1>3. CASE YieldLoop(c)
  <2> DEFINE new == [cur |-> head, nxt |-> Nil, phase |-> "fetch", wait |-> Nil]
  <2>1. new \in Frame  BY DEF TypeOK, Frame, Ref
  <2>2. <<new>> \in Seq(Frame)  BY <2>1
  <2>3. frames' \in [Context -> Seq(Frame)]  BY <1>3, <2>2 DEF YieldLoop, TypeOK
  <2>4. QED  BY <1>3, <1>op, <2>3 DEF YieldLoop, TypeOK
<1>4. CASE YieldTest(c)     BY <1>4, <1>op DEF YieldTest, TypeOK
<1>5. CASE YieldFinally(c)
  BY <1>5, <1>op, YieldReturnType DEF YieldFinally, TypeOK
<1>6. CASE PollCurrent(c)
  <2>1. [Top(c) EXCEPT !.nxt = next[Top(c).cur], !.phase = "poll"] \in Frame
    BY <1>6, TopType DEF PollCurrent, InPoll, TypeOK, Frame, Ref
  <2>2. frames' \in [Context -> Seq(Frame)]
    BY <1>6, <2>1, ReplaceTopType DEF PollCurrent, InPoll
  <2>3. QED  BY <1>6, <1>op, <2>2 DEF PollCurrent, TypeOK
<1>7. CASE PollReturns(c)
  <2>1. [Top(c) EXCEPT !.cur = Top(c).nxt, !.nxt = Nil, !.phase = "fetch"] \in Frame
    BY <1>7, TopType DEF PollReturns, InPoll, TypeOK, Frame, Ref
  <2>2. frames' \in [Context -> Seq(Frame)]
    BY <1>7, <2>1, ReplaceTopType DEF PollReturns, InPoll
  <2>3. QED  BY <1>7, <1>op, <2>2 DEF PollReturns, TypeOK
<1>8. CASE PollOnceEnds(c)
  <2>1. frames' \in [Context -> Seq(Frame)]
    <3>1. CASE frames' = [frames EXCEPT ![c] = <<>>]
      BY <3>1, EmptySeq DEF TypeOK
    <3>2. CASE Len(frames[c]) > 1 /\ ReplaceTop(c, [Top(c) EXCEPT !.cur = head])
      <4>1. [Top(c) EXCEPT !.cur = head] \in Frame
        BY <1>8, TopType DEF PollOnceEnds, InPoll, TypeOK, Frame, Ref
      <4>2. QED  BY <1>8, <3>2, <4>1, ReplaceTopType DEF PollOnceEnds, InPoll
    <3>3. CASE /\ Len(frames[c]) > 1
               /\ frames' = [frames EXCEPT ![c] = SubSeq(@, 1, Len(@) - 1)]
      <4>1. Len(frames[c]) \in Nat  BY LenProperties DEF TypeOK
      <4>2. SubSeq(frames[c], 1, Len(frames[c]) - 1) \in Seq(Frame)
        BY <3>3, <4>1, CutType
      <4>3. QED  BY <3>3, <4>2 DEF TypeOK
    <3>4. QED  BY <1>8, <3>1, <3>2, <3>3 DEF PollOnceEnds
  <2>2. ypc' \in [Context -> YieldPc] /\ again' \in BOOLEAN  BY <1>8 DEF PollOnceEnds, TypeOK
  <2>3. QED  BY <1>8, <1>op, <2>1, <2>2 DEF PollOnceEnds, TypeOK
<1>9. CASE PollThrows(c)
  <2>1. PICK n \in 0 .. Len(frames[c]) - 1 :
          /\ frames' = [frames EXCEPT ![c] = SubSeq(@, 1, n)]
          /\ IF n = 0 THEN /\ ypc' = [ypc EXCEPT ![c] = "finally"]
                           /\ awaits' = [awaits EXCEPT ![c] = Nil]
                      ELSE UNCHANGED <<ypc, awaits>>
    BY <1>9 DEF PollThrows
  <2>2. Len(frames[c]) \in Nat  BY LenProperties DEF TypeOK
  <2>3. SubSeq(frames[c], 1, n) \in Seq(Frame)  BY <2>2, CutType
  <2>4. frames' \in [Context -> Seq(Frame)]  BY <2>1, <2>3 DEF TypeOK
  <2>5. ypc' \in [Context -> YieldPc] /\ awaits' \in [Context -> Ref]
    BY <2>1 DEF TypeOK, Ref
  <2>6. QED  BY <1>9, <1>op, <2>4, <2>5 DEF PollThrows, TypeOK
<1>10. QED
  BY <1>1, <1>2, <1>3, <1>4, <1>5, <1>6, <1>7, <1>8, <1>9 DEF PassStep

\* A tick keeps the types.
LEMMA TypeInvTick == TypeInv /\ TimerTick => TypeInv'
BY DEF TypeInv, TimerTick, TypeOK, OpOK, Context, YieldPc, listVars, passVars

\* Without a step the types stay.
LEMMA TypeInvStutter == TypeInv /\ UNCHANGED vars => TypeInv'
BY DEF TypeInv, TypeOK, OpOK, vars, listVars, passVars

\* The types hold for ever.
LEMMA TypeInvariant == Spec => []TypeInv
<1>1. TypeInv /\ [Next]_vars => TypeInv'
  BY TypeInvCall, TypeInvList, TypeInvPass, TypeInvTick, TypeInvStutter DEF Next
<1>2. QED  BY <1>1, TypeInvInit, PTL DEF Spec

\* The state of the scheduler always has its type.
THEOREM TypeCorrect == Spec => []TypeOK
<1>1. TypeInv => TypeOK  BY DEF TypeInv
<1>2. QED  BY <1>1, TypeInvariant, PTL

-----------------------------------------------------------------------------
(* One pass at a time.                                                     *)

\* The notification is in Yield exactly while it has the CPU, it has a list operation
\* only inside a pass and never waits at its outermost level; a context that is about
\* to set s_yielding still finds it clear, although a tick may have run a whole pass
\* since it looked.
PassInv ==
  /\ OnePass
  /\ ~tick => ypc["Timer"] = "idle"
  /\ \A c \in Context : OnCpu(c) /\ ypc[c] = "set" => ~yielding
  /\ op["Timer"].pc # "none" => ypc["Timer"] = "pass"
  /\ awaits["Timer"] = Nil

\* No pass at first.
LEMMA PassInvInit == Init => PassInv
BY DEF Init, PassInv, OnePass, Passing, Context, OnCpu, NoOp

\* Steps that leave the pass of both contexts where it is.
LEMMA PassInvCall ==
  ASSUME TypeInv, PassInv, NEW c \in Context, CallStep(c)
  PROVE  PassInv'
<1> USE DEF TypeInv, PassInv, OnePass, Passing, OnCpu, Call, InUserCode, listVars, passVars
<1>1. ASSUME NEW p \in Poller, NEW pc \in OpPc,
             op' = [op EXCEPT ![c] = [NoOp EXCEPT !.pc = pc, !.p = p]], InUserCode(c),
             UNCHANGED <<passVars, tick, ypc, frames, awaits>>
      PROVE  PassInv'
  <2>1. c # "Timer" => op'["Timer"] = op["Timer"]  BY <1>1, EnterOp DEF Context
  <2>2. c = "Timer" => ypc["Timer"] = "pass"  BY <1>1
  <2>3. QED  BY <1>1, <2>1, <2>2
<1>2. ASSUME NEW p \in Poller, CallRegister(c, p)  PROVE PassInv'
  BY <1>1, <1>2 DEF CallRegister, OpPc
<1>3. ASSUME NEW p \in Poller, CallUnregister(c, p)  PROVE PassInv'
  BY <1>1, <1>3 DEF CallUnregister, OpPc
<1>4. ASSUME NEW p \in Ref, CallWait(c, p)  PROVE PassInv'
  <2>1. CASE ypc[c] = "idle"
    <3>1. c = "App" /\ ~tick  BY <1>4, <2>1 DEF CallWait, Context
    <3>2. /\ ypc' = [ypc EXCEPT !["App"] = "check"] /\ awaits' = [awaits EXCEPT !["App"] = p]
          /\ UNCHANGED <<yielding, tick, op, frames>>
      BY <1>4, <2>1, <3>1 DEF CallWait
    <3>3. ypc'["App"] = "check" /\ ypc'["Timer"] = ypc["Timer"] /\ awaits'["Timer"] = Nil
      BY <3>2 DEF TypeOK, Context
    <3>4. QED  BY <2>1, <3>1, <3>2, <3>3 DEF Context
  <2>2. CASE ypc[c] # "idle"
    <3>1. ypc[c] = "pass"  BY <1>4, <2>2 DEF CallWait
    <3>2. \A d \in Context : d # c => frames'[d] = frames[d]
      BY <1>4, <2>2 DEF CallWait, TypeOK
    <3>3. QED  BY <1>4, <2>2, <3>1, <3>2 DEF CallWait
  <2>3. QED  BY <2>1, <2>2
<1>5. QED  BY <1>2, <1>3, <1>4 DEF CallStep

\* A statement of Register or Unregister begins and ends no pass.
LEMMA PassInvList ==
  ASSUME TypeInv, PassInv, NEW c \in Context, ListStep(c)
  PROVE  PassInv'
<1>1. /\ UNCHANGED <<yielding, tick, ypc, frames, awaits>>
      /\ op[c].pc # "none"
      /\ c = "App" => UNCHANGED op["Timer"]
  BY DEF ListStep, RegisterCheck, RegisterLink, RegisterFlag, RegisterPublish, RegisterNotify,
         UnregisterCheck, UnregisterWalk, UnregisterUnlink, UnregisterClear, At, Goto, Done,
         passVars, TypeInv, TypeOK, Context
<1>2. QED
  BY <1>1 DEF PassInv, OnePass, Passing, OnCpu, Context

\* A statement of Yield.
LEMMA PassInvPass ==
  ASSUME TypeInv, PassInv, NEW c \in Context, PassStep(c)
  PROVE  PassInv'
<1> USE DEF PassInv, OnePass, Passing, OnCpu
<1>op. UNCHANGED op
  BY DEF PassStep, YieldCheck, YieldSet, YieldLoop, YieldTest, YieldFinally,
         PollCurrent, PollReturns, PollOnceEnds, PollThrows
<1>type. ypc \in [Context -> YieldPc] /\ frames \in [Context -> Seq(Frame)] /\ awaits \in [Context -> Ref]
  BY DEF TypeInv, TypeOK
<1>t. TypeOK /\ tick \in BOOLEAN  BY DEF TypeInv, TypeOK
\* A step that only moves c within Yield, keeping s_yielding as it goes.
<1>ret. ASSUME YieldReturn(c), OnCpu(c), ypc[c] \in {"check", "finally"}, UNCHANGED frames,
               yielding' = (yielding /\ ypc[c] = "check"),
               ypc[c] = "check" => yielding
        PROVE  PassInv'
  <2>1. CASE c = "Timer"
    <3>1. ypc' = [ypc EXCEPT !["Timer"] = "idle"] /\ awaits' = [awaits EXCEPT !["Timer"] = Nil] /\ ~tick'
      BY <1>ret, <2>1 DEF YieldReturn
    <3>2. ypc'["Timer"] = "idle" /\ ypc'["App"] = ypc["App"] /\ awaits'["Timer"] = Nil
      BY <3>1, <1>type DEF Context
    <3>3. QED  BY <1>ret, <1>op, <2>1, <3>1, <3>2 DEF Context
  <2>2. CASE c = "App"
    <3>1. ypc'["Timer"] = ypc["Timer"] /\ ypc'["App"] \in {"check", "idle"} /\ ~tick'
          /\ awaits'["Timer"] = awaits["Timer"]
      BY <1>ret, <1>type, <2>2 DEF YieldReturn, Context
    <3>2. QED  BY <1>ret, <1>op, <2>2, <3>1 DEF Context
  <2>3. QED  BY <2>1, <2>2 DEF Context
<1>1. CASE YieldCheck(c)
  <2>1. CASE yielding /\ again' = TRUE /\ YieldReturn(c)
    BY <1>1, <1>ret, <2>1 DEF YieldCheck
  <2>2. CASE ~yielding /\ ypc' = [ypc EXCEPT ![c] = "set"] /\ UNCHANGED <<again, tick, awaits>>
    BY <1>1, <1>op, <1>type, <2>2 DEF YieldCheck, Context
  <2>3. QED  BY <1>1, <2>1, <2>2 DEF YieldCheck
<1>2. CASE YieldSet(c)
  BY <1>2, <1>op, <1>type DEF YieldSet, Context
<1>3. CASE YieldLoop(c)
  BY <1>3, <1>op, <1>type DEF YieldLoop, Context, passVars
<1>4. CASE YieldTest(c)
  BY <1>4, <1>op, <1>type DEF YieldTest, Context, passVars
<1>5. CASE YieldFinally(c)
  BY <1>5, <1>ret DEF YieldFinally
<1>6. CASE PollCurrent(c)
  <2>1. \A d \in Context : d # c => frames'[d] = frames[d]
    BY <1>6, <1>type DEF PollCurrent, ReplaceTop
  <2>2. QED  BY <1>6, <1>op, <2>1 DEF PollCurrent, InPoll, passVars
<1>7. CASE PollReturns(c)
  <2>1. \A d \in Context : d # c => frames'[d] = frames[d]
    BY <1>7, <1>type DEF PollReturns, ReplaceTop
  <2>2. QED  BY <1>7, <1>op, <2>1 DEF PollReturns, InPoll, passVars
<1>8. CASE PollOnceEnds(c)
  <2>1. CASE frames' = [frames EXCEPT ![c] = <<>>] /\ ypc' = [ypc EXCEPT ![c] = "test"]
    <3>1. /\ frames'[c] = <<>> /\ ypc'[c] = "test" /\ op[c].pc = "none"
          /\ \A d \in Context : d # c => frames'[d] = frames[d] /\ ypc'[d] = ypc[d]
      BY <1>8, <1>type, <2>1 DEF PollOnceEnds, InPoll
    <3>2. QED  BY <1>8, <1>op, <3>1 DEF PollOnceEnds, InPoll, Context
  <2>2. CASE UNCHANGED ypc
    <3>1. \A d \in Context : d # c => frames'[d] = frames[d]
      BY <1>8, <1>type DEF PollOnceEnds, ReplaceTop
    <3>2. QED  BY <1>8, <1>op, <2>2, <3>1 DEF PollOnceEnds, InPoll
  <2>3. QED  BY <1>8, <2>1, <2>2 DEF PollOnceEnds
<1>9. CASE PollThrows(c)
  <2>1. PICK n \in 0 .. Len(frames[c]) - 1 :
          /\ frames' = [frames EXCEPT ![c] = SubSeq(@, 1, n)]
          /\ IF n = 0 THEN /\ ypc' = [ypc EXCEPT ![c] = "finally"]
                           /\ awaits' = [awaits EXCEPT ![c] = Nil]
                      ELSE UNCHANGED <<ypc, awaits>>
    BY <1>9 DEF PollThrows
  <2>2. n = 0 => SubSeq(frames[c], 1, n) = <<>>  BY SubSeqEmpty
  <2>3. /\ n = 0 => frames'[c] = <<>>
        /\ \A d \in Context : d # c => frames'[d] = frames[d]
    BY <1>type, <2>1, <2>2
  <2>4. c = "App" /\ ypc[c] = "pass" /\ ~tick /\ UNCHANGED <<yielding, tick>>
    BY <1>9 DEF PollThrows, InUserCode, passVars
  <2>5. ypc'["Timer"] = ypc["Timer"] /\ awaits'["Timer"] = awaits["Timer"]
    BY <1>type, <2>1, <2>4 DEF Context
  <2>6. ypc'["App"] = IF n = 0 THEN "finally" ELSE "pass"
    BY <1>type, <2>1, <2>4 DEF Context
  <2>7. QED  BY <1>op, <2>3, <2>4, <2>5, <2>6 DEF Context
<1>10. QED
  BY <1>1, <1>2, <1>3, <1>4, <1>5, <1>6, <1>7, <1>8, <1>9 DEF PassStep

\* A tick is no pass yet.
LEMMA PassInvTick ==
  ASSUME TypeInv, PassInv, TimerTick
  PROVE  PassInv'
<1>1. ypc'["Timer"] = "check" /\ ypc'["App"] = ypc["App"]
  BY DEF TypeInv, TypeOK, TimerTick, Context
<1>2. ypc["Timer"] = "idle" /\ op["Timer"].pc = "none" /\ frames["Timer"] = <<>>
  BY DEF PassInv, OnePass, TimerTick, Context
<1>3. tick' /\ UNCHANGED <<yielding, op, frames, awaits>>  BY DEF TimerTick, passVars
<1>4. QED  BY <1>1, <1>2, <1>3 DEF PassInv, OnePass, Passing, OnCpu, Context

\* One pass at a time, for ever.
LEMMA PassInvariant == Spec => []PassInv
<1>1. PassInv /\ UNCHANGED vars => PassInv'
  BY DEF PassInv, OnePass, Passing, OnCpu, vars, passVars
<1>2. TypeInv /\ PassInv /\ [Next]_vars => PassInv'
  BY <1>1, PassInvCall, PassInvList, PassInvPass, PassInvTick DEF Next
<1>3. QED  BY <1>2, PassInvInit, TypeInvariant, PTL DEF Spec

\* s_yielding admits one pass at a time: the tick and the application never walk
\* the list together.
THEOREM OnePassHolds == Spec => []OnePass
<1>1. PassInv => OnePass  BY DEF PassInv
<1>2. QED  BY <1>1, PassInvariant, PTL

\* A tick inside a pass of the application changes nothing in the list.
THEOREM InsidePassTickIsInert == Spec => TickInsidePassIsInert
<1>1. PassInv /\ [Next]_vars => [tick /\ Passing("App") => UNCHANGED listVars]_vars
  <2> SUFFICES ASSUME PassInv, Next, tick, Passing("App")  PROVE UNCHANGED listVars
    OBVIOUS
  <2>1. op["Timer"].pc = "none"  BY DEF PassInv, OnePass, Passing
  <2>2. \A c \in Context : ~ListStep(c)
    BY <2>1 DEF ListStep, RegisterCheck, RegisterLink, RegisterFlag, RegisterPublish, RegisterNotify,
                UnregisterCheck, UnregisterWalk, UnregisterUnlink, UnregisterClear, At, OnCpu, Context
  <2>3. \A c \in Context : PassStep(c) => UNCHANGED listVars
    BY DEF PassStep, YieldCheck, YieldSet, YieldLoop, YieldTest, YieldFinally,
           PollCurrent, PollReturns, PollOnceEnds, PollThrows
  <2>4. \A c \in Context : CallStep(c) => UNCHANGED listVars
    BY DEF CallStep, CallRegister, CallUnregister, CallWait
  <2>5. QED  BY <2>2, <2>3, <2>4 DEF Next, TimerTick
<1>2. QED  BY <1>1, PassInvariant, PTL DEF Spec, TickInsidePassIsInert

-----------------------------------------------------------------------------
(* A registration inside a pass is answered by another pass.               *)

\* Inside a pass, a registration since the pass began has asked for another pass, or is about
\* to; and the application leaves a list operation before it goes on in Yield.
AgainInv ==
  /\ \A c \in Context :
       ypc[c] \in {"pass", "test"} => again \/ clock = passClock \/ op[c].pc = "rNotify"
  /\ op["App"].pc # "none" => ypc["App"] \in {"idle", "pass"}

\* A call of user code.
LEMMA AgainInvCall ==
  ASSUME TypeInv, PassInv, AgainInv, NEW c \in Context, CallStep(c)
  PROVE  AgainInv'
<1> USE DEF TypeInv, TypeOK, AgainInv, Call, InUserCode, listVars, passVars
<1>1. ASSUME NEW p \in Poller, NEW pc \in OpPc, InUserCode(c),
             op' = [op EXCEPT ![c] = [NoOp EXCEPT !.pc = pc, !.p = p]],
             UNCHANGED <<listVars, passVars, ypc>>
      PROVE  AgainInv'
  <2>1. \A d \in Context : d # c => op'[d] = op[d]  BY <1>1, EnterOp
  <2>2. op[c].pc = "none" /\ ypc[c] \in {"idle", "pass"}
    BY <1>1 DEF PassInv, OnCpu, Context
  <2>3. QED  BY <1>1, <2>1, <2>2 DEF Context
<1>2. ASSUME NEW p \in Poller, CallRegister(c, p)  PROVE AgainInv'
  BY <1>1, <1>2 DEF CallRegister, OpPc
<1>3. ASSUME NEW p \in Poller, CallUnregister(c, p)  PROVE AgainInv'
  BY <1>1, <1>3 DEF CallUnregister, OpPc
<1>4. ASSUME NEW p \in Ref, CallWait(c, p)  PROVE AgainInv'
  BY <1>4 DEF CallWait, Context
<1>5. QED  BY <1>2, <1>3, <1>4 DEF CallStep

\* A statement of Register or Unregister: what is registered sets s_again.
LEMMA AgainInvList ==
  ASSUME TypeInv, PassInv, AgainInv, NEW c \in Context, ListStep(c)
  PROVE  AgainInv'
<1> USE DEF PassInv, OnePass, Passing, OnCpu
<1>1. /\ OnCpu(c) /\ op[c].pc # "none"
      /\ UNCHANGED <<ypc, yielding, passClock>>
      /\ \A d \in Context : d # c => op'[d] = op[d]
  BY DEF ListStep, RegisterCheck, RegisterLink, RegisterFlag, RegisterPublish, RegisterNotify,
         UnregisterCheck, UnregisterWalk, UnregisterUnlink, UnregisterClear, At, Goto, Done,
         passVars, TypeInv, TypeOK
\* Only the context whose step it is can be inside a pass.
<1>2. ASSUME NEW d \in Context, ypc[d] \in {"pass", "test"}  PROVE d = c
  BY <1>1, <1>2 DEF AgainInv, Context
<1>3. CASE RegisterPublish(c)
  <2>1. op'[c].pc = "rNotify"  BY <1>3, GotoOp DEF RegisterPublish, OpPc, TypeInv
  <2>2. QED  BY <1>1, <1>2, <2>1 DEF AgainInv, Context
<1>4. CASE RegisterNotify(c)
  BY <1>1, <1>2, <1>4 DEF RegisterNotify, AgainInv, Context
<1>5. CASE op[c].pc # "rNotify" /\ UNCHANGED <<again, clock>>
  BY <1>1, <1>2, <1>5 DEF AgainInv, Context
<1>6. QED
  BY <1>3, <1>4, <1>5
  DEF ListStep, RegisterCheck, RegisterLink, RegisterFlag, UnregisterCheck, UnregisterWalk,
      UnregisterUnlink, UnregisterClear, At, passVars, listVars

\* A statement of Yield.
LEMMA AgainInvPass ==
  ASSUME TypeInv, PassInv, AgainInv, NEW c \in Context, PassStep(c)
  PROVE  AgainInv'
<1> USE DEF AgainInv, OnCpu
<1>1. UNCHANGED op /\ UNCHANGED clock
  BY DEF PassStep, YieldCheck, YieldSet, YieldLoop, YieldTest, YieldFinally,
         PollCurrent, PollReturns, PollOnceEnds, PollThrows, listVars
<1>2. /\ op[c].pc = "none"
      /\ \A d \in Context : d # c => ypc'[d] = ypc[d]
  BY DEF PassStep, YieldCheck, YieldSet, YieldLoop, YieldTest, YieldFinally, YieldReturn,
         PollCurrent, PollReturns, PollOnceEnds, PollThrows, InPoll, InUserCode, PassInv,
         TypeInv, TypeOK, Context
<1>3. ypc \in [Context -> YieldPc]  BY DEF TypeInv, TypeOK
<1>4. CASE YieldLoop(c)
  <2>1. \A d \in Context : ypc[d] \in {"pass", "test"} => d = c
    BY <1>4 DEF YieldLoop, PassInv, OnePass, Passing, Context
  <2>2. QED  BY <1>1, <1>2, <1>3, <1>4, <2>1 DEF YieldLoop, Context
<1>5. CASE YieldFinally(c)
  <2>1. \A d \in Context : ypc[d] \notin {"pass", "test"}
    BY <1>5 DEF YieldFinally, PassInv, OnePass, Passing, Context
  <2>2. ypc'[c] \in {"check", "idle"}
    BY <1>3, <1>5 DEF YieldFinally, YieldReturn
  <2>3. QED  BY <1>1, <1>2, <2>1, <2>2 DEF Context
<1>6. CASE YieldCheck(c) \/ YieldSet(c) \/ YieldTest(c)
  <2>1. ypc'[c] \notin {"pass", "test"} /\ (again => again') /\ UNCHANGED passClock
    BY <1>3, <1>6 DEF YieldCheck, YieldSet, YieldTest, YieldReturn, passVars
  <2>2. QED  BY <1>1, <1>2, <2>1 DEF Context
<1>7. CASE PollCurrent(c) \/ PollReturns(c) \/ PollOnceEnds(c) \/ PollThrows(c)
  <2>1. ypc[c] = "pass" /\ (again => again') /\ UNCHANGED passClock
    BY <1>7 DEF PollCurrent, PollReturns, PollOnceEnds, PollThrows, InPoll, InUserCode, passVars
  <2>2. QED  BY <1>1, <1>2, <2>1 DEF Context
<1>8. QED  BY <1>4, <1>5, <1>6, <1>7 DEF PassStep

\* It holds for ever.
LEMMA AgainInvariant == Spec => []AgainInv
<1>1. Init => AgainInv  BY DEF Init, AgainInv, NoOp, Context
<1>2. TypeInv /\ PassInv /\ AgainInv /\ TimerTick => AgainInv'
  BY DEF TypeInv, TypeOK, AgainInv, TimerTick, listVars, passVars, Context
<1>3. AgainInv /\ UNCHANGED vars => AgainInv'
  BY DEF AgainInv, vars, listVars, passVars
<1>4. TypeInv /\ PassInv /\ AgainInv /\ [Next]_vars => AgainInv'
  BY <1>2, <1>3, AgainInvCall, AgainInvList, AgainInvPass DEF Next
<1>5. QED  BY <1>1, <1>4, TypeInvariant, PassInvariant, PTL DEF Spec

\* Yield leaves its loop only when nothing was registered since its last pass began, unless
\* an exception ended the pass: a poller that a continuation registers is polled before
\* Yield returns, however the tick and the application interleave.
THEOREM YieldLeavesNothing == Spec => YieldLeavesNothingNew
<1> DEFINE Left(c) == ypc[c] = "test" /\ ypc'[c] = "finally"
<1>1. TypeInv /\ PassInv /\ AgainInv /\ [Next]_vars
        => [\A c \in Context : Left(c) => clock = passClock]_vars
  <2> SUFFICES ASSUME TypeInv, PassInv, AgainInv, Next, NEW c \in Context, Left(c)
               PROVE  clock = passClock
    OBVIOUS
  <2>1. op[c].pc = "none"  BY DEF AgainInv, PassInv, Context
  <2>type. ypc \in [Context -> YieldPc]  BY DEF TypeInv, TypeOK
  <2>a. ~TimerTick  BY <2>type DEF TimerTick, Context
  <2>b. ASSUME NEW d \in Context, ListStep(d)  PROVE FALSE
    BY <2>b DEF ListStep, RegisterCheck, RegisterLink, RegisterFlag, RegisterPublish, RegisterNotify,
                UnregisterCheck, UnregisterWalk, UnregisterUnlink, UnregisterClear
  <2>c. ASSUME NEW d \in Context, CallStep(d)  PROVE FALSE
    BY <2>c, <2>type DEF CallStep, CallRegister, CallUnregister, CallWait
  <2>d. ASSUME NEW d \in Context, PassStep(d)  PROVE YieldTest(c)
    <3>1. d # c => ypc'[c] = ypc[c]
      BY <2>d, <2>type DEF PassStep, YieldCheck, YieldSet, YieldLoop, YieldTest, YieldFinally,
             YieldReturn, PollCurrent, PollReturns, PollOnceEnds, PollThrows
    <3>2. d = c  BY <3>1
    <3>3. QED
      BY <2>d, <3>2 DEF PassStep, YieldCheck, YieldSet, YieldLoop, YieldFinally, PollCurrent,
             PollReturns, PollOnceEnds, PollThrows, InPoll, InUserCode
  <2>2. YieldTest(c)  BY <2>a, <2>b, <2>c, <2>d DEF Next
  <2>3. ~again  BY <2>2 DEF YieldTest, TypeInv, TypeOK
  <2>4. QED  BY <2>1, <2>3 DEF AgainInv
<1>2. QED
  BY <1>1, TypeInvariant, PassInvariant, AgainInvariant, PTL DEF Spec, YieldLeavesNothingNew

-----------------------------------------------------------------------------
(* Lists: what pushing and unlinking do to IsList.                         *)

\* A list does not depend on what the pointers and ages of other pollers are.
LEMMA ListElsewhere ==
  ASSUME NEW hd, NEW nx, NEW ag, NEW nx2, NEW ag2, NEW L, IsList(hd, nx, ag, L),
         \A q \in L : nx2[q] = nx[q] /\ ag2[q] = ag[q]
  PROVE  IsList(hd, nx2, ag2, L)
BY DEF IsList

\* Pushing a poller that points to the head and is later than all others.
LEMMA ListPush ==
  ASSUME NEW hd, NEW nx, NEW ag, NEW ag2, NEW L, IsList(hd, nx, ag, L),
         NEW p, p \notin L, p # Nil, Nil \notin L, nx[p] = hd,
         \A q \in L : ag[q] \in Nat /\ ag2[q] = ag[q] /\ ag[q] < ag2[p],
         ag2[p] \in Nat
  PROVE  IsList(p, nx, ag2, L \cup {p})
<1> USE DEF IsList
<1>1. \A r \in L \cup {p} : ag2[r] <= ag2[p]  OBVIOUS
<1>2. nx[p] = Nil => L = {}  OBVIOUS
<1>3. nx[p] # Nil => /\ nx[p] \in L /\ ag2[nx[p]] < ag2[p]
                     /\ \A r \in L \cup {p} : ag2[r] < ag2[p] => ag2[r] <= ag2[nx[p]]
  OBVIOUS
<1>4. \A q \in L : nx[q] = Nil => \A r \in L \cup {p} : ag2[q] <= ag2[r]  OBVIOUS
<1>5. \A q \in L : nx[q] # Nil =>
        /\ nx[q] \in L \cup {p} /\ ag2[nx[q]] < ag2[q]
        /\ \A r \in L \cup {p} : ag2[r] < ag2[q] => ag2[r] <= ag2[nx[q]]
  OBVIOUS
<1>6. \A q, r \in L \cup {p} : ag2[q] = ag2[r] => q = r  OBVIOUS
<1>7. QED  BY <1>1, <1>2, <1>3, <1>4, <1>5, <1>6

\* Unlinking the head.
LEMMA ListDropHead ==
  ASSUME NEW hd, NEW nx, NEW ag, NEW L, IsList(hd, nx, ag, L), hd # Nil, Nil \notin L,
         \A q \in L : ag[q] \in Nat
  PROVE  IsList(nx[hd], nx, ag, L \ {hd})
<1> USE DEF IsList
<1>1. \A q \in L : nx[q] # hd  OBVIOUS
<1>2. nx[hd] = Nil => L \ {hd} = {}  OBVIOUS
<1>3. nx[hd] # Nil => nx[hd] \in L \ {hd} /\ \A r \in L \ {hd} : ag[r] <= ag[nx[hd]]
  OBVIOUS
<1>4. QED  BY <1>1, <1>2, <1>3

\* Unlinking a poller behind another one.
LEMMA ListDropInner ==
  ASSUME NEW hd, NEW nx \in [Poller -> Ref], NEW ag, NEW L \in SUBSET Poller,
         IsList(hd, nx, ag, L), \A q \in L : ag[q] \in Nat,
         NEW q \in L, NEW p \in L, nx[q] = p
  PROVE  IsList(hd, [nx EXCEPT ![q] = nx[p]], ag, L \ {p})
<1> DEFINE nx2 == [nx EXCEPT ![q] = nx[p]]
<1> USE DEF IsList
<1>n. Nil \notin L  BY NilAssumption
<1>1. ag[p] < ag[q] /\ p # q  BY <1>n
<1>2. hd # p /\ hd # Nil /\ hd \in L \ {p}  BY <1>1
<1>3. \A r \in L : r # q => nx2[r] = nx[r] /\ nx[r] # p
  <2> SUFFICES ASSUME NEW r \in L, r # q  PROVE nx2[r] = nx[r] /\ nx[r] # p  OBVIOUS
  <2>1. nx2[r] = nx[r]  OBVIOUS
  <2>2. ASSUME nx[r] = p  PROVE FALSE
    <3>1. ag[p] < ag[r] /\ ag[p] < ag[q] /\ ag[r] # ag[q]  BY <1>n, <2>2
    <3>2. ag[r] < ag[q] => ag[r] <= ag[p]  BY <1>n
    <3>3. ag[q] < ag[r] => ag[q] <= ag[p]  BY <1>n, <2>2
    <3>4. QED  BY <3>1, <3>2, <3>3
  <2>3. QED  BY <2>1, <2>2
<1>4. nx2[q] = nx[p]  OBVIOUS
<1> HIDE DEF nx2
<1>5. nx[p] = Nil => \A r \in L \ {p} : ag[q] <= ag[r]
  <2> SUFFICES ASSUME nx[p] = Nil, NEW r \in L \ {p}  PROVE ag[q] <= ag[r]  OBVIOUS
  <2>1. ag[p] <= ag[r] /\ ag[p] # ag[r]  OBVIOUS
  <2>2. ag[r] < ag[q] => ag[r] <= ag[p]  BY <1>n
  <2>3. QED  BY <2>1, <2>2
<1>6. nx[p] # Nil => /\ nx[p] \in L \ {p} /\ ag[nx[p]] < ag[q]
                     /\ \A r \in L \ {p} : ag[r] < ag[q] => ag[r] <= ag[nx[p]]
  <2> SUFFICES ASSUME nx[p] # Nil
               PROVE  /\ nx[p] \in L \ {p} /\ ag[nx[p]] < ag[q]
                      /\ \A r \in L \ {p} : ag[r] < ag[q] => ag[r] <= ag[nx[p]]
    OBVIOUS
  <2>1. nx[p] \in L /\ ag[nx[p]] < ag[p]  OBVIOUS
  <2>2. ag[nx[p]] < ag[q] /\ nx[p] # p  BY <1>1, <2>1
  <2>3. ASSUME NEW r \in L \ {p}, ag[r] < ag[q]  PROVE ag[r] <= ag[nx[p]]
    <3>1. ag[r] <= ag[p] /\ ag[r] # ag[p]  BY <1>n, <2>3
    <3>2. ag[r] < ag[p]  BY <3>1
    <3>3. QED  BY <3>2
  <2>4. QED  BY <2>1, <2>2, <2>3
<1>7. \A r \in L \ {p} : nx2[r] = Nil => \A s \in L \ {p} : ag[r] <= ag[s]
  BY <1>3, <1>4, <1>5
<1>8. \A r \in L \ {p} : nx2[r] # Nil =>
        /\ nx2[r] \in L \ {p} /\ ag[nx2[r]] < ag[r]
        /\ \A s \in L \ {p} : ag[s] < ag[r] => ag[s] <= ag[nx2[r]]
  BY <1>3, <1>4, <1>6
<1>9. QED  BY <1>2, <1>7, <1>8 DEF nx2

-----------------------------------------------------------------------------
(* The list is sound until a tick tears an operation of the application.   *)

\* The place a walk of Unregister has reached.
Cursor(c) ==
  /\ op[c].prev = Nil => op[c].cur = head
  /\ op[c].prev # Nil => Linked(op[c].prev) /\ op[c].prev \in Poller /\ next[op[c].prev] = op[c].cur

\* What each statement of an operation relies on, while no operation of the
\* application has been torn.
OpSound(c) ==
  LET p == op[c].p IN
  /\ op[c].pc \in {"rLink", "rFlag"} => ~registered[p]
  /\ op[c].pc \in {"rFlag", "rPublish"} => next[p] = head
  /\ op[c].pc \in {"rPublish", "uWalk", "uClear"} => registered[p]
  /\ op[c].pc = "uWalk" =>
       /\ Cursor(c)
       /\ c = "App" => Linked(p)
       /\ Linked(p) => op[c].cur # Nil /\ age[p] <= age[op[c].cur]
  /\ op[c].pc = "uUnlink" => Cursor(c) /\ Linked(p)
  /\ op[c].pc = "uGiveUp" => c = "Timer" /\ AppInOperation

\* The statements of a notification that have not written to the list.
Reading == {"none", "rCheck", "rLink", "uCheck", "uWalk", "uUnlink", "uGiveUp"}

ListInv ==
  /\ \A p \in Poller : age[p] <= clock
  /\ ~torn => /\ ListSound
              /\ \A c \in Context : OpSound(c)
              /\ AppInOperation => op["Timer"].pc \in Reading

\* The list is empty at first.
LEMMA ListInvInit == Init => ListInv
<1> SUFFICES ASSUME Init PROVE ListInv  OBVIOUS
<1>1. \A c \in Context : op[c].pc = "none"  BY DEF Init, NoOp
<1>2. \A p \in Poller : ~Linked(p)  BY DEF Init, Linked
<1>3. ListSound  BY <1>2 DEF ListSound, IsList, Init
<1>4. \A c \in Context : OpSound(c)  BY <1>1 DEF OpSound
<1>5. ~AppInOperation  BY <1>1 DEF AppInOperation, Quiet, Context
<1>6. QED  BY <1>3, <1>4, <1>5 DEF ListInv, Init

\* The statements at which the pollers of the list differ from the registered ones,
\* or an unregistered poller from a cleared one.
Dirty == {"rFlag", "rPublish", "uClear"}

\* A step that does not enter or leave these statements keeps the pollers of the list.
LEMMA LinkedSame ==
  ASSUME NEW c \in Context, UNCHANGED registered,
         \A d \in Context : d # c => op'[d] = op[d],
         op'[c] = op[c] \/ (op[c].pc \notin Dirty /\ op'[c].pc \notin Dirty)
  PROVE  /\ \A p \in Poller : Linked(p)' <=> Linked(p)
         /\ \A p \in Poller : (\E d \in Context : op[d].p = p /\ op[d].pc = "rFlag")
                              <=> (\E d \in Context : op'[d].p = p /\ op'[d].pc = "rFlag")
BY DEF Linked, Detached, Dirty

\* Steps that leave the list alone.
LEMMA ListInvRead ==
  ASSUME TypeInv, PassInv, ListInv, UNCHANGED <<listVars, torn>>,
         NEW c \in Context, OnCpu(c),
         \A d \in Context : d # c => op'[d] = op[d],
         \/ op'[c] = op[c]
         \/ /\ op[c].pc \notin Dirty /\ op'[c].pc \notin Dirty
            /\ op'[c].pc \in Reading
            /\ ~torn => OpSound(c)'
  PROVE  ListInv'
<1>1. /\ \A p \in Poller : Linked(p)' <=> Linked(p)
      /\ \A p \in Poller : (\E d \in Context : op[d].p = p /\ op[d].pc = "rFlag")
                           <=> (\E d \in Context : op'[d].p = p /\ op'[d].pc = "rFlag")
  BY LinkedSame DEF listVars
<1>2. c = "App" => op["Timer"].pc = "none" /\ op'["Timer"] = op["Timer"]
  BY DEF PassInv, OnCpu, Context
<1>3. c = "Timer" => (AppInOperation' <=> AppInOperation)
  BY DEF AppInOperation, Context
<1> SUFFICES ASSUME ~torn PROVE ListInv'
  BY DEF ListInv, listVars
<1>4. ListSound'
  <2>1. {p \in Poller : Linked(p)}' = {p \in Poller : Linked(p)}  BY <1>1
  <2>2. IsList(head, next, age, {p \in Poller : Linked(p)})  BY DEF ListInv, ListSound
  <2>3. IsList(head', next', age', {p \in Poller : Linked(p)}')  BY <2>1, <2>2 DEF listVars
  <2>4. QED  BY <1>1, <2>3 DEF ListInv, ListSound, listVars
<1>5. ASSUME NEW d \in Context, op'[d] = op[d] PROVE OpSound(d)'
  <2>1. op[d].pc # "none" => op[d].p \in Poller  BY DEF TypeInv, OpOK
  <2>2. Cursor(d) => Cursor(d)'  BY <1>1, <1>5 DEF Cursor, listVars
  <2>3. OpSound(d)  BY DEF ListInv
  <2>4. op[d].pc = "uGiveUp" => d = "Timer" /\ (c = "Timer" \/ op[d].pc = "none")
    BY <1>2, <2>3 DEF OpSound, Context
  <2>5. QED  BY <1>1, <1>3, <1>5, <2>1, <2>2, <2>3, <2>4 DEF OpSound, listVars
<1>6. \A d \in Context : OpSound(d)'  BY <1>5
<1>7. AppInOperation' => op'["Timer"].pc \in Reading
  BY <1>2, <1>3 DEF ListInv, Context, Reading
<1>8. QED  BY <1>4, <1>6, <1>7 DEF ListInv, listVars

\* When a context writes to the list and nothing gets torn, the other context is not
\* inside an operation.
LEMMA OtherQuiet ==
  ASSUME TypeInv, PassInv, NEW c \in Context, OnCpu(c), Tear(c), ~torn',
         NEW d \in Context, d # c
  PROVE  op[d].pc \in Quiet /\ ~torn
BY DEF PassInv, OnCpu, Tear, AppInOperation, Context, Quiet, TypeInv, TypeOK

\* Steps that write to the list.
LEMMA ListInvWrite ==
  ASSUME TypeInv, PassInv, NEW c \in Context, OnCpu(c), Tear(c),
         \A d \in Context : d # c => op'[d] = op[d],
         (\A p \in Poller : age[p] <= clock)',
         ~torn' => ListSound' /\ OpSound(c)'
  PROVE  ListInv'
<1> SUFFICES ASSUME ~torn' PROVE ListInv'
  BY DEF ListInv
<1>1. ASSUME NEW d \in Context, d # c PROVE OpSound(d)'
  <2>1. op'[d].pc \in Quiet  BY <1>1, OtherQuiet
  <2>2. QED  BY <2>1 DEF OpSound, Quiet
<1>2. AppInOperation' => op'["Timer"].pc \in Reading
  <2>1. CASE c = "App"
    BY <2>1 DEF PassInv, OnCpu, Context, Reading
  <2>2. CASE c = "Timer"
    BY <2>2, OtherQuiet DEF AppInOperation, Context
  <2>3. QED  BY <2>1, <2>2 DEF Context
<1>3. QED  BY <1>1, <1>2 DEF ListInv

\* Register links a poller at the front.
LEMMA ListInvRegister ==
  ASSUME TypeInv, PassInv, ListInv, NEW c \in Context,
         RegisterLink(c) \/ RegisterFlag(c) \/ RegisterPublish(c)
  PROVE  ListInv'
<1>p. op[c].p \in Poller
  BY DEF TypeInv, OpOK, RegisterLink, RegisterFlag, RegisterPublish, At
<1>q. PICK p \in Poller : p = op[c].p  BY <1>p
<1> DEFINE L == {q \in Poller : Linked(q)}
<1>type. /\ TypeOK /\ OnCpu(c) /\ Tear(c)
         /\ next \in [Poller -> Ref] /\ registered \in [Poller -> BOOLEAN]
         /\ age \in [Poller -> Nat] /\ clock \in Nat
  BY DEF TypeInv, TypeOK, OpOK, RegisterLink, RegisterFlag, RegisterPublish, At
<1>pc. {"rFlag", "rPublish", "rNotify"} \subseteq OpPc  BY DEF OpPc
<1>1. ~torn' => /\ OpSound(c) /\ IsList(head, next, age, L)
                /\ \A d \in Context : d # c => op[d].pc \in Quiet
                /\ \A q \in Poller : ~registered[q] /\ next[q] # Nil =>
                     op[c].p = q /\ op[c].pc = "rFlag"
  <2> SUFFICES ASSUME ~torn' PROVE
                /\ OpSound(c) /\ IsList(head, next, age, L)
                /\ \A d \in Context : d # c => op[d].pc \in Quiet
                /\ \A q \in Poller : ~registered[q] /\ next[q] # Nil =>
                     op[c].p = q /\ op[c].pc = "rFlag"
    OBVIOUS
  <2>1. /\ ~torn /\ \A d \in Context : d # c => op[d].pc \in Quiet
    BY <1>type, OtherQuiet DEF Tear
  <2>2. QED  BY <2>1 DEF ListInv, ListSound, Quiet
<1>2. CASE RegisterLink(c)
  <2>1. /\ op'[c].pc = "rFlag" /\ op'[c].p = p
        /\ \A d \in Context : d # c => op'[d] = op[d]
    BY <1>2, <1>q, <1>type, <1>pc, GotoOp DEF RegisterLink
  <2>2. /\ next' = [next EXCEPT ![p] = head]
        /\ UNCHANGED <<head, registered, clock, age>> /\ op[c].pc = "rLink"
    BY <1>2, <1>q DEF RegisterLink, At
  <2>3. ASSUME ~torn' PROVE ListSound' /\ OpSound(c)'
    <3>1. ~registered[p]  BY <1>1, <1>q, <2>2, <2>3 DEF OpSound
    <3>2. \A q \in Poller : Linked(q)' <=> Linked(q)
      BY <1>q, <2>1, <2>2 DEF Linked, Detached
    <3>3. L' = L  BY <3>2
    <3>4. \A q \in L : next'[q] = next[q]  BY <1>type, <2>2, <3>1 DEF Linked
    <3>5. IsList(head', next', age', L')  BY <1>1, <2>2, <2>3, <3>3, <3>4, ListElsewhere
    <3>6. \A q \in Poller : ~registered'[q] /\ next'[q] # Nil => op'[c].p = q /\ op'[c].pc = "rFlag"
      BY <1>1, <1>q, <1>type, <2>1, <2>2, <2>3
    <3>7. ListSound'  BY <3>5, <3>6 DEF ListSound
    <3>8. OpSound(c)'  BY <1>q, <1>type, <2>1, <2>2, <3>1 DEF OpSound
    <3>9. QED  BY <3>7, <3>8
  <2>4. QED  BY <1>type, <2>1, <2>2, <2>3, ListInvWrite DEF ListInv
<1>3. CASE RegisterFlag(c)
  <2>1. /\ op'[c].pc = "rPublish" /\ op'[c].p = p
        /\ \A d \in Context : d # c => op'[d] = op[d]
    BY <1>3, <1>q, <1>type, <1>pc, GotoOp DEF RegisterFlag
  <2>2. /\ registered' = [registered EXCEPT ![p] = TRUE]
        /\ UNCHANGED <<head, next, clock, age>> /\ op[c].pc = "rFlag"
    BY <1>3, <1>q DEF RegisterFlag, At
  <2>3. ASSUME ~torn' PROVE ListSound' /\ OpSound(c)'
    <3>1. ~registered[p] /\ next[p] = head  BY <1>1, <1>q, <2>2, <2>3 DEF OpSound
    <3>2. Detached(p)'  BY <2>1 DEF Detached
    <3>3. ASSUME NEW q \in Poller, q # p PROVE Linked(q)' <=> Linked(q)
      BY <1>q, <1>type, <2>1, <2>2, <3>3 DEF Linked, Detached
    <3>4. L' = L  BY <3>1, <3>2, <3>3 DEF Linked
    <3>5. IsList(head', next', age', L')  BY <1>1, <2>2, <2>3, <3>4
    <3>6. \A q \in Poller : ~registered'[q] => next'[q] = Nil
      BY <1>1, <1>q, <1>type, <2>2, <2>3
    <3>7. ListSound'  BY <3>5, <3>6 DEF ListSound
    <3>8. OpSound(c)'  BY <1>q, <1>type, <2>1, <2>2, <3>1 DEF OpSound
    <3>9. QED  BY <3>7, <3>8
  <2>4. QED  BY <1>type, <2>1, <2>2, <2>3, ListInvWrite DEF ListInv
<1>4. CASE RegisterPublish(c)
  <2>1. /\ op'[c].pc = "rNotify" /\ op'[c].p = p
        /\ \A d \in Context : d # c => op'[d] = op[d]
    BY <1>4, <1>q, <1>type, <1>pc, GotoOp DEF RegisterPublish
  <2>2. /\ head' = p /\ clock' = clock + 1 /\ age' = [age EXCEPT ![p] = clock + 1]
        /\ UNCHANGED <<next, registered>> /\ op[c].pc = "rPublish"
    BY <1>4, <1>q DEF RegisterPublish, At
  <2>3. \A q \in Poller : age'[q] <= clock'  BY <1>type, <2>2 DEF ListInv
  <2>4. ASSUME ~torn' PROVE ListSound' /\ OpSound(c)'
    <3>1. registered[p] /\ next[p] = head  BY <1>1, <1>q, <2>2, <2>4 DEF OpSound
    <3>2. Detached(p) /\ ~Linked(p)  BY <1>q, <2>2 DEF Detached, Linked
    <3>3. Linked(p)'
      BY <1>1, <1>q, <2>1, <2>2, <2>4, <3>1 DEF Linked, Detached, Quiet
    <3>4. ASSUME NEW q \in Poller, q # p PROVE Linked(q)' <=> Linked(q)
      BY <1>q, <1>type, <2>1, <2>2, <3>4 DEF Linked, Detached
    <3>5. L' = L \cup {p}  BY <1>type, <3>3, <3>4
    <3>6. \A q \in L : age[q] \in Nat /\ age'[q] = age[q] /\ age[q] < age'[p]
      BY <1>type, <2>2, <3>2 DEF ListInv
    <3>7. age'[p] \in Nat /\ p # Nil /\ Nil \notin L /\ p \notin L
      BY <1>type, <2>2, <3>2, NilAssumption
    <3>8. IsList(p, next, age', L \cup {p})
      BY <1>1, <2>4, <3>1, <3>6, <3>7, ListPush
    <3>9. IsList(head', next', age', L')  BY <2>2, <3>5, <3>8
    <3>10. \A q \in Poller : ~registered'[q] => next'[q] = Nil
      BY <1>1, <1>q, <2>2, <2>4
    <3>11. ListSound'  BY <3>9, <3>10 DEF ListSound
    <3>12. OpSound(c)'  BY <2>1 DEF OpSound
    <3>13. QED  BY <3>11, <3>12
  <2>5. QED  BY <1>type, <2>1, <2>3, <2>4, ListInvWrite
<1>5. QED  BY <1>2, <1>3, <1>4

\* Unregister takes its poller out of the list.
LEMMA ListInvUnlink ==
  ASSUME TypeInv, PassInv, ListInv, NEW c \in Context, UnregisterUnlink(c)
  PROVE  ListInv'
<1>1. PICK p \in Poller : p = op[c].p  BY DEF TypeInv, OpOK, UnregisterUnlink, At
<1> DEFINE L == {q \in Poller : Linked(q)}
<1>2. /\ TypeOK /\ OnCpu(c) /\ Tear(c) /\ next \in [Poller -> Ref] /\ age \in [Poller -> Nat]
      /\ op[c].pc = "uUnlink" /\ op[c].cur = p /\ "uClear" \in OpPc
  BY <1>1 DEF TypeInv, TypeOK, OpOK, UnregisterUnlink, At, OpPc
<1>3. /\ op'[c].pc = "uClear" /\ op'[c].p = p
      /\ \A d \in Context : d # c => op'[d] = op[d]
  BY <1>1, <1>2, GotoOp DEF UnregisterUnlink
<1>4. UNCHANGED <<registered, clock, age>>  BY DEF UnregisterUnlink
<1>5. ASSUME ~torn' PROVE ListSound' /\ OpSound(c)'
  <2>1. ~torn /\ \A d \in Context : d # c => op[d].pc \in Quiet
    BY <1>2, <1>5, OtherQuiet DEF Tear
  <2>2. OpSound(c) /\ IsList(head, next, age, L)  BY <2>1 DEF ListInv, ListSound
  <2>3. Linked(p) /\ Cursor(c)  BY <1>1, <1>2, <2>2 DEF OpSound
  <2>4. ASSUME NEW q \in Poller, q # p PROVE Linked(q)' <=> Linked(q)
    BY <1>1, <1>2, <1>3, <1>4, <2>4 DEF Linked, Detached
  <2>5. ~Linked(p)'  BY <1>3 DEF Linked, Detached
  <2>6. L' = L \ {p}  BY <2>4, <2>5
  <2>7. p \in L /\ Nil \notin L /\ L \in SUBSET Poller /\ \A q \in L : age[q] \in Nat
    BY <1>2, <2>3, NilAssumption
  <2>8. /\ IsList(head', next', age', L')
        /\ \A q \in Poller : next'[q] # next[q] => registered[q]
    <3>1. CASE op[c].prev = Nil
      <4>1. p = head /\ head' = next[p] /\ next' = next
        BY <1>2, <2>3, <3>1 DEF UnregisterUnlink, Cursor
      <4>2. IsList(next[head], next, age, L \ {head})
        BY <2>2, <2>7, <4>1, NilAssumption, ListDropHead
      <4>3. QED  BY <1>4, <2>6, <4>1, <4>2
    <3>2. CASE op[c].prev # Nil
      <4>1. PICK q \in L : q = op[c].prev /\ next[q] = p /\ registered[q]
        BY <1>2, <2>3, <3>2 DEF Cursor, Linked
      <4>2. head' = head /\ next' = [next EXCEPT ![q] = next[p]]
        BY <1>2, <3>2, <4>1 DEF UnregisterUnlink
      <4>3. IsList(head, [next EXCEPT ![q] = next[p]], age, L \ {p})
        BY <1>2, <2>2, <2>7, <4>1, ListDropInner
      <4>4. IsList(head', next', age', L')  BY <1>4, <2>6, <4>2, <4>3
      <4>5. QED  BY <1>2, <4>1, <4>2, <4>4
    <3>3. QED  BY <3>1, <3>2
  <2>9. \A q \in Poller : ~registered[q] /\ next[q] # Nil =>
          \E d \in Context : op[d].p = q /\ op[d].pc = "rFlag"
    BY <2>1 DEF ListInv, ListSound
  <2>10. \A q \in Poller : ~registered[q] => next[q] = Nil
    BY <1>2, <2>1, <2>9 DEF Quiet
  <2>11. ListSound'  BY <1>4, <2>8, <2>10 DEF ListSound
  <2>12. OpSound(c)'  BY <1>3, <1>4, <2>3 DEF OpSound, Linked
  <2>13. QED  BY <2>11, <2>12
<1>6. QED  BY <1>2, <1>3, <1>4, <1>5, ListInvWrite DEF ListInv

\* Unregister forgets the next of what it unlinked.
LEMMA ListInvClear ==
  ASSUME TypeInv, PassInv, ListInv, NEW c \in Context, UnregisterClear(c)
  PROVE  ListInv'
<1>1. PICK p \in Poller : p = op[c].p  BY DEF TypeInv, OpOK, UnregisterClear
<1> DEFINE L == {q \in Poller : Linked(q)}
<1>2. /\ TypeOK /\ OnCpu(c) /\ Tear(c) /\ next \in [Poller -> Ref]
      /\ age \in [Poller -> Nat] /\ clock \in Nat /\ registered \in [Poller -> BOOLEAN]
  BY DEF TypeInv, TypeOK, UnregisterClear
<1>3. /\ op'[c].pc = "none" /\ op'[c].p = Nil
      /\ \A d \in Context : d # c => op'[d] = op[d]
  BY <1>2, DoneOp DEF UnregisterClear
<1>4. /\ next' = [next EXCEPT ![p] = Nil] /\ registered' = [registered EXCEPT ![p] = FALSE]
      /\ age' = [age EXCEPT ![p] = 0] /\ UNCHANGED <<head, clock>>
  BY <1>1 DEF UnregisterClear
<1>5. \A q \in Poller : age'[q] <= clock'  BY <1>2, <1>4 DEF ListInv
<1>6. ASSUME ~torn' PROVE ListSound' /\ OpSound(c)'
  <2>1. ~torn /\ \A d \in Context : d # c => op[d].pc \in Quiet
    BY <1>2, <1>6, OtherQuiet DEF Tear
  <2>2. OpSound(c) /\ IsList(head, next, age, L)  BY <2>1 DEF ListInv, ListSound
  <2>3. op[c].pc = "uClear"
    <3>1. op[c].pc = "uGiveUp" => c = "Timer" /\ AppInOperation  BY <2>2 DEF OpSound
    <3>2. QED  BY <1>2, <1>6, <3>1 DEF UnregisterClear, Tear
  <2>4. ~Linked(p) /\ ~Linked(p)'  BY <1>1, <1>2, <1>4, <2>3 DEF Linked, Detached
  <2>5. ASSUME NEW q \in Poller, q # p PROVE Linked(q)' <=> Linked(q)
    BY <1>1, <1>2, <1>3, <1>4, <2>5, NilAssumption DEF Linked, Detached
  <2>6. L' = L  BY <2>4, <2>5
  <2>7. \A q \in L : next'[q] = next[q] /\ age'[q] = age[q]  BY <1>2, <1>4, <2>4
  <2>8. IsList(head', next', age', L')
    <3> HIDE DEF L
    <3>1. IsList(head, next', age', L)  BY <2>2, <2>7, ListElsewhere
    <3>2. head' = head  BY <1>4
    <3>3. QED  BY <2>6, <3>1, <3>2
  <2>9. \A q \in Poller : ~registered[q] /\ next[q] # Nil =>
          \E d \in Context : op[d].p = q /\ op[d].pc = "rFlag"
    BY <2>1 DEF ListInv, ListSound
  <2>10. \A q \in Poller : ~registered[q] => next[q] = Nil
    BY <2>1, <2>3, <2>9 DEF Quiet
  <2>11. \A q \in Poller : ~registered'[q] => next'[q] = Nil
    BY <1>2, <1>4, <2>10
  <2>12. ListSound'  BY <2>8, <2>11 DEF ListSound
  <2>13. OpSound(c)'  BY <1>3 DEF OpSound
  <2>14. QED  BY <2>12, <2>13
<1>7. QED  BY <1>2, <1>3, <1>5, <1>6, ListInvWrite

\* Unregister walks the list.
LEMMA ListInvWalk ==
  ASSUME TypeInv, PassInv, ListInv, NEW c \in Context, UnregisterWalk(c)
  PROVE  ListInv'
<1>1. PICK p \in Poller : p = op[c].p  BY DEF TypeInv, OpOK, UnregisterWalk, At
<1> DEFINE L == {q \in Poller : Linked(q)}
<1>2. /\ TypeOK /\ OnCpu(c) /\ next \in [Poller -> Ref] /\ age \in [Poller -> Nat]
      /\ op[c].pc = "uWalk" /\ UNCHANGED <<listVars, torn>> /\ head \in Ref
      /\ op[c] \in Operation /\ op[c].cur \in Ref
  BY DEF TypeInv, TypeOK, UnregisterWalk, At, Operation
<1>3. {"uGiveUp", "uUnlink"} \subseteq OpPc  BY DEF OpPc
<1>4. ~torn => /\ IsList(head, next, age, L) /\ Cursor(c) /\ registered[p]
               /\ c = "App" => Linked(p)
               /\ Linked(p) => op[c].cur # Nil /\ age[p] <= age[op[c].cur]
  BY <1>1, <1>2 DEF ListInv, ListSound, OpSound
\* Wherever the walk is, it is at a poller of the list or past its end.
<1>5. ~torn => op[c].cur = Nil \/ op[c].cur \in L
  BY <1>4, NilAssumption DEF Cursor, IsList
<1>6. CASE op[c].cur = Nil /\ Goto(c, "uGiveUp")
  <2>1. /\ op'[c].pc = "uGiveUp" /\ \A d \in Context : d # c => op'[d] = op[d]
    BY <1>2, <1>3, <1>6, GotoOp
  <2>2. ~torn => c = "Timer" /\ AppInOperation'
    <3>1. ~torn => c = "Timer" /\ Detached(p)  BY <1>4, <1>6 DEF Linked, Context
    <3>2. ~torn => c = "Timer" /\ op["App"].pc \in {"rPublish", "uClear"}
      BY <1>2, <3>1 DEF Detached, Context
    <3>3. QED  BY <2>1, <3>2 DEF AppInOperation, Quiet, Context
  <2>3. ~torn => OpSound(c)'  BY <2>1, <2>2 DEF OpSound
  <2>4. QED  BY <1>2, <2>1, <2>3, ListInvRead DEF Dirty, Reading
<1>7. CASE op[c].cur = op[c].p /\ Goto(c, "uUnlink")
  <2>1. /\ op'[c].pc = "uUnlink" /\ op'[c].p = p /\ op'[c].cur = op[c].cur
        /\ op'[c].prev = op[c].prev /\ \A d \in Context : d # c => op'[d] = op[d]
    BY <1>1, <1>2, <1>3, <1>7, GotoOp
  <2>2. \A q \in Poller : Linked(q)' <=> Linked(q)
    BY <1>2, <2>1, LinkedSame DEF Dirty, listVars
  <2>3. ~torn => Linked(p)'  BY <1>1, <1>5, <1>7, <2>2, NilAssumption
  <2>4. ~torn => Cursor(c)'  BY <1>2, <1>4, <2>1, <2>2 DEF Cursor, listVars
  <2>5. ~torn => OpSound(c)'  BY <2>1, <2>3, <2>4 DEF OpSound
  <2>6. QED  BY <1>2, <2>1, <2>5, ListInvRead DEF Dirty, Reading
<1>8. CASE /\ op[c].cur \notin {Nil, op[c].p}
           /\ op' = [op EXCEPT ![c] = [@ EXCEPT !.prev = op[c].cur, !.cur = next[op[c].cur]]]
  <2> DEFINE r == [op[c] EXCEPT !.prev = op[c].cur, !.cur = next[op[c].cur]]
  <2>1. PICK x \in Poller : x = op[c].cur /\ x # p /\ next[x] \in Ref
    BY <1>1, <1>2, <1>8 DEF Ref
  <2>2. r \in Operation /\ r.pc = "uWalk" /\ r.p = p /\ r.prev = x /\ r.cur = next[x]
    BY <1>1, <1>2, <2>1 DEF Operation, Ref
  <2>3. op' = [op EXCEPT ![c] = r]  BY <1>8
  <2> HIDE DEF r
  <2>4. /\ op'[c].pc = "uWalk" /\ op'[c].p = p /\ op'[c].prev = x /\ op'[c].cur = next[x]
        /\ \A d \in Context : d # c => op'[d] = op[d]
    BY <1>2, <2>2, <2>3, SetOp
  <2>5. \A q \in Poller : Linked(q)' <=> Linked(q)
    BY <1>2, <2>4, LinkedSame DEF Dirty, listVars
  <2>6. ASSUME ~torn PROVE OpSound(c)'
    <3>1. x \in L  BY <1>5, <1>8, <2>1, <2>6
    <3>2. Cursor(c)'
      BY <1>2, <2>1, <2>4, <2>5, <3>1, NilAssumption DEF Cursor, listVars
    <3>3. Linked(p) => next[x] # Nil /\ age[p] <= age[next[x]]
      <4> SUFFICES ASSUME Linked(p)  PROVE next[x] # Nil /\ age[p] <= age[next[x]]
        OBVIOUS
      <4>1. age[p] <= age[x] /\ p \in L  BY <1>4, <2>1, <2>6
      <4>2. age[p] < age[x]  BY <1>2, <1>4, <2>1, <2>6, <3>1, <4>1 DEF IsList
      <4>3. next[x] # Nil  BY <1>2, <1>4, <2>6, <3>1, <4>1, <4>2 DEF IsList
      <4>4. QED  BY <1>4, <2>6, <3>1, <4>1, <4>2, <4>3 DEF IsList
    <3>4. registered'[p] /\ (c = "App" => Linked(p)')
      BY <1>2, <1>4, <2>5, <2>6 DEF listVars
    <3>5. Linked(p)' => next[x] # Nil /\ age'[p] <= age'[next[x]]
      BY <1>2, <2>5, <3>3 DEF listVars
    <3>6. QED  BY <2>4, <3>2, <3>4, <3>5 DEF OpSound
  <2>7. QED  BY <1>2, <2>4, <2>6, ListInvRead DEF Dirty, Reading
<1>9. QED  BY <1>6, <1>7, <1>8 DEF UnregisterWalk

\* The checks of Register and Unregister change no list.
LEMMA ListInvCheck ==
  ASSUME TypeInv, PassInv, ListInv, NEW c \in Context,
         RegisterCheck(c) \/ UnregisterCheck(c) \/ RegisterNotify(c)
  PROVE  ListInv'
<1>1. PICK p \in Poller : p = op[c].p
  BY DEF TypeInv, OpOK, RegisterCheck, UnregisterCheck, RegisterNotify, At
<1> DEFINE L == {q \in Poller : Linked(q)}
<1>2. /\ TypeOK /\ OnCpu(c) /\ UNCHANGED <<listVars, torn>> /\ op[c] \in Operation /\ head \in Ref
      /\ op[c].pc \notin Dirty
  BY DEF TypeInv, TypeOK, RegisterCheck, UnregisterCheck, RegisterNotify, At, Dirty, listVars
<1>3. CASE Done(c)
  <2>1. op'[c].pc = "none" /\ \A d \in Context : d # c => op'[d] = op[d]
    BY <1>2, <1>3, DoneOp
  <2>2. OpSound(c)'  BY <2>1 DEF OpSound
  <2>3. QED  BY <1>2, <2>1, <2>2, ListInvRead DEF Dirty, Reading
<1>4. CASE ~registered[p] /\ Goto(c, "rLink")
  <2>1. "rLink" \in OpPc  BY DEF OpPc
  <2>2. op'[c].pc = "rLink" /\ op'[c].p = p /\ \A d \in Context : d # c => op'[d] = op[d]
    BY <1>1, <1>2, <1>4, <2>1, GotoOp
  <2>3. OpSound(c)'  BY <1>2, <1>4, <2>2 DEF OpSound, listVars
  <2>4. QED  BY <1>2, <2>2, <2>3, ListInvRead DEF Dirty, Reading
<1>5. CASE /\ registered[p] /\ op[c].pc = "uCheck"
           /\ op' = [op EXCEPT ![c] = [@ EXCEPT !.pc = "uWalk", !.cur = head]]
  <2> DEFINE r == [op[c] EXCEPT !.pc = "uWalk", !.cur = head]
  <2>1. r \in Operation /\ r.pc = "uWalk" /\ r.p = p /\ r.prev = Nil /\ r.cur = head
    BY <1>1, <1>2, <1>5 DEF Operation, OpPc, TypeInv, OpOK
  <2>2. op' = [op EXCEPT ![c] = r]  BY <1>5
  <2> HIDE DEF r
  <2>3. /\ op'[c].pc = "uWalk" /\ op'[c].p = p /\ op'[c].prev = Nil /\ op'[c].cur = head
        /\ \A d \in Context : d # c => op'[d] = op[d]
    BY <1>2, <2>1, <2>2, SetOp
  <2>4. \A q \in Poller : Linked(q)' <=> Linked(q)
    BY <1>2, <2>3, LinkedSame DEF Dirty, listVars
  <2>5. ASSUME ~torn PROVE OpSound(c)'
    <3>1. IsList(head, next, age, L)  BY <2>5 DEF ListInv, ListSound
    <3>2. Linked(p) => head # Nil /\ age[p] <= age[head]
      BY <3>1 DEF IsList
    <3>3. c = "App" => Linked(p)
      <4> SUFFICES ASSUME c = "App" PROVE ~Detached(p)  BY <1>5 DEF Linked
      <4>1. op["Timer"].pc = "none"  BY <1>2 DEF PassInv, OnCpu, Context
      <4>2. QED  BY <1>5, <4>1 DEF Detached, Context
    <3>4. Cursor(c)'  BY <1>2, <2>3 DEF Cursor, listVars
    <3>5. QED  BY <1>2, <1>5, <2>3, <2>4, <3>2, <3>3, <3>4 DEF OpSound, listVars
  <2>6. QED  BY <1>2, <2>3, <2>5, ListInvRead DEF Dirty, Reading
<1>6. QED
  BY <1>1, <1>3, <1>4, <1>5 DEF RegisterCheck, UnregisterCheck, RegisterNotify, At

\* Every step keeps the list.
LEMMA ListInvNext == TypeInv /\ PassInv /\ ListInv /\ [Next]_vars => ListInv'
<1> SUFFICES ASSUME TypeInv, PassInv, ListInv, [Next]_vars  PROVE ListInv'  OBVIOUS
<1>1. ASSUME NEW c \in Context, ListStep(c)  PROVE ListInv'
  BY <1>1, ListInvRegister, ListInvUnlink, ListInvClear, ListInvWalk, ListInvCheck DEF ListStep
<1>2. ASSUME NEW c \in Context, PassStep(c)  PROVE ListInv'
  <2>1. UNCHANGED <<listVars, torn, op>> /\ OnCpu(c)
    BY <1>2 DEF PassStep, YieldCheck, YieldSet, YieldLoop, YieldTest, YieldFinally,
                PollCurrent, PollReturns, PollOnceEnds, PollThrows, InPoll, InUserCode
  <2>2. QED  BY <2>1, ListInvRead
<1>3. ASSUME NEW c \in Context, CallStep(c)  PROVE ListInv'
  <2>1. ASSUME NEW p \in Poller, NEW pc \in {"rCheck", "uCheck"}, Call(c),
               op' = [op EXCEPT ![c] = [NoOp EXCEPT !.pc = pc, !.p = p]],
               UNCHANGED <<listVars, torn>>
        PROVE  ListInv'
    <3>1. op'[c].pc = pc /\ \A d \in Context : d # c => op'[d] = op[d]
      BY <2>1, EnterOp DEF TypeInv, OpPc
    <3>2. OpSound(c)'  BY <2>1, <3>1 DEF OpSound
    <3>3. QED
      BY <2>1, <3>1, <3>2, ListInvRead DEF Call, InUserCode, Dirty, Reading
  <2>2. ASSUME NEW p \in Ref, CallWait(c, p)  PROVE ListInv'
    BY <2>2, ListInvRead DEF CallWait, Call, InUserCode
  <2>3. QED  BY <1>3, <2>1, <2>2 DEF CallStep, CallRegister, CallUnregister
<1>4. CASE TimerTick
  <2>1. ~tick /\ tick \in BOOLEAN /\ UNCHANGED <<listVars, torn, op>>
    BY <1>4 DEF TimerTick, TypeInv, TypeOK
  <2>2. OnCpu("App")  BY <2>1 DEF OnCpu
  <2>3. QED  BY <2>1, <2>2, ListInvRead DEF Context
<1>5. CASE UNCHANGED vars
  <2>1. UNCHANGED <<listVars, torn, op, tick>>  BY <1>5 DEF vars
  <2>2. tick \in BOOLEAN  BY DEF TypeInv, TypeOK
  <2>3. PICK c \in Context : OnCpu(c)  BY <2>2 DEF OnCpu, Context
  <2>4. QED  BY <2>1, <2>3, ListInvRead
<1>6. QED  BY <1>1, <1>2, <1>3, <1>4, <1>5 DEF Next

\* As long as no tick has changed the list inside an operation of the application,
\* s_pollers holds exactly the registered pollers, the latest first.
THEOREM ListSoundHolds == Spec => []ListSound
<1>1. ListInv => ListSound  BY DEF ListInv, ListSound
<1>2. QED
  BY <1>1, ListInvInit, ListInvNext, TypeInvariant, PassInvariant, PTL DEF Spec

=============================================================================
