---------------------------- MODULE Cancellation ----------------------------
(***************************************************************************)
(* CancellationTokenSource of BootTo.NET (System/Threading): callbacks,    *)
(* CancelAfter, linked sources and Dispose.  As everywhere in this system  *)
(* two contexts call it on one CPU: the application ("App") and the tick   *)
(* of the scheduler timer ("Timer"), which preempts the application        *)
(* between any two statements and runs to its end; the delay of a          *)
(* CancelAfter elapses in a tick or in a pass the application makes.       *)
(* Callbacks run inside Cancel (or Register); they may call every method   *)
(* again and may throw.                                                    *)
(***************************************************************************)
EXTENDS Integers, Sequences, SequencesExt

CONSTANTS
  Source,      \* CancellationTokenSource objects
  Callback,    \* the callbacks passed to Register, each once
  Delay,       \* the delays CancelAfter starts, each once
  None,        \* null
  MaxCalls     \* bound: calls of the methods

ASSUME DistinctAssumption ==
  /\ None \notin Source \cup Callback \cup Delay
  /\ Source \cap Callback = {}
ASSUME CallAssumption == MaxCalls \in Nat

Context == {"App", "Timer"}

\* An entry of a callback list: a user callback, or Cancel of a linked source.
Entry == Callback \cup Source

VARIABLES
  created,     \* sources that exist
  callbacks,   \* _callbacks, the latest registration first
  canceled,    \* _canceled
  disposed,    \* _disposed
  after,       \* _cancelAfterTask
  removed,     \* Callback.Removed
  delay,       \* of a CancelAfter delay: "new", "running", "elapsed", "done"
  owner,       \* the source whose CancelAfter started a delay
  stack,       \* the calls each context is inside, innermost last
  tick,        \* the timer notification is on the CPU
  calls,       \* calls made so far
  passing,     \* the application is inside a pass of Yield (s_yielding)
  escaped,     \* an exception has left the timer notification
  phase,       \* history of an entry of a source: see Phase
  fired,       \* history: the delays that have canceled their source
  superseded,  \* history: the delays another CancelAfter or Dispose has replaced
  raced        \* history: a tick changed the source inside a call of the application

sourceVars == <<created, callbacks, canceled, disposed, after, removed>>
delayVars  == <<delay, owner, fired, superseded>>
cpuVars    == <<tick, passing, escaped>>
vars == <<sourceVars, delayVars, cpuVars, stack, calls, phase, raced>>

\* "skipped": the registration was disposed; "dropped": the source was, or an earlier
\* callback threw in Cancel(true).
Phase == {"new", "registering", "registered", "taken", "ran", "skipped", "dropped"}

-----------------------------------------------------------------------------
(* A call: where it is, its source, the entry it registers or runs, the list *)
(* it has read, throwOnFirstException, and whether a callback has thrown.    *)

Pc == {"regCheck", "regRead", "regWrite", "regRun",
       "canCheck", "canSet", "canTake", "canClear", "canLoop", "canFire", "canRun",
       "body", "throw", "afterSet", "afterAdd"}

Activation == [pc : Pc, s : Source \cup {None}, e : Entry \cup Delay \cup {None},
               seq : Seq(Entry), first : BOOLEAN, failed : BOOLEAN]

Frame(pc, s, e) ==
  [pc |-> pc, s |-> s, e |-> e, seq |-> <<>>, first |-> FALSE, failed |-> FALSE]

Top(c) == Last(stack[c])

OnCpu(c) == tick = (c = "Timer")

At(c, pc) == OnCpu(c) /\ stack[c] # <<>> /\ Top(c).pc = pc

Push(c, a)       == stack' = [stack EXCEPT ![c] = Append(@, a)]
Replace(c, a)    == stack' = [stack EXCEPT ![c] = Append(Front(@), a)]
Pop(c)           == stack' = [stack EXCEPT ![c] = Front(@)]
Goto(c, pc)      == Replace(c, [Top(c) EXCEPT !.pc = pc])
RunIn(c, pc, a)  == stack' = [stack EXCEPT ![c] =
                      Append(Front(@), [Top(c) EXCEPT !.pc = pc]) \o <<a>>]

\* The method throws: the exception starts to unwind the caller.
Throw(c) == Replace(c, Frame("throw", None, None))

\* The frame that runs an entry: a user callback, or Cancel() of a linked source.
Invocation(e) == IF e \in Callback THEN Frame("body", None, e) ELSE Frame("canCheck", e, None)

InUserCode(c) == OnCpu(c) /\ (stack[c] # <<>> => Top(c).pc = "body")

Call(c) == InUserCode(c) /\ calls < MaxCalls /\ calls' = calls + 1

\* A call of the application on s that has read the source and not finished with it.
Window(s) == \E i \in DOMAIN stack["App"] :
  stack["App"][i].s = s
    /\ stack["App"][i].pc \in {"regRead", "regWrite", "canSet", "canTake", "canClear"}

Touch(c, s) == raced' = [raced EXCEPT ![s] = @ \/ (c = "Timer" /\ Window(s))]

SetPhase(s, E, ph) ==
  phase' = [phase EXCEPT ![s] = [e \in Entry |-> IF e \in E THEN ph ELSE @[e]]]

-----------------------------------------------------------------------------
(* Register.                                                                *)

CallRegister(c, s, k) ==
  /\ Call(c)
  /\ s \in created /\ \A r \in Source : phase[r][k] = "new"
  /\ Push(c, Frame("regCheck", s, k))
  /\ SetPhase(s, {k}, "registering")
  /\ UNCHANGED <<sourceVars, delayVars, cpuVars, raced>>

\* CreateLinkedTokenSource for one token or two: a new source whose Cancel is
\* registered with one after the other.
CallCreateLinked(c, s1, s2, child) ==
  /\ Call(c)
  /\ s1 \in created /\ s2 \in created \cup {None} /\ s1 # s2 /\ child \notin created
  /\ created' = created \cup {child}
  /\ stack' = [stack EXCEPT ![c] = @
                 \o (IF s2 = None THEN <<>> ELSE <<Frame("regCheck", s2, child)>>)
                 \o <<Frame("regCheck", s1, child)>>]
  /\ UNCHANGED <<callbacks, canceled, disposed, after, removed,
                 delayVars, cpuVars, phase, raced>>

\* Mutant: Register does not look at _canceled.
RegisterUnchecked(c) ==
  /\ At(c, "regCheck")
  /\ IF disposed[Top(c).s] THEN Throw(c) ELSE Goto(c, "regRead")
  /\ UNCHANGED <<sourceVars, delayVars, cpuVars, calls, phase, raced>>

\* A canceled source runs the callback at once.
RegisterCheck(c) ==
  /\ At(c, "regCheck")
  /\ \/ /\ disposed[Top(c).s]
        /\ Throw(c)
        /\ SetPhase(Top(c).s, {Top(c).e}, "dropped")
     \/ /\ ~disposed[Top(c).s] /\ canceled[Top(c).s]
        /\ RunIn(c, "regRun", Invocation(Top(c).e))
        /\ SetPhase(Top(c).s, {Top(c).e}, "ran")
     \/ /\ ~disposed[Top(c).s] /\ ~canceled[Top(c).s]
        /\ Goto(c, "regRead")
        /\ UNCHANGED phase
  /\ UNCHANGED <<sourceVars, delayVars, cpuVars, calls, raced>>

RegisterRead(c) ==
  /\ At(c, "regRead")
  /\ Replace(c, [Top(c) EXCEPT !.pc = "regWrite", !.seq = callbacks[Top(c).s]])
  /\ UNCHANGED <<sourceVars, delayVars, cpuVars, calls, phase, raced>>

RegisterWrite(c) ==
  /\ At(c, "regWrite")
  /\ callbacks' = [callbacks EXCEPT ![Top(c).s] = <<Top(c).e>> \o Top(c).seq]
  /\ Pop(c)
  /\ SetPhase(Top(c).s, {Top(c).e}, IF disposed[Top(c).s] THEN "dropped" ELSE "registered")
  /\ Touch(c, Top(c).s)
  /\ UNCHANGED <<created, canceled, disposed, after, removed,
                 delayVars, cpuVars, calls>>

RegisterReturns(c) ==
  /\ At(c, "regRun")
  /\ Pop(c)
  /\ UNCHANGED <<sourceVars, delayVars, cpuVars, calls, phase, raced>>

\* CancellationTokenRegistration.Dispose.
CallUnregister(c, k) ==
  /\ Call(c)
  /\ \E s \in Source : phase[s][k] \notin {"new", "registering"}
  /\ removed' = removed \cup {k}
  /\ UNCHANGED <<created, callbacks, canceled, disposed, after,
                 delayVars, cpuVars, stack, phase, raced>>

-----------------------------------------------------------------------------
(* Cancel.                                                                  *)

CallCancel(c, s, first) ==
  /\ Call(c)
  /\ s \in created
  /\ Push(c, [Frame("canCheck", s, None) EXCEPT !.first = first])
  /\ UNCHANGED <<sourceVars, delayVars, cpuVars, phase, raced>>

CancelCheck(c) ==
  /\ At(c, "canCheck")
  /\ \/ disposed[Top(c).s] /\ Throw(c)
     \/ ~disposed[Top(c).s] /\ canceled[Top(c).s] /\ Pop(c)
     \/ ~disposed[Top(c).s] /\ ~canceled[Top(c).s] /\ Goto(c, "canSet")
  /\ UNCHANGED <<sourceVars, delayVars, cpuVars, calls, phase, raced>>

CancelSet(c) ==
  /\ At(c, "canSet")
  /\ canceled' = [canceled EXCEPT ![Top(c).s] = TRUE]
  /\ Goto(c, "canTake")
  /\ Touch(c, Top(c).s)
  /\ UNCHANGED <<created, callbacks, disposed, after, removed,
                 delayVars, cpuVars, calls, phase>>

CancelTake(c) ==
  /\ At(c, "canTake")
  /\ Replace(c, [Top(c) EXCEPT !.pc = "canClear", !.seq = callbacks[Top(c).s]])
  /\ SetPhase(Top(c).s, ToSet(callbacks[Top(c).s]), "taken")
  /\ UNCHANGED <<sourceVars, delayVars, cpuVars, calls, raced>>

CancelClear(c) ==
  /\ At(c, "canClear")
  /\ callbacks' = [callbacks EXCEPT ![Top(c).s] = <<>>]
  /\ Goto(c, "canLoop")
  /\ UNCHANGED <<created, canceled, disposed, after, removed,
                 delayVars, cpuVars, calls, phase, raced>>

\* Mutant: a removed callback is run.
LoopIgnoresRemoved(c) ==
  /\ At(c, "canLoop") /\ Top(c).seq # <<>>
  /\ Goto(c, "canFire")
  /\ UNCHANGED <<sourceVars, delayVars, cpuVars, calls, phase, raced>>

\* One turn of the loop: the flag is looked at, then the callback is called.
CancelLoop(c) ==
  /\ At(c, "canLoop") /\ Top(c).seq # <<>>
  /\ LET e == Head(Top(c).seq)
     IN  \/ /\ e \in removed
            /\ Replace(c, [Top(c) EXCEPT !.seq = Tail(@)])
            /\ SetPhase(Top(c).s, {e}, "skipped")
         \/ /\ e \notin removed
            /\ Goto(c, "canFire")
            /\ UNCHANGED phase
  /\ UNCHANGED <<sourceVars, delayVars, cpuVars, calls, raced>>

CancelFire(c) ==
  /\ At(c, "canFire")
  /\ LET e == Head(Top(c).seq)
     IN  /\ stack' = [stack EXCEPT ![c] =
              Append(Front(@), [Top(c) EXCEPT !.pc = "canRun", !.seq = Tail(@)])
                \o <<Invocation(e)>>]
         /\ SetPhase(Top(c).s, {e}, "ran")
  /\ UNCHANGED <<sourceVars, delayVars, cpuVars, calls, raced>>

CancelResumes(c) ==
  /\ At(c, "canRun")
  /\ Goto(c, "canLoop")
  /\ UNCHANGED <<sourceVars, delayVars, cpuVars, calls, phase, raced>>

\* The loop is over: the exceptions of the callbacks leave as an AggregateException.
CancelEnds(c) ==
  /\ At(c, "canLoop") /\ Top(c).seq = <<>>
  /\ IF Top(c).failed THEN Throw(c) ELSE Pop(c)
  /\ UNCHANGED <<sourceVars, delayVars, cpuVars, calls, phase, raced>>

-----------------------------------------------------------------------------
(* CancelAfter and Dispose.                                                 *)

\* A delay of zero is a task that is completed already.
CallCancelAfter(c, s, d) ==
  /\ Call(c)
  /\ s \in created /\ delay[d] = "new"
  /\ IF disposed[s]
       THEN Push(c, Frame("throw", None, None)) /\ UNCHANGED <<delay, owner>>
       ELSE /\ Push(c, Frame("afterSet", s, d))
            /\ \E st \in {"running", "elapsed"} : delay' = [delay EXCEPT ![d] = st]
            /\ owner' = [owner EXCEPT ![d] = s]
  /\ UNCHANGED <<sourceVars, fired, superseded, cpuVars, phase, raced>>

CancelAfterSet(c) ==
  /\ At(c, "afterSet")
  /\ after' = [after EXCEPT ![Top(c).s] = Top(c).e]
  /\ superseded' = superseded \cup ({after[Top(c).s]} \ {None})
  /\ Goto(c, "afterAdd")
  /\ UNCHANGED <<created, callbacks, canceled, disposed, removed,
                 delay, owner, fired, cpuVars, calls, phase, raced>>

\* What the continuation of the delay checks.
Effective(d) == ~disposed[owner[d]] /\ ~canceled[owner[d]] /\ after[owner[d]] = d

\* AddContinuation: a delay that has already elapsed runs the continuation at once.
CancelAfterAdd(c) ==
  /\ At(c, "afterAdd")
  /\ LET d == Top(c).e
     IN  \/ /\ delay[d] = "running"
            /\ Pop(c)
            /\ UNCHANGED <<delay, fired>>
         \/ /\ delay[d] = "elapsed"
            /\ delay' = [delay EXCEPT ![d] = "done"]
            /\ IF Effective(d)
                 THEN Replace(c, Frame("canCheck", owner[d], None)) /\ fired' = fired \cup {d}
                 ELSE Pop(c) /\ UNCHANGED fired
  /\ UNCHANGED <<sourceVars, owner, superseded, cpuVars, calls, phase, raced>>

\* CancelAfter has not added the continuation yet.
Adding(d) == \E c \in Context : \E i \in DOMAIN stack[c] :
  stack[c][i].pc \in {"afterSet", "afterAdd"} /\ stack[c][i].e = d

\* A poll of c may find d elapsed: c is the tick, or the application inside a pass.
Elapses(c, d) ==
  /\ InUserCode(c) /\ (c = "App" => passing)
  /\ delay[d] = "running"

\* The delay is over; its continuation runs if it has been added.
DelayElapses(c, d) ==
  /\ Elapses(c, d)
  /\ delay' = [delay EXCEPT ![d] = IF Adding(d) THEN "elapsed" ELSE "done"]
  /\ IF ~Adding(d) /\ Effective(d)
       THEN Push(c, Frame("canCheck", owner[d], None)) /\ fired' = fired \cup {d}
       ELSE UNCHANGED <<stack, fired>>
  /\ UNCHANGED <<sourceVars, owner, superseded, cpuVars, calls, phase, raced>>

\* The three assignments are one step: a tick between them finds _disposed set and
\* every method throws.
CallDispose(c, s) ==
  /\ Call(c)
  /\ s \in created
  /\ disposed' = [disposed EXCEPT ![s] = TRUE]
  /\ callbacks' = [callbacks EXCEPT ![s] = <<>>]
  /\ after' = [after EXCEPT ![s] = None]
  /\ superseded' = superseded \cup ({after[s]} \ {None})
  /\ SetPhase(s, {e \in ToSet(callbacks[s]) : phase[s][e] = "registered"}, "dropped")
  /\ Touch(c, s)
  /\ UNCHANGED <<created, canceled, removed, delay, owner, fired, cpuVars, stack>>

-----------------------------------------------------------------------------
(* Returns, exceptions and ticks.                                           *)

BodyReturns(c) ==
  /\ At(c, "body")
  /\ Pop(c)
  /\ UNCHANGED <<sourceVars, delayVars, cpuVars, calls, phase, raced>>

BodyThrows(c) ==
  /\ At(c, "body")
  /\ Throw(c)
  /\ UNCHANGED <<sourceVars, delayVars, cpuVars, calls, phase, raced>>

\* The exception reaches the caller: Cancel's loop keeps it and goes on, or lets it
\* through under throwOnFirstException; Register lets it through; a callback may catch it.
Unwind(c) ==
  /\ At(c, "throw") /\ Len(stack[c]) > 1
  /\ LET below == Front(stack[c])
         f     == Last(below)
         Catch(g) == stack' = [stack EXCEPT ![c] = Append(Front(below), g)]
     IN  \/ /\ f.pc = "canRun" /\ ~f.first
            /\ Catch([f EXCEPT !.pc = "canLoop", !.failed = TRUE])
            /\ UNCHANGED phase
         \/ /\ f.pc = "canRun" /\ f.first
            /\ Catch(Frame("throw", None, None))
            /\ SetPhase(f.s, ToSet(f.seq), "dropped")
         \/ /\ f.pc = "body"
            /\ Catch(f)
            /\ UNCHANGED phase
         \/ /\ f.pc \in {"regRun", "regCheck", "body"}
            /\ Catch(Frame("throw", None, None))
            /\ UNCHANGED phase
  /\ UNCHANGED <<sourceVars, delayVars, cpuVars, calls, raced>>

\* The exception leaves the outermost call: a caller of the application handles it; from a
\* tick it leaves the poll, PollOnce, Yield and the timer notification.  What the
\* machine does then is not modelled.
ExceptionLeaves(c) ==
  /\ At(c, "throw") /\ Len(stack[c]) = 1
  /\ Pop(c)
  /\ escaped' = (c = "Timer")
  /\ UNCHANGED <<sourceVars, delayVars, tick, passing, calls, phase, raced>>

BeginPass ==
  /\ ~tick /\ stack["App"] = <<>> /\ ~passing
  /\ passing' = TRUE
  /\ UNCHANGED <<sourceVars, delayVars, tick, escaped, stack, calls, phase, raced>>

EndPass ==
  /\ ~tick /\ stack["App"] = <<>> /\ passing
  /\ passing' = FALSE
  /\ UNCHANGED <<sourceVars, delayVars, tick, escaped, stack, calls, phase, raced>>

\* A tick inside a pass only sets s_yieldAgain; another one polls.
TimerTick ==
  /\ ~tick /\ ~passing
  /\ tick' = TRUE
  /\ UNCHANGED <<sourceVars, delayVars, passing, escaped, stack, calls, phase, raced>>

TickEnds ==
  /\ tick /\ stack["Timer"] = <<>>
  /\ tick' = FALSE
  /\ UNCHANGED <<sourceVars, delayVars, passing, escaped, stack, calls, phase, raced>>

-----------------------------------------------------------------------------

Init ==
  /\ created \in {S \in SUBSET Source : S # {}}
  /\ callbacks = [s \in Source |-> <<>>]
  /\ canceled = [s \in Source |-> FALSE]
  /\ disposed = [s \in Source |-> FALSE]
  /\ after = [s \in Source |-> None]
  /\ removed = {}
  /\ delay = [d \in Delay |-> "new"]
  /\ owner = [d \in Delay |-> None]
  /\ fired = {} /\ superseded = {}
  /\ stack = [c \in Context |-> <<>>]
  /\ tick = FALSE /\ passing = FALSE /\ escaped = FALSE
  /\ calls = 0
  /\ phase = [s \in Source |-> [e \in Entry |-> "new"]]
  /\ raced = [s \in Source |-> FALSE]

Statement(c) ==
  \/ RegisterCheck(c) \/ RegisterRead(c) \/ RegisterWrite(c) \/ RegisterReturns(c)
  \/ CancelCheck(c) \/ CancelSet(c) \/ CancelTake(c) \/ CancelClear(c)
  \/ CancelLoop(c) \/ CancelFire(c) \/ CancelResumes(c) \/ CancelEnds(c)
  \/ CancelAfterSet(c) \/ CancelAfterAdd(c)
  \/ BodyReturns(c) \/ BodyThrows(c) \/ Unwind(c) \/ ExceptionLeaves(c)

CallStep(c) ==
  \/ \E s \in Source :
       \/ \E k \in Callback : CallRegister(c, s, k)
       \/ \E s2 \in Source \cup {None}, child \in Source : CallCreateLinked(c, s, s2, child)
       \/ \E first \in BOOLEAN : CallCancel(c, s, first)
       \/ \E d \in Delay : CallCancelAfter(c, s, d)
       \/ CallDispose(c, s)
  \/ \E k \in Callback : CallUnregister(c, k)
  \/ \E d \in Delay : DelayElapses(c, d)

Next ==
  /\ ~escaped
  /\ \/ TimerTick \/ TickEnds \/ BeginPass \/ EndPass
     \/ \E c \in Context : Statement(c) \/ CallStep(c)

Spec == Init /\ [][Next]_vars

-----------------------------------------------------------------------------
(* Properties.                                                              *)

\* Every variable has its type.
TypeOK ==
  /\ created \subseteq Source /\ removed \subseteq Callback
  /\ callbacks \in [Source -> Seq(Entry)]
  /\ canceled \in [Source -> BOOLEAN] /\ disposed \in [Source -> BOOLEAN]
  /\ after \in [Source -> Delay \cup {None}]
  /\ delay \in [Delay -> {"new", "running", "elapsed", "done"}]
  /\ owner \in [Delay -> Source \cup {None}]
  /\ fired \subseteq Delay /\ superseded \subseteq Delay
  /\ stack \in [Context -> Seq(Activation)]
  /\ tick \in BOOLEAN /\ passing \in BOOLEAN /\ escaped \in BOOLEAN
  /\ calls \in Nat
  /\ phase \in [Source -> [Entry -> Phase]]
  /\ raced \in [Source -> BOOLEAN]

InCall(s, pcs) == \E c \in Context : \E i \in DOMAIN stack[c] :
  stack[c][i].s = s /\ stack[c][i].pc \in pcs

\* No registration is missed: an entry stays with its source until a Cancel takes it, and
\* that Cancel gets to it, unless a tick changed the source inside a call of the application.
NoneMissed ==
  \A s \in Source, e \in Entry :
    /\ phase[s][e] = "registered" /\ ~raced[s] =>
         /\ e \in ToSet(callbacks[s])
         /\ ~canceled[s] \/ InCall(s, {"canTake"})
    /\ phase[s][e] = "taken" =>
         \E c \in Context : \E i \in DOMAIN stack[c] :
           stack[c][i].s = s /\ e \in ToSet(stack[c][i].seq)

Firing(k) == \E c \in Context : \E i \in DOMAIN stack[c] :
  stack[c][i].pc = "canFire" /\ Head(stack[c][i].seq) = k

\* Canceling a source cancels the sources linked to it, however deep, before Cancel goes on
\* to its next callback, and a source linked to a canceled one is canceled at once, unless
\* the linked source was disposed.
LinkedFollow ==
  \A s, child \in Source :
    /\ canceled[s] /\ ~raced[s] /\ ~InCall(s, {"canTake"})
    /\ phase[s][child] \in {"registered", "ran"}
    => \/ canceled[child] \/ disposed[child]
       \/ InCall(child, {"canCheck", "canSet"})

\* What a Cancel is about to run it has taken, and no call has run, skipped or dropped it since.
RunsWhatItTook ==
  \A c \in Context : \A i \in DOMAIN stack[c] :
    stack[c][i].pc = "canFire" =>
      stack[c][i].seq # <<>> /\ phase[stack[c][i].s][Head(stack[c][i].seq)] = "taken"

\* No registration is missed, none is run twice, and a linked source follows.
Sound == TypeOK /\ NoneMissed /\ RunsWhatItTook /\ LinkedFollow

\* A callback runs at most once, and not after it was skipped or dropped, even when the
\* application and a tick cancel the same source at the same time; and never after its
\* registration was disposed, unless a tick disposed it after the loop of the application's
\* Cancel had looked at it.  A delay that a later CancelAfter replaced, or whose source was
\* disposed, cancels nothing.
RunsOnceUnlessRemoved ==
  [][/\ \A s \in Source, e \in Entry :
          phase[s][e] \in {"ran", "skipped", "dropped"} => phase'[s][e] = phase[s][e]
     /\ \A k \in removed : Firing(k)' => Firing(k)
     /\ (fired' \ fired) \cap superseded = {}]_vars

=============================================================================
