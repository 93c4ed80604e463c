------------------------------ MODULE FileStream ------------------------------
(***************************************************************************)
(* System.IO.FileStream of BootTo.NET, opened: one read, one write and one *)
(* flush in flight, and Close, which waits for them.  Where the firmware   *)
(* has no asynchronous operations every call is over when it returns.  The *)
(* data, the position and the length are not modelled.                     *)
(***************************************************************************)
EXTENDS Handlers

Slot == {"read", "write", "flush"}

NoToken == [queued |-> FALSE, signaled |-> FALSE]

Pending(s) == {s.slot[x] : x \in Slot} \ {0}

-----------------------------------------------------------------------------

\* Mutant: a flush does not keep the poller.
UpdateIgnoresFlush(s) == [s EXCEPT !.polled = Pending([s EXCEPT !.slot["flush"] = 0]) # {}]

UpdatePollingRegistration(s) == [s EXCEPT !.polled = Pending(s) # {}]

\* Mutant: the task of a write is completed only when nothing else is in progress.
CompleteOnlyLast(c, s, x, ls) ==
  LET s1 == UpdatePollingRegistration([s EXCEPT !.slot[x] = 0])
  IN  Settle(c, s1, IF x = "write" /\ s1.polled THEN {} ELSE {s.slot[x]} \ {0}, ls)

\* CompleteRead, CompleteWrite and CompleteFlush.
Complete(c, s, x, ls) ==
  Settle(c, UpdatePollingRegistration([s EXCEPT !.slot[x] = 0]), {s.slot[x]} \ {0}, ls)

\* ReadAsync, WriteAsync and FlushAsync.
CallIo(c, x) ==
  /\ CanCall(c)
  /\ this.open /\ this.slot[x] = 0
  /\ IF this.async THEN Start(c, this, <<L("set", x, New), L("go", x, New)>>) /\ Pend(New)
                   ELSE Return(c, this)

\* The completion source is stored.
SetSlot(c) ==
  /\ At(c, "set")
  /\ LET l == Head(todo[c]) IN Proceed(c, [this EXCEPT !.slot[l.x] = l.op], <<>>)

\* The firmware takes the token or refuses it.
Go(c) ==
  /\ At(c, "go")
  /\ LET x == Head(todo[c]).x
     IN  \/ Complete(c, this, x, <<>>)
         \/ /\ ~this.token[x].queued
            /\ Proceed(c, UpdatePollingRegistration([this EXCEPT !.token[x].queued = TRUE]), <<>>)

\* The operations in progress are waited for one after the other.
CallClose(c) ==
  /\ CanCall(c)
  /\ Start(c, [this EXCEPT !.closing = @ \cup {New}],
           <<L("check", "read", 0), L("check", "write", 0), L("check", "flush", 0),
             L("release", "none", New)>>)
  /\ Pend(New)

\* An operation in progress is to be waited for.
CloseCheck(c) ==
  /\ At(c, "check")
  /\ LET x == Head(todo[c]).x
     IN  Proceed(c, this, IF this.slot[x] = 0 THEN <<>> ELSE <<L("use", x, 0)>>)

\* The completion source is read again for its task.  A tick may have ended the operation and
\* cleared it: where the compiled code reads the field once the task is done and Close goes on;
\* where it reads it twice it takes whatever is at address 0 for the task (nothing checks for
\* null), and may find it done, wait for it for ever or stop the machine.
CloseAwait(c) ==
  /\ At(c, "use")
  /\ LET o == this.slot[Head(todo[c]).x]
     IN  \/ o # 0 /\ Proceed(c, this, <<L("await", "none", o)>>)
         \/ o = 0 /\ Proceed(c, this, <<>>)
         \/ o = 0 /\ Proceed(c, this, <<Do("null")>>)

\* The rest of Close.  What is in a slot stays there.
Release(c) ==
  /\ At(c, "release")
  /\ LET k == Head(todo[c]).op
     IN  Settle(c, [this EXCEPT !.open = FALSE, !.async = FALSE, !.polled = FALSE,
                                !.token = [x \in Slot |-> NoToken], !.closing = @ \ {k},
                                !.closed = IF this.open THEN k ELSE @],
                {k}, <<>>)

\* A pass polls the stream.
Poll(c) == this.polled /\ Pass(c, this, <<L("pollToken", "read", 0), L("pollToken", "write", 0),
                                          L("pollToken", "flush", 0)>>)

\* The test resets the event.
PollToken(c) ==
  /\ At(c, "pollToken")
  /\ LET x == Head(todo[c]).x
     IN  IF this.slot[x] # 0 /\ this.token[x].signaled
           THEN Complete(c, [this EXCEPT !.token[x].signaled = FALSE], x, <<>>)
           ELSE Proceed(c, this, <<>>)

\* The firmware is done with a token.
Signal(x) ==
  /\ this.token[x].queued
  /\ Outside([this EXCEPT !.token[x] = [queued |-> FALSE, signaled |-> TRUE]])

-----------------------------------------------------------------------------

\* The file is open with its events, or without asynchronous operations; closing holds the
\* calls of Close in progress, closed the one that has closed the file.
Init ==
  /\ \E async \in BOOLEAN :
       this = [open |-> TRUE, async |-> async, slot |-> [x \in Slot |-> 0], polled |-> FALSE,
               token |-> [x \in Slot |-> NoToken], closing |-> {}, closed |-> 0]
  /\ HandlersInit

Statement(c) ==
  \/ SetSlot(c) \/ Go(c) \/ CloseCheck(c) \/ CloseAwait(c) \/ Release(c) \/ PollToken(c)
  \/ PassEnds(c) \/ Awaited(c) \/ UserReturns(c)

Next ==
  \/ \E c \in Context : Statement(c) \/ CallClose(c) \/ Poll(c) \/ \E x \in Slot : CallIo(c, x)
  \/ \E x \in Slot : Signal(x)
  \/ TimerTick \/ TickEnds

Spec == Init /\ [][Next]_codeVars

\* The CPU executes, continuations return, passes poll, and the firmware is done some time.
Fairness ==
  /\ WF_codeVars(Statement("Timer")) /\ SF_codeVars(TickEnds)
  /\ SF_codeVars(Statement("App"))
  /\ SF_codeVars(\E c \in Context : UserReturns(c) \/ Awaited(c))
  /\ SF_codeVars(\E c \in Context : Poll(c))
  /\ WF_codeVars(\E x \in Slot : Signal(x))

FairSpec == Spec /\ Fairness

-----------------------------------------------------------------------------

\* Every variable has its type, and a poller is registered only for an open file.
TypeOK ==
  /\ this \in [open : BOOLEAN, async : BOOLEAN, slot : [Slot -> Op \cup {0}], polled : BOOLEAN,
               token : [Slot -> [queued : BOOLEAN, signaled : BOOLEAN]],
               closing : SUBSET Op, closed : Op \cup {0}]
  /\ this.polled => this.open
  /\ HandlersTypeOK({"set", "go", "check", "use", "await", "null", "release", "pollToken"}, Slot)

\* No operation is forgotten: while its task is not done, a slot of the stream has it, the
\* call that began it is about to put it there, or it is a Close.
InPlace ==
  \A o \in Op : done[o] = "pending" =>
    o \in Pending(this) \/ \E l \in Labels : l.at \in {"set", "release"} /\ l.op = o

\* An operation of an open file is with the firmware and polled, or about to be submitted.
Served ==
  this.open => \A x \in Slot : this.slot[x] # 0 =>
    \/ this.polled /\ (this.token[x].queued \/ this.token[x].signaled)
    \/ \E l \in Labels : l.at = "go" /\ l.op = this.slot[x]

\* The firmware, which writes into the caller's buffer, has a token only for an operation in
\* progress, and never after the file has been closed.
NoStrayToken == \A x \in Slot : this.token[x].queued => this.open /\ this.slot[x] # 0

\* A Close leaves nothing in progress, except what a continuation began while it waited.
CloseWaitsForAll == ~this.open => \A o \in Pending(this) : o > this.closed

\* The state is sound: no operation is lost, no buffer is written after its operation, and
\* what a Close leaves began after it.
Sound == TypeOK /\ InPlace /\ Served /\ NoStrayToken /\ CloseWaitsForAll

\* A Close finds what an earlier one left in progress when it closed the file: that is never
\* done, and a Close waits for it without looking whether the file is open.
Stranded == ~this.open /\ Pending(this) # {}

\* A Close waits for the task of no completion source: a tick cleared the field under it.
AtNull == \E l \in Labels : l.at = "null"

\* A Close ends, unless it is stranded or at null.
CloseIsOver == this.closing = {} \/ Stranded \/ AtNull
CloseEnds == []<>CloseIsOver

=============================================================================
