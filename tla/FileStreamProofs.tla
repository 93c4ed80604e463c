-------------------------- MODULE FileStreamProofs --------------------------
(***************************************************************************)
(* A file stream, for every number of calls: no operation is lost, the     *)
(* firmware writes into no buffer after its operation is over, and Close   *)
(* leaves nothing in progress but what was begun after it.  A sound        *)
(* player, for every rate and limit: its chunks are the conversion of the  *)
(* whole, its capacity is accounted, and PlaySync plays all of a clip.     *)
(***************************************************************************)
EXTENDS MCDevices, SequenceTheorems, WellFoundedInduction, TLAPS

-----------------------------------------------------------------------------
(* The inductive invariant.                                                 *)

Places(c) == 1 .. Len(todo[c])
Stretch   == {"set", "go", "check", "use", "await", "null", "release", "pollToken"}
Label     == [at : Stretch \cup {"user", "passEnd"}, x : Slot \cup {"none"}, op : Nat]

\* What a label is about, and where it can be: an operation is stored and submitted by the
\* first labels of a context.
LabelOK(c, i) ==
  LET l == todo[c][i]
  IN  /\ l.at = "set" => /\ i = 1 /\ l.x \in Slot
                         /\ Len(todo[c]) > 1 /\ todo[c][2] = L("go", l.x, l.op)
      /\ l.at = "go" => /\ i = 1 \/ (i = 2 /\ todo[c][1].at = "set")
                        /\ l.x \in Slot
      /\ l.at \in {"check", "use", "pollToken"} => l.x \in Slot
      /\ l.at = "release" => l.op \in 1 .. calls /\ \A x \in Slot : this.slot[x] # l.op
LabelsOK == \A c \in Context : \A i \in Places(c) : LabelOK(c, i)

\* What is about to be stored is the latest operation, and the place for it is free.
SetOK(c) ==
  todo[c] # <<>> /\ todo[c][1].at = "set" =>
    LET l == todo[c][1]
    IN  /\ this.open /\ this.slot[l.x] = 0
        /\ l.op = calls /\ l.op \in Op /\ done[l.op] = "pending"
        /\ \A x \in Slot : this.slot[x] # l.op
        /\ \A d \in Context : \A i \in Places(d) : todo[d][i].at = "release" => todo[d][i].op < l.op

\* What is about to be submitted is stored, and the firmware has nothing of it.
GoOK(c) ==
  todo[c] # <<>> /\ todo[c][1].at = "go" =>
    LET l == todo[c][1]
    IN  /\ this.open /\ this.slot[l.x] = l.op /\ l.op # 0
        /\ ~this.token[l.x].queued /\ ~this.token[l.x].signaled

\* A token is with the firmware, or signaled, only for an operation of an open file.
TokenOK(x) ==
  /\ ~(this.token[x].queued /\ this.token[x].signaled)
  /\ this.token[x].queued \/ this.token[x].signaled => this.open /\ this.slot[x] # 0

Going(x) == \E c \in Context : todo[c] # <<>> /\ todo[c][1] = L("go", x, this.slot[x])

\* An operation that is stored is not done, is in one slot, and is served.
SlotOK(x) ==
  this.slot[x] # 0 =>
    /\ this.slot[x] <= calls /\ done[this.slot[x]] = "pending"
    /\ \A y \in Slot : this.slot[y] = this.slot[x] => x = y
    /\ this.open => \/ this.polled /\ (this.token[x].queued \/ this.token[x].signaled)
                    \/ Going(x)

\* An operation whose task is not done has its place.
HasPlace(o) ==
  \/ \E x \in Slot : this.slot[x] = o
  \/ \E c \in Context : \E i \in Places(c) :
       todo[c][i].at \in {"set", "release"} /\ todo[c][i].op = o

\* A Close still looks at, or waits for, every operation that began before it.
Waits(c, i, x) ==
  \E j \in 1 .. i - 1 :
    \/ todo[c][j].at \in {"check", "use"} /\ todo[c][j].x = x
    \/ todo[c][j].at = "await" /\ todo[c][j].op = this.slot[x]
CloseOK(c, i) ==
  todo[c][i].at = "release" =>
    \A x \in Slot : this.slot[x] # 0 => this.slot[x] > todo[c][i].op \/ Waits(c, i, x)

\* A tick inside a call of the application only polls, and between ticks there is none.
TickOK ==
  /\ ~tick => todo["Timer"] = <<>>
  /\ InCall => \A i \in Places("Timer") : todo["Timer"][i].at \in {"pollToken", "passEnd", "user"}

IInv ==
  /\ TypeOK /\ LabelsOK
  /\ \A c \in Context : SetOK(c) /\ GoOK(c)
  /\ \A x \in Slot : TokenOK(x) /\ SlotOK(x)
  /\ \A o \in Op : done[o] = "pending" => HasPlace(o)
  /\ \A c \in Context : \A i \in Places(c) : CloseOK(c, i)
  /\ TickOK /\ CloseWaitsForAll
-----------------------------------------------------------------------------
(* What the parts say, one fact at a time.                                  *)

\* The type of the state, without the operators it is written with.
LEMMA Types ==
  ASSUME IInv
  PROVE  /\ this \in [open : BOOLEAN, async : BOOLEAN, slot : [Slot -> Op \cup {0}],
                      polled : BOOLEAN,
                      token : [Slot -> [queued : BOOLEAN, signaled : BOOLEAN]],
                      closing : SUBSET Op, closed : Op \cup {0}]
         /\ todo \in [Context -> Seq(Label)]
         /\ done \in [Op -> {"none", "pending", "done"}]
         /\ calls \in Nat /\ calls <= MaxCalls /\ tick \in BOOLEAN
         /\ MaxCalls \in Nat
         /\ this.polled => this.open
<1>1. TypeOK
  BY DEF IInv
<1>2. MaxCalls \in Nat
  BY CallAssumption
<1>3. HandlersTypeOK(Stretch, Slot)
  BY <1>1 DEF TypeOK, Stretch
<1>4. /\ todo \in [Context -> Seq(Label)]
      /\ done \in [Op -> {"none", "pending", "done"}]
      /\ calls \in 0 .. MaxCalls /\ tick \in BOOLEAN
  BY <1>3 DEF HandlersTypeOK, Label
<1>5. calls \in Nat /\ calls <= MaxCalls
  BY <1>2, <1>4
<1>6. /\ this \in [open : BOOLEAN, async : BOOLEAN, slot : [Slot -> Op \cup {0}],
                   polled : BOOLEAN,
                   token : [Slot -> [queued : BOOLEAN, signaled : BOOLEAN]],
                   closing : SUBSET Op, closed : Op \cup {0}]
      /\ this.polled => this.open
  BY <1>1 DEF TypeOK
<1> QED
  BY <1>2, <1>4, <1>5, <1>6

\* How a step changes the labels of a context: its first k go, ls come.
Shift(c, ls, k) ==
  /\ DOMAIN todo' = Context
  /\ todo'[c] \in Seq(Label)
  /\ Len(todo'[c]) = Len(ls) + Len(todo[c]) - k
  /\ \A i \in 1 .. Len(ls) : todo'[c][i] = ls[i]
  /\ \A i \in k + 1 .. Len(todo[c]) : todo'[c][i + Len(ls) - k] = todo[c][i]
  /\ \A i \in Len(ls) + 1 .. Len(todo'[c]) : todo'[c][i] = todo[c][i - Len(ls) + k]
  /\ \A d \in Context \ {c} : todo'[d] = todo[d]
  /\ todo' \in [Context -> Seq(Label)]

\* Labels that are put before the others.
LEMMA Pushed ==
  ASSUME IInv, NEW c \in Context, NEW ls \in Seq(Label),
         todo' = [todo EXCEPT ![c] = ls \o @]
  PROVE  Shift(c, ls, 0)
<1>1. todo \in [Context -> Seq(Label)]
  BY Types
<1>2. todo'[c] = ls \o todo[c] /\ \A d \in Context \ {c} : todo'[d] = todo[d]
  BY <1>1
<1>3. ls \o todo[c] \in Seq(Label) /\ Len(ls \o todo[c]) = Len(ls) + Len(todo[c])
      /\ \A i \in 1 .. Len(ls) + Len(todo[c]) :
           (ls \o todo[c])[i] = IF i <= Len(ls) THEN ls[i] ELSE todo[c][i - Len(ls)]
  BY <1>1, ConcatProperties
<1>4. todo' \in [Context -> Seq(Label)]
  BY <1>1, <1>2, <1>3
<1> QED
  BY <1>1, <1>2, <1>3, <1>4 DEF Shift

\* Labels that come in the place of the first one.
LEMMA Replaced ==
  ASSUME IInv, NEW c \in Context, NEW ls \in Seq(Label), todo[c] # <<>>,
         todo' = [todo EXCEPT ![c] = ls \o Tail(@)]
  PROVE  Shift(c, ls, 1)
<1>1. todo \in [Context -> Seq(Label)]
  BY Types
<1>2. todo'[c] = ls \o Tail(todo[c]) /\ \A d \in Context \ {c} : todo'[d] = todo[d]
  BY <1>1
<1> DEFINE t == Tail(todo[c])
<1>3. t \in Seq(Label) /\ Len(t) = Len(todo[c]) - 1 /\ \A i \in 1 .. Len(t) : t[i] = todo[c][i + 1]
  BY <1>1, HeadTailProperties
<1> HIDE DEF t
<1>4. ls \o t \in Seq(Label) /\ Len(ls \o t) = Len(ls) + Len(t)
      /\ \A i \in 1 .. Len(ls) + Len(t) :
           (ls \o t)[i] = IF i <= Len(ls) THEN ls[i] ELSE t[i - Len(ls)]
  BY <1>3, ConcatProperties
<1>5. todo'[c] = ls \o t
  BY <1>2 DEF t
<1>6. todo' \in [Context -> Seq(Label)]
  BY <1>1, <1>2, <1>4, <1>5
<1> QED
  BY <1>1, <1>2, <1>3, <1>4, <1>5, <1>6 DEF Shift

\* A context that is at a label has it first.
LEMMA IsAt ==
  ASSUME IInv, NEW c \in Context, NEW at, At(c, at)
  PROVE  /\ OnCpu(c) /\ todo[c] # <<>> /\ 1 \in Places(c) /\ todo[c][1].at = at
         /\ Head(todo[c]) = todo[c][1] /\ todo[c][1] \in Label
<1>1. todo[c] \in Seq(Label) /\ todo[c] # <<>>
  BY Types DEF At
<1> QED
  BY <1>1, EmptySeq, HeadTailProperties DEF At, Places

\* Code of the user, or that waits, has it first if it has anything.
LEMMA AtUser ==
  ASSUME IInv, NEW c \in Context, Yields(c)
  PROVE  OnCpu(c) /\ (todo[c] # <<>> => todo[c][1].at \in {"user", "await"})
<1>1. todo[c] \in Seq(Label)
  BY Types
<1>2. todo[c] # <<>> => Head(todo[c]) = todo[c][1]
  BY <1>1, HeadTailProperties
<1> QED
  BY <1>2 DEF Yields, InUserCode, At

\* The application is inside a call when its first label says so.
LEMMA CallFirst ==
  ASSUME IInv
  PROVE  InCall <=> todo["App"] # <<>> /\ todo["App"][1].at \notin {"user", "await"}
<1>1. todo["App"] \in Seq(Label)
  BY Types DEF Context
<1>2. todo["App"] # <<>> => Head(todo["App"]) = todo["App"][1]
  BY <1>1, HeadTailProperties
<1> QED
  BY <1>2 DEF InCall

\* While code runs that may do more than poll, no other context is inside a call.
LEMMA Alone ==
  ASSUME IInv, NEW c \in Context, OnCpu(c),
         \/ CanCall(c)
         \/ todo[c] # <<>> /\ todo[c][1].at \in {"set", "go", "check", "use", "await", "null", "release"},
         NEW d \in Context \ {c}
  PROVE  todo[d] = <<>> \/ (d = "App" /\ todo[d][1].at \in {"user", "await"})
<1>1. CASE c = "App"
  <2>1. ~tick /\ d = "Timer"
    BY <1>1, Types DEF OnCpu, Context
  <2> QED
    BY <2>1 DEF IInv, TickOK
<1>2. CASE c = "Timer"
  <2>1. d = "App"
    BY <1>2 DEF Context
  <2>2. ~InCall
    <3>1. CASE CanCall(c)
      BY <1>2, <3>1 DEF CanCall
    <3>2. CASE todo[c] # <<>> /\ todo[c][1].at \in {"set", "go", "check", "use", "await", "null", "release"}
      <4>1. todo[c] \in Seq(Label) /\ 1 \in Places(c)
        BY <3>2, Types, EmptySeq DEF Places
      <4>2. InCall => todo[c][1].at \in {"pollToken", "passEnd", "user"}
        BY <1>2, <4>1 DEF IInv, TickOK
      <4> QED
        BY <3>2, <4>2
    <3> QED
      BY <3>1, <3>2
  <2> QED
    BY <2>1, <2>2, CallFirst
<1> QED
  BY <1>1, <1>2 DEF Context

\* A label that is not the first of its context is neither stored nor submitted next, unless
\* the first one is stored.
LEMMA Quiet ==
  ASSUME IInv, NEW c \in Context, NEW i \in Places(c),
         todo[c][i].at \in {"set", "go"}
  PROVE  i = 1 \/ (i = 2 /\ todo[c][1].at = "set" /\ todo[c][i].at = "go")
<1>1. LabelOK(c, i)
  BY DEF IInv, LabelsOK
<1> QED
  BY <1>1 DEF LabelOK

-----------------------------------------------------------------------------
(* What a step of one context leaves alone.                                 *)

\* No slot gets an operation.
Fewer == \A x \in Slot : this'.slot[x] = this.slot[x] \/ this'.slot[x] = 0

\* What gets into a slot is younger than every Close in progress.
NoOlder ==
  \A x \in Slot :
    \/ this'.slot[x] = this.slot[x] \/ this'.slot[x] = 0
    \/ \A d \in Context : \A i \in Places(d) :
         todo[d][i].at = "release" => this'.slot[x] > todo[d][i].op

\* The step is one of context c, whose first k labels give way to ls.
Step(c, ls, k) ==
  /\ OnCpu(c) /\ ls \in Seq(Label) /\ k \in {0, 1} /\ k <= Len(todo[c]) /\ Shift(c, ls, k)
  /\ k = 0 /\ todo[c] # <<>> => todo[c][1].at \in {"user", "await"}

\* The labels of any context after such a step: new ones, and old ones.
LEMMA NewOrOld ==
  ASSUME IInv, NEW c \in Context, NEW ls, NEW k, Step(c, ls, k),
         NEW d \in Context, NEW i \in Places(d)'
  PROVE  \/ d = c /\ i \in 1 .. Len(ls) /\ todo'[d][i] = ls[i]
         \/ d = c /\ i > Len(ls) /\ i - Len(ls) + k \in Places(d) /\ i - Len(ls) + k > k
            /\ todo'[d][i] = todo[d][i - Len(ls) + k]
         \/ d # c /\ i \in Places(d) /\ todo'[d] = todo[d]
<1> USE DEF Step
<1>1. Len(ls) \in Nat /\ Len(todo[c]) \in Nat /\ Len(todo[d]) \in Nat /\ k \in {0, 1}
  BY Types, LenProperties
<1>2. CASE d = c
  <2>1. Len(todo'[c]) = Len(ls) + Len(todo[c]) - k /\ i \in 1 .. Len(todo'[c])
    BY <1>2 DEF Shift, Places
  <2>2. CASE i <= Len(ls)
    BY <1>1, <1>2, <2>1, <2>2 DEF Shift
  <2>3. CASE i > Len(ls)
    <3>0. i \in Len(ls) + 1 .. Len(todo'[c])
      BY <1>1, <2>1, <2>3
    <3>1. todo'[c][i] = todo[c][i - Len(ls) + k]
      BY <3>0 DEF Shift
    <3>2. Len(ls) < i /\ i <= Len(ls) + Len(todo[c]) - k /\ i \in Int
      BY <1>1, <2>1, <2>3
    <3>3. i - Len(ls) + k \in 1 .. Len(todo[c]) /\ i - Len(ls) + k > k
      <4> HIDE DEF Step
      <4> QED
        BY <1>1, <3>2
    <3> QED
      BY <1>2, <2>3, <3>1, <3>3 DEF Places
  <2> QED
    BY <1>1, <2>1, <2>2, <2>3
<1>3. CASE d # c
  <2>1. todo'[d] = todo[d]
    BY <1>3 DEF Shift
  <2> QED
    BY <1>3, <2>1 DEF Places
<1> QED
  BY <1>2, <1>3

\* An old label is somewhere after the step, unless it is the one that goes.
LEMMA OldStays ==
  ASSUME IInv, NEW c \in Context, NEW ls, NEW k, Step(c, ls, k),
         NEW d \in Context, NEW i \in Places(d), d # c \/ i > k
  PROVE  \E j \in Places(d)' : todo'[d][j] = todo[d][i]
<1> USE DEF Step
<1>1. Len(ls) \in Nat /\ Len(todo[c]) \in Nat
  BY Types, LenProperties
<1>2. CASE d = c
  <2>1. i \in k + 1 .. Len(todo[c])
    BY <1>1, <1>2 DEF Places
  <2>2. todo'[c][i + Len(ls) - k] = todo[c][i] /\ Len(todo'[c]) = Len(ls) + Len(todo[c]) - k
    BY <2>1 DEF Shift
  <2>3. i + Len(ls) - k \in 1 .. Len(todo'[c])
    BY <1>1, <2>1, <2>2
  <2> QED
    BY <1>2, <2>2, <2>3 DEF Places
<1>3. CASE d # c
  <2>1. todo'[d] = todo[d]
    BY <1>3 DEF Shift
  <2> QED
    BY <2>1 DEF Places
<1> QED
  BY <1>2, <1>3

\* Behind the labels that go nothing is stored or submitted, if the first was not a store.
LEMMA RestQuiet ==
  ASSUME IInv, NEW c \in Context, NEW ls, NEW k, Step(c, ls, k),
         k = 1 => todo[c][1].at # "set",
         NEW i \in Places(c), i > k
  PROVE  todo[c][i].at \notin {"set", "go"}
<1>1. todo[c] \in Seq(Label) /\ i \in 1 .. Len(todo[c]) /\ Len(todo[c]) \in Nat
  BY Types, LenProperties DEF Places
<1>2. todo[c] # <<>>
  BY <1>1, EmptySeq
<1> QED
  BY <1>1, <1>2, Quiet DEF Step

\* The labels that stay are still what they say.
LEMMA LabelsStay ==
  ASSUME IInv, NEW c \in Context, NEW ls, NEW k, Step(c, ls, k), Fewer,
         k = 1 => todo[c][1].at # "set",
         calls' \in Nat, calls <= calls',
         \A i \in 1 .. Len(ls) : LabelOK(c, i)'
  PROVE  LabelsOK'
<1> SUFFICES ASSUME NEW d \in Context, NEW i \in Places(d)' PROVE LabelOK(d, i)'
  BY DEF LabelsOK
<1>0. calls \in Nat
  BY Types
<1>1. CASE d = c /\ i \in 1 .. Len(ls)
  BY <1>1
<1>2. CASE d = c /\ i > Len(ls)
  <2>1. PICK j \in Places(d) : j > k /\ todo'[d][i] = todo[d][j]
    <3>1. Len(ls) \in Nat
      BY LenProperties DEF Step
    <3> QED
      BY <1>2, <3>1, NewOrOld
  <2>2. todo[d][j].at \notin {"set", "go"}
    BY <1>2, <2>1, RestQuiet
  <2>3. LabelOK(d, j)
    BY DEF IInv, LabelsOK
  <2> QED
    BY <1>0, <2>1, <2>2, <2>3 DEF LabelOK, Fewer
<1>3. CASE d # c
  <2>1. i \in Places(d) /\ todo'[d] = todo[d]
    BY <1>3, NewOrOld
  <2>2. LabelOK(d, i)
    BY <2>1 DEF IInv, LabelsOK
  <2> QED
    BY <1>0, <2>1, <2>2 DEF LabelOK, Fewer
<1> QED
  BY <1>1, <1>2, <1>3, NewOrOld

\* A Close that stays still waits for what it waited for.
LEMMA ClosesStay ==
  ASSUME IInv, NEW c \in Context, NEW ls, NEW k, Step(c, ls, k), NoOlder,
         \A i \in 1 .. Len(ls) : CloseOK(c, i)',
         k = 1 => \A x \in Slot :
           /\ this'.slot[x] # 0
           /\ \/ todo[c][1].at \in {"check", "use"} /\ todo[c][1].x = x
              \/ todo[c][1].at = "await" /\ todo[c][1].op = this.slot[x]
           => \E j \in 1 .. Len(ls) :
                \/ ls[j].at = "await" /\ ls[j].op = this'.slot[x]
                \/ ls[j].at = "use" /\ ls[j].x = x
  PROVE  \A d \in Context : \A i \in Places(d)' : CloseOK(d, i)'
<1> SUFFICES ASSUME NEW d \in Context, NEW i \in Places(d)' PROVE CloseOK(d, i)'
  OBVIOUS
<1>1. CASE d = c /\ i \in 1 .. Len(ls)
  BY <1>1
<1>2. CASE d = c /\ i > Len(ls)
  <2> SUFFICES ASSUME todo'[c][i].at = "release", NEW x \in Slot, this'.slot[x] # 0
               PROVE  this'.slot[x] > todo'[c][i].op \/ Waits(c, i, x)'
    BY <1>2 DEF CloseOK
  <2>0. /\ Len(ls) \in Nat /\ Len(todo[c]) \in Nat /\ k \in {0, 1} /\ i \in Nat
        /\ Len(todo'[c]) = Len(ls) + Len(todo[c]) - k
    BY Types, LenProperties DEF Step, Shift, Places
  <2>1. PICK h : h = i - Len(ls) + k
    OBVIOUS
  <2>2. h \in Places(c) /\ h > k /\ todo'[c][i] = todo[c][h] /\ h \in Nat
    <3>1. \/ d = c /\ i \in 1 .. Len(ls) /\ todo'[d][i] = ls[i]
          \/ d = c /\ i > Len(ls) /\ i - Len(ls) + k \in Places(d) /\ i - Len(ls) + k > k
             /\ todo'[d][i] = todo[d][i - Len(ls) + k]
          \/ d # c /\ i \in Places(d) /\ todo'[d] = todo[d]
      BY NewOrOld
    <3>2. ~(i \in 1 .. Len(ls))
      BY <1>2, <2>0
    <3>3. h \in Places(c) /\ h > k /\ todo'[c][i] = todo[c][h]
      BY <1>2, <2>1, <3>1, <3>2
    <3> QED
      BY <2>0, <3>3 DEF Places
  <2>3. CloseOK(c, h)
    BY <2>2 DEF IInv
  <2> SUFFICES ASSUME ~(this'.slot[x] > todo[c][h].op) PROVE Waits(c, i, x)'
    BY <2>2
  <2>4. this.slot[x] = this'.slot[x]
    BY <2>2 DEF NoOlder
  <2>5. CASE this.slot[x] > todo[c][h].op
    BY <2>2, <2>4, <2>5
  <2>6. CASE Waits(c, h, x)
    <3>1. PICK j \in 1 .. h - 1 : \/ todo[c][j].at \in {"check", "use"} /\ todo[c][j].x = x
                                  \/ todo[c][j].at = "await" /\ todo[c][j].op = this.slot[x]
      BY <2>6 DEF Waits
    <3>2. CASE j > k
      <4>1. j \in k + 1 .. Len(todo[c])
        BY <2>0, <2>2, <3>1, <3>2 DEF Places
      <4>2. todo'[c][j + Len(ls) - k] = todo[c][j]
        BY <4>1 DEF Step, Shift
      <4>3. j + Len(ls) - k \in 1 .. i - 1
        <5>1. j \in Nat /\ k < j /\ j <= h - 1
          BY <2>0, <2>2, <3>1, <3>2
        <5> QED
          BY <2>0, <2>1, <5>1
      <4> QED
        BY <2>4, <3>1, <4>2, <4>3 DEF Waits
    <3>3. CASE ~(j > k)
      <4>1. k = 1 /\ j = 1
        BY <2>0, <2>2, <3>1, <3>3
      <4>2. PICK m \in 1 .. Len(ls) :
              \/ ls[m].at = "await" /\ ls[m].op = this'.slot[x]
              \/ ls[m].at = "use" /\ ls[m].x = x
        BY <3>1, <4>1
      <4>3. todo'[c][m] = ls[m]
        BY DEF Step, Shift
      <4>4. m \in 1 .. i - 1
        BY <1>2, <2>0
      <4> QED
        BY <4>2, <4>3, <4>4 DEF Waits
    <3> QED
      BY <3>2, <3>3
  <2> QED
    BY <2>2, <2>3, <2>4, <2>5, <2>6 DEF CloseOK
<1>3. CASE d # c
  <2>1. i \in Places(d) /\ todo'[d] = todo[d]
    BY <1>3, NewOrOld
  <2>2. CloseOK(d, i)
    BY <2>1 DEF IInv
  <2> QED
    BY <2>1, <2>2 DEF CloseOK, Waits, NoOlder
<1> QED
  BY <1>1, <1>2, <1>3, NewOrOld

\* Every operation in progress still has its place.
LEMMA PlacesStay ==
  ASSUME IInv, NEW c \in Context, NEW ls, NEW k, Step(c, ls, k),
         \A o \in Op : done'[o] = "pending" =>
           \/ HasPlace(o)'
           \/ /\ done[o] = "pending" /\ \A x \in Slot : this.slot[x] = o => this'.slot[x] = o
              /\ k = 1 /\ todo[c][1].at \in {"set", "release"} => todo[c][1].op # o
  PROVE  \A o \in Op : done'[o] = "pending" => HasPlace(o)'
<1> SUFFICES ASSUME NEW o \in Op, done'[o] = "pending", done[o] = "pending",
                    \A x \in Slot : this.slot[x] = o => this'.slot[x] = o,
                    k = 1 /\ todo[c][1].at \in {"set", "release"} => todo[c][1].op # o
             PROVE  HasPlace(o)'
  OBVIOUS
<1>1. HasPlace(o)
  BY DEF IInv
<1>2. CASE \E x \in Slot : this.slot[x] = o
  BY <1>2 DEF HasPlace
<1>3. ASSUME NEW d \in Context, NEW i \in Places(d),
             todo[d][i].at \in {"set", "release"}, todo[d][i].op = o
      PROVE  HasPlace(o)'
  <2>1. d # c \/ i > k
    BY <1>3 DEF Step, Places
  <2>2. PICK j \in Places(d)' : todo'[d][j] = todo[d][i]
    BY <2>1, OldStays
  <2> QED
    BY <1>3, <2>2 DEF HasPlace
<1> QED
  BY <1>1, <1>2, <1>3 DEF HasPlace

\* A context that submits an operation goes on, unless it is the one that steps.
LEMMA GoingStays ==
  ASSUME IInv, NEW c \in Context, NEW ls, NEW k, Step(c, ls, k),
         NEW x \in Slot, this'.slot[x] = this.slot[x],
         k = 1 => todo[c][1] # L("go", x, this.slot[x]),
         Going(x)
  PROVE  Going(x)'
<1>1. PICK d \in Context : todo[d] # <<>> /\ todo[d][1] = L("go", x, this.slot[x])
  BY DEF Going
<1>2. d # c
  BY <1>1 DEF Step, L
<1>3. todo'[d] = todo[d]
  BY <1>2 DEF Step, Shift
<1> QED
  BY <1>1, <1>3 DEF Going

\* What another context stores or submits next is untouched: its slot and token, its task,
\* and the count of operations.
LEMMA HeadsStay ==
  ASSUME IInv, NEW c \in Context, NEW ls, NEW k, Step(c, ls, k),
         SetOK(c)', GoOK(c)',
         \A d \in Context \ {c} :
           \/ todo[d] = <<>> \/ todo[d][1].at \notin {"set", "go"}
           \/ /\ calls' = calls /\ Fewer
              /\ \A i \in 1 .. Len(ls) : ls[i].at # "release"
              /\ \A x \in Slot : todo[d][1].x = x =>
                   /\ this'.slot[x] = this.slot[x] /\ this'.token[x] = this.token[x]
                   /\ this'.open = this.open
                   /\ done'[todo[d][1].op] = done[todo[d][1].op]
  PROVE  \A d \in Context : SetOK(d)' /\ GoOK(d)'
<1> SUFFICES ASSUME NEW d \in Context \ {c} PROVE SetOK(d)' /\ GoOK(d)'
  OBVIOUS
<1>1. todo'[d] = todo[d] /\ todo[d] \in Seq(Label)
  BY Types DEF Step, Shift
<1>2. CASE todo[d] = <<>> \/ todo[d][1].at \notin {"set", "go"}
  BY <1>1, <1>2 DEF SetOK, GoOK
<1>3. CASE todo[d] # <<>> /\ todo[d][1].at \in {"set", "go"}
  <2>1. 1 \in Places(d)
    BY <1>1, <1>3, EmptySeq DEF Places
  <2>2. todo[d][1].x \in Slot
    BY <1>3, <2>1 DEF IInv, LabelsOK, LabelOK
  <2>3. /\ calls' = calls /\ Fewer /\ this'.open = this.open
        /\ \A i \in 1 .. Len(ls) : ls[i].at # "release"
        /\ this'.slot[todo[d][1].x] = this.slot[todo[d][1].x]
        /\ this'.token[todo[d][1].x] = this.token[todo[d][1].x]
        /\ done'[todo[d][1].op] = done[todo[d][1].op]
    BY <1>3, <2>2
  <2>4. SetOK(d) /\ GoOK(d)
    BY DEF IInv
  <2>5. GoOK(d)'
    BY <1>1, <2>3, <2>4 DEF GoOK
  <2>6. SetOK(d)'
    <3> SUFFICES ASSUME todo[d][1].at = "set" PROVE SetOK(d)'
      BY <1>1 DEF SetOK
    <3>1. /\ this.open /\ this.slot[todo[d][1].x] = 0
          /\ todo[d][1].op = calls /\ todo[d][1].op \in Op /\ done[todo[d][1].op] = "pending"
          /\ \A x \in Slot : this.slot[x] # todo[d][1].op
          /\ \A e \in Context : \A i \in Places(e) :
               todo[e][i].at = "release" => todo[e][i].op < todo[d][1].op
      BY <1>3, <2>4 DEF SetOK
    <3>2. \A x \in Slot : this'.slot[x] # todo[d][1].op
      BY <2>3, <3>1 DEF Fewer, Op
    <3>3. ASSUME NEW e \in Context, NEW i \in Places(e)', todo'[e][i].at = "release"
          PROVE  todo'[e][i].op < todo[d][1].op
      <4>1. \E j \in Places(e) : todo'[e][i] = todo[e][j]
        BY <2>3, <3>3, NewOrOld
      <4> QED
        BY <3>1, <3>3, <4>1
    <3> QED
      BY <1>1, <2>3, <3>1, <3>2, <3>3 DEF SetOK
  <2> QED
    BY <2>5, <2>6
<1> QED
  BY <1>2, <1>3

\* A tick inside a call of the application still only polls.
LEMMA TickStays ==
  ASSUME IInv, NEW c \in Context, NEW ls, NEW k, Step(c, ls, k), tick' = tick,
         c = "Timer" /\ InCall =>
           \A i \in 1 .. Len(ls) : ls[i].at \in {"pollToken", "passEnd", "user"}
  PROVE  TickOK'
<1>0. todo' \in [Context -> Seq(Label)] /\ todo \in [Context -> Seq(Label)]
  BY Types DEF Step, Shift
<1>1. CASE c = "App"
  <2>1. todo["Timer"] = <<>> /\ todo'["Timer"] = todo["Timer"]
    BY <1>1, Types DEF Step, Shift, OnCpu, IInv, TickOK, Context
  <2>2. Places("Timer")' = {}
    BY <2>1 DEF Places
  <2> QED
    BY <2>1, <2>2 DEF TickOK
<1>2. CASE c = "Timer"
  <2>1. tick /\ todo'["App"] = todo["App"]
    BY <1>2, Types DEF Step, Shift, OnCpu, Context
  <2>2. ASSUME InCall', NEW i \in Places("Timer")'
        PROVE  todo'["Timer"][i].at \in {"pollToken", "passEnd", "user"}
    <3>1. InCall
      BY <2>1, <2>2 DEF InCall
    <3>2. \A j \in Places("Timer") : todo["Timer"][j].at \in {"pollToken", "passEnd", "user"}
      BY <3>1 DEF IInv, TickOK
    <3> QED
      BY <1>2, <2>2, <3>1, <3>2, NewOrOld DEF Context
  <2> QED
    BY <2>1, <2>2 DEF TickOK
<1> QED
  BY <1>1, <1>2 DEF Context

\* The parts together, for a state of the right type.
LEMMA Together ==
  ASSUME /\ this' \in [open : BOOLEAN, async : BOOLEAN, slot : [Slot -> Op \cup {0}],
                       polled : BOOLEAN,
                       token : [Slot -> [queued : BOOLEAN, signaled : BOOLEAN]],
                       closing : SUBSET Op, closed : Op \cup {0}]
         /\ this'.polled => this'.open,
         todo' \in [Context -> Seq(Label)],
         done' \in [Op -> {"none", "pending", "done"}],
         calls' \in 0 .. MaxCalls, tick' \in BOOLEAN
  PROVE  TypeOK'
<1>1. Label = [at : Stretch \cup {"user", "passEnd"}, x : Slot \cup {"none"}, op : Nat]
  BY DEF Label
<1>2. HandlersTypeOK(Stretch, Slot)'
  BY <1>1 DEF HandlersTypeOK
<1>3. HandlersTypeOK({"set", "go", "check", "use", "await", "null", "release", "pollToken"}, Slot)'
  BY <1>2 DEF Stretch
<1> QED
  BY <1>3 DEF TypeOK

\* A context whose new labels neither store nor submit does neither next.
LEMMA HeadQuiet ==
  ASSUME IInv, NEW c \in Context, NEW ls, NEW k, Step(c, ls, k),
         k = 1 => todo[c][1].at # "set",
         \A i \in 1 .. Len(ls) : ls[i].at \notin {"set", "go"}
  PROVE  SetOK(c)' /\ GoOK(c)'
<1> SUFFICES ASSUME todo'[c] # <<>> PROVE todo'[c][1].at \notin {"set", "go"}
  BY DEF SetOK, GoOK
<1>0. todo'[c] \in Seq(Label)
  BY DEF Step, Shift
<1>1. 1 \in Places(c)'
  BY <1>0, EmptySeq DEF Places
<1>2. CASE 1 \in 1 .. Len(ls)
  BY <1>0, <1>1, <1>2 DEF Step, Shift
<1>3. CASE ~(1 \in 1 .. Len(ls))
  <2>1. PICK j \in Places(c) : j > k /\ todo'[c][1] = todo[c][j]
    BY <1>1, <1>3, NewOrOld
  <2> QED
    BY <2>1, RestQuiet
<1> QED
  BY <1>2, <1>3

\* The slots, the tokens and the poller are as they were.
Unmoved ==
  /\ tick' = tick
  /\ this' \in [open : BOOLEAN, async : BOOLEAN, slot : [Slot -> Op \cup {0}],
               polled : BOOLEAN,
               token : [Slot -> [queued : BOOLEAN, signaled : BOOLEAN]],
               closing : SUBSET Op, closed : Op \cup {0}]
  /\ this'.open = this.open /\ this'.slot = this.slot /\ this'.polled = this.polled
  /\ this'.token = this.token /\ this'.closed = this.closed

\* No task completes, and one that begins has its place.
NoneEnds ==
  /\ calls' \in 0 .. MaxCalls /\ calls <= calls'
  /\ done' \in [Op -> {"none", "pending", "done"}]
  /\ \A o \in Op : done[o] = "pending" => done'[o] = "pending"
  /\ \A o \in Op : done'[o] = "pending" => done[o] = "pending" \/ HasPlace(o)'

\* The new labels of c are what they say.
ComeWell(c, ls) ==
  /\ \A i \in 1 .. Len(ls) : LabelOK(c, i)' /\ CloseOK(c, i)'
  /\ SetOK(c)' /\ GoOK(c)'
  /\ \/ calls' = calls /\ \A i \in 1 .. Len(ls) : ls[i].at # "release"
     \/ \A d \in Context \ {c} : todo[d] = <<>> \/ todo[d][1].at \notin {"set", "go"}
  /\ c = "Timer" /\ InCall =>
       \A i \in 1 .. Len(ls) : ls[i].at \in {"pollToken", "passEnd", "user"}

\* The label that goes is no longer needed.
GoesWell(c, ls) ==
  /\ todo[c][1].at \notin {"set", "go", "release"}
  /\ \A x \in Slot :
       /\ this.slot[x] # 0
       /\ \/ todo[c][1].at \in {"check", "use"} /\ todo[c][1].x = x
          \/ todo[c][1].at = "await" /\ todo[c][1].op = this.slot[x]
       => \E j \in 1 .. Len(ls) :
            \/ ls[j].at = "await" /\ ls[j].op = this.slot[x]
            \/ ls[j].at = "use" /\ ls[j].x = x

\* A step that touches neither a slot, nor a token, nor the poller, and ends no task.
LEMMA QuietStep ==
  ASSUME IInv, NEW c \in Context, NEW ls, NEW k, Step(c, ls, k),
         Unmoved, NoneEnds, ComeWell(c, ls), k = 1 => GoesWell(c, ls)
  PROVE  IInv'
<1> USE DEF Unmoved, NoneEnds, ComeWell, GoesWell
<1>1. Fewer
  BY DEF Fewer
<1>2. TypeOK'
  <2>1. todo' \in [Context -> Seq(Label)]
    BY DEF Step, Shift
  <2>2. tick' \in BOOLEAN /\ (this'.polled => this'.open)
    BY Types
  <2> QED
    BY <2>1, <2>2, Together
<1>3. LabelsOK'
  BY <1>1, LabelsStay
<1>4. \A d \in Context : SetOK(d)' /\ GoOK(d)'
  <2>1. ASSUME NEW d \in Context \ {c}, todo[d] # <<>>, todo[d][1].at \in {"set", "go"}
        PROVE  done'[todo[d][1].op] = done[todo[d][1].op]
    <3>1. todo[d] \in Seq(Label) /\ 1 \in Places(d)
      BY <2>1, Types, EmptySeq DEF Places
    <3>2. CASE todo[d][1].at = "set"
      <4>1. todo[d][1].op \in Op /\ done[todo[d][1].op] = "pending"
        BY <2>1, <3>2 DEF IInv, SetOK
      <4> QED
        BY <4>1
    <3>3. CASE todo[d][1].at = "go"
      <4>1. /\ todo[d][1].x \in Slot /\ this.slot[todo[d][1].x] = todo[d][1].op
            /\ todo[d][1].op # 0
        BY <2>1, <3>1, <3>3 DEF IInv, LabelsOK, LabelOK, GoOK
      <4>2. todo[d][1].op \in Op
        BY <4>1, Types
      <4>3. done[todo[d][1].op] = "pending"
        BY <4>1 DEF IInv, SlotOK
      <4> QED
        BY <4>2, <4>3
    <3> QED
      BY <2>1, <3>2, <3>3
  <2> QED
    BY <1>1, <2>1, HeadsStay
<1>5. \A x \in Slot : TokenOK(x)' /\ SlotOK(x)'
  <2> SUFFICES ASSUME NEW x \in Slot PROVE TokenOK(x)' /\ SlotOK(x)'
    OBVIOUS
  <2>1. TokenOK(x) /\ SlotOK(x)
    BY DEF IInv
  <2>2. Going(x) => Going(x)'
    <3>1. k = 1 => todo[c][1] # L("go", x, this.slot[x])
      BY DEF L
    <3>2. this'.slot[x] = this.slot[x]
      OBVIOUS
    <3> QED
      BY <3>1, <3>2, GoingStays
  <2>3. this.slot[x] \in Op \cup {0} /\ calls \in Nat /\ calls' \in Nat /\ Op \subseteq Nat
    BY Types DEF Op
  <2>4. TokenOK(x)'
    BY <2>1 DEF TokenOK
  <2>5. ASSUME this.slot[x] # 0
        PROVE  this.slot[x] <= calls' /\ done'[this.slot[x]] = "pending"
    BY <2>1, <2>3, <2>5 DEF SlotOK
  <2> QED
    BY <2>1, <2>2, <2>4, <2>5 DEF SlotOK
<1>6. \A o \in Op : done'[o] = "pending" => HasPlace(o)'
  <2>1. ASSUME k = 1, todo[c][1].at \in {"set", "release"} PROVE FALSE
    BY <2>1
  <2> QED
    BY <2>1, PlacesStay
<1>7. \A d \in Context : \A i \in Places(d)' : CloseOK(d, i)'
  <2>1. this'.slot = this.slot
    OBVIOUS
  <2>2. k = 1 => \A x \in Slot :
          /\ this'.slot[x] # 0
          /\ \/ todo[c][1].at \in {"check", "use"} /\ todo[c][1].x = x
             \/ todo[c][1].at = "await" /\ todo[c][1].op = this.slot[x]
          => \E j \in 1 .. Len(ls) :
               \/ ls[j].at = "await" /\ ls[j].op = this'.slot[x]
               \/ ls[j].at = "use" /\ ls[j].x = x
    BY <2>1
  <2> QED
    BY <1>1, <2>2, ClosesStay DEF Fewer, NoOlder
<1>8. TickOK'
  BY TickStays
<1>9. CloseWaitsForAll'
  BY DEF IInv, CloseWaitsForAll, Pending
<1> QED
  BY <1>2, <1>3, <1>4, <1>5, <1>6, <1>7, <1>8, <1>9 DEF IInv

-----------------------------------------------------------------------------
(* The steps that touch no slot and no token.                               *)

\* Code of the user, or that waits, gets labels before its own.
LEMMA Pushes ==
  ASSUME IInv, NEW c \in Context, Yields(c), NEW ls \in Seq(Label),
         todo' = [todo EXCEPT ![c] = ls \o @]
  PROVE  Step(c, ls, 0)
<1>1. Len(todo[c]) \in Nat
  BY Types, LenProperties
<1>2. Shift(c, ls, 0)
  BY Pushed
<1>3. OnCpu(c) /\ (todo[c] # <<>> => todo[c][1].at \in {"user", "await"})
  BY AtUser
<1> QED
  BY <1>1, <1>2, <1>3 DEF Step

\* A context that executes its first label gets others in its place.
LEMMA Replaces ==
  ASSUME IInv, NEW c \in Context, NEW at, At(c, at), NEW ls \in Seq(Label),
         todo' = [todo EXCEPT ![c] = ls \o Tail(@)]
  PROVE  Step(c, ls, 1)
<1>1. 1 \in 1 .. Len(todo[c]) /\ todo[c] # <<>> /\ OnCpu(c) /\ Len(todo[c]) \in Nat
  BY IsAt, Types, LenProperties DEF Places
<1>2. Shift(c, ls, 1)
  BY <1>1, Replaced
<1> QED
  BY <1>1, <1>2 DEF Step

\* The operation of a call is a new one.
LEMMA NewOp ==
  ASSUME IInv, NEW c \in Context, CanCall(c), calls' = calls + 1
  PROVE  /\ Yields(c) /\ New \in Op /\ New \in Nat /\ New = calls' /\ New > calls
         /\ calls' \in 0 .. MaxCalls /\ calls <= calls' /\ calls \in Nat
         /\ \A x \in Slot : this.slot[x] # New
         /\ \A d \in Context : \A i \in Places(d) : todo[d][i].at = "release" => todo[d][i].op < New
         /\ \A d \in Context \ {c} : todo[d] = <<>> \/ todo[d][1].at \notin {"set", "go"}
<1>1. calls \in Nat /\ MaxCalls \in Nat /\ calls < MaxCalls
  BY Types DEF CanCall
<1>2. Yields(c) /\ OnCpu(c)
  BY DEF CanCall, Yields, InUserCode
<1>3. New \in Op /\ New \in Nat /\ New = calls' /\ New > calls /\ calls' \in 0 .. MaxCalls
      /\ calls <= calls'
  BY <1>1 DEF New, Op
<1>4. \A x \in Slot : this.slot[x] # New
  <2> TAKE x \in Slot
  <2>1. this.slot[x] # 0 => this.slot[x] <= calls
    BY DEF IInv, SlotOK
  <2> QED
    BY <1>1, <1>3, <2>1
<1>5. \A d \in Context : \A i \in Places(d) : todo[d][i].at = "release" => todo[d][i].op < New
  <2> TAKE d \in Context
  <2> TAKE i \in Places(d)
  <2>1. todo[d][i].at = "release" => todo[d][i].op \in 1 .. calls
    BY DEF IInv, LabelsOK, LabelOK
  <2> QED
    BY <1>1, <1>3, <2>1
<1>6. \A d \in Context \ {c} : todo[d] = <<>> \/ todo[d][1].at \notin {"set", "go"}
  BY <1>2, Alone
<1> QED
  BY <1>1, <1>2, <1>3, <1>4, <1>5, <1>6

\* A call that begins an operation, or that ends at once.
LEMMA CallIoKeeps ==
  ASSUME IInv, NEW c \in Context, NEW x \in Slot, CallIo(c, x)
  PROVE  IInv'
<1>1. CanCall(c) /\ this.open /\ this.slot[x] = 0
  BY DEF CallIo
<1>2. calls' = calls + 1 /\ this' = this /\ tick' = tick
  BY DEF CallIo, Start, Return
<1>0. PICK n : n = New
  OBVIOUS
<1>3. /\ Yields(c) /\ n \in Op /\ n \in Nat /\ n = calls' /\ n > calls
      /\ calls' \in 0 .. MaxCalls /\ calls <= calls' /\ calls \in Nat
      /\ \A y \in Slot : this.slot[y] # n
      /\ \A d \in Context : \A i \in Places(d) : todo[d][i].at = "release" => todo[d][i].op < n
      /\ \A d \in Context \ {c} : todo[d] = <<>> \/ todo[d][1].at \notin {"set", "go"}
  BY <1>0, <1>1, <1>2, NewOp
<1>4. done[n] # "pending"
  <2>1. ASSUME HasPlace(n) PROVE FALSE
    <3>0. PICK d \in Context : \E i \in Places(d) :
            todo[d][i].at \in {"set", "release"} /\ todo[d][i].op = n
      BY <1>3, <2>1 DEF HasPlace
    <3>1. PICK i \in Places(d) :
            todo[d][i].at \in {"set", "release"} /\ todo[d][i].op = n
      BY <3>0
    <3>2. CASE todo[d][i].at = "release"
      BY <1>3, <3>1, <3>2
    <3>3. CASE todo[d][i].at = "set"
      <4>1. i = 1 /\ todo[d] # <<>>
        <5>1. todo[d] \in Seq(Label)
          BY Types
        <5>2. i \in 1 .. Len(todo[d])
          BY <3>1 DEF Places
        <5>3. todo[d] # <<>>
          BY <5>1, <5>2, EmptySeq
        <5> QED
          BY <3>1, <3>3, <5>3 DEF IInv, LabelsOK, LabelOK
      <4>2. todo[d][1].op = calls
        BY <3>3, <4>1 DEF IInv, SetOK
      <4> QED
        BY <1>3, <3>1, <4>1, <4>2
    <3> QED
      BY <3>1, <3>2, <3>3
  <2> QED
    BY <1>3, <2>1 DEF IInv
<1>5. CASE this.async
  <2>1. PICK ls : ls = <<L("set", x, n), L("go", x, n)>>
    OBVIOUS
  <2>2. /\ ls \in Seq(Label) /\ Len(ls) = 2 /\ ls[1] = L("set", x, n) /\ ls[2] = L("go", x, n)
    BY <1>3, <2>1 DEF Label, L, Stretch
  <2>3. todo' = [todo EXCEPT ![c] = ls \o @] /\ done' = [done EXCEPT ![n] = "pending"]
    BY <1>5, <1>0, <2>1 DEF CallIo, Start, Pend
  <2>4. Step(c, ls, 0)
    BY <1>3, <2>2, <2>3, Pushes
  <2>5. /\ todo'[c] \in Seq(Label) /\ Len(todo'[c]) = 2 + Len(todo[c]) /\ Len(todo[c]) \in Nat
        /\ todo'[c][1] = ls[1] /\ todo'[c][2] = ls[2]
    BY <2>2, <2>4, Types, LenProperties DEF Step, Shift
  <2>6. done' \in [Op -> {"none", "pending", "done"}] /\ done'[n] = "pending"
        /\ \A o \in Op \ {n} : done'[o] = done[o]
    BY <1>3, <2>3, Types
  <2>7. \A i \in 1 .. Len(ls) : LabelOK(c, i)' /\ CloseOK(c, i)'
    <3>1. LabelOK(c, 1)' /\ CloseOK(c, 1)'
      BY <2>2, <2>5 DEF LabelOK, CloseOK, L
    <3>2. LabelOK(c, 2)' /\ CloseOK(c, 2)'
      BY <2>2, <2>5 DEF LabelOK, CloseOK, L
    <3>3. 1 .. Len(ls) = {1, 2}
      BY <2>2
    <3> QED
      BY <3>1, <3>2, <3>3
  <2>8. SetOK(c)'
    <3>1. ASSUME NEW d \in Context, NEW i \in Places(d)', todo'[d][i].at = "release"
          PROVE  todo'[d][i].op < n
      <4>1. \A j \in 1 .. Len(ls) : ls[j].at # "release"
        <5>1. 1 .. Len(ls) = {1, 2}
          BY <2>2
        <5> QED
          BY <2>2, <5>1 DEF L
      <4>2. \E j \in Places(d) : todo'[d][i] = todo[d][j]
        BY <2>4, <3>1, <4>1, NewOrOld
      <4> QED
        BY <1>3, <3>1, <4>2
    <3>2. todo'[c][1].op = n /\ todo'[c][1].x = x
      BY <2>2, <2>5 DEF L
    <3> QED
      BY <1>1, <1>2, <1>3, <2>6, <3>1, <3>2 DEF SetOK
  <2>9. GoOK(c)'
    BY <2>2, <2>5 DEF GoOK, L
  <2>10. HasPlace(n)'
    <3>1. 1 \in Places(c)' /\ todo'[c][1].at = "set" /\ todo'[c][1].op = n
      BY <2>2, <2>5 DEF Places, L
    <3> QED
      BY <3>1 DEF HasPlace
  <2>11. c = "Timer" => ~InCall
    BY <1>1 DEF CanCall
  <2> QED
    <3>1. Unmoved
      BY <1>2, Types DEF Unmoved
    <3>2. NoneEnds
      BY <1>3, <2>6, <2>10 DEF NoneEnds
    <3>3. ComeWell(c, ls)
      BY <1>3, <2>7, <2>8, <2>9, <2>11 DEF ComeWell
    <3> QED
      BY <2>4, <3>1, <3>2, <3>3, QuietStep
<1>6. CASE ~this.async
  <2>1. PICK ls : ls = <<>>
    OBVIOUS
  <2>2. ls \in Seq(Label) /\ Len(ls) = 0
    BY <2>1
  <2>3. todo' = [todo EXCEPT ![c] = ls \o @] /\ done' = [done EXCEPT ![n] = "done"]
    BY <1>6, <1>0, <2>1 DEF CallIo, Start, Return
  <2>4. Step(c, ls, 0)
    BY <1>3, <2>2, <2>3, Pushes
  <2>6. done' \in [Op -> {"none", "pending", "done"}] /\ done'[n] = "done"
        /\ \A o \in Op \ {n} : done'[o] = done[o]
    BY <1>3, <2>3, Types
  <2>7. \A i \in 1 .. Len(ls) : FALSE
    BY <2>2
  <2>8. SetOK(c)' /\ GoOK(c)'
    BY <2>4, <2>7, HeadQuiet
  <2> QED
    <3>1. Unmoved
      BY <1>2, Types DEF Unmoved
    <3>2. NoneEnds
      BY <1>3, <1>4, <2>6 DEF NoneEnds
    <3>3. ComeWell(c, ls)
      BY <1>3, <2>7, <2>8 DEF ComeWell
    <3> QED
      BY <2>4, <3>1, <3>2, <3>3, QuietStep
<1> QED
  BY <1>5, <1>6

\* A step that only replaces the first label, or puts polls before it.
LEMMA PlainStep ==
  ASSUME IInv, NEW c \in Context, NEW ls, NEW k, Step(c, ls, k),
         UNCHANGED <<this, done, calls, tick>>,
         \A i \in 1 .. Len(ls) :
           /\ ls[i].at \in {"pollToken", "passEnd", "use", "await", "null"}
           /\ ls[i].at \in {"pollToken", "use"} => ls[i].x \in Slot
           /\ ls[i].at \in {"use", "await", "null"} => ~(c = "Timer" /\ InCall),
         k = 1 => GoesWell(c, ls)
  PROVE  IInv'
<1>1. Unmoved
  BY Types DEF Unmoved
<1>2. NoneEnds
  BY Types DEF NoneEnds
<1>3. ComeWell(c, ls)
  <2>1. \A i \in 1 .. Len(ls) : todo'[c][i] = ls[i]
    BY DEF Step, Shift
  <2>2. \A i \in 1 .. Len(ls) : LabelOK(c, i)' /\ CloseOK(c, i)'
    BY <2>1 DEF LabelOK, CloseOK
  <2>3. SetOK(c)' /\ GoOK(c)'
    BY HeadQuiet DEF GoesWell
  <2> QED
    BY <2>2, <2>3 DEF ComeWell
<1> QED
  BY <1>1, <1>2, <1>3, QuietStep

\* A label that is done, with nothing in its place.
LEMMA DropKeeps ==
  ASSUME IInv, NEW c \in Context, NEW at, At(c, at), Proceed(c, this, <<>>),
         at \in {"check", "use", "await", "pollToken", "passEnd", "user"},
         at \in {"check", "use"} => this.slot[todo[c][1].x] = 0,
         at = "await" => done[todo[c][1].op] = "done"
  PROVE  IInv'
<1>1. PICK ls : ls = <<>>
  OBVIOUS
<1>2. ls \in Seq(Label) /\ Len(ls) = 0 /\ \A i \in 1 .. Len(ls) : FALSE
  BY <1>1
<1>3. todo' = [todo EXCEPT ![c] = ls \o Tail(@)] /\ UNCHANGED <<this, done, calls, tick>>
  BY <1>1 DEF Proceed
<1>4. Step(c, ls, 1)
  BY <1>2, <1>3, Replaces
<1>5. todo[c][1].at = at
  BY IsAt
<1>6. GoesWell(c, ls)
  <2>1. ASSUME NEW x \in Slot, this.slot[x] # 0,
               todo[c][1].at = "await", todo[c][1].op = this.slot[x]
        PROVE  FALSE
    <3>1. done[this.slot[x]] = "pending"
      BY <2>1 DEF IInv, SlotOK
    <3> QED
      BY <1>5, <2>1, <3>1
  <2> QED
    BY <1>5, <2>1 DEF GoesWell
<1> QED
  BY <1>2, <1>3, <1>4, <1>6, PlainStep

\* A continuation returns.
LEMMA UserReturnsKeeps ==
  ASSUME IInv, NEW c \in Context, UserReturns(c) PROVE IInv'
BY DropKeeps DEF UserReturns

\* A pass goes on behind the stream.
LEMMA PassEndsKeeps ==
  ASSUME IInv, NEW c \in Context, PassEnds(c) PROVE IInv'
BY DropKeeps DEF PassEnds

\* A wait is over: the operation is done, and so is in no slot.
LEMMA AwaitedKeeps ==
  ASSUME IInv, NEW c \in Context, Awaited(c) PROVE IInv'
<1>1. At(c, "await") /\ Proceed(c, this, <<>>) /\ done[Head(todo[c]).op] = "done"
  BY DEF Awaited
<1>2. Head(todo[c]) = todo[c][1]
  BY <1>1, IsAt
<1> QED
  BY <1>1, <1>2, DropKeeps

\* Close's wait for one slot goes on with a label of its own.
LEMMA CloseGoesOn ==
  ASSUME IInv, NEW c \in Context, NEW at \in {"check", "use"}, At(c, at), NEW l \in Label,
         Proceed(c, this, <<l>>),
         \/ l.at = "use" /\ l.x = todo[c][1].x
         \/ l.at = "await" /\ l.op = this.slot[todo[c][1].x]
         \/ l.at = "null" /\ this.slot[todo[c][1].x] = 0
  PROVE  IInv'
<1>1. todo[c][1].at = at /\ OnCpu(c) /\ todo[c] # <<>> /\ 1 \in Places(c)
  BY IsAt
<1>2. PICK ls : ls = <<l>>
  OBVIOUS
<1>3. ls \in Seq(Label) /\ Len(ls) = 1 /\ ls[1] = l
  BY <1>2
<1>4. todo' = [todo EXCEPT ![c] = ls \o Tail(@)] /\ UNCHANGED <<this, done, calls, tick>>
  BY <1>2 DEF Proceed
<1>5. Step(c, ls, 1)
  BY <1>3, <1>4, Replaces
<1>6. GoesWell(c, ls)
  <2>1. 1 \in 1 .. Len(ls)
    BY <1>3
  <2>2. ASSUME NEW x \in Slot, this.slot[x] # 0,
               \/ todo[c][1].at \in {"check", "use"} /\ todo[c][1].x = x
               \/ todo[c][1].at = "await" /\ todo[c][1].op = this.slot[x]
        PROVE  \/ ls[1].at = "await" /\ ls[1].op = this.slot[x]
               \/ ls[1].at = "use" /\ ls[1].x = x
    BY <1>1, <1>3, <2>2
  <2> QED
    BY <1>1, <2>1, <2>2 DEF GoesWell
<1>7. ~(c = "Timer" /\ InCall)
  BY <1>1 DEF IInv, TickOK
<1>8. todo[c][1].x \in Slot
  BY <1>1 DEF IInv, LabelsOK, LabelOK
<1>9. 1 .. Len(ls) = {1}
  BY <1>3
<1>10. \A i \in 1 .. Len(ls) :
         /\ ls[i].at \in {"use", "await", "null"}
         /\ ls[i].at = "use" => ls[i].x \in Slot
  BY <1>3, <1>8, <1>9
<1> QED
  BY <1>4, <1>5, <1>6, <1>7, <1>10, PlainStep

\* Close looks at one slot.
LEMMA CloseCheckKeeps ==
  ASSUME IInv, NEW c \in Context, CloseCheck(c) PROVE IInv'
<1>1. At(c, "check")
  BY DEF CloseCheck
<1>2. Head(todo[c]) = todo[c][1] /\ todo[c][1].at = "check" /\ 1 \in Places(c)
  BY <1>1, IsAt
<1>3. PICK x : x = todo[c][1].x
  OBVIOUS
<1>4. x \in Slot
  BY <1>2, <1>3 DEF IInv, LabelsOK, LabelOK
<1>5. CASE this.slot[x] = 0
  <2>1. Proceed(c, this, <<>>)
    BY <1>2, <1>3, <1>5 DEF CloseCheck
  <2> QED
    BY <1>1, <1>3, <1>5, <2>1, DropKeeps
<1>6. CASE this.slot[x] # 0
  <2>1. PICK l : l = L("use", x, 0)
    OBVIOUS
  <2>2. l \in Label /\ l.at = "use" /\ l.x = x
    BY <1>4, <2>1 DEF Label, Stretch, L
  <2>3. Proceed(c, this, <<l>>)
    BY <1>2, <1>3, <1>6, <2>1 DEF CloseCheck
  <2> QED
    BY <1>1, <1>3, <2>2, <2>3, CloseGoesOn
<1> QED
  BY <1>5, <1>6

\* Close reads the slot again: it waits for the operation, goes on, or is at null.
LEMMA CloseAwaitKeeps ==
  ASSUME IInv, NEW c \in Context, CloseAwait(c) PROVE IInv'
<1>1. At(c, "use")
  BY DEF CloseAwait
<1>2. Head(todo[c]) = todo[c][1] /\ todo[c][1].at = "use" /\ 1 \in Places(c)
  BY <1>1, IsAt
<1>3. PICK o : o = this.slot[todo[c][1].x]
  OBVIOUS
<1>4. o \in Nat
  <2>1. todo[c][1].x \in Slot
    BY <1>2 DEF IInv, LabelsOK, LabelOK
  <2> QED
    BY <1>3, <2>1, Types DEF Op
<1>5. \/ o # 0 /\ Proceed(c, this, <<L("await", "none", o)>>)
      \/ o = 0 /\ Proceed(c, this, <<>>)
      \/ o = 0 /\ Proceed(c, this, <<Do("null")>>)
  BY <1>2, <1>3 DEF CloseAwait
<1>6. CASE o = 0 /\ Proceed(c, this, <<>>)
  BY <1>1, <1>3, <1>6, DropKeeps
<1>7. CASE o # 0 /\ Proceed(c, this, <<L("await", "none", o)>>)
  <2>1. PICK l : l = L("await", "none", o)
    OBVIOUS
  <2>2. l \in Label /\ l.at = "await" /\ l.op = o
    BY <1>4, <2>1 DEF Label, Stretch, L
  <2>3. Proceed(c, this, <<l>>)
    BY <1>7, <2>1
  <2> QED
    BY <1>1, <1>3, <2>2, <2>3, CloseGoesOn
<1>8. CASE o = 0 /\ Proceed(c, this, <<Do("null")>>)
  <2>1. PICK l : l = Do("null")
    OBVIOUS
  <2>2. l \in Label /\ l.at = "null"
    BY <2>1 DEF Label, Stretch, L, Do
  <2>3. Proceed(c, this, <<l>>)
    BY <1>8, <2>1
  <2> QED
    BY <1>1, <1>3, <1>8, <2>2, <2>3, CloseGoesOn
<1> QED
  BY <1>5, <1>6, <1>7, <1>8

\* A pass reaches the stream.
LEMMA PollKeeps ==
  ASSUME IInv, NEW c \in Context, Poll(c) PROVE IInv'
<1>0. PICK ps : ps = <<L("pollToken", "read", 0), L("pollToken", "write", 0),
                      L("pollToken", "flush", 0)>>
  OBVIOUS
<1>1. PICK ends : ends = <<Do("passEnd")>>
  OBVIOUS
<1>2. PICK ls : ls = ps \o ends
  OBVIOUS
<1>3. /\ ls \in Seq(Label) /\ Len(ls) = 4
      /\ ls[1].at = "pollToken" /\ ls[1].x \in Slot /\ ls[2].at = "pollToken" /\ ls[2].x \in Slot
      /\ ls[3].at = "pollToken" /\ ls[3].x \in Slot /\ ls[4].at = "passEnd"
      /\ todo' = [todo EXCEPT ![c] = ls \o @] /\ UNCHANGED <<this, done, calls, tick>> /\ Yields(c)
  <2>1. /\ ps \in Seq(Label) /\ Len(ps) = 3
        /\ ps[1].at = "pollToken" /\ ps[1].x \in Slot /\ ps[2].at = "pollToken" /\ ps[2].x \in Slot
        /\ ps[3].at = "pollToken" /\ ps[3].x \in Slot
    BY <1>0 DEF Label, Stretch, L, Slot
  <2>2. ends \in Seq(Label) /\ Len(ends) = 1 /\ ends[1].at = "passEnd"
    BY <1>1 DEF Label, Stretch, L, Do
  <2>3. /\ ls \in Seq(Label) /\ Len(ls) = 4
        /\ ls[1] = ps[1] /\ ls[2] = ps[2] /\ ls[3] = ps[3] /\ ls[4] = ends[1]
    <3>1. /\ ps \o ends \in Seq(Label) /\ Len(ps \o ends) = Len(ps) + Len(ends)
          /\ \A i \in 1 .. Len(ps) + Len(ends) :
               (ps \o ends)[i] = IF i <= Len(ps) THEN ps[i] ELSE ends[i - Len(ps)]
      BY <2>1, <2>2, ConcatProperties
    <3>2. \A i \in 1 .. 4 : ls[i] = IF i <= 3 THEN ps[i] ELSE ends[i - 3]
      BY <1>2, <2>1, <2>2, <3>1
    <3> QED
      BY <1>2, <2>1, <2>2, <3>1, <3>2
  <2>4. todo' = [todo EXCEPT ![c] = ps \o ends \o @]
        /\ UNCHANGED <<this, done, calls, tick>> /\ Yields(c)
    BY <1>0, <1>1 DEF Poll, Pass
  <2> QED
    BY <1>2, <2>1, <2>2, <2>3, <2>4
<1>4. Step(c, ls, 0)
  BY <1>3, Pushes
<1>5. \A i \in 1 .. Len(ls) :
        ls[i].at \in {"pollToken", "passEnd"} /\ (ls[i].at = "pollToken" => ls[i].x \in Slot)
  <2>1. 1 .. Len(ls) = {1, 2, 3, 4}
    BY <1>3
  <2> QED
    BY <1>3, <2>1
<1> QED
  BY <1>3, <1>4, <1>5, PlainStep

\* A Close begins: it is to look at every slot, so it waits for what is there.
LEMMA CallCloseKeeps ==
  ASSUME IInv, NEW c \in Context, CallClose(c) PROVE IInv'
<1>1. CanCall(c) /\ calls' = calls + 1 /\ tick' = tick
      /\ this' = [this EXCEPT !.closing = @ \cup {New}]
  BY DEF CallClose, Start
<1>2. PICK n : n = New
  OBVIOUS
<1>3. /\ Yields(c) /\ n \in Op /\ n \in Nat /\ n = calls' /\ n > calls
      /\ calls' \in 0 .. MaxCalls /\ calls <= calls' /\ calls \in Nat
      /\ \A y \in Slot : this.slot[y] # n
      /\ \A d \in Context \ {c} : todo[d] = <<>> \/ todo[d][1].at \notin {"set", "go"}
  BY <1>1, <1>2, NewOp
<1>4. PICK ls : ls = <<L("check", "read", 0), L("check", "write", 0), L("check", "flush", 0),
                      L("release", "none", n)>>
  OBVIOUS
<1>5. /\ ls \in Seq(Label) /\ Len(ls) = 4
      /\ ls[1].at = "check" /\ ls[1].x = "read" /\ ls[2].at = "check" /\ ls[2].x = "write"
      /\ ls[3].at = "check" /\ ls[3].x = "flush" /\ ls[4].at = "release" /\ ls[4].op = n
  BY <1>3, <1>4 DEF Label, Stretch, L, Slot
<1>6. todo' = [todo EXCEPT ![c] = ls \o @] /\ done' = [done EXCEPT ![n] = "pending"]
  BY <1>2, <1>4 DEF CallClose, Start, Pend
<1>7. Step(c, ls, 0)
  BY <1>3, <1>5, <1>6, Pushes
<1>8. Unmoved
  BY <1>1, <1>2, <1>3, Types DEF Unmoved
<1>9. /\ todo'[c][1] = ls[1] /\ todo'[c][2] = ls[2] /\ todo'[c][3] = ls[3] /\ todo'[c][4] = ls[4]
      /\ 4 \in Places(c)' /\ 1 .. Len(ls) = {1, 2, 3, 4}
  <2>1. Len(todo[c]) \in Nat
    BY Types, LenProperties
  <2> QED
    BY <1>5, <1>7, <2>1 DEF Step, Shift, Places
<1>10. NoneEnds
  <2>1. HasPlace(n)'
    BY <1>5, <1>9 DEF HasPlace
  <2>2. done' \in [Op -> {"none", "pending", "done"}] /\ done'[n] = "pending"
        /\ \A o \in Op \ {n} : done'[o] = done[o]
    BY <1>3, <1>6, Types
  <2> QED
    BY <1>3, <2>1, <2>2 DEF NoneEnds
<1>11. ComeWell(c, ls)
  <2>1. LabelOK(c, 1)' /\ LabelOK(c, 2)' /\ LabelOK(c, 3)'
    BY <1>5, <1>9 DEF LabelOK, Slot
  <2>2. LabelOK(c, 4)'
    <3>1. this'.slot = this.slot /\ n \in 1 .. calls'
      BY <1>3, <1>8 DEF Unmoved
    <3> QED
      BY <1>3, <1>5, <1>9, <3>1 DEF LabelOK
  <2>3. CloseOK(c, 1)' /\ CloseOK(c, 2)' /\ CloseOK(c, 3)'
    BY <1>5, <1>9 DEF CloseOK
  <2>4. CloseOK(c, 4)'
    <3>1. ASSUME NEW x \in Slot PROVE Waits(c, 4, x)'
      <4>1. x = "read" \/ x = "write" \/ x = "flush"
        BY DEF Slot
      <4>2. 1 \in 1 .. 4 - 1 /\ 2 \in 1 .. 4 - 1 /\ 3 \in 1 .. 4 - 1
        OBVIOUS
      <4> QED
        BY <1>5, <1>9, <4>1, <4>2 DEF Waits
    <3> QED
      BY <3>1 DEF CloseOK
  <2>5. SetOK(c)' /\ GoOK(c)'
    BY <1>5, <1>7, <1>9, HeadQuiet
  <2>6. c = "Timer" => ~InCall
    BY <1>1 DEF CanCall
  <2> QED
    BY <1>3, <1>9, <2>1, <2>2, <2>3, <2>4, <2>5, <2>6 DEF ComeWell
<1> QED
  BY <1>7, <1>8, <1>10, <1>11, QuietStep

-----------------------------------------------------------------------------
(* The steps that change a slot or a token.                                 *)

\* The operation is stored: it is younger than every Close, and is submitted next.
LEMMA SetSlotKeeps ==
  ASSUME IInv, NEW c \in Context, SetSlot(c) PROVE IInv'
<1>1. At(c, "set")
  BY DEF SetSlot
<1>2. PICK l : l = todo[c][1]
  OBVIOUS
<1>3. /\ Head(todo[c]) = l /\ l.at = "set" /\ OnCpu(c) /\ todo[c] # <<>> /\ 1 \in Places(c)
      /\ l \in Label
  BY <1>1, <1>2, IsAt
<1>4. l.x \in Slot /\ Len(todo[c]) > 1 /\ todo[c][2] = L("go", l.x, l.op)
  BY <1>2, <1>3 DEF IInv, LabelsOK, LabelOK
<1>5. /\ this.open /\ this.slot[l.x] = 0
      /\ l.op = calls /\ l.op \in Op /\ done[l.op] = "pending"
      /\ \A x \in Slot : this.slot[x] # l.op
      /\ \A d \in Context : \A i \in Places(d) : todo[d][i].at = "release" => todo[d][i].op < l.op
  BY <1>2, <1>3 DEF IInv, SetOK
<1>6. PICK ls : ls = <<>>
  OBVIOUS
<1>7. ls \in Seq(Label) /\ Len(ls) = 0 /\ \A i \in 1 .. Len(ls) : FALSE
  BY <1>6
<1>8. /\ todo' = [todo EXCEPT ![c] = ls \o Tail(@)] /\ UNCHANGED <<done, calls, tick>>
      /\ this' = [this EXCEPT !.slot[l.x] = l.op]
  BY <1>3, <1>6 DEF SetSlot, Proceed
<1>9. Step(c, ls, 1)
  BY <1>1, <1>7, <1>8, Replaces
<1>10. /\ this'.slot[l.x] = l.op /\ \A x \in Slot \ {l.x} : this'.slot[x] = this.slot[x]
       /\ this'.open = this.open /\ this'.polled = this.polled /\ this'.token = this.token
       /\ this'.closed = this.closed
       /\ this' \in [open : BOOLEAN, async : BOOLEAN, slot : [Slot -> Op \cup {0}],
                     polled : BOOLEAN,
                     token : [Slot -> [queued : BOOLEAN, signaled : BOOLEAN]],
                     closing : SUBSET Op, closed : Op \cup {0}]
  BY <1>4, <1>5, <1>8, Types
<1>11. /\ todo'[c] \in Seq(Label) /\ todo'[c][1] = L("go", l.x, l.op) /\ todo'[c] # <<>>
       /\ \A d \in Context \ {c} : todo'[d] = todo[d]
  <2>1. Len(todo[c]) \in Nat /\ 2 \in 1 + 1 .. Len(todo[c])
    BY <1>4, Types, LenProperties
  <2>2. /\ todo'[c][2 + Len(ls) - 1] = todo[c][2] /\ Len(todo'[c]) = Len(ls) + Len(todo[c]) - 1
        /\ todo'[c] \in Seq(Label) /\ \A d \in Context \ {c} : todo'[d] = todo[d]
    BY <1>9, <2>1 DEF Step, Shift
  <2>3. Len(todo'[c]) > 0
    BY <1>4, <1>7, <2>1, <2>2
  <2> QED
    BY <1>4, <1>7, <2>2, <2>3, EmptySeq
<1>12. NoOlder
  <2> SUFFICES ASSUME NEW d \in Context, NEW i \in Places(d), todo[d][i].at = "release"
               PROVE  l.op > todo[d][i].op
    BY <1>10 DEF NoOlder
  <2>1. todo[d][i].op \in 1 .. calls
    BY DEF IInv, LabelsOK, LabelOK
  <2> QED
    BY <1>5, <2>1, Types
<1>13. \A d \in Context \ {c} : todo[d] = <<>> \/ todo[d][1].at \notin {"set", "go"}
  BY <1>2, <1>3, Alone
<1>14. TypeOK'
  <2>1. todo' \in [Context -> Seq(Label)]
    BY <1>9 DEF Step, Shift
  <2>2. /\ done' \in [Op -> {"none", "pending", "done"}]
        /\ calls' \in 0 .. MaxCalls /\ tick' \in BOOLEAN /\ (this'.polled => this'.open)
    BY <1>8, <1>10, Types
  <2> QED
    BY <1>10, <2>1, <2>2, Together
<1>15. LabelsOK'
  <2> SUFFICES ASSUME NEW d \in Context, NEW i \in Places(d)' PROVE LabelOK(d, i)'
    BY DEF LabelsOK
  <2>1. CASE d = c /\ i = 1
    BY <1>4, <1>11, <2>1 DEF LabelOK, L
  <2>2. CASE ~(d = c /\ i = 1)
    <3>1. PICK j \in Places(d) : todo'[d][i] = todo[d][j] /\ (d = c => j > 2)
      <4>1. \/ d = c /\ i - Len(ls) + 1 \in Places(d)
               /\ todo'[d][i] = todo[d][i - Len(ls) + 1]
            \/ d # c /\ i \in Places(d) /\ todo'[d] = todo[d]
        BY <1>7, <1>9, NewOrOld
      <4>2. i \in Nat /\ i > 0
        BY <1>9, LenProperties DEF Places, Step, Shift
      <4>3. d = c => i - Len(ls) + 1 > 2
        BY <1>7, <2>2, <4>2
      <4> QED
        BY <4>1, <4>3
    <3>2. todo[d][j].at \notin {"set", "go"}
      <4>1. CASE d = c
        BY <3>1, <4>1, Quiet
      <4>2. CASE d # c
        <5>1. todo[d] \in Seq(Label) /\ j \in 1 .. Len(todo[d])
          BY <3>1, Types DEF Places
        <5>2. todo[d] # <<>>
          BY <5>1, EmptySeq
        <5> QED
          BY <1>13, <3>1, <4>2, <5>2, Quiet
      <4> QED
        BY <4>1, <4>2
    <3>3. LabelOK(d, j)
      BY DEF IInv, LabelsOK
    <3>4. ASSUME todo[d][j].at = "release", NEW x \in Slot PROVE this'.slot[x] # todo[d][j].op
      BY <1>5, <1>10, <3>3, <3>4 DEF LabelOK
    <3> QED
      BY <1>8, <3>1, <3>2, <3>3, <3>4 DEF LabelOK
  <2> QED
    BY <2>1, <2>2
<1>16. \A d \in Context : SetOK(d)' /\ GoOK(d)'
  <2>1. SetOK(c)'
    BY <1>11 DEF SetOK, L
  <2>2. GoOK(c)'
    <3>1. ~this.token[l.x].queued /\ ~this.token[l.x].signaled
      BY <1>4, <1>5 DEF IInv, TokenOK
    <3>2. l.op # 0
      BY <1>5 DEF Op
    <3> QED
      BY <1>5, <1>10, <1>11, <3>1, <3>2 DEF GoOK, L
  <2> QED
    BY <1>9, <1>13, <2>1, <2>2, HeadsStay
<1>17. \A x \in Slot : TokenOK(x)' /\ SlotOK(x)'
  <2> SUFFICES ASSUME NEW x \in Slot PROVE TokenOK(x)' /\ SlotOK(x)'
    OBVIOUS
  <2>0. TokenOK(x) /\ SlotOK(x) /\ l.op # 0
    BY <1>5 DEF IInv, Op
  <2>1. TokenOK(x)'
    BY <1>5, <1>10, <2>0 DEF TokenOK
  <2>2. CASE x = l.x
    <3>1. Going(x)'
      BY <1>10, <1>11, <2>2 DEF Going
    <3>2. this'.slot[x] <= calls'
      BY <1>5, <1>8, <1>10, <2>2, Types
    <3>3. \A y \in Slot : this'.slot[y] = this'.slot[x] => x = y
      BY <1>5, <1>10, <2>2
    <3> QED
      BY <1>5, <1>8, <1>10, <2>1, <2>2, <3>1, <3>2, <3>3 DEF SlotOK
  <2>3. CASE x # l.x
    <3>1. todo[c][1] # L("go", x, this.slot[x])
      BY <1>2, <1>3 DEF L
    <3>2. Going(x) => Going(x)'
      BY <1>9, <1>10, <2>3, <3>1, GoingStays
    <3>3. this'.slot[x] # 0 => \A y \in Slot : this'.slot[y] = this'.slot[x] => x = y
      BY <1>5, <1>10, <2>0, <2>3 DEF SlotOK
    <3> QED
      BY <1>8, <1>10, <2>0, <2>1, <2>3, <3>2, <3>3 DEF SlotOK
  <2> QED
    BY <2>2, <2>3
<1>18. \A o \in Op : done'[o] = "pending" => HasPlace(o)'
  <2>1. HasPlace(l.op)'
    BY <1>4, <1>10 DEF HasPlace
  <2>2. ASSUME NEW o \in Op, o # l.op, NEW x \in Slot, this.slot[x] = o PROVE this'.slot[x] = o
    <3>1. o # 0
      BY <2>2 DEF Op
    <3> QED
      BY <1>5, <1>10, <2>2, <3>1
  <2> QED
    BY <1>2, <1>8, <1>9, <2>1, <2>2, PlacesStay
<1>19. \A d \in Context : \A i \in Places(d)' : CloseOK(d, i)'
  BY <1>2, <1>3, <1>7, <1>9, <1>12, ClosesStay
<1>20. TickOK'
  BY <1>7, <1>8, <1>9, TickStays
<1>21. CloseWaitsForAll'
  BY <1>5, <1>10 DEF CloseWaitsForAll
<1> QED
  BY <1>14, <1>15, <1>16, <1>17, <1>18, <1>19, <1>20, <1>21 DEF IInv

\* What happens in a step that takes an operation out of its slot.
Completed(x) ==
  /\ this'.slot[x] = 0 /\ \A y \in Slot \ {x} : this'.slot[y] = this.slot[y]
  /\ ~this'.token[x].queued /\ ~this'.token[x].signaled
  /\ \A y \in Slot \ {x} : this'.token[y] = this.token[y]
  /\ this'.open /\ this'.closed = this.closed
  /\ this'.polled <=> \E y \in Slot : this'.slot[y] # 0
  /\ this' \in [open : BOOLEAN, async : BOOLEAN, slot : [Slot -> Op \cup {0}],
                polled : BOOLEAN,
                token : [Slot -> [queued : BOOLEAN, signaled : BOOLEAN]],
                closing : SUBSET Op, closed : Op \cup {0}]

\* The poller is kept while there is an operation in progress.
LEMMA PendingMeans ==
  ASSUME NEW s PROVE Pending(s) # {} <=> \E y \in Slot : s.slot[y] # 0
BY DEF Pending

\* Complete takes the operation out, and then its continuations run.
LEMMA CompleteMeans ==
  ASSUME IInv, NEW c \in Context, NEW x \in Slot, NEW s, this.open, this.slot[x] # 0,
         s = [this EXCEPT !.token[x].signaled = FALSE], ~this.token[x].queued,
         Complete(c, s, x, <<>>), todo[c] \in Seq(Label)
  PROVE  /\ Completed(x)
         /\ todo' = [todo EXCEPT ![c] = <<Do("user")>> \o Tail(@)]
         /\ done' = [o \in Op |-> IF o = this.slot[x] THEN "done" ELSE done[o]]
         /\ UNCHANGED <<calls, tick>>
<1>1. /\ s.slot = this.slot /\ s.open = this.open /\ s.closed = this.closed
      /\ s.token = [this.token EXCEPT ![x].signaled = FALSE]
      /\ s \in [open : BOOLEAN, async : BOOLEAN, slot : [Slot -> Op \cup {0}],
                polled : BOOLEAN,
                token : [Slot -> [queued : BOOLEAN, signaled : BOOLEAN]],
                closing : SUBSET Op, closed : Op \cup {0}]
  <2>1. this.token \in [Slot -> [queued : BOOLEAN, signaled : BOOLEAN]]
    BY Types
  <2>2. PICK t : t = [this.token EXCEPT ![x].signaled = FALSE]
    OBVIOUS
  <2>3. t \in [Slot -> [queued : BOOLEAN, signaled : BOOLEAN]]
    BY <2>1, <2>2
  <2>4. s = [this EXCEPT !.token = t]
    BY <2>1, <2>2, Types
  <2> QED
    BY <2>2, <2>3, <2>4, Types
<1>2. PICK r : r = [s EXCEPT !.slot[x] = 0]
  OBVIOUS
<1>3. /\ r.slot = [this.slot EXCEPT ![x] = 0] /\ r.open = this.open /\ r.closed = this.closed
      /\ r.token = s.token
      /\ r \in [open : BOOLEAN, async : BOOLEAN, slot : [Slot -> Op \cup {0}],
                polled : BOOLEAN,
                token : [Slot -> [queued : BOOLEAN, signaled : BOOLEAN]],
                closing : SUBSET Op, closed : Op \cup {0}]
  BY <1>1, <1>2
<1>4. {s.slot[x]} \ {0} = {this.slot[x]} /\ {s.slot[x]} \ {0} # {}
  BY <1>1
<1>5. Settle(c, UpdatePollingRegistration(r), {s.slot[x]} \ {0}, <<>>)
  BY <1>2 DEF Complete
<1>6. this' = [r EXCEPT !.polled = Pending(r) # {}]
  BY <1>5 DEF Settle, UpdatePollingRegistration
<1>7. this'.polled <=> Pending(r) # {}
  BY <1>3, <1>6
<1>8. /\ this'.slot = r.slot /\ this'.token = r.token /\ this'.open = r.open
      /\ this'.closed = r.closed
      /\ this' \in [open : BOOLEAN, async : BOOLEAN, slot : [Slot -> Op \cup {0}],
                    polled : BOOLEAN,
                    token : [Slot -> [queued : BOOLEAN, signaled : BOOLEAN]],
                    closing : SUBSET Op, closed : Op \cup {0}]
  BY <1>3, <1>6
<1>9. this'.token[x].queued = this.token[x].queued /\ ~this'.token[x].signaled
      /\ \A y \in Slot \ {x} : this'.token[y] = this.token[y]
  BY <1>1, <1>3, <1>8, Types
<1>10. this'.slot[x] = 0 /\ \A y \in Slot \ {x} : this'.slot[y] = this.slot[y]
  BY <1>3, <1>8, Types
<1>11. this'.polled <=> \E y \in Slot : this'.slot[y] # 0
  BY <1>7, <1>8, PendingMeans
<1>12. Completed(x)
  BY <1>3, <1>8, <1>9, <1>10, <1>11 DEF Completed
<1>13. done' = [o \in Op |-> IF o = this.slot[x] THEN "done" ELSE done[o]]
  BY <1>4, <1>5 DEF Settle, Finished
<1>14. todo' = [todo EXCEPT ![c] = <<Do("user")>> \o Tail(@)]
  <2>1. todo' = [todo EXCEPT ![c] = <<Do("user")>> \o <<>> \o Tail(@)]
    BY <1>4, <1>5 DEF Settle, Continuations
  <2>2. <<Do("user")>> \o <<>> = <<Do("user")>>
    BY ConcatEmptySeq DEF Do, L
  <2> QED
    BY <2>1, <2>2
<1>15. UNCHANGED <<calls, tick>>
  BY <1>5 DEF Settle
<1> QED
  BY <1>12, <1>13, <1>14, <1>15

\* An operation is over: refused by the firmware, or done by it.
LEMMA CompletedKeeps ==
  ASSUME IInv, NEW c \in Context, NEW x \in Slot, NEW at \in {"go", "pollToken"}, At(c, at),
         at = "go" => todo[c][1].x = x,
         at = "pollToken" => this.token[x].signaled,
         this.slot[x] # 0, this.open, Completed(x),
         todo' = [todo EXCEPT ![c] = <<Do("user")>> \o Tail(@)],
         done' = [o \in Op |-> IF o = this.slot[x] THEN "done" ELSE done[o]],
         UNCHANGED <<calls, tick>>
  PROVE  IInv'
<1>1. todo[c][1].at = at /\ OnCpu(c) /\ todo[c] # <<>>
  BY IsAt
<1>2. PICK ls : ls = <<Do("user")>>
  OBVIOUS
<1>3. ls \in Seq(Label) /\ Len(ls) = 1 /\ \A i \in 1 .. Len(ls) : ls[i].at = "user"
  <2>1. ls \in Seq(Label) /\ Len(ls) = 1 /\ ls[1].at = "user"
    BY <1>2 DEF Label, Stretch, Do, L
  <2>2. 1 .. Len(ls) = {1}
    BY <2>1
  <2> QED
    BY <2>1, <2>2
<1>4. Step(c, ls, 1)
  BY <1>2, <1>3, Replaces
<1>5. Fewer
  BY DEF Fewer, Completed
<1>6. TypeOK'
  <2>1. todo' \in [Context -> Seq(Label)]
    BY <1>4 DEF Step, Shift
  <2>2. /\ done' \in [Op -> {"none", "pending", "done"}]
        /\ calls' \in 0 .. MaxCalls /\ tick' \in BOOLEAN /\ (this'.polled => this'.open)
    BY Types DEF Completed
  <2> QED
    BY <2>1, <2>2, Together DEF Completed
<1>7. LabelsOK'
  <2>1. \A i \in 1 .. Len(ls) : LabelOK(c, i)'
    BY <1>3, <1>4 DEF LabelOK, Step, Shift
  <2>2. calls' \in Nat /\ calls <= calls'
    BY Types
  <2> QED
    BY <1>1, <1>4, <1>5, <2>1, <2>2, LabelsStay
<1>8. SlotOK(x) /\ this.slot[x] \in Op /\ \A y \in Slot \ {x} : this.slot[y] # this.slot[x]
  BY Types DEF IInv, SlotOK
<1>9. \A d \in Context : SetOK(d)' /\ GoOK(d)'
  <2>1. SetOK(c)' /\ GoOK(c)'
    BY <1>1, <1>3, <1>4, HeadQuiet
  <2>2. CASE at = "go"
    <3>1. \A d \in Context \ {c} : todo[d] = <<>> \/ todo[d][1].at \notin {"set", "go"}
      BY <1>1, <2>2, Alone
    <3> QED
      BY <1>4, <2>1, <3>1, HeadsStay
  <2>3. CASE at = "pollToken"
    <3>1. ASSUME NEW d \in Context \ {c}, todo[d] # <<>>, todo[d][1].at \in {"set", "go"},
                 NEW y \in Slot, todo[d][1].x = y
          PROVE  /\ this'.slot[y] = this.slot[y] /\ this'.token[y] = this.token[y]
                 /\ done'[todo[d][1].op] = done[todo[d][1].op]
      <4>1. SetOK(d) /\ GoOK(d)
        BY DEF IInv
      <4>2. CASE todo[d][1].at = "set"
        <5>1. /\ this.slot[y] = 0 /\ todo[d][1].op \in Op /\ this.slot[x] # todo[d][1].op
          BY <3>1, <4>1, <4>2 DEF SetOK
        <5> QED
          BY <5>1 DEF Completed
      <4>3. CASE todo[d][1].at = "go"
        <5>1. this.slot[y] = todo[d][1].op /\ todo[d][1].op # 0 /\ ~this.token[y].signaled
          BY <3>1, <4>1, <4>3 DEF GoOK
        <5>2. y # x /\ todo[d][1].op \in Op
          BY <2>3, <5>1, Types
        <5>3. todo[d][1].op # this.slot[x]
          BY <1>8, <5>1, <5>2
        <5> QED
          BY <5>2, <5>3 DEF Completed
      <4> QED
        BY <3>1, <4>2, <4>3
    <3>2. this'.open = this.open
      BY DEF Completed
    <3> QED
      BY <1>3, <1>4, <1>5, <2>1, <3>1, <3>2, HeadsStay
  <2> QED
    BY <2>2, <2>3
<1>10. \A y \in Slot : TokenOK(y)' /\ SlotOK(y)'
  <2> SUFFICES ASSUME NEW y \in Slot PROVE TokenOK(y)' /\ SlotOK(y)'
    OBVIOUS
  <2>1. CASE y = x
    BY <2>1 DEF Completed, TokenOK, SlotOK
  <2>2. CASE y # x
    <3>0. TokenOK(y) /\ SlotOK(y)
      BY DEF IInv
    <3>1. todo[c][1] # L("go", y, this.slot[y])
      BY <1>1, <2>2 DEF L
    <3>2. this'.slot[y] = this.slot[y] /\ this'.token[y] = this.token[y] /\ this'.open
      BY <2>2 DEF Completed
    <3>3. Going(y) => Going(y)'
      BY <1>4, <3>1, <3>2, GoingStays
    <3>4. TokenOK(y)'
      BY <3>0, <3>2 DEF TokenOK
    <3>5. this'.slot[y] # 0 => this'.polled
      BY DEF Completed
    <3>6. this'.slot[y] # 0 => done'[this'.slot[y]] = "pending" /\ this'.slot[y] <= calls'
      <4>1. this.slot[y] # this.slot[x] /\ this.slot[y] \in Op \cup {0}
        BY <1>8, <2>2, Types
      <4> QED
        BY <3>0, <3>2, <4>1 DEF SlotOK
    <3>7. this'.slot[y] # 0 => \A z \in Slot : this'.slot[z] = this'.slot[y] => y = z
      BY <3>0, <3>2 DEF SlotOK, Completed
    <3> QED
      BY <3>0, <3>2, <3>3, <3>4, <3>5, <3>6, <3>7, ~this.open \/ this.open DEF SlotOK
  <2> QED
    BY <2>1, <2>2
<1>11. \A o \in Op : done'[o] = "pending" => HasPlace(o)'
  <2>1. ASSUME NEW o \in Op, done'[o] = "pending"
        PROVE  done[o] = "pending" /\ \A y \in Slot : this.slot[y] = o => this'.slot[y] = o
    BY <2>1 DEF Completed
  <2> QED
    BY <1>1, <1>4, <2>1, PlacesStay
<1>12. \A d \in Context : \A i \in Places(d)' : CloseOK(d, i)'
  <2>1. \A i \in 1 .. Len(ls) : CloseOK(c, i)'
    BY <1>3, <1>4 DEF CloseOK, Step, Shift
  <2>2. NoOlder
    BY <1>5 DEF Fewer, NoOlder
  <2>3. todo[c][1].at \notin {"check", "use", "await"}
    BY <1>1
  <2> QED
    BY <1>4, <2>1, <2>2, <2>3, ClosesStay
<1>13. TickOK'
  BY <1>3, <1>4, TickStays
<1>14. CloseWaitsForAll'
  BY DEF CloseWaitsForAll, Completed
<1> QED
  BY <1>6, <1>7, <1>9, <1>10, <1>11, <1>12, <1>13, <1>14 DEF IInv

\* A token that is not signaled is as if its event had been reset.
LEMMA NothingToReset ==
  ASSUME IInv, NEW x \in Slot, ~this.token[x].signaled
  PROVE  this = [this EXCEPT !.token[x].signaled = FALSE]
<1>1. this.token \in [Slot -> [queued : BOOLEAN, signaled : BOOLEAN]]
  BY Types
<1>2. this.token[x] = [this.token[x] EXCEPT !.signaled = FALSE]
  BY <1>1
<1>3. this.token = [this.token EXCEPT ![x] = [this.token[x] EXCEPT !.signaled = FALSE]]
  BY <1>1, <1>2
<1>4. this = [this EXCEPT !.token = this.token]
  BY Types
<1> QED
  BY <1>3, <1>4

\* The firmware gets the operation: it has a token of it, and the poller is registered.
LEMMA GoKeeps ==
  ASSUME IInv, NEW c \in Context, Go(c) PROVE IInv'
<1>1. At(c, "go")
  BY DEF Go
<1>2. PICK x : x = todo[c][1].x
  OBVIOUS
<1>3. /\ Head(todo[c]) = todo[c][1] /\ todo[c][1].at = "go" /\ OnCpu(c) /\ todo[c] # <<>>
      /\ 1 \in Places(c) /\ todo[c] \in Seq(Label)
  BY <1>1, IsAt, Types
<1>4. /\ x \in Slot /\ this.open /\ this.slot[x] # 0
      /\ ~this.token[x].queued /\ ~this.token[x].signaled
  BY <1>2, <1>3 DEF IInv, LabelsOK, LabelOK, GoOK
<1>5. CASE Complete(c, this, x, <<>>)
  <2>1. this = [this EXCEPT !.token[x].signaled = FALSE]
    BY <1>4, NothingToReset
  <2>2. /\ Completed(x)
        /\ todo' = [todo EXCEPT ![c] = <<Do("user")>> \o Tail(@)]
        /\ done' = [o \in Op |-> IF o = this.slot[x] THEN "done" ELSE done[o]]
        /\ UNCHANGED <<calls, tick>>
    BY <1>3, <1>4, <1>5, <2>1, CompleteMeans
  <2> QED
    BY <1>1, <1>2, <1>4, <2>2, CompletedKeeps
<1>6. CASE Proceed(c, UpdatePollingRegistration([this EXCEPT !.token[x].queued = TRUE]), <<>>)
  <2>1. PICK s : s = [this EXCEPT !.token[x].queued = TRUE]
    OBVIOUS
  <2>2. /\ s.slot = this.slot /\ s.open = this.open /\ s.closed = this.closed
        /\ s.token[x].queued /\ ~s.token[x].signaled
        /\ \A y \in Slot \ {x} : s.token[y] = this.token[y]
        /\ s \in [open : BOOLEAN, async : BOOLEAN, slot : [Slot -> Op \cup {0}],
                  polled : BOOLEAN,
                  token : [Slot -> [queued : BOOLEAN, signaled : BOOLEAN]],
                  closing : SUBSET Op, closed : Op \cup {0}]
    <3>1. this.token \in [Slot -> [queued : BOOLEAN, signaled : BOOLEAN]]
      BY Types
    <3>2. PICK t : t = [this.token EXCEPT ![x].queued = TRUE]
      OBVIOUS
    <3>3. /\ t \in [Slot -> [queued : BOOLEAN, signaled : BOOLEAN]]
          /\ t[x].queued /\ ~t[x].signaled /\ \A y \in Slot \ {x} : t[y] = this.token[y]
      BY <1>4, <3>1, <3>2
    <3>4. s = [this EXCEPT !.token = t]
      BY <2>1, <3>1, <3>2, Types
    <3> QED
      BY <3>3, <3>4, Types
  <2>3. this' = [s EXCEPT !.polled = Pending(s) # {}]
    BY <1>6, <2>1 DEF Proceed, UpdatePollingRegistration
  <2>4. Pending(s) # {}
    BY <1>4, <2>2, PendingMeans
  <2>5. /\ this'.slot = this.slot /\ this'.open = this.open /\ this'.closed = this.closed
        /\ this'.token[x].queued /\ ~this'.token[x].signaled /\ this'.polled
        /\ \A y \in Slot \ {x} : this'.token[y] = this.token[y]
        /\ this' \in [open : BOOLEAN, async : BOOLEAN, slot : [Slot -> Op \cup {0}],
                      polled : BOOLEAN,
                      token : [Slot -> [queued : BOOLEAN, signaled : BOOLEAN]],
                      closing : SUBSET Op, closed : Op \cup {0}]
    BY <2>2, <2>3, <2>4
  <2>6. PICK ls : ls = <<>>
    OBVIOUS
  <2>7. ls \in Seq(Label) /\ Len(ls) = 0 /\ \A i \in 1 .. Len(ls) : FALSE
    BY <2>6
  <2>8. todo' = [todo EXCEPT ![c] = ls \o Tail(@)] /\ UNCHANGED <<done, calls, tick>>
    BY <1>6, <2>6 DEF Proceed
  <2>9. Step(c, ls, 1) /\ Fewer /\ NoOlder
    BY <1>1, <2>5, <2>7, <2>8, Replaces DEF Fewer, NoOlder
  <2>10. TypeOK'
    <3>1. todo' \in [Context -> Seq(Label)]
      BY <2>9 DEF Step, Shift
    <3>2. /\ done' \in [Op -> {"none", "pending", "done"}]
          /\ calls' \in 0 .. MaxCalls /\ tick' \in BOOLEAN /\ (this'.polled => this'.open)
      BY <1>4, <2>5, <2>8, Types
    <3> QED
      BY <2>5, <3>1, <3>2, Together
  <2>11. LabelsOK'
    BY <1>3, <2>7, <2>8, <2>9, Types, LabelsStay
  <2>12. \A d \in Context : SetOK(d)' /\ GoOK(d)'
    <3>1. SetOK(c)' /\ GoOK(c)'
      BY <1>3, <2>7, <2>9, HeadQuiet
    <3>2. \A d \in Context \ {c} : todo[d] = <<>> \/ todo[d][1].at \notin {"set", "go"}
      BY <1>3, Alone
    <3> QED
      BY <2>9, <3>1, <3>2, HeadsStay
  <2>13. \A y \in Slot : TokenOK(y)' /\ SlotOK(y)'
    <3> SUFFICES ASSUME NEW y \in Slot PROVE TokenOK(y)' /\ SlotOK(y)'
      OBVIOUS
    <3>1. TokenOK(y) /\ SlotOK(y)
      BY DEF IInv
    <3>2. TokenOK(y)'
      BY <1>4, <2>5, <3>1 DEF TokenOK
    <3>3. CASE y = x
      BY <2>5, <2>8, <3>1, <3>2, <3>3 DEF SlotOK
    <3>4. CASE y # x
      <4>1. todo[c][1] # L("go", y, this.slot[y])
        BY <1>2, <3>4 DEF L
      <4>2. Going(y) => Going(y)'
        BY <2>5, <2>9, <4>1, GoingStays
      <4> QED
        BY <2>5, <2>8, <3>1, <3>2, <3>4, <4>2 DEF SlotOK
    <3> QED
      BY <3>3, <3>4
  <2>14. \A o \in Op : done'[o] = "pending" => HasPlace(o)'
    BY <1>3, <2>5, <2>8, <2>9, PlacesStay
  <2>15. \A d \in Context : \A i \in Places(d)' : CloseOK(d, i)'
    BY <1>3, <2>7, <2>9, ClosesStay
  <2>16. TickOK'
    BY <2>7, <2>8, <2>9, TickStays
  <2>17. CloseWaitsForAll'
    BY <1>4, <2>5 DEF CloseWaitsForAll
  <2> QED
    BY <2>10, <2>11, <2>12, <2>13, <2>14, <2>15, <2>16, <2>17 DEF IInv
<1> QED
  BY <1>2, <1>3, <1>5, <1>6 DEF Go

\* The poll of a slot: nothing, or its operation is over.
LEMMA PollTokenKeeps ==
  ASSUME IInv, NEW c \in Context, PollToken(c) PROVE IInv'
<1>1. At(c, "pollToken")
  BY DEF PollToken
<1>2. PICK x : x = todo[c][1].x
  OBVIOUS
<1>3. /\ Head(todo[c]) = todo[c][1] /\ todo[c][1].at = "pollToken"
      /\ 1 \in Places(c) /\ todo[c] \in Seq(Label)
  BY <1>1, IsAt, Types
<1>4. x \in Slot
  BY <1>2, <1>3 DEF IInv, LabelsOK, LabelOK
<1>5. CASE this.slot[x] # 0 /\ this.token[x].signaled
  <2>1. this.open /\ ~this.token[x].queued
    BY <1>4, <1>5 DEF IInv, TokenOK
  <2>2. PICK s : s = [this EXCEPT !.token[x].signaled = FALSE]
    OBVIOUS
  <2>3. Complete(c, s, x, <<>>)
    BY <1>2, <1>3, <1>5, <2>2 DEF PollToken
  <2>4. /\ Completed(x)
        /\ todo' = [todo EXCEPT ![c] = <<Do("user")>> \o Tail(@)]
        /\ done' = [o \in Op |-> IF o = this.slot[x] THEN "done" ELSE done[o]]
        /\ UNCHANGED <<calls, tick>>
    BY <1>3, <1>4, <1>5, <2>1, <2>2, <2>3, CompleteMeans
  <2> QED
    BY <1>1, <1>4, <1>5, <2>1, <2>4, CompletedKeeps
<1>6. CASE ~(this.slot[x] # 0 /\ this.token[x].signaled)
  <2>1. Proceed(c, this, <<>>)
    BY <1>2, <1>3, <1>6 DEF PollToken
  <2> QED
    BY <1>1, <2>1, DropKeeps
<1> QED
  BY <1>5, <1>6

\* The file is closed: what is still in a slot was begun after the Close.
LEMMA ReleaseKeeps ==
  ASSUME IInv, NEW c \in Context, Release(c) PROVE IInv'
<1>1. At(c, "release")
  BY DEF Release
<1>2. PICK k : k = todo[c][1].op
  OBVIOUS
<1>3. /\ Head(todo[c]) = todo[c][1] /\ todo[c][1].at = "release" /\ OnCpu(c) /\ todo[c] # <<>>
      /\ 1 \in Places(c) /\ todo[c] \in Seq(Label)
  BY <1>1, IsAt, Types
<1>4. k \in 1 .. calls /\ k \in Op /\ \A x \in Slot : this.slot[x] # k
  <2>1. k \in 1 .. calls /\ \A x \in Slot : this.slot[x] # k
    BY <1>2, <1>3 DEF IInv, LabelsOK, LabelOK
  <2> QED
    BY <2>1, Types DEF Op
<1>5. \A x \in Slot : this.slot[x] # 0 => this.slot[x] > k
  <2>1. CloseOK(c, 1)
    BY <1>3 DEF IInv
  <2>2. \A x \in Slot : ~Waits(c, 1, x)
    BY DEF Waits
  <2> QED
    BY <1>2, <1>3, <2>1, <2>2 DEF CloseOK
<1>6. Settle(c, [this EXCEPT !.open = FALSE, !.async = FALSE, !.polled = FALSE,
                             !.token = [x \in Slot |-> NoToken], !.closing = @ \ {k},
                             !.closed = IF this.open THEN k ELSE @], {k}, <<>>)
  BY <1>2, <1>3 DEF Release
<1>7. this' = [this EXCEPT !.open = FALSE, !.async = FALSE, !.polled = FALSE,
                           !.token = [x \in Slot |-> NoToken], !.closing = @ \ {k},
                           !.closed = IF this.open THEN k ELSE @]
  BY <1>6 DEF Settle
<1>8. /\ this'.slot = this.slot /\ ~this'.open /\ ~this'.polled
      /\ this'.closed = (IF this.open THEN k ELSE this.closed)
      /\ this' \in [open : BOOLEAN, async : BOOLEAN, slot : [Slot -> Op \cup {0}],
                    polled : BOOLEAN,
                    token : [Slot -> [queued : BOOLEAN, signaled : BOOLEAN]],
                    closing : SUBSET Op, closed : Op \cup {0}]
  <2>1. [x \in Slot |-> NoToken] \in [Slot -> [queued : BOOLEAN, signaled : BOOLEAN]]
    BY DEF NoToken
  <2>2. PICK t : t = [x \in Slot |-> NoToken]
    OBVIOUS
  <2>3. this' = [this EXCEPT !.open = FALSE, !.async = FALSE, !.polled = FALSE,
                             !.token = t, !.closing = @ \ {k},
                             !.closed = IF this.open THEN k ELSE @]
    BY <1>7, <2>2
  <2> QED
    BY <1>4, <2>1, <2>2, <2>3, Types
<1>9. \A x \in Slot : ~this'.token[x].queued /\ ~this'.token[x].signaled
  <2>1. this'.token = [x \in Slot |-> NoToken]
    BY <1>7, Types
  <2> QED
    BY <2>1 DEF NoToken
<1>10. PICK ls : ls = <<Do("user")>>
  OBVIOUS
<1>11. ls \in Seq(Label) /\ Len(ls) = 1 /\ \A i \in 1 .. Len(ls) : ls[i].at = "user"
  <2>1. ls \in Seq(Label) /\ Len(ls) = 1 /\ ls[1].at = "user"
    BY <1>10 DEF Label, Stretch, Do, L
  <2>2. 1 .. Len(ls) = {1}
    BY <2>1
  <2> QED
    BY <2>1, <2>2
<1>12. todo' = [todo EXCEPT ![c] = ls \o Tail(@)]
  <2>1. todo' = [todo EXCEPT ![c] = <<Do("user")>> \o <<>> \o Tail(@)]
    BY <1>6 DEF Settle, Continuations
  <2>2. <<Do("user")>> \o <<>> = <<Do("user")>>
    BY ConcatEmptySeq DEF Do, L
  <2> QED
    BY <1>10, <2>1, <2>2
<1>13. done' = [o \in Op |-> IF o = k THEN "done" ELSE done[o]] /\ UNCHANGED <<calls, tick>>
  BY <1>6 DEF Settle, Finished
<1>14. Step(c, ls, 1) /\ Fewer /\ NoOlder
  BY <1>1, <1>8, <1>11, <1>12, Replaces DEF Fewer, NoOlder
<1>15. TypeOK'
  <2>1. todo' \in [Context -> Seq(Label)]
    BY <1>14 DEF Step, Shift
  <2>2. /\ done' \in [Op -> {"none", "pending", "done"}]
        /\ calls' \in 0 .. MaxCalls /\ tick' \in BOOLEAN /\ (this'.polled => this'.open)
    BY <1>8, <1>13, Types
  <2> QED
    BY <1>8, <2>1, <2>2, Together
<1>16. LabelsOK'
  <2>1. \A i \in 1 .. Len(ls) : LabelOK(c, i)'
    BY <1>11, <1>14 DEF LabelOK, Step, Shift
  <2>2. calls' \in Nat /\ calls <= calls'
    BY <1>13, Types
  <2> QED
    BY <1>3, <1>14, <2>1, <2>2, LabelsStay
<1>17. \A d \in Context : SetOK(d)' /\ GoOK(d)'
  <2>1. SetOK(c)' /\ GoOK(c)'
    BY <1>3, <1>11, <1>14, HeadQuiet
  <2>2. \A d \in Context \ {c} : todo[d] = <<>> \/ todo[d][1].at \notin {"set", "go"}
    BY <1>3, Alone
  <2> QED
    BY <1>14, <2>1, <2>2, HeadsStay
<1>18. \A x \in Slot : TokenOK(x)' /\ SlotOK(x)'
  <2> SUFFICES ASSUME NEW x \in Slot PROVE TokenOK(x)' /\ SlotOK(x)'
    OBVIOUS
  <2>1. SlotOK(x) /\ this.slot[x] \in Op \cup {0}
    BY Types DEF IInv
  <2> QED
    BY <1>4, <1>8, <1>9, <1>13, <2>1 DEF TokenOK, SlotOK
<1>19. \A o \in Op : done'[o] = "pending" => HasPlace(o)'
  BY <1>2, <1>8, <1>13, <1>14, PlacesStay
<1>20. \A d \in Context : \A i \in Places(d)' : CloseOK(d, i)'
  <2>1. \A i \in 1 .. Len(ls) : CloseOK(c, i)'
    BY <1>11, <1>14 DEF CloseOK, Step, Shift
  <2> QED
    BY <1>3, <1>14, <2>1, ClosesStay
<1>21. TickOK'
  BY <1>11, <1>13, <1>14, TickStays
<1>22. CloseWaitsForAll'
  BY <1>5, <1>8 DEF IInv, CloseWaitsForAll, Pending
<1> QED
  BY <1>15, <1>16, <1>17, <1>18, <1>19, <1>20, <1>21, <1>22 DEF IInv

\* The firmware is done with a token.
LEMMA SignalKeeps ==
  ASSUME IInv, NEW x \in Slot, Signal(x) PROVE IInv'
<1>1. this.token[x].queued /\ UNCHANGED <<todo, done, calls, tick>>
      /\ this' = [this EXCEPT !.token[x] = [queued |-> FALSE, signaled |-> TRUE]]
  BY DEF Signal, Outside
<1>2. /\ this'.slot = this.slot /\ this'.open = this.open /\ this'.closed = this.closed
      /\ this'.polled = this.polled
      /\ ~this'.token[x].queued /\ this'.token[x].signaled
      /\ \A y \in Slot \ {x} : this'.token[y] = this.token[y]
      /\ this' \in [open : BOOLEAN, async : BOOLEAN, slot : [Slot -> Op \cup {0}],
                    polled : BOOLEAN,
                    token : [Slot -> [queued : BOOLEAN, signaled : BOOLEAN]],
                    closing : SUBSET Op, closed : Op \cup {0}]
  <2>1. PICK t : t = [this.token EXCEPT ![x] = [queued |-> FALSE, signaled |-> TRUE]]
    OBVIOUS
  <2>2. /\ t \in [Slot -> [queued : BOOLEAN, signaled : BOOLEAN]]
        /\ ~t[x].queued /\ t[x].signaled /\ \A y \in Slot \ {x} : t[y] = this.token[y]
    BY <2>1, Types
  <2>3. this' = [this EXCEPT !.token = t]
    BY <1>1, <2>1, Types
  <2> QED
    BY <2>2, <2>3, Types
<1>3. this.open /\ this.slot[x] # 0
  BY <1>1 DEF IInv, TokenOK
<1>4. TypeOK'
  <2>1. /\ todo' \in [Context -> Seq(Label)] /\ done' \in [Op -> {"none", "pending", "done"}]
        /\ calls' \in 0 .. MaxCalls /\ tick' \in BOOLEAN /\ (this'.polled => this'.open)
    BY <1>1, <1>2, Types
  <2> QED
    BY <1>2, <2>1, Together
<1>5. LabelsOK'
  BY <1>1, <1>2 DEF IInv, LabelsOK, LabelOK, Places
<1>6. \A c \in Context : SetOK(c)' /\ GoOK(c)'
  <2> SUFFICES ASSUME NEW c \in Context PROVE SetOK(c)' /\ GoOK(c)'
    OBVIOUS
  <2>1. SetOK(c) /\ GoOK(c)
    BY DEF IInv
  <2>2. SetOK(c)'
    BY <1>1, <1>2, <2>1 DEF SetOK, Places
  <2>3. GoOK(c)'
    <3> SUFFICES ASSUME todo[c] # <<>>, todo[c][1].at = "go" PROVE GoOK(c)'
      BY <1>1 DEF GoOK
    <3>1. todo[c] \in Seq(Label) /\ 1 \in Places(c)
      BY Types, EmptySeq DEF Places
    <3>2. todo[c][1].x \in Slot
      BY <3>1 DEF IInv, LabelsOK, LabelOK
    <3>3. todo[c][1].x # x
      BY <1>1, <2>1 DEF GoOK
    <3> QED
      BY <1>1, <1>2, <2>1, <3>2, <3>3 DEF GoOK
  <2> QED
    BY <2>2, <2>3
<1>7. \A y \in Slot : TokenOK(y)' /\ SlotOK(y)'
  <2> SUFFICES ASSUME NEW y \in Slot PROVE TokenOK(y)' /\ SlotOK(y)'
    OBVIOUS
  <2>1. TokenOK(y) /\ SlotOK(y)
    BY DEF IInv
  <2>2. Going(y) => Going(y)'
    BY <1>1, <1>2 DEF Going
  <2>3. CASE y = x
    <3>1. this.polled \/ Going(y)
      BY <1>3, <2>1, <2>3 DEF SlotOK
    <3> QED
      BY <1>1, <1>2, <1>3, <2>1, <2>2, <2>3, <3>1 DEF TokenOK, SlotOK
  <2>4. CASE y # x
    BY <1>1, <1>2, <2>1, <2>2, <2>4 DEF TokenOK, SlotOK
  <2> QED
    BY <2>3, <2>4
<1>8. \A o \in Op : done'[o] = "pending" => HasPlace(o)'
  <2> SUFFICES ASSUME NEW o \in Op, done[o] = "pending" PROVE HasPlace(o)'
    BY <1>1
  <2>1. HasPlace(o)
    BY DEF IInv
  <2> QED
    BY <1>1, <1>2, <2>1 DEF HasPlace, Places
<1>9. \A c \in Context : \A i \in Places(c)' : CloseOK(c, i)'
  <2> SUFFICES ASSUME NEW c \in Context, NEW i \in Places(c) PROVE CloseOK(c, i)'
    BY <1>1 DEF Places
  <2>1. CloseOK(c, i)
    BY DEF IInv
  <2> QED
    BY <1>1, <1>2, <2>1 DEF CloseOK, Waits
<1>10. TickOK' /\ CloseWaitsForAll'
  BY <1>1, <1>2 DEF IInv, TickOK, InCall, Places, CloseWaitsForAll, Pending
<1> QED
  BY <1>4, <1>5, <1>6, <1>7, <1>8, <1>9, <1>10 DEF IInv

\* A step that changes only which context is on the CPU.
LEMMA CpuKeeps ==
  ASSUME IInv, UNCHANGED <<this, todo, done, calls>>, tick' \in BOOLEAN, todo["Timer"] = <<>>
  PROVE  IInv'
<1>1. TypeOK'
  BY Types, Together
<1>2. TickOK'
  BY DEF TickOK, Places
<1>3. LabelsOK' /\ \A c \in Context : SetOK(c)' /\ GoOK(c)'
  BY DEF IInv, LabelsOK, LabelOK, SetOK, GoOK, Places
<1>4. \A x \in Slot : TokenOK(x)' /\ SlotOK(x)'
  BY DEF IInv, TokenOK, SlotOK, Going
<1>5. /\ \A o \in Op : done'[o] = "pending" => HasPlace(o)'
      /\ \A c \in Context : \A i \in Places(c)' : CloseOK(c, i)'
      /\ CloseWaitsForAll'
  BY DEF IInv, HasPlace, CloseOK, Waits, Places, CloseWaitsForAll, Pending
<1> QED
  BY <1>1, <1>2, <1>3, <1>4, <1>5 DEF IInv

\* A step of nothing.
LEMMA StutterKeeps ==
  ASSUME IInv, UNCHANGED codeVars PROVE IInv'
<1> USE DEF codeVars
<1>1. TypeOK'
  BY DEF IInv, TypeOK, HandlersTypeOK
<1>2. LabelsOK' /\ \A c \in Context : SetOK(c)' /\ GoOK(c)'
  BY DEF IInv, LabelsOK, LabelOK, SetOK, GoOK, Places
<1>3. \A x \in Slot : TokenOK(x)' /\ SlotOK(x)'
  BY DEF IInv, TokenOK, SlotOK, Going
<1>4. /\ \A o \in Op : done'[o] = "pending" => HasPlace(o)'
      /\ \A c \in Context : \A i \in Places(c)' : CloseOK(c, i)'
  BY DEF IInv, HasPlace, CloseOK, Waits, Places
<1>5. TickOK' /\ CloseWaitsForAll'
  BY DEF IInv, TickOK, InCall, Places, CloseWaitsForAll, Pending
<1> QED
  BY <1>1, <1>2, <1>3, <1>4, <1>5 DEF IInv

-----------------------------------------------------------------------------
(* What holds of every behaviour.                                           *)

\* An opened stream has nothing in progress.
LEMMA InitHolds == Init => IInv
<1> SUFFICES ASSUME Init PROVE IInv
  OBVIOUS
<1>1. PICK async \in BOOLEAN :
        this = [open |-> TRUE, async |-> async, slot |-> [x \in Slot |-> 0], polled |-> FALSE,
                token |-> [x \in Slot |-> NoToken], closing |-> {}, closed |-> 0]
  BY DEF Init
<1>2. /\ this.open /\ ~this.polled /\ this.closed = 0 /\ \A x \in Slot : this.slot[x] = 0
      /\ \A x \in Slot : ~this.token[x].queued /\ ~this.token[x].signaled
      /\ this \in [open : BOOLEAN, async : BOOLEAN, slot : [Slot -> Op \cup {0}],
                   polled : BOOLEAN,
                   token : [Slot -> [queued : BOOLEAN, signaled : BOOLEAN]],
                   closing : SUBSET Op, closed : Op \cup {0}]
  BY <1>1 DEF NoToken
<1>3. /\ \A c \in Context : todo[c] = <<>> /\ Places(c) = {}
      /\ todo \in [Context -> Seq(Label)] /\ done \in [Op -> {"none", "pending", "done"}]
      /\ \A o \in Op : done[o] = "none"
      /\ calls \in 0 .. MaxCalls /\ calls = 0 /\ tick = FALSE
  BY CallAssumption DEF Init, HandlersInit, Places
<1>4. TypeOK
  <2>1. HandlersTypeOK(Stretch, Slot)
    BY <1>3 DEF HandlersTypeOK, Label
  <2> QED
    BY <1>2, <2>1 DEF TypeOK, Stretch
<1>5. LabelsOK /\ (\A c \in Context : SetOK(c) /\ GoOK(c)) /\ TickOK
      /\ \A c \in Context : \A i \in Places(c) : CloseOK(c, i)
  BY <1>3 DEF LabelsOK, SetOK, GoOK, TickOK, InCall, Context
<1>6. \A x \in Slot : TokenOK(x) /\ SlotOK(x)
  BY <1>2 DEF TokenOK, SlotOK
<1>7. (\A o \in Op : done[o] = "pending" => HasPlace(o)) /\ CloseWaitsForAll
  BY <1>2, <1>3 DEF CloseWaitsForAll
<1> QED
  BY <1>4, <1>5, <1>6, <1>7 DEF IInv

\* Every step keeps the invariant.
LEMMA NextKeeps == IInv /\ [Next]_codeVars => IInv'
<1> SUFFICES ASSUME IInv, [Next]_codeVars PROVE IInv'
  OBVIOUS
<1>1. ASSUME NEW c \in Context, Statement(c) PROVE IInv'
  BY <1>1, SetSlotKeeps, GoKeeps, CloseCheckKeeps, CloseAwaitKeeps,
     ReleaseKeeps, PollTokenKeeps, PassEndsKeeps,
     AwaitedKeeps, UserReturnsKeeps DEF Statement
<1>2. ASSUME NEW c \in Context, CallClose(c) PROVE IInv'
  BY <1>2, CallCloseKeeps
<1>3. ASSUME NEW c \in Context, Poll(c) PROVE IInv'
  BY <1>3, PollKeeps
<1>4. ASSUME NEW c \in Context, NEW x \in Slot, CallIo(c, x) PROVE IInv'
  BY <1>4, CallIoKeeps
<1>5. ASSUME NEW x \in Slot, Signal(x) PROVE IInv'
  BY <1>5, SignalKeeps
<1>6. CASE TimerTick
  BY <1>6, CpuKeeps DEF TimerTick, IInv, TickOK
<1>7. CASE TickEnds
  BY <1>7, CpuKeeps DEF TickEnds
<1>8. CASE UNCHANGED codeVars
  BY <1>8, StutterKeeps
<1> QED
  BY <1>1, <1>2, <1>3, <1>4, <1>5, <1>6, <1>7, <1>8 DEF Next

\* The invariant holds of every behaviour.
LEMMA Invariance == Spec => []IInv
BY InitHolds, NextKeeps, PTL DEF Spec

\* A label of some context is one of the labels.
LEMMA IsLabel ==
  ASSUME IInv, NEW c \in Context, NEW i \in Places(c)
  PROVE  todo[c][i] \in Labels
BY Types DEF Labels, ToSet, Places

\* What the invariant says of the state.
LEMMA InvariantMeans == IInv => Sound
<1> SUFFICES ASSUME IInv PROVE Sound
  OBVIOUS
<1>1. TypeOK
  BY DEF IInv
<1>2. InPlace
  <2> SUFFICES ASSUME NEW o \in Op, done[o] = "pending"
               PROVE  \/ o \in Pending(this)
                      \/ \E l \in Labels : l.at \in {"set", "release"} /\ l.op = o
    BY DEF InPlace
  <2>1. HasPlace(o)
    BY DEF IInv
  <2>2. CASE \E x \in Slot : this.slot[x] = o
    BY <2>2 DEF Pending, Op
  <2>3. CASE \E c \in Context : \E i \in Places(c) :
               todo[c][i].at \in {"set", "release"} /\ todo[c][i].op = o
    BY <2>3, IsLabel
  <2> QED
    BY <2>1, <2>2, <2>3 DEF HasPlace
<1>3. Served
  <2> SUFFICES ASSUME this.open, NEW x \in Slot, this.slot[x] # 0
               PROVE  \/ this.polled /\ (this.token[x].queued \/ this.token[x].signaled)
                      \/ \E l \in Labels : l.at = "go" /\ l.op = this.slot[x]
    BY DEF Served
  <2>1. ASSUME Going(x) PROVE \E l \in Labels : l.at = "go" /\ l.op = this.slot[x]
    <3>1. PICK c \in Context : todo[c] # <<>> /\ todo[c][1] = L("go", x, this.slot[x])
      BY <2>1 DEF Going
    <3>2. 1 \in Places(c)
      BY <3>1, Types, EmptySeq DEF Places
    <3>3. todo[c][1] \in Labels
      BY <3>2, IsLabel
    <3> QED
      BY <3>1, <3>3 DEF L
  <2>2. SlotOK(x)
    BY DEF IInv
  <2> QED
    BY <2>1, <2>2 DEF SlotOK
<1>4. NoStrayToken
  BY DEF IInv, TokenOK, NoStrayToken
<1>5. CloseWaitsForAll
  BY DEF IInv
<1> QED
  BY <1>1, <1>2, <1>3, <1>4, <1>5 DEF Sound

\* No operation of a file stream is lost: while its task is not done it is in a slot, polled and
\* with the firmware, or on its way there; the firmware has no buffer of an operation that is
\* over or of a file that is closed; and a Close leaves in progress only what began after it.
THEOREM StreamIsSound == Spec => []Sound
BY Invariance, InvariantMeans, PTL

-----------------------------------------------------------------------------
(* The player: numbers.                                                     *)

\* Quotient and remainder.
LEMMA ModSplit ==
  ASSUME NEW T \in Nat, T > 0, NEW x \in Int
  PROVE  /\ x % T \in 0 .. T - 1 /\ x \div T \in Int
         /\ x = (x \div T) * T + (x % T)
OBVIOUS

\* No multiple of a number lies between it and 0.
LEMMA NoMultiple ==
  ASSUME NEW B \in Nat, NEW m \in Int, 0 < m * B, m * B < B
  PROVE  FALSE
<1>1. CASE m <= 0
  BY <1>1
<1>2. CASE m >= 1
  BY <1>2
<1> QED  BY <1>1, <1>2

\* The quotient of a number that is not below 0, and where it lies.
LEMMA DivIs ==
  ASSUME NEW d \in Nat, d > 0, NEW x \in Nat
  PROVE  x \div d \in Nat /\ d * (x \div d) <= x /\ x < d * (x \div d) + d
OBVIOUS

\* Induction, as a fact about sets: the library's theorem on the order of the numbers says that
\* a set of them has a least one.
LEMMA Least ==
  ASSUME NEW T \in SUBSET Nat, T # {}
  PROVE  \E x \in T : \A y \in T : x <= y
<1>1. IsWellFoundedOn(OpToRel(<, Nat), Nat)
  BY NatLessThanWellFounded
<1>2. PICK x \in T : \A y \in T : ~(<<y, x>> \in OpToRel(<, Nat))
  BY <1>1, WFMin
<1>3. \A m, n \in Nat : <<m, n>> \in OpToRel(<, Nat) <=> m < n
  BY DEF OpToRel
<1>4. \A y \in T : ~(y < x)
  BY <1>2, <1>3
<1> QED  BY <1>4

\* And so what holds of 0 and goes on from one to the next holds of them all.
LEMMA Induct ==
  ASSUME NEW T, 0 \in T, \A n \in Nat : n \in T => n + 1 \in T
  PROVE  Nat \subseteq T
<1> SUFFICES ASSUME Nat \ T # {} PROVE FALSE
  OBVIOUS
<1>1. PICK x \in Nat \ T : \A y \in Nat \ T : x <= y
  BY Least
<1>2. x # 0 /\ x - 1 \in Nat /\ x - 1 \in T
  BY <1>1
<1>3. x - 1 + 1 = x
  BY <1>1
<1> QED  BY <1>1, <1>2, <1>3

-----------------------------------------------------------------------------
(* The frames that the driver has.                                          *)

Transfer == [n : Nat, clip : BOOLEAN]

\* The sums of the transfers are what their equation says.
LEMMA SumsAre ==
  ASSUME NEW q, Len(q) \in Nat
  PROVE  S!Sums(q) =
           [n \in 0 .. Len(q) |-> IF n = 0 THEN 0 ELSE S!Sums(q)[n - 1] + q[n].n]
<1> DEFINE Is(g, m) == g = [n \in 0 .. m |-> IF n = 0 THEN 0 ELSE g[n - 1] + q[n].n]
           T == {m \in Nat : \E g : Is(g, m)}
<1>1. 0 \in T
  <2>1. Is([n \in 0 .. 0 |-> 0], 0)
    OBVIOUS
  <2> QED  BY <2>1
<1>2. ASSUME NEW m \in Nat, m \in T PROVE m + 1 \in T
  <2>1. PICK g : Is(g, m)
    BY <1>2
  <2> DEFINE f == [n \in 0 .. m + 1 |-> IF n = m + 1 THEN g[m] + q[m + 1].n ELSE g[n]]
  <2>2. \A n \in 0 .. m + 1 : f[n] = IF n = 0 THEN 0 ELSE f[n - 1] + q[n].n
    <3> SUFFICES ASSUME NEW n \in 0 .. m + 1
                 PROVE  f[n] = IF n = 0 THEN 0 ELSE f[n - 1] + q[n].n
      OBVIOUS
    <3>1. CASE n = m + 1
      <4>1. n - 1 = m /\ n # 0 /\ m \in 0 .. m + 1 /\ m # m + 1
        BY <3>1
      <4>2. f[m] = g[m] /\ f[n] = g[m] + q[n].n
        BY <3>1, <4>1
      <4> QED  BY <4>1, <4>2
    <3>2. CASE n \in 1 .. m
      <4>1. n - 1 \in 0 .. m + 1 /\ n - 1 # m + 1 /\ n # m + 1 /\ n # 0 /\ n \in 0 .. m
        BY <3>2
      <4>2. f[n - 1] = g[n - 1] /\ f[n] = g[n]
        BY <4>1
      <4>3. g[n] = g[n - 1] + q[n].n
        BY <2>1, <4>1
      <4> QED  BY <4>1, <4>2, <4>3
    <3>3. CASE n = 0
      BY <2>1, <3>3
    <3> QED  BY <3>1, <3>2, <3>3
  <2>3. f = [n \in 0 .. m + 1 |-> f[n]]
    OBVIOUS
  <2>4. Is(f, m + 1)
    <3> HIDE DEF f
    <3> QED  BY <2>2, <2>3
  <2> HIDE DEF Is, f
  <2> QED  BY <2>4
<1>3. Nat \subseteq T
  <2> HIDE DEF T
  <2> QED  BY <1>1, <1>2, Induct
<1>4. \E g : Is(g, Len(q))
  <2>1. Len(q) \in T
    <3> HIDE DEF T
    <3> QED  BY <1>3
  <2> QED  BY <2>1
<1>5. S!Sums(q) = CHOOSE g : Is(g, Len(q))
  BY DEF S!Sums
<1>6. Is(S!Sums(q), Len(q))
  <2> HIDE DEF Is
  <2> QED  BY <1>4, <1>5
<1> QED  BY <1>6

\* The first transfers of a queue are those of another one that begins with the same.
LEMMA SumsOf ==
  ASSUME NEW q \in Seq(Transfer), NEW m \in 0 .. Len(q)
  PROVE  /\ S!Sums(q)[0] = 0
         /\ m > 0 => S!Sums(q)[m] = S!Sums(q)[m - 1] + q[m].n
BY SumsAre

\* The sum of some transfers is a number.
LEMMA SumsNat ==
  ASSUME NEW q \in Seq(Transfer), NEW m \in 0 .. Len(q)
  PROVE  S!Sums(q)[m] \in Nat
<1> DEFINE T == {n \in Nat : n <= Len(q) => S!Sums(q)[n] \in Nat}
<1>1. 0 \in T
  BY SumsOf
<1>2. ASSUME NEW n \in Nat, n \in T PROVE n + 1 \in T
  <2> SUFFICES ASSUME n + 1 <= Len(q) PROVE S!Sums(q)[n + 1] \in Nat
    OBVIOUS
  <2>1. n + 1 \in 0 .. Len(q) /\ n + 1 > 0 /\ n + 1 - 1 = n /\ q[n + 1].n \in Nat /\ n <= Len(q)
    <3>1. PICK k \in 1 .. Len(q) : k = n + 1
      OBVIOUS
    <3>2. q[k] \in Transfer
      BY ElementOfSeq
    <3>3. q[k].n \in Nat
      BY <3>2 DEF Transfer
    <3> QED  BY <3>1, <3>3
  <2>2. S!Sums(q)[n + 1] = S!Sums(q)[n] + q[n + 1].n
    BY <2>1, SumsOf
  <2> QED  BY <1>2, <2>1, <2>2
<1>3. Nat \subseteq T
  <2> HIDE DEF T
  <2> QED  BY <1>1, <1>2, Induct
<1> QED  BY <1>3

\* So are all of them.
LEMMA TotalNat ==
  ASSUME NEW q \in Seq(Transfer)
  PROVE  S!Total(q) \in Nat
<1>1. Len(q) \in 0 .. Len(q)
  BY LenProperties
<1> QED  BY <1>1, SumsNat DEF S!Total

\* A transfer that comes counts.
LEMMA TotalAppended ==
  ASSUME NEW q \in Seq(Transfer), NEW x \in Transfer
  PROVE  S!Total(Append(q, x)) = S!Total(q) + x.n
<1> DEFINE r == Append(q, x)
           T == {n \in Nat : n <= Len(q) => S!Sums(r)[n] = S!Sums(q)[n]}
<1>1. r \in Seq(Transfer) /\ Len(r) = Len(q) + 1 /\ r[Len(q) + 1] = x /\ Len(q) \in Nat
      /\ \A i \in 1 .. Len(q) : r[i].n = q[i].n
  BY AppendProperties
<1> HIDE DEF r
<1>2. 0 \in T
  <2>1. 0 \in 0 .. Len(r) /\ 0 \in 0 .. Len(q)
    BY <1>1
  <2> QED  BY <1>1, <2>1, SumsOf
<1>3. ASSUME NEW n \in Nat, n \in T PROVE n + 1 \in T
  <2> SUFFICES ASSUME n + 1 <= Len(q) PROVE S!Sums(r)[n + 1] = S!Sums(q)[n + 1]
    OBVIOUS
  <2>1. n + 1 \in 0 .. Len(q) /\ n + 1 \in 0 .. Len(r) /\ n + 1 > 0 /\ n + 1 - 1 = n
        /\ n + 1 \in 1 .. Len(q) /\ n <= Len(q)
    BY <1>1
  <2>2. S!Sums(q)[n + 1] = S!Sums(q)[n] + q[n + 1].n /\ S!Sums(r)[n + 1] = S!Sums(r)[n] + r[n + 1].n
    <3>1. PICK m \in 0 .. Len(q) : m = n + 1
      BY <2>1
    <3>2. S!Sums(q)[m] = S!Sums(q)[m - 1] + q[m].n
      BY <2>1, <3>1, SumsOf
    <3>3. m \in 0 .. Len(r) /\ m > 0
      BY <2>1, <3>1
    <3>4. S!Sums(r)[m] = S!Sums(r)[m - 1] + r[m].n
      BY <1>1, <3>3, SumsOf
    <3> QED  BY <2>1, <3>1, <3>2, <3>4
  <2> QED  BY <1>1, <1>3, <2>1, <2>2
<1>4. Nat \subseteq T
  <2> HIDE DEF T
  <2> QED  BY <1>2, <1>3, Induct
<1>5. S!Sums(r)[Len(q)] = S!Sums(q)[Len(q)]
  BY <1>1, <1>4
<1>6. S!Sums(r)[Len(q) + 1] = S!Sums(r)[Len(q)] + x.n
  <2>1. Len(q) + 1 \in 0 .. Len(r) /\ Len(q) + 1 > 0 /\ Len(q) + 1 - 1 = Len(q)
    BY <1>1
  <2> QED  BY <1>1, <2>1, SumsOf
<1> QED  BY <1>1, <1>5, <1>6 DEF r, S!Total

\* A transfer that is over does not.
LEMMA TotalOfTail ==
  ASSUME NEW q \in Seq(Transfer), q # <<>>
  PROVE  S!Total(q) = Head(q).n + S!Total(Tail(q))
<1> DEFINE r == Tail(q)
           T == {n \in Nat : n <= Len(r) => S!Sums(q)[n + 1] = q[1].n + S!Sums(r)[n]}
<1>1. r \in Seq(Transfer) /\ Len(r) = Len(q) - 1 /\ Head(q).n = q[1].n /\ Len(r) \in Nat /\ q[1].n \in Nat
      /\ Len(q) \in Nat /\ Len(q) > 0 /\ \A i \in 1 .. Len(r) : r[i].n = q[i + 1].n
  <2>1. Len(q) \in Nat /\ Len(q) > 0
    BY EmptySeq
  <2>2. /\ r \in Seq(Transfer) /\ Len(r) = Len(q) - 1 /\ Head(q) = q[1]
        /\ \A i \in 1 .. Len(r) : r[i] = q[i + 1]
    BY HeadTailProperties
  <2>3. q[1] \in Transfer
    BY <2>1, ElementOfSeq
  <2> HIDE DEF r
  <2>4. q[1].n \in Nat
    BY <2>3 DEF Transfer
  <2> QED  BY <2>1, <2>2, <2>4
<1> HIDE DEF r
<1>2. 0 \in T
  <2>1. 0 \in 0 .. Len(r) /\ 1 \in 0 .. Len(q) /\ 0 \in 0 .. Len(q) /\ 0 + 1 = 1 /\ 1 - 1 = 0
    BY <1>1
  <2>2. S!Sums(r)[0] = 0 /\ S!Sums(q)[1] = S!Sums(q)[0] + q[1].n /\ S!Sums(q)[0] = 0
    <3>1. S!Sums(r)[0] = 0
      BY <1>1, <2>1, SumsOf
    <3>2. S!Sums(q)[0] = 0
      BY <2>1, SumsOf
    <3>3. S!Sums(q)[1] = S!Sums(q)[1 - 1] + q[1].n
      BY <2>1, SumsOf
    <3> QED  BY <2>1, <3>1, <3>2, <3>3
  <2> QED  BY <1>1, <2>1, <2>2
<1>3. ASSUME NEW n \in Nat, n \in T PROVE n + 1 \in T
  <2> SUFFICES ASSUME n + 1 <= Len(r) PROVE S!Sums(q)[n + 1 + 1] = q[1].n + S!Sums(r)[n + 1]
    OBVIOUS
  <2>1. /\ n + 1 \in 0 .. Len(r) /\ n + 2 \in 0 .. Len(q) /\ n + 1 > 0 /\ n + 2 > 0
        /\ n + 1 - 1 = n /\ n + 2 - 1 = n + 1 /\ n + 1 + 1 = n + 2
        /\ n + 1 \in 1 .. Len(r) /\ n <= Len(r) /\ n \in 0 .. Len(r)
    BY <1>1
  <2>2. S!Sums(r)[n + 1] = S!Sums(r)[n] + r[n + 1].n /\ S!Sums(q)[n + 2] = S!Sums(q)[n + 1] + q[n + 2].n
    <3>1. PICK m \in 0 .. Len(r) : m = n + 1
      BY <2>1
    <3>2. S!Sums(r)[m] = S!Sums(r)[m - 1] + r[m].n
      BY <1>1, <2>1, <3>1, SumsOf
    <3>3. PICK k \in 0 .. Len(q) : k = n + 2
      BY <2>1
    <3>4. S!Sums(q)[k] = S!Sums(q)[k - 1] + q[k].n
      BY <2>1, <3>3, SumsOf
    <3> QED  BY <2>1, <3>1, <3>2, <3>3, <3>4
  <2>3. r[n + 1].n = q[n + 2].n /\ r[n + 1].n \in Nat /\ S!Sums(r)[n] \in Nat
    <3>1. S!Sums(r)[n] \in Nat
      BY <1>1, <2>1, SumsNat
    <3>2. PICK m \in 1 .. Len(r) : m = n + 1
      BY <2>1
    <3>3. r[m].n = q[m + 1].n /\ m + 1 = n + 2
      BY <1>1, <3>2
    <3>4. r[m].n \in Nat
      <4>1. r[m] \in Transfer
        BY <1>1, ElementOfSeq
      <4> QED  BY <4>1 DEF Transfer
    <3> QED  BY <3>1, <3>2, <3>3, <3>4
  <2>4. S!Sums(q)[n + 1] = q[1].n + S!Sums(r)[n]
    BY <1>3, <2>1
  <2>5. PICK a \in Nat : a = q[1].n
    BY <1>1
  <2>6. PICK b \in Nat : b = S!Sums(r)[n]
    BY <2>3
  <2>7. PICK d \in Nat : d = r[n + 1].n /\ d = q[n + 2].n
    BY <2>3
  <2>8. S!Sums(q)[n + 2] = a + b + d /\ S!Sums(r)[n + 1] = b + d
    BY <2>2, <2>4, <2>5, <2>6, <2>7
  <2>9. n + 1 + 1 = n + 2
    OBVIOUS
  <2> QED  BY <2>5, <2>8, <2>9
<1>4. Nat \subseteq T
  <2> HIDE DEF T
  <2> QED  BY <1>2, <1>3, Induct
<1>5. S!Sums(q)[Len(r) + 1] = q[1].n + S!Sums(r)[Len(r)] /\ Len(r) + 1 = Len(q)
  BY <1>1, <1>4
<1> QED  BY <1>1, <1>5 DEF r, S!Total

-----------------------------------------------------------------------------
(* The resampler of SoundPlayer.                                            *)

\* What the constants are.
LEMMA PlayerConstants ==
  /\ OutputSampleRate \in Nat /\ OutputSampleRate > 0 /\ Rates \subseteq Nat \ {0}
  /\ BufferLimit \in Nat /\ ChunkLimit \in 1 .. BufferLimit /\ ChunkLimit \in Nat /\ ChunkLimit >= 1
  /\ MaxPlay \in Nat /\ MaxInput \in Nat /\ Clips \subseteq Nat \ {0}
BY PlayerAssumed DEF S!RateAssumption, S!LimitAssumption

\* The output frames up to the g-th input frame, at a rate.
Converted(g, r) == IF g = 0 THEN 0 ELSE ((g - 1) * OutputSampleRate) \div r + 1

\* Frame f of the output for the whole input.
OutputFrame(f, r) ==
  IF (f * r) % OutputSampleRate = 0 THEN <<(f * r) \div OutputSampleRate>>
  ELSE <<(f * r) \div OutputSampleRate, (f * r) \div OutputSampleRate + 1, (f * r) % OutputSampleRate>>

\* A quotient does not fall with the number.
LEMMA DivGrows ==
  ASSUME NEW d \in Nat, d > 0, NEW x \in Nat, NEW y \in Nat, x <= y
  PROVE  x \div d <= y \div d
<1>1. PICK a \in Nat : a = x \div d /\ d * a <= x
  BY DivIs
<1>2. PICK b \in Nat : b = y \div d /\ y < d * b + d
  BY DivIs
<1>3. CASE a >= b + 1
  <2>1. d * a >= d * (b + 1) /\ d * (b + 1) = d * b + d
    BY <1>3
  <2>2. d * a \in Nat /\ d * b \in Nat
    OBVIOUS
  <2> QED  BY <1>1, <1>2, <2>1, <2>2
<1> QED  BY <1>1, <1>2, <1>3

\* More input does not give less output.
LEMMA ConvertedGrows ==
  ASSUME rate \in Rates, NEW g \in Nat, NEW n \in Nat, n >= 1
  PROVE  /\ Converted(g, rate) \in Nat /\ Converted(g + n, rate) \in Nat /\ Converted(g, rate) <= Converted(g + n, rate)
         /\ Converted(g + n, rate) >= 1
<1>0. rate \in Nat /\ rate > 0 /\ OutputSampleRate \in Nat /\ OutputSampleRate > 0
  BY PlayerConstants
<1>1. PICK y \in Nat : y = (g + n - 1) * OutputSampleRate
  BY <1>0
<1>2. PICK b \in Nat : b = y \div rate
  BY <1>0, DivIs
<1>3. Converted(g + n, rate) = b + 1
  BY <1>1, <1>2 DEF Converted
<1>4. CASE g = 0
  BY <1>3, <1>4 DEF Converted
<1>5. CASE g > 0
  <2>1. PICK x \in Nat : x = (g - 1) * OutputSampleRate
    BY <1>0, <1>5
  <2>2. PICK a \in Nat : a = x \div rate
    BY <1>0, DivIs
  <2>3. Converted(g, rate) = a + 1
    BY <1>5, <2>1, <2>2 DEF Converted
  <2>4. y = x + n * OutputSampleRate /\ n * OutputSampleRate \in Nat
    BY <1>0, <1>1, <2>1
  <2>5. x <= y
    BY <2>4
  <2>6. a <= b
    BY <1>0, <1>2, <2>2, <2>5, DivGrows
  <2> QED  BY <1>3, <2>3, <2>6
<1> QED  BY <1>4, <1>5

\* What the player keeps of the input it was given.
KeptOK ==
  /\ stream.in = given /\ given \in Nat
  /\ given > 0 => stream.hasLast /\ stream.last = given - 1

\* A sample of what is kept or given is the one with its number.
LEMMA SampleIs ==
  ASSUME KeptOK, NEW n \in Nat, NEW k \in Int,
         (IF given = 0 THEN 0 ELSE given - 1) <= k, k <= given + n - 1
  PROVE  S!Sample(n, k - (IF stream.in = 0 THEN 0 ELSE stream.in - 1)) = k
<1>0. stream.in = given /\ given \in Nat /\ (given > 0 => stream.hasLast /\ stream.last = given - 1)
  BY DEF KeptOK
<1>1. CASE given = 0
  <2>1. k - 0 = k /\ k \in 0 .. n - 1 /\ 0 + k = k
    BY <1>1
  <2> QED  BY <1>0, <1>1, <2>1 DEF S!Sample
<1>2. CASE given > 0
  <2>1. PICK l \in Nat : l = k - (given - 1)
    BY <1>0, <1>2
  <2>2. S!Sample(n, l) = k
    <3>1. CASE l = 0
      <4>1. k = given - 1
        BY <1>0, <2>1, <3>1
      <4> QED  BY <1>0, <1>2, <3>1, <4>1 DEF S!Sample
    <3>2. CASE l # 0
      <4>1. l - 1 \in 0 .. n - 1 /\ given + (l - 1) = k
        BY <1>0, <1>2, <2>1, <3>2
      <4> QED  BY <1>0, <1>2, <3>2, <4>1 DEF S!Sample
    <3> QED  BY <3>1, <3>2
  <2> QED  BY <1>0, <1>2, <2>1, <2>2
<1> QED  BY <1>0, <1>1, <1>2

\* A frame of the output: its place in the input lies between what is kept and the last frame
\* given, and, if it is not one of the input, before the last.
LEMMA SourceIs ==
  ASSUME rate \in Rates, NEW g \in Nat, NEW n \in Nat, n >= 1,
         NEW f \in Nat, Converted(g, rate) <= f, f < Converted(g + n, rate)
  PROVE  LET s == (f * rate) \div OutputSampleRate
             e == (f * rate) % OutputSampleRate
         IN  /\ s \in Nat /\ e \in Nat /\ (IF g = 0 THEN 0 ELSE g - 1) <= s /\ s <= g + n - 1
             /\ e # 0 => s + 1 <= g + n - 1
<1>0. rate \in Nat /\ rate > 0 /\ OutputSampleRate \in Nat /\ OutputSampleRate > 0
  BY PlayerConstants
<1>1. PICK x \in Nat : x = f * rate
  BY <1>0
<1>2. PICK s \in Nat : /\ s = x \div OutputSampleRate /\ OutputSampleRate * s <= x
                       /\ x < OutputSampleRate * s + OutputSampleRate
  BY <1>0, DivIs
<1>3. PICK e \in Nat : e = x % OutputSampleRate /\ x = OutputSampleRate * s + e
  <2>1. x % OutputSampleRate \in 0 .. OutputSampleRate - 1
    BY <1>0, ModSplit
  <2>2. x = (x \div OutputSampleRate) * OutputSampleRate + (x % OutputSampleRate)
    BY <1>0, ModSplit
  <2>3. s * OutputSampleRate = OutputSampleRate * s
    BY <1>0
  <2> QED  BY <1>0, <1>2, <2>1, <2>2, <2>3
<1>4. PICK y \in Nat : y = (g + n - 1) * OutputSampleRate
  BY <1>0
<1>5. PICK b \in Nat : b = y \div rate /\ rate * b <= y
  BY <1>0, DivIs
<1>6. Converted(g + n, rate) = b + 1
  BY <1>4, <1>5 DEF Converted
<1>7. x <= y
  <2>1. f <= b
    BY <1>5, <1>6
  <2>2. f * rate <= b * rate /\ b * rate = rate * b
    BY <1>0, <2>1
  <2> QED  BY <1>0, <1>1, <1>5, <2>2
<1>8. s <= g + n - 1
  <2>1. CASE s >= g + n
    <3>1. OutputSampleRate * s >= OutputSampleRate * (g + n)
      BY <1>0, <2>1
    <3>2. OutputSampleRate * (g + n) = y + OutputSampleRate
      BY <1>0, <1>4
    <3> QED  BY <1>0, <1>2, <1>7, <3>1, <3>2
  <2> QED  BY <2>1
<1>9. ASSUME e # 0 PROVE s + 1 <= g + n - 1
  <2>1. CASE s = g + n - 1
    <3>1. OutputSampleRate * s = y
      BY <1>0, <1>4, <2>1
    <3> QED  BY <1>3, <1>7, <1>9, <3>1
  <2> QED  BY <1>8, <2>1
<1>10. (IF g = 0 THEN 0 ELSE g - 1) <= s
  <2>1. CASE g = 0
    BY <2>1
  <2>2. CASE g > 0
    <3>1. PICK z \in Nat : z = (g - 1) * OutputSampleRate
      BY <1>0, <2>2
    <3>2. PICK a \in Nat : a = z \div rate /\ z < rate * a + rate
      BY <1>0, DivIs
    <3>3. Converted(g, rate) = a + 1
      BY <2>2, <3>1, <3>2 DEF Converted
    <3>4. f * rate >= (a + 1) * rate /\ (a + 1) * rate = rate * a + rate
      BY <1>0, <3>3
    <3>5. z < x
      BY <1>0, <1>1, <3>2, <3>4
    <3>6. CASE s < g - 1
      <4>1. OutputSampleRate * (s + 1) <= OutputSampleRate * (g - 1)
        BY <1>0, <3>6
      <4>2. OutputSampleRate * (s + 1) = OutputSampleRate * s + OutputSampleRate
            /\ OutputSampleRate * (g - 1) = z
        BY <1>0, <3>1
      <4> QED  BY <1>0, <1>2, <3>1, <3>5, <4>1, <4>2
    <3> QED  BY <2>2, <3>6
  <2> QED  BY <2>1, <2>2
<1> QED  BY <1>1, <1>2, <1>3, <1>8, <1>9, <1>10

\* A function on the first numbers is a sequence.
LEMMA MapIsSeq ==
  ASSUME NEW X, NEW k \in Nat, NEW f \in [1 .. k -> X]
  PROVE  f \in Seq(X) /\ Len(f) = k
<1>1. f \in Seq(X)
  BY SeqDef
<1>2. DOMAIN f = 1 .. k /\ DOMAIN f = 1 .. Len(f) /\ Len(f) \in Nat
  BY <1>1, LenProperties
<1> QED  BY <1>1, <1>2

\* What a chunk is converted to is the next part of the conversion of the whole.
LEMMA ChunkIs ==
  ASSUME rate \in Rates, KeptOK, stream.out = Converted(given, rate), NEW n \in Nat, n >= 1
  PROVE  LET out == S!ConvertStreamingPcm(n)
         IN  /\ out \in Seq(Seq(Int))
             /\ Len(out) = Converted(given + n, rate) - Converted(given, rate)
             /\ \A i \in 1 .. Len(out) : out[i] = OutputFrame(Converted(given, rate) + i - 1, rate)
<1>0. rate \in Nat /\ rate > 0 /\ OutputSampleRate \in Nat /\ OutputSampleRate > 0
  BY PlayerConstants
<1>1. PICK g \in Nat : g = given /\ stream.in = g
  BY DEF KeptOK
<1>2. PICK a \in Nat : a = Converted(g, rate)
  BY <1>1, ConvertedGrows
<1>3. PICK b \in Nat : b + 1 = Converted(g + n, rate) /\ b = ((g + n - 1) * OutputSampleRate) \div rate
  <2>1. PICK y \in Nat : y = (g + n - 1) * OutputSampleRate
    BY <1>0
  <2>2. y \div rate \in Nat
    BY <1>0, DivIs
  <2> QED  BY <2>1, <2>2 DEF Converted
<1>4. a <= b + 1
  BY <1>2, <1>3, ConvertedGrows
<1> DEFINE base == IF stream.in = 0 THEN 0 ELSE stream.in - 1
           Frame(f) == LET source == (f * rate) \div OutputSampleRate
                           next == IF source + 1 < stream.in + n THEN source + 1 ELSE source
                       IN  S!Interpolate(S!Sample(n, source - base), S!Sample(n, next - base),
                                         (f * rate) % OutputSampleRate)
<1>5. S!ConvertStreamingPcm(n) =
        IF b < a THEN <<>> ELSE [i \in 1 .. b - a + 1 |-> Frame(a + i - 1)]
  BY <1>1, <1>2, <1>3 DEF S!ConvertStreamingPcm
<1>6. ASSUME NEW f \in Nat, a <= f, f <= b
      PROVE  Frame(f) = OutputFrame(f, rate) /\ Frame(f) \in Seq(Int)
  <2>0. LET u == (f * rate) \div OutputSampleRate
            v == (f * rate) % OutputSampleRate
        IN  /\ u \in Nat /\ v \in Nat /\ (IF g = 0 THEN 0 ELSE g - 1) <= u /\ u <= g + n - 1
            /\ v # 0 => u + 1 <= g + n - 1
    <3>1. Converted(g, rate) <= f /\ f < Converted(g + n, rate)
      BY <1>2, <1>3, <1>6
    <3> QED  BY <3>1, SourceIs
  <2>1. PICK s \in Nat : s = (f * rate) \div OutputSampleRate
    BY <2>0
  <2>2. PICK e \in Nat : e = (f * rate) % OutputSampleRate
    BY <2>0
  <2>3. (IF g = 0 THEN 0 ELSE g - 1) <= s /\ s <= g + n - 1 /\ (e # 0 => s + 1 <= g + n - 1)
    BY <2>0, <2>1, <2>2
  <2>4. S!Sample(n, s - base) = s
    BY <1>1, <2>3, SampleIs
  <2>5. CASE e = 0
    <3>1. Frame(f) = <<s>> /\ OutputFrame(f, rate) = <<s>>
      BY <2>1, <2>2, <2>4, <2>5 DEF S!Interpolate, OutputFrame
    <3>2. <<s>> \in Seq(Int)
      OBVIOUS
    <3> QED  BY <3>1, <3>2
  <2>6. CASE e # 0
    <3>1. s + 1 < g + n /\ s + 1 <= g + n - 1 /\ (IF g = 0 THEN 0 ELSE g - 1) <= s + 1 /\ s + 1 \in Int
      BY <2>3, <2>6
    <3>2. S!Sample(n, s + 1 - base) = s + 1
      BY <1>1, <3>1, SampleIs
    <3>3. Frame(f) = <<s, s + 1, e>>
      BY <1>1, <2>1, <2>2, <2>4, <2>6, <3>1, <3>2 DEF S!Interpolate
    <3>4. OutputFrame(f, rate) = <<s, s + 1, e>>
      BY <2>1, <2>2, <2>6 DEF S!Interpolate, OutputFrame
    <3>5. <<s, s + 1, e>> \in Seq(Int)
      BY <2>1
    <3> QED  BY <3>3, <3>4, <3>5
  <2> QED  BY <2>5, <2>6
<1> HIDE DEF Frame
<1>7. CASE b < a
  <2>1. a = b + 1
    BY <1>4, <1>7
  <2>2. S!ConvertStreamingPcm(n) = <<>>
    BY <1>5, <1>7
  <2>3. <<>> \in Seq(Seq(Int)) /\ Len(<<>>) = 0
    BY EmptySeq
  <2> QED  BY <1>1, <1>2, <1>3, <2>1, <2>2, <2>3
<1>8. CASE a <= b
  <2>1. PICK k \in Nat : k = b - a + 1
    BY <1>8
  <2>2. S!ConvertStreamingPcm(n) = [i \in 1 .. k |-> Frame(a + i - 1)]
    BY <1>5, <1>8, <2>1
  <2>3. ASSUME NEW i \in 1 .. k
        PROVE  Frame(a + i - 1) = OutputFrame(a + i - 1, rate) /\ Frame(a + i - 1) \in Seq(Int)
    <3>1. PICK f \in Nat : f = a + i - 1 /\ a <= f /\ f <= b
      BY <2>1
    <3> QED  BY <1>6, <3>1
  <2>4. [i \in 1 .. k |-> Frame(a + i - 1)] \in [1 .. k -> Seq(Int)]
    BY <2>3
  <2>5. /\ [i \in 1 .. k |-> Frame(a + i - 1)] \in Seq(Seq(Int))
        /\ Len([i \in 1 .. k |-> Frame(a + i - 1)]) = k
    BY <2>4, MapIsSeq
  <2>6. k = Converted(given + n, rate) - Converted(given, rate)
    BY <1>1, <1>2, <1>3, <2>1
  <2> QED  BY <1>1, <1>2, <2>2, <2>3, <2>5, <2>6
<1> QED  BY <1>7, <1>8

-----------------------------------------------------------------------------
(* The player: what holds.                                                  *)

\* A call that has converted or cut what it is about to queue; one that has its capacity.
Asked    == {"reserve", "alloc", "start", "refused"}
Reserved == {"alloc", "start", "refused"}
PlayerAt == Asked \cup {"idle", "append", "queued", "next", "finish", "done", "abandon"}

PlayerCall ==
  [at : PlayerAt, clip : BOOLEAN, n : Nat, out : Seq(Seq(Int)), wait : BOOLEAN,
   total : Nat, played : Nat]

\* What is asked for is not nothing, and what the driver has will be stopped.
QueueOK ==
  /\ device # <<>> /\ call.at # "queued" => active
  /\ call.at \in Asked \cup {"queued"} => Len(call.out) >= 1

\* The driver has frames of the stream or of the clip, as the call does; of the clip, what was
\* played, what the driver has and what is still to come are the whole.
ClipOK ==
  /\ call.at \in {"next", "finish", "done", "abandon"} => call.clip
  /\ call.at \in {"idle", "append"} => ~call.clip
  /\ \A i \in 1 .. Len(device) : device[i].clip = call.clip
  /\ call.clip /\ call.at # "abandon" =>
       call.total = call.played + S!Total(device) + call.n
                    + (IF call.at \in Asked THEN Len(call.out) ELSE 0)
  /\ call.at \in {"finish", "done"} => call.n = 0
  /\ call.at = "done" => remaining = 0

\* What the driver was given is the conversion of what was accepted, and with what is about to be
\* queued that of one chunk more.
InputOK ==
  call.at = "append" \/ (~call.clip /\ call.at \in Asked \cup {"queued"}) =>
    call.n >= 1 /\ given + call.n <= MaxInput
OutputOK ==
  ~call.clip /\ call.at \in Asked \cup {"queued"} =>
    /\ Len(call.out) = Converted(given + call.n, rate) - Converted(given, rate)
    /\ \A i \in 1 .. Len(call.out) : call.out[i] = OutputFrame(Converted(given, rate) + i - 1, rate)
HandedOK ==
  /\ handed \in Seq(Seq(Int))
  /\ Len(handed) = Converted(given, rate) + (IF call.at = "queued" /\ ~call.clip THEN Len(call.out) ELSE 0)
  /\ \A i \in 1 .. Len(handed) : handed[i] = OutputFrame(i - 1, rate)
StreamOK == KeptOK /\ stream.out = Converted(given, rate) /\ InputOK /\ OutputOK /\ HandedOK

PlayerInv == S!Sound /\ call \in PlayerCall /\ QueueOK /\ ClipOK /\ StreamOK

\* The numbers are numbers.
LEMMA PlayerTypes ==
  ASSUME PlayerInv
  PROVE  /\ rate \in Rates /\ given \in Nat /\ remaining \in Nat /\ remaining <= BufferLimit
         /\ device \in Seq(Transfer) /\ Len(device) \in Nat /\ S!Total(device) \in Nat
         /\ call.at \in PlayerAt /\ call.clip \in BOOLEAN /\ call.n \in Nat
         /\ call.out \in Seq(Seq(Int)) /\ Len(call.out) \in Nat
         /\ call.total \in Nat /\ call.played \in Nat
         /\ Converted(given, rate) \in Nat
         /\ remaining = S!Total(device) + (IF call.at \in Reserved THEN Len(call.out) ELSE 0)
<1>1. rate \in Rates /\ remaining \in 0 .. BufferLimit /\ given \in 0 .. MaxInput
      /\ device \in Seq([n : 1 .. BufferLimit, clip : BOOLEAN])
  BY DEF PlayerInv, S!Sound, S!TypeOK
<1>2. device \in Seq(Transfer)
  <2>1. [n : 1 .. BufferLimit, clip : BOOLEAN] \subseteq Transfer
    <3>1. 1 .. BufferLimit \subseteq Nat
      BY PlayerConstants
    <3> QED  BY <3>1 DEF Transfer
  <2> QED  BY <1>1, <2>1, SeqMonotonic
<1>3. S!Total(device) \in Nat /\ Len(device) \in Nat
  BY <1>2, TotalNat, LenProperties
<1>4. call \in PlayerCall
  BY DEF PlayerInv
<1>5. /\ call.at \in PlayerAt /\ call.clip \in BOOLEAN /\ call.n \in Nat
      /\ call.out \in Seq(Seq(Int)) /\ call.total \in Nat /\ call.played \in Nat
  BY <1>4 DEF PlayerCall
<1>6. Len(call.out) \in Nat
  BY <1>5, LenProperties
<1>7. given \in Nat /\ remaining \in Nat /\ remaining <= BufferLimit
  BY <1>1, PlayerConstants
<1>8. Converted(given, rate) \in Nat
  BY <1>1, <1>7, ConvertedGrows
<1>9. remaining = S!Total(device) + (IF call.at \in Reserved THEN Len(call.out) ELSE 0)
  BY DEF PlayerInv, S!Sound, S!Accounted, Reserved
<1> QED  BY <1>1, <1>2, <1>3, <1>5, <1>6, <1>7, <1>8, <1>9

\* It holds at the beginning.
LEMMA PlayerStarts ==
  ASSUME S!Init
  PROVE  PlayerInv
<1>0. BufferLimit \in Nat /\ MaxInput \in Nat
  BY PlayerConstants
<1>1. /\ rate \in Rates
      /\ stream = [hasLast |-> FALSE, last |-> 0, in |-> 0, out |-> 0]
      /\ audioIo = FALSE /\ failed = FALSE /\ remaining = 0 /\ active = FALSE /\ device = <<>>
      /\ given = 0 /\ handed = <<>>
      /\ call = [at |-> "idle", clip |-> FALSE, n |-> 0, out |-> <<>>, wait |-> FALSE,
                 total |-> 0, played |-> 0]
  BY DEF S!Init, S!Idle, S!Call
<1>2. S!Total(device) = 0
  <2>1. <<>> \in Seq(Transfer) /\ Len(<<>>) = 0
    BY EmptySeq
  <2>2. Len(<<>>) \in 0 .. Len(<<>>) /\ 0 \in 0 .. Len(<<>>)
    BY <2>1
  <2>3. S!Sums(<<>>)[0] = 0
    BY <2>1, <2>2, SumsOf
  <2> QED  BY <1>1, <2>1, <2>3 DEF S!Total
<1>3. S!Sound
  <2>1. device \in Seq([n : 1 .. BufferLimit, clip : BOOLEAN])
    BY <1>1, EmptySeq
  <2>2. stream \in [hasLast : BOOLEAN, last : Nat, in : Nat, out : Nat]
    BY <1>1
  <2>3. S!TypeOK
    <3>1. remaining \in 0 .. BufferLimit /\ given \in 0 .. MaxInput
      BY <1>0, <1>1
    <3>2. call.at = "idle"
      BY <1>1
    <3>3. audioIo \in BOOLEAN /\ failed \in BOOLEAN /\ active \in BOOLEAN
      BY <1>1
    <3> QED  BY <1>1, <2>1, <2>2, <3>1, <3>2, <3>3 DEF S!TypeOK
  <2>4. S!Accounted
    BY <1>1, <1>2 DEF S!Accounted
  <2> QED  BY <2>3, <2>4 DEF S!Sound
<1>4. call \in PlayerCall
  <2>1. <<>> \in Seq(Seq(Int))
    BY EmptySeq
  <2> QED  BY <1>1, <2>1 DEF PlayerCall, PlayerAt
<1>5. QueueOK
  BY <1>1 DEF QueueOK, Asked
<1>6. ClipOK
  <2>1. Len(device) = 0
    BY <1>1, EmptySeq
  <2> QED  BY <1>1, <2>1 DEF ClipOK
<1>7. StreamOK
  <2>1. Converted(given, rate) = 0
    BY <1>1 DEF Converted
  <2>2. KeptOK /\ stream.out = Converted(given, rate) /\ InputOK /\ OutputOK
    BY <1>1, <2>1 DEF KeptOK, InputOK, OutputOK, Asked
  <2>3. HandedOK
    <3>1. handed \in Seq(Seq(Int)) /\ Len(handed) = 0
      BY <1>1, EmptySeq
    <3> QED  BY <1>1, <2>1, <3>1 DEF HandedOK
  <2> QED  BY <2>2, <2>3 DEF StreamOK
<1> QED  BY <1>3, <1>4, <1>5, <1>6, <1>7 DEF PlayerInv

-----------------------------------------------------------------------------
(* The steps of the player.                                                 *)

\* The types of the next state.
LEMMA TypesGo ==
  ASSUME rate' \in Rates, stream' \in [hasLast : BOOLEAN, last : Nat, in : Nat, out : Nat],
         audioIo' \in BOOLEAN, failed' \in BOOLEAN, active' \in BOOLEAN,
         remaining' \in 0 .. BufferLimit,
         device' \in Seq([n : 1 .. BufferLimit, clip : BOOLEAN]),
         call'.at \in PlayerAt, given' \in 0 .. MaxInput
  PROVE  S!TypeOK'
BY DEF S!TypeOK, PlayerAt, Asked

\* The types of this one.
LEMMA TypesAre ==
  ASSUME PlayerInv
  PROVE  /\ rate \in Rates /\ stream \in [hasLast : BOOLEAN, last : Nat, in : Nat, out : Nat]
         /\ audioIo \in BOOLEAN /\ failed \in BOOLEAN /\ active \in BOOLEAN
         /\ remaining \in 0 .. BufferLimit /\ given \in 0 .. MaxInput
         /\ device \in Seq([n : 1 .. BufferLimit, clip : BOOLEAN])
BY DEF PlayerInv, S!Sound, S!TypeOK

\* What was accepted and what was handed stay.
LEMMA StreamSame ==
  ASSUME StreamOK, rate' = rate, stream' = stream, given' = given, handed' = handed,
         InputOK', OutputOK', call.at = "queued" => call.clip, call'.at = "queued" => call'.clip
  PROVE  StreamOK'
<1>1. KeptOK'
  BY DEF StreamOK, KeptOK
<1>2. Len(handed) = Converted(given, rate) + 0
  BY DEF StreamOK, HandedOK
<1>3. HandedOK'
  BY <1>2 DEF StreamOK, HandedOK
<1> QED  BY <1>1, <1>3 DEF StreamOK

\* No call, or one that has not asked for anything, has nothing about to be queued.
LEMMA NothingAsked ==
  ASSUME call'.at # "append", call'.clip \/ call'.at \notin Asked \cup {"queued"}
  PROVE  InputOK' /\ OutputOK'
BY DEF InputOK, OutputOK

\* The idle call.
LEMMA IdleIs ==
  /\ S!Idle \in PlayerCall /\ S!Idle.at = "idle" /\ S!Idle.clip = FALSE /\ S!Idle.n = 0
  /\ "idle" \notin Asked /\ "idle" \notin Reserved
<1>1. S!Idle = [at |-> "idle", clip |-> FALSE, n |-> 0, out |-> <<>>, wait |-> FALSE,
                total |-> 0, played |-> 0]
  BY DEF S!Idle, S!Call
<1>2. <<>> \in Seq(Seq(Int))
  BY EmptySeq
<1> QED  BY <1>1, <1>2 DEF PlayerCall, PlayerAt, Asked, Reserved

\* A call ends while the driver plays what it has of the stream.
LEMMA EndsIdle ==
  ASSUME PlayerInv, call' = S!Idle, ~call.clip, call.at # "queued",
         UNCHANGED <<rate, stream, active, device, given, handed>>,
         audioIo' \in BOOLEAN, failed' \in BOOLEAN, remaining' = S!Total(device)
  PROVE  PlayerInv'
<1>1. /\ rate' = rate /\ stream' = stream /\ active' = active /\ device' = device
      /\ given' = given /\ handed' = handed
  OBVIOUS
<1>2. /\ call' \in PlayerCall /\ call'.at = "idle" /\ call'.clip = FALSE /\ call'.n = 0
      /\ call'.at \notin Asked /\ call'.at \notin Reserved
  BY IdleIs
<1>3. remaining' \in 0 .. BufferLimit
  <2>1. PICK t \in Nat : t = S!Total(device)
    BY PlayerTypes
  <2>2. PICK r \in Nat : r = remaining /\ r <= BufferLimit
    BY PlayerTypes
  <2>3. Len(call.out) \in Nat
    BY PlayerTypes
  <2>4. t <= r
    BY <2>1, <2>2, <2>3, PlayerTypes
  <2> QED  BY <2>1, <2>2, <2>4, PlayerConstants
<1>4. S!TypeOK'
  <2>1. call'.at \in PlayerAt
    BY <1>2 DEF PlayerAt
  <2> QED  BY <1>1, <1>3, <2>1, TypesAre, TypesGo
<1>5. S!Accounted'
  <2>1. S!Total(device)' = S!Total(device)
    BY <1>1
  <2>2. S!Total(device) + 0 = S!Total(device)
    BY PlayerTypes
  <2> QED  BY <1>2, <2>1, <2>2 DEF S!Accounted
<1>6. QueueOK'
  BY <1>1, <1>2 DEF PlayerInv, QueueOK
<1>7. ClipOK'
  <2>1. call'.clip = call.clip
    <3>1. call.clip \in BOOLEAN
      BY PlayerTypes
    <3> QED  BY <1>2, <3>1
  <2>2. \A i \in 1 .. Len(device') : device'[i].clip = call'.clip
    BY <1>1, <2>1 DEF PlayerInv, ClipOK
  <2> QED  BY <1>2, <2>2 DEF ClipOK
<1>8. StreamOK'
  <2>1. InputOK' /\ OutputOK'
    <3>1. call'.at # "append" /\ call'.at \notin Asked \cup {"queued"}
      BY <1>2
    <3> QED  BY <3>1, NothingAsked
  <2>2. StreamOK
    BY DEF PlayerInv
  <2> QED  BY <1>1, <1>2, <2>1, <2>2, StreamSame
<1> QED  BY <1>2, <1>4, <1>5, <1>6, <1>7, <1>8 DEF PlayerInv, S!Sound

\* A chunk that is not queued: Play returns, PlaySync goes on to stop.
LEMMA FailsKeeps ==
  ASSUME PlayerInv, S!Fails, call.at \in Asked,
         UNCHANGED <<rate, stream, active, device, given, handed>>,
         audioIo' \in BOOLEAN, failed' \in BOOLEAN, remaining' = S!Total(device)
  PROVE  PlayerInv'
<1>1. CASE ~call.clip
  <2>1. call' = S!Idle
    BY <1>1 DEF S!Fails
  <2>2. call.at # "queued"
    BY DEF Asked
  <2> QED  BY <1>1, <2>1, <2>2, EndsIdle
<1>2. CASE call.clip
  <2>0. /\ rate' = rate /\ stream' = stream /\ active' = active /\ device' = device
        /\ given' = given /\ handed' = handed
    OBVIOUS
  <2>1. call' = [call EXCEPT !.at = "abandon"]
    BY <1>2 DEF S!Fails, S!GoTo
  <2>2. call \in PlayerCall
    BY DEF PlayerInv
  <2>3. /\ call' \in PlayerCall /\ call'.at = "abandon" /\ call'.clip = call.clip
        /\ call'.at \notin Asked /\ call'.at \notin Reserved /\ call'.at \in PlayerAt
    BY <2>1, <2>2 DEF PlayerCall, PlayerAt, Asked, Reserved
  <2>4. remaining' \in 0 .. BufferLimit
    <3>1. PICK t \in Nat : t = S!Total(device)
      BY PlayerTypes
    <3>2. PICK r \in Nat : r = remaining /\ r <= BufferLimit
      BY PlayerTypes
    <3>3. Len(call.out) \in Nat
      BY PlayerTypes
    <3>4. t <= r
      BY <3>1, <3>2, <3>3, PlayerTypes
    <3> QED  BY <3>1, <3>2, <3>4, PlayerConstants
  <2>5. S!TypeOK'
    BY <2>0, <2>3, <2>4, TypesAre, TypesGo
  <2>6. S!Accounted'
    <3>1. S!Total(device)' = S!Total(device)
      BY <2>0
    <3>2. S!Total(device) + 0 = S!Total(device)
      BY PlayerTypes
    <3> QED  BY <2>3, <3>1, <3>2 DEF S!Accounted
  <2>7. call.at # "queued"
    BY DEF Asked
  <2>8. QueueOK'
    BY <2>0, <2>3, <2>7 DEF PlayerInv, QueueOK
  <2>9. ClipOK'
    BY <1>2, <2>0, <2>3 DEF PlayerInv, ClipOK
  <2>10. StreamOK'
    <3>1. InputOK' /\ OutputOK'
      <4>1. call'.at # "append" /\ call'.clip
        BY <1>2, <2>3
      <4> QED  BY <4>1, NothingAsked
    <3>2. StreamOK
      BY DEF PlayerInv
    <3> QED  BY <2>0, <2>3, <2>7, <3>1, <3>2, StreamSame
  <2> QED  BY <2>3, <2>5, <2>6, <2>8, <2>9, <2>10 DEF PlayerInv, S!Sound
<1>3. call.clip \in BOOLEAN
  BY PlayerTypes
<1> QED  BY <1>1, <1>2, <1>3

\* What is reserved is given back, and no more.
LEMMA GivesBack ==
  ASSUME PlayerInv, call.at \in Reserved
  PROVE  S!Less(Len(call.out)) = S!Total(device)
<1>1. PICK t \in Nat : t = S!Total(device)
  BY PlayerTypes
<1>2. PICK l \in Nat : l = Len(call.out)
  BY PlayerTypes
<1>3. remaining = t + l
  BY <1>1, <1>2, PlayerTypes
<1> QED  BY <1>1, <1>2, <1>3 DEF S!Less

\* A call that has reserved what it needs goes on.
LEMMA HoldsKeeps ==
  ASSUME PlayerInv, call.at \in Asked, NEW a \in Reserved, call' = [call EXCEPT !.at = a],
         UNCHANGED <<rate, stream, audioIo, failed, active, device, given, handed>>,
         remaining' = S!Total(device) + Len(call.out), remaining' \in 0 .. BufferLimit
  PROVE  PlayerInv'
<1>1. /\ rate' = rate /\ stream' = stream /\ active' = active /\ device' = device
      /\ given' = given /\ handed' = handed /\ audioIo' = audioIo /\ failed' = failed
  OBVIOUS
<1>2. call \in PlayerCall
  BY DEF PlayerInv
<1>3. /\ call' \in PlayerCall /\ call'.at = a /\ call'.clip = call.clip /\ call'.n = call.n
      /\ call'.out = call.out /\ call'.total = call.total /\ call'.played = call.played
  BY <1>2 DEF PlayerCall, PlayerAt, Asked, Reserved
<1>4. a \in Asked /\ a \in PlayerAt /\ a \notin {"queued", "next", "finish", "done", "abandon", "idle", "append"}
      /\ call.at \notin {"queued", "next", "finish", "done", "abandon", "idle", "append"}
  BY DEF Asked, Reserved, PlayerAt
<1>5. S!TypeOK'
  BY <1>1, <1>3, <1>4, TypesAre, TypesGo
<1>6. S!Accounted'
  <2>1. S!Total(device)' = S!Total(device)
    BY <1>1
  <2>2. call'.at \in {"alloc", "start", "refused"}
    BY <1>3 DEF Reserved
  <2> QED  BY <1>3, <2>1, <2>2 DEF S!Accounted
<1>7. QueueOK'
  BY <1>1, <1>3, <1>4 DEF PlayerInv, QueueOK
<1>8. ClipOK'
  <2>1. S!Total(device)' = S!Total(device)
    BY <1>1
  <2> QED  BY <1>1, <1>3, <1>4, <2>1 DEF PlayerInv, ClipOK
<1>9. StreamOK'
  <2>1. InputOK' /\ OutputOK'
    BY <1>1, <1>3, <1>4 DEF PlayerInv, StreamOK, InputOK, OutputOK
  <2>2. StreamOK
    BY DEF PlayerInv
  <2> QED  BY <1>1, <1>3, <1>4, <2>1, <2>2, StreamSame
<1> QED  BY <1>3, <1>5, <1>6, <1>7, <1>8, <1>9 DEF PlayerInv, S!Sound

\* What is stopped is all that the driver has.
LEMMA Stops ==
  ASSUME PlayerInv, S!StopPlayback, call.at # "queued"
  PROVE  device' = <<>> /\ active' = FALSE /\ remaining' = 0
BY DEF S!StopPlayback, PlayerInv, QueueOK

\* The total of nothing.
LEMMA TotalOfNone == S!Total(<<>>) = 0
<1>1. <<>> \in Seq(Transfer) /\ Len(<<>>) = 0
  BY EmptySeq
<1>2. Len(<<>>) \in 0 .. Len(<<>>) /\ 0 \in 0 .. Len(<<>>)
  BY <1>1
<1>3. S!Sums(<<>>)[0] = 0
  BY <1>1, <1>2, SumsOf
<1> QED  BY <1>1, <1>3 DEF S!Total

\* A call goes on when all was stopped.
LEMMA StoppedKeeps ==
  ASSUME PlayerInv, device' = <<>>, active' = FALSE, remaining' = 0, call.at # "queued",
         UNCHANGED <<rate, stream, given, handed>>, audioIo' \in BOOLEAN, failed' \in BOOLEAN,
         call' \in PlayerCall, call'.at \in {"idle", "next", "done"},
         call'.clip <=> call'.at # "idle",
         call'.at # "idle" => call'.total = call'.played + call'.n,
         call'.at = "done" => call'.n = 0
  PROVE  PlayerInv'
<1>1. rate' = rate /\ stream' = stream /\ given' = given /\ handed' = handed
  OBVIOUS
<1>2. call'.at \notin Asked /\ call'.at \notin Reserved /\ call'.at \in PlayerAt
      /\ call'.at \notin {"queued", "append", "finish", "abandon"}
  BY DEF Asked, Reserved, PlayerAt
<1>3. S!TypeOK'
  <2>1. 0 \in 0 .. BufferLimit
    BY PlayerConstants
  <2>2. device' \in Seq([n : 1 .. BufferLimit, clip : BOOLEAN])
    BY EmptySeq
  <2>3. active' \in BOOLEAN
    OBVIOUS
  <2> QED  BY <1>1, <1>2, <2>1, <2>2, <2>3, TypesAre, TypesGo
<1>4. S!Total(device)' = 0
  <2>1. S!Total(device)' = S!Total(<<>>)
    OBVIOUS
  <2> QED  BY <2>1, TotalOfNone
<1>5. S!Accounted'
  BY <1>2, <1>4 DEF S!Accounted, Reserved
<1>6. QueueOK'
  BY <1>2 DEF QueueOK
<1>7. ClipOK'
  <2>1. Len(device') = 0
    BY EmptySeq
  <2>2. \A i \in 1 .. Len(device') : device'[i].clip = call'.clip
    BY <2>1
  <2>3. call'.clip => call'.total = call'.played + 0 + call'.n + 0
    <3>1. call'.played \in Nat /\ call'.n \in Nat
      BY DEF PlayerCall
    <3> QED  BY <3>1
  <2>4. call'.clip /\ call'.at # "abandon" =>
          call'.total = call'.played + S!Total(device)' + call'.n
                        + (IF call'.at \in Asked THEN Len(call'.out) ELSE 0)
    BY <1>2, <1>4, <2>3
  <2> QED  BY <1>2, <2>2, <2>4 DEF ClipOK
<1>8. StreamOK'
  <2>1. InputOK' /\ OutputOK'
    BY <1>2, NothingAsked
  <2>2. StreamOK
    BY DEF PlayerInv
  <2> QED  BY <1>1, <1>2, <2>1, <2>2, StreamSame
<1> QED  BY <1>3, <1>5, <1>6, <1>7, <1>8 DEF PlayerInv, S!Sound

\* Nothing is reserved by a call that is elsewhere.
LEMMA NothingReserved ==
  ASSUME PlayerInv, call.at \notin Reserved
  PROVE  remaining = S!Total(device)
<1>1. S!Total(device) \in Nat /\ remaining = S!Total(device) + 0
  BY PlayerTypes
<1> QED  BY <1>1

-----------------------------------------------------------------------------
(* Its actions.                                                             *)

\* Play is called.
LEMMA CallPlayKeeps ==
  ASSUME PlayerInv, NEW n \in 1 .. MaxPlay, NEW wait \in BOOLEAN, S!CallPlay(n, wait)
  PROVE  PlayerInv'
<1>0. n \in Nat /\ n >= 1
  BY PlayerConstants
<1>1. /\ call.at = "idle" /\ given + n <= MaxInput
      /\ call' = [at |-> "append", clip |-> FALSE, n |-> n, out |-> <<>>, wait |-> wait,
                  total |-> n, played |-> 0]
      /\ rate' = rate /\ stream' = stream /\ audioIo' = audioIo /\ failed' = failed
      /\ remaining' = remaining /\ active' = active /\ device' = device
      /\ given' = given /\ handed' = handed
  BY DEF S!CallPlay, S!At, S!Call, S!driverVars
<1>2. /\ call' \in PlayerCall /\ call'.at = "append" /\ call'.clip = FALSE /\ call'.n = n
      /\ call'.at \notin Asked /\ call'.at \notin Reserved /\ call'.at \in PlayerAt
  <2>1. <<>> \in Seq(Seq(Int))
    BY EmptySeq
  <2> QED  BY <1>0, <1>1, <2>1 DEF PlayerCall, PlayerAt, Asked, Reserved
<1>3. S!TypeOK'
  BY <1>1, <1>2, TypesAre, TypesGo
<1>4. S!Accounted'
  <2>1. S!Total(device)' = S!Total(device)
    BY <1>1
  <2>2. remaining = S!Total(device)
    BY <1>1, NothingReserved DEF Reserved
  <2>3. S!Total(device) \in Nat
    BY PlayerTypes
  <2> QED  BY <1>1, <1>2, <2>1, <2>2, <2>3 DEF S!Accounted
<1>5. QueueOK'
  BY <1>1, <1>2 DEF PlayerInv, QueueOK
<1>6. ClipOK'
  <2>1. call.clip = FALSE
    <3>1. ~call.clip
      BY <1>1 DEF PlayerInv, ClipOK
    <3> QED  BY <3>1, PlayerTypes
  <2>2. \A i \in 1 .. Len(device') : device'[i].clip = call'.clip
    BY <1>1, <1>2, <2>1 DEF PlayerInv, ClipOK
  <2> QED  BY <1>2, <2>2 DEF ClipOK
<1>7. StreamOK'
  <2>1. InputOK' /\ OutputOK'
    BY <1>0, <1>1, <1>2 DEF InputOK, OutputOK
  <2>2. StreamOK
    BY DEF PlayerInv
  <2> QED  BY <1>1, <1>2, <2>1, <2>2, StreamSame
<1> QED  BY <1>2, <1>3, <1>4, <1>5, <1>6, <1>7 DEF PlayerInv, S!Sound

\* Play finds the queue full.
LEMMA FullKeeps ==
  ASSUME PlayerInv, S!Full
  PROVE  PlayerInv'
<1>1. /\ call.at = "append" /\ call' = S!Idle
      /\ rate' = rate /\ stream' = stream /\ audioIo' = audioIo /\ failed' = failed
      /\ remaining' = remaining /\ active' = active /\ device' = device
      /\ given' = given /\ handed' = handed
  BY DEF S!Full, S!At, S!driverVars
<1>2. ~call.clip
  BY <1>1 DEF PlayerInv, ClipOK
<1>3. remaining' = S!Total(device)
  BY <1>1, NothingReserved DEF Reserved
<1>4. audioIo' \in BOOLEAN /\ failed' \in BOOLEAN
  BY <1>1, TypesAre
<1> QED  BY <1>1, <1>2, <1>3, <1>4, EndsIdle

\* What EnsurePcmAudio leaves are truth values.
LEMMA EnsureTypes ==
  ASSUME PlayerInv, NEW ok, S!EnsurePcmAudio(ok)
  PROVE  audioIo' \in BOOLEAN /\ failed' \in BOOLEAN
<1>1. CASE audioIo
  BY <1>1, TypesAre DEF S!EnsurePcmAudio
<1>2. CASE ~audioIo
  BY <1>2 DEF S!EnsurePcmAudio
<1> QED  BY <1>1, <1>2

\* What was converted is committed: the whole input is known up to it.
LEMMA CommitKeeps ==
  ASSUME KeptOK, rate \in Rates, stream.out = Converted(given, rate), NEW n \in Nat, n >= 1, NEW k \in Nat,
         k = Converted(given + n, rate) - Converted(given, rate),
         S!CommitStreamingPcmState(n, k), rate' = rate
  PROVE  /\ KeptOK' /\ given' = given + n /\ stream'.out = Converted(given', rate')
         /\ stream' \in [hasLast : BOOLEAN, last : Nat, in : Nat, out : Nat]
<1>1. stream.in = given /\ given \in Nat
  BY DEF KeptOK
<1>2. PICK g \in Nat : g = given + n /\ g >= 1
  BY <1>1
<1>3. PICK a \in Nat : a = Converted(given, rate)
  BY <1>1, ConvertedGrows
<1>4. a + k = Converted(g, rate) /\ a + k \in Nat
  <2>1. Converted(g, rate) \in Nat
    BY <1>1, <1>2, ConvertedGrows
  <2> QED  BY <1>2, <1>3, <2>1
<1>5. stream' = [hasLast |-> TRUE, last |-> g - 1, in |-> g, out |-> a + k] /\ given' = g
  <2>1. given + n - 1 = g - 1
    BY <1>1, <1>2
  <2> QED  BY <1>1, <1>2, <1>3, <2>1 DEF S!CommitStreamingPcmState
<1>6. stream'.in = g /\ stream'.hasLast = TRUE /\ stream'.last = g - 1 /\ stream'.out = a + k
      /\ g - 1 \in Nat
  BY <1>2, <1>5
<1>7. KeptOK'
  BY <1>2, <1>5, <1>6 DEF KeptOK
<1>8. stream' \in [hasLast : BOOLEAN, last : Nat, in : Nat, out : Nat]
  BY <1>4, <1>5, <1>6
<1> QED  BY <1>2, <1>4, <1>5, <1>6, <1>7, <1>8

\* A chunk was committed, and with it what the driver was given is again the whole.
LEMMA CommittedKeeps ==
  ASSUME PlayerInv, ~call.clip, call.n >= 1, given + call.n <= MaxInput, call.at \notin Reserved,
         NEW k \in Nat, k = Converted(given + call.n, rate) - Converted(given, rate),
         S!CommitStreamingPcmState(call.n, k), Len(handed) = Converted(given, rate) + k,
         call' = S!Idle, UNCHANGED <<rate, remaining, device, handed>>,
         audioIo' \in BOOLEAN, failed' \in BOOLEAN, active' \in BOOLEAN, device # <<>> => active'
  PROVE  PlayerInv'
<1>1. rate' = rate /\ remaining' = remaining /\ device' = device /\ handed' = handed
  OBVIOUS
<1>2. /\ call' \in PlayerCall /\ call'.at = "idle" /\ call'.clip = FALSE /\ call'.n = 0
      /\ call'.at \notin Asked /\ call'.at \notin Reserved
  BY IdleIs
<1>3. KeptOK /\ rate \in Rates /\ stream.out = Converted(given, rate) /\ call.n \in Nat /\ given \in Nat
  BY PlayerTypes DEF PlayerInv, StreamOK
<1>4. /\ KeptOK' /\ given' = given + call.n /\ stream'.out = Converted(given', rate')
      /\ stream' \in [hasLast : BOOLEAN, last : Nat, in : Nat, out : Nat]
  BY <1>1, <1>3, CommitKeeps
<1>5. S!TypeOK'
  <2>1. given' \in 0 .. MaxInput
    BY <1>3, <1>4, PlayerConstants
  <2>2. call'.at \in PlayerAt
    BY <1>2 DEF PlayerAt
  <2> QED  BY <1>1, <1>4, <2>1, <2>2, TypesAre, TypesGo
<1>6. S!Accounted'
  <2>1. S!Total(device)' = S!Total(device)
    BY <1>1
  <2>2. S!Total(device) + 0 = S!Total(device) /\ remaining = S!Total(device)
    BY NothingReserved, PlayerTypes
  <2> QED  BY <1>1, <1>2, <2>1, <2>2 DEF S!Accounted
<1>7. QueueOK'
  BY <1>1, <1>2 DEF QueueOK
<1>8. ClipOK'
  <2>1. call'.clip = call.clip
    <3>1. call.clip \in BOOLEAN
      BY PlayerTypes
    <3> QED  BY <1>2, <3>1
  <2>2. \A i \in 1 .. Len(device') : device'[i].clip = call'.clip
    BY <1>1, <2>1 DEF PlayerInv, ClipOK
  <2> QED  BY <1>2, <2>2 DEF ClipOK
<1>9. InputOK' /\ OutputOK'
  <2>1. call'.at # "append" /\ call'.at \notin Asked \cup {"queued"}
    BY <1>2
  <2> QED  BY <2>1, NothingAsked
<1>10. HandedOK'
  <2>1. PICK g \in Nat : g = given + call.n
    BY <1>3
  <2>2. Converted(g, rate) \in Nat /\ Converted(given, rate) \in Nat
    BY <1>3, <2>1, ConvertedGrows
  <2>3. Len(handed) = Converted(g, rate) + 0
    BY <2>1, <2>2
  <2>4. Len(handed') = Converted(given', rate') + 0
    BY <1>1, <1>4, <2>1, <2>3
  <2>5. handed' \in Seq(Seq(Int)) /\ \A i \in 1 .. Len(handed') : handed'[i] = OutputFrame(i - 1, rate')
    BY <1>1 DEF PlayerInv, StreamOK, HandedOK
  <2> QED  BY <1>2, <2>4, <2>5 DEF HandedOK
<1>11. StreamOK'
  BY <1>4, <1>9, <1>10 DEF StreamOK
<1> QED  BY <1>2, <1>5, <1>6, <1>7, <1>8, <1>11 DEF PlayerInv, S!Sound

\* Play converts what it was given.
LEMMA AppendKeeps ==
  ASSUME PlayerInv, S!AppendPcm
  PROVE  PlayerInv'
<1> DEFINE out == S!ConvertStreamingPcm(call.n)
<1>1. call.at = "append" /\ rate' = rate /\ remaining' = remaining /\ active' = active
      /\ device' = device /\ handed' = handed
  BY DEF S!AppendPcm, S!At
<1>2. PICK ok \in BOOLEAN :
        /\ S!EnsurePcmAudio(ok)
        /\ IF ~ok THEN call' = S!Idle /\ UNCHANGED <<stream, given>>
           ELSE IF out = <<>> THEN S!CommitStreamingPcmState(call.n, 0) /\ call' = S!Idle
           ELSE call' = [call EXCEPT !.at = "reserve", !.out = out] /\ UNCHANGED <<stream, given>>
  BY DEF S!AppendPcm
<1>3. audioIo' \in BOOLEAN /\ failed' \in BOOLEAN
  BY <1>2, EnsureTypes
<1>4. ~call.clip /\ call.n >= 1 /\ given + call.n <= MaxInput
  BY <1>1 DEF PlayerInv, ClipOK, StreamOK, InputOK
<1>5. call.at \notin Reserved /\ call.at \notin Asked /\ call.at # "queued"
  BY <1>1 DEF Reserved, Asked
<1>6. KeptOK /\ rate \in Rates /\ stream.out = Converted(given, rate) /\ call.n \in Nat /\ given \in Nat
  BY PlayerTypes DEF PlayerInv, StreamOK
<1>7. /\ out \in Seq(Seq(Int))
      /\ Len(out) = Converted(given + call.n, rate) - Converted(given, rate)
      /\ \A i \in 1 .. Len(out) : out[i] = OutputFrame(Converted(given, rate) + i - 1, rate)
  BY <1>4, <1>6, ChunkIs
<1>8. active' \in BOOLEAN /\ (device # <<>> => active')
  BY <1>1, <1>5, TypesAre DEF PlayerInv, QueueOK
<1> HIDE DEF out
<1>9. CASE ~ok
  <2>1. call' = S!Idle /\ stream' = stream /\ given' = given
    BY <1>2, <1>9
  <2>2. remaining' = S!Total(device)
    BY <1>1, <1>5, NothingReserved
  <2> QED  BY <1>1, <1>3, <1>4, <1>5, <2>1, <2>2, EndsIdle
<1>10. CASE ok /\ out = <<>>
  <2>1. S!CommitStreamingPcmState(call.n, 0) /\ call' = S!Idle
    BY <1>2, <1>10
  <2>2. 0 = Converted(given + call.n, rate) - Converted(given, rate)
    <3>1. Len(out) = 0
      BY <1>10, EmptySeq
    <3> QED  BY <1>7, <3>1
  <2>3. Len(handed) = Converted(given, rate) + 0
    BY <1>1 DEF PlayerInv, StreamOK, HandedOK
  <2> QED  BY <1>1, <1>3, <1>4, <1>5, <1>8, <2>1, <2>2, <2>3, CommittedKeeps
<1>11. CASE ok /\ out # <<>>
  <2>1. call' = [call EXCEPT !.at = "reserve", !.out = out] /\ stream' = stream /\ given' = given
    BY <1>2, <1>11
  <2>2. call \in PlayerCall
    BY DEF PlayerInv
  <2>3. /\ call' \in PlayerCall /\ call'.at = "reserve" /\ call'.clip = call.clip /\ call'.n = call.n
        /\ call'.out = out /\ call'.at \in Asked /\ call'.at \notin Reserved /\ call'.at \in PlayerAt
        /\ call'.at \notin {"queued", "append", "next", "finish", "done", "abandon", "idle"}
    BY <1>7, <2>1, <2>2 DEF PlayerCall, PlayerAt, Asked, Reserved
  <2>4. Len(out) >= 1
    <3>1. Len(out) \in Nat /\ Len(out) # 0
      BY <1>7, <1>11, EmptySeq, LenProperties
    <3> QED  BY <3>1
  <2>5. S!TypeOK'
    BY <1>1, <1>3, <2>1, <2>3, TypesAre, TypesGo
  <2>6. S!Accounted'
    <3>1. S!Total(device)' = S!Total(device)
      BY <1>1
    <3>2. S!Total(device) + 0 = S!Total(device) /\ remaining = S!Total(device)
      BY <1>5, NothingReserved, PlayerTypes
    <3> QED  BY <1>1, <2>3, <3>1, <3>2 DEF S!Accounted, Reserved
  <2>7. QueueOK'
    BY <1>1, <1>5, <2>3, <2>4 DEF PlayerInv, QueueOK
  <2>8. ClipOK'
    BY <1>1, <1>4, <2>3 DEF PlayerInv, ClipOK
  <2>9. StreamOK'
    <3>1. InputOK'
      BY <1>4, <2>1, <2>3 DEF InputOK
    <3>2. OutputOK'
      BY <1>1, <1>7, <2>1, <2>3 DEF OutputOK
    <3>3. StreamOK
      BY DEF PlayerInv
    <3> QED  BY <1>1, <1>5, <2>1, <2>3, <3>1, <3>2, <3>3, StreamSame
  <2> QED  BY <2>3, <2>5, <2>6, <2>7, <2>8, <2>9 DEF PlayerInv, S!Sound
<1> QED  BY <1>9, <1>10, <1>11

\* Capacity is reserved, or there is none.
LEMMA ReserveKeeps ==
  ASSUME PlayerInv, S!ReserveStreamingCapacity
  PROVE  PlayerInv'
<1>1. /\ call.at = "reserve" /\ rate' = rate /\ stream' = stream /\ audioIo' = audioIo /\ failed' = failed
      /\ active' = active /\ device' = device /\ given' = given /\ handed' = handed
  BY DEF S!ReserveStreamingCapacity, S!At
<1>2. call.at \in Asked /\ call.at \notin Reserved
  BY <1>1 DEF Asked, Reserved
<1>3. remaining = S!Total(device)
  BY <1>2, NothingReserved
<1>4. \/ /\ remaining <= BufferLimit - Len(call.out)
         /\ remaining' = remaining + Len(call.out) /\ call' = [call EXCEPT !.at = "alloc"]
      \/ S!Fails /\ remaining' = remaining
  BY DEF S!ReserveStreamingCapacity, S!GoTo
<1>5. CASE S!Fails /\ remaining' = remaining
  BY <1>1, <1>2, <1>3, <1>5, FailsKeeps, TypesAre
<1>6. CASE /\ remaining <= BufferLimit - Len(call.out)
           /\ remaining' = remaining + Len(call.out) /\ call' = [call EXCEPT !.at = "alloc"]
  <2>1. remaining' \in 0 .. BufferLimit
    <3>1. PICK r \in Nat : r = remaining
      BY PlayerTypes
    <3>2. PICK l \in Nat : l = Len(call.out)
      BY PlayerTypes
    <3> QED  BY <1>6, <3>1, <3>2, PlayerConstants
  <2>2. "alloc" \in Reserved
    BY DEF Reserved
  <2>3. remaining' = S!Total(device) + Len(call.out)
    BY <1>3, <1>6
  <2> QED  BY <1>1, <1>2, <1>6, <2>1, <2>2, <2>3, HoldsKeeps
<1> QED  BY <1>4, <1>5, <1>6

\* What a call has reserved, with what the driver has, is what is counted.
LEMMA HasReserved ==
  ASSUME PlayerInv, call.at \in Reserved
  PROVE  remaining = S!Total(device) + Len(call.out) /\ call.at \in Asked
BY PlayerTypes DEF Reserved, Asked

\* Memory is allocated, or there is none.
LEMMA AllocKeeps ==
  ASSUME PlayerInv, S!Alloc
  PROVE  PlayerInv'
<1>1. /\ call.at = "alloc" /\ rate' = rate /\ stream' = stream /\ audioIo' = audioIo /\ failed' = failed
      /\ active' = active /\ device' = device /\ given' = given /\ handed' = handed
  BY DEF S!Alloc, S!At
<1>2. call.at \in Asked /\ call.at \in Reserved
  BY <1>1 DEF Asked, Reserved
<1>3. \/ call' = [call EXCEPT !.at = "start"] /\ remaining' = remaining
      \/ S!Fails /\ remaining' = S!Less(Len(call.out))
  BY DEF S!Alloc, S!GoTo
<1>4. CASE call' = [call EXCEPT !.at = "start"] /\ remaining' = remaining
  <2>1. "start" \in Reserved
    BY DEF Reserved
  <2>2. remaining' = S!Total(device) + Len(call.out) /\ remaining' \in 0 .. BufferLimit
    BY <1>2, <1>4, HasReserved, TypesAre
  <2> QED  BY <1>1, <1>2, <1>4, <2>1, <2>2, HoldsKeeps
<1>5. CASE S!Fails /\ remaining' = S!Less(Len(call.out))
  <2>1. remaining' = S!Total(device)
    BY <1>2, <1>5, GivesBack
  <2> QED  BY <1>1, <1>2, <1>5, <2>1, FailsKeeps, TypesAre
<1> QED  BY <1>3, <1>4, <1>5

\* The driver refuses a transfer.
LEMMA RefusedKeeps ==
  ASSUME PlayerInv, S!Refused
  PROVE  PlayerInv'
<1>1. /\ call.at = "refused" /\ rate' = rate /\ stream' = stream /\ audioIo' = audioIo /\ failed' = TRUE
      /\ active' = active /\ device' = device /\ given' = given /\ handed' = handed
      /\ S!Fails /\ remaining' = S!Less(Len(call.out))
  BY DEF S!Refused, S!At
<1>2. call.at \in Asked /\ call.at \in Reserved
  BY <1>1 DEF Asked, Reserved
<1>3. remaining' = S!Total(device)
  BY <1>1, <1>2, GivesBack
<1>4. audioIo' \in BOOLEAN /\ failed' \in BOOLEAN
  BY <1>1, TypesAre
<1> QED  BY <1>1, <1>2, <1>3, <1>4, FailsKeeps

\* The driver takes a transfer, or not.
LEMMA StartKeeps ==
  ASSUME PlayerInv, S!StartPlayback
  PROVE  PlayerInv'
<1> DEFINE x == [n |-> Len(call.out), clip |-> call.clip]
<1>1. /\ call.at = "start" /\ rate' = rate /\ stream' = stream /\ audioIo' = audioIo /\ failed' = failed
      /\ remaining' = remaining /\ active' = active /\ given' = given
  BY DEF S!StartPlayback, S!At
<1>2. call.at \in Asked /\ call.at \in Reserved
  BY <1>1 DEF Asked, Reserved
<1>3. \/ /\ device' = Append(device, x)
         /\ handed' = IF call.clip THEN handed ELSE handed \o call.out
         /\ call' = [call EXCEPT !.at = "queued"]
      \/ call' = [call EXCEPT !.at = "refused"] /\ device' = device /\ handed' = handed
  BY DEF S!StartPlayback, S!GoTo
<1>4. remaining = S!Total(device) + Len(call.out) /\ Len(call.out) >= 1 /\ Len(call.out) \in Nat
      /\ Len(call.out) <= BufferLimit
  <2>1. remaining = S!Total(device) + Len(call.out) /\ Len(call.out) >= 1
    BY <1>2, HasReserved DEF PlayerInv, QueueOK
  <2>2. PICK t \in Nat : t = S!Total(device)
    BY PlayerTypes
  <2>3. PICK l \in Nat : l = Len(call.out)
    BY PlayerTypes
  <2>4. PICK r \in Nat : r = remaining /\ r <= BufferLimit
    BY PlayerTypes
  <2>5. l <= r
    BY <2>1, <2>2, <2>3, <2>4
  <2> QED  BY <2>1, <2>3, <2>4, <2>5, PlayerConstants
<1>5. CASE call' = [call EXCEPT !.at = "refused"] /\ device' = device /\ handed' = handed
  <2>1. "refused" \in Reserved
    BY DEF Reserved
  <2>2. remaining' = S!Total(device) + Len(call.out) /\ remaining' \in 0 .. BufferLimit
    BY <1>1, <1>4, TypesAre
  <2> QED  BY <1>1, <1>2, <1>5, <2>1, <2>2, HoldsKeeps
<1>6. CASE /\ device' = Append(device, x)
           /\ handed' = IF call.clip THEN handed ELSE handed \o call.out
           /\ call' = [call EXCEPT !.at = "queued"]
  <2>1. call \in PlayerCall
    BY DEF PlayerInv
  <2>2. /\ call' \in PlayerCall /\ call'.at = "queued" /\ call'.clip = call.clip /\ call'.n = call.n
        /\ call'.out = call.out /\ call'.total = call.total /\ call'.played = call.played
        /\ call'.at \notin Asked /\ call'.at \notin Reserved /\ call'.at \in PlayerAt
    BY <1>6, <2>1 DEF PlayerCall, PlayerAt, Asked, Reserved
  <2>3. x \in Transfer /\ x \in [n : 1 .. BufferLimit, clip : BOOLEAN] /\ x.n = Len(call.out) /\ x.clip = call.clip
    <3>1. Len(call.out) \in 1 .. BufferLimit
      BY <1>4, PlayerConstants
    <3> QED  BY <1>4, <3>1, PlayerTypes DEF Transfer
  <2> HIDE DEF x
  <2>4. device \in Seq(Transfer) /\ device \in Seq([n : 1 .. BufferLimit, clip : BOOLEAN]) /\ Len(device) \in Nat
    BY PlayerTypes, TypesAre
  <2>5. S!Total(device') = S!Total(device) + Len(call.out)
    BY <1>6, <2>3, <2>4, TotalAppended
  <2>6. S!TypeOK'
    <3>1. device' \in Seq([n : 1 .. BufferLimit, clip : BOOLEAN])
      BY <1>6, <2>3, <2>4, AppendProperties
    <3> QED  BY <1>1, <2>2, <3>1, TypesAre, TypesGo
  <2>7. S!Accounted'
    <3>1. remaining = S!Total(device')
      BY <1>4, <2>5
    <3>2. remaining \in Nat
      BY PlayerTypes
    <3>3. remaining = S!Total(device') + 0
      BY <3>1, <3>2
    <3> QED  BY <1>1, <2>2, <3>3 DEF S!Accounted, Reserved
  <2>8. QueueOK'
    BY <1>4, <2>2 DEF QueueOK
  <2>9. ClipOK'
    <3>1. \A i \in 1 .. Len(device') : device'[i].clip = call'.clip
      <4>1. /\ Len(device') = Len(device) + 1 /\ device'[Len(device) + 1] = x
            /\ \A i \in 1 .. Len(device) : device'[i] = device[i]
        BY <1>6, <2>3, <2>4, AppendProperties
      <4>2. \A i \in 1 .. Len(device) : device[i].clip = call.clip
        BY DEF PlayerInv, ClipOK
      <4>3. ASSUME NEW i \in 1 .. Len(device') PROVE device'[i].clip = call'.clip
        <5>1. CASE i = Len(device) + 1
          BY <2>2, <2>3, <4>1, <5>1
        <5>2. CASE i \in 1 .. Len(device)
          BY <2>2, <4>1, <4>2, <5>2
        <5> QED  BY <2>4, <4>1, <5>1, <5>2
      <4> QED  BY <4>3
    <3>2. ASSUME call.clip
          PROVE  call.total = call.played + S!Total(device') + call.n + 0
      <4>1. call.total = call.played + S!Total(device) + call.n + Len(call.out)
        BY <1>1, <1>2, <3>2 DEF PlayerInv, ClipOK
      <4>2. PICK t \in Nat : t = S!Total(device)
        BY PlayerTypes
      <4>3. PICK l \in Nat : l = Len(call.out)
        BY PlayerTypes
      <4>4. PICK c \in Nat : c = call.n
        BY PlayerTypes
      <4>5. PICK d \in Nat : d = call.played
        BY PlayerTypes
      <4>6. d + t + c + l = d + (t + l) + c + 0
        OBVIOUS
      <4> QED  BY <2>5, <4>1, <4>2, <4>3, <4>4, <4>5, <4>6
    <3> QED  BY <2>2, <3>1, <3>2 DEF ClipOK
  <2>10. StreamOK'
    <3>1. KeptOK' /\ stream'.out = Converted(given', rate') /\ InputOK'
      BY <1>1, <1>2, <2>2 DEF PlayerInv, StreamOK, KeptOK, InputOK
    <3>2. OutputOK'
      BY <1>1, <1>2, <2>2 DEF PlayerInv, StreamOK, OutputOK
    <3>3. HandedOK'
      <4>1. CASE call.clip
        <5>1. Len(handed) = Converted(given, rate) + 0 /\ handed \in Seq(Seq(Int))
              /\ \A i \in 1 .. Len(handed) : handed[i] = OutputFrame(i - 1, rate)
          BY <4>1 DEF PlayerInv, StreamOK, HandedOK
        <5>2. handed' = handed
          BY <1>6, <4>1
        <5> QED  BY <1>1, <2>2, <4>1, <5>1, <5>2 DEF HandedOK
      <4>2. CASE ~call.clip
        <5>1. Len(handed) = Converted(given, rate) + 0 /\ handed \in Seq(Seq(Int))
              /\ \A i \in 1 .. Len(handed) : handed[i] = OutputFrame(i - 1, rate)
          BY <1>1 DEF PlayerInv, StreamOK, HandedOK
        <5>2. \A i \in 1 .. Len(call.out) : call.out[i] = OutputFrame(Converted(given, rate) + i - 1, rate)
          BY <1>2, <4>2 DEF PlayerInv, StreamOK, OutputOK
        <5>3. handed' = handed \o call.out /\ call.out \in Seq(Seq(Int))
          BY <1>6, <4>2, PlayerTypes
        <5>4. PICK a \in Nat : a = Converted(given, rate) /\ Len(handed) = a
          BY <5>1, PlayerTypes
        <5>5. PICK l \in Nat : l = Len(call.out)
          BY PlayerTypes
        <5>6. /\ handed' \in Seq(Seq(Int)) /\ Len(handed') = a + l
              /\ \A i \in 1 .. a + l : handed'[i] = IF i <= a THEN handed[i] ELSE call.out[i - a]
          <6>1. /\ handed \o call.out \in Seq(Seq(Int)) /\ Len(handed \o call.out) = Len(handed) + Len(call.out)
                /\ \A i \in 1 .. Len(handed) + Len(call.out) :
                     (handed \o call.out)[i] = IF i <= Len(handed) THEN handed[i]
                                               ELSE call.out[i - Len(handed)]
            BY <5>1, <5>3, ConcatProperties
          <6> QED  BY <5>3, <5>4, <5>5, <6>1
        <5>7. ASSUME NEW i \in 1 .. a + l PROVE handed'[i] = OutputFrame(i - 1, rate)
          <6>1. CASE i <= a
            BY <5>1, <5>4, <5>6, <6>1
          <6>2. CASE i > a
            <7>1. PICK j \in 1 .. l : j = i - a
              BY <6>2
            <7>2. call.out[j] = OutputFrame(a + j - 1, rate)
              BY <5>2, <5>4, <5>5, <7>1
            <7>3. a + j - 1 = i - 1 /\ ~(i <= a)
              BY <6>2, <7>1
            <7> QED  BY <5>6, <7>1, <7>2, <7>3
          <6> QED  BY <6>1, <6>2
        <5> QED  BY <1>1, <2>2, <4>2, <5>4, <5>5, <5>6, <5>7 DEF HandedOK
      <4>3. call.clip \in BOOLEAN
        BY PlayerTypes
      <4> QED  BY <4>1, <4>2, <4>3
    <3> QED  BY <3>1, <3>2, <3>3 DEF StreamOK
  <2> QED  BY <2>2, <2>6, <2>7, <2>8, <2>9, <2>10 DEF PlayerInv, S!Sound
<1> HIDE DEF x
<1> QED  BY <1>3, <1>5, <1>6

\* A call goes on to something for which it needs nothing yet, and the driver with what it has.
LEMMA GoesOnKeeps ==
  ASSUME PlayerInv, call.clip, call' \in PlayerCall, call'.clip = call.clip,
         call'.at \in {"next", "finish", "reserve"}, call.at \notin Asked, call.at # "abandon",
         call'.n + (IF call'.at = "reserve" THEN Len(call'.out) ELSE 0) = call.n,
         call'.at = "reserve" => Len(call'.out) >= 1, call'.at = "finish" => call'.n = 0,
         call'.total = call.total, call'.played = call.played,
         UNCHANGED <<rate, stream, audioIo, failed, remaining, device, given, handed>>,
         active' \in BOOLEAN, device # <<>> => active'
  PROVE  PlayerInv'
<1>1. /\ rate' = rate /\ stream' = stream /\ given' = given /\ handed' = handed
      /\ remaining' = remaining /\ device' = device /\ audioIo' = audioIo /\ failed' = failed
  OBVIOUS
<1>2. call'.at \notin Reserved /\ call'.at \in PlayerAt /\ call.at \notin Reserved
      /\ (call'.at \in Asked <=> call'.at = "reserve")
      /\ call'.at \notin {"queued", "append", "done", "abandon", "idle"}
  BY DEF Asked, Reserved, PlayerAt
<1>3. S!TypeOK'
  BY <1>1, <1>2, TypesAre, TypesGo
<1>4. S!Accounted'
  <2>1. S!Total(device)' = S!Total(device)
    BY <1>1
  <2>2. S!Total(device) + 0 = S!Total(device) /\ remaining = S!Total(device)
    BY <1>2, NothingReserved, PlayerTypes
  <2> QED  BY <1>1, <1>2, <2>1, <2>2 DEF S!Accounted, Reserved
<1>5. QueueOK'
  BY <1>1, <1>2 DEF QueueOK
<1>6. ClipOK'
  <2>1. \A i \in 1 .. Len(device') : device'[i].clip = call'.clip
    BY <1>1 DEF PlayerInv, ClipOK
  <2>2. call.total = call.played + S!Total(device) + call.n + 0
    BY DEF PlayerInv, ClipOK
  <2>3. PICK t \in Nat : t = S!Total(device)
    BY PlayerTypes
  <2>4. PICK c \in Nat : c = call'.n
    BY DEF PlayerCall
  <2>5. PICK d \in Nat : d = call.played
    BY PlayerTypes
  <2>6. PICK l \in Nat : l = (IF call'.at = "reserve" THEN Len(call'.out) ELSE 0)
    <3>1. Len(call'.out) \in Nat
      BY LenProperties DEF PlayerCall
    <3> QED  BY <3>1
  <2>7. call.n = c + l
    BY <2>4, <2>6
  <2>8. d + t + (c + l) + 0 = d + t + c + l
    OBVIOUS
  <2>9. call'.total = call'.played + S!Total(device') + call'.n
                      + (IF call'.at \in Asked THEN Len(call'.out) ELSE 0)
    BY <1>1, <1>2, <2>2, <2>3, <2>4, <2>5, <2>6, <2>7, <2>8
  <2> QED  BY <1>2, <2>1, <2>9 DEF ClipOK
<1>7. StreamOK'
  <2>1. InputOK' /\ OutputOK'
    BY <1>2, NothingAsked
  <2>2. StreamOK
    BY DEF PlayerInv
  <2> QED  BY <1>1, <1>2, <2>1, <2>2, StreamSame
<1> QED  BY <1>3, <1>4, <1>5, <1>6, <1>7 DEF PlayerInv, S!Sound

\* A transfer was queued.
LEMMA QueuedKeeps ==
  ASSUME PlayerInv, S!Queued
  PROVE  PlayerInv'
<1>1. /\ call.at = "queued" /\ active' = TRUE /\ rate' = rate /\ audioIo' = audioIo /\ failed' = failed
      /\ remaining' = remaining /\ device' = device /\ handed' = handed
  BY DEF S!Queued, S!At
<1>2. call.at \notin Asked /\ call.at \notin Reserved
  BY <1>1 DEF Asked, Reserved
<1>3. call.clip \in BOOLEAN /\ audioIo' \in BOOLEAN /\ failed' \in BOOLEAN
  BY <1>1, PlayerTypes, TypesAre
<1>4. CASE call.clip
  <2>1. call' = [call EXCEPT !.at = "next"] /\ stream' = stream /\ given' = given
    BY <1>4 DEF S!Queued, S!GoTo
  <2>2. call \in PlayerCall
    BY DEF PlayerInv
  <2>3. /\ call' \in PlayerCall /\ call'.at = "next" /\ call'.clip = call.clip /\ call'.n = call.n
        /\ call'.total = call.total /\ call'.played = call.played
    BY <2>1, <2>2 DEF PlayerCall, PlayerAt
  <2>4. call'.n + 0 = call.n
    BY <2>3, PlayerTypes
  <2> QED  BY <1>1, <1>2, <1>4, <2>1, <2>3, <2>4, GoesOnKeeps
<1>5. CASE ~call.clip
  <2>1. S!CommitStreamingPcmState(call.n, Len(call.out)) /\ call' = S!Idle
    BY <1>5 DEF S!Queued
  <2>2. Len(call.out) = Converted(given + call.n, rate) - Converted(given, rate)
    BY <1>1, <1>5 DEF PlayerInv, StreamOK, OutputOK
  <2>3. Len(handed) = Converted(given, rate) + Len(call.out)
    BY <1>1, <1>5 DEF PlayerInv, StreamOK, HandedOK
  <2>4. call.n >= 1 /\ given + call.n <= MaxInput
    BY <1>1, <1>5 DEF PlayerInv, StreamOK, InputOK
  <2>5. Len(call.out) \in Nat
    BY PlayerTypes
  <2> QED  BY <1>1, <1>2, <1>3, <1>5, <2>1, <2>2, <2>3, <2>4, <2>5, CommittedKeeps
<1> QED  BY <1>3, <1>4, <1>5

\* PlaySync is called.
LEMMA CallPlaySyncKeeps ==
  ASSUME PlayerInv, NEW n \in Clips, S!CallPlaySync(n)
  PROVE  PlayerInv'
<1>1. call.at = "idle" /\ rate' = rate /\ stream' = stream /\ given' = given /\ handed' = handed
  BY DEF S!CallPlaySync, S!At
<1>2. PICK ok \in BOOLEAN :
        /\ S!EnsurePcmAudio(ok)
        /\ call' = IF ok THEN S!Call("next", TRUE, n, TRUE) ELSE S!Idle
        /\ IF ok THEN S!StopPlayback ELSE UNCHANGED <<remaining, active, device>>
  BY DEF S!CallPlaySync
<1>3. audioIo' \in BOOLEAN /\ failed' \in BOOLEAN
  BY <1>2, EnsureTypes
<1>4. ~call.clip /\ call.at # "queued" /\ call.at \notin Reserved
  BY <1>1 DEF PlayerInv, ClipOK, Reserved
<1>5. CASE ok
  <2>1. device' = <<>> /\ active' = FALSE /\ remaining' = 0
    BY <1>2, <1>4, <1>5, Stops
  <2>2. n \in Nat
    BY PlayerConstants
  <2>3. call' = [at |-> "next", clip |-> TRUE, n |-> n, out |-> <<>>, wait |-> TRUE,
                 total |-> n, played |-> 0]
    BY <1>2, <1>5 DEF S!Call
  <2>4. /\ call' \in PlayerCall /\ call'.at = "next" /\ call'.clip = TRUE /\ call'.total = n
        /\ call'.played = 0 /\ call'.n = n
    <3>1. <<>> \in Seq(Seq(Int))
      BY EmptySeq
    <3> QED  BY <2>2, <2>3, <3>1 DEF PlayerCall, PlayerAt
  <2>5. call'.total = call'.played + call'.n
    BY <2>2, <2>4
  <2> QED  BY <1>1, <1>3, <1>4, <2>1, <2>4, <2>5, StoppedKeeps
<1>6. CASE ~ok
  <2>1. call' = S!Idle /\ remaining' = remaining /\ active' = active /\ device' = device
    BY <1>2, <1>6
  <2>2. remaining' = S!Total(device)
    BY <1>4, <2>1, NothingReserved
  <2> QED  BY <1>1, <1>3, <1>4, <2>1, <2>2, EndsIdle
<1> QED  BY <1>5, <1>6

\* The next chunk of a clip.
LEMMA NextChunkKeeps ==
  ASSUME PlayerInv, S!NextChunk
  PROVE  PlayerInv'
<1>1. /\ call.at = "next" /\ rate' = rate /\ stream' = stream /\ audioIo' = audioIo /\ failed' = failed
      /\ remaining' = remaining /\ active' = active /\ device' = device
      /\ given' = given /\ handed' = handed
  BY DEF S!NextChunk, S!At, S!driverVars
<1>2. call.clip /\ call.at \notin Asked /\ call.at # "abandon" /\ call \in PlayerCall /\ call.n \in Nat
  BY <1>1, PlayerTypes DEF PlayerInv, ClipOK, Asked
<1>3. active' \in BOOLEAN /\ (device # <<>> => active')
  BY <1>1, TypesAre DEF PlayerInv, QueueOK
<1>4. PICK k \in Nat : k = (IF call.n < ChunkLimit THEN call.n ELSE ChunkLimit) /\ k <= call.n
                       /\ (k = 0 => call.n = 0)
  BY <1>2, PlayerConstants
<1>5. call' = IF k = 0 THEN [call EXCEPT !.at = "finish"]
              ELSE [call EXCEPT !.at = "reserve", !.n = @ - k, !.out = [i \in 1 .. k |-> <<>>]]
  BY <1>4 DEF S!NextChunk
<1>6. CASE k = 0
  <2>1. call' = [call EXCEPT !.at = "finish"]
    BY <1>5, <1>6
  <2>2. /\ call' \in PlayerCall /\ call'.at = "finish" /\ call'.clip = call.clip /\ call'.n = call.n
        /\ call'.total = call.total /\ call'.played = call.played
    BY <1>2, <2>1 DEF PlayerCall, PlayerAt
  <2>3. call'.n + 0 = call.n /\ call'.n = 0
    BY <1>2, <1>4, <1>6, <2>2
  <2> QED  BY <1>1, <1>2, <1>3, <2>2, <2>3, GoesOnKeeps
<1>7. CASE k # 0
  <2> DEFINE o == [i \in 1 .. k |-> <<>>]
  <2>1. o \in Seq(Seq(Int)) /\ Len(o) = k
    <3>1. <<>> \in Seq(Int)
      BY EmptySeq
    <3>2. o \in [1 .. k -> Seq(Int)]
      BY <3>1
    <3> HIDE DEF o
    <3> QED  BY <3>2, MapIsSeq
  <2>2. call' = [call EXCEPT !.at = "reserve", !.n = call.n - k, !.out = o]
    BY <1>5, <1>7
  <2> HIDE DEF o
  <2>3. PICK m \in Nat : m = call.n - k
    BY <1>2, <1>4
  <2>4. /\ call' \in PlayerCall /\ call'.at = "reserve" /\ call'.clip = call.clip /\ call'.n = m
        /\ call'.out = o /\ call'.total = call.total /\ call'.played = call.played
    BY <1>2, <2>1, <2>2, <2>3 DEF PlayerCall, PlayerAt, Asked
  <2>5. call'.n + Len(call'.out) = call.n /\ Len(call'.out) >= 1
    BY <1>2, <1>7, <2>1, <2>3, <2>4
  <2> QED  BY <1>1, <1>2, <1>3, <2>4, <2>5, GoesOnKeeps
<1> QED  BY <1>6, <1>7

\* Nothing is counted, so the driver has nothing.
LEMMA FinishKeeps ==
  ASSUME PlayerInv, S!Finish
  PROVE  PlayerInv'
<1>1. /\ call.at = "finish" /\ remaining = 0 /\ S!StopPlayback /\ call' = [call EXCEPT !.at = "done"]
      /\ rate' = rate /\ stream' = stream /\ audioIo' = audioIo /\ failed' = failed
      /\ given' = given /\ handed' = handed
  BY DEF S!Finish, S!At, S!GoTo
<1>2. call.clip /\ call.at \notin Asked /\ call.at \notin Reserved /\ call \in PlayerCall /\ call.n = 0
      /\ call.at # "queued" /\ call.at # "abandon"
  BY <1>1 DEF PlayerInv, ClipOK, Asked, Reserved
<1>3. S!Total(device) = 0
  BY <1>1, <1>2, NothingReserved
<1>4. device' = <<>> /\ active' = FALSE /\ remaining' = 0
  BY <1>1, <1>2, Stops
<1>5. /\ call' \in PlayerCall /\ call'.at = "done" /\ call'.clip = call.clip /\ call'.n = 0
      /\ call'.total = call.total /\ call'.played = call.played
  BY <1>1, <1>2 DEF PlayerCall, PlayerAt
<1>6. call'.total = call'.played + call'.n
  <2>1. call.total = call.played + S!Total(device) + call.n + 0
    BY <1>2 DEF PlayerInv, ClipOK
  <2>2. call.played \in Nat
    BY PlayerTypes
  <2>3. call.played + 0 + 0 + 0 = call.played + 0
    BY <2>2
  <2> QED  BY <1>2, <1>3, <1>5, <2>1, <2>3
<1>7. audioIo' \in BOOLEAN /\ failed' \in BOOLEAN
  BY <1>1, TypesAre
<1> QED  BY <1>1, <1>2, <1>4, <1>5, <1>6, <1>7, StoppedKeeps

\* PlaySync is over, with an exception or without one.
LEMMA OverKeeps ==
  ASSUME PlayerInv, S!Done \/ S!Abandon
  PROVE  PlayerInv'
<1>1. /\ call.at # "queued" /\ S!StopPlayback /\ call' = S!Idle
      /\ rate' = rate /\ stream' = stream /\ audioIo' = audioIo /\ failed' = failed
      /\ given' = given /\ handed' = handed
  BY DEF S!Done, S!Abandon, S!At
<1>2. device' = <<>> /\ active' = FALSE /\ remaining' = 0
  BY <1>1, Stops
<1>3. call' \in PlayerCall /\ call'.at = "idle" /\ call'.clip = FALSE
  BY <1>1, IdleIs
<1>4. audioIo' \in BOOLEAN /\ failed' \in BOOLEAN
  BY <1>1, TypesAre
<1> QED  BY <1>1, <1>2, <1>3, <1>4, StoppedKeeps

\* A transfer is over: the driver's callback, wherever the call is.
LEMMA PlaybackDoneKeeps ==
  ASSUME PlayerInv, S!StreamingPlaybackDone
  PROVE  PlayerInv'
<1>1. /\ device # <<>> /\ remaining' = S!Less(Head(device).n) /\ device' = Tail(device)
      /\ call' = IF Head(device).clip THEN [call EXCEPT !.played = @ + Head(device).n] ELSE call
      /\ rate' = rate /\ stream' = stream /\ audioIo' = audioIo /\ failed' = failed
      /\ active' = active /\ given' = given /\ handed' = handed
  BY DEF S!StreamingPlaybackDone
<1>2. device \in Seq(Transfer) /\ device \in Seq([n : 1 .. BufferLimit, clip : BOOLEAN]) /\ call \in PlayerCall
  BY PlayerTypes, TypesAre DEF PlayerInv
<1>3. /\ Tail(device) \in Seq(Transfer) /\ Tail(device) \in Seq([n : 1 .. BufferLimit, clip : BOOLEAN])
      /\ Len(Tail(device)) = Len(device) - 1 /\ Head(device) = device[1] /\ Len(device) \in Nat
      /\ Len(device) >= 1 /\ \A i \in 1 .. Len(Tail(device)) : Tail(device)[i] = device[i + 1]
  <2>1. /\ Tail(device) \in Seq(Transfer) /\ Len(Tail(device)) = Len(device) - 1 /\ Head(device) = device[1]
        /\ \A i \in 1 .. Len(Tail(device)) : Tail(device)[i] = device[i + 1]
    BY <1>1, <1>2, HeadTailProperties
  <2>2. Tail(device) \in Seq([n : 1 .. BufferLimit, clip : BOOLEAN])
    BY <1>1, <1>2, HeadTailProperties
  <2>3. Len(device) \in Nat /\ Len(device) # 0
    BY <1>1, <1>2, EmptySeq, LenProperties
  <2> QED  BY <2>1, <2>2, <2>3
<1>4. PICK d \in Nat : d = Head(device).n
  <2>1. device[1] \in Transfer
    BY <1>2, <1>3, ElementOfSeq
  <2> QED  BY <1>3, <2>1 DEF Transfer
<1>5. Head(device).clip = call.clip /\ call.clip \in BOOLEAN
  <2>1. 1 \in 1 .. Len(device)
    BY <1>3
  <2> QED  BY <1>3, <2>1, PlayerTypes DEF PlayerInv, ClipOK
<1>6. PICK b \in Nat : b = S!Total(device')
  BY <1>1, <1>3, TotalNat
<1>7. S!Total(device) = d + b
  BY <1>1, <1>2, <1>4, <1>6, TotalOfTail
<1>8. PICK l \in Nat : l = (IF call.at \in Reserved THEN Len(call.out) ELSE 0)
  BY PlayerTypes
<1>9. remaining = d + b + l /\ remaining \in Nat /\ remaining <= BufferLimit
  BY <1>7, <1>8, PlayerTypes
<1>10. remaining' = b + l
  BY <1>1, <1>4, <1>9 DEF S!Less
<1>11. /\ call' \in PlayerCall /\ call'.at = call.at /\ call'.clip = call.clip /\ call'.n = call.n
       /\ call'.out = call.out /\ call'.total = call.total
       /\ call.clip => call'.played = call.played + d
  <2>1. CASE call.clip
    <3>1. call.played + d \in Nat
      BY PlayerTypes
    <3>2. call' = [call EXCEPT !.played = call.played + d]
      BY <1>1, <1>4, <1>5, <2>1
    <3> QED  BY <1>2, <3>1, <3>2 DEF PlayerCall
  <2>2. CASE ~call.clip
    BY <1>1, <1>2, <1>5, <2>2
  <2> QED  BY <1>5, <2>1, <2>2
<1>12. S!TypeOK'
  <2>1. remaining' \in 0 .. BufferLimit
    BY <1>9, <1>10, PlayerConstants
  <2>2. call'.at \in PlayerAt
    BY <1>11 DEF PlayerCall
  <2> QED  BY <1>1, <1>3, <2>1, <2>2, TypesAre, TypesGo
<1>13. S!Accounted'
  BY <1>6, <1>8, <1>10, <1>11 DEF S!Accounted, Reserved
<1>14. QueueOK'
  <2>1. device' # <<>> => device # <<>>
    BY <1>1
  <2> QED  BY <1>1, <1>11, <2>1 DEF PlayerInv, QueueOK
<1>15. ClipOK'
  <2>1. \A i \in 1 .. Len(device') : device'[i].clip = call'.clip
    <3> SUFFICES ASSUME NEW i \in 1 .. Len(device') PROVE device'[i].clip = call.clip
      BY <1>11
    <3>1. device'[i] = device[i + 1] /\ i + 1 \in 1 .. Len(device)
      BY <1>1, <1>3
    <3> QED  BY <3>1 DEF PlayerInv, ClipOK
  <2>2. ASSUME call.clip, call.at # "abandon"
        PROVE  call'.total = call'.played + S!Total(device') + call'.n
                             + (IF call'.at \in Asked THEN Len(call'.out) ELSE 0)
    <3>1. PICK c \in Nat : c = call.n
      BY PlayerTypes
    <3>2. PICK y \in Nat : y = call.played
      BY PlayerTypes
    <3>3. PICK m \in Nat : m = (IF call.at \in Asked THEN Len(call.out) ELSE 0)
      BY PlayerTypes
    <3>4. call.total = y + (d + b) + c + m
      BY <1>7, <2>2, <3>1, <3>2, <3>3 DEF PlayerInv, ClipOK
    <3>5. y + (d + b) + c + m = (y + d) + b + c + m
      OBVIOUS
    <3> QED  BY <1>6, <1>11, <2>2, <3>1, <3>2, <3>3, <3>4, <3>5
  <2>3. call.at = "done" => remaining' = 0
    <3>1. call.at = "done" => remaining = 0
      BY DEF PlayerInv, ClipOK
    <3> QED  BY <1>9, <1>10, <3>1
  <2>4. /\ call'.at \in {"next", "finish", "done", "abandon"} => call'.clip
        /\ call'.at \in {"idle", "append"} => ~call'.clip
        /\ call'.at \in {"finish", "done"} => call'.n = 0
    BY <1>11 DEF PlayerInv, ClipOK
  <2>5. /\ call'.clip /\ call'.at # "abandon" => call.clip /\ call.at # "abandon"
        /\ call'.at = "done" => remaining' = 0
    BY <1>11, <2>3
  <2> QED  BY <2>1, <2>2, <2>4, <2>5 DEF ClipOK
<1>16. StreamOK'
  <2>1. KeptOK' /\ stream'.out = Converted(given', rate') /\ InputOK'
    BY <1>1, <1>11 DEF PlayerInv, StreamOK, KeptOK, InputOK
  <2>2. OutputOK'
    BY <1>1, <1>11 DEF PlayerInv, StreamOK, OutputOK
  <2>3. HandedOK'
    BY <1>1, <1>11 DEF PlayerInv, StreamOK, HandedOK
  <2> QED  BY <2>1, <2>2, <2>3 DEF StreamOK
<1> QED  BY <1>11, <1>12, <1>13, <1>14, <1>15, <1>16 DEF PlayerInv, S!Sound

\* Every step of the player keeps the invariant.
LEMMA PlayerStep ==
  ASSUME PlayerInv, S!Next
  PROVE  PlayerInv'
<1>1. ASSUME NEW n \in 1 .. MaxPlay, NEW wait \in BOOLEAN, S!CallPlay(n, wait) PROVE PlayerInv'
  BY <1>1, CallPlayKeeps
<1>2. ASSUME NEW n \in Clips, S!CallPlaySync(n) PROVE PlayerInv'
  BY <1>2, CallPlaySyncKeeps
<1>3. CASE S!Step
  BY <1>3, FullKeeps, AppendKeeps, ReserveKeeps, AllocKeeps, StartKeeps, RefusedKeeps, QueuedKeeps,
     NextChunkKeeps, FinishKeeps, OverKeeps
  DEF S!Step
<1>4. CASE S!StreamingPlaybackDone
  BY <1>4, PlaybackDoneKeeps
<1> QED  BY <1>1, <1>2, <1>3, <1>4 DEF S!Next

\* Another component's step leaves the player as it is.
LEMMA PlayerStays ==
  ASSUME PlayerInv, UNCHANGED SVars
  PROVE  PlayerInv'
<1>1. /\ rate' = rate /\ stream' = stream /\ audioIo' = audioIo /\ failed' = failed
      /\ remaining' = remaining /\ active' = active /\ device' = device /\ call' = call
      /\ given' = given /\ handed' = handed
  BY DEF SVars
<1>2. S!Sound'
  BY <1>1 DEF PlayerInv, S!Sound, S!TypeOK, S!Accounted
<1>3. call' \in PlayerCall /\ QueueOK' /\ ClipOK'
  BY <1>1 DEF PlayerInv, QueueOK, ClipOK
<1>4. StreamOK'
  BY <1>1 DEF PlayerInv, StreamOK, KeptOK, InputOK, OutputOK, HandedOK
<1> QED  BY <1>2, <1>3, <1>4 DEF PlayerInv

\* The frame that the property speaks of.
LEMMA ReferenceIs ==
  ASSUME NEW f
  PROVE  S!Reference(f) = OutputFrame(f, rate)
BY DEF S!Reference, S!Interpolate, OutputFrame

\* What is claimed follows.
LEMMA PlayerIsExact ==
  ASSUME PlayerInv
  PROVE  StreamIsExact
<1>1. S!StreamIsExact
  <2>1. handed \in Seq(Seq(Int)) /\ \A i \in 1 .. Len(handed) : handed[i] = OutputFrame(i - 1, rate)
    BY DEF PlayerInv, StreamOK, HandedOK
  <2>2. DOMAIN handed = 1 .. Len(handed)
    BY <2>1, LenProperties
  <2>3. \A i \in DOMAIN handed : handed[i] = S!Reference(i - 1)
    BY <2>1, <2>2, ReferenceIs
  <2>4. call.at # "queued" => Len(handed) = Converted(given, rate)
    <3>1. call.at # "queued" => Len(handed) = Converted(given, rate) + 0
      BY DEF PlayerInv, StreamOK, HandedOK
    <3> QED  BY <3>1, PlayerTypes
  <2> QED  BY <2>3, <2>4 DEF S!StreamIsExact, Converted
<1>2. S!SyncPlaysAll
  <2> SUFFICES ASSUME call.at = "done" PROVE call.played = call.total
    BY DEF S!SyncPlaysAll
  <2>1. call.clip /\ call.n = 0 /\ remaining = 0 /\ call.at \notin Asked /\ call.at \notin Reserved
    BY DEF PlayerInv, ClipOK, Asked, Reserved
  <2>2. S!Total(device) = 0
    BY <2>1, NothingReserved
  <2>3. call.total = call.played + 0 + 0 + 0
    BY <2>1, <2>2 DEF PlayerInv, ClipOK
  <2> QED  BY <2>3, PlayerTypes
<1>3. S!Sound
  BY DEF PlayerInv
<1> QED  BY <1>1, <1>2, <1>3 DEF StreamIsExact

\* For every rate, limit and number of calls: what is counted is what the driver has and what a
\* call has reserved, the driver is given the conversion of the input whatever its chunks, and a
\* PlaySync that returns has played its clip to the end (StreamIsExact).
THEOREM ConversionIsExact == MCSpec => []StreamIsExact
<1>1. MCInit => PlayerInv
  BY PlayerStarts DEF MCInit
<1>2. PlayerInv /\ [MCNext]_MCVars => PlayerInv'
  <2> SUFFICES ASSUME PlayerInv, [MCNext]_MCVars PROVE PlayerInv'
    OBVIOUS
  <2>1. CASE FOnly /\ Next
    BY <2>1, PlayerStays DEF FOnly
  <2>2. CASE SOnly /\ S!Next
    BY <2>2, PlayerStep
  <2>3. CASE UNCHANGED MCVars
    BY <2>3, PlayerStays DEF MCVars
  <2> QED  BY <2>1, <2>2, <2>3 DEF MCNext
<1>3. PlayerInv => StreamIsExact
  BY PlayerIsExact
<1> QED  BY <1>1, <1>2, <1>3, PTL DEF MCSpec
=============================================================================
