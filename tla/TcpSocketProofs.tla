-------------------------- MODULE TcpSocketProofs --------------------------
(***************************************************************************)
(* A TCP socket, for every number of calls: no operation is lost, what is  *)
(* in progress is with the firmware and polled, an accepted connection has *)
(* its owner, and the socket becomes connected only when the caller of the *)
(* connect learns of it; off the paths of Lapses where the code leaves     *)
(* something behind.                                                       *)
(***************************************************************************)
EXTENDS TcpSocket, SequenceTheorems, TLAPS

-----------------------------------------------------------------------------
(* The inductive invariant.                                                 *)

Places(c) == 1 .. Len(todo[c])
Begins    == {"set", "go", "submitConnect"}
Stretch   == Begins \cup {"finish", "update", "pollAddress", "pollToken", "timeout"}
Label     == [at : Stretch \cup {"user", "passEnd"}, x : Slot \cup {"none"}, op : Nat]
Fields    == [role : Role, tcp : BOOLEAN, connected : BOOLEAN, listening : BOOLEAN,
              configured : BOOLEAN, waiting : BOOLEAN, delays : SUBSET Op,
              slot : [Slot -> Op \cup {0}],
              token : [Token -> [queued : BOOLEAN, signaled : BOOLEAN]],
              polled : BOOLEAN, child : BOOLEAN]

\* Only a client connects, a listener accepts and does nothing else.
Fits(x) ==
  /\ x = "connect" => this.role = "client"
  /\ x \in {"receive", "transmit"} => this.role # "listener"
  /\ x = "accept" => this.role = "listener"

\* What a label is about, and where it can be: an operation is stored and submitted by the first
\* labels of a context, the wait for an address is polled at the beginning of a pass, and what a
\* completion leaves for later is followed by an update of the registration.
LabelOK(c, i) ==
  LET l == todo[c][i]
  IN  /\ l.at = "set" => /\ i = 1 /\ l.x \in Token
                         /\ Len(todo[c]) > 1 /\ todo[c][2] = L("go", l.x, l.op)
      /\ l.at = "go" => /\ i = 1 \/ (i = 2 /\ todo[c][1].at = "set")
                        /\ l.x \in Token /\ l.op \in Op /\ Fits(l.x)
      /\ l.at = "submitConnect" => i = 1 /\ l.x = "connect" /\ l.op \in Op /\ Fits("connect")
      /\ l.at = "pollAddress" =>
           i = 1 /\ this.tcp /\ \E j \in Places(c) : todo[c][j].at = "passEnd"
      /\ l.at = "pollToken" => l.x \in Token
      /\ l.at = "finish" =>
           /\ l.x \in {"close", "accept"} /\ l.op \in 0 .. calls /\ (l.x = "accept" => l.op = 0)
           /\ l.op # 0 => \A x \in Slot : this.slot[x] # l.op
           /\ \E j \in Places(c) : j > i /\ todo[c][j].at = "update"
LabelsOK == \A c \in Context : \A i \in Places(c) : LabelOK(c, i)

\* What is about to be stored is new, and the place for it is free.
SetOK(c) ==
  todo[c] # <<>> /\ todo[c][1].at = "set" =>
    LET l == todo[c][1]
    IN  /\ this.slot[l.x] = 0 /\ l.op \in Op /\ l.op <= calls /\ done[l.op] = "pending"
        /\ \A x \in Slot : this.slot[x] # l.op
        /\ \A d \in Context : \A i \in Places(d) : todo[d][i].at = "finish" => todo[d][i].op # l.op

\* What is about to be submitted has its child, and the firmware has nothing of it.
BeginOK(c) ==
  todo[c] # <<>> /\ todo[c][1].at \in Begins =>
    LET l == todo[c][1]
    IN  /\ "released" \notin lapses /\ (l.x # "connect" \/ l.at = "submitConnect") => this.tcp
        /\ lapses = {} =>
             /\ this.token[l.x] = NoToken
             /\ l.x = "connect" => ~this.waiting
             /\ l.x = "accept" => ~this.child
             /\ l.at = "submitConnect" => this.configured

Finishing == \E c \in Context : \E i \in Places(c) : todo[c][i].at = "finish" /\ todo[c][i].x = "accept"
Updating  == \E c \in Context : \E i \in Places(c) : todo[c][i].at = "update"

\* A token is with the firmware, or signaled, only under a configured child, for an operation.
TokenOK(x) ==
  /\ ~this.configured => this.token[x] = NoToken
  /\ lapses = {} =>
       /\ ~(this.token[x].queued /\ this.token[x].signaled)
       /\ this.token[x].queued \/ this.token[x].signaled => this.slot[x] # 0

\* Some context is about to submit the operation of slot x.
Going(x) == \E c \in Context :
  /\ todo[c] # <<>>
  /\ \/ todo[c][1] = L("go", x, this.slot[x])
     \/ x = "connect" /\ todo[c][1].at = "submitConnect"

\* Somebody will end the operation of slot x.
ServedNow(x) ==
  \/ this.token[x].queued \/ this.token[x].signaled
  \/ x = "connect" /\ this.waiting
  \/ Going(x)
  \/ x = "accept" /\ Finishing

\* An operation that is stored is not done, is in one slot, needs a child, and is served.
StoredOK(x) ==
  this.slot[x] # 0 =>
    /\ this.slot[x] <= calls /\ done[this.slot[x]] = "pending"
    /\ \A y \in Slot : this.slot[y] = this.slot[x] => x = y
    /\ "released" \notin lapses /\ ~this.tcp /\ x # "connect" => x = "accept" /\ Finishing
ServedOK(x) == this.slot[x] # 0 /\ lapses = {} => ServedNow(x)

\* What waits is polled, or a context is about to see to that.
Witness(c) ==
  /\ todo[c] # <<>>
  /\ \/ todo[c][1].at = "submitConnect"
     \/ todo[c][1].at = "go" /\ (todo[c][1].x = "accept" => this.slot["accept"] # 0)
PolledOK ==
  "released" \notin lapses /\ (this.waiting \/ \E x \in Slot : this.slot[x] # 0) =>
    this.polled \/ Updating \/ \E c \in Context : Witness(c)

\* The flags of the socket agree with its child, its role and its operations.
ChildOK ==
  /\ this.configured => this.tcp
  /\ this.connected => this.tcp /\ this.configured /\ this.role # "listener"
  /\ this.listening =>
       /\ this.role = "listener"
       /\ (this.tcp /\ this.configured /\ this.slot["listen"] = 0) \/ "listensTwice" \in lapses
  /\ this.role = "listener" => (this.waiting <=> this.slot["listen"] # 0)
  /\ this.child /\ lapses = {} => this.slot["accept"] # 0
  /\ this.waiting /\ lapses = {} => /\ this.tcp /\ ~this.configured
                                    /\ this.slot["connect"] # 0 \/ this.slot["listen"] # 0

\* An operation whose task is not done has its place.
HasPlace(o) ==
  \/ \E x \in Slot : this.slot[x] = o
  \/ \E c \in Context : \E i \in Places(c) :
       todo[c][i].at \in {"set", "finish"} /\ todo[c][i].op = o

\* Between ticks the notification has nothing to do; no tick falls inside a pass; and one that
\* falls inside a call of the application begins nothing.
TickOK ==
  /\ ~tick => todo["Timer"] = <<>>
  /\ tick => \A i \in Places("App") : todo["App"][i].at # "passEnd"
  /\ tick /\ InCall => \A i \in Places("Timer") : todo["Timer"][i].at \notin Begins

IInv ==
  /\ TypeOK /\ LabelsOK
  /\ \A c \in Context : SetOK(c) /\ BeginOK(c)
  /\ \A x \in Token : TokenOK(x) /\ ServedOK(x)
  /\ \A x \in Slot : StoredOK(x)
  /\ PolledOK /\ ChildOK
  /\ \A o \in Op : done[o] = "pending" => HasPlace(o)
  /\ TickOK

-----------------------------------------------------------------------------
(* What the parts say, one fact at a time.                                  *)

\* The type of the state, without the operators it is written with.
LEMMA Types ==
  ASSUME IInv
  PROVE  /\ this \in Fields
         /\ this.role # "listener" => this.slot["listen"] = 0 /\ this.slot["accept"] = 0
         /\ this.role = "listener" => \A x \in {"connect", "receive", "transmit"} : this.slot[x] = 0
         /\ todo \in [Context -> Seq(Label)]
         /\ done \in [Op -> {"none", "pending", "done"}]
         /\ calls \in Nat /\ calls <= MaxCalls /\ tick \in BOOLEAN
         /\ MaxCalls \in Nat
         /\ lapses \subseteq {"released", "closeFailed", "overtaken", "acceptEnded", "listensTwice"}
<1>1. TypeOK
  BY DEF IInv
<1>2. MaxCalls \in Nat
  BY CallAssumption
<1>3. HandlersTypeOK(Stretch, Slot)
  <2>1. Stretch = {"set", "go", "submitConnect", "finish", "update", "pollAddress",
                   "pollToken", "timeout"}
    BY DEF Stretch, Begins
  <2> QED
    BY <1>1, <2>1 DEF TypeOK
<1>4. /\ todo \in [Context -> Seq(Label)]
      /\ done \in [Op -> {"none", "pending", "done"}]
      /\ calls \in 0 .. MaxCalls /\ tick \in BOOLEAN
  BY <1>3 DEF HandlersTypeOK, Label
<1>5. calls \in Nat /\ calls <= MaxCalls
  BY <1>2, <1>4
<1> QED
  BY <1>1, <1>2, <1>4, <1>5 DEF TypeOK, Fields

\* The same, put together.
LEMMA Together ==
  ASSUME this' \in Fields,
         this'.role # "listener" => this'.slot["listen"] = 0 /\ this'.slot["accept"] = 0,
         this'.role = "listener" => \A x \in {"connect", "receive", "transmit"} : this'.slot[x] = 0,
         todo' \in [Context -> Seq(Label)],
         done' \in [Op -> {"none", "pending", "done"}],
         calls' \in 0 .. MaxCalls, tick' \in BOOLEAN,
         lapses' \subseteq {"released", "closeFailed", "overtaken", "acceptEnded", "listensTwice"}
  PROVE  TypeOK'
<1>1. Label = [at : Stretch \cup {"user", "passEnd"}, x : Slot \cup {"none"}, op : Nat]
  BY DEF Label
<1>2. HandlersTypeOK(Stretch, Slot)'
  BY <1>1 DEF HandlersTypeOK
<1>3. Stretch = {"set", "go", "submitConnect", "finish", "update", "pollAddress",
                 "pollToken", "timeout"}
  BY DEF Stretch, Begins
<1> QED
  BY <1>2, <1>3 DEF TypeOK, Fields

\* What is numbered is a natural number.
LEMMA Numbers ==
  ASSUME IInv
  PROVE  /\ Op \subseteq Nat /\ 0 \notin Op
         /\ \A x \in Slot : this.slot[x] \in Nat /\ (this.slot[x] # 0 => this.slot[x] \in Op)
         /\ \A c \in Context : Len(todo[c]) \in Nat
<1>1. MaxCalls \in Nat
  BY CallAssumption
<1>2. Op \subseteq Nat /\ 0 \notin Op
  BY <1>1 DEF Op
<1>3. \A x \in Slot : this.slot[x] \in Op \cup {0}
  BY Types DEF Fields
<1>4. \A c \in Context : Len(todo[c]) \in Nat
  BY Types, LenProperties
<1>5. 0 \in Nat
  OBVIOUS
<1>6. ASSUME NEW x \in Slot
      PROVE  this.slot[x] \in Nat /\ (this.slot[x] # 0 => this.slot[x] \in Op)
  BY <1>2, <1>3, <1>5
<1> QED
  BY <1>2, <1>4, <1>6

-----------------------------------------------------------------------------
(* The labels of the contexts, and how a step changes them.                 *)

\* How a step changes the labels of a context: its first k go, ls come.
Shift(c, ls, k) ==
  /\ DOMAIN todo' = Context
  /\ todo'[c] \in Seq(Label)
  /\ Len(todo'[c]) = Len(ls) + Len(todo[c]) - k
  /\ \A i \in 1 .. Len(ls) : todo'[c][i] = ls[i]
  /\ \A i \in k + 1 .. Len(todo[c]) : todo'[c][i + Len(ls) - k] = todo[c][i]
  /\ \A i \in Len(ls) + 1 .. Len(todo'[c]) : todo'[c][i] = todo[c][i - Len(ls) + k]
  /\ \A d \in Context \ {c} : todo'[d] = todo[d]
  /\ todo' \in [Context -> Seq(Label)]

\* Labels that are put before the others.
LEMMA Pushed ==
  ASSUME IInv, NEW c \in Context, NEW ls \in Seq(Label),
         todo' = [todo EXCEPT ![c] = ls \o @]
  PROVE  Shift(c, ls, 0)
<1>1. todo \in [Context -> Seq(Label)]
  BY Types
<1>2. todo'[c] = ls \o todo[c] /\ \A d \in Context \ {c} : todo'[d] = todo[d]
  BY <1>1
<1>3. ls \o todo[c] \in Seq(Label) /\ Len(ls \o todo[c]) = Len(ls) + Len(todo[c])
      /\ \A i \in 1 .. Len(ls) + Len(todo[c]) :
           (ls \o todo[c])[i] = IF i <= Len(ls) THEN ls[i] ELSE todo[c][i - Len(ls)]
  BY <1>1, ConcatProperties
<1>4. todo' \in [Context -> Seq(Label)]
  BY <1>1, <1>2, <1>3
<1> QED
  BY <1>1, <1>2, <1>3, <1>4 DEF Shift

\* Labels that come in the place of the first one.
LEMMA Replaced ==
  ASSUME IInv, NEW c \in Context, NEW ls \in Seq(Label), todo[c] # <<>>,
         todo' = [todo EXCEPT ![c] = ls \o Tail(@)]
  PROVE  Shift(c, ls, 1)
<1>1. todo \in [Context -> Seq(Label)]
  BY Types
<1>2. todo'[c] = ls \o Tail(todo[c]) /\ \A d \in Context \ {c} : todo'[d] = todo[d]
  BY <1>1
<1> DEFINE t == Tail(todo[c])
<1>3. t \in Seq(Label) /\ Len(t) = Len(todo[c]) - 1 /\ \A i \in 1 .. Len(t) : t[i] = todo[c][i + 1]
  BY <1>1, HeadTailProperties
<1> HIDE DEF t
<1>4. ls \o t \in Seq(Label) /\ Len(ls \o t) = Len(ls) + Len(t)
      /\ \A i \in 1 .. Len(ls) + Len(t) :
           (ls \o t)[i] = IF i <= Len(ls) THEN ls[i] ELSE t[i - Len(ls)]
  BY <1>3, ConcatProperties
<1>5. todo'[c] = ls \o t
  BY <1>2 DEF t
<1>6. todo' \in [Context -> Seq(Label)]
  BY <1>1, <1>2, <1>4, <1>5
<1> QED
  BY <1>1, <1>2, <1>3, <1>4, <1>5, <1>6 DEF Shift

\* A context that is at a label has it first.
LEMMA IsAt ==
  ASSUME IInv, NEW c \in Context, NEW at, At(c, at)
  PROVE  /\ OnCpu(c) /\ todo[c] # <<>> /\ 1 \in Places(c) /\ todo[c][1].at = at
         /\ Head(todo[c]) = todo[c][1] /\ todo[c][1] \in Label /\ LabelOK(c, 1)
<1>1. todo[c] \in Seq(Label) /\ todo[c] # <<>>
  BY Types DEF At
<1>2. 1 \in Places(c)
  BY <1>1, EmptySeq DEF Places
<1> QED
  BY <1>1, <1>2, EmptySeq, HeadTailProperties DEF At, Places, IInv, LabelsOK

\* Code of the user has it first if it has anything; nothing waits for a task here.
LEMMA AtUser ==
  ASSUME IInv, NEW c \in Context, Yields(c)
  PROVE  OnCpu(c) /\ (todo[c] # <<>> => todo[c][1].at = "user")
<1>1. todo[c] \in Seq(Label)
  BY Types
<1>2. todo[c] # <<>> => Head(todo[c]) = todo[c][1] /\ todo[c][1].at # "await"
  <2>1. todo[c] # <<>> => Head(todo[c]) = todo[c][1] /\ todo[c][1] \in Label
    BY <1>1, EmptySeq, HeadTailProperties
  <2> QED
    BY <2>1 DEF Label, Stretch, Begins
<1> QED
  BY <1>2 DEF Yields, InUserCode, At

\* The application is inside a call when its first label says so.
LEMMA CallFirst ==
  ASSUME IInv
  PROVE  InCall <=> todo["App"] # <<>> /\ todo["App"][1].at # "user"
<1>1. todo["App"] \in Seq(Label)
  BY Types DEF Context
<1>2. todo["App"] # <<>> => Head(todo["App"]) = todo["App"][1] /\ todo["App"][1].at # "await"
  <2>1. todo["App"] # <<>> => Head(todo["App"]) = todo["App"][1] /\ todo["App"][1] \in Label
    BY <1>1, EmptySeq, HeadTailProperties
  <2> QED
    BY <2>1 DEF Label, Stretch, Begins
<1> QED
  BY <1>2 DEF InCall

\* While code runs that may do more than poll, no other context is inside a call.
LEMMA Alone ==
  ASSUME IInv, NEW c \in Context, OnCpu(c),
         \/ CanCall(c)
         \/ todo[c] # <<>> /\ todo[c][1].at \in Begins,
         NEW d \in Context \ {c}
  PROVE  todo[d] = <<>> \/ (d = "App" /\ todo[d][1].at = "user")
<1>1. CASE c = "App"
  <2>1. ~tick /\ d = "Timer"
    BY <1>1, Types DEF OnCpu, Context
  <2> QED
    BY <2>1 DEF IInv, TickOK
<1>2. CASE c = "Timer"
  <2>1. d = "App"
    BY <1>2 DEF Context
  <2>2. ~InCall
    <3>1. CASE CanCall(c)
      BY <1>2, <3>1 DEF CanCall
    <3>2. CASE todo[c] # <<>> /\ todo[c][1].at \in Begins
      <4>0. todo[c] \in Seq(Label) /\ 1 \in Places(c)
        BY <3>2, Types, EmptySeq DEF Places
      <4>1. tick
        BY <1>2 DEF OnCpu
      <4>2. InCall => todo[c][1].at \notin Begins
        BY <1>2, <4>0, <4>1 DEF IInv, TickOK
      <4> QED
        BY <3>2, <4>2
    <3> QED
      BY <3>1, <3>2
  <2> QED
    BY <2>1, <2>2, CallFirst
<1> QED
  BY <1>1, <1>2 DEF Context

\* The step is one of context c, whose first k labels give way to ls.
Step(c, ls, k) ==
  /\ OnCpu(c) /\ ls \in Seq(Label) /\ k \in {0, 1} /\ k <= Len(todo[c]) /\ Shift(c, ls, k)
  /\ k = 0 /\ todo[c] # <<>> => todo[c][1].at = "user"

\* Code of the user gets labels before its own.
LEMMA Pushes ==
  ASSUME IInv, NEW c \in Context, Yields(c), NEW ls \in Seq(Label),
         todo' = [todo EXCEPT ![c] = ls \o @]
  PROVE  Step(c, ls, 0)
<1>1. Len(todo[c]) \in Nat
  BY Types, LenProperties
<1>2. Shift(c, ls, 0)
  BY Pushed
<1>3. OnCpu(c) /\ (todo[c] # <<>> => todo[c][1].at = "user")
  BY AtUser
<1> QED
  BY <1>1, <1>2, <1>3 DEF Step

\* A context that executes its first label gets others in its place.
LEMMA Replaces ==
  ASSUME IInv, NEW c \in Context, NEW at, At(c, at), NEW ls \in Seq(Label),
         todo' = [todo EXCEPT ![c] = ls \o Tail(@)]
  PROVE  Step(c, ls, 1)
<1>1. 1 \in 1 .. Len(todo[c]) /\ todo[c] # <<>> /\ OnCpu(c) /\ Len(todo[c]) \in Nat
  BY IsAt, Types, LenProperties DEF Places
<1>2. Shift(c, ls, 1)
  BY <1>1, Replaced
<1> QED
  BY <1>1, <1>2 DEF Step

\* The labels of any context after such a step: new ones, and old ones.
LEMMA NewOrOld ==
  ASSUME IInv, NEW c \in Context, NEW ls, NEW k, Step(c, ls, k),
         NEW d \in Context, NEW i \in Places(d)'
  PROVE  \/ d = c /\ i \in 1 .. Len(ls) /\ todo'[d][i] = ls[i]
         \/ d = c /\ i > Len(ls) /\ i - Len(ls) + k \in Places(d) /\ i - Len(ls) + k > k
            /\ todo'[d][i] = todo[d][i - Len(ls) + k]
         \/ d # c /\ i \in Places(d) /\ todo'[d] = todo[d]
<1> USE DEF Step
<1>1. Len(ls) \in Nat /\ Len(todo[c]) \in Nat /\ Len(todo[d]) \in Nat /\ k \in {0, 1}
  BY Types, LenProperties
<1>2. CASE d = c
  <2>1. Len(todo'[c]) = Len(ls) + Len(todo[c]) - k /\ i \in 1 .. Len(todo'[c])
    BY <1>2 DEF Shift, Places
  <2>2. CASE i <= Len(ls)
    BY <1>1, <1>2, <2>1, <2>2 DEF Shift
  <2>3. CASE i > Len(ls)
    <3>0. i \in Len(ls) + 1 .. Len(todo'[c])
      BY <1>1, <2>1, <2>3
    <3>1. todo'[c][i] = todo[c][i - Len(ls) + k]
      BY <3>0 DEF Shift
    <3>2. Len(ls) < i /\ i <= Len(ls) + Len(todo[c]) - k /\ i \in Int
      BY <1>1, <2>1, <2>3
    <3>3. i - Len(ls) + k \in 1 .. Len(todo[c]) /\ i - Len(ls) + k > k
      <4> HIDE DEF Step
      <4> QED
        BY <1>1, <3>2
    <3> QED
      BY <1>2, <2>3, <3>1, <3>3 DEF Places
  <2> QED
    BY <1>1, <2>1, <2>2, <2>3
<1>3. CASE d # c
  <2>1. todo'[d] = todo[d]
    BY <1>3 DEF Shift
  <2> QED
    BY <1>3, <2>1 DEF Places
<1> QED
  BY <1>2, <1>3

\* An old label is somewhere after the step, unless it is the one that goes, in the same order.
LEMMA OldStays ==
  ASSUME IInv, NEW c \in Context, NEW ls, NEW k, Step(c, ls, k),
         NEW d \in Context, NEW i \in Places(d), d # c \/ i > k
  PROVE  \E j \in Places(d)' : /\ todo'[d][j] = todo[d][i]
                               /\ j = IF d = c THEN i + Len(ls) - k ELSE i
<1> USE DEF Step
<1>1. Len(ls) \in Nat /\ Len(todo[c]) \in Nat
  BY Types, LenProperties
<1>2. CASE d = c
  <2>1. i \in k + 1 .. Len(todo[c])
    BY <1>1, <1>2 DEF Places
  <2>2. todo'[c][i + Len(ls) - k] = todo[c][i] /\ Len(todo'[c]) = Len(ls) + Len(todo[c]) - k
    BY <2>1 DEF Shift
  <2>3. i + Len(ls) - k \in 1 .. Len(todo'[c])
    BY <1>1, <2>1, <2>2
  <2> QED
    BY <1>2, <2>2, <2>3 DEF Places
<1>3. CASE d # c
  <2>1. todo'[d] = todo[d]
    BY <1>3 DEF Shift
  <2> QED
    BY <1>3, <2>1 DEF Places
<1> QED
  BY <1>2, <1>3

\* A new label is where it was put.
LEMMA NewIs ==
  ASSUME IInv, NEW c \in Context, NEW ls, NEW k, Step(c, ls, k), NEW i \in 1 .. Len(ls)
  PROVE  i \in Places(c)' /\ todo'[c][i] = ls[i]
<1>1. Len(ls) \in Nat /\ Len(todo[c]) \in Nat /\ k <= Len(todo[c]) /\ k \in {0, 1}
  BY Types, LenProperties DEF Step
<1>2. Len(todo'[c]) = Len(ls) + Len(todo[c]) - k /\ todo'[c][i] = ls[i]
  BY DEF Step, Shift
<1>3. i \in 1 .. Len(todo'[c])
  BY <1>1, <1>2
<1> QED
  BY <1>2, <1>3 DEF Places

\* Behind the labels that go nothing begins, if the first was not a store, and no pass does.
LEMMA RestQuiet ==
  ASSUME IInv, NEW c \in Context, NEW ls, NEW k, Step(c, ls, k),
         k = 1 => todo[c][1].at # "set",
         NEW i \in Places(c), i > k
  PROVE  todo[c][i].at \notin Begins \cup {"pollAddress"}
<1>1. todo[c] \in Seq(Label) /\ i \in 1 .. Len(todo[c]) /\ Len(todo[c]) \in Nat
  BY Types, LenProperties DEF Places
<1>2. todo[c] # <<>>
  BY <1>1, EmptySeq
<1>3. LabelOK(c, i)
  BY DEF IInv, LabelsOK
<1>4. k \in {0, 1} /\ (k = 0 => todo[c][1].at = "user")
  BY <1>2 DEF Step
<1>5. todo[c][1].at # "set" /\ (i = 1 => todo[c][1].at = "user")
  BY <1>1, <1>4
<1> QED
  BY <1>3, <1>5 DEF LabelOK, Begins

\* What begins in the other context has been preempted, by a tick that begins nothing.
LEMMA OtherBegins ==
  ASSUME IInv, NEW c \in Context, OnCpu(c), NEW d \in Context \ {c},
         todo[d] # <<>>, todo[d][1].at \in Begins
  PROVE  /\ d = "App" /\ c = "Timer" /\ tick /\ InCall
         /\ \A i \in Places(c) : todo[c][i].at \notin Begins
         /\ ~CanCall(c)
<1>1. c = "Timer" /\ tick
  <2>1. CASE c = "App"
    <3>1. ~tick /\ d = "Timer"
      BY <2>1, Types DEF OnCpu, Context
    <3> QED
      BY <3>1 DEF IInv, TickOK
  <2> QED
    BY <2>1 DEF OnCpu, Context
<1>2. d = "App"
  BY <1>1 DEF Context
<1>3. InCall
  BY <1>2, CallFirst DEF Begins
<1> QED
  BY <1>1, <1>2, <1>3 DEF IInv, TickOK, CanCall

\* A pass that looks for an address is not preempted.
LEMMA OtherPasses ==
  ASSUME IInv, NEW c \in Context, OnCpu(c), NEW d \in Context \ {c}, NEW i \in Places(d)
  PROVE  todo[d][i].at # "pollAddress"
<1>1. CASE c = "App"
  <2>1. ~tick /\ d = "Timer"
    BY <1>1, Types DEF OnCpu, Context
  <2>2. todo[d] = <<>>
    BY <2>1 DEF IInv, TickOK
  <2> QED
    BY <2>2 DEF Places
<1>2. CASE c = "Timer"
  <2>1. d = "App" /\ tick
    BY <1>2 DEF Context, OnCpu
  <2>2. \A j \in Places(d) : todo[d][j].at # "passEnd"
    BY <2>1 DEF IInv, TickOK, Places
  <2> QED
    BY <2>2 DEF IInv, LabelsOK, LabelOK
<1> QED
  BY <1>1, <1>2 DEF Context

-----------------------------------------------------------------------------
(* What a step that takes none of the paths of Lapses has not done.         *)

Lapsing == lapses' = lapses \cup Lapses

\* The labels after a step are those at the places.
LEMMA LabelsAreThere ==
  ASSUME todo' \in [Context -> Seq(Label)]
  PROVE  /\ \A d \in Context : \A i \in Places(d)' : todo'[d][i] \in Labels'
         /\ \A l \in Labels' : \E d \in Context : \E i \in Places(d)' : todo'[d][i] = l
<1>1. \A d \in Context : todo'[d] \in Seq(Label) /\ DOMAIN todo'[d] = Places(d)'
  BY LenProperties DEF Places
<1>2. Labels' = UNION {ToSet(todo'[d]) : d \in Context}
  BY DEF Labels
<1>3. ASSUME NEW d \in Context
      PROVE  \A l : l \in ToSet(todo'[d]) <=> \E i \in Places(d)' : todo'[d][i] = l
  BY <1>1, <1>3 DEF ToSet
<1> QED
  BY <1>2, <1>3

\* The paths are remembered.
LEMMA LapsesGrow ==
  ASSUME IInv, Lapsing
  PROVE  /\ lapses \subseteq lapses' /\ (lapses' = {} => lapses = {} /\ Lapses = {})
         /\ lapses' \subseteq {"released", "closeFailed", "overtaken", "acceptEnded", "listensTwice"}
<1>1. Lapses \subseteq {"released", "closeFailed", "overtaken", "acceptEnded", "listensTwice"}
  BY DEF Lapses
<1> QED
  BY <1>1, Types DEF Lapsing

\* When the child goes, no operation is in progress, but for an accept that is about to be
\* ended, and none is about to be submitted.
LEMMA NotReleased ==
  ASSUME IInv, Lapsing, "released" \notin lapses', this.tcp, ~this'.tcp,
         todo' \in [Context -> Seq(Label)], this' \in Fields
  PROVE  /\ \A x \in Slot : this'.slot[x] # 0 =>
              this'.slot[x] = this'.slot["accept"] /\ Finishing'
         /\ \A d \in Context : \A i \in Places(d)' :
              /\ todo'[d][i].at # "submitConnect"
              /\ todo'[d][i].at \in {"set", "go"} => todo'[d][i].x = "connect"
<1> DEFINE Taking == IF \E l \in Labels' : l.at = "finish" /\ l.x = "accept"
                       THEN Of(this', "accept") ELSE {}
           Begun  == {l.op : l \in {k \in Labels' : k.at = "submitConnect" \/
                                        (k.at \in {"set", "go"} /\ k.x # "connect")}}
           Left   == (Pending(this') \ Taking) \cup Begun
<1>1. "released" \notin Lapses
  BY DEF Lapsing
<1>2. (IF this.tcp /\ ~this'.tcp /\ Left # {} THEN {"released"} ELSE {}) \subseteq Lapses
  BY DEF Lapses
<1>3. Left = {}
  BY <1>1, <1>2
<1>4. Pending(this') \subseteq Taking /\ Begun = {}
  BY <1>3
<1>5. ASSUME NEW x \in Slot, this'.slot[x] # 0
      PROVE  this'.slot[x] = this'.slot["accept"] /\ Finishing'
  <2>1. this'.slot[x] \in Pending(this')
    BY <1>5 DEF Pending
  <2>2. this'.slot[x] \in Taking
    BY <1>4, <2>1
  <2>3. PICK l \in Labels' : l.at = "finish" /\ l.x = "accept"
    BY <2>2
  <2>4. this'.slot[x] \in Of(this', "accept")
    BY <2>2
  <2>5. this'.slot[x] = this'.slot["accept"]
    BY <2>4 DEF Of
  <2>6. Finishing'
    BY <2>3, LabelsAreThere DEF Finishing
  <2> QED
    BY <2>5, <2>6
<1>6. ASSUME NEW d \in Context, NEW i \in Places(d)'
      PROVE  /\ todo'[d][i].at # "submitConnect"
             /\ todo'[d][i].at \in {"set", "go"} => todo'[d][i].x = "connect"
  <2>1. todo'[d][i] \in Labels'
    BY LabelsAreThere
  <2> QED
    BY <1>4, <2>1
<1> QED
  BY <1>5, <1>6

\* What is submitted is the operation in progress.
LEMMA NotOvertaken ==
  ASSUME IInv, Lapsing, lapses' = {}, NEW c \in Context,
         At(c, "go") \/ At(c, "submitConnect"), todo'[c] # todo[c]
  PROVE  this.slot[todo[c][1].x] = todo[c][1].op
<1>1. Lapses = {}
  BY LapsesGrow
<1>2. Head(todo[c]) = todo[c][1]
  BY IsAt
<1>3. ASSUME this.slot[Head(todo[c]).x] # Head(todo[c]).op  PROVE "overtaken" \in Lapses
  BY <1>3 DEF Lapses
<1> QED
  BY <1>1, <1>2, <1>3

\* A close that ends takes the child away.
LEMMA NotClosedInPart ==
  ASSUME IInv, Lapsing, lapses' = {}, this.slot["close"] # 0, this'.slot["close"] = 0
  PROVE  ~this'.tcp
<1>1. Lapses = {}
  BY LapsesGrow
<1>2. ASSUME this'.tcp  PROVE "closeFailed" \in Lapses
  BY <1>2 DEF Lapses
<1> QED
  BY <1>1, <1>2

\* A close ends an accept that the firmware has not served, whose child is gone.
LEMMA NotAcceptEnded ==
  ASSUME IInv, Lapsing, lapses' = {}, NEW c \in Context,
         At(c, "finish"), todo[c][1].x = "accept", todo'[c] # todo[c]
  PROVE  this.slot["accept"] = 0 \/ (~this.child /\ ~this.tcp)
<1>1. Lapses = {}
  BY LapsesGrow
<1>2. Head(todo[c]) = todo[c][1]
  BY IsAt
<1>3. ASSUME this.slot["accept"] # 0, this.child \/ this.tcp  PROVE "acceptEnded" \in Lapses
  BY <1>2, <1>3 DEF Lapses
<1> QED
  BY <1>1, <1>3

\* A listener that listens does not wait to.
LEMMA NotListenedTwice ==
  ASSUME Lapsing, "listensTwice" \notin lapses'
  PROVE  ~(this'.listening /\ this'.slot["listen"] # 0)
<1>1. ASSUME this'.listening /\ this'.slot["listen"] # 0  PROVE "listensTwice" \in Lapses
  BY <1>1 DEF Lapses
<1> QED
  BY <1>1 DEF Lapsing

\* A context that executes its first label moves.
LEMMA Moves ==
  ASSUME IInv, NEW c \in Context, NEW ls, Step(c, ls, 1), todo[c] # <<>>,
         Len(ls) # 1 \/ ls[1].at # todo[c][1].at
  PROVE  todo'[c] # todo[c]
<1>1. Len(ls) \in Nat /\ Len(todo[c]) \in Nat
  BY Types, LenProperties DEF Step
<1>2. CASE Len(ls) # 1
  <2>1. Len(todo'[c]) = Len(ls) + Len(todo[c]) - 1
    BY DEF Step, Shift
  <2>2. \A m, n \in Nat : m # 1 => m + n - 1 # n
    OBVIOUS
  <2>3. Len(todo'[c]) # Len(todo[c])
    BY <1>1, <1>2, <2>1, <2>2, Zenon
  <2> QED
    BY <2>3
<1>3. CASE Len(ls) = 1 /\ ls[1].at # todo[c][1].at
  <2>1. 1 \in 1 .. Len(ls)
    BY <1>3
  <2>2. todo'[c][1] = ls[1]
    BY <2>1, NewIs
  <2> QED
    BY <1>3, <2>2
<1> QED
  BY <1>2, <1>3

-----------------------------------------------------------------------------
(* What a step of one context that stores nothing leaves as it was.         *)

\* No slot gets an operation.
Fewer == \A x \in Slot : this'.slot[x] = this.slot[x] \/ this'.slot[x] = 0

\* The tasks that end are those of slots that are emptied, or of the label that goes.
EndsAt(c, k, o) == k = 1 /\ todo[c][1].at = "finish" /\ todo[c][1].op = o
Ends(c, k) ==
  /\ calls' \in 0 .. MaxCalls /\ calls <= calls'
  /\ done' \in [Op -> {"none", "pending", "done"}]
  /\ \A o \in Op : done[o] = "pending" /\ done'[o] # "pending" =>
       \/ EndsAt(c, k, o)
       \/ \E x \in Slot : this.slot[x] = o /\ this'.slot[x] = 0
  /\ \A o \in Op : done'[o] = "pending" =>
       \/ HasPlace(o)'
       \/ done[o] = "pending" /\ ~EndsAt(c, k, o) /\ \A x \in Slot : this.slot[x] = o => this'.slot[x] = o

\* A step of c that is not the storing of an operation.
Plain(c, ls, k) ==
  /\ Step(c, ls, k)
  /\ k = 1 => todo[c][1].at # "set"
  /\ k = 1 /\ todo[c][1].at = "finish" /\ todo[c][1].x = "accept" => this'.slot["accept"] = 0
  /\ this' \in Fields /\ this'.role = this.role /\ tick' = tick
  /\ Fewer /\ Ends(c, k)

\* The type.
LEMMA TypeStays ==
  ASSUME IInv, Lapsing, NEW c \in Context, NEW ls, NEW k, Plain(c, ls, k)
  PROVE  TypeOK'
<1>1. todo' \in [Context -> Seq(Label)]
  BY DEF Plain, Step, Shift
<1>2. this' \in Fields /\ this'.role = this.role /\ tick' \in BOOLEAN
  BY Types DEF Plain
<1>3. calls' \in 0 .. MaxCalls /\ done' \in [Op -> {"none", "pending", "done"}]
  BY DEF Plain, Ends
<1>4. this'.role # "listener" => this'.slot["listen"] = 0 /\ this'.slot["accept"] = 0
  BY <1>2, Types DEF Plain, Fewer, Slot, Token
<1>5. this'.role = "listener" => \A x \in {"connect", "receive", "transmit"} : this'.slot[x] = 0
  BY <1>2, Types DEF Plain, Fewer, Slot, Token
<1> QED
  BY <1>1, <1>2, <1>3, <1>4, <1>5, LapsesGrow, Together

\* An update that some label announces comes later, also after the step.
LEMMA LaterStays ==
  ASSUME IInv, NEW c \in Context, NEW ls, NEW k, Step(c, ls, k),
         NEW i \in Places(c), i > k, \E j \in Places(c) : j > i /\ todo[c][j].at = "update"
  PROVE  \E j \in Places(c)' : j > i + Len(ls) - k /\ todo'[c][j].at = "update"
<1>1. PICK j \in Places(c) : j > i /\ todo[c][j].at = "update"
  OBVIOUS
<1>2. Len(ls) \in Nat /\ k \in Nat /\ i \in Nat /\ j \in Nat
  BY LenProperties DEF Step, Places
<1>3. j > k
  BY <1>1, <1>2
<1>4. PICK m \in Places(c)' : todo'[c][m] = todo[c][j] /\ m = j + Len(ls) - k
  BY <1>3, OldStays
<1>5. m > i + Len(ls) - k
  BY <1>1, <1>2, <1>4
<1> QED
  BY <1>1, <1>4, <1>5

\* The labels that stay are still what they say.
LEMMA LabelsStay ==
  ASSUME IInv, NEW c \in Context, NEW ls, NEW k, Plain(c, ls, k),
         \A i \in 1 .. Len(ls) : LabelOK(c, i)'
  PROVE  LabelsOK'
<1> SUFFICES ASSUME NEW d \in Context, NEW i \in Places(d)' PROVE LabelOK(d, i)'
  BY DEF LabelsOK
<1>0. Step(c, ls, k) /\ (k = 1 => todo[c][1].at # "set") /\ Fewer
      /\ this'.role = this.role /\ calls' \in Nat /\ calls <= calls' /\ calls \in Nat
  BY Types DEF Plain, Ends
<1>1. CASE d = c /\ i \in 1 .. Len(ls)
  BY <1>1
<1>2. CASE d = c /\ i > Len(ls)
  <2>0. Len(ls) \in Nat /\ k \in Nat /\ i \in Nat
    BY <1>0, LenProperties DEF Step, Places
  <2>1. PICK j : j = i - Len(ls) + k
    OBVIOUS
  <2>2. j \in Places(c) /\ j > k /\ todo'[c][i] = todo[c][j]
    BY <1>0, <1>2, <2>0, <2>1, NewOrOld
  <2>3. todo[c][j].at \notin Begins \cup {"pollAddress"}
    BY <1>0, <2>2, RestQuiet
  <2>4. LabelOK(c, j)
    BY <2>2 DEF IInv, LabelsOK
  <2>5. todo[c][j].at = "finish" => \E m \in Places(c)' : m > i /\ todo'[c][m].at = "update"
    <3> SUFFICES ASSUME todo[c][j].at = "finish"
                 PROVE  \E m \in Places(c)' : m > i /\ todo'[c][m].at = "update"
      OBVIOUS
    <3>1. \E m \in Places(c) : m > j /\ todo[c][m].at = "update"
      BY <2>4 DEF LabelOK
    <3>2. j + Len(ls) - k = i
      BY <2>0, <2>1
    <3> QED
      BY <1>0, <2>2, <3>1, <3>2, LaterStays
  <2>6. todo[c][j].op \in 0 .. calls => todo[c][j].op \in 0 .. calls'
    BY <1>0
  <2>7. todo[c][j].op # 0 /\ (\A x \in Slot : this.slot[x] # todo[c][j].op)
        => \A x \in Slot : this'.slot[x] # todo[c][j].op
    BY <1>0 DEF Fewer
  <2> QED
    BY <1>2, <2>2, <2>3, <2>4, <2>5, <2>6, <2>7 DEF LabelOK, Begins
<1>3. CASE d # c
  <2>1. i \in Places(d) /\ todo'[d] = todo[d]
    BY <1>0, <1>3, NewOrOld
  <2>2. LabelOK(d, i)
    BY <2>1 DEF IInv, LabelsOK
  <2>3. todo[d][i].at # "pollAddress"
    <3>1. OnCpu(c)
      BY <1>0 DEF Step
    <3> QED
      BY <1>3, <2>1, <3>1, OtherPasses
  <2>4. Places(d)' = Places(d)
    BY <2>1 DEF Places
  <2>5. todo[d][i].op \in 0 .. calls => todo[d][i].op \in 0 .. calls'
    BY <1>0
  <2>6. todo[d][i].op # 0 /\ (\A x \in Slot : this.slot[x] # todo[d][i].op)
        => \A x \in Slot : this'.slot[x] # todo[d][i].op
    BY <1>0 DEF Fewer
  <2> QED
    BY <1>0, <2>1, <2>2, <2>3, <2>4, <2>5, <2>6 DEF LabelOK, Fits
<1> QED
  BY <1>0, <1>1, <1>2, <1>3, NewOrOld

\* A context whose new labels begin nothing begins nothing next.
LEMMA HeadQuiet ==
  ASSUME IInv, NEW c \in Context, NEW ls, NEW k, Step(c, ls, k),
         k = 1 => todo[c][1].at # "set",
         \A i \in 1 .. Len(ls) : ls[i].at \notin Begins
  PROVE  /\ todo'[c] # <<>> => todo'[c][1].at \notin Begins
         /\ SetOK(c)' /\ BeginOK(c)' /\ ~Witness(c)'
<1>a. ASSUME todo'[c] # <<>> PROVE todo'[c][1].at \notin Begins
  <2>0. todo'[c] \in Seq(Label)
    BY DEF Step, Shift
  <2>1. 1 \in Places(c)'
    BY <1>a, <2>0, EmptySeq DEF Places
  <2>2. CASE 1 \in 1 .. Len(ls)
    BY <2>0, <2>1, <2>2 DEF Step, Shift
  <2>3. CASE ~(1 \in 1 .. Len(ls))
    <3>1. PICK j \in Places(c) : j > k /\ todo'[c][1] = todo[c][j]
      BY <2>1, <2>3, NewOrOld
    <3> QED
      BY <3>1, RestQuiet
  <2> QED
    BY <2>2, <2>3
<1> QED
  BY <1>a DEF SetOK, BeginOK, Witness, Begins

\* What a preempted call is about to begin is not disturbed by a tick.
Mild(c, ls) ==
  /\ calls' = calls
  /\ \A i \in 1 .. Len(ls) : ls[i].at = "finish" =>
       ls[i].op = 0 \/ \E x \in Slot : ls[i].op = this.slot[x]
  /\ this'.waiting => this.waiting
  /\ this'.child => this.child
  /\ this.configured /\ this'.tcp => this'.configured
  /\ \A x \in Token : this.token[x] = NoToken =>
       this'.token[x] = NoToken \/ (x = "connect" /\ this.waiting)

\* What another context stores or submits next is untouched.
LEMMA HeadsStay ==
  ASSUME IInv, Lapsing, NEW c \in Context, NEW ls, NEW k, Plain(c, ls, k),
         SetOK(c)', BeginOK(c)',
         CanCall(c) \/ (todo[c] # <<>> /\ todo[c][1].at \in Begins) \/ Mild(c, ls)
  PROVE  \A d \in Context : SetOK(d)' /\ BeginOK(d)'
<1> SUFFICES ASSUME NEW d \in Context \ {c} PROVE SetOK(d)' /\ BeginOK(d)'
  OBVIOUS
<1>0. Step(c, ls, k) /\ OnCpu(c) /\ Fewer /\ Ends(c, k) /\ this' \in Fields
  BY DEF Plain, Step
<1>1. todo'[d] = todo[d] /\ todo[d] \in Seq(Label) /\ todo' \in [Context -> Seq(Label)]
  BY <1>0, Types DEF Step, Shift
<1>2. CASE todo[d] = <<>> \/ todo[d][1].at \notin Begins
  BY <1>1, <1>2 DEF SetOK, BeginOK, Begins
<1>3. CASE todo[d] # <<>> /\ todo[d][1].at \in Begins
  <2>1. \A i \in Places(c) : todo[c][i].at \notin Begins
    BY <1>0, <1>3, OtherBegins
  <2>2. ~CanCall(c)
    BY <1>0, <1>3, OtherBegins
  <2>3. Mild(c, ls)
    <3>1. todo[c] # <<>> => 1 \in Places(c)
      BY Types, EmptySeq DEF Places
    <3> QED
      BY <2>1, <2>2, <3>1
  <2>4. 1 \in Places(d) /\ 1 \in Places(d)'
    BY <1>1, <1>3, EmptySeq DEF Places
  <2>5. LabelOK(d, 1) /\ SetOK(d) /\ BeginOK(d)
    BY <2>4 DEF IInv, LabelsOK
  <2>6. todo[d][1].x \in Token
    BY <1>3, <2>5 DEF LabelOK, Begins, Token
  <2>7. BeginOK(d)'
    <3>1. lapses \subseteq lapses' /\ (lapses' = {} => lapses = {})
      BY LapsesGrow
    <3>2. "released" \notin lapses' /\ (todo[d][1].x # "connect" \/ todo[d][1].at = "submitConnect")
          => this'.tcp
      <4> SUFFICES ASSUME "released" \notin lapses', ~this'.tcp,
                          todo[d][1].x # "connect" \/ todo[d][1].at = "submitConnect"
                   PROVE  FALSE
        OBVIOUS
      <4>1. this.tcp
        BY <1>3, <2>5, <3>1 DEF BeginOK
      <4>2. /\ todo'[d][1].at # "submitConnect"
            /\ todo'[d][1].at \in {"set", "go"} => todo'[d][1].x = "connect"
        BY <1>0, <1>1, <2>4, <4>1, NotReleased
      <4> QED
        BY <1>1, <1>3, <4>2 DEF Begins
    <3>3. ASSUME lapses' = {}
          PROVE  /\ this'.token[todo[d][1].x] = NoToken
                 /\ todo[d][1].x = "connect" => ~this'.waiting
                 /\ todo[d][1].x = "accept" => ~this'.child
                 /\ todo[d][1].at = "submitConnect" => this'.configured
      <4>1. /\ this.token[todo[d][1].x] = NoToken
            /\ todo[d][1].x = "connect" => ~this.waiting
            /\ todo[d][1].x = "accept" => ~this.child
            /\ todo[d][1].at = "submitConnect" => this.configured
        BY <1>3, <2>5, <3>1, <3>3 DEF BeginOK
      <4>2. todo[d][1].at = "submitConnect" => this'.tcp
        BY <3>2, <3>3
      <4> QED
        BY <2>3, <2>6, <4>1, <4>2 DEF Mild
    <3> QED
      BY <1>1, <3>2, <3>3 DEF BeginOK
  <2>8. SetOK(d)'
    <3> SUFFICES ASSUME todo[d][1].at = "set" PROVE SetOK(d)'
      BY <1>1 DEF SetOK
    <3>0. PICK o : o = todo[d][1].op
      OBVIOUS
    <3>1. /\ this.slot[todo[d][1].x] = 0 /\ o \in Op /\ o <= calls /\ done[o] = "pending"
          /\ \A x \in Slot : this.slot[x] # o
          /\ \A e \in Context : \A i \in Places(e) : todo[e][i].at = "finish" => todo[e][i].op # o
      BY <1>3, <2>5, <3>0 DEF SetOK
    <3>2. o # 0
      BY <3>1, Numbers
    <3>3. \A x \in Slot : this'.slot[x] # o
      BY <1>0, <3>1, <3>2 DEF Fewer
    <3>4. this'.slot[todo[d][1].x] = 0
      BY <1>0, <2>6, <3>1 DEF Fewer, Slot
    <3>5. done'[o] = "pending"
      <4>1. ~EndsAt(c, k, o)
        <5> SUFFICES ASSUME k = 1, todo[c][1].at = "finish", todo[c][1].op = o PROVE FALSE
          BY DEF EndsAt
        <5>1. 1 \in Places(c)
          BY <1>0, Numbers DEF Step, Places
        <5> QED
          BY <3>1, <5>1
      <4> QED
        BY <1>0, <3>1, <4>1 DEF Ends
    <3>6. ASSUME NEW e \in Context, NEW i \in Places(e)', todo'[e][i].at = "finish"
          PROVE  todo'[e][i].op # o
      <4>1. CASE e = c /\ i \in 1 .. Len(ls) /\ todo'[e][i] = ls[i]
        BY <2>3, <3>1, <3>2, <3>6, <4>1 DEF Mild
      <4>2. CASE \E j \in Places(e) : todo'[e][i] = todo[e][j]
        BY <3>1, <3>6, <4>2
      <4> QED
        BY <1>0, <4>1, <4>2, NewOrOld
    <3> QED
      BY <1>1, <2>3, <3>0, <3>1, <3>3, <3>4, <3>5, <3>6 DEF SetOK, Mild
  <2> QED
    BY <2>7, <2>8
<1> QED
  BY <1>2, <1>3

\* A completion that is left for later is still to come, unless it is the label that goes.
LEMMA FinishingStays ==
  ASSUME IInv, NEW c \in Context, NEW ls, NEW k, Step(c, ls, k), Finishing,
         ~(k = 1 /\ todo[c][1].at = "finish" /\ todo[c][1].x = "accept")
  PROVE  Finishing'
<1>1. PICK d \in Context : \E i \in Places(d) : todo[d][i].at = "finish" /\ todo[d][i].x = "accept"
  BY DEF Finishing
<1>2. PICK i \in Places(d) : todo[d][i].at = "finish" /\ todo[d][i].x = "accept"
  BY <1>1
<1>3. d # c \/ i > k
  BY <1>2 DEF Step, Places
<1>4. \E j \in Places(d)' : todo'[d][j] = todo[d][i]
  BY <1>3, OldStays
<1> QED
  BY <1>2, <1>4 DEF Finishing

\* So is an update.
LEMMA UpdatingStays ==
  ASSUME IInv, NEW c \in Context, NEW ls, NEW k, Step(c, ls, k), Updating,
         ~(k = 1 /\ todo[c][1].at = "update")
  PROVE  Updating'
<1>1. PICK d \in Context : \E i \in Places(d) : todo[d][i].at = "update"
  BY DEF Updating
<1>2. PICK i \in Places(d) : todo[d][i].at = "update"
  BY <1>1
<1>3. d # c \/ i > k
  BY <1>2 DEF Step, Places
<1>4. \E j \in Places(d)' : todo'[d][j] = todo[d][i]
  BY <1>3, OldStays
<1> QED
  BY <1>2, <1>4 DEF Updating

\* Where something is left for later, an update follows.
LEMMA FinishingUpdates == LabelsOK /\ Finishing => Updating
BY DEF LabelsOK, LabelOK, Finishing, Updating

\* The same after a step.
LEMMA FinishingUpdatesNext == LabelsOK' /\ Finishing' => Updating'
BY FinishingUpdates, PTL

\* An operation that stays in its slot is as well stored as before.
LEMMA StoredStays ==
  ASSUME IInv, Lapsing, NEW c \in Context, NEW ls, NEW k, Plain(c, ls, k)
  PROVE  \A x \in Slot : StoredOK(x)'
<1>0. Step(c, ls, k) /\ Fewer /\ Ends(c, k) /\ this' \in Fields /\ todo' \in [Context -> Seq(Label)]
  BY DEF Plain, Step, Shift
<1>1. ASSUME NEW x \in Slot, this'.slot[x] # 0
      PROVE  /\ this'.slot[x] = this.slot[x] /\ this.slot[x] # 0
             /\ this'.slot[x] <= calls' /\ done'[this'.slot[x]] = "pending"
             /\ \A y \in Slot : this'.slot[y] = this'.slot[x] => x = y
  <2>1. this'.slot[x] = this.slot[x] /\ this.slot[x] # 0 /\ StoredOK(x) /\ this.slot[x] \in Op
    BY <1>0, <1>1, Numbers DEF Fewer, IInv
  <2>2. this.slot[x] <= calls /\ done[this.slot[x]] = "pending"
        /\ \A y \in Slot : this.slot[y] = this.slot[x] => x = y
    BY <2>1 DEF StoredOK
  <2>3. this.slot[x] <= calls'
    <3>1. this.slot[x] \in Nat /\ calls \in Nat /\ calls' \in Nat /\ calls <= calls'
      BY <1>0, Types, Numbers DEF Ends
    <3> QED
      BY <2>2, <3>1
  <2>4. \A y \in Slot : this'.slot[y] = this'.slot[x] => x = y
    BY <1>0, <1>1, <2>1, <2>2 DEF Fewer
  <2>5. done'[this.slot[x]] = "pending"
    <3>1. ~EndsAt(c, k, this.slot[x])
      <4> SUFFICES ASSUME k = 1, todo[c][1].at = "finish", todo[c][1].op = this.slot[x] PROVE FALSE
        BY DEF EndsAt
      <4>1. 1 \in Places(c)
        BY <1>0, Numbers DEF Step, Places
      <4>2. LabelOK(c, 1)
        BY <4>1 DEF IInv, LabelsOK
      <4> QED
        BY <2>1, <4>2 DEF LabelOK
    <3>2. ~\E y \in Slot : this.slot[y] = this.slot[x] /\ this'.slot[y] = 0
      BY <1>1, <2>2
    <3> QED
      BY <1>0, <2>1, <2>2, <3>1, <3>2 DEF Ends
  <2> QED
    BY <2>1, <2>3, <2>4, <2>5
<1>2. ASSUME NEW x \in Slot, this'.slot[x] # 0, "released" \notin lapses', ~this'.tcp, x # "connect"
      PROVE  x = "accept" /\ Finishing'
  <2>1. CASE this.tcp
    <3>1. this'.slot[x] = this'.slot["accept"] /\ Finishing'
      BY <1>0, <1>2, <2>1, NotReleased
    <3>2. "accept" \in Slot
      BY DEF Slot, Token
    <3> QED
      BY <1>1, <1>2, <3>1, <3>2
  <2>2. CASE ~this.tcp
    <3>1. "released" \notin lapses
      BY <1>2, LapsesGrow
    <3>2. x = "accept" /\ Finishing
      BY <1>1, <1>2, <2>2, <3>1 DEF IInv, StoredOK
    <3> QED
      BY <1>0, <1>2, <3>2, FinishingStays DEF Plain
  <2> QED
    BY <2>1, <2>2
<1> QED
  BY <1>1, <1>2 DEF StoredOK

\* Every operation in progress still has its place.
LEMMA PlacesStay ==
  ASSUME IInv, NEW c \in Context, NEW ls, NEW k, Plain(c, ls, k)
  PROVE  \A o \in Op : done'[o] = "pending" => HasPlace(o)'
<1> SUFFICES ASSUME NEW o \in Op, done'[o] = "pending", done[o] = "pending",
                    \A x \in Slot : this.slot[x] = o => this'.slot[x] = o,
                    ~EndsAt(c, k, o)
             PROVE  HasPlace(o)'
  BY DEF Plain, Ends
<1>0. Step(c, ls, k) /\ (k = 1 => todo[c][1].at # "set")
  BY DEF Plain
<1>1. HasPlace(o)
  BY DEF IInv
<1>2. CASE \E x \in Slot : this.slot[x] = o
  BY <1>2 DEF HasPlace
<1>3. ASSUME NEW d \in Context, NEW i \in Places(d),
             todo[d][i].at \in {"set", "finish"}, todo[d][i].op = o
      PROVE  HasPlace(o)'
  <2>1. d # c \/ i > k
    BY <1>0, <1>3 DEF Step, Places, EndsAt
  <2>2. PICK j \in Places(d)' : todo'[d][j] = todo[d][i]
    BY <1>0, <2>1, OldStays
  <2> QED
    BY <1>3, <2>2 DEF HasPlace
<1> QED
  BY <1>1, <1>2, <1>3 DEF HasPlace

\* A tick inside a call of the application still begins nothing.
LEMMA TickStays ==
  ASSUME IInv, NEW c \in Context, NEW ls, NEW k, Step(c, ls, k), tick' = tick,
         c = "Timer" /\ InCall => \A i \in 1 .. Len(ls) : ls[i].at \notin Begins
  PROVE  TickOK'
<1>0. todo' \in [Context -> Seq(Label)] /\ todo \in [Context -> Seq(Label)]
  BY Types DEF Step, Shift
<1>1. CASE c = "App"
  <2>1. ~tick
    BY <1>1, Types DEF Step, OnCpu
  <2>2. todo["Timer"] = <<>> /\ todo'["Timer"] = todo["Timer"]
    BY <1>1, <2>1 DEF Step, Shift, IInv, TickOK, Context
  <2> QED
    BY <2>1, <2>2 DEF TickOK
<1>2. CASE c = "Timer"
  <2>1. tick /\ todo'["App"] = todo["App"]
    BY <1>2, Types DEF Step, Shift, OnCpu, Context
  <2>2. ASSUME InCall', NEW i \in Places("Timer")'
        PROVE  todo'["Timer"][i].at \notin Begins
    <3>1. InCall
      BY <2>1, <2>2 DEF InCall
    <3>2. \A j \in Places("Timer") : todo["Timer"][j].at \notin Begins
      BY <2>1, <3>1 DEF IInv, TickOK
    <3> QED
      BY <1>2, <2>2, <3>1, <3>2, NewOrOld DEF Context
  <2>3. \A i \in Places("App")' : todo'["App"][i].at # "passEnd"
    BY <2>1 DEF IInv, TickOK, Places
  <2> QED
    BY <2>1, <2>2, <2>3 DEF TickOK
<1> QED
  BY <1>1, <1>2 DEF Context

\* What serves an operation is not taken from it while it is in progress.
Serving(c, k, x) ==
  lapses' = {} /\ this'.slot[x] # 0 =>
    /\ this.token[x].queued \/ this.token[x].signaled =>
         this'.token[x].queued \/ this'.token[x].signaled \/ ~this'.tcp
    /\ x = "connect" /\ this.waiting => this'.waiting \/ this'.token[x].queued
    /\ /\ k = 1
       /\ (todo[c][1].at = "go" /\ todo[c][1].x = x)
          \/ (todo[c][1].at = "submitConnect" /\ x = "connect")
       => ServedNow(x)'

\* So it is still served.
LEMMA ServedStays ==
  ASSUME IInv, Lapsing, NEW c \in Context, NEW ls, NEW k, Plain(c, ls, k), NEW x \in Token,
         Serving(c, k, x)
  PROVE  ServedOK(x)'
<1> SUFFICES ASSUME this'.slot[x] # 0, lapses' = {} PROVE ServedNow(x)'
  BY DEF ServedOK
<1>0. Step(c, ls, k) /\ Fewer /\ this' \in Fields /\ todo' \in [Context -> Seq(Label)] /\ x \in Slot
  BY DEF Plain, Step, Shift, Slot
<1>1. lapses = {} /\ this.slot[x] # 0 /\ this'.slot[x] = this.slot[x]
  BY <1>0, LapsesGrow DEF Fewer
<1>2. ServedNow(x)
  BY <1>1 DEF IInv, ServedOK
<1>3. CASE this.token[x].queued \/ this.token[x].signaled
  <2>1. CASE ~this'.tcp
    <3>1. this.configured /\ this.tcp
      BY <1>3 DEF IInv, TokenOK, ChildOK, NoToken
    <3>2. this'.slot[x] = this'.slot["accept"] /\ Finishing'
      BY <1>0, <2>1, <3>1, NotReleased
    <3>3. x = "accept"
      <4>1. StoredOK(x)' /\ "accept" \in Slot
        BY <1>0, StoredStays DEF Slot, Token
      <4> QED
        BY <3>2, <4>1 DEF StoredOK
    <3> QED
      BY <3>2, <3>3 DEF ServedNow
  <2>2. CASE this'.token[x].queued \/ this'.token[x].signaled
    BY <2>2 DEF ServedNow
  <2> QED
    BY <1>3, <2>1, <2>2 DEF Serving
<1>4. CASE x = "connect" /\ this.waiting
  BY <1>4 DEF Serving, ServedNow
<1>5. CASE Going(x)
  <2>1. PICK d \in Context : /\ todo[d] # <<>>
                             /\ \/ todo[d][1] = L("go", x, this.slot[x])
                                \/ x = "connect" /\ todo[d][1].at = "submitConnect"
    BY <1>5 DEF Going
  <2>2. CASE d # c
    <3>1. todo'[d] = todo[d]
      BY <1>0, <2>2 DEF Step, Shift
    <3> QED
      BY <1>1, <2>1, <3>1 DEF ServedNow, Going
  <2>3. CASE d = c
    <3>1. k = 1
      BY <1>0, <2>1, <2>3 DEF Step, L
    <3> QED
      BY <2>1, <2>3, <3>1 DEF Serving, L
  <2> QED
    BY <2>2, <2>3
<1>6. CASE x = "accept" /\ Finishing
  <2>1. Finishing'
    BY <1>0, <1>6, FinishingStays DEF Plain
  <2> QED
    BY <1>6, <2>1 DEF ServedNow
<1> QED
  BY <1>2, <1>3, <1>4, <1>5, <1>6 DEF ServedNow

\* Somebody still sees to the polls: the registration is brought up to date, or will be, or it
\* and what may need it are as they were.
Polls(c, ls, k) ==
  "released" \notin lapses' =>
    \/ this'.polled = (this'.waiting \/ \E x \in Slot : this'.slot[x] # 0)
    \/ \E i \in 1 .. Len(ls) : ls[i].at = "update"
    \/ /\ this'.waiting => this.waiting
       /\ this.polled => this'.polled
       /\ this'.slot["accept"] = this.slot["accept"] \/ Updating'
       /\ k = 1 => todo[c][1].at # "update"
       /\ k = 1 /\ Witness(c) => Witness(c)'

\* A step of which Polls holds leaves whatever waits in the list of the poller, or under a label
\* that will put it there.
LEMMA PolledStays ==
  ASSUME IInv, Lapsing, NEW c \in Context, NEW ls, NEW k, Plain(c, ls, k), Polls(c, ls, k)
  PROVE  PolledOK'
<1>0. Step(c, ls, k) /\ Fewer
  BY DEF Plain
<1>1. CASE this'.polled = (this'.waiting \/ \E x \in Slot : this'.slot[x] # 0)
  BY <1>1 DEF PolledOK
<1>2. CASE \E i \in 1 .. Len(ls) : ls[i].at = "update"
  <2>1. Updating'
    BY <1>0, <1>2, NewIs DEF Updating
  <2> QED
    BY <2>1 DEF PolledOK
<1>3. CASE /\ this'.waiting => this.waiting
           /\ this.polled => this'.polled
           /\ this'.slot["accept"] = this.slot["accept"] \/ Updating'
           /\ k = 1 => todo[c][1].at # "update"
           /\ k = 1 /\ Witness(c) => Witness(c)'
  <2> SUFFICES ASSUME "released" \notin lapses', this'.waiting \/ \E x \in Slot : this'.slot[x] # 0,
                      ~Updating'
               PROVE  this'.polled \/ \E d \in Context : Witness(d)'
    BY DEF PolledOK
  <2>1. "released" \notin lapses
    BY LapsesGrow
  <2>2. this.waiting \/ \E x \in Slot : this.slot[x] # 0
    BY <1>0, <1>3 DEF Fewer
  <2>3. this.polled \/ Updating \/ \E d \in Context : Witness(d)
    BY <2>1, <2>2 DEF IInv, PolledOK
  <2>4. ~Updating
    BY <1>0, <1>3, UpdatingStays
  <2>5. CASE this.polled
    BY <1>3, <2>5
  <2>6. ASSUME NEW d \in Context, Witness(d) PROVE \E e \in Context : Witness(e)'
    <3>1. CASE d # c
      <4>1. todo'[d] = todo[d]
        BY <1>0, <3>1 DEF Step, Shift
      <4> QED
        BY <1>3, <2>6, <4>1 DEF Witness
    <3>2. CASE d = c
      <4>1. k = 1
        BY <1>0, <2>6, <3>2 DEF Witness, Step
      <4> QED
        BY <1>3, <2>6, <3>2, <4>1
    <3> QED
      BY <3>1, <3>2
  <2> QED
    BY <2>3, <2>4, <2>5, <2>6
<1> QED
  BY <1>1, <1>2, <1>3 DEF Polls, PolledOK

\* The new labels of c are what they say.
ComeWell(c, ls) ==
  /\ \A i \in 1 .. Len(ls) : LabelOK(c, i)'
  /\ SetOK(c)' /\ BeginOK(c)'
  /\ c = "Timer" /\ InCall => \A i \in 1 .. Len(ls) : ls[i].at \notin Begins
  /\ CanCall(c) \/ (todo[c] # <<>> /\ todo[c][1].at \in Begins) \/ Mild(c, ls)

\* The parts together.
LEMMA GeneralStep ==
  ASSUME IInv, Lapsing, NEW c \in Context, NEW ls, NEW k, Plain(c, ls, k), ComeWell(c, ls),
         \A x \in Token : Serving(c, k, x) /\ TokenOK(x)',
         PolledOK', ChildOK'
  PROVE  IInv'
<1>1. TypeOK'
  BY TypeStays
<1>2. LabelsOK'
  BY LabelsStay DEF ComeWell
<1>3. \A d \in Context : SetOK(d)' /\ BeginOK(d)'
  BY HeadsStay DEF ComeWell
<1>4. \A x \in Token : ServedOK(x)'
  BY ServedStays
<1>5. \A x \in Slot : StoredOK(x)'
  BY StoredStays
<1>6. \A o \in Op : done'[o] = "pending" => HasPlace(o)'
  BY PlacesStay
<1>7. TickOK'
  BY TickStays DEF Plain, ComeWell
<1> QED
  BY <1>1, <1>2, <1>3, <1>4, <1>5, <1>6, <1>7 DEF IInv

\* Labels that begin nothing, and that hold of what they say, come well into a tick.
LEMMA QuietComes ==
  ASSUME IInv, NEW c \in Context, NEW ls, NEW k, Plain(c, ls, k),
         \A i \in 1 .. Len(ls) : ls[i].at \notin Begins /\ LabelOK(c, i)',
         CanCall(c) \/ (todo[c] # <<>> /\ todo[c][1].at \in Begins) \/ Mild(c, ls)
  PROVE  ComeWell(c, ls)
<1>1. Step(c, ls, k) /\ (k = 1 => todo[c][1].at # "set")
  BY DEF Plain
<1>2. SetOK(c)' /\ BeginOK(c)'
  BY <1>1, HeadQuiet
<1> QED
  BY <1>2 DEF ComeWell

-----------------------------------------------------------------------------
(* The methods that call nobody back.                                       *)

\* What is released.
LEMMA ReleaseIs ==
  ASSUME NEW s \in Fields, NEW r, r = ReleaseTcp(s)
  PROVE  /\ r \in Fields /\ ~r.tcp /\ ~r.configured /\ ~r.polled
         /\ \A x \in Token : r.token[x] = NoToken
         /\ r.role = s.role /\ r.slot = s.slot /\ r.waiting = s.waiting
         /\ r.connected = s.connected /\ r.listening = s.listening /\ r.child = s.child
<1>1. NoToken \in [queued : BOOLEAN, signaled : BOOLEAN]
  BY DEF NoToken
<1>2. [x \in Token |-> NoToken] \in [Token -> [queued : BOOLEAN, signaled : BOOLEAN]]
  BY <1>1
<1> QED
  BY <1>2 DEF ReleaseTcp, Fields

\* What is brought up to date.
LEMMA UpdateIs ==
  ASSUME NEW s \in Fields, NEW r, r = UpdatePollingRegistration(s)
  PROVE  /\ r \in Fields /\ r.polled = (s.waiting \/ \E x \in Slot : s.slot[x] # 0)
         /\ r.role = s.role /\ r.slot = s.slot /\ r.waiting = s.waiting /\ r.token = s.token
         /\ r.tcp = s.tcp /\ r.configured = s.configured
         /\ r.connected = s.connected /\ r.listening = s.listening /\ r.child = s.child
<1>1. (Pending(s) # {}) = (\E x \in Slot : s.slot[x] # 0)
  BY DEF Pending
<1> QED
  BY <1>1 DEF UpdatePollingRegistration, Fields

\* What is taken.
LEMMA TakenIs ==
  ASSUME NEW s \in Fields, NEW x \in Slot, NEW r, r = Taken(s, x)
  PROVE  /\ r \in Fields /\ r.slot[x] = 0 /\ \A y \in Slot \ {x} : r.slot[y] = s.slot[y]
         /\ r.role = s.role /\ r.waiting = s.waiting /\ r.token = s.token /\ r.polled = s.polled
         /\ r.tcp = s.tcp /\ r.configured = s.configured
         /\ r.connected = s.connected /\ r.listening = s.listening /\ r.child = s.child
BY DEF Taken, Fields

\* What the firmware takes.
LEMMA SubmitIs ==
  ASSUME NEW s \in Fields, NEW x \in Token, NEW r \in Submit(s, x)
  PROVE  \/ ~r.ok /\ r.s = s
         \/ /\ r.ok /\ s.configured /\ ~s.token[x].queued
            /\ r.s \in Fields /\ r.s.token[x].queued /\ r.s.token[x].signaled = s.token[x].signaled
            /\ \A y \in Token \ {x} : r.s.token[y] = s.token[y]
            /\ r.s.role = s.role /\ r.s.slot = s.slot /\ r.s.waiting = s.waiting
            /\ r.s.tcp = s.tcp /\ r.s.configured = s.configured /\ r.s.polled = s.polled
            /\ r.s.connected = s.connected /\ r.s.listening = s.listening /\ r.s.child = s.child
<1>1. CASE r = [s |-> s, ok |-> FALSE]
  BY <1>1
<1>2. CASE /\ s.configured /\ ~s.token[x].queued
           /\ r = [s |-> [s EXCEPT !.token[x] = [@ EXCEPT !.queued = TRUE]], ok |-> TRUE]
  <2>1. PICK t : t = [s.token[x] EXCEPT !.queued = TRUE]
    OBVIOUS
  <2>2. s.token[x] \in [queued : BOOLEAN, signaled : BOOLEAN]
    BY DEF Fields
  <2>3. t \in [queued : BOOLEAN, signaled : BOOLEAN] /\ t.queued /\ t.signaled = s.token[x].signaled
    BY <2>1, <2>2
  <2>4. r.s = [s EXCEPT !.token = [s.token EXCEPT ![x] = t]] /\ r.ok
    BY <1>2, <2>1
  <2>5. PICK ts : ts = [s.token EXCEPT ![x] = t]
    OBVIOUS
  <2>6. /\ ts \in [Token -> [queued : BOOLEAN, signaled : BOOLEAN]] /\ ts[x] = t
        /\ \A y \in Token \ {x} : ts[y] = s.token[y]
    BY <2>3, <2>5 DEF Fields
  <2>7. r.s = [s EXCEPT !.token = ts]
    BY <2>4, <2>5
  <2> QED
    BY <1>2, <2>3, <2>4, <2>6, <2>7 DEF Fields
<1> QED
  BY <1>1, <1>2 DEF Submit

\* The child is there, or it is not and nothing else has changed.
LEMMA InitializeIs ==
  ASSUME IInv, NEW i \in InitializeTcp(this)
  PROVE  /\ i.s \in Fields /\ (i.ok => i.s.tcp) /\ (this.tcp => i.ok /\ i.s = this)
         /\ i.s.role = this.role /\ i.s.slot = this.slot /\ i.s.waiting = this.waiting
         /\ i.s.configured = this.configured
         /\ \A x \in Token : i.s.token[x] = this.token[x]
         /\ i.s.connected = this.connected /\ i.s.listening = this.listening
         /\ i.s.child = this.child
         /\ i.s.polled => this.polled
         /\ ~i.ok => ~i.s.tcp
         /\ i.ok => i.s.polled = this.polled
<1>0. this \in Fields
  BY Types
<1>1. CASE this.tcp
  BY <1>0, <1>1 DEF InitializeTcp
<1>2. CASE ~this.tcp
  <2>0. ~this.configured /\ \A x \in Token : this.token[x] = NoToken
    BY <1>2 DEF IInv, ChildOK, TokenOK
  <2>1. CASE i = [s |-> [this EXCEPT !.tcp = TRUE], ok |-> TRUE]
    <3>1. i.s = [this EXCEPT !.tcp = TRUE] /\ i.ok
      BY <2>1
    <3> QED
      BY <1>0, <1>2, <3>1 DEF Fields
  <2>2. CASE i = [s |-> this, ok |-> FALSE]
    BY <1>0, <1>2, <2>2
  <2>3. CASE i = [s |-> ReleaseTcp(this), ok |-> FALSE]
    <3>1. i.s = ReleaseTcp(this) /\ ~i.ok
      BY <2>3
    <3>2. PICK r : r = i.s
      OBVIOUS
    <3>3. /\ r \in Fields /\ ~r.tcp /\ ~r.configured /\ ~r.polled
          /\ \A x \in Token : r.token[x] = NoToken
          /\ r.role = this.role /\ r.slot = this.slot /\ r.waiting = this.waiting
          /\ r.connected = this.connected /\ r.listening = this.listening /\ r.child = this.child
      BY <1>0, <3>1, <3>2, ReleaseIs
    <3> QED
      BY <1>2, <2>0, <3>1, <3>2, <3>3, <1>0 DEF Fields
  <2> QED
    BY <1>2, <2>1, <2>2, <2>3 DEF InitializeTcp
<1> QED
  BY <1>1, <1>2

\* A child that was not configured may be.
LEMMA ConfigureIs ==
  ASSUME NEW s \in Fields, NEW g \in ConfigureTcp(s)
  PROVE  /\ g.status \in {"error", "noMapping", "ok"}
         /\ g.status # "error" => ~s.configured
         /\ g.s \in Fields /\ (g.status # "ok" => g.s = s) /\ (g.status = "ok" => g.s.configured)
         /\ g.s.role = s.role /\ g.s.slot = s.slot /\ g.s.waiting = s.waiting
         /\ g.s.token = s.token /\ g.s.tcp = s.tcp /\ g.s.polled = s.polled
         /\ g.s.connected = s.connected /\ g.s.listening = s.listening /\ g.s.child = s.child
<1>1. CASE g = [s |-> s, status |-> "error"]
  BY <1>1
<1>2. CASE ~s.configured /\ g = [s |-> s, status |-> "noMapping"]
  BY <1>2
<1>3. CASE ~s.configured /\ g = [s |-> [s EXCEPT !.configured = TRUE], status |-> "ok"]
  <2>1. g.s = [s EXCEPT !.configured = TRUE] /\ g.status = "ok"
    BY <1>3
  <2> QED
    BY <1>3, <2>1 DEF Fields
<1> QED
  BY <1>1, <1>2, <1>3 DEF ConfigureTcp

-----------------------------------------------------------------------------
(* The steps that touch no field that matters.                              *)

Unmoved ==
  /\ this' \in Fields
  /\ this'.role = this.role /\ this'.slot = this.slot /\ this'.waiting = this.waiting
  /\ this'.token = this.token /\ this'.tcp = this.tcp /\ this'.configured = this.configured
  /\ this'.connected = this.connected /\ this'.listening = this.listening
  /\ this'.child = this.child /\ this'.polled = this.polled

\* What a step that changes no field may take from the labels.
GoesWell(c) ==
  /\ todo[c][1].at \notin {"set", "update", "finish", "submitConnect"}
  /\ todo[c][1].at = "go" =>
       todo[c][1].x = "accept" /\ (this.slot["accept"] = 0 \/ ~this.tcp)

\* A step that changes no field, and takes or brings labels as GoesWell and ComeWell say, keeps
\* the invariant.
LEMMA UnmovedStep ==
  ASSUME IInv, Lapsing, NEW c \in Context, NEW ls, NEW k, Step(c, ls, k),
         Unmoved, tick' = tick, Ends(c, k), ComeWell(c, ls), k = 1 => GoesWell(c)
  PROVE  IInv'
<1> USE DEF Unmoved
<1>1. Plain(c, ls, k)
  BY DEF Plain, Fewer, GoesWell
<1>2. ASSUME NEW x \in Token PROVE TokenOK(x)'
  BY LapsesGrow DEF IInv, TokenOK
<1>3. k = 1 /\ todo[c][1].at = "go" => todo[c] # <<>>
  BY Types, EmptySeq DEF Step
<1>4. ASSUME NEW x \in Token PROVE Serving(c, k, x)
  <2> SUFFICES ASSUME lapses' = {}, this.slot[x] # 0, k = 1, todo[c][1].at = "go", todo[c][1].x = x
               PROVE  FALSE
    BY DEF Serving, GoesWell
  <2>1. x = "accept" /\ ~this.tcp
    BY DEF GoesWell
  <2>2. lapses = {}
    BY LapsesGrow
  <2> QED
    BY <1>3, <2>1, <2>2 DEF IInv, BeginOK, Begins
<1>5. PolledOK'
  <2>1. ASSUME "released" \notin lapses', k = 1, Witness(c) PROVE FALSE
    <3>1. todo[c][1].at = "go" /\ this.slot["accept"] # 0 /\ ~this.tcp /\ todo[c][1].x = "accept"
      BY <2>1 DEF Witness, GoesWell
    <3>2. "released" \notin lapses
      BY <2>1, LapsesGrow
    <3> QED
      BY <1>3, <2>1, <3>1, <3>2 DEF IInv, BeginOK, Begins
  <2>2. Polls(c, ls, k)
    BY <2>1 DEF Polls, GoesWell
  <2> QED
    BY <1>1, <2>2, PolledStays
<1>6. ChildOK'
  BY LapsesGrow DEF IInv, ChildOK
<1> QED
  BY <1>1, <1>2, <1>4, <1>5, <1>6, GeneralStep

\* No task begins or ends.
LEMMA NoneEnds ==
  ASSUME IInv, NEW c \in Context, NEW k,
         calls' = calls, done' = done, this'.slot = this.slot,
         k = 1 => todo[c][1].at # "finish"
  PROVE  Ends(c, k)
<1>1. calls' \in 0 .. MaxCalls /\ calls <= calls'
  BY Types
<1> QED
  BY <1>1, Types DEF Ends, EndsAt

\* A label that is done, with nothing in its place.
LEMMA DropKeeps ==
  ASSUME IInv, Lapsing, NEW c \in Context, NEW at, At(c, at), Proceed(c, this, <<>>), GoesWell(c)
  PROVE  IInv'
<1>1. PICK ls : ls = <<>>
  OBVIOUS
<1>2. ls \in Seq(Label) /\ Len(ls) = 0 /\ \A i \in 1 .. Len(ls) : FALSE
  BY <1>1
<1>3. todo' = [todo EXCEPT ![c] = ls \o Tail(@)] /\ UNCHANGED <<this, done, calls, tick>>
  BY <1>1 DEF Proceed
<1>4. Step(c, ls, 1)
  BY <1>2, <1>3, Replaces
<1>5. Unmoved
  BY <1>3, Types DEF Unmoved
<1>6. Ends(c, 1)
  BY <1>3, NoneEnds DEF GoesWell
<1>7. ComeWell(c, ls)
  <2>1. Mild(c, ls)
    BY <1>2, <1>3 DEF Mild
  <2>2. Plain(c, ls, 1)
    BY <1>3, <1>4, <1>5, <1>6 DEF Plain, Unmoved, Fewer, GoesWell
  <2> QED
    BY <1>2, <2>1, <2>2, QuietComes
<1> QED
  BY <1>3, <1>4, <1>5, <1>6, <1>7, UnmovedStep

\* A continuation returns.
LEMMA UserReturnsKeeps ==
  ASSUME IInv, Lapsing, NEW c \in Context, UserReturns(c) PROVE IInv'
<1>1. At(c, "user") /\ Proceed(c, this, <<>>)
  BY DEF UserReturns
<1>2. GoesWell(c)
  BY <1>1, IsAt DEF GoesWell
<1> QED
  BY <1>1, <1>2, DropKeeps

\* A pass goes on behind the socket.
LEMMA PassEndsKeeps ==
  ASSUME IInv, Lapsing, NEW c \in Context, PassEnds(c) PROVE IInv'
<1>1. At(c, "passEnd") /\ Proceed(c, this, <<>>)
  BY DEF PassEnds
<1>2. GoesWell(c)
  BY <1>1, IsAt DEF GoesWell
<1> QED
  BY <1>1, <1>2, DropKeeps

\* A pass reaches the socket, or runs a delay of it.
LEMMA PassKeeps ==
  ASSUME IInv, Lapsing, NEW c \in Context, NEW ls \in Seq(Label),
         Yields(c), todo' = [todo EXCEPT ![c] = ls \o @],
         UNCHANGED <<done, calls, tick>>, Unmoved,
         \A i \in 1 .. Len(ls) :
           /\ ls[i].at \in {"pollAddress", "pollToken", "timeout", "passEnd"}
           /\ ls[i].at = "pollToken" => ls[i].x \in Token
           /\ ls[i].at = "pollAddress" =>
                i = 1 /\ this.tcp /\ \E j \in 1 .. Len(ls) : ls[j].at = "passEnd"
  PROVE  IInv'
<1>1. Step(c, ls, 0)
  BY Pushes
<1>2. Ends(c, 0)
  BY NoneEnds DEF Unmoved
<1>3. Plain(c, ls, 0)
  BY <1>1, <1>2 DEF Plain, Unmoved, Fewer
<1>4. ASSUME NEW i \in 1 .. Len(ls) PROVE ls[i].at \notin Begins /\ LabelOK(c, i)'
  <2>1. i \in Places(c)' /\ todo'[c][i] = ls[i]
    BY <1>1, NewIs
  <2>2. ls[i].at = "pollAddress" => \E j \in Places(c)' : todo'[c][j].at = "passEnd"
    BY <1>1, NewIs
  <2> QED
    BY <2>1, <2>2 DEF LabelOK, Begins, Unmoved
<1>5. Mild(c, ls)
  BY DEF Mild, Unmoved
<1>6. ComeWell(c, ls)
  BY <1>3, <1>4, <1>5, QuietComes
<1> QED
  BY <1>1, <1>2, <1>6, UnmovedStep

\* A pass that polls the socket keeps the invariant.
LEMMA PollKeeps ==
  ASSUME IInv, Lapsing, NEW c \in Context, Poll(c) PROVE IInv'
<1>0. PICK ends : ends = <<Do("passEnd")>>
  OBVIOUS
<1>1. ends \in Seq(Label) /\ Len(ends) = 1 /\ ends[1].at = "passEnd"
  BY <1>0 DEF Label, Stretch, Begins, L, Do
<1>2. Unmoved /\ Yields(c) /\ UNCHANGED <<done, calls, tick>>
  BY Types DEF Poll, Pass, Unmoved
<1>3. CASE ~this.tcp
  <2>1. todo' = [todo EXCEPT ![c] = (<<>> \o ends) \o @]
    BY <1>0, <1>3 DEF Poll, Pass
  <2>2. <<>> \o ends = ends
    BY <1>1, ConcatEmptySeq
  <2>3. todo' = [todo EXCEPT ![c] = ends \o @]
    BY <2>1, <2>2
  <2>4. 1 .. Len(ends) = {1}
    BY <1>1
  <2> QED
    BY <1>1, <1>2, <2>3, <2>4, PassKeeps
<1>4. CASE this.tcp
  <2>0. PICK names : names = <<"connect", "transmit", "receive", "close", "accept">>
    OBVIOUS
  <2>1. PICK polls : polls = [i \in 1 .. 5 |-> L("pollToken", names[i], 0)]
    OBVIOUS
  <2>2. PICK first : first = <<Do("pollAddress")>>
    OBVIOUS
  <2>3. /\ Len(names) = 5 /\ \A i \in 1 .. 5 : names[i] \in Token
    <3>1. 1 .. 5 = {1, 2, 3, 4, 5}
      OBVIOUS
    <3> QED
      BY <2>0, <3>1 DEF Token
  <2>4. /\ polls \in Seq(Label) /\ Len(polls) = 5
        /\ \A i \in 1 .. 5 : polls[i].at = "pollToken" /\ polls[i].x \in Token
    <3>1. \A i \in 1 .. 5 : polls[i] = L("pollToken", names[i], 0)
      BY <2>1
    <3>2. \A i \in 1 .. 5 : polls[i] \in Label /\ polls[i].at = "pollToken" /\ polls[i].x \in Token
      BY <2>3, <3>1 DEF L, Label, Stretch, Begins, Slot
    <3>3. polls \in [1 .. 5 -> Label]
      BY <2>1, <3>2
    <3>4. polls \in Seq(Label)
      <4>1. [1 .. 5 -> Label] \subseteq Seq(Label)
        BY SeqDef
      <4> QED
        BY <3>3, <4>1
    <3>5. Len(polls) = 5
      <4>1. DOMAIN polls = 1 .. 5 /\ DOMAIN polls = 1 .. Len(polls) /\ Len(polls) \in Nat
        BY <2>1, <3>4, LenProperties
      <4>2. 5 \in 1 .. Len(polls) /\ Len(polls) # 0
        BY <4>1
      <4>3. Len(polls) \in 1 .. Len(polls)
        BY <4>1, <4>2
      <4>4. Len(polls) \in 1 .. 5
        BY <4>1, <4>3
      <4> QED
        BY <4>1, <4>2, <4>4
    <3> QED
      BY <3>2, <3>4, <3>5
  <2>5. /\ first \in Seq(Label) /\ Len(first) = 1 /\ first[1].at = "pollAddress"
    BY <2>2 DEF Label, Stretch, Begins, L, Do
  <2>6. PICK front : front = first \o polls
    OBVIOUS
  <2>7. /\ front \in Seq(Label) /\ Len(front) = 6 /\ front[1].at = "pollAddress"
        /\ \A i \in 2 .. 6 : front[i].at = "pollToken" /\ front[i].x \in Token
    <3>1. /\ first \o polls \in Seq(Label) /\ Len(first \o polls) = Len(first) + Len(polls)
          /\ \A i \in 1 .. Len(first) + Len(polls) :
               (first \o polls)[i] = IF i <= Len(first) THEN first[i] ELSE polls[i - Len(first)]
      BY <2>4, <2>5, ConcatProperties
    <3>2. \A i \in 1 .. 6 : front[i] = IF i <= 1 THEN first[i] ELSE polls[i - 1]
      BY SMTT(30), <2>4, <2>5, <2>6, <3>1
    <3> QED
      BY SMTT(30), <2>4, <2>5, <2>6, <3>1, <3>2
  <2>8. PICK ls : ls = front \o ends
    OBVIOUS
  <2>9. /\ ls \in Seq(Label) /\ Len(ls) = 7 /\ ls[1].at = "pollAddress" /\ ls[7].at = "passEnd"
        /\ \A i \in 2 .. 6 : ls[i].at = "pollToken" /\ ls[i].x \in Token
    <3>1. /\ front \o ends \in Seq(Label) /\ Len(front \o ends) = Len(front) + Len(ends)
          /\ \A i \in 1 .. Len(front) + Len(ends) :
               (front \o ends)[i] = IF i <= Len(front) THEN front[i] ELSE ends[i - Len(front)]
      BY <2>7, <1>1, ConcatProperties
    <3>0. Len(front) = 6 /\ Len(ends) = 1 /\ Len(front) + Len(ends) = 7
      BY <2>7, <1>1
    <3>2. \A i \in 1 .. 7 : ls[i] = IF i <= 6 THEN front[i] ELSE ends[i - 6]
      BY <2>8, <3>0, <3>1
    <3> QED
      BY <2>7, <1>1, <2>8, <3>1, <3>2
  <2>10. todo' = [todo EXCEPT ![c] = ls \o @]
    BY <1>0, <1>4, <2>0, <2>1, <2>2, <2>6, <2>8 DEF Poll, Pass
  <2>11. \A i \in 1 .. Len(ls) :
           /\ ls[i].at \in {"pollAddress", "pollToken", "timeout", "passEnd"}
           /\ ls[i].at = "pollToken" => ls[i].x \in Token
           /\ ls[i].at = "pollAddress" =>
                i = 1 /\ this.tcp /\ \E j \in 1 .. Len(ls) : ls[j].at = "passEnd"
    <3>1. 7 \in 1 .. Len(ls) /\ \A i \in 1 .. Len(ls) : i = 1 \/ i \in 2 .. 6 \/ i = 7
      BY <2>9
    <3> QED
      BY <1>4, <2>9, <3>1
  <2> QED
    BY <1>2, <2>9, <2>10, <2>11, PassKeeps
<1> QED
  BY <1>3, <1>4

\* A delay of 30 s that elapses keeps the invariant.
LEMMA ElapseKeeps ==
  ASSUME IInv, Lapsing, NEW c \in Context, NEW o \in this.delays, Elapse(c, o) PROVE IInv'
<1>0. o \in Op /\ o \in Nat
  BY Types, Numbers DEF Fields
<1>1. PICK first : first = <<L("timeout", "none", o)>>
  OBVIOUS
<1>2. PICK ends : ends = <<Do("passEnd")>>
  OBVIOUS
<1>3. /\ first \in Seq(Label) /\ Len(first) = 1 /\ first[1].at = "timeout"
      /\ ends \in Seq(Label) /\ Len(ends) = 1 /\ ends[1].at = "passEnd"
  BY <1>0, <1>1, <1>2 DEF Label, Stretch, Begins, L, Do
<1>4. PICK ls : ls = first \o ends
  OBVIOUS
<1>5. ls \in Seq(Label) /\ Len(ls) = 2 /\ ls[1].at = "timeout" /\ ls[2].at = "passEnd"
  <2>1. /\ first \o ends \in Seq(Label) /\ Len(first \o ends) = Len(first) + Len(ends)
        /\ \A i \in 1 .. Len(first) + Len(ends) :
             (first \o ends)[i] = IF i <= Len(first) THEN first[i] ELSE ends[i - Len(first)]
    BY <1>3, ConcatProperties
  <2>2. \A i \in 1 .. 2 : ls[i] = IF i <= 1 THEN first[i] ELSE ends[i - 1]
    BY <1>3, <1>4, <2>1
  <2> QED
    BY <1>3, <1>4, <2>1, <2>2
<1>6. /\ todo' = [todo EXCEPT ![c] = ls \o @] /\ Yields(c) /\ UNCHANGED <<done, calls, tick>>
      /\ this' = [this EXCEPT !.delays = this.delays \ {o}]
  BY <1>1, <1>2, <1>4 DEF Elapse, Pass
<1>7. Unmoved
  BY <1>6, Types DEF Unmoved, Fields
<1>8. 1 .. Len(ls) = {1, 2}
  BY <1>5
<1> QED
  BY <1>5, <1>6, <1>7, <1>8, PassKeeps

-----------------------------------------------------------------------------
(* The calls.                                                               *)

\* The operation of a call is a new one, and nothing is about to be stored.
LEMMA NewOp ==
  ASSUME IInv, NEW c \in Context, CanCall(c), calls' = calls + 1
  PROVE  /\ Yields(c) /\ New \in Op /\ New \in Nat /\ New = calls' /\ New > calls /\ New # 0
         /\ calls' \in 0 .. MaxCalls /\ calls <= calls' /\ calls \in Nat
         /\ \A x \in Slot : this.slot[x] # New
         /\ \A d \in Context : \A i \in Places(d) : todo[d][i].at = "finish" => todo[d][i].op # New
         /\ done[New] # "pending"
         /\ \A d \in Context \ {c} : todo[d] = <<>> \/ todo[d][1].at \notin Begins
<1>1. calls \in Nat /\ MaxCalls \in Nat /\ calls < MaxCalls
  BY Types DEF CanCall
<1>2. Yields(c) /\ OnCpu(c)
  BY DEF CanCall, Yields, InUserCode
<1>3. New \in Op /\ New \in Nat /\ New = calls' /\ New > calls /\ calls' \in 0 .. MaxCalls
      /\ calls <= calls' /\ New # 0
  BY <1>1 DEF New, Op
<1>4. \A x \in Slot : this.slot[x] # New
  <2> TAKE x \in Slot
  <2>1. this.slot[x] # 0 => this.slot[x] <= calls
    BY DEF IInv, StoredOK
  <2> QED
    BY <1>1, <1>3, <2>1
<1>5. \A d \in Context : \A i \in Places(d) : todo[d][i].at = "finish" => todo[d][i].op # New
  <2> TAKE d \in Context
  <2> TAKE i \in Places(d)
  <2>1. todo[d][i].at = "finish" => todo[d][i].op \in 0 .. calls
    BY DEF IInv, LabelsOK, LabelOK
  <2> QED
    BY <1>1, <1>3, <2>1
<1>6. \A d \in Context \ {c} : todo[d] = <<>> \/ todo[d][1].at \notin Begins
  <2> TAKE d \in Context \ {c}
  <2>1. todo[d] = <<>> \/ todo[d][1].at = "user"
    BY <1>2, Alone
  <2> QED
    BY <2>1 DEF Begins
<1>7. \A d \in Context : \A i \in Places(d) : todo[d][i].at # "set"
  <2> SUFFICES ASSUME NEW d \in Context, NEW i \in Places(d), todo[d][i].at = "set" PROVE FALSE
    OBVIOUS
  <2>1. i = 1
    BY DEF IInv, LabelsOK, LabelOK
  <2>2. todo[d] # <<>>
    BY Types, EmptySeq DEF Places
  <2>3. CASE d = c
    <3>1. todo[c][1].at = "user"
      BY <1>2, <2>2, <2>3, AtUser
    <3> QED
      BY <2>1, <2>3, <3>1
  <2>4. CASE d # c
    BY <1>6, <2>1, <2>2, <2>4 DEF Begins
  <2> QED
    BY <2>3, <2>4
<1>8. done[New] # "pending"
  <2>1. ~HasPlace(New)
    BY <1>4, <1>5, <1>7 DEF HasPlace
  <2> QED
    BY <1>3, <2>1 DEF IInv
<1> QED
  BY <1>1, <1>2, <1>3, <1>4, <1>5, <1>6, <1>8

\* A call that begins an operation of slot x.
LEMMA BeginKeeps ==
  ASSUME IInv, Lapsing, NEW c \in Context, CanCall(c), NEW x \in Token,
         Start(c, this, <<L("set", x, New), L("go", x, New)>>), Pend(New),
         this.slot[x] = 0, Fits(x), x # "connect" => this.tcp
  PROVE  IInv'
<1>0. PICK n : n = New
  OBVIOUS
<1>1. this' = this /\ calls' = calls + 1 /\ tick' = tick
  BY DEF Start
<1>2. /\ Yields(c) /\ n \in Op /\ n \in Nat /\ n = calls' /\ n > calls /\ n # 0
      /\ calls' \in 0 .. MaxCalls /\ calls <= calls' /\ calls \in Nat
      /\ \A y \in Slot : this.slot[y] # n
      /\ \A d \in Context : \A i \in Places(d) : todo[d][i].at = "finish" => todo[d][i].op # n
  BY <1>0, <1>1, NewOp
<1>3. PICK ls : ls = <<L("set", x, n), L("go", x, n)>>
  OBVIOUS
<1>4. /\ ls \in Seq(Label) /\ Len(ls) = 2 /\ ls[1] = L("set", x, n) /\ ls[2] = L("go", x, n)
  BY <1>2, <1>3 DEF Label, L, Stretch, Begins, Slot
<1>5. todo' = [todo EXCEPT ![c] = ls \o @] /\ done' = [done EXCEPT ![n] = "pending"]
  BY <1>0, <1>3 DEF Start, Pend
<1>6. Step(c, ls, 0)
  BY <1>2, <1>4, <1>5, Pushes
<1>7. /\ todo'[c] \in Seq(Label) /\ Len(todo'[c]) = 2 + Len(todo[c]) /\ Len(todo[c]) \in Nat
      /\ todo'[c][1] = ls[1] /\ todo'[c][2] = ls[2]
  BY <1>4, <1>6, Types, LenProperties DEF Step, Shift
<1>8. done' \in [Op -> {"none", "pending", "done"}] /\ done'[n] = "pending"
      /\ \A o \in Op \ {n} : done'[o] = done[o]
  BY <1>2, <1>5, Types
<1>9. Unmoved
  BY <1>1, Types DEF Unmoved
<1>10. HasPlace(n)'
  <2>1. 1 \in Places(c)' /\ todo'[c][1].at = "set" /\ todo'[c][1].op = n
    BY <1>4, <1>7 DEF Places, L
  <2> QED
    BY <2>1 DEF HasPlace
<1>11. Ends(c, 0)
  <2>1. calls' \in 0 .. MaxCalls /\ calls <= calls'
        /\ done' \in [Op -> {"none", "pending", "done"}]
    BY <1>2, <1>8
  <2>2. ASSUME NEW o \in Op, done[o] = "pending", done'[o] # "pending" PROVE FALSE
    BY <1>8, <2>2
  <2>3. ASSUME NEW o \in Op, done'[o] = "pending"
        PROVE  \/ HasPlace(o)'
               \/ done[o] = "pending" /\ ~EndsAt(c, 0, o)
                  /\ \A y \in Slot : this.slot[y] = o => this'.slot[y] = o
    <3>1. CASE o = n
      BY <1>10, <3>1
    <3>2. CASE o # n
      <4>1. done[o] = "pending"
        BY <1>8, <2>3, <3>2
      <4>2. ~EndsAt(c, 0, o)
        BY DEF EndsAt
      <4> QED
        BY <1>1, <4>1, <4>2
    <3> QED
      BY <3>1, <3>2
  <2> QED
    BY <2>1, <2>2, <2>3 DEF Ends
<1>12. 1 .. Len(ls) = {1, 2}
  BY <1>4
<1>13. ComeWell(c, ls)
  <2>1. LabelOK(c, 1)'
    BY <1>4, <1>7 DEF LabelOK, L
  <2>2. LabelOK(c, 2)'
    BY <1>1, <1>2, <1>4, <1>7 DEF LabelOK, L, Fits
  <2>3. SetOK(c)'
    <3>1. ASSUME NEW d \in Context, NEW i \in Places(d)', todo'[d][i].at = "finish"
          PROVE  todo'[d][i].op # n
      <4>1. \A j \in 1 .. Len(ls) : ls[j].at # "finish"
        BY <1>4, <1>12 DEF L
      <4>2. \E j \in Places(d) : todo'[d][i] = todo[d][j]
        BY <1>6, <3>1, <4>1, NewOrOld
      <4> QED
        BY <1>2, <3>1, <4>2
    <3>2. todo'[c][1].op = n /\ todo'[c][1].x = x
      BY <1>4, <1>7 DEF L
    <3> QED
      BY <1>1, <1>2, <1>8, <3>1, <3>2 DEF SetOK
  <2>4. BeginOK(c)'
    <3>1. todo'[c][1].x = x /\ todo'[c][1].at = "set"
      BY <1>4, <1>7 DEF L
    <3>2. ASSUME lapses' = {}
          PROVE  /\ this.token[x] = NoToken
                 /\ x = "connect" => ~this.waiting
                 /\ x = "accept" => ~this.child
      <4>1. lapses = {}
        BY <3>2, LapsesGrow
      <4>2. TokenOK(x) /\ ChildOK
        BY DEF IInv
      <4>3. this.token[x] \in [queued : BOOLEAN, signaled : BOOLEAN]
        BY Types DEF Fields
      <4>4. ~this.token[x].queued /\ ~this.token[x].signaled
        BY <4>1, <4>2 DEF TokenOK
      <4>5. this.token[x] = NoToken
        BY <4>3, <4>4 DEF NoToken
      <4>6. x = "connect" => ~this.waiting
        BY <4>1, <4>2, Types DEF ChildOK, Fits
      <4>7. x = "accept" => ~this.child
        BY <4>1, <4>2 DEF ChildOK
      <4> QED
        BY <4>5, <4>6, <4>7
    <3> QED
      BY <1>1, <3>1, <3>2 DEF BeginOK
  <2>5. ~(c = "Timer" /\ InCall)
    BY DEF CanCall
  <2> QED
    BY <1>12, <2>1, <2>2, <2>3, <2>4, <2>5 DEF ComeWell
<1> QED
  BY <1>1, <1>6, <1>9, <1>11, <1>13, UnmovedStep

\* The calls of a client, and those of a listener but for the Listens.
LEMMA CallConnectKeeps ==
  ASSUME IInv, Lapsing, NEW c \in Context, CallConnect(c) PROVE IInv'
<1>1. Fits("connect") /\ "connect" \in Token
  BY DEF CallConnect, Fits, Token
<1> QED
  BY <1>1, BeginKeeps DEF CallConnect

\* ReceiveTcpAsync and SendTcpAsync keep the invariant.
LEMMA CallIoKeeps ==
  ASSUME IInv, Lapsing, NEW c \in Context, NEW x \in {"receive", "transmit"}, CallIo(c, x)
  PROVE  IInv'
<1>1. this.tcp /\ Fits(x) /\ x \in Token
  BY DEF CallIo, Fits, Token, IInv, ChildOK
<1> QED
  BY <1>1, BeginKeeps DEF CallIo

\* AcceptAsync keeps the invariant.
LEMMA CallAcceptKeeps ==
  ASSUME IInv, Lapsing, NEW c \in Context, CallAccept(c) PROVE IInv'
<1>1. Fits("accept") /\ "accept" \in Token
  BY DEF CallAccept, Fits, Token, IInv, ChildOK
<1> QED
  BY <1>1, BeginKeeps DEF CallAccept

\* CloseAsync keeps the invariant.
LEMMA CallCloseKeeps ==
  ASSUME IInv, Lapsing, NEW c \in Context, CallClose(c) PROVE IInv'
<1>1. Fits("close") /\ "close" \in Token
  BY DEF CallClose, Fits, Token
<1> QED
  BY <1>1, BeginKeeps DEF CallClose

-----------------------------------------------------------------------------
(* The completions.                                                         *)

\* The labels of a completion: the continuations, if there are any, then the others.
LEMMA Settles ==
  ASSUME IInv, NEW c \in Context, NEW at, At(c, at), NEW as \in Seq(Label), NEW ops, NEW s,
         Settle(c, s, ops, as)
  PROVE  \E ls \in Seq(Label) : \E m \in {0, 1} :
           /\ Step(c, ls, 1) /\ Len(ls) = m + Len(as) /\ (m = 1 => ls[1].at = "user")
           /\ \A i \in 1 .. Len(as) : i + m \in 1 .. Len(ls) /\ ls[i + m] = as[i]
           /\ \A i \in 1 .. Len(ls) : (i = 1 /\ m = 1) \/ i - m \in 1 .. Len(as)
<1>1. PICK m : m = IF ops = {} THEN 0 ELSE 1
  OBVIOUS
<1>2. PICK first : first = Continuations(ops)
  OBVIOUS
<1>3. m \in {0, 1} /\ first \in Seq(Label) /\ Len(first) = m /\ (m = 1 => first[1].at = "user")
  <2>1. CASE ops = {}
    BY <1>1, <1>2, <2>1 DEF Continuations
  <2>2. CASE ops # {}
    <3>1. first = <<Do("user")>> /\ m = 1
      BY <1>1, <1>2, <2>2 DEF Continuations
    <3>2. Do("user") \in Label /\ Do("user").at = "user"
      BY DEF Do, L, Label
    <3> QED
      BY <3>1, <3>2
  <2> QED
    BY <2>1, <2>2
<1>4. PICK ls : ls = first \o as
  OBVIOUS
<1>5. /\ first \o as \in Seq(Label) /\ Len(first \o as) = Len(first) + Len(as)
      /\ \A i \in 1 .. Len(first) + Len(as) :
           (first \o as)[i] = IF i <= Len(first) THEN first[i] ELSE as[i - Len(first)]
  BY <1>3, ConcatProperties
<1>6. PICK n \in Nat : n = Len(as)
  BY LenProperties
<1>7. /\ ls \in Seq(Label) /\ Len(ls) = m + n
      /\ \A i \in 1 .. m + n : ls[i] = IF i <= m THEN first[i] ELSE as[i - m]
  BY <1>3, <1>4, <1>5, <1>6
<1>8. todo' = [todo EXCEPT ![c] = ls \o Tail(@)]
  BY <1>2, <1>4 DEF Settle
<1>9. Step(c, ls, 1)
  BY <1>7, <1>8, Replaces
<1>a. /\ m = 1 => 1 \in 1 .. m + n /\ 1 <= m
      /\ \A i \in 1 .. n : i + m \in 1 .. m + n /\ ~(i + m <= m) /\ i + m - m = i
      /\ \A i \in 1 .. m + n : (i = 1 /\ m = 1) \/ i - m \in 1 .. n
  <2>1. CASE m = 0
    <3>1. \A i \in 1 .. n : i + 0 \in 1 .. 0 + n /\ ~(i + 0 <= 0) /\ i + 0 - 0 = i
      OBVIOUS
    <3>2. \A i \in 1 .. 0 + n : i - 0 \in 1 .. n
      OBVIOUS
    <3> QED
      BY <2>1, <3>1, <3>2
  <2>2. CASE m = 1
    <3>1. 1 \in 1 .. 1 + n /\ 1 <= 1
      OBVIOUS
    <3>2. \A i \in 1 .. n : i + 1 \in 1 .. 1 + n /\ ~(i + 1 <= 1) /\ i + 1 - 1 = i
      OBVIOUS
    <3>3. \A i \in 1 .. 1 + n : i = 1 \/ i - 1 \in 1 .. n
      OBVIOUS
    <3> QED
      BY <2>2, <3>1, <3>2, <3>3
  <2> QED
    BY <1>3, <2>1, <2>2
<1>10. m = 1 => ls[1].at = "user"
  BY <1>3, <1>7, <1>a
<1>11. ASSUME NEW i \in 1 .. n PROVE i + m \in 1 .. Len(ls) /\ ls[i + m] = as[i]
  <2>1. PICK j : j = i + m
    OBVIOUS
  <2>2. j \in 1 .. m + n /\ ~(j <= m) /\ j - m = i
    BY <1>3, <1>a, <2>1
  <2>3. ls[j] = IF j <= m THEN first[j] ELSE as[j - m]
    BY <1>7, <2>2
  <2> QED
    BY <1>7, <2>1, <2>2, <2>3
<1>12. ASSUME NEW i \in 1 .. Len(ls) PROVE (i = 1 /\ m = 1) \/ i - m \in 1 .. n
  BY <1>7, <1>a
<1> QED
  BY <1>3, <1>6, <1>7, <1>9, <1>10, <1>11, <1>12

\* With nothing left for later, there are only continuations.
LEMMA SettlesAll ==
  ASSUME IInv, NEW c \in Context, NEW at, At(c, at), NEW ops, NEW s, Settle(c, s, ops, <<>>)
  PROVE  \E ls \in Seq(Label) : Step(c, ls, 1) /\ \A i \in 1 .. Len(ls) : ls[i].at = "user"
<1>1. PICK as : as = <<>>
  OBVIOUS
<1>2. as \in Seq(Label) /\ Len(as) = 0 /\ Settle(c, s, ops, as)
  BY <1>1
<1>3. PICK ls \in Seq(Label) : \E m \in {0, 1} :
        /\ Step(c, ls, 1) /\ Len(ls) = m + Len(as) /\ (m = 1 => ls[1].at = "user")
        /\ \A i \in 1 .. Len(as) : i + m \in 1 .. Len(ls) /\ ls[i + m] = as[i]
        /\ \A i \in 1 .. Len(ls) : (i = 1 /\ m = 1) \/ i - m \in 1 .. Len(as)
  <2> HIDE <1>1
  <2> QED
    BY <1>2, Settles
<1>4. \A i \in 1 .. Len(ls) : ls[i].at = "user"
  <2>1. 1 .. Len(as) = {}
    BY <1>2
  <2> QED
    BY <1>3, <2>1
<1> QED
  BY <1>3, <1>4

\* With only an update left for later, there are continuations and the update.
LEMMA SettlesUpdate ==
  ASSUME IInv, NEW c \in Context, NEW at, At(c, at), NEW ops, NEW s,
         Settle(c, s, ops, <<Do("update")>> \o <<>>)
  PROVE  \E ls \in Seq(Label) :
           /\ Step(c, ls, 1) /\ \A i \in 1 .. Len(ls) : ls[i].at \in {"user", "update"}
           /\ \E i \in 1 .. Len(ls) : ls[i].at = "update"
<1>1. PICK as : as = <<Do("update")>> \o <<>>
  OBVIOUS
<1>2. as \in Seq(Label) /\ Len(as) = 1 /\ as[1].at = "update"
  <2>1. PICK bs : bs = <<Do("update")>>
    OBVIOUS
  <2>2. bs \in Seq(Label) /\ Len(bs) = 1 /\ bs[1].at = "update"
    BY <2>1 DEF Do, L, Label, Stretch
  <2>3. as = bs
    BY <1>1, <2>1, <2>2, ConcatEmptySeq
  <2> QED
    BY <2>2, <2>3
<1>3. Settle(c, s, ops, as)
  BY <1>1
<1>4. PICK ls \in Seq(Label) : \E m \in {0, 1} :
        /\ Step(c, ls, 1) /\ Len(ls) = m + Len(as) /\ (m = 1 => ls[1].at = "user")
        /\ \A i \in 1 .. Len(as) : i + m \in 1 .. Len(ls) /\ ls[i + m] = as[i]
        /\ \A i \in 1 .. Len(ls) : (i = 1 /\ m = 1) \/ i - m \in 1 .. Len(as)
  BY <1>2, <1>3, Settles
<1>5. PICK m \in {0, 1} :
        /\ Step(c, ls, 1) /\ Len(ls) = m + Len(as) /\ (m = 1 => ls[1].at = "user")
        /\ \A i \in 1 .. Len(as) : i + m \in 1 .. Len(ls) /\ ls[i + m] = as[i]
        /\ \A i \in 1 .. Len(ls) : (i = 1 /\ m = 1) \/ i - m \in 1 .. Len(as)
  BY <1>4
<1>6. 1 .. Len(as) = {1}
  BY <1>2
<1>7. 1 + m \in 1 .. Len(ls) /\ ls[1 + m].at = "update"
  BY <1>2, <1>5, <1>6
<1>8. ASSUME NEW i \in 1 .. Len(ls) PROVE ls[i].at \in {"user", "update"}
  <2>1. CASE i = 1 /\ m = 1
    BY <1>5, <2>1
  <2>2. CASE i - m = 1
    <3>1. i = 1 + m
      BY <1>5, <2>2
    <3> QED
      BY <1>7, <3>1
  <2> QED
    BY <1>5, <1>6, <2>1, <2>2
<1> QED
  BY <1>5, <1>7, <1>8

\* The task of the operation that a slot had ends.
LEMMA OneEnds ==
  ASSUME IInv, NEW c \in Context, NEW x \in Slot, NEW k,
         calls' = calls, done' = Finished(Of(this, x)),
         this'.slot[x] = 0, \A y \in Slot \ {x} : this'.slot[y] = this.slot[y],
         k = 1 => todo[c][1].at # "finish" \/ todo[c][1].op = 0
  PROVE  Ends(c, k) /\ Fewer
<1>1. calls' \in 0 .. MaxCalls /\ calls <= calls'
  BY Types
<1>2. Of(this, x) = {this.slot[x]} \ {0}
  BY DEF Of
<1>3. /\ done' \in [Op -> {"none", "pending", "done"}]
      /\ \A o \in Op : done'[o] = IF o \in Of(this, x) THEN "done" ELSE done[o]
  BY Types DEF Finished
<1>4. ASSUME NEW o \in Op, done[o] = "pending", done'[o] # "pending"
      PROVE  this.slot[x] = o /\ this'.slot[x] = 0
  BY <1>2, <1>3, <1>4
<1>5. ASSUME NEW o \in Op, done'[o] = "pending"
      PROVE  done[o] = "pending" /\ \A y \in Slot : this.slot[y] = o => this'.slot[y] = o
  <2>1. o # 0
    BY Numbers
  <2>2. o \notin Of(this, x) /\ done[o] = "pending"
    BY <1>3, <1>5
  <2>3. this.slot[x] # o
    BY <1>2, <2>1, <2>2
  <2> QED
    BY <2>2, <2>3
<1>6. Fewer
  BY DEF Fewer
<1>7. \A o \in Op : ~EndsAt(c, k, o)
  BY Numbers DEF EndsAt
<1> QED
  BY <1>1, <1>3, <1>4, <1>5, <1>6, <1>7 DEF Ends

\* What a connect can end with: the socket as it is, but for its child, its configuration, the
\* wait for an address and the token of the connect.
Near(s) ==
  /\ s \in Fields /\ s.role = this.role /\ s.slot = this.slot
  /\ s.listening = this.listening /\ s.child = this.child
  /\ s.configured => s.tcp
  /\ this.configured => s.configured
  /\ \A x \in Token : /\ ~s.configured => s.token[x] = NoToken
                      /\ this.token[x] = NoToken => s.token[x] = NoToken
                      /\ x # "connect" => s.token[x] = this.token[x]

\* The fields after the end of a connect.
LEMMA ConnectEndIs ==
  ASSUME NEW s \in Fields, NEW status \in {"ok", "error", "timeout"}, NEW c, NEW ls,
         CompleteConnect(c, s, status, ls)
  PROVE  /\ this' \in Fields /\ this'.role = s.role /\ ~this'.waiting
         /\ this'.slot["connect"] = 0
         /\ \A y \in Slot \ {"connect"} : this'.slot[y] = s.slot[y]
         /\ this'.connected = (status = "ok") /\ this'.listening = s.listening
         /\ this'.child = s.child
         /\ status # "timeout" => /\ this'.tcp = s.tcp /\ this'.configured = s.configured
                                  /\ this'.token = s.token
         /\ status = "timeout" => /\ ~this'.tcp /\ ~this'.configured
                                  /\ \A x \in Token : this'.token[x] = NoToken
         /\ this'.polled = (this'.waiting \/ \E x \in Slot : this'.slot[x] # 0)
         /\ Settle(c, this', Of(s, "connect"), ls)
<1>1. PICK s0 : s0 = Taken(s, "connect")
  OBVIOUS
<1>2. "connect" \in Slot
  BY DEF Slot, Token
<1>3. /\ s0 \in Fields /\ s0.slot["connect"] = 0
      /\ \A y \in Slot \ {"connect"} : s0.slot[y] = s.slot[y]
      /\ s0.role = s.role /\ s0.waiting = s.waiting /\ s0.token = s.token /\ s0.polled = s.polled
      /\ s0.tcp = s.tcp /\ s0.configured = s.configured
      /\ s0.connected = s.connected /\ s0.listening = s.listening /\ s0.child = s.child
  BY <1>1, <1>2, TakenIs
<1>4. PICK s1 : s1 = [s0 EXCEPT !.waiting = FALSE, !.connected = (status = "ok")]
  OBVIOUS
<1>5. /\ s1 \in Fields /\ s1.slot = s0.slot /\ s1.role = s0.role /\ ~s1.waiting
      /\ s1.token = s0.token /\ s1.tcp = s0.tcp /\ s1.configured = s0.configured
      /\ s1.connected = (status = "ok") /\ s1.listening = s0.listening /\ s1.child = s0.child
  BY <1>3, <1>4 DEF Fields
<1>6. PICK s2 : s2 = IF status = "timeout" THEN ReleaseTcp(s1) ELSE s1
  OBVIOUS
<1>7. /\ s2 \in Fields /\ s2.slot = s1.slot /\ s2.role = s1.role /\ ~s2.waiting
      /\ s2.connected = (status = "ok") /\ s2.listening = s1.listening /\ s2.child = s1.child
      /\ status # "timeout" => s2 = s1
      /\ status = "timeout" => /\ ~s2.tcp /\ ~s2.configured
                               /\ \A y \in Token : s2.token[y] = NoToken
  <2>1. CASE status = "timeout"
    <3>1. s2 = ReleaseTcp(s1)
      BY <1>6, <2>1
    <3>2. /\ s2 \in Fields /\ ~s2.tcp /\ ~s2.configured /\ ~s2.polled
          /\ \A y \in Token : s2.token[y] = NoToken
          /\ s2.role = s1.role /\ s2.slot = s1.slot /\ s2.waiting = s1.waiting
          /\ s2.connected = s1.connected /\ s2.listening = s1.listening /\ s2.child = s1.child
      BY <1>5, <3>1, ReleaseIs
    <3> QED
      BY <1>5, <2>1, <3>2
  <2>2. CASE status # "timeout"
    <3>1. s2 = s1
      BY <1>6, <2>2
    <3> QED
      BY <1>5, <2>2, <3>1
  <2> QED
    BY <2>1, <2>2
<1>8. PICK s3 : s3 = UpdatePollingRegistration(s2)
  OBVIOUS
<1>9. /\ s3 \in Fields /\ s3.polled = (s2.waiting \/ \E x \in Slot : s2.slot[x] # 0)
      /\ s3.role = s2.role /\ s3.slot = s2.slot /\ s3.waiting = s2.waiting /\ s3.token = s2.token
      /\ s3.tcp = s2.tcp /\ s3.configured = s2.configured
      /\ s3.connected = s2.connected /\ s3.listening = s2.listening /\ s3.child = s2.child
  BY <1>7, <1>8, UpdateIs
<1>10. Settle(c, s3, Of(s, "connect"), ls)
  BY <1>1, <1>4, <1>6, <1>8 DEF CompleteConnect
<1>11. PICK n : n = this'
  OBVIOUS
<1>12. n = s3
  BY <1>10, <1>11 DEF Settle
<1>13. /\ n \in Fields /\ n.role = s.role /\ ~n.waiting /\ n.slot["connect"] = 0
       /\ \A y \in Slot \ {"connect"} : n.slot[y] = s.slot[y]
       /\ n.connected = (status = "ok") /\ n.listening = s.listening /\ n.child = s.child
  BY <1>3, <1>5, <1>7, <1>9, <1>12
<1>14. /\ status # "timeout" => n.tcp = s.tcp /\ n.configured = s.configured /\ n.token = s.token
       /\ status = "timeout" => ~n.tcp /\ ~n.configured /\ \A x \in Token : n.token[x] = NoToken
  BY <1>3, <1>5, <1>7, <1>9, <1>12
<1>15. n.polled = (n.waiting \/ \E x \in Slot : n.slot[x] # 0)
  BY <1>9, <1>12
<1> QED
  BY <1>10, <1>11, <1>12, <1>13, <1>14, <1>15

\* A connect ends: the slot is free, what it waited for and what the firmware had of it is gone,
\* and the socket is polled for the rest.
LEMMA ConnectCompletes ==
  ASSUME IInv, Lapsing, NEW c \in Context, NEW at, At(c, at), at \notin {"set", "finish"},
         at = "go" => todo[c][1].x = "connect",
         NEW s, Near(s), NEW status \in {"ok", "error", "timeout"},
         CompleteConnect(c, s, status, <<>>), this.role # "listener",
         status = "ok" => s.configured,
         lapses' = {} /\ status # "timeout" => s.token["connect"] = NoToken
  PROVE  IInv'
<1>1. /\ this' \in Fields /\ this'.role = s.role /\ ~this'.waiting
      /\ this'.slot["connect"] = 0
      /\ \A y \in Slot \ {"connect"} : this'.slot[y] = s.slot[y]
      /\ this'.connected = (status = "ok") /\ this'.listening = s.listening
      /\ this'.child = s.child
      /\ status # "timeout" => /\ this'.tcp = s.tcp /\ this'.configured = s.configured
                               /\ this'.token = s.token
      /\ status = "timeout" => /\ ~this'.tcp /\ ~this'.configured
                               /\ \A x \in Token : this'.token[x] = NoToken
      /\ this'.polled = (this'.waiting \/ \E x \in Slot : this'.slot[x] # 0)
      /\ Settle(c, this', Of(s, "connect"), <<>>)
  BY ConnectEndIs DEF Near
<1>2. /\ this'.role = this.role /\ \A y \in Slot \ {"connect"} : this'.slot[y] = this.slot[y]
      /\ this'.listening = this.listening /\ this'.child = this.child
      /\ Of(s, "connect") = Of(this, "connect")
  BY <1>1 DEF Near, Of
<1>3. PICK ls \in Seq(Label) : Step(c, ls, 1) /\ \A i \in 1 .. Len(ls) : ls[i].at = "user"
  BY <1>1, SettlesAll
<1>4. todo[c][1].at = at /\ todo[c] # <<>>
  BY IsAt
<1>5. done' = Finished(Of(this, "connect")) /\ calls' = calls /\ tick' = tick
  BY <1>1, <1>2 DEF Settle
<1>6. "connect" \in Slot /\ "accept" \in Slot /\ "listen" \in Slot
  BY DEF Slot, Token
<1>7. Ends(c, 1) /\ Fewer
  BY <1>1, <1>2, <1>4, <1>5, <1>6, OneEnds
<1>8. Plain(c, ls, 1)
  BY <1>1, <1>2, <1>3, <1>4, <1>5, <1>7 DEF Plain
<1>9. ComeWell(c, ls)
  <2>1. ASSUME NEW i \in 1 .. Len(ls) PROVE ls[i].at \notin Begins /\ LabelOK(c, i)'
    <3>1. todo'[c][i] = ls[i]
      BY <1>3, NewIs
    <3> QED
      BY <1>3, <3>1 DEF LabelOK, Begins
  <2>2. Mild(c, ls)
    <3>1. \A i \in 1 .. Len(ls) : ls[i].at # "finish"
      BY <1>3
    <3>2. this.configured /\ this'.tcp => this'.configured
      BY <1>1 DEF Near
    <3>3. \A x \in Token : this.token[x] = NoToken => this'.token[x] = NoToken
      BY <1>1 DEF Near
    <3> QED
      BY <1>1, <1>2, <1>5, <3>1, <3>2, <3>3 DEF Mild
  <2> QED
    BY <1>8, <2>1, <2>2, QuietComes
<1>10. ASSUME NEW x \in Token PROVE TokenOK(x)'
  <2>1. ~this'.configured => this'.token[x] = NoToken
    BY <1>1 DEF Near
  <2>2. ASSUME lapses' = {}
        PROVE  /\ ~(this'.token[x].queued /\ this'.token[x].signaled)
               /\ this'.token[x].queued \/ this'.token[x].signaled => this'.slot[x] # 0
    <3>1. lapses = {}
      BY <2>2, LapsesGrow
    <3>2. CASE x = "connect" \/ status = "timeout"
      <4>1. this'.token[x] = NoToken
        BY <1>1, <2>2, <3>2
      <4> QED
        BY <4>1 DEF NoToken
    <3>3. CASE x # "connect" /\ status # "timeout"
      <4>1. this'.token[x] = this.token[x]
        BY <1>1, <3>3 DEF Near
      <4>2. this'.slot[x] = this.slot[x]
        BY <1>2, <3>3 DEF Slot
      <4> QED
        BY <3>1, <4>1, <4>2 DEF IInv, TokenOK
    <3> QED
      BY <3>2, <3>3
  <2> QED
    BY <2>1, <2>2 DEF TokenOK
<1>11. ASSUME NEW x \in Token PROVE Serving(c, 1, x)
  <2> SUFFICES ASSUME this'.slot[x] # 0 PROVE Serving(c, 1, x)
    BY DEF Serving
  <2>1. x # "connect"
    BY <1>1
  <2>2. this.token[x] = this'.token[x] \/ ~this'.tcp
    BY <1>1, <2>1 DEF Near
  <2> QED
    BY <1>4, <2>1, <2>2 DEF Serving
<1>12. PolledOK'
  <2>1. Polls(c, ls, 1)
    BY <1>1 DEF Polls
  <2> QED
    BY <1>8, <2>1, PolledStays
<1>13. ChildOK'
  <2>0. /\ this.listening => this.role = "listener"
        /\ this.child /\ lapses = {} => this.slot["accept"] # 0
    BY DEF IInv, ChildOK
  <2>1. this'.configured => this'.tcp
    BY <1>1 DEF Near
  <2>2. this'.connected => this'.tcp /\ this'.configured /\ this'.role # "listener"
    BY <1>1, <1>2, <2>1
  <2>3. ~this'.listening /\ this'.role # "listener"
    BY <1>2, <2>0
  <2>4. this'.child /\ lapses' = {} => this'.slot["accept"] # 0
    BY <1>2, <1>6, <2>0, LapsesGrow
  <2> QED
    BY <1>1, <2>1, <2>2, <2>3, <2>4 DEF ChildOK
<1> QED
  BY <1>8, <1>9, <1>10, <1>11, <1>12, <1>13, GeneralStep

\* The socket as it is can end a connect so.
LEMMA NearThis == ASSUME IInv PROVE Near(this)
<1>1. /\ this.configured => this.tcp
      /\ \A x \in Token : ~this.configured => this.token[x] = NoToken
  BY DEF IInv, ChildOK, TokenOK
<1> QED
  BY <1>1, Types DEF Near

\* The delay of a connect ends whatever connect there is.
LEMMA ConnectTimedOutKeeps ==
  ASSUME IInv, Lapsing, NEW c \in Context, ConnectTimedOut(c) PROVE IInv'
<1>1. At(c, "timeout")
  BY DEF ConnectTimedOut
<1>2. todo[c][1].at = "timeout"
  BY <1>1, IsAt
<1>3. CASE this.slot["connect"] = 0
  <2>1. GoesWell(c)
    BY <1>2 DEF GoesWell
  <2> QED
    BY <1>1, <1>3, <2>1, DropKeeps DEF ConnectTimedOut
<1>4. CASE this.slot["connect"] # 0
  <2>1. CompleteConnect(c, this, "timeout", <<>>)
    BY <1>4 DEF ConnectTimedOut
  <2>2. this.role # "listener"
    BY <1>4, Types
  <2> QED
    BY <1>1, <2>1, <2>2, NearThis, ConnectCompletes
<1> QED
  BY <1>3, <1>4

\* The firmware takes the token of an operation: a connect whose wait for an address is over, or
\* the operation that the label is about.
LEMMA SubmitKeeps ==
  ASSUME IInv, Lapsing, NEW c \in Context, NEW at \in {"go", "submitConnect", "pollAddress"},
         At(c, at), NEW x \in Token, NEW s \in Fields, Proceed(c, s, <<>>),
         s.role = this.role, s.slot = this.slot, s.tcp, this.tcp, s.configured,
         s.connected = this.connected, s.listening = this.listening, s.child = this.child,
         s.token[x].queued, s.token[x].signaled = this.token[x].signaled,
         \A y \in Token \ {x} : s.token[y] = this.token[y],
         s.polled = (s.waiting \/ \E y \in Slot : s.slot[y] # 0),
         at = "pollAddress" => x = "connect" /\ this.waiting /\ this.slot["listen"] = 0 /\ ~s.waiting,
         at # "pollAddress" => /\ x = todo[c][1].x
                               /\ s.waiting = this.waiting /\ s.configured = this.configured
  PROVE  IInv'
<1>1. this' = s /\ done' = done /\ calls' = calls /\ tick' = tick
  BY DEF Proceed
<1>2. PICK ls : ls = <<>>
  OBVIOUS
<1>3. ls \in Seq(Label) /\ Len(ls) = 0 /\ \A i \in 1 .. Len(ls) : FALSE
  BY <1>2
<1>4. todo' = [todo EXCEPT ![c] = ls \o Tail(@)]
  BY <1>2 DEF Proceed
<1>5. Step(c, ls, 1)
  BY <1>3, <1>4, Replaces
<1>6. todo[c][1].at = at /\ todo[c] # <<>> /\ LabelOK(c, 1) /\ Len(ls) # 1
  BY <1>3, IsAt
<1>7. Ends(c, 1) /\ Fewer
  BY <1>1, <1>6, NoneEnds DEF Fewer
<1>8. Plain(c, ls, 1)
  BY <1>1, <1>5, <1>6, <1>7 DEF Plain
<1>9. ComeWell(c, ls)
  <2>1. CASE at = "pollAddress"
    <3>1. Mild(c, ls)
      BY <1>1, <1>3, <2>1 DEF Mild
    <3> QED
      BY <1>3, <1>8, <3>1, QuietComes
  <2>2. CASE at # "pollAddress"
    <3>1. todo[c][1].at \in Begins
      BY <1>6, <2>2 DEF Begins
    <3> QED
      BY <1>3, <1>6, <1>8, <3>1, QuietComes
  <2> QED
    BY <2>1, <2>2
<1>10. lapses' = {} =>
         /\ lapses = {} /\ this.token[x] = NoToken /\ this.slot[x] # 0
         /\ at = "pollAddress" => this.role # "listener"
  <2> SUFFICES ASSUME lapses' = {}
               PROVE  /\ lapses = {} /\ this.token[x] = NoToken /\ this.slot[x] # 0
                      /\ at = "pollAddress" => this.role # "listener"
    OBVIOUS
  <2>1. lapses = {}
    BY LapsesGrow
  <2>2. CASE at = "pollAddress"
    <3>1. ~this.configured /\ this.slot["connect"] # 0
      BY <2>1, <2>2 DEF IInv, ChildOK
    <3>2. this.token[x] = NoToken
      BY <3>1 DEF IInv, TokenOK
    <3>3. this.role # "listener"
      BY <2>2 DEF IInv, ChildOK
    <3> QED
      BY <2>1, <2>2, <3>1, <3>2, <3>3
  <2>3. CASE at # "pollAddress"
    <3>1. todo'[c] # todo[c]
      BY <1>5, <1>6, Moves
    <3>2. this.slot[x] = todo[c][1].op
      BY <2>3, <3>1, NotOvertaken
    <3>3. todo[c][1].op \in Op
      BY <1>6, <2>3 DEF LabelOK
    <3>4. this.token[x] = NoToken
      BY <1>6, <2>1, <2>3 DEF IInv, BeginOK, Begins
    <3> QED
      BY <2>1, <2>3, <3>2, <3>3, <3>4, Numbers
  <2> QED
    BY <2>2, <2>3
<1>11. ASSUME NEW y \in Token PROVE TokenOK(y)'
  <2>1. CASE y = x
    BY <1>1, <1>10, <2>1 DEF TokenOK, NoToken
  <2>2. CASE y # x
    BY <1>1, <1>10, <2>2 DEF TokenOK, IInv
  <2> QED
    BY <2>1, <2>2
<1>12. ASSUME NEW y \in Token PROVE Serving(c, 1, y)
  <2>1. CASE y = x
    <3>1. this'.token[y].queued
      BY <1>1, <2>1
    <3> QED
      BY <3>1 DEF Serving, ServedNow
  <2>2. CASE y # x
    <3>1. this'.token[y] = this.token[y]
      BY <1>1, <2>2
    <3>2. y = "connect" /\ this.waiting => this'.waiting
      BY <1>1, <2>2
    <3>3. at # "pollAddress" => todo[c][1].x # y
      BY <2>2
    <3>4. at = "submitConnect" => y # "connect"
      BY <1>6, <3>3 DEF LabelOK
    <3> QED
      BY <1>6, <3>1, <3>2, <3>3, <3>4 DEF Serving
  <2> QED
    BY <2>1, <2>2
<1>13. PolledOK'
  <2>1. Polls(c, ls, 1)
    BY <1>1 DEF Polls
  <2> QED
    BY <1>8, <2>1, PolledStays
<1>14. ChildOK'
  <2>1. at = "pollAddress" => this.role # "listener"
    BY DEF IInv, ChildOK
  <2>2. ChildOK /\ lapses \subseteq lapses'
    BY LapsesGrow DEF IInv
  <2>3. /\ s.listening => /\ s.role = "listener"
                          /\ (s.tcp /\ s.configured /\ s.slot["listen"] = 0) \/ "listensTwice" \in lapses'
    BY <2>2 DEF ChildOK
  <2>4. s.role = "listener" => (s.waiting <=> s.slot["listen"] # 0)
    BY <2>1, <2>2 DEF ChildOK
  <2>5. s.child /\ lapses' = {} => s.slot["accept"] # 0
    BY <2>2 DEF ChildOK
  <2>6. s.waiting /\ lapses' = {} => FALSE
    BY <2>2 DEF ChildOK
  <2>7. s.connected => s.role # "listener"
    BY <2>2 DEF ChildOK
  <2> QED
    BY <1>1, <2>3, <2>4, <2>5, <2>6, <2>7 DEF ChildOK
<1> QED
  BY <1>8, <1>9, <1>11, <1>12, <1>13, <1>14, GeneralStep

\* The fields with a token that the firmware has taken.
LEMMA SubmittedIs ==
  ASSUME NEW s \in Fields, NEW x \in Token, NEW r \in Submit(s, x), r.ok,
         NEW u, u = UpdatePollingRegistration(r.s)
  PROVE  /\ s.configured /\ u \in Fields
         /\ u.token[x].queued /\ u.token[x].signaled = s.token[x].signaled
         /\ \A y \in Token \ {x} : u.token[y] = s.token[y]
         /\ u.role = s.role /\ u.slot = s.slot /\ u.waiting = s.waiting
         /\ u.tcp = s.tcp /\ u.configured = s.configured
         /\ u.connected = s.connected /\ u.listening = s.listening /\ u.child = s.child
         /\ u.polled = (u.waiting \/ \E y \in Slot : u.slot[y] # 0)
<1>1. PICK q : q = r.s
  OBVIOUS
<1>2. /\ s.configured /\ q \in Fields /\ q.token[x].queued
      /\ q.token[x].signaled = s.token[x].signaled
      /\ \A y \in Token \ {x} : q.token[y] = s.token[y]
      /\ q.role = s.role /\ q.slot = s.slot /\ q.waiting = s.waiting
      /\ q.tcp = s.tcp /\ q.configured = s.configured
      /\ q.connected = s.connected /\ q.listening = s.listening /\ q.child = s.child
  BY <1>1, SubmitIs
<1>a. u = UpdatePollingRegistration(q)
  BY <1>1
<1>3. /\ u \in Fields /\ u.polled = (q.waiting \/ \E y \in Slot : q.slot[y] # 0)
      /\ u.role = q.role /\ u.slot = q.slot /\ u.waiting = q.waiting /\ u.token = q.token
      /\ u.tcp = q.tcp /\ u.configured = q.configured
      /\ u.connected = q.connected /\ u.listening = q.listening /\ u.child = q.child
  BY <1>2, <1>a, UpdateIs
<1> QED
  BY <1>2, <1>3

\* The fields with which a connect can be submitted: those of the label that does, or those of
\* an address that is found.
Starting(s, at) ==
  /\ Near(s) /\ this.tcp /\ s.tcp /\ this.role # "listener" /\ s.connected = this.connected
  /\ \A x \in Token : s.token[x] = this.token[x]
  /\ lapses' = {} => this.token["connect"] = NoToken
  /\ at = "pollAddress" => this.waiting /\ this.slot["listen"] = 0 /\ ~s.waiting
  /\ at # "pollAddress" => s.waiting = this.waiting /\ s.configured = this.configured

\* A connect is submitted, or ends with the error of the firmware.
LEMMA SubmitConnectKeeps ==
  ASSUME IInv, Lapsing, NEW c \in Context, NEW at \in {"submitConnect", "pollAddress"}, At(c, at),
         NEW s, Starting(s, at), SubmitConnect(c, s, <<>>)
  PROVE  IInv'
<1>0. s \in Fields /\ Near(s)
  BY DEF Near, Starting
<1>1. PICK x \in Token : x = "connect"
  BY DEF Token
<1>2. PICK r \in Submit(s, x) :
        IF r.ok THEN Proceed(c, UpdatePollingRegistration(r.s), <<>>)
                ELSE CompleteConnect(c, s, "error", <<>>)
  BY <1>1 DEF SubmitConnect
<1>3. CASE ~r.ok
  <2>1. CompleteConnect(c, s, "error", <<>>)
    BY <1>2, <1>3
  <2>2. this.role # "listener" /\ at \notin {"set", "finish"} /\ at # "go"
    BY DEF Starting
  <2>3. lapses' = {} => s.token["connect"] = NoToken
    BY <1>1 DEF Starting
  <2> QED
    BY <1>0, <2>1, <2>2, <2>3, ConnectCompletes
<1>4. CASE r.ok
  <2>1. PICK u : u = UpdatePollingRegistration(r.s)
    OBVIOUS
  <2>2. Proceed(c, u, <<>>)
    BY <1>2, <1>4, <2>1
  <2>3. /\ s.configured /\ u \in Fields
        /\ u.token[x].queued /\ u.token[x].signaled = s.token[x].signaled
        /\ \A y \in Token \ {x} : u.token[y] = s.token[y]
        /\ u.role = s.role /\ u.slot = s.slot /\ u.waiting = s.waiting
        /\ u.tcp = s.tcp /\ u.configured = s.configured
        /\ u.connected = s.connected /\ u.listening = s.listening /\ u.child = s.child
        /\ u.polled = (u.waiting \/ \E y \in Slot : u.slot[y] # 0)
    BY <1>0, <1>4, <2>1, SubmittedIs
  <2>4. at # "pollAddress" => x = todo[c][1].x
    <3>1. LabelOK(c, 1) /\ todo[c][1].at = at
      BY IsAt
    <3> QED
      BY <1>1, <3>1 DEF LabelOK
  <2>5. /\ u.role = this.role /\ u.slot = this.slot /\ u.tcp /\ this.tcp /\ u.configured
        /\ u.connected = this.connected /\ u.listening = this.listening /\ u.child = this.child
    BY <2>3 DEF Near, Starting
  <2>6. /\ u.token[x].signaled = this.token[x].signaled
        /\ \A y \in Token \ {x} : u.token[y] = this.token[y]
    BY <2>3 DEF Starting
  <2>7. /\ at = "pollAddress" => this.waiting /\ this.slot["listen"] = 0 /\ ~u.waiting
        /\ at # "pollAddress" => u.waiting = this.waiting /\ u.configured = this.configured
    BY <2>3 DEF Starting
  <2> QED
    BY <1>1, <2>2, <2>3, <2>4, <2>5, <2>6, <2>7, SubmitKeeps
<1> QED
  BY <1>3, <1>4

\* A connect whose child has just been configured.
LEMMA GoSubmitConnectKeeps ==
  ASSUME IInv, Lapsing, NEW c \in Context, GoSubmitConnect(c) PROVE IInv'
<1>1. At(c, "submitConnect") /\ this.tcp /\ SubmitConnect(c, this, <<>>)
  BY DEF GoSubmitConnect
<1>2. todo[c] # <<>> /\ todo[c][1].at = "submitConnect" /\ LabelOK(c, 1)
  BY <1>1, IsAt
<1>3. this.role # "listener" /\ todo[c][1].x = "connect"
  BY <1>2 DEF LabelOK, Fits
<1>4. lapses' = {} => this.token["connect"] = NoToken
  BY <1>2, <1>3, LapsesGrow DEF IInv, BeginOK, Begins
<1>5. Starting(this, "submitConnect")
  BY <1>1, <1>3, <1>4, NearThis DEF Starting
<1> QED
  BY <1>1, <1>5, SubmitConnectKeeps

\* A connect without an address waits for one.
LEMMA GoWaitsKeeps ==
  ASSUME IInv, Lapsing, NEW c \in Context, At(c, "go"), todo[c][1].x = "connect",
         this.role = "client", NEW s \in Fields, Proceed(c, s, <<>>),
         s.polled, s.role = this.role, s.slot = this.slot, s.waiting, s.tcp,
         ~s.configured, ~this.configured,
         s.connected = this.connected, s.listening = this.listening, s.child = this.child,
         \A x \in Token : s.token[x] = this.token[x]
  PROVE  IInv'
<1>1. this' = s /\ done' = done /\ calls' = calls /\ tick' = tick
  BY DEF Proceed
<1>2. PICK ls : ls = <<>>
  OBVIOUS
<1>3. ls \in Seq(Label) /\ Len(ls) = 0 /\ \A i \in 1 .. Len(ls) : FALSE
  BY <1>2
<1>4. todo' = [todo EXCEPT ![c] = ls \o Tail(@)]
  BY <1>2 DEF Proceed
<1>5. Step(c, ls, 1)
  BY <1>3, <1>4, Replaces
<1>6. todo[c][1].at = "go" /\ todo[c] # <<>> /\ LabelOK(c, 1) /\ Len(ls) # 1
  BY <1>3, IsAt
<1>7. Ends(c, 1) /\ Fewer
  BY <1>1, <1>6, NoneEnds DEF Fewer
<1>8. Plain(c, ls, 1)
  BY <1>1, <1>5, <1>6, <1>7 DEF Plain
<1>9. ComeWell(c, ls)
  <2>1. todo[c][1].at \in Begins
    BY <1>6 DEF Begins
  <2> QED
    BY <1>3, <1>6, <1>8, <2>1, QuietComes
<1>10. lapses' = {} => this.slot["connect"] # 0
  <2> SUFFICES ASSUME lapses' = {} PROVE this.slot["connect"] # 0
    OBVIOUS
  <2>1. todo'[c] # todo[c]
    BY <1>5, <1>6, Moves
  <2>2. this.slot["connect"] = todo[c][1].op
    BY <2>1, NotOvertaken
  <2> QED
    BY <1>6, <2>2, Numbers DEF LabelOK
<1>11. ASSUME NEW y \in Token PROVE TokenOK(y)'
  BY <1>1, LapsesGrow DEF TokenOK, IInv
<1>12. ASSUME NEW y \in Token PROVE Serving(c, 1, y)
  BY <1>1, <1>6 DEF Serving, ServedNow
<1>13. PolledOK'
  BY <1>1 DEF PolledOK
<1>14. ChildOK'
  <2>1. ChildOK
    BY DEF IInv
  <2>2. s.child /\ lapses' = {} => s.slot["accept"] # 0
    BY <2>1, LapsesGrow DEF ChildOK
  <2>3. ~s.connected /\ ~s.listening /\ s.role # "listener"
    BY <2>1 DEF ChildOK
  <2>4. lapses' = {} => s.slot["connect"] # 0
    BY <1>10
  <2> QED
    BY <1>1, <2>2, <2>3, <2>4 DEF ChildOK
<1> QED
  BY <1>8, <1>9, <1>11, <1>12, <1>13, <1>14, GeneralStep

\* A connect whose child is configured goes on to submit its token.
LEMMA GoSubmitsKeeps ==
  ASSUME IInv, Lapsing, NEW c \in Context, At(c, "go"), todo[c][1].x = "connect",
         this.role = "client", todo[c][1].op \in Op, NEW s \in Fields,
         Proceed(c, s, <<L("submitConnect", "connect", todo[c][1].op)>>),
         s.role = this.role, s.slot = this.slot, s.waiting = this.waiting, s.tcp,
         s.configured, s.polled = this.polled,
         s.connected = this.connected, s.listening = this.listening, s.child = this.child,
         \A x \in Token : s.token[x] = this.token[x]
  PROVE  IInv'
<1>1. this' = s /\ done' = done /\ calls' = calls /\ tick' = tick
  BY DEF Proceed
<1>2. PICK o \in Op : o = todo[c][1].op
  OBVIOUS
<1>3. PICK ls : ls = <<L("submitConnect", "connect", o)>>
  OBVIOUS
<1>4. ls \in Seq(Label) /\ Len(ls) = 1 /\ ls[1] = L("submitConnect", "connect", o)
  BY <1>3, Numbers DEF Label, L, Stretch, Begins, Slot, Token
<1>5. todo' = [todo EXCEPT ![c] = ls \o Tail(@)]
  BY <1>2, <1>3 DEF Proceed
<1>6. Step(c, ls, 1)
  BY <1>4, <1>5, Replaces
<1>7. todo[c][1].at = "go" /\ todo[c] # <<>> /\ OnCpu(c) /\ 1 \in Places(c)
  BY IsAt
<1>8. Ends(c, 1) /\ Fewer
  BY <1>1, <1>7, NoneEnds DEF Fewer
<1>9. Plain(c, ls, 1)
  BY <1>1, <1>6, <1>7, <1>8 DEF Plain
<1>10. 1 \in Places(c)' /\ todo'[c][1] = L("submitConnect", "connect", o) /\ todo'[c] # <<>>
  <2>1. 1 \in 1 .. Len(ls)
    BY <1>4
  <2>2. 1 \in Places(c)' /\ todo'[c][1] = ls[1]
    BY <1>6, <2>1, NewIs
  <2>3. todo'[c] # <<>>
    BY <2>2 DEF Places
  <2> QED
    BY <1>4, <2>2, <2>3
<1>11. lapses' = {} => /\ this.token["connect"] = NoToken /\ ~this.waiting
  BY <1>7, LapsesGrow DEF IInv, BeginOK, Begins
<1>12. ComeWell(c, ls)
  <2>1. 1 .. Len(ls) = {1}
    BY <1>4
  <2>2. LabelOK(c, 1)'
    BY <1>1, <1>10 DEF LabelOK, L, Fits
  <2>3. SetOK(c)' /\ BeginOK(c)'
    <3>1. s.token["connect"] = this.token["connect"]
      BY DEF Token
    <3> QED
      BY <1>1, <1>10, <1>11, <3>1 DEF SetOK, BeginOK, L
  <2>4. ~(c = "Timer" /\ InCall)
    <3> SUFFICES ASSUME c = "Timer", InCall PROVE FALSE
      OBVIOUS
    <3>1. tick
      BY <1>7 DEF OnCpu
    <3>2. todo[c][1].at \notin Begins
      BY <1>7, <3>1 DEF IInv, TickOK
    <3> QED
      BY <1>7, <3>2 DEF Begins
  <2> QED
    BY <1>7, <2>1, <2>2, <2>3, <2>4 DEF ComeWell, Begins
<1>13. ASSUME NEW y \in Token PROVE TokenOK(y)'
  BY <1>1, LapsesGrow DEF TokenOK, IInv
<1>14. ASSUME NEW y \in Token PROVE Serving(c, 1, y)
  <2>1. Going("connect")'
    BY <1>10 DEF Going, L
  <2> QED
    BY <1>1, <1>7, <2>1 DEF Serving, ServedNow
<1>15. PolledOK'
  <2>1. Witness(c)'
    BY <1>10 DEF Witness, L
  <2> QED
    BY <2>1 DEF PolledOK
<1>16. ChildOK'
  <2>1. ChildOK
    BY DEF IInv
  <2>2. s.child /\ lapses' = {} => s.slot["accept"] # 0
    BY <2>1, LapsesGrow DEF ChildOK
  <2>3. ~s.listening /\ s.role # "listener"
    BY <2>1 DEF ChildOK
  <2> QED
    BY <1>1, <1>11, <2>2, <2>3 DEF ChildOK
<1> QED
  BY <1>9, <1>12, <1>13, <1>14, <1>15, <1>16, GeneralStep

\* ConnectTcpAsync, after its operation is stored.
LEMMA GoConnectKeeps ==
  ASSUME IInv, Lapsing, NEW c \in Context, GoConnect(c) PROVE IInv'
<1>0. At(c, "go")
  BY DEF GoConnect
<1>1. /\ todo[c] # <<>> /\ todo[c][1].at = "go" /\ todo[c][1].x = "connect"
      /\ Head(todo[c]) = todo[c][1] /\ LabelOK(c, 1)
  BY <1>0, IsAt DEF GoConnect
<1>2. this.role = "client" /\ this.role # "listener" /\ todo[c][1].op \in Op
  BY <1>1 DEF LabelOK, Fits
<1>3. lapses' = {} => lapses = {} /\ this.token["connect"] = NoToken /\ ~this.waiting
  BY <1>1, LapsesGrow DEF IInv, BeginOK, Begins
<1>4. PICK o : o = Head(todo[c]).op
  OBVIOUS
<1>5. PICK i \in InitializeTcp(this) :
       IF ~i.ok THEN CompleteConnect(c, i.s, "error", <<>>)
       ELSE \E g \in ConfigureTcp(i.s) :
              LET timed == [g.s EXCEPT !.delays = @ \cup {o}]
              IN  CASE g.status = "error"     -> CompleteConnect(c, g.s, "error", <<>>)
                    [] g.status = "noMapping" ->
                         Proceed(c, UpdatePollingRegistration([timed EXCEPT !.waiting = TRUE]), <<>>)
                    [] OTHER -> Proceed(c, timed, <<L("submitConnect", "connect", o)>>)
  BY <1>4 DEF GoConnect
<1>6. PICK s : s = i.s
  OBVIOUS
<1>7. /\ s \in Fields /\ (i.ok => s.tcp) /\ (this.tcp => i.ok /\ s = this)
      /\ s.role = this.role /\ s.slot = this.slot /\ s.waiting = this.waiting
      /\ s.configured = this.configured
      /\ \A x \in Token : s.token[x] = this.token[x]
      /\ s.connected = this.connected /\ s.listening = this.listening
      /\ s.child = this.child
      /\ i.ok => s.polled = this.polled
  BY <1>6, InitializeIs
<1>8. /\ this.configured => this.tcp
      /\ \A x \in Token : ~this.configured => this.token[x] = NoToken
      /\ this.listening => this.role = "listener"
  BY DEF IInv, ChildOK, TokenOK
<1>9. Near(s)
  BY <1>7, <1>8 DEF Near
<1>10. lapses' = {} => s.token["connect"] = NoToken
  BY <1>3, <1>7 DEF Token
<1>11. ASSUME CompleteConnect(c, s, "error", <<>>) PROVE IInv'
  BY <1>0, <1>1, <1>2, <1>9, <1>10, <1>11, ConnectCompletes
<1>12. CASE ~i.ok
  BY <1>5, <1>6, <1>11, <1>12
<1>13. CASE i.ok
  <2>1. PICK g \in ConfigureTcp(s) :
              LET timed == [g.s EXCEPT !.delays = @ \cup {o}]
              IN  CASE g.status = "error"     -> CompleteConnect(c, g.s, "error", <<>>)
                    [] g.status = "noMapping" ->
                         Proceed(c, UpdatePollingRegistration([timed EXCEPT !.waiting = TRUE]), <<>>)
                    [] OTHER -> Proceed(c, timed, <<L("submitConnect", "connect", o)>>)
    BY <1>5, <1>6, <1>13
  <2>2. PICK t : t = [g.s EXCEPT !.delays = @ \cup {o}]
    OBVIOUS
  <2>3. /\ g.status = "error" => CompleteConnect(c, g.s, "error", <<>>)
        /\ g.status = "noMapping" =>
             Proceed(c, UpdatePollingRegistration([t EXCEPT !.waiting = TRUE]), <<>>)
        /\ g.status = "ok" => Proceed(c, t, <<L("submitConnect", "connect", o)>>)
    BY <2>1, <2>2
  <2>4. /\ g.status \in {"error", "noMapping", "ok"}
        /\ g.status # "error" => ~s.configured
        /\ g.s \in Fields /\ (g.status # "ok" => g.s = s) /\ (g.status = "ok" => g.s.configured)
        /\ g.s.role = s.role /\ g.s.slot = s.slot /\ g.s.waiting = s.waiting
        /\ g.s.token = s.token /\ g.s.tcp = s.tcp /\ g.s.polled = s.polled
        /\ g.s.connected = s.connected /\ g.s.listening = s.listening /\ g.s.child = s.child
    BY <1>7, ConfigureIs
  <2>5. /\ t \in Fields /\ t.role = g.s.role /\ t.slot = g.s.slot /\ t.waiting = g.s.waiting
        /\ t.token = g.s.token /\ t.tcp = g.s.tcp /\ t.configured = g.s.configured
        /\ t.polled = g.s.polled /\ t.connected = g.s.connected /\ t.listening = g.s.listening
        /\ t.child = g.s.child
    BY <1>1, <1>2, <1>4, <2>2, <2>4 DEF Fields
  <2>6. CASE g.status = "error"
    BY <1>11, <2>3, <2>4, <2>6
  <2>7. CASE g.status = "noMapping"
    <3>1. PICK w : w = [t EXCEPT !.waiting = TRUE]
      OBVIOUS
    <3>2. PICK u : u = UpdatePollingRegistration(w)
      OBVIOUS
    <3>3. /\ w \in Fields /\ w.role = t.role /\ w.slot = t.slot /\ w.waiting
          /\ w.token = t.token /\ w.tcp = t.tcp /\ w.configured = t.configured
          /\ w.connected = t.connected /\ w.listening = t.listening /\ w.child = t.child
      BY <2>5, <3>1 DEF Fields
    <3>4. /\ u \in Fields /\ u.polled = (w.waiting \/ \E x \in Slot : w.slot[x] # 0)
          /\ u.role = w.role /\ u.slot = w.slot /\ u.waiting = w.waiting /\ u.token = w.token
          /\ u.tcp = w.tcp /\ u.configured = w.configured
          /\ u.connected = w.connected /\ u.listening = w.listening /\ u.child = w.child
      BY <3>2, <3>3, UpdateIs
    <3>5. Proceed(c, u, <<>>)
      BY <2>3, <2>7, <3>1, <3>2
    <3>6. /\ u.role = this.role /\ u.slot = this.slot /\ u.tcp
          /\ u.connected = this.connected /\ u.listening = this.listening /\ u.child = this.child
      BY <1>7, <1>13, <2>4, <2>5, <3>3, <3>4
    <3>a. ~this.configured /\ ~u.configured
      BY <1>7, <2>4, <2>5, <2>7, <3>3, <3>4
    <3>b. u.polled /\ u.waiting
      <4>1. u.waiting /\ w.waiting
        BY <3>3, <3>4
      <4> QED
        BY <3>4, <4>1
    <3>7. \A x \in Token : u.token[x] = this.token[x]
      BY <1>7, <2>4, <2>5, <3>3, <3>4
    <3> QED
      BY <1>0, <1>1, <1>2, <3>4, <3>5, <3>6, <3>7, <3>a, <3>b, GoWaitsKeeps
  <2>8. CASE g.status = "ok"
    <3>1. Proceed(c, t, <<L("submitConnect", "connect", o)>>) /\ o = todo[c][1].op
      BY <1>1, <1>4, <2>3, <2>8
    <3>2. /\ t.role = this.role /\ t.slot = this.slot /\ t.waiting = this.waiting /\ t.tcp
          /\ t.configured /\ t.polled = this.polled
          /\ t.connected = this.connected /\ t.listening = this.listening /\ t.child = this.child
      BY <1>7, <1>13, <2>4, <2>5, <2>8
    <3>3. \A x \in Token : t.token[x] = this.token[x]
      BY <1>7, <2>4, <2>5
    <3> QED
      BY <1>0, <1>1, <1>2, <2>5, <3>1, <3>2, <3>3, GoSubmitsKeeps
  <2> QED
    BY <2>4, <2>6, <2>7, <2>8
<1> QED
  BY <1>12, <1>13

\* The end of a receive or a transmit, or of an accept: the slot is free, and the firmware has
\* nothing of it.
Took(s, x) ==
  /\ s \in Fields /\ s.role = this.role /\ s.slot = this.slot /\ s.waiting = this.waiting
  /\ s.tcp = this.tcp /\ s.configured = this.configured /\ s.connected = this.connected
  /\ s.listening = this.listening /\ s.child = this.child
  /\ \A y \in Token : /\ this.token[y] = NoToken => s.token[y] = NoToken
                      /\ y # x => s.token[y] = this.token[y]

\* The parts that the end of an operation other than a connect and a close disturbs.
LEMMA TakenKeeps ==
  ASSUME IInv, Lapsing, NEW c \in Context, NEW x \in {"receive", "transmit", "accept"},
         NEW s, Took(s, x), NEW ls, Step(c, ls, 1), todo[c] # <<>>,
         todo[c][1].at \in {"go", "pollToken"}, todo[c][1].at = "go" => todo[c][1].x = x,
         \A i \in 1 .. Len(ls) : ls[i].at \in {"user", "update"},
         calls' = calls, tick' = tick, done' = Finished(Of(this, x)),
         this' \in Fields, this'.slot[x] = 0, \A y \in Slot \ {x} : this'.slot[y] = this.slot[y],
         this'.role = s.role, this'.waiting = s.waiting, this'.token = s.token,
         this'.tcp = s.tcp, this'.configured = s.configured, this'.connected = s.connected,
         this'.listening = s.listening, this'.child => s.child,
         x = "accept" => ((this'.child => lapses' # {}) /\ \E i \in 1 .. Len(ls) : ls[i].at = "update"),
         x # "accept" => this'.polled = (this'.waiting \/ \E y \in Slot : this'.slot[y] # 0),
         lapses' = {} => s.token[x] = NoToken
  PROVE  IInv'
<1>0. x \in Slot /\ "accept" \in Slot /\ "listen" \in Slot /\ "connect" \in Slot
      /\ x # "listen" /\ x # "connect"
  BY DEF Slot, Token
<1>1. Ends(c, 1) /\ Fewer
  BY <1>0, OneEnds
<1>2. Plain(c, ls, 1)
  BY <1>1 DEF Plain, Took
<1>3. ASSUME NEW i \in 1 .. Len(ls) PROVE ls[i].at \notin Begins /\ LabelOK(c, i)'
  <2>1. todo'[c][i] = ls[i]
    BY NewIs
  <2> QED
    BY <2>1 DEF LabelOK, Begins
<1>4. Mild(c, ls)
  BY DEF Mild, Took
<1>5. ComeWell(c, ls)
  BY <1>2, <1>3, <1>4, QuietComes
<1>6. ASSUME NEW y \in Token PROVE TokenOK(y)'
  <2>1. TokenOK(y) /\ (lapses' = {} => lapses = {})
    BY LapsesGrow DEF IInv
  <2>2. CASE y = x
    BY <2>1, <2>2 DEF TokenOK, Took, NoToken
  <2>3. CASE y # x
    <3>1. y \in Slot \ {x}
      BY <2>3 DEF Slot
    <3> QED
      BY <2>1, <2>3, <3>1 DEF TokenOK, Took
  <2> QED
    BY <2>2, <2>3
<1>7. ASSUME NEW y \in Token PROVE Serving(c, 1, y)
  <2> SUFFICES ASSUME this'.slot[y] # 0 PROVE Serving(c, 1, y)
    BY DEF Serving
  <2>1. y # x
    OBVIOUS
  <2> QED
    BY <2>1 DEF Serving, Took
<1>8. PolledOK'
  <2>1. Polls(c, ls, 1)
    BY DEF Polls
  <2> QED
    BY <1>2, <2>1, PolledStays
<1>9. ChildOK'
  <2>1. ChildOK /\ lapses \subseteq lapses' /\ (lapses' = {} => lapses = {})
    BY LapsesGrow DEF IInv
  <2>2. this'.slot["listen"] = this.slot["listen"] /\ this'.slot["connect"] = this.slot["connect"]
    BY <1>0
  <2>3. this'.child /\ lapses' = {} => this'.slot["accept"] # 0
    <3>1. CASE x = "accept"
      BY <3>1
    <3>2. CASE x # "accept"
      BY <1>0, <2>1, <3>2 DEF ChildOK, Took
    <3> QED
      BY <3>1, <3>2
  <2>4. /\ this'.configured => this'.tcp
        /\ this'.connected => this'.tcp /\ this'.configured /\ this'.role # "listener"
        /\ this'.listening =>
             /\ this'.role = "listener"
             /\ (this'.tcp /\ this'.configured /\ this'.slot["listen"] = 0) \/ "listensTwice" \in lapses'
    BY <2>1, <2>2 DEF ChildOK, Took
  <2>5. /\ this'.role = "listener" => (this'.waiting <=> this'.slot["listen"] # 0)
        /\ this'.waiting /\ lapses' = {} => /\ this'.tcp /\ ~this'.configured
                                            /\ this'.slot["connect"] # 0 \/ this'.slot["listen"] # 0
    BY <2>1, <2>2 DEF ChildOK, Took
  <2> QED
    BY <2>3, <2>4, <2>5 DEF ChildOK
<1> QED
  BY <1>2, <1>5, <1>6, <1>7, <1>8, <1>9, GeneralStep

\* A receive or a transmit ends.
LEMMA IoCompletes ==
  ASSUME IInv, Lapsing, NEW c \in Context, NEW at \in {"go", "pollToken"}, At(c, at),
         NEW x \in {"receive", "transmit"}, at = "go" => todo[c][1].x = x,
         NEW s, Took(s, x), CompleteIo(c, s, x, <<>>),
         lapses' = {} => s.token[x] = NoToken
  PROVE  IInv'
<1>0. x \in Slot /\ s \in Fields /\ x # "accept"
  BY DEF Slot, Token, Took
<1>1. PICK s0 : s0 = Taken(s, x)
  OBVIOUS
<1>2. /\ s0 \in Fields /\ s0.slot[x] = 0 /\ \A y \in Slot \ {x} : s0.slot[y] = s.slot[y]
      /\ s0.role = s.role /\ s0.waiting = s.waiting /\ s0.token = s.token /\ s0.polled = s.polled
      /\ s0.tcp = s.tcp /\ s0.configured = s.configured
      /\ s0.connected = s.connected /\ s0.listening = s.listening /\ s0.child = s.child
  BY <1>0, <1>1, TakenIs
<1>3. PICK u : u = UpdatePollingRegistration(s0)
  OBVIOUS
<1>4. /\ u \in Fields /\ u.polled = (s0.waiting \/ \E y \in Slot : s0.slot[y] # 0)
      /\ u.role = s0.role /\ u.slot = s0.slot /\ u.waiting = s0.waiting /\ u.token = s0.token
      /\ u.tcp = s0.tcp /\ u.configured = s0.configured
      /\ u.connected = s0.connected /\ u.listening = s0.listening /\ u.child = s0.child
  BY <1>2, <1>3, UpdateIs
<1>5. Of(s, x) = Of(this, x) /\ s.slot = this.slot
  BY DEF Of, Took
<1>6. Settle(c, u, Of(this, x), <<>>)
  BY <1>1, <1>3, <1>5 DEF CompleteIo
<1>7. this' = u /\ done' = Finished(Of(this, x)) /\ calls' = calls /\ tick' = tick
  BY <1>6 DEF Settle
<1>8. PICK ls \in Seq(Label) : Step(c, ls, 1) /\ \A i \in 1 .. Len(ls) : ls[i].at = "user"
  BY <1>6, SettlesAll
<1>9. todo[c] # <<>> /\ todo[c][1].at = at
  BY IsAt
<1>10. /\ u.slot[x] = 0 /\ \A y \in Slot \ {x} : u.slot[y] = this.slot[y]
       /\ u.role = s.role /\ u.waiting = s.waiting /\ u.token = s.token /\ u.tcp = s.tcp
       /\ u.configured = s.configured /\ u.connected = s.connected
       /\ u.listening = s.listening /\ u.child = s.child
       /\ u.polled = (u.waiting \/ \E y \in Slot : u.slot[y] # 0)
  BY <1>2, <1>4, <1>5
<1>11. /\ x \in {"receive", "transmit", "accept"}
       /\ \A i \in 1 .. Len(ls) : ls[i].at \in {"user", "update"}
       /\ u.child => s.child
       /\ todo[c][1].at \in {"go", "pollToken"} /\ (todo[c][1].at = "go" => todo[c][1].x = x)
  BY <1>8, <1>9, <1>10
<1>12. /\ this' \in Fields /\ this'.slot[x] = 0
       /\ \A y \in Slot \ {x} : this'.slot[y] = this.slot[y]
       /\ this'.role = s.role /\ this'.waiting = s.waiting /\ this'.token = s.token
       /\ this'.tcp = s.tcp /\ this'.configured = s.configured
       /\ this'.connected = s.connected /\ this'.listening = s.listening
       /\ this'.child => s.child
  BY <1>4, <1>7, <1>10
<1>13. this'.polled = (this'.waiting \/ \E y \in Slot : this'.slot[y] # 0)
  BY <1>7, <1>10
<1> QED
  BY <1>0, <1>7, <1>8, <1>9, <1>11, <1>12, <1>13, TakenKeeps

\* An accept ends: the connection that came has its owner.
LEMMA AcceptCompletes ==
  ASSUME IInv, Lapsing, NEW c \in Context, NEW at \in {"go", "pollToken"}, At(c, at),
         at = "go" => todo[c][1].x = "accept", this.slot["accept"] # 0,
         NEW s, Took(s, "accept"), NEW ok \in BOOLEAN, CompleteAccept(c, s, ok, <<>>),
         lapses' = {} => s.token["accept"] = NoToken /\ ~(s.child /\ ~ok)
  PROVE  IInv'
<1>0. PICK x \in Slot : x = "accept"
  BY DEF Slot, Token
<1>1. s \in Fields /\ Of(s, x) = Of(this, x) /\ s.slot = this.slot /\ Of(s, "accept") # {}
  BY <1>0 DEF Of, Took
<1>2. PICK s0 : s0 = Taken(s, x)
  OBVIOUS
<1>3. /\ s0 \in Fields /\ s0.slot[x] = 0 /\ \A y \in Slot \ {x} : s0.slot[y] = s.slot[y]
      /\ s0.role = s.role /\ s0.waiting = s.waiting /\ s0.token = s.token /\ s0.polled = s.polled
      /\ s0.tcp = s.tcp /\ s0.configured = s.configured
      /\ s0.connected = s.connected /\ s0.listening = s.listening /\ s0.child = s.child
  BY <1>1, <1>2, TakenIs
<1>4. PICK u : u = [s0 EXCEPT !.child = s.child /\ ~ok]
  OBVIOUS
<1>5. /\ u \in Fields /\ u.slot = s0.slot /\ u.role = s0.role /\ u.waiting = s0.waiting
      /\ u.token = s0.token /\ u.tcp = s0.tcp /\ u.configured = s0.configured
      /\ u.connected = s0.connected /\ u.listening = s0.listening
      /\ u.child = (s.child /\ ~ok)
  BY <1>3, <1>4 DEF Fields
<1>8. Settle(c, u, Of(this, x), <<Do("update")>> \o <<>>)
  BY <1>0, <1>1, <1>2, <1>4 DEF CompleteAccept
<1>9. this' = u /\ done' = Finished(Of(this, x)) /\ calls' = calls /\ tick' = tick
  BY <1>8 DEF Settle
<1>11. PICK ls \in Seq(Label) :
         /\ Step(c, ls, 1) /\ \A i \in 1 .. Len(ls) : ls[i].at \in {"user", "update"}
         /\ \E i \in 1 .. Len(ls) : ls[i].at = "update"
  BY <1>8, SettlesUpdate
<1>12. todo[c] # <<>> /\ todo[c][1].at = at
  BY IsAt
<1>13. /\ u.slot[x] = 0 /\ \A y \in Slot \ {x} : u.slot[y] = this.slot[y]
       /\ u.role = s.role /\ u.waiting = s.waiting /\ u.token = s.token /\ u.tcp = s.tcp
       /\ u.configured = s.configured /\ u.connected = s.connected
       /\ u.listening = s.listening /\ (u.child => s.child)
  BY <1>1, <1>3, <1>5
<1>14. /\ u.child => lapses' # {}
       /\ lapses' = {} => s.token[x] = NoToken
       /\ Took(s, x) /\ x \in {"receive", "transmit", "accept"}
       /\ at = "go" => todo[c][1].x = x
  BY <1>0, <1>5
<1> QED
  BY <1>0, <1>5, <1>9, <1>11, <1>12, <1>13, <1>14, TakenKeeps

\* The socket as it is.
LEMMA TookThis == ASSUME IInv, NEW x PROVE Took(this, x)
BY Types DEF Took

\* The operation of a label is submitted.
LEMMA GoesKeeps ==
  ASSUME IInv, Lapsing, NEW c \in Context, At(c, "go"), NEW x \in Token, todo[c][1].x = x,
         NEW r \in Submit(this, x), r.ok, Proceed(c, UpdatePollingRegistration(r.s), <<>>)
  PROVE  IInv'
<1>0. this \in Fields
  BY Types
<1>1. PICK u : u = UpdatePollingRegistration(r.s)
  OBVIOUS
<1>2. Proceed(c, u, <<>>)
  BY <1>1
<1>3. /\ this.configured /\ u \in Fields
      /\ u.token[x].queued /\ u.token[x].signaled = this.token[x].signaled
      /\ \A y \in Token \ {x} : u.token[y] = this.token[y]
      /\ u.role = this.role /\ u.slot = this.slot /\ u.waiting = this.waiting
      /\ u.tcp = this.tcp /\ u.configured = this.configured
      /\ u.connected = this.connected /\ u.listening = this.listening /\ u.child = this.child
      /\ u.polled = (u.waiting \/ \E y \in Slot : u.slot[y] # 0)
  BY <1>0, <1>1, SubmittedIs
<1>4. this.tcp
  BY <1>3 DEF IInv, ChildOK
<1>5. u.tcp /\ u.configured
  BY <1>3, <1>4
<1> QED
  BY <1>2, <1>3, <1>4, <1>5, SubmitKeeps

\* A receive or a transmit goes on to submit its token.
LEMMA GoIoKeeps ==
  ASSUME IInv, Lapsing, NEW c \in Context, GoIo(c) PROVE IInv'
<1>1. At(c, "go")
  BY DEF GoIo
<1>2. todo[c] # <<>> /\ todo[c][1].at = "go" /\ Head(todo[c]) = todo[c][1]
  BY <1>1, IsAt
<1>3. PICK x \in {"receive", "transmit"} : x = todo[c][1].x
  BY <1>2 DEF GoIo
<1>4. PICK r \in Submit(this, x) :
        IF r.ok THEN Proceed(c, UpdatePollingRegistration(r.s), <<>>)
                ELSE CompleteIo(c, this, x, <<>>)
  BY <1>2, <1>3 DEF GoIo
<1>5. CASE r.ok
  BY <1>1, <1>3, <1>4, <1>5, GoesKeeps DEF Token
<1>6. CASE ~r.ok
  <2>1. lapses' = {} => this.token[x] = NoToken
    BY <1>2, <1>3, LapsesGrow DEF IInv, BeginOK, Begins
  <2>2. CompleteIo(c, this, x, <<>>)
    BY <1>4, <1>6
  <2>3. Took(this, x)
    BY TookThis
  <2> QED
    BY <1>1, <1>3, <2>1, <2>2, <2>3, IoCompletes
<1> QED
  BY <1>5, <1>6

\* An accept goes on to submit its token, if a tick has not ended it.
LEMMA GoAcceptKeeps ==
  ASSUME IInv, Lapsing, NEW c \in Context, GoAccept(c) PROVE IInv'
<1>1. At(c, "go")
  BY DEF GoAccept
<1>2. todo[c] # <<>> /\ todo[c][1].at = "go" /\ Head(todo[c]) = todo[c][1]
  BY <1>1, IsAt
<1>3. PICK x \in Token : x = "accept"
  BY DEF Token
<1>4. todo[c][1].x = x
  BY <1>2, <1>3 DEF GoAccept
<1>5. CASE this.slot["accept"] = 0 \/ ~this.tcp
  <2>1. Proceed(c, this, <<>>)
    BY <1>5 DEF GoAccept
  <2>2. GoesWell(c)
    BY <1>2, <1>3, <1>4, <1>5 DEF GoesWell
  <2> QED
    BY <1>1, <2>1, <2>2, DropKeeps
<1>6. CASE this.slot["accept"] # 0 /\ this.tcp
  <2>1. PICK r \in Submit(this, x) :
          IF r.ok THEN Proceed(c, UpdatePollingRegistration(r.s), <<>>)
                  ELSE CompleteAccept(c, this, FALSE, <<>>)
    BY <1>3, <1>6 DEF GoAccept
  <2>2. CASE r.ok
    BY <1>1, <1>4, <2>1, <2>2, GoesKeeps
  <2>3. CASE ~r.ok
    <3>1. lapses' = {} => this.token["accept"] = NoToken /\ ~this.child
      BY <1>2, <1>3, <1>4, LapsesGrow DEF IInv, BeginOK, Begins
    <3>2. CompleteAccept(c, this, FALSE, <<>>)
      BY <2>1, <2>3
    <3>3. Took(this, "accept")
      BY TookThis
    <3> QED
      BY <1>1, <1>3, <1>4, <1>6, <3>1, <3>2, <3>3, AcceptCompletes
  <2> QED
    BY <2>2, <2>3
<1> QED
  BY <1>5, <1>6

\* A signaled token whose event is reset.
LEMMA ResetIs ==
  ASSUME IInv, NEW x \in Token, this.token[x].signaled,
         NEW s, s = [this EXCEPT !.token[x].signaled = FALSE]
  PROVE  /\ Took(s, x) /\ this.configured /\ this.tcp
         /\ lapses = {} => s.token[x] = NoToken
<1>1. this \in Fields /\ this.token[x] \in [queued : BOOLEAN, signaled : BOOLEAN]
  BY Types DEF Fields
<1>2. PICK t : t = [this.token[x] EXCEPT !.signaled = FALSE]
  OBVIOUS
<1>3. t \in [queued : BOOLEAN, signaled : BOOLEAN] /\ ~t.signaled /\ t.queued = this.token[x].queued
  BY <1>1, <1>2
<1>4. PICK ts : ts = [this.token EXCEPT ![x] = t]
  OBVIOUS
<1>5. /\ ts \in [Token -> [queued : BOOLEAN, signaled : BOOLEAN]] /\ ts[x] = t
      /\ \A y \in Token \ {x} : ts[y] = this.token[y]
  BY <1>1, <1>3, <1>4 DEF Fields
<1>6. s = [this EXCEPT !.token = ts]
  BY <1>2, <1>4
<1>7. /\ s \in Fields /\ s.role = this.role /\ s.slot = this.slot /\ s.waiting = this.waiting
      /\ s.tcp = this.tcp /\ s.configured = this.configured /\ s.connected = this.connected
      /\ s.listening = this.listening /\ s.child = this.child /\ s.token = ts
  BY <1>1, <1>5, <1>6 DEF Fields
<1>8. this.token[x] # NoToken
  BY DEF NoToken
<1>9. this.configured /\ this.tcp
  BY <1>8 DEF IInv, TokenOK, ChildOK
<1>10. lapses = {} => s.token[x] = NoToken
  <2>1. lapses = {} => ~this.token[x].queued
    BY DEF IInv, TokenOK
  <2>2. lapses = {} => ~t.queued /\ ~t.signaled
    BY <1>3, <2>1
  <2> QED
    BY <1>3, <1>5, <1>7, <2>2 DEF NoToken
<1>11. Took(s, x)
  BY <1>5, <1>7, <1>8 DEF Took
<1> QED
  BY <1>9, <1>10, <1>11

\* The wait of a listener for an address ends.
LEMMA ListenCompletes ==
  ASSUME IInv, Lapsing, NEW c \in Context, At(c, "pollAddress"), this.slot["listen"] # 0,
         NEW g \in ConfigureTcp(this), g.status # "noMapping",
         CompleteListen(c, g.s, g.status, <<>>)
  PROVE  IInv'
<1>0. PICK x \in Slot : x = "listen"
  BY DEF Slot
<1>1. this \in Fields /\ this.role = "listener" /\ this.slot["connect"] = 0
  BY Types
<1>2. todo[c] # <<>> /\ todo[c][1].at = "pollAddress" /\ this.tcp
  BY IsAt DEF LabelOK
<1>3. PICK s : s = g.s
  OBVIOUS
<1>4. /\ g.status \in {"error", "ok"}
      /\ s \in Fields /\ (g.status # "ok" => s = this) /\ (g.status = "ok" => s.configured)
      /\ s.role = this.role /\ s.slot = this.slot /\ s.waiting = this.waiting
      /\ s.token = this.token /\ s.tcp = this.tcp /\ s.polled = this.polled
      /\ s.connected = this.connected /\ s.listening = this.listening /\ s.child = this.child
  BY <1>1, <1>3, ConfigureIs
<1>5. PICK s0 : s0 = Taken(s, x)
  OBVIOUS
<1>6. /\ s0 \in Fields /\ s0.slot[x] = 0 /\ \A y \in Slot \ {x} : s0.slot[y] = s.slot[y]
      /\ s0.role = s.role /\ s0.waiting = s.waiting /\ s0.token = s.token /\ s0.polled = s.polled
      /\ s0.tcp = s.tcp /\ s0.configured = s.configured
      /\ s0.connected = s.connected /\ s0.listening = s.listening /\ s0.child = s.child
  BY <1>4, <1>5, TakenIs
<1>7. PICK s1 : s1 = [s0 EXCEPT !.waiting = FALSE, !.listening = s0.listening \/ g.status = "ok"]
  OBVIOUS
<1>8. /\ s1 \in Fields /\ s1.slot = s0.slot /\ s1.role = s0.role /\ ~s1.waiting
      /\ s1.token = s0.token /\ s1.tcp = s0.tcp /\ s1.configured = s0.configured
      /\ s1.connected = s0.connected /\ s1.child = s0.child
      /\ s1.listening = (s0.listening \/ g.status = "ok")
  BY <1>6, <1>7 DEF Fields
<1>9. PICK u : u = IF g.status = "ok" THEN s1 ELSE ReleaseTcp(s1)
  OBVIOUS
<1>10. /\ u \in Fields /\ u.slot = s1.slot /\ u.role = s1.role /\ ~u.waiting
       /\ u.connected = s1.connected /\ u.listening = s1.listening /\ u.child = s1.child
       /\ g.status = "ok" => u = s1
       /\ g.status # "ok" => ~u.tcp /\ ~u.configured /\ \A y \in Token : u.token[y] = NoToken
  <2>1. CASE g.status = "ok"
    <3>1. u = s1
      BY <1>9, <2>1
    <3> QED
      BY <1>8, <2>1, <3>1
  <2>2. CASE g.status # "ok"
    <3>1. u = ReleaseTcp(s1)
      BY <1>9, <2>2
    <3>2. /\ u \in Fields /\ ~u.tcp /\ ~u.configured /\ ~u.polled
          /\ \A y \in Token : u.token[y] = NoToken
          /\ u.role = s1.role /\ u.slot = s1.slot /\ u.waiting = s1.waiting
          /\ u.connected = s1.connected /\ u.listening = s1.listening /\ u.child = s1.child
      BY <1>8, <3>1, ReleaseIs
    <3> QED
      BY <1>8, <2>2, <3>2
  <2> QED
    BY <2>1, <2>2
<1>13. Of(s, x) = Of(this, x)
  BY <1>4 DEF Of
<1>14. Settle(c, u, Of(this, x), <<Do("update")>> \o <<>>)
  BY <1>0, <1>3, <1>5, <1>7, <1>9, <1>13 DEF CompleteListen
<1>15. this' = u /\ done' = Finished(Of(this, x)) /\ calls' = calls /\ tick' = tick
  BY <1>14 DEF Settle
<1>16. PICK ls \in Seq(Label) :
         /\ Step(c, ls, 1) /\ \A i \in 1 .. Len(ls) : ls[i].at \in {"user", "update"}
         /\ \E i \in 1 .. Len(ls) : ls[i].at = "update"
  BY <1>14, SettlesUpdate
<1>17. /\ u.slot[x] = 0 /\ \A y \in Slot \ {x} : u.slot[y] = this.slot[y]
       /\ u.role = this.role /\ ~u.waiting /\ u.connected = this.connected /\ u.child = this.child
       /\ u.listening = (this.listening \/ g.status = "ok")
       /\ g.status = "ok" => u.tcp /\ u.configured /\ \A y \in Token : u.token[y] = this.token[y]
       /\ g.status # "ok" => ~u.tcp /\ ~u.configured /\ \A y \in Token : u.token[y] = NoToken
  <2>1. /\ u.slot[x] = 0 /\ \A y \in Slot \ {x} : u.slot[y] = this.slot[y]
        /\ u.role = this.role /\ ~u.waiting /\ u.connected = this.connected /\ u.child = this.child
    BY <1>4, <1>6, <1>8, <1>10
  <2>2. u.listening = (this.listening \/ g.status = "ok")
    BY <1>4, <1>6, <1>8, <1>10
  <2>3. g.status = "ok" => u.tcp /\ u.configured /\ \A y \in Token : u.token[y] = this.token[y]
    <3>1. s1.tcp = s.tcp /\ s1.configured = s.configured /\ s1.token = s.token
      BY <1>6, <1>8
    <3>2. s1.tcp = this.tcp /\ (g.status = "ok" => s1.configured) /\ s1.token = this.token
      BY <1>4, <3>1
    <3>3. g.status = "ok" => u.tcp = this.tcp /\ u.configured /\ u.token = this.token
      BY <1>10, <3>2
    <3> QED
      BY <1>2, <3>3
  <2> QED
    BY <1>10, <2>1, <2>2, <2>3
<1>18. /\ this' \in Fields /\ this'.slot["listen"] = 0
       /\ \A y \in Slot \ {"listen"} : this'.slot[y] = this.slot[y]
       /\ this'.role = this.role /\ ~this'.waiting
       /\ this'.connected = this.connected /\ this'.child = this.child
       /\ this'.listening = (this.listening \/ g.status = "ok")
       /\ g.status = "ok" => this'.tcp /\ this'.configured /\ \A y \in Token : this'.token[y] = this.token[y]
       /\ g.status # "ok" => ~this'.tcp /\ ~this'.configured /\ \A y \in Token : this'.token[y] = NoToken
  BY <1>0, <1>10, <1>15, <1>17
<1>19. Ends(c, 1) /\ Fewer
  BY <1>0, <1>2, <1>15, <1>18, OneEnds
<1>20. Plain(c, ls, 1)
  BY <1>2, <1>15, <1>16, <1>18, <1>19 DEF Plain
<1>21. ComeWell(c, ls)
  <2>1. ASSUME NEW i \in 1 .. Len(ls) PROVE ls[i].at \notin Begins /\ LabelOK(c, i)'
    <3>1. todo'[c][i] = ls[i]
      BY <1>16, NewIs
    <3> QED
      BY <1>16, <3>1 DEF LabelOK, Begins
  <2>2. Mild(c, ls)
    BY <1>15, <1>16, <1>18 DEF Mild
  <2> QED
    BY <1>20, <2>1, <2>2, QuietComes
<1>22. ASSUME NEW y \in Token PROVE TokenOK(y)'
  <2>1. this'.slot[y] = this.slot[y]
    BY <1>18 DEF Slot, Token
  <2>2. CASE g.status = "ok"
    BY <1>18, <2>1, <2>2, LapsesGrow DEF IInv, TokenOK
  <2>3. CASE g.status # "ok"
    BY <1>18, <2>3 DEF TokenOK, NoToken
  <2> QED
    BY <2>2, <2>3
<1>23. ASSUME NEW y \in Token PROVE Serving(c, 1, y)
  <2>1. y = "connect" => this'.slot[y] = 0
    BY <1>1, <1>18 DEF Slot, Token
  <2> QED
    BY <1>2, <1>18, <2>1 DEF Serving
<1>24. PolledOK'
  <2>1. \E i \in 1 .. Len(ls) : ls[i].at = "update"
    BY <1>16
  <2>2. Polls(c, ls, 1)
    BY <2>1 DEF Polls
  <2> QED
    BY <1>20, <2>2, PolledStays
<1>25. ChildOK'
  <2>1. ChildOK /\ lapses \subseteq lapses' /\ (lapses' = {} => lapses = {})
    BY LapsesGrow DEF IInv
  <2>2. "accept" \in Slot \ {"listen"}
    BY DEF Slot, Token
  <2>3. this'.child /\ lapses' = {} => this'.slot["accept"] # 0
    BY <1>18, <2>1, <2>2 DEF ChildOK
  <2>4. this'.configured => this'.tcp
    BY <1>4, <1>18
  <2>5. ~this'.connected
    BY <1>1, <1>18, <2>1 DEF ChildOK
  <2>6. this'.listening =>
          (this'.tcp /\ this'.configured /\ this'.slot["listen"] = 0) \/ "listensTwice" \in lapses'
    <3>1. CASE g.status = "ok"
      BY <1>18, <3>1
    <3>2. CASE g.status # "ok"
      BY <1>18, <2>1, <3>2 DEF ChildOK
    <3> QED
      BY <3>1, <3>2
  <2> QED
    BY <1>1, <1>18, <2>3, <2>4, <2>5, <2>6 DEF ChildOK
<1> QED
  BY <1>20, <1>21, <1>22, <1>23, <1>24, <1>25, GeneralStep

\* The wait for an address, in a pass.
LEMMA PollAddressKeeps ==
  ASSUME IInv, Lapsing, NEW c \in Context, PollAddress(c) PROVE IInv'
<1>1. At(c, "pollAddress")
  BY DEF PollAddress
<1>2. todo[c] # <<>> /\ todo[c][1].at = "pollAddress" /\ this.tcp
  BY <1>1, IsAt DEF LabelOK
<1>3. CASE Proceed(c, this, <<>>)
  <2>1. GoesWell(c)
    BY <1>2 DEF GoesWell
  <2> QED
    BY <1>1, <1>3, <2>1, DropKeeps
<1>4. CASE /\ this.waiting
           /\ \E g \in ConfigureTcp(this) : g.status # "noMapping" /\ Answered(c, g.s, g.status)
  <2>1. PICK g \in ConfigureTcp(this) : g.status # "noMapping" /\ Answered(c, g.s, g.status)
    BY <1>4
  <2>2. this \in Fields
    BY Types
  <2>3. PICK s : s = g.s
    OBVIOUS
  <2>4. /\ g.status \in {"error", "ok"}
        /\ s \in Fields /\ (g.status # "ok" => s = this) /\ (g.status = "ok" => s.configured)
        /\ s.role = this.role /\ s.slot = this.slot /\ s.waiting = this.waiting
        /\ s.token = this.token /\ s.tcp = this.tcp /\ s.polled = this.polled
        /\ s.connected = this.connected /\ s.listening = this.listening /\ s.child = this.child
    BY <2>1, <2>2, <2>3, ConfigureIs
  <2>5. CASE this.slot["listen"] # 0
    <3>1. CompleteListen(c, g.s, g.status, <<>>)
      BY <2>1, <2>3, <2>4, <2>5 DEF Answered
    <3> QED
      BY <1>1, <2>1, <2>5, <3>1, ListenCompletes
  <2>6. CASE this.slot["listen"] = 0
    <3>0. s.slot["listen"] = 0
      BY <2>4, <2>6
    <3>1. this.role # "listener"
      BY <1>4, <2>6 DEF IInv, ChildOK
    <3>2. lapses' = {} => this.token["connect"] = NoToken
      BY <1>4, LapsesGrow DEF IInv, ChildOK, TokenOK, Token
    <3>3. CASE g.status # "ok"
      <4>1. CompleteConnect(c, s, g.status, <<>>)
        BY <2>1, <2>3, <2>4, <3>0, <3>3 DEF Answered
      <4>2. s = this /\ g.status = "error"
        BY <2>4, <3>3
      <4>3. CompleteConnect(c, this, "error", <<>>)
        BY <4>1, <4>2
      <4> QED
        BY <1>1, <3>1, <3>2, <4>3, NearThis, ConnectCompletes
    <3>4. CASE g.status = "ok"
      <4>1. PICK t : t = [s EXCEPT !.waiting = FALSE]
        OBVIOUS
      <4>2. SubmitConnect(c, t, <<>>)
        BY <2>1, <2>3, <3>0, <3>4, <4>1 DEF Answered
      <4>3. /\ t \in Fields /\ t.role = s.role /\ t.slot = s.slot /\ ~t.waiting
            /\ t.token = s.token /\ t.tcp = s.tcp /\ t.configured = s.configured
            /\ t.connected = s.connected /\ t.listening = s.listening /\ t.child = s.child
        BY <2>4, <4>1 DEF Fields
      <4>4. /\ t.tcp /\ t.configured /\ t.role = this.role /\ t.slot = this.slot
            /\ t.connected = this.connected /\ t.listening = this.listening /\ t.child = this.child
            /\ \A x \in Token : t.token[x] = this.token[x]
        BY <1>2, <2>4, <3>4, <4>3
      <4>5. Near(t)
        BY <4>3, <4>4 DEF Near
      <4>6. Starting(t, "pollAddress")
        BY <1>2, <1>4, <2>6, <3>1, <3>2, <4>3, <4>4, <4>5 DEF Starting
      <4> QED
        BY <1>1, <4>2, <4>6, SubmitConnectKeeps
    <3> QED
      BY <3>3, <3>4
  <2> QED
    BY <2>5, <2>6
<1> QED
  BY <1>3, <1>4 DEF PollAddress

\* What the end of a close leaves for later: the close, the accept, an update.
LEMMA SettlesClose ==
  ASSUME IInv, NEW c \in Context, NEW at, At(c, at), NEW ops, NEW s, NEW o \in Nat,
         Settle(c, s, ops, <<L("finish", "close", o), L("finish", "accept", 0), Do("update")>> \o <<>>)
  PROVE  \E ls \in Seq(Label) : \E m \in {0, 1} :
           /\ Step(c, ls, 1) /\ Len(ls) = m + 3
           /\ \A i \in 1 .. Len(ls) : (i = 1 /\ m = 1) \/ i \in {m + 1, m + 2, m + 3}
           /\ m = 1 => ls[1].at = "user"
           /\ ls[m + 1] = L("finish", "close", o) /\ ls[m + 2] = L("finish", "accept", 0)
           /\ ls[m + 3] = Do("update")
<1>1. PICK as : as = <<L("finish", "close", o), L("finish", "accept", 0), Do("update")>> \o <<>>
  OBVIOUS
<1>2. /\ as \in Seq(Label) /\ Len(as) = 3 /\ as[1] = L("finish", "close", o)
      /\ as[2] = L("finish", "accept", 0) /\ as[3] = Do("update")
  <2>1. PICK bs : bs = <<L("finish", "close", o), L("finish", "accept", 0), Do("update")>>
    OBVIOUS
  <2>2. /\ L("finish", "close", o) \in Label /\ L("finish", "accept", 0) \in Label
        /\ Do("update") \in Label
    BY DEF Do, L, Label, Stretch, Slot, Token
  <2>3. /\ bs \in Seq(Label) /\ Len(bs) = 3 /\ bs[1] = L("finish", "close", o)
        /\ bs[2] = L("finish", "accept", 0) /\ bs[3] = Do("update")
    BY <2>1, <2>2
  <2>4. as = bs
    BY <1>1, <2>1, <2>3, ConcatEmptySeq
  <2> QED
    BY <2>3, <2>4
<1>3. Settle(c, s, ops, as)
  BY <1>1
<1>4. PICK ls \in Seq(Label) : \E m \in {0, 1} :
        /\ Step(c, ls, 1) /\ Len(ls) = m + Len(as) /\ (m = 1 => ls[1].at = "user")
        /\ \A i \in 1 .. Len(as) : i + m \in 1 .. Len(ls) /\ ls[i + m] = as[i]
        /\ \A i \in 1 .. Len(ls) : (i = 1 /\ m = 1) \/ i - m \in 1 .. Len(as)
  BY <1>2, <1>3, Settles
<1>5. PICK m \in {0, 1} :
        /\ Step(c, ls, 1) /\ Len(ls) = m + Len(as) /\ (m = 1 => ls[1].at = "user")
        /\ \A i \in 1 .. Len(as) : i + m \in 1 .. Len(ls) /\ ls[i + m] = as[i]
        /\ \A i \in 1 .. Len(ls) : (i = 1 /\ m = 1) \/ i - m \in 1 .. Len(as)
  BY <1>4
<1>6. 1 .. Len(as) = {1, 2, 3}
  BY <1>2
<1>7. /\ ls[m + 1] = as[1] /\ ls[m + 2] = as[2] /\ ls[m + 3] = as[3]
  <2>1. 1 \in 1 .. Len(as) /\ 2 \in 1 .. Len(as) /\ 3 \in 1 .. Len(as)
    BY <1>6
  <2>2. ls[1 + m] = as[1] /\ ls[2 + m] = as[2] /\ ls[3 + m] = as[3]
    BY <1>5, <2>1
  <2>3. 1 + m = m + 1 /\ 2 + m = m + 2 /\ 3 + m = m + 3
    OBVIOUS
  <2> QED
    BY <2>2, <2>3
<1>8. Len(ls) = m + 3
  BY <1>2, <1>5
<1>9. ASSUME NEW i \in 1 .. Len(ls) PROVE (i = 1 /\ m = 1) \/ i \in {m + 1, m + 2, m + 3}
  <2>1. (i = 1 /\ m = 1) \/ i - m \in {1, 2, 3}
    BY <1>5, <1>6
  <2>2. i \in Int
    BY <1>8
  <2> QED
    BY <2>1, <2>2
<1>10. /\ ls[m + 1] = L("finish", "close", o) /\ ls[m + 2] = L("finish", "accept", 0)
       /\ ls[m + 3] = Do("update")
  BY <1>2, <1>7
<1> QED
  BY <1>5, <1>8, <1>9, <1>10

\* The fields after the end of a close.
LEMMA CloseEndIs ==
  ASSUME NEW s \in Fields, NEW status \in {"ok", "error"}, NEW c, NEW ls,
         CompleteClose(c, s, status, ls)
  PROVE  /\ this' \in Fields /\ this'.role = s.role /\ this'.waiting = s.waiting
         /\ this'.slot["connect"] = 0 /\ this'.slot["close"] = 0
         /\ \A y \in Slot \ {"connect", "close"} : this'.slot[y] = s.slot[y]
         /\ this'.child = s.child
         /\ status = "error" =>
              /\ this'.tcp = s.tcp /\ this'.configured = s.configured /\ this'.token = s.token
              /\ this'.connected = s.connected /\ this'.listening = s.listening
         /\ status = "ok" =>
              /\ ~this'.tcp /\ ~this'.configured /\ ~this'.connected /\ ~this'.listening
              /\ \A x \in Token : this'.token[x] = NoToken
         /\ Settle(c, this', Of(s, "connect"),
                   <<L("finish", "close", s.slot["close"]), L("finish", "accept", 0), Do("update")>> \o ls)
<1>0. PICK x \in Slot : x = "close"
  BY DEF Slot, Token
<1>a. PICK z \in Slot : z = "connect"
  BY DEF Slot, Token
<1>1. PICK s0 : s0 = Taken(s, x)
  OBVIOUS
<1>2. /\ s0 \in Fields /\ s0.slot[x] = 0 /\ \A y \in Slot \ {x} : s0.slot[y] = s.slot[y]
      /\ s0.role = s.role /\ s0.waiting = s.waiting /\ s0.token = s.token /\ s0.polled = s.polled
      /\ s0.tcp = s.tcp /\ s0.configured = s.configured
      /\ s0.connected = s.connected /\ s0.listening = s.listening /\ s0.child = s.child
  BY SMTT(30), <1>1, TakenIs
<1>b. s0 \in Fields
  BY <1>2
<1>3. PICK s1 : s1 = Taken(s0, z)
  OBVIOUS
<1>4. /\ s1 \in Fields /\ s1.slot[z] = 0
      /\ \A y \in Slot \ {z} : s1.slot[y] = s0.slot[y]
      /\ s1.role = s0.role /\ s1.waiting = s0.waiting /\ s1.token = s0.token
      /\ s1.polled = s0.polled /\ s1.tcp = s0.tcp /\ s1.configured = s0.configured
      /\ s1.connected = s0.connected /\ s1.listening = s0.listening /\ s1.child = s0.child
  <2>1. /\ s1 \in Fields /\ s1.slot[z] = 0
        /\ \A y \in Slot \ {z} : s1.slot[y] = s0.slot[y]
    <3>1. s1 \in Fields /\ s1.slot[z] = 0
      BY <1>b, <1>3, TakenIs
    <3>2. ASSUME NEW y \in Slot \ {z} PROVE s1.slot[y] = s0.slot[y]
      BY <1>b, <1>3 DEF Taken, Fields
    <3> QED
      BY <3>1, <3>2
  <2>2. /\ s1.role = s0.role /\ s1.waiting = s0.waiting /\ s1.token = s0.token
        /\ s1.polled = s0.polled /\ s1.tcp = s0.tcp
    BY <1>b, <1>3, TakenIs
  <2>3. /\ s1.configured = s0.configured
        /\ s1.connected = s0.connected /\ s1.listening = s0.listening /\ s1.child = s0.child
    BY <1>b, <1>3, TakenIs
  <2> QED
    BY <2>1, <2>2, <2>3
<1>5. PICK t : t = [s1 EXCEPT !.connected = FALSE, !.listening = FALSE]
  OBVIOUS
<1>6. /\ t \in Fields /\ t.slot = s1.slot /\ t.role = s1.role /\ t.waiting = s1.waiting
      /\ t.child = s1.child /\ ~t.connected /\ ~t.listening
  BY <1>4, <1>5 DEF Fields
<1>7. PICK s2 : s2 = ReleaseTcp(t)
  OBVIOUS
<1>8. /\ s2 \in Fields /\ ~s2.tcp /\ ~s2.configured /\ ~s2.polled
      /\ \A y \in Token : s2.token[y] = NoToken
      /\ s2.role = t.role /\ s2.slot = t.slot /\ s2.waiting = t.waiting
      /\ s2.connected = t.connected /\ s2.listening = t.listening /\ s2.child = t.child
  BY <1>6, <1>7, ReleaseIs
<1>9. PICK n : n = IF status = "ok" THEN s2 ELSE s1
  OBVIOUS
<1>10. Settle(c, n, Of(s, "connect"),
              <<L("finish", "close", s.slot["close"]), L("finish", "accept", 0), Do("update")>> \o ls)
  BY <1>0, <1>a, <1>1, <1>3, <1>5, <1>7, <1>9 DEF CompleteClose
<1>11. this' = n
  BY <1>10 DEF Settle
<1>12. CASE status = "ok"
  <2>1. n = s2
    BY <1>9, <1>12
  <2>2. /\ s2.slot["connect"] = 0 /\ s2.slot["close"] = 0
        /\ \A y \in Slot \ {"connect", "close"} : s2.slot[y] = s.slot[y]
    BY <1>0, <1>a, <1>2, <1>4, <1>6, <1>8
  <2>3. /\ s2.role = s.role /\ s2.waiting = s.waiting /\ s2.child = s.child
        /\ ~s2.connected /\ ~s2.listening
    BY <1>2, <1>4, <1>6, <1>8
  <2> QED
    BY <1>8, <1>10, <1>11, <1>12, <2>1, <2>2, <2>3
<1>13. CASE status = "error"
  <2>1. n = s1
    BY <1>9, <1>13
  <2>2. /\ s1.slot["connect"] = 0 /\ s1.slot["close"] = 0
        /\ \A y \in Slot \ {"connect", "close"} : s1.slot[y] = s.slot[y]
    BY <1>0, <1>a, <1>2, <1>4
  <2>3. /\ s1.role = s.role /\ s1.waiting = s.waiting /\ s1.child = s.child /\ s1.tcp = s.tcp
        /\ s1.configured = s.configured /\ s1.token = s.token
        /\ s1.connected = s.connected /\ s1.listening = s.listening
    BY <1>2, <1>4
  <2> QED
    BY <1>4, <1>10, <1>11, <1>13, <2>1, <2>2, <2>3
<1> QED
  BY <1>12, <1>13

\* A close ends: at once the connect, and, as labels for later, the close itself and the accept.
LEMMA CloseCompletes ==
  ASSUME IInv, Lapsing, NEW c \in Context, NEW at \in {"go", "pollToken"}, At(c, at),
         at = "go" => todo[c][1].x = "close",
         at = "pollToken" => this.slot["close"] # 0,
         NEW s, Took(s, "close"), NEW status \in {"ok", "error"}, CompleteClose(c, s, status, <<>>),
         status = "ok" => this.configured, this.tcp
  PROVE  IInv'
<1>0. "connect" \in Slot /\ "close" \in Slot /\ "accept" \in Slot /\ "listen" \in Slot
      /\ \A y \in Token : y \in Slot
  BY DEF Slot, Token
<1>1. s \in Fields /\ s.slot = this.slot
  BY DEF Took
<1>2. PICK o : o = this.slot["close"]
  OBVIOUS
<1>3. /\ this' \in Fields /\ this'.role = s.role /\ this'.waiting = s.waiting
      /\ this'.slot["connect"] = 0 /\ this'.slot["close"] = 0
      /\ \A y \in Slot \ {"connect", "close"} : this'.slot[y] = s.slot[y]
      /\ this'.child = s.child
      /\ status = "error" =>
           /\ this'.tcp = s.tcp /\ this'.configured = s.configured /\ this'.token = s.token
           /\ this'.connected = s.connected /\ this'.listening = s.listening
      /\ status = "ok" =>
           /\ ~this'.tcp /\ ~this'.configured /\ ~this'.connected /\ ~this'.listening
           /\ \A x \in Token : this'.token[x] = NoToken
      /\ Settle(c, this', Of(s, "connect"),
                <<L("finish", "close", s.slot["close"]), L("finish", "accept", 0), Do("update")>> \o <<>>)
  BY <1>1, CloseEndIs
<1>4. /\ this'.role = this.role /\ this'.waiting = this.waiting /\ this'.child = this.child
      /\ \A y \in Slot \ {"connect", "close"} : this'.slot[y] = this.slot[y]
  BY <1>1, <1>3 DEF Took
<1>5. /\ status = "error" =>
           /\ this'.tcp = this.tcp /\ this'.configured = this.configured
           /\ this'.connected = this.connected /\ this'.listening = this.listening
           /\ \A x \in Token : this.token[x] = NoToken => this'.token[x] = NoToken
      /\ status = "ok" =>
           /\ ~this'.tcp /\ ~this'.configured /\ ~this'.connected /\ ~this'.listening
           /\ \A x \in Token : this'.token[x] = NoToken
  BY <1>3 DEF Took
<1>6. Settle(c, this', Of(this, "connect"),
             <<L("finish", "close", o), L("finish", "accept", 0), Do("update")>> \o <<>>)
  BY <1>1, <1>2, <1>3 DEF Of
<1>7. o \in Nat /\ (o # 0 => o \in Op)
  BY <1>0, <1>2, Numbers
<1>8. PICK ls \in Seq(Label), m \in {0, 1} :
        /\ Step(c, ls, 1) /\ Len(ls) = m + 3
        /\ \A i \in 1 .. Len(ls) : (i = 1 /\ m = 1) \/ i \in {m + 1, m + 2, m + 3}
        /\ m = 1 => ls[1].at = "user"
        /\ ls[m + 1] = L("finish", "close", o) /\ ls[m + 2] = L("finish", "accept", 0)
        /\ ls[m + 3] = Do("update")
  BY <1>6, <1>7, SettlesClose
<1>9. done' = Finished(Of(this, "connect")) /\ calls' = calls /\ tick' = tick
  BY <1>6 DEF Settle
<1>10. todo[c] # <<>> /\ todo[c][1].at = at
  BY IsAt
<1>11. /\ m + 1 \in 1 .. Len(ls) /\ m + 2 \in 1 .. Len(ls) /\ m + 3 \in 1 .. Len(ls)
       /\ m + 3 > m + 2 /\ m + 3 > m + 1 /\ Len(ls) # 1
  BY <1>8
<1>12. /\ \A i \in 1 .. Len(ls) : i \in Places(c)' /\ todo'[c][i] = ls[i]
       /\ ls[m + 1].at = "finish" /\ ls[m + 1].x = "close" /\ ls[m + 1].op = o
       /\ ls[m + 2].at = "finish" /\ ls[m + 2].x = "accept" /\ ls[m + 2].op = 0
       /\ ls[m + 3].at = "update"
  BY <1>8, NewIs DEF L, Do
<1>13. Fewer
  BY <1>3, <1>4 DEF Fewer
<1>14. Ends(c, 1)
  <2>1. calls' \in 0 .. MaxCalls /\ calls <= calls'
    BY <1>9, Types
  <2>2. Of(this, "connect") = {this.slot["connect"]} \ {0}
    BY DEF Of
  <2>3. /\ done' \in [Op -> {"none", "pending", "done"}]
        /\ \A p \in Op : done'[p] = IF p \in Of(this, "connect") THEN "done" ELSE done[p]
    BY <1>9, Types DEF Finished
  <2>4. ASSUME NEW p \in Op, done[p] = "pending", done'[p] # "pending"
        PROVE  this.slot["connect"] = p /\ this'.slot["connect"] = 0
    BY <1>3, <2>2, <2>3, <2>4
  <2>5. ASSUME NEW p \in Op, done'[p] = "pending"
        PROVE  \/ HasPlace(p)'
               \/ done[p] = "pending" /\ \A y \in Slot : this.slot[y] = p => this'.slot[y] = p
    <3>1. p # 0
      BY Numbers
    <3>2. p \notin Of(this, "connect") /\ done[p] = "pending"
      BY <2>3, <2>5
    <3>3. this.slot["connect"] # p
      BY <2>2, <3>1, <3>2
    <3>4. CASE p = o
      <4>1. m + 1 \in Places(c)' /\ todo'[c][m + 1].at \in {"set", "finish"}
            /\ todo'[c][m + 1].op = p
        BY <1>11, <1>12, <3>4
      <4> QED
        BY <4>1 DEF HasPlace
    <3>5. CASE p # o
      BY <1>2, <1>4, <3>2, <3>3, <3>5
    <3> QED
      BY <3>4, <3>5
  <2>6. \A p \in Op : ~EndsAt(c, 1, p)
    BY <1>10 DEF EndsAt
  <2> QED
    BY <1>0, <2>1, <2>3, <2>4, <2>5, <2>6 DEF Ends
<1>15. Plain(c, ls, 1)
  BY <1>3, <1>4, <1>8, <1>9, <1>10, <1>13, <1>14 DEF Plain
<1>16. ASSUME lapses' = {} PROVE status = "ok" /\ ~this.waiting
  <2>1. lapses = {}
    BY <1>16, LapsesGrow
  <2>2. this.slot["close"] # 0
    <3>1. CASE at = "pollToken"
      BY <3>1
    <3>2. CASE at = "go"
      <4>1. todo'[c] # todo[c]
        BY <1>8, <1>10, <1>11, Moves
      <4>2. this.slot[todo[c][1].x] = todo[c][1].op
        BY <1>16, <3>2, <4>1, NotOvertaken
      <4>3. LabelOK(c, 1)
        BY IsAt
      <4>4. todo[c][1].op \in Op
        BY <1>10, <3>2, <4>3 DEF LabelOK
      <4> QED
        BY <3>2, <4>2, <4>4, Numbers
    <3> QED
      BY <3>1, <3>2
  <2>3. ~this'.tcp
    BY <1>3, <1>16, <2>2, NotClosedInPart
  <2>4. status = "ok"
    BY <1>5, <2>3
  <2> QED
    BY <2>1, <2>4 DEF IInv, ChildOK
<1>17. ComeWell(c, ls)
  <2>1. ASSUME NEW i \in 1 .. Len(ls) PROVE ls[i].at \notin Begins /\ LabelOK(c, i)'
    <3>1. todo'[c][i] = ls[i]
      BY <1>12
    <3>2. CASE i = 1 /\ m = 1
      BY <1>8, <3>1, <3>2 DEF LabelOK, Begins
    <3>3. CASE i = m + 1
      <4>1. o \in 0 .. calls
        BY <1>0, <1>2, <1>7, Types DEF IInv, StoredOK
      <4>2. o # 0 => \A x \in Slot : this'.slot[x] # o
        <5>1. o # 0 => \A x \in Slot : this.slot[x] = o => x = "close"
          BY <1>0, <1>2 DEF IInv, StoredOK
        <5> QED
          BY <1>3, <1>4, <5>1
      <4>3. \E j \in Places(c)' : j > i /\ todo'[c][j].at = "update"
        BY <1>11, <1>12, <3>3
      <4> QED
        BY <1>9, <1>12, <3>1, <3>3, <4>1, <4>2, <4>3 DEF LabelOK, Begins
    <3>4. CASE i = m + 2
      <4>1. 0 \in 0 .. calls
        BY Types
      <4>2. \E j \in Places(c)' : j > i /\ todo'[c][j].at = "update"
        BY <1>11, <1>12, <3>4
      <4> QED
        BY <1>9, <1>12, <3>1, <3>4, <4>1, <4>2 DEF LabelOK, Begins
    <3>5. CASE i = m + 3
      BY <1>12, <3>1, <3>5 DEF LabelOK, Begins
    <3> QED
      BY <1>8, <3>2, <3>3, <3>4, <3>5
  <2>2. Mild(c, ls)
    <3>1. ASSUME NEW i \in 1 .. Len(ls), ls[i].at = "finish"
          PROVE  ls[i].op = 0 \/ \E x \in Slot : ls[i].op = this.slot[x]
      <4>1. i = m + 1 \/ i = m + 2
        BY <1>8, <1>12, <3>1
      <4> QED
        BY <1>0, <1>2, <1>12, <4>1
    <3>2. this.configured /\ this'.tcp => this'.configured
      BY <1>5
    <3>3. \A x \in Token : this.token[x] = NoToken => this'.token[x] = NoToken
      BY <1>5
    <3> QED
      BY <1>4, <1>9, <3>1, <3>2, <3>3 DEF Mild
  <2> QED
    BY <1>15, <2>1, <2>2, QuietComes
<1>18. ASSUME NEW x \in Token PROVE TokenOK(x)'
  <2>1. ~this'.configured => this'.token[x] = NoToken
    BY <1>5 DEF IInv, TokenOK
  <2>2. lapses' = {} => this'.token[x] = NoToken
    BY <1>5, <1>16
  <2> QED
    BY <2>1, <2>2 DEF TokenOK, NoToken
<1>19. ASSUME NEW x \in Token PROVE Serving(c, 1, x)
  <2> SUFFICES ASSUME lapses' = {}, this'.slot[x] # 0 PROVE Serving(c, 1, x)
    BY DEF Serving
  <2>1. ~this'.tcp /\ x # "close" /\ x # "connect"
    BY <1>3, <1>5, <1>16
  <2> QED
    BY <1>10, <2>1 DEF Serving
<1>20. PolledOK'
  <2>1. Polls(c, ls, 1)
    BY <1>11, <1>12 DEF Polls
  <2> QED
    BY <1>15, <2>1, PolledStays
<1>21. ChildOK'
  <2>1. ChildOK /\ lapses \subseteq lapses' /\ (lapses' = {} => lapses = {})
    BY LapsesGrow DEF IInv
  <2>2. this'.slot["listen"] = this.slot["listen"] /\ this'.slot["accept"] = this.slot["accept"]
    BY <1>0, <1>4
  <2>3. this'.child /\ lapses' = {} => this'.slot["accept"] # 0
    BY <1>4, <2>1, <2>2 DEF ChildOK
  <2>4. this'.role = "listener" => (this'.waiting <=> this'.slot["listen"] # 0)
    BY <1>4, <2>1, <2>2 DEF ChildOK
  <2>5. ~(this'.waiting /\ lapses' = {})
    BY <1>4, <1>16
  <2>6. CASE status = "ok"
    BY <1>5, <2>3, <2>4, <2>5, <2>6 DEF ChildOK
  <2>7. CASE status = "error"
    <3>1. /\ this'.configured => this'.tcp
          /\ this'.connected => this'.tcp /\ this'.configured /\ this'.role # "listener"
      BY <1>4, <1>5, <2>1, <2>7 DEF ChildOK
    <3>2. this'.listening =>
            /\ this'.role = "listener"
            /\ (this'.tcp /\ this'.configured /\ this'.slot["listen"] = 0) \/ "listensTwice" \in lapses'
      BY <1>4, <1>5, <2>1, <2>2, <2>7 DEF ChildOK
    <3> QED
      BY <2>3, <2>4, <2>5, <3>1, <3>2 DEF ChildOK
  <2> QED
    BY <2>6, <2>7
<1> QED
  BY <1>15, <1>17, <1>18, <1>19, <1>20, <1>21, GeneralStep

\* A close goes on to submit its token.
LEMMA GoCloseKeeps ==
  ASSUME IInv, Lapsing, NEW c \in Context, GoClose(c) PROVE IInv'
<1>1. At(c, "go") /\ this.tcp
  BY DEF GoClose
<1>2. todo[c] # <<>> /\ todo[c][1].at = "go" /\ Head(todo[c]) = todo[c][1]
  BY <1>1, IsAt
<1>3. PICK x \in Token : x = "close"
  BY DEF Token
<1>4. todo[c][1].x = x
  BY <1>2, <1>3 DEF GoClose
<1>5. PICK r \in Submit(this, x) :
        IF r.ok THEN Proceed(c, UpdatePollingRegistration(r.s), <<>>)
                ELSE CompleteClose(c, this, "error", <<>>)
  BY <1>3 DEF GoClose
<1>6. CASE r.ok
  BY <1>1, <1>4, <1>5, <1>6, GoesKeeps
<1>7. CASE ~r.ok
  <2>1. CompleteClose(c, this, "error", <<>>)
    BY <1>5, <1>7
  <2>2. Took(this, "close")
    BY TookThis
  <2>3. PICK status \in {"ok", "error"} : status = "error"
    OBVIOUS
  <2>4. CompleteClose(c, this, status, <<>>) /\ (status = "ok" => this.configured)
    BY <2>1, <2>3
  <2>5. PICK at \in {"go", "pollToken"} : at = "go"
    OBVIOUS
  <2>6. At(c, at) /\ (at = "go" => todo[c][1].x = "close") /\ at # "pollToken"
    BY <1>1, <1>3, <1>4, <2>5
  <2> QED
    BY <1>1, <2>2, <2>4, <2>6, CloseCompletes
<1> QED
  BY <1>6, <1>7

\* A token, in a pass.
LEMMA PollTokenKeeps ==
  ASSUME IInv, Lapsing, NEW c \in Context, PollToken(c) PROVE IInv'
<1>1. At(c, "pollToken")
  BY DEF PollToken
<1>2. todo[c] # <<>> /\ todo[c][1].at = "pollToken" /\ Head(todo[c]) = todo[c][1]
      /\ todo[c][1].x \in Token
  BY <1>1, IsAt DEF LabelOK
<1>3. PICK x \in Token : x = todo[c][1].x
  BY <1>2
<1>4. PICK at \in {"go", "pollToken"} : at = "pollToken"
  OBVIOUS
<1>5. At(c, at) /\ at # "go" /\ at \notin {"set", "finish"}
  BY <1>1, <1>4
<1>6. CASE this.slot[x] = 0 \/ ~this.token[x].signaled \/ (x = "connect" /\ this.waiting)
  <2>1. Proceed(c, this, <<>>)
    BY <1>2, <1>3, <1>6 DEF PollToken
  <2>2. GoesWell(c)
    BY <1>2 DEF GoesWell
  <2> QED
    BY <1>1, <2>1, <2>2, DropKeeps
<1>7. CASE ~(this.slot[x] = 0 \/ ~this.token[x].signaled \/ (x = "connect" /\ this.waiting))
  <2>1. PICK s : s = [this EXCEPT !.token[x].signaled = FALSE]
    OBVIOUS
  <2>2. (CASE x = "connect" -> \E status \in {"ok", "error", "timeout"} :
                                CompleteConnect(c, s, status, <<>>)
          [] x = "close"   -> \E status \in {"ok", "error"} : CompleteClose(c, s, status, <<>>)
          [] x = "accept"  -> CompleteAccept(c, s, this.child, <<>>)
          [] OTHER         -> CompleteIo(c, s, x, <<>>))
    BY <1>2, <1>3, <1>7, <2>1 DEF PollToken
  <2>3. Took(s, x) /\ this.configured /\ this.tcp /\ (lapses = {} => s.token[x] = NoToken)
    BY <1>7, <2>1, ResetIs
  <2>4. lapses' = {} => s.token[x] = NoToken
    BY <2>3, LapsesGrow
  <2>5. CASE x = "connect"
    <3>1. PICK status \in {"ok", "error", "timeout"} : CompleteConnect(c, s, status, <<>>)
      BY <2>2, <2>5
    <3>2. Near(s)
      BY <2>3, <2>5, NearThis DEF Near, Took
    <3>3. s.configured
      BY <2>3 DEF Took
    <3>4. this.role # "listener"
      BY <1>7, <2>5, Types
    <3>5. lapses' = {} /\ status # "timeout" => s.token["connect"] = NoToken
      BY <2>4, <2>5
    <3> QED
      BY <1>5, <3>1, <3>2, <3>3, <3>4, <3>5, ConnectCompletes
  <2>6. CASE x = "close"
    <3>1. PICK status \in {"ok", "error"} : CompleteClose(c, s, status, <<>>)
      BY <2>2, <2>6
    <3>2. Took(s, "close") /\ this.slot["close"] # 0
      BY <1>7, <2>3, <2>6
    <3> QED
      BY <1>5, <2>3, <3>1, <3>2, CloseCompletes
  <2>7. CASE x = "accept"
    <3>1. PICK ok \in BOOLEAN : ok = this.child
      BY Types DEF Fields
    <3>2. CompleteAccept(c, s, ok, <<>>) /\ Took(s, "accept") /\ this.slot["accept"] # 0
      BY <1>7, <2>2, <2>3, <2>7, <3>1
    <3>3. lapses' = {} => s.token["accept"] = NoToken /\ ~(s.child /\ ~ok)
      BY <2>3, <2>4, <2>7, <3>1 DEF Took
    <3> QED
      BY <1>5, <3>2, <3>3, AcceptCompletes
  <2>8. CASE x \notin {"connect", "close", "accept"}
    <3>1. PICK y \in {"receive", "transmit"} : y = x
      BY <2>8 DEF Token
    <3>2. CompleteIo(c, s, x, <<>>)
      BY <2>2, <2>8
    <3>3. CompleteIo(c, s, y, <<>>) /\ Took(s, y) /\ (lapses' = {} => s.token[y] = NoToken)
      BY <2>3, <2>4, <3>1, <3>2
    <3> QED
      BY <1>5, <3>3, IoCompletes
  <2> QED
    BY <2>5, <2>6, <2>7, <2>8
<1> QED
  BY <1>6, <1>7

\* What a close has left for later: its own task ends, and, after that, an accept.
LEMMA FinishCloseKeeps ==
  ASSUME IInv, Lapsing, NEW c \in Context, At(c, "finish"), todo[c][1].x = "close",
         Settle(c, this, {todo[c][1].op} \ {0}, <<>>)
  PROVE  IInv'
<1>1. todo[c] # <<>> /\ todo[c][1].at = "finish" /\ LabelOK(c, 1)
  BY IsAt
<1>2. PICK o : o = todo[c][1].op
  OBVIOUS
<1>3. /\ o \in Nat /\ (o # 0 => \A x \in Slot : this.slot[x] # o)
      /\ \E j \in Places(c) : j > 1 /\ todo[c][j].at = "update"
  BY <1>1, <1>2, Types DEF LabelOK
<1>4. this' = this /\ done' = Finished({o} \ {0}) /\ calls' = calls /\ tick' = tick
  BY <1>2 DEF Settle
<1>5. PICK ls \in Seq(Label) : Step(c, ls, 1) /\ \A i \in 1 .. Len(ls) : ls[i].at = "user"
  BY SettlesAll
<1>6. Ends(c, 1)
  <2>1. calls' \in 0 .. MaxCalls /\ calls <= calls'
    BY <1>4, Types
  <2>2. /\ done' \in [Op -> {"none", "pending", "done"}]
        /\ \A p \in Op : done'[p] = IF p \in {o} \ {0} THEN "done" ELSE done[p]
    BY <1>4, Types DEF Finished
  <2>3. ASSUME NEW p \in Op, done[p] = "pending", done'[p] # "pending"
        PROVE  EndsAt(c, 1, p)
    <3>1. p = o
      BY <2>2, <2>3
    <3> QED
      BY <1>1, <1>2, <3>1 DEF EndsAt
  <2>4. ASSUME NEW p \in Op, done'[p] = "pending"
        PROVE  /\ done[p] = "pending" /\ ~EndsAt(c, 1, p)
               /\ \A x \in Slot : this.slot[x] = p => this'.slot[x] = p
    <3>1. p # 0
      BY Numbers
    <3>2. p # o /\ done[p] = "pending"
      BY <2>2, <2>4, <3>1
    <3> QED
      BY <1>2, <1>4, <3>2 DEF EndsAt
  <2> QED
    BY <2>1, <2>2, <2>3, <2>4 DEF Ends
<1>7. Plain(c, ls, 1)
  BY <1>1, <1>4, <1>5, <1>6, Types DEF Plain, Fewer
<1>8. ComeWell(c, ls)
  <2>1. ASSUME NEW i \in 1 .. Len(ls) PROVE ls[i].at \notin Begins /\ LabelOK(c, i)'
    <3>1. todo'[c][i] = ls[i]
      BY <1>5, NewIs
    <3> QED
      BY <1>5, <3>1 DEF LabelOK, Begins
  <2>2. Mild(c, ls)
    BY <1>4, <1>5 DEF Mild
  <2> QED
    BY <1>7, <2>1, <2>2, QuietComes
<1>9. ASSUME NEW x \in Token PROVE TokenOK(x)' /\ Serving(c, 1, x)
  <2>1. TokenOK(x)'
    BY <1>4, LapsesGrow DEF IInv, TokenOK
  <2>2. Serving(c, 1, x)
    BY <1>1, <1>4 DEF Serving
  <2> QED
    BY <2>1, <2>2
<1>10. PolledOK'
  <2>1. Polls(c, ls, 1)
    BY <1>1, <1>4 DEF Polls, Witness
  <2> QED
    BY <1>7, <2>1, PolledStays
<1>11. ChildOK'
  BY <1>4, LapsesGrow DEF IInv, ChildOK
<1> QED
  BY <1>7, <1>8, <1>9, <1>10, <1>11, GeneralStep

\* The accept that a close leaves for later ends, whatever has become of it.
LEMMA FinishAcceptKeeps ==
  ASSUME IInv, Lapsing, NEW c \in Context, At(c, "finish"), todo[c][1].x = "accept",
         Settle(c, Taken(this, "accept"), Of(this, "accept"), <<>>)
  PROVE  IInv'
<1>0. PICK x \in Slot : x = "accept"
  BY DEF Slot, Token
<1>1. todo[c] # <<>> /\ todo[c][1].at = "finish" /\ LabelOK(c, 1) /\ this \in Fields
  BY IsAt, Types
<1>2. todo[c][1].op = 0 /\ \E j \in Places(c) : j > 1 /\ todo[c][j].at = "update"
  BY <1>1 DEF LabelOK
<1>3. PICK u : u = Taken(this, x)
  OBVIOUS
<1>4. /\ u \in Fields /\ u.slot[x] = 0 /\ \A y \in Slot \ {x} : u.slot[y] = this.slot[y]
      /\ u.role = this.role /\ u.waiting = this.waiting /\ u.token = this.token /\ u.polled = this.polled
      /\ u.tcp = this.tcp /\ u.configured = this.configured
      /\ u.connected = this.connected /\ u.listening = this.listening /\ u.child = this.child
  BY <1>1, <1>3, TakenIs
<1>5. Settle(c, u, Of(this, x), <<>>)
  BY <1>0, <1>3
<1>6. this' = u /\ done' = Finished(Of(this, x)) /\ calls' = calls /\ tick' = tick
  BY <1>5 DEF Settle
<1>7. PICK ls \in Seq(Label) : Step(c, ls, 1) /\ \A i \in 1 .. Len(ls) : ls[i].at = "user"
  BY <1>5, SettlesAll
<1>8. PICK k : k = 1
  OBVIOUS
<1>9. todo'[c] # todo[c]
  <2>1. Len(ls) # 1 \/ ls[1].at # todo[c][1].at
    <3>1. CASE Len(ls) = 1
      <4>1. 1 \in 1 .. Len(ls)
        BY <3>1
      <4>2. ls[1].at = "user"
        BY <1>7, <4>1
      <4> QED
        BY <1>1, <4>2
    <3> QED
      BY <3>1
  <2> QED
    BY <1>1, <1>7, <2>1, Moves
<1>10. /\ this' \in Fields /\ this'.slot[x] = 0 /\ \A y \in Slot \ {x} : this'.slot[y] = this.slot[y]
       /\ this'.role = this.role /\ this'.waiting = this.waiting /\ this'.token = this.token
       /\ this'.polled = this.polled /\ this'.tcp = this.tcp /\ this'.configured = this.configured
       /\ this'.connected = this.connected /\ this'.listening = this.listening
       /\ this'.child = this.child
  BY <1>4, <1>6
<1>11. Ends(c, 1) /\ Fewer
  <2>1. k = 1 => todo[c][1].at # "finish" \/ todo[c][1].op = 0
    BY <1>2
  <2> QED
    BY <1>6, <1>8, <1>10, <2>1, OneEnds
<1>12. Plain(c, ls, 1)
  BY <1>0, <1>1, <1>6, <1>7, <1>10, <1>11 DEF Plain
<1>13. ComeWell(c, ls)
  <2>1. ASSUME NEW i \in 1 .. Len(ls) PROVE ls[i].at \notin Begins /\ LabelOK(c, i)'
    <3>1. todo'[c][i] = ls[i]
      BY <1>7, NewIs
    <3> QED
      BY <1>7, <3>1 DEF LabelOK, Begins
  <2>2. Mild(c, ls)
    BY <1>6, <1>7, <1>10 DEF Mild
  <2> QED
    BY <1>12, <2>1, <2>2, QuietComes
<1>14. lapses' = {} => this.slot[x] = 0 \/ (~this.child /\ ~this.tcp)
  BY <1>0, <1>9, NotAcceptEnded
<1>15. ASSUME NEW y \in Token PROVE TokenOK(y)'
  <2>1. TokenOK(y) /\ (lapses' = {} => lapses = {}) /\ (this.configured => this.tcp)
    BY LapsesGrow DEF IInv, ChildOK
  <2>2. CASE y = x
    <3>1. lapses' = {} => this.slot[x] = 0 \/ this.token[x] = NoToken
      BY <1>14, <2>1, <2>2 DEF TokenOK
    <3> QED
      BY <1>10, <2>1, <2>2, <3>1 DEF TokenOK, NoToken
  <2>3. CASE y # x
    <3>1. y \in Slot \ {x}
      BY <2>3 DEF Slot
    <3>2. this'.slot[y] = this.slot[y]
      BY <1>10, <3>1
    <3> QED
      BY <1>10, <2>1, <3>2 DEF TokenOK
  <2> QED
    BY <2>2, <2>3
<1>16. ASSUME NEW y \in Token PROVE Serving(c, 1, y)
  BY <1>1, <1>10 DEF Serving
<1>17. PolledOK'
  <2>1. Updating
    BY <1>2 DEF Updating
  <2>2. Updating'
    BY <1>1, <1>7, <2>1, UpdatingStays
  <2>3. ~Witness(c)
    BY <1>1 DEF Witness
  <2>4. Polls(c, ls, 1)
    BY <1>1, <1>10, <2>2, <2>3 DEF Polls
  <2> QED
    BY <1>12, <2>4, PolledStays
<1>18. ChildOK'
  <2>1. ChildOK /\ lapses \subseteq lapses' /\ (lapses' = {} => lapses = {})
    BY LapsesGrow DEF IInv
  <2>2. this'.slot["listen"] = this.slot["listen"] /\ this'.slot["connect"] = this.slot["connect"]
    BY <1>0, <1>10 DEF Slot, Token
  <2>3. ~(this'.child /\ lapses' = {})
    BY <1>0, <1>10, <1>14, <2>1 DEF ChildOK
  <2>4. /\ this'.configured => this'.tcp
        /\ this'.connected => this'.tcp /\ this'.configured /\ this'.role # "listener"
        /\ this'.listening =>
             /\ this'.role = "listener"
             /\ (this'.tcp /\ this'.configured /\ this'.slot["listen"] = 0) \/ "listensTwice" \in lapses'
    BY <1>10, <2>1, <2>2 DEF ChildOK
  <2>5. /\ this'.role = "listener" => (this'.waiting <=> this'.slot["listen"] # 0)
        /\ this'.waiting /\ lapses' = {} => /\ this'.tcp /\ ~this'.configured
                                            /\ this'.slot["connect"] # 0 \/ this'.slot["listen"] # 0
    BY <1>10, <2>1, <2>2 DEF ChildOK
  <2> QED
    BY <2>3, <2>4, <2>5 DEF ChildOK
<1> QED
  BY <1>12, <1>13, <1>15, <1>16, <1>17, <1>18, GeneralStep

\* The rest of a close.
LEMMA FinishKeeps ==
  ASSUME IInv, Lapsing, NEW c \in Context, Finish(c) PROVE IInv'
<1>1. At(c, "finish")
  BY DEF Finish
<1>2. todo[c] # <<>> /\ Head(todo[c]) = todo[c][1] /\ todo[c][1].x \in {"close", "accept"}
  BY <1>1, IsAt DEF LabelOK
<1>3. CASE todo[c][1].x = "close"
  BY <1>1, <1>2, <1>3, FinishCloseKeeps DEF Finish
<1>4. CASE todo[c][1].x = "accept"
  BY <1>1, <1>2, <1>4, FinishAcceptKeeps DEF Finish
<1> QED
  BY <1>2, <1>3, <1>4

\* The registration is brought up to date.
LEMMA UpdateKeeps ==
  ASSUME IInv, Lapsing, NEW c \in Context, Update(c) PROVE IInv'
<1>0. At(c, "update") /\ this \in Fields
  BY Types DEF Update
<1>1. todo[c] # <<>> /\ todo[c][1].at = "update"
  BY <1>0, IsAt
<1>2. PICK u : u = UpdatePollingRegistration(this)
  OBVIOUS
<1>3. /\ u \in Fields /\ u.polled = (this.waiting \/ \E x \in Slot : this.slot[x] # 0)
      /\ u.role = this.role /\ u.slot = this.slot /\ u.waiting = this.waiting /\ u.token = this.token
      /\ u.tcp = this.tcp /\ u.configured = this.configured
      /\ u.connected = this.connected /\ u.listening = this.listening /\ u.child = this.child
  BY <1>0, <1>2, UpdateIs
<1>4. PICK ls : ls = <<>>
  OBVIOUS
<1>5. ls \in Seq(Label) /\ Len(ls) = 0 /\ \A i \in 1 .. Len(ls) : FALSE
  BY <1>4
<1>6. /\ this' = u /\ todo' = [todo EXCEPT ![c] = ls \o Tail(@)]
      /\ done' = done /\ calls' = calls /\ tick' = tick
  BY <1>2, <1>4 DEF Update, Proceed
<1>7. Step(c, ls, 1)
  BY <1>0, <1>5, <1>6, Replaces
<1>8. /\ this' \in Fields /\ this'.polled = (this'.waiting \/ \E x \in Slot : this'.slot[x] # 0)
      /\ this'.role = this.role /\ this'.slot = this.slot /\ this'.waiting = this.waiting
      /\ this'.token = this.token /\ this'.tcp = this.tcp /\ this'.configured = this.configured
      /\ this'.connected = this.connected /\ this'.listening = this.listening
      /\ this'.child = this.child
  BY <1>3, <1>6
<1>9. Ends(c, 1)
  BY <1>1, <1>6, <1>8, NoneEnds
<1>10. Plain(c, ls, 1)
  BY <1>1, <1>6, <1>7, <1>8, <1>9 DEF Plain, Fewer
<1>11. ComeWell(c, ls)
  <2>1. Mild(c, ls)
    BY <1>5, <1>6, <1>8 DEF Mild
  <2> QED
    BY <1>5, <1>10, <2>1, QuietComes
<1>12. ASSUME NEW x \in Token PROVE TokenOK(x)' /\ Serving(c, 1, x)
  <2>1. TokenOK(x)'
    BY <1>8, LapsesGrow DEF IInv, TokenOK
  <2>2. Serving(c, 1, x)
    BY <1>1, <1>8 DEF Serving
  <2> QED
    BY <2>1, <2>2
<1>13. PolledOK'
  BY <1>8 DEF PolledOK
<1>14. ChildOK'
  BY <1>8, LapsesGrow DEF IInv, ChildOK
<1> QED
  BY <1>10, <1>11, <1>12, <1>13, <1>14, GeneralStep

-----------------------------------------------------------------------------
(* The Listens.                                                             *)

\* What a Listen that returns leaves as it was.
Listens(s) ==
  /\ s \in Fields /\ s.role = this.role /\ s.slot = this.slot /\ s.waiting = this.waiting
  /\ s.connected = this.connected /\ s.child = this.child

\* A call that returns at once is a step that stores nothing.
LEMMA Returns ==
  ASSUME IInv, NEW c \in Context, CanCall(c), NEW s, Listens(s), Return(c, s)
  PROVE  this' = s /\ \E ls \in Seq(Label) : Len(ls) = 0 /\ Plain(c, ls, 0) /\ ComeWell(c, ls)
<1>0. PICK n : n = New
  OBVIOUS
<1>1. this' = s /\ calls' = calls + 1 /\ tick' = tick
  BY DEF Return, Start
<1>2. /\ Yields(c) /\ n \in Op /\ calls' \in 0 .. MaxCalls /\ calls <= calls'
      /\ done[n] # "pending"
  BY <1>0, <1>1, NewOp
<1>3. PICK ls : ls = <<>>
  OBVIOUS
<1>4. ls \in Seq(Label) /\ Len(ls) = 0 /\ \A i \in 1 .. Len(ls) : FALSE
  BY <1>3
<1>5. todo' = [todo EXCEPT ![c] = ls \o @] /\ done' = [done EXCEPT ![n] = "done"]
  BY <1>0, <1>3 DEF Return, Start
<1>6. Step(c, ls, 0)
  BY <1>2, <1>4, <1>5, Pushes
<1>7. /\ done' \in [Op -> {"none", "pending", "done"}] /\ done'[n] = "done"
      /\ \A o \in Op \ {n} : done'[o] = done[o]
  BY <1>2, <1>5, Types
<1>8. this' \in Fields /\ this'.role = this.role /\ this'.slot = this.slot
  BY <1>1 DEF Listens
<1>9. Ends(c, 0)
  <2>1. ASSUME NEW o \in Op, done[o] = "pending", done'[o] # "pending" PROVE FALSE
    BY <1>2, <1>7, <2>1
  <2>2. ASSUME NEW o \in Op, done'[o] = "pending"
        PROVE  /\ done[o] = "pending" /\ ~EndsAt(c, 0, o)
               /\ \A y \in Slot : this.slot[y] = o => this'.slot[y] = o
    <3>1. done[o] = "pending"
      BY <1>7, <2>2
    <3>2. ~EndsAt(c, 0, o)
      BY DEF EndsAt
    <3> QED
      BY <1>8, <3>1, <3>2
  <2> QED
    BY <1>2, <1>7, <2>1, <2>2 DEF Ends
<1>10. Plain(c, ls, 0)
  BY <1>1, <1>6, <1>8, <1>9 DEF Plain, Fewer
<1>11. ComeWell(c, ls)
  BY <1>4, <1>10, QuietComes
<1> QED
  BY <1>1, <1>4, <1>10, <1>11

\* A Listen that succeeds.
LEMMA ListenSucceeds ==
  ASSUME IInv, Lapsing, NEW c \in Context, CanCall(c), this.role = "listener",
         NEW s, Listens(s), Return(c, s), s.tcp /\ s.configured /\ s.listening,
         s.polled = this.polled /\ \A x \in Token : s.token[x] = this.token[x]
  PROVE  IInv'
<1>1. this' = s
  BY Returns
<1>2. PICK ls \in Seq(Label) : Len(ls) = 0 /\ Plain(c, ls, 0) /\ ComeWell(c, ls)
  BY Returns
<1>3. /\ this'.role = this.role /\ this'.slot = this.slot /\ this'.waiting = this.waiting
      /\ this'.connected = this.connected /\ this'.child = this.child
      /\ this'.tcp /\ this'.configured /\ this'.listening /\ this'.polled = this.polled
      /\ \A x \in Token : this'.token[x] = this.token[x]
  BY <1>1 DEF Listens
<1>4. ASSUME NEW x \in Token PROVE TokenOK(x)' /\ Serving(c, 0, x)
  <2>1. TokenOK(x)'
    BY <1>3, LapsesGrow DEF IInv, TokenOK
  <2>2. Serving(c, 0, x)
    BY <1>3 DEF Serving
  <2> QED
    BY <2>1, <2>2
<1>5. PolledOK'
  <2>1. Polls(c, ls, 0)
    BY <1>3 DEF Polls
  <2> QED
    BY <1>2, <2>1, PolledStays
<1>6. ChildOK'
  <2>1. ChildOK /\ lapses \subseteq lapses' /\ (lapses' = {} => lapses = {})
    BY LapsesGrow DEF IInv
  <2>2. this'.slot["listen"] = 0 \/ "listensTwice" \in lapses'
    BY <1>3, NotListenedTwice
  <2>3. ~this'.connected
    BY <1>3, <2>1 DEF ChildOK
  <2>4. this'.waiting <=> this'.slot["listen"] # 0
    BY <1>3, <2>1 DEF ChildOK
  <2>5. ~(this'.waiting /\ lapses' = {})
    BY <2>2, <2>4
  <2>6. this'.child /\ lapses' = {} => this'.slot["accept"] # 0
    BY <1>3, <2>1 DEF ChildOK
  <2> QED
    BY <1>3, <2>2, <2>3, <2>4, <2>5, <2>6 DEF ChildOK
<1> QED
  BY <1>2, <1>4, <1>5, <1>6, GeneralStep

\* A Listen that fails: the child is gone.
LEMMA ListenFails ==
  ASSUME IInv, Lapsing, NEW c \in Context, CanCall(c), this.role = "listener",
         NEW s, Listens(s), Return(c, s), ~s.tcp /\ ~s.configured /\ ~s.listening,
         \A x \in Token : s.token[x] = NoToken
  PROVE  IInv'
<1>0. "accept" \in Slot /\ "listen" \in Slot /\ \A x \in Token : x \in Slot
  BY DEF Slot, Token
<1>1. this' = s
  BY Returns
<1>2. PICK ls \in Seq(Label) : Len(ls) = 0 /\ Plain(c, ls, 0) /\ ComeWell(c, ls)
  BY Returns
<1>3. /\ this'.role = this.role /\ this'.slot = this.slot /\ this'.waiting = this.waiting
      /\ this'.connected = this.connected /\ this'.child = this.child /\ this' \in Fields
      /\ ~this'.tcp /\ ~this'.configured /\ ~this'.listening
      /\ \A x \in Token : this'.token[x] = NoToken
  BY <1>1 DEF Listens
<1>4. ASSUME NEW x \in Token PROVE TokenOK(x)' /\ Serving(c, 0, x)
  <2>1. TokenOK(x)'
    BY <1>3 DEF TokenOK, NoToken
  <2>2. Serving(c, 0, x)
    BY <1>3 DEF Serving
  <2> QED
    BY <2>1, <2>2
<1>5. Step(c, ls, 0) /\ todo' \in [Context -> Seq(Label)]
  BY <1>2 DEF Plain, Step, Shift
<1>6. ASSUME "released" \notin lapses', NEW x \in Slot, this'.slot[x] # 0
      PROVE  Finishing' /\ (this.tcp \/ this.role # "listener" \/ x = "accept")
             /\ (this.tcp => this.slot[x] = this.slot["accept"])
  <2>1. "released" \notin lapses
    BY <1>6, LapsesGrow
  <2>2. CASE this.tcp
    <3>1. this'.slot[x] = this'.slot["accept"] /\ Finishing'
      BY <1>3, <1>5, <1>6, <2>2, NotReleased
    <3> QED
      BY <1>3, <2>2, <3>1
  <2>3. CASE ~this.tcp
    <3>1. this.slot[x] # 0 /\ x # "connect"
      BY <1>3, <1>6, Types
    <3>2. x = "accept" /\ Finishing
      BY <2>1, <2>3, <3>1 DEF IInv, StoredOK
    <3>3. PICK k : k = 0
      OBVIOUS
    <3>4. Step(c, ls, k) /\ ~(k = 1 /\ todo[c][1].at = "finish" /\ todo[c][1].x = "accept")
      BY <1>5, <3>3
    <3>5. Finishing'
      BY <3>2, <3>4, FinishingStays
    <3> QED
      BY <2>3, <3>2, <3>5
  <2> QED
    BY <2>2, <2>3
<1>7. this'.waiting <=> this'.slot["listen"] # 0
  BY <1>3 DEF IInv, ChildOK
<1>8. PolledOK'
  <2> SUFFICES ASSUME "released" \notin lapses', this'.waiting \/ \E x \in Slot : this'.slot[x] # 0
               PROVE  Updating'
    BY DEF PolledOK
  <2>1. \E x \in Slot : this'.slot[x] # 0
    BY <1>0, <1>7
  <2>2. Finishing'
    BY <1>6, <2>1
  <2>3. LabelsOK'
    BY <1>2, LabelsStay
  <2> QED
    BY <2>2, <2>3, FinishingUpdatesNext
<1>9. ChildOK'
  <2>1. ChildOK /\ lapses \subseteq lapses' /\ (lapses' = {} => lapses = {})
    BY LapsesGrow DEF IInv
  <2>2. ~this'.connected
    BY <1>3, <2>1 DEF ChildOK
  <2>3. ASSUME this'.waiting, lapses' = {} PROVE FALSE
    <3>1. this.tcp
      BY <1>3, <2>1, <2>3 DEF ChildOK
    <3>2. this'.slot["listen"] # 0
      BY <1>7, <2>3
    <3>3. this.slot["listen"] = this.slot["accept"] /\ this.slot["listen"] # 0
      BY <1>0, <1>3, <1>6, <2>3, <3>1, <3>2
    <3>4. \A y \in Slot : this.slot[y] = this.slot["listen"] => y = "listen"
      BY <1>0, <3>3 DEF IInv, StoredOK
    <3> QED
      BY <1>0, <3>3, <3>4
  <2>4. this'.child /\ lapses' = {} => this'.slot["accept"] # 0
    BY <1>3, <2>1 DEF ChildOK
  <2> QED
    BY <1>3, <1>7, <2>2, <2>3, <2>4 DEF ChildOK
<1> QED
  BY <1>2, <1>4, <1>8, <1>9, GeneralStep

\* A listener that waits for its address: a new operation, which is polled.
Waits(s, n) ==
  /\ s \in Fields /\ s.role = this.role /\ s.waiting /\ s.polled /\ s.tcp /\ ~s.configured
  /\ ~s.listening /\ s.connected = this.connected /\ s.child = this.child
  /\ s.slot["listen"] = n /\ \A y \in Slot \ {"listen"} : s.slot[y] = this.slot[y]
  /\ \A y \in Token : s.token[y] = this.token[y]

\* A ListenAsync that waits for an address keeps the invariant.
LEMMA ListenWaits ==
  ASSUME IInv, Lapsing, NEW c \in Context, CanCall(c), this.role = "listener",
         this.slot["listen"] = 0, ~this.configured,
         NEW s, Waits(s, New), Start(c, s, <<>>), Pend(New)
  PROVE  IInv'
<1>0. "accept" \in Slot \ {"listen"} /\ "listen" \in Slot /\ \A x \in Token : x \in Slot \ {"listen"}
  BY DEF Slot, Token
<1>1. PICK n : n = New
  OBVIOUS
<1>2. this' = s /\ calls' = calls + 1 /\ tick' = tick
  BY DEF Start
<1>3. /\ n \in Op /\ n \in Nat /\ n = calls' /\ n > calls /\ n # 0
      /\ calls' \in 0 .. MaxCalls /\ calls <= calls' /\ calls \in Nat
      /\ \A y \in Slot : this.slot[y] # n
      /\ \A d \in Context : \A i \in Places(d) : todo[d][i].at = "finish" => todo[d][i].op # n
      /\ done[n] # "pending"
      /\ \A d \in Context \ {c} : todo[d] = <<>> \/ todo[d][1].at \notin Begins
      /\ Yields(c)
  BY <1>1, <1>2, NewOp
<1>4. /\ this' \in Fields /\ this'.role = this.role /\ this'.waiting /\ this'.polled /\ this'.tcp
      /\ ~this'.configured /\ ~this'.listening /\ this'.connected = this.connected
      /\ this'.child = this.child
      /\ this'.slot["listen"] = n /\ \A y \in Slot \ {"listen"} : this'.slot[y] = this.slot[y]
      /\ \A y \in Token : this'.token[y] = this.token[y]
  BY <1>1, <1>2 DEF Waits
<1>5. todo' = todo
  <2>1. todo \in [Context -> Seq(Label)]
    BY Types
  <2>2. todo' = [todo EXCEPT ![c] = <<>> \o @]
    BY DEF Start
  <2>3. PICK e : e = todo[c]
    OBVIOUS
  <2>4. e \in Seq(Label)
    BY <2>1, <2>3
  <2>5. <<>> \o e = e
    BY <2>4
  <2> QED
    BY <2>1, <2>2, <2>3, <2>5
<1>6. /\ done' \in [Op -> {"none", "pending", "done"}] /\ done'[n] = "pending"
      /\ \A o \in Op \ {n} : done'[o] = done[o]
  BY <1>1, <1>3, Types DEF Pend
<1>7. \A d \in Context : Places(d)' = Places(d)
  BY <1>5 DEF Places
<1>8. \A d \in Context : todo[d] = <<>> \/ todo[d][1].at \notin Begins
  <2>1. todo[c] # <<>> => todo[c][1].at = "user"
    BY <1>3, AtUser
  <2> QED
    BY <1>3, <2>1 DEF Begins
<1>9. lapses \subseteq lapses' /\ (lapses' = {} => lapses = {})
      /\ lapses' \subseteq {"released", "closeFailed", "overtaken", "acceptEnded", "listensTwice"}
  BY LapsesGrow
<1>10. TypeOK'
  <2>1. todo' \in [Context -> Seq(Label)] /\ tick' \in BOOLEAN
    BY <1>2, <1>5, Types
  <2>2. this'.role = "listener" => \A x \in {"connect", "receive", "transmit"} : this'.slot[x] = 0
    BY <1>0, <1>4, Types DEF Token
  <2>3. this'.role = "listener"
    BY <1>4
  <2> QED
    BY <1>3, <1>4, <1>6, <1>9, <2>1, <2>2, <2>3, Together
<1>11. LabelsOK'
  <2> SUFFICES ASSUME NEW d \in Context, NEW i \in Places(d) PROVE LabelOK(d, i)'
    BY <1>7 DEF LabelsOK
  <2>1. LabelOK(d, i)
    BY DEF IInv, LabelsOK
  <2>2. PICK l : l = todo[d][i]
    OBVIOUS
  <2>3. l.at = "finish" /\ l.op # 0 => \A x \in Slot : this'.slot[x] # l.op
    <3>1. l.at = "finish" => l.op # n
      BY <1>3, <2>2
    <3>2. l.at = "finish" /\ l.op # 0 => \A x \in Slot : this.slot[x] # l.op
      BY <2>1, <2>2 DEF LabelOK
    <3> QED
      BY <1>4, <3>1, <3>2
  <2>4. l.at = "finish" => l.op \in 0 .. calls'
    <3>1. l.at = "finish" => l.op \in 0 .. calls
      BY <2>1, <2>2 DEF LabelOK
    <3> QED
      BY <1>3, <3>1
  <2>5. l.at \in {"go", "submitConnect"} => l.op \in Op
    BY <2>1, <2>2 DEF LabelOK
  <2>6. \A x : Fits(x)' <=> Fits(x)
    BY <1>4 DEF Fits
  <2> QED
    BY <1>4, <1>5, <1>7, <2>1, <2>2, <2>3, <2>4, <2>6 DEF LabelOK
<1>12. ASSUME NEW d \in Context PROVE SetOK(d)' /\ BeginOK(d)'
  BY <1>5, <1>8 DEF SetOK, BeginOK, Begins
<1>13. ASSUME NEW x \in Token PROVE TokenOK(x)' /\ ServedOK(x)'
  <2>1. this'.slot[x] = this.slot[x]
    BY <1>0, <1>4
  <2>2. TokenOK(x)'
    BY <1>4, <1>9, <2>1 DEF IInv, TokenOK
  <2>3. ~Going(x)
    <3>1. ASSUME NEW d \in Context, todo[d] # <<>> PROVE todo[d][1].at \notin Begins
      BY <1>8, <3>1
    <3>2. L("go", x, this.slot[x]).at \in Begins /\ "submitConnect" \in Begins
      BY DEF L, Begins
    <3> QED
      BY <3>1, <3>2 DEF Going
  <2>4. Finishing' <=> Finishing
    BY <1>5, <1>7 DEF Finishing
  <2>5. ServedOK(x)'
    BY <1>4, <1>9, <2>1, <2>3, <2>4 DEF IInv, ServedOK, ServedNow
  <2> QED
    BY <2>2, <2>5
<1>14. ASSUME NEW x \in Slot PROVE StoredOK(x)'
  <2>1. CASE x = "listen"
    BY <1>0, <1>3, <1>4, <1>6, <2>1 DEF StoredOK
  <2>2. CASE x # "listen"
    <3>1. this'.slot[x] = this.slot[x] /\ this.slot[x] # n /\ x \in Slot \ {"listen"}
      BY <1>3, <1>4, <2>2
    <3>2. CASE this.slot[x] = 0
      BY <3>1, <3>2 DEF StoredOK
    <3>3. CASE this.slot[x] # 0
      <4>1. this.slot[x] \in Nat /\ this.slot[x] \in Op
        BY <3>3, Numbers
      <4>2. this.slot[x] <= calls /\ done[this.slot[x]] = "pending"
            /\ \A y \in Slot : this.slot[y] = this.slot[x] => x = y
        BY <3>3 DEF IInv, StoredOK
      <4>3. this'.slot[x] <= calls'
        BY <1>3, <3>1, <4>1, <4>2
      <4>4. done'[this'.slot[x]] = "pending"
        BY <1>6, <3>1, <4>1, <4>2
      <4>5. \A y \in Slot : this'.slot[y] = this'.slot[x] => x = y
        BY <1>4, <3>1, <4>2
      <4> QED
        BY <1>4, <4>3, <4>4, <4>5 DEF StoredOK
    <3> QED
      BY <3>2, <3>3
  <2> QED
    BY <2>1, <2>2
<1>15. PolledOK'
  BY <1>4 DEF PolledOK
<1>16. ChildOK'
  <2>1. ChildOK
    BY DEF IInv
  <2>2. ~this'.connected
    BY <1>4, <2>1 DEF ChildOK
  <2>3. this'.child /\ lapses' = {} => this'.slot["accept"] # 0
    BY <1>0, <1>4, <1>9, <2>1 DEF ChildOK
  <2> QED
    BY <1>3, <1>4, <2>2, <2>3 DEF ChildOK
<1>17. ASSUME NEW o \in Op, done'[o] = "pending" PROVE HasPlace(o)'
  <2>1. CASE o = n
    BY <1>0, <1>4, <2>1 DEF HasPlace
  <2>2. CASE o # n
    <3>1. HasPlace(o) /\ o # 0
      BY <1>6, <1>17, <2>2, Numbers DEF IInv
    <3>2. CASE \E x \in Slot : this.slot[x] = o
      <4>1. PICK x \in Slot \ {"listen"} : this.slot[x] = o
        BY <3>1, <3>2
      <4>2. this'.slot[x] = o
        BY <1>4, <4>1
      <4> QED
        BY <4>2 DEF HasPlace
    <3>3. CASE ~\E x \in Slot : this.slot[x] = o
      BY <1>5, <1>7, <3>1, <3>3 DEF HasPlace
    <3> QED
      BY <3>2, <3>3
  <2> QED
    BY <2>1, <2>2
<1>18. TickOK'
  <2>1. TickOK
    BY DEF IInv
  <2>2. Places("App")' = Places("App") /\ Places("Timer")' = Places("Timer")
    BY <1>7 DEF Context
  <2>3. InCall' <=> InCall
    BY <1>5 DEF InCall
  <2> QED
    BY <1>2, <1>5, <2>1, <2>2, <2>3 DEF TickOK
<1> QED
  BY <1>10, <1>11, <1>12, <1>13, <1>14, <1>15, <1>16, <1>17, <1>18 DEF IInv

\* A Listen, as far as the child: what is found.
LEMMA FreshIs ==
  ASSUME IInv, NEW i \in InitializeTcp(this), ~this.listening
  PROVE  /\ Listens(i.s) /\ ~i.s.listening /\ i.s.configured = this.configured
         /\ \A x \in Token : i.s.token[x] = this.token[x]
         /\ i.ok => i.s.tcp /\ i.s.polled = this.polled
         /\ ~i.ok => ~i.s.tcp /\ ~i.s.configured /\ \A x \in Token : i.s.token[x] = NoToken
<1>1. /\ i.s \in Fields /\ (i.ok => i.s.tcp) /\ (this.tcp => i.ok /\ i.s = this)
      /\ i.s.role = this.role /\ i.s.slot = this.slot /\ i.s.waiting = this.waiting
      /\ i.s.configured = this.configured
      /\ \A x \in Token : i.s.token[x] = this.token[x]
      /\ i.s.connected = this.connected /\ i.s.listening = this.listening
      /\ i.s.child = this.child
      /\ ~i.ok => ~i.s.tcp
      /\ i.ok => i.s.polled = this.polled
  BY InitializeIs
<1>2. ~i.ok => ~this.configured /\ \A x \in Token : this.token[x] = NoToken
  BY <1>1 DEF IInv, ChildOK, TokenOK
<1> QED
  BY <1>1, <1>2 DEF Listens

\* The release of a listener that does not listen.
LEMMA ReleasedIs ==
  ASSUME NEW s, Listens(s), ~s.listening, NEW r, r = ReleaseTcp(s)
  PROVE  /\ Listens(r) /\ ~r.tcp /\ ~r.configured /\ ~r.listening
         /\ \A x \in Token : r.token[x] = NoToken
<1>1. s \in Fields
  BY DEF Listens
<1>2. /\ r \in Fields /\ ~r.tcp /\ ~r.configured /\ ~r.polled
      /\ \A x \in Token : r.token[x] = NoToken
      /\ r.role = s.role /\ r.slot = s.slot /\ r.waiting = s.waiting
      /\ r.connected = s.connected /\ r.listening = s.listening /\ r.child = s.child
  BY <1>1, ReleaseIs
<1> QED
  BY <1>2 DEF Listens

\* What is configured, and the flag of a socket that listens.
LEMMA ConfiguredIs ==
  ASSUME NEW s, Listens(s), NEW g \in ConfigureTcp(s)
  PROVE  /\ Listens(g.s) /\ g.status \in {"error", "noMapping", "ok"}
         /\ g.s.tcp = s.tcp /\ g.s.polled = s.polled /\ g.s.token = s.token
         /\ g.s.listening = s.listening
         /\ g.status = "ok" => g.s.configured
         /\ g.status = "noMapping" => g.s = s /\ ~s.configured
<1>1. s \in Fields
  BY DEF Listens
<1>2. /\ g.status \in {"error", "noMapping", "ok"}
      /\ g.status # "error" => ~s.configured
      /\ g.s \in Fields /\ (g.status # "ok" => g.s = s) /\ (g.status = "ok" => g.s.configured)
      /\ g.s.role = s.role /\ g.s.slot = s.slot /\ g.s.waiting = s.waiting
      /\ g.s.token = s.token /\ g.s.tcp = s.tcp /\ g.s.polled = s.polled
      /\ g.s.connected = s.connected /\ g.s.listening = s.listening /\ g.s.child = s.child
  BY <1>1, ConfigureIs
<1> QED
  BY <1>2 DEF Listens

\* The flag of a listening socket changes nothing that the other facts about it are about.
LEMMA ListeningIs ==
  ASSUME NEW s, Listens(s), NEW u, u = [s EXCEPT !.listening = TRUE]
  PROVE  /\ Listens(u) /\ u.listening /\ u.tcp = s.tcp /\ u.configured = s.configured
         /\ u.polled = s.polled /\ u.token = s.token
<1>1. s \in Fields
  BY DEF Listens
<1>2. /\ u \in Fields /\ u.listening /\ u.tcp = s.tcp /\ u.configured = s.configured
      /\ u.polled = s.polled /\ u.token = s.token /\ u.role = s.role /\ u.slot = s.slot
      /\ u.waiting = s.waiting /\ u.connected = s.connected /\ u.child = s.child
  BY <1>1 DEF Fields
<1> QED
  BY <1>2 DEF Listens

\* Listen.
LEMMA CallListenKeeps ==
  ASSUME IInv, Lapsing, NEW c \in Context, CallListen(c) PROVE IInv'
<1>1. CanCall(c) /\ this.role = "listener" /\ ~this.listening
  BY DEF CallListen
<1>2. PICK i \in InitializeTcp(this) :
        IF ~i.ok THEN Return(c, i.s)
        ELSE \E g \in ConfigureTcp(i.s) :
               Return(c, IF g.status = "ok" THEN [g.s EXCEPT !.listening = TRUE] ELSE ReleaseTcp(g.s))
  BY DEF CallListen
<1>3. PICK s : s = i.s
  OBVIOUS
<1>4. /\ Listens(s) /\ ~s.listening /\ s.configured = this.configured
      /\ \A x \in Token : s.token[x] = this.token[x]
      /\ i.ok => s.tcp /\ s.polled = this.polled
      /\ ~i.ok => ~s.tcp /\ ~s.configured /\ \A x \in Token : s.token[x] = NoToken
  BY <1>1, <1>3, FreshIs
<1>5. CASE ~i.ok
  <2>1. Return(c, s)
    BY <1>2, <1>3, <1>5
  <2>2. ~s.tcp /\ ~s.configured /\ ~s.listening
    BY <1>4, <1>5
  <2>3. \A x \in Token : s.token[x] = NoToken
    BY <1>4, <1>5
  <2> QED
    BY <1>1, <1>4, <2>1, <2>2, <2>3, ListenFails
<1>6. CASE i.ok
  <2>1. PICK g \in ConfigureTcp(s) :
          Return(c, IF g.status = "ok" THEN [g.s EXCEPT !.listening = TRUE] ELSE ReleaseTcp(g.s))
    BY <1>2, <1>3, <1>6
  <2>2. PICK t : t = g.s
    OBVIOUS
  <2>3. /\ Listens(t) /\ t.tcp = s.tcp /\ t.polled = s.polled /\ t.token = s.token
        /\ t.listening = s.listening /\ (g.status = "ok" => t.configured)
    BY <1>4, <2>2, ConfiguredIs
  <2>4. CASE g.status = "ok"
    <3>1. PICK u : u = [t EXCEPT !.listening = TRUE]
      OBVIOUS
    <3>2. Return(c, u)
      BY <2>1, <2>2, <2>4, <3>1
    <3>3. /\ Listens(u) /\ u.listening /\ u.tcp = t.tcp /\ u.configured = t.configured
          /\ u.polled = t.polled /\ u.token = t.token
      BY <2>3, <3>1, ListeningIs
    <3>4. u.tcp /\ u.configured /\ u.listening
      BY <1>4, <1>6, <2>3, <2>4, <3>3
    <3>5. u.polled = this.polled /\ \A x \in Token : u.token[x] = this.token[x]
      BY <1>4, <1>6, <2>3, <3>3
    <3> QED
      BY <1>1, <3>2, <3>3, <3>4, <3>5, ListenSucceeds
  <2>5. CASE g.status # "ok"
    <3>1. PICK u : u = ReleaseTcp(t)
      OBVIOUS
    <3>2. Return(c, u)
      BY <2>1, <2>2, <2>5, <3>1
    <3>3. /\ Listens(u) /\ ~u.tcp /\ ~u.configured /\ ~u.listening
          /\ \A x \in Token : u.token[x] = NoToken
      BY <1>4, <2>3, <3>1, ReleasedIs
    <3> QED
      BY <1>1, <3>2, <3>3, ListenFails
  <2> QED
    BY <2>4, <2>5
<1> QED
  BY <1>5, <1>6

\* ListenAsync, which waits when there is no address.
LEMMA CallListenAsyncKeeps ==
  ASSUME IInv, Lapsing, NEW c \in Context, CallListenAsync(c) PROVE IInv'
<1>1. CanCall(c) /\ this.role = "listener" /\ ~this.listening /\ this.slot["listen"] = 0
  BY DEF CallListenAsync
<1>2. PICK i \in InitializeTcp(this) :
       IF ~i.ok THEN Return(c, i.s)
       ELSE \E g \in ConfigureTcp(i.s) :
              CASE g.status = "ok"    -> Return(c, [g.s EXCEPT !.listening = TRUE])
                [] g.status = "error" -> Return(c, ReleaseTcp(g.s))
                [] OTHER -> /\ Start(c, UpdatePollingRegistration(
                                     [g.s EXCEPT !.slot["listen"] = New, !.waiting = TRUE]), <<>>)
                            /\ Pend(New)
  BY DEF CallListenAsync
<1>3. PICK s : s = i.s
  OBVIOUS
<1>4. /\ Listens(s) /\ ~s.listening /\ s.configured = this.configured
      /\ \A x \in Token : s.token[x] = this.token[x]
      /\ i.ok => s.tcp /\ s.polled = this.polled
      /\ ~i.ok => ~s.tcp /\ ~s.configured /\ \A x \in Token : s.token[x] = NoToken
  BY <1>1, <1>3, FreshIs
<1>5. CASE ~i.ok
  <2>1. Return(c, s)
    BY <1>2, <1>3, <1>5
  <2>2. ~s.tcp /\ ~s.configured /\ ~s.listening
    BY <1>4, <1>5
  <2>3. \A x \in Token : s.token[x] = NoToken
    BY <1>4, <1>5
  <2> QED
    BY <1>1, <1>4, <2>1, <2>2, <2>3, ListenFails
<1>6. CASE i.ok
  <2>1. PICK g \in ConfigureTcp(s) :
          CASE g.status = "ok"    -> Return(c, [g.s EXCEPT !.listening = TRUE])
            [] g.status = "error" -> Return(c, ReleaseTcp(g.s))
            [] OTHER -> /\ Start(c, UpdatePollingRegistration(
                                 [g.s EXCEPT !.slot["listen"] = New, !.waiting = TRUE]), <<>>)
                        /\ Pend(New)
    BY <1>2, <1>3, <1>6
  <2>2. PICK t : t = g.s
    OBVIOUS
  <2>3. /\ Listens(t) /\ t.tcp = s.tcp /\ t.polled = s.polled /\ t.token = s.token
        /\ t.listening = s.listening /\ (g.status = "ok" => t.configured)
        /\ g.status \in {"error", "noMapping", "ok"}
        /\ g.status = "noMapping" => t = s /\ ~s.configured
    BY <1>4, <2>2, ConfiguredIs
  <2>4. CASE g.status = "ok"
    <3>1. PICK u : u = [t EXCEPT !.listening = TRUE]
      OBVIOUS
    <3>2. Return(c, u)
      BY <2>1, <2>2, <2>4, <3>1
    <3>3. /\ Listens(u) /\ u.listening /\ u.tcp = t.tcp /\ u.configured = t.configured
          /\ u.polled = t.polled /\ u.token = t.token
      BY <2>3, <3>1, ListeningIs
    <3>4. u.tcp /\ u.configured /\ u.listening
      BY <1>4, <1>6, <2>3, <2>4, <3>3
    <3>5. u.polled = this.polled /\ \A x \in Token : u.token[x] = this.token[x]
      BY <1>4, <1>6, <2>3, <3>3
    <3> QED
      BY <1>1, <3>2, <3>3, <3>4, <3>5, ListenSucceeds
  <2>5. CASE g.status = "error"
    <3>1. PICK u : u = ReleaseTcp(t)
      OBVIOUS
    <3>2. Return(c, u)
      BY <2>1, <2>2, <2>5, <3>1
    <3>3. /\ Listens(u) /\ ~u.tcp /\ ~u.configured /\ ~u.listening
          /\ \A x \in Token : u.token[x] = NoToken
      BY <1>4, <2>3, <3>1, ReleasedIs
    <3> QED
      BY <1>1, <3>2, <3>3, ListenFails
  <2>6. CASE g.status = "noMapping"
    <3>1. PICK n : n = New
      OBVIOUS
    <3>2. PICK v : v = [t EXCEPT !.slot["listen"] = n, !.waiting = TRUE]
      OBVIOUS
    <3>3. PICK u : u = UpdatePollingRegistration(v)
      OBVIOUS
    <3>4. Start(c, u, <<>>) /\ Pend(New)
      BY <2>1, <2>2, <2>6, <3>1, <3>2, <3>3
    <3>5. n \in Op
      BY <1>1, <3>1, <3>4, NewOp DEF Start
    <3>6. t \in Fields /\ "listen" \in Slot
      BY <2>3 DEF Listens, Slot
    <3>7. /\ v \in Fields /\ v.slot["listen"] = n /\ v.waiting
          /\ \A y \in Slot \ {"listen"} : v.slot[y] = t.slot[y]
          /\ v.role = t.role /\ v.token = t.token /\ v.tcp = t.tcp /\ v.configured = t.configured
          /\ v.connected = t.connected /\ v.listening = t.listening /\ v.child = t.child
      BY <3>2, <3>5, <3>6 DEF Fields
    <3>8. /\ u \in Fields /\ u.polled = (v.waiting \/ \E x \in Slot : v.slot[x] # 0)
          /\ u.role = v.role /\ u.slot = v.slot /\ u.waiting = v.waiting /\ u.token = v.token
          /\ u.tcp = v.tcp /\ u.configured = v.configured
          /\ u.connected = v.connected /\ u.listening = v.listening /\ u.child = v.child
      BY <3>3, <3>7, UpdateIs
    <3>9. t.tcp /\ ~t.configured /\ ~t.listening /\ ~this.configured
      BY <1>4, <1>6, <2>3, <2>6
    <3>10. u.polled
      BY <3>7, <3>8
    <3>11. t.role = this.role /\ t.slot = this.slot /\ t.connected = this.connected
           /\ t.child = this.child /\ \A y \in Token : t.token[y] = this.token[y]
      BY <1>4, <2>3 DEF Listens
    <3>12. u.role = this.role /\ u.waiting /\ u.tcp /\ ~u.configured /\ ~u.listening
           /\ u.connected = this.connected /\ u.child = this.child
      BY <3>7, <3>8, <3>9, <3>11
    <3>13. /\ u.slot["listen"] = n /\ \A y \in Slot \ {"listen"} : u.slot[y] = this.slot[y]
           /\ \A y \in Token : u.token[y] = this.token[y]
      BY <3>7, <3>8, <3>11
    <3>14. Waits(u, New)
      BY <3>1, <3>8, <3>10, <3>12, <3>13 DEF Waits
    <3> QED
      BY <1>1, <3>4, <3>9, <3>14, ListenWaits
  <2> QED
    BY <2>3, <2>4, <2>5, <2>6
<1> QED
  BY <1>5, <1>6

-----------------------------------------------------------------------------
(* The storing of an operation.                                             *)

\* Context c stores operation o in slot x, and will submit it next; ls is the empty list.
Stores(c, x, o, ls) ==
  /\ At(c, "set") /\ Step(c, ls, 1) /\ Len(ls) = 0
  /\ todo[c] # <<>> /\ todo[c][1].at = "set" /\ todo[c][1].x = x /\ todo[c][1].op = o
  /\ todo'[c] # <<>> /\ todo'[c][1] = L("go", x, o)
  /\ Fits(x) /\ UNCHANGED <<done, calls, tick>>
  /\ this.slot[x] = 0 /\ o # 0 /\ o <= calls /\ done[o] = "pending"
  /\ \A y \in Slot : this.slot[y] # o
  /\ \A d \in Context : \A i \in Places(d) : todo[d][i].at = "finish" => todo[d][i].op # o
  /\ this' \in Fields /\ this'.slot[x] = o
  /\ \A y \in Slot \ {x} : this'.slot[y] = this.slot[y]
  /\ this'.role = this.role /\ this'.waiting = this.waiting /\ this'.token = this.token
  /\ this'.polled = this.polled /\ this'.tcp = this.tcp /\ this'.configured = this.configured
  /\ this'.connected = this.connected /\ this'.listening = this.listening
  /\ this'.child = this.child

\* A SetSlot is such a step.
LEMMA SetIs ==
  ASSUME IInv, NEW c \in Context, SetSlot(c)
  PROVE  \E x \in Token, o \in Op, ls \in Seq(Label) : Stores(c, x, o, ls)
<1>1. At(c, "set") /\ this \in Fields
  BY Types DEF SetSlot
<1>2. /\ todo[c] # <<>> /\ 1 \in Places(c) /\ todo[c][1].at = "set" /\ Head(todo[c]) = todo[c][1]
      /\ LabelOK(c, 1)
  BY <1>1, IsAt
<1>3. PICK x, o : x = todo[c][1].x /\ o = todo[c][1].op
  OBVIOUS
<1>4. /\ x \in Token /\ Len(todo[c]) > 1 /\ todo[c][2] = L("go", x, o)
  BY <1>2, <1>3 DEF LabelOK
<1>5. /\ this.slot[x] = 0 /\ o \in Op /\ o <= calls /\ done[o] = "pending"
      /\ \A y \in Slot : this.slot[y] # o
      /\ \A d \in Context : \A i \in Places(d) : todo[d][i].at = "finish" => todo[d][i].op # o
  BY <1>2, <1>3 DEF IInv, SetOK
<1>6. PICK ls : ls = <<>>
  OBVIOUS
<1>7. ls \in Seq(Label) /\ Len(ls) = 0
  BY <1>6
<1>8. PICK u : u = [this EXCEPT !.slot[x] = o]
  OBVIOUS
<1>9. Proceed(c, u, ls)
  BY <1>2, <1>3, <1>6, <1>8 DEF SetSlot
<1>10. this' = u /\ todo' = [todo EXCEPT ![c] = ls \o Tail(@)] /\ UNCHANGED <<done, calls, tick>>
  BY <1>9 DEF Proceed
<1>11. Step(c, ls, 1)
  BY <1>1, <1>7, <1>10, Replaces
<1>12. x \in Slot
  BY <1>4 DEF Slot
<1>13. /\ u \in Fields /\ u.slot[x] = o /\ \A y \in Slot \ {x} : u.slot[y] = this.slot[y]
       /\ u.role = this.role /\ u.waiting = this.waiting /\ u.token = this.token
       /\ u.polled = this.polled /\ u.tcp = this.tcp /\ u.configured = this.configured
       /\ u.connected = this.connected /\ u.listening = this.listening /\ u.child = this.child
  BY <1>1, <1>5, <1>8, <1>12 DEF Fields
<1>14. Len(todo[c]) \in Nat /\ Len(todo'[c]) = Len(todo[c]) - 1 /\ todo'[c] \in Seq(Label)
  BY <1>7, <1>11, Numbers DEF Step, Shift
<1>15. todo'[c] # <<>> /\ 1 \in Places(c)'
  <2>1. Len(todo'[c]) > 0 /\ Len(todo'[c]) \in Nat
    BY <1>4, <1>14
  <2> QED
    BY <1>14, <2>1, EmptySeq DEF Places
<1>16. todo'[c][1] = todo[c][2]
  <2>1. 2 \in Places(c) /\ 2 > 1
    BY <1>4, <1>14 DEF Places
  <2>2. PICK j \in Places(c)' : todo'[c][j] = todo[c][2] /\ j = 2 + Len(ls) - 1
    BY <1>11, <2>1, OldStays
  <2>3. j = 1
    BY <1>7, <2>2
  <2> QED
    BY <2>2, <2>3
<1>17. Fits(x)
  <2>1. 2 \in Places(c)
    BY <1>4, <1>14 DEF Places
  <2>2. LabelOK(c, 2)
    BY <2>1 DEF IInv, LabelsOK
  <2>3. todo[c][2].at = "go" /\ todo[c][2].x = x
    BY <1>4 DEF L
  <2> QED
    BY <2>2, <2>3 DEF LabelOK
<1>18. o # 0
  BY <1>5, Numbers
<1>19. Stores(c, x, o, ls)
  BY <1>1, <1>2, <1>3, <1>4, <1>5, <1>7, <1>10, <1>11, <1>13, <1>15, <1>16, <1>17, <1>18 DEF Stores
<1> QED
  BY <1>4, <1>5, <1>7, <1>19

\* The completion source is stored.
LEMMA SetSlotKeeps ==
  ASSUME IInv, Lapsing, NEW c \in Context, SetSlot(c) PROVE IInv'
<1>1. PICK x \in Token, o \in Op, ls \in Seq(Label) : Stores(c, x, o, ls)
  BY SetIs
<1> USE DEF Stores
<1>2. x \in Slot /\ x # "listen" /\ "accept" \in Slot /\ "listen" \in Slot /\ "connect" \in Slot
      /\ \A y \in Token : y \in Slot
  BY DEF Slot, Token
<1>3. /\ lapses \subseteq lapses' /\ (lapses' = {} => lapses = {})
      /\ lapses' \subseteq {"released", "closeFailed", "overtaken", "acceptEnded", "listensTwice"}
  BY LapsesGrow
<1>4. todo' \in [Context -> Seq(Label)] /\ \A d \in Context \ {c} : todo'[d] = todo[d]
  BY <1>1 DEF Step, Shift
<1>5. OnCpu(c)
  BY <1>1 DEF Step
<1>6. ASSUME NEW d \in Context \ {c} PROVE todo[d] = <<>> \/ todo[d][1].at \notin Begins
  <2>1. todo[c][1].at \in Begins
    BY <1>1 DEF Begins
  <2>2. todo[d] = <<>> \/ todo[d][1].at = "user"
    BY <1>1, <1>5, <2>1, Alone
  <2> QED
    BY <2>2 DEF Begins
<1>7. ASSUME NEW d \in Context, NEW i \in Places(d)'
      PROVE  \/ d = c /\ i + 1 \in Places(c) /\ i + 1 > 1 /\ i \in Int /\ todo'[d][i] = todo[c][i + 1]
             \/ d # c /\ i \in Places(d) /\ todo'[d] = todo[d]
  <2>1. i \in Int
    BY DEF Places
  <2>2. ~\E j \in 1 .. Len(ls) : TRUE
    BY <1>1
  <2>3. i - Len(ls) + 1 = i + 1
    BY <1>1, <2>1
  <2> QED
    BY <1>1, <2>1, <2>2, <2>3, NewOrOld
<1>8. L("go", x, o).at = "go" /\ L("go", x, o).x = x /\ L("go", x, o).op = o
  BY DEF L
<1>9. Finishing => Finishing'
  BY <1>1, FinishingStays
<1>10. TypeOK'
  <2>1. calls' \in 0 .. MaxCalls /\ tick' \in BOOLEAN /\ done' \in [Op -> {"none", "pending", "done"}]
    BY <1>1, Types
  <2>2. this'.role # "listener" => this'.slot["listen"] = 0 /\ this'.slot["accept"] = 0
    BY <1>1, <1>2, Types DEF Fits
  <2>3. this'.role = "listener" => \A y \in {"connect", "receive", "transmit"} : this'.slot[y] = 0
    <3>1. ASSUME this.role = "listener", NEW y \in {"connect", "receive", "transmit"}
          PROVE  this'.slot[y] = 0
      <4>1. y # x /\ y \in Slot /\ this.slot[y] = 0
        BY <1>1, <1>2, <3>1, Types DEF Fits, Token
      <4> QED
        BY <1>1, <4>1
    <3> QED
      BY <1>1, <3>1
  <2> QED
    BY <1>1, <1>3, <1>4, <2>1, <2>2, <2>3, Together
<1>11. LabelsOK'
  <2> SUFFICES ASSUME NEW d \in Context, NEW i \in Places(d)' PROVE LabelOK(d, i)'
    BY DEF LabelsOK
  <2>1. PICK j \in Places(d) : /\ todo'[d][i] = todo[d][j] /\ j = IF d = c THEN i + 1 ELSE i
                               /\ d = c => j > 1 /\ i \in Int
                               /\ d # c => todo'[d] = todo[d]
    BY <1>7
  <2>2. PICK l : l = todo[d][j]
    OBVIOUS
  <2>3. LabelOK(d, j)
    BY DEF IInv, LabelsOK
  <2>4. \A y : Fits(y)' <=> Fits(y)
    BY <1>1 DEF Fits
  <2>5. Places(d)' = Places(d) \/ d = c
    BY <1>4 DEF Places
  <2>6. ASSUME l.at = "finish"
        PROVE  /\ l.x \in {"close", "accept"} /\ l.op \in 0 .. calls' /\ (l.x = "accept" => l.op = 0)
               /\ l.op # 0 => \A y \in Slot : this'.slot[y] # l.op
               /\ \E m \in Places(d)' : m > i /\ todo'[d][m].at = "update"
    <3>1. /\ l.x \in {"close", "accept"} /\ l.op \in 0 .. calls /\ (l.x = "accept" => l.op = 0)
          /\ l.op # 0 => \A y \in Slot : this.slot[y] # l.op
          /\ \E m \in Places(d) : m > j /\ todo[d][m].at = "update"
      BY <2>2, <2>3, <2>6 DEF LabelOK
    <3>2. l.op # o
      BY <1>1, <2>2, <2>6
    <3>3. l.op # 0 => \A y \in Slot : this'.slot[y] # l.op
      BY <1>1, <3>1, <3>2
    <3>4. CASE d = c
      <4>1. \E m \in Places(c)' : m > j + Len(ls) - 1 /\ todo'[c][m].at = "update"
        BY <1>1, <2>1, <3>1, <3>4, LaterStays
      <4>2. j + Len(ls) - 1 = i
        BY <1>1, <2>1, <3>4
      <4> QED
        BY <1>1, <3>1, <3>3, <3>4, <4>1, <4>2
    <3>5. CASE d # c
      BY <1>1, <2>1, <2>5, <3>1, <3>3, <3>5
    <3> QED
      BY <3>4, <3>5
  <2>7. l.at \in {"set", "submitConnect", "pollAddress"} => d # c
    BY <2>1, <2>2, <2>3 DEF LabelOK
  <2>8. CASE l.at = "finish"
    BY <2>1, <2>2, <2>6, <2>8 DEF LabelOK
  <2>9. CASE l.at = "go" /\ d = c
    <3>1. j = 2 /\ i = 1
      BY <2>1, <2>2, <2>3, <2>9 DEF LabelOK
    <3> QED
      BY <2>1, <2>2, <2>3, <2>4, <2>9, <3>1 DEF LabelOK
  <2>10. CASE l.at # "finish" /\ d # c
    BY <1>1, <2>1, <2>2, <2>3, <2>4, <2>5, <2>10 DEF LabelOK
  <2>11. CASE l.at \notin {"finish", "go"} /\ d = c
    BY <2>1, <2>2, <2>3, <2>7, <2>11 DEF LabelOK
  <2> QED
    BY <2>8, <2>9, <2>10, <2>11
<1>12. ASSUME NEW d \in Context PROVE SetOK(d)' /\ BeginOK(d)'
  <2>1. CASE d = c
    <3>1. SetOK(c)'
      BY <1>1, <1>8 DEF SetOK
    <3>2. /\ "released" \notin lapses /\ x # "connect" => this.tcp
          /\ lapses = {} => /\ this.token[x] = NoToken /\ (x = "connect" => ~this.waiting)
                            /\ x = "accept" => ~this.child
      <4>1. BeginOK(c) /\ todo[c][1].at \in Begins
        BY <1>1 DEF IInv, Begins
      <4> QED
        BY <1>1, <4>1 DEF BeginOK
    <3>3. BeginOK(c)'
      BY <1>1, <1>3, <1>8, <3>2 DEF BeginOK
    <3> QED
      BY <2>1, <3>1, <3>3
  <2>2. CASE d # c
    <3>1. todo'[d] = <<>> \/ todo'[d][1].at \notin Begins
      BY <1>4, <1>6, <2>2
    <3> QED
      BY <3>1 DEF SetOK, BeginOK, Begins
  <2> QED
    BY <2>1, <2>2
<1>13. ASSUME NEW y \in Token PROVE TokenOK(y)' /\ ServedOK(y)'
  <2>1. TokenOK(y) /\ ServedOK(y)
    BY DEF IInv
  <2>2. CASE y = x
    <3>1. TokenOK(y)'
      BY <1>1, <1>3, <2>1, <2>2 DEF TokenOK
    <3>2. Going(y)'
      BY <1>1, <2>2 DEF Going
    <3> QED
      BY <3>1, <3>2 DEF ServedOK, ServedNow
  <2>3. CASE y # x
    <3>1. this'.slot[y] = this.slot[y]
      BY <1>1, <1>2, <2>3
    <3>2. TokenOK(y)'
      BY <1>1, <1>3, <2>1, <3>1 DEF TokenOK
    <3>3. ~Going(y)
      <4>1. ASSUME NEW d \in Context, todo[d] # <<>>
            PROVE todo[d][1].at \notin {"go", "submitConnect"}
        BY <1>1, <1>6, <4>1 DEF Begins
      <4>2. L("go", y, this.slot[y]).at = "go"
        BY DEF L
      <4> QED
        BY <4>1, <4>2 DEF Going
    <3>4. ServedOK(y)'
      BY <1>1, <1>3, <1>9, <2>1, <3>1, <3>3 DEF ServedOK, ServedNow
    <3> QED
      BY <3>2, <3>4
  <2> QED
    BY <2>2, <2>3
<1>14. ASSUME NEW y \in Slot PROVE StoredOK(y)'
  <2>1. CASE y = x
    <3>1. "released" \notin lapses' /\ x # "connect" => this.tcp
      <4>1. BeginOK(c) /\ todo[c][1].at \in Begins
        BY <1>1 DEF IInv, Begins
      <4> QED
        BY <1>1, <1>3, <4>1 DEF BeginOK
    <3>2. \A z \in Slot : this'.slot[z] = o => x = z
      BY <1>1
    <3> QED
      BY <1>1, <2>1, <3>1, <3>2 DEF StoredOK
  <2>2. CASE y # x
    <3>1. this'.slot[y] = this.slot[y] /\ this.slot[y] # o
      BY <1>1, <2>2
    <3>2. ASSUME this.slot[y] # 0
          PROVE  /\ this.slot[y] <= calls /\ done[this.slot[y]] = "pending"
                 /\ \A z \in Slot : this.slot[z] = this.slot[y] => y = z
                 /\ "released" \notin lapses /\ ~this.tcp /\ y # "connect" => y = "accept" /\ Finishing
      BY <3>2 DEF IInv, StoredOK
    <3>3. ASSUME this.slot[y] # 0 PROVE \A z \in Slot : this'.slot[z] = this.slot[y] => y = z
      BY <1>1, <3>1, <3>2, <3>3
    <3> QED
      BY <1>1, <1>3, <1>9, <3>1, <3>2, <3>3 DEF StoredOK
  <2> QED
    BY <2>1, <2>2
<1>15. PolledOK'
  <2>1. Witness(c)'
    BY <1>1, <1>8 DEF Witness
  <2> QED
    BY <2>1 DEF PolledOK
<1>16. ChildOK'
  <2>1. ChildOK /\ this'.slot["listen"] = this.slot["listen"]
    BY <1>1, <1>2 DEF IInv
  <2>2. this'.child /\ lapses' = {} => this'.slot["accept"] # 0
    BY <1>1, <1>2, <1>3, <2>1 DEF ChildOK
  <2>3. this.slot["connect"] # 0 => this'.slot["connect"] # 0
    BY <1>1, <1>2
  <2>4. /\ this'.configured => this'.tcp
        /\ this'.connected => this'.tcp /\ this'.configured /\ this'.role # "listener"
        /\ this'.listening =>
             /\ this'.role = "listener"
             /\ (this'.tcp /\ this'.configured /\ this'.slot["listen"] = 0) \/ "listensTwice" \in lapses'
    BY <1>1, <1>3, <2>1 DEF ChildOK
  <2>5. /\ this'.role = "listener" => (this'.waiting <=> this'.slot["listen"] # 0)
        /\ this'.waiting /\ lapses' = {} => /\ this'.tcp /\ ~this'.configured
                                            /\ this'.slot["connect"] # 0 \/ this'.slot["listen"] # 0
    BY <1>1, <1>3, <2>1, <2>3 DEF ChildOK
  <2> QED
    BY <2>2, <2>4, <2>5 DEF ChildOK
<1>17. ASSUME NEW p \in Op, done'[p] = "pending" PROVE HasPlace(p)'
  <2>1. CASE p = o
    BY <1>1, <1>2, <2>1 DEF HasPlace
  <2>2. CASE p # o
    <3>1. HasPlace(p) /\ p # 0
      BY <1>1, <1>17, Numbers DEF IInv
    <3>2. CASE \E y \in Slot : this.slot[y] = p
      <4>1. PICK y \in Slot : this.slot[y] = p
        BY <3>2
      <4>2. y # x /\ this'.slot[y] = p
        BY <1>1, <3>1, <4>1
      <4> QED
        BY <4>2 DEF HasPlace
    <3>3. CASE ~\E y \in Slot : this.slot[y] = p
      <4>0. PICK d \in Context :
              \E i \in Places(d) : todo[d][i].at \in {"set", "finish"} /\ todo[d][i].op = p
        BY <3>1, <3>3 DEF HasPlace
      <4>1. PICK i \in Places(d) : todo[d][i].at \in {"set", "finish"} /\ todo[d][i].op = p
        BY <4>0
      <4>2. d # c \/ i > 1
        <5>1. i \in Nat /\ i >= 1
          BY DEF Places
        <5>2. ~(d = c /\ i = 1)
          BY <1>1, <2>2, <4>1
        <5> QED
          BY <5>1, <5>2
      <4>3. PICK j \in Places(d)' : todo'[d][j] = todo[d][i]
        BY <1>1, <4>2, OldStays
      <4> QED
        BY <4>1, <4>3 DEF HasPlace
    <3> QED
      BY <3>2, <3>3
  <2> QED
    BY <2>1, <2>2
<1>18. TickOK'
  <2>1. \A i \in 1 .. Len(ls) : ls[i].at \notin Begins
    BY <1>1
  <2> QED
    BY <1>1, <2>1, TickStays
<1> QED
  BY <1>10, <1>11, <1>12, <1>13, <1>14, <1>15, <1>16, <1>17, <1>18 DEF IInv

-----------------------------------------------------------------------------
(* The firmware, and the timer.                                             *)

\* Signaled tokens: those that were queued, and an accepted connection.
LEMMA SignalIs ==
  ASSUME IInv, NEW x \in Token, Signal(x)
  PROVE  /\ UNCHANGED <<todo, done, calls, tick>> /\ this' \in Fields
         /\ this'.role = this.role /\ this'.slot = this.slot /\ this'.waiting = this.waiting
         /\ this'.polled = this.polled /\ this'.tcp = this.tcp /\ this'.configured = this.configured
         /\ this'.connected = this.connected /\ this'.listening = this.listening
         /\ this'.child => this.child \/ this.token["accept"].queued
         /\ \A y \in Token : \/ this'.token[y] = this.token[y]
                             \/ /\ this.token[y].queued /\ ~this'.token[y].queued
                                /\ this'.token[y].signaled
         /\ this.token[x].queued
<1>1. this \in Fields /\ this.token[x].queued
  BY Types DEF Signal
<1>2. PICK ended : ended = IF x = "close" THEN Token ELSE {x}
  OBVIOUS
<1>3. PICK child \in IF x = "accept" THEN BOOLEAN ELSE {FALSE} :
        Outside([this EXCEPT
          !.token = [y \in Token |-> IF y \in ended /\ @[y].queued
                                       THEN [queued |-> FALSE, signaled |-> TRUE] ELSE @[y]],
          !.child = @ \/ child])
  BY <1>2 DEF Signal
<1>4. PICK ts : ts = [y \in Token |-> IF y \in ended /\ this.token[y].queued
                                        THEN [queued |-> FALSE, signaled |-> TRUE] ELSE this.token[y]]
  OBVIOUS
<1>5. PICK u : u = [this EXCEPT !.token = ts, !.child = this.child \/ child]
  OBVIOUS
<1>6. Outside(u)
  BY <1>3, <1>4, <1>5
<1>7. this' = u /\ UNCHANGED <<todo, done, calls, tick>>
  BY <1>6 DEF Outside
<1>8. ts \in [Token -> [queued : BOOLEAN, signaled : BOOLEAN]]
  BY <1>1, <1>4 DEF Fields
<1>9. child \in BOOLEAN /\ (child => x = "accept")
  BY <1>3
<1>10. /\ u \in Fields /\ u.role = this.role /\ u.slot = this.slot /\ u.waiting = this.waiting
       /\ u.polled = this.polled /\ u.tcp = this.tcp /\ u.configured = this.configured
       /\ u.connected = this.connected /\ u.listening = this.listening
       /\ u.child = (this.child \/ child) /\ u.token = ts
  BY <1>1, <1>5, <1>8, <1>9 DEF Fields
<1>11. u.child => this.child \/ this.token["accept"].queued
  BY <1>1, <1>9, <1>10
<1>12. ASSUME NEW y \in Token
       PROVE  \/ ts[y] = this.token[y]
              \/ this.token[y].queued /\ ~ts[y].queued /\ ts[y].signaled
  BY <1>4
<1> QED
  BY <1>1, <1>7, <1>10, <1>11, <1>12

\* The firmware is done with a token.
LEMMA SignalKeeps ==
  ASSUME IInv, Lapsing, NEW x \in Token, Signal(x) PROVE IInv'
<1>0. "accept" \in Token /\ "accept" \in Slot
  BY DEF Slot, Token
<1>1. /\ UNCHANGED <<todo, done, calls, tick>> /\ this' \in Fields
      /\ this'.role = this.role /\ this'.slot = this.slot /\ this'.waiting = this.waiting
      /\ this'.polled = this.polled /\ this'.tcp = this.tcp /\ this'.configured = this.configured
      /\ this'.connected = this.connected /\ this'.listening = this.listening
      /\ this'.child => this.child \/ this.token["accept"].queued
      /\ \A y \in Token : \/ this'.token[y] = this.token[y]
                          \/ /\ this.token[y].queued /\ ~this'.token[y].queued
                             /\ this'.token[y].signaled
      /\ this.token[x].queued
  BY SignalIs
<1>2. /\ lapses \subseteq lapses' /\ (lapses' = {} => lapses = {})
      /\ lapses' \subseteq {"released", "closeFailed", "overtaken", "acceptEnded", "listensTwice"}
  BY LapsesGrow
<1>3. \A d \in Context : Places(d)' = Places(d)
  BY <1>1 DEF Places
<1>4. TypeOK'
  <2>1. todo' \in [Context -> Seq(Label)] /\ done' \in [Op -> {"none", "pending", "done"}]
        /\ calls' \in 0 .. MaxCalls /\ tick' \in BOOLEAN
    BY <1>1, Types
  <2>2. this'.role # "listener" => this'.slot["listen"] = 0 /\ this'.slot["accept"] = 0
    BY <1>1, Types
  <2>3. this'.role = "listener" => \A y \in {"connect", "receive", "transmit"} : this'.slot[y] = 0
    BY <1>1, Types
  <2> QED
    BY <1>1, <1>2, <2>1, <2>2, <2>3, Together
<1>5. LabelsOK'
  <2> SUFFICES ASSUME NEW d \in Context, NEW i \in Places(d) PROVE LabelOK(d, i)'
    BY <1>3 DEF LabelsOK
  <2>1. LabelOK(d, i)
    BY DEF IInv, LabelsOK
  <2>2. \A y : Fits(y)' <=> Fits(y)
    BY <1>1 DEF Fits
  <2> QED
    BY <1>1, <1>3, <2>1, <2>2 DEF LabelOK
<1>6. ASSUME NEW y \in Token, this.token[y] = NoToken PROVE this'.token[y] = NoToken
  BY <1>1, <1>6 DEF NoToken
<1>7. ASSUME NEW d \in Context PROVE SetOK(d)' /\ BeginOK(d)'
  <2>1. SetOK(d)'
    BY <1>1, <1>3 DEF IInv, SetOK
  <2>2. BeginOK(d)'
    <3> SUFFICES ASSUME todo[d] # <<>>, todo[d][1].at \in Begins PROVE BeginOK(d)'
      BY <1>1 DEF BeginOK
    <3>1. PICK l : l = todo[d][1]
      OBVIOUS
    <3>2. l.x \in Token
      <4>1. 1 \in Places(d)
        BY Types, EmptySeq DEF Places
      <4>2. LabelOK(d, 1)
        BY <4>1 DEF IInv, LabelsOK
      <4> QED
        BY <3>1, <4>2 DEF LabelOK, Begins, Token
    <3>3. /\ "released" \notin lapses /\ (l.x # "connect" \/ l.at = "submitConnect") => this.tcp
          /\ lapses = {} =>
               /\ this.token[l.x] = NoToken
               /\ l.x = "connect" => ~this.waiting
               /\ l.x = "accept" => ~this.child
               /\ l.at = "submitConnect" => this.configured
      BY <3>1 DEF IInv, BeginOK
    <3>4. lapses' = {} /\ l.x = "accept" => ~this'.child
      BY <1>1, <1>2, <3>3 DEF NoToken
    <3>5. lapses' = {} => this'.token[l.x] = NoToken
      BY <1>2, <1>6, <3>2, <3>3
    <3> QED
      BY <1>1, <1>2, <3>1, <3>3, <3>4, <3>5 DEF BeginOK
  <2> QED
    BY <2>1, <2>2
<1>8. Finishing' <=> Finishing
  BY <1>1, <1>3 DEF Finishing
<1>9. ASSUME NEW y \in Token PROVE TokenOK(y)' /\ ServedOK(y)'
  <2>1. TokenOK(y) /\ ServedOK(y)
    BY DEF IInv
  <2>2. TokenOK(y)'
    <3>1. ~this'.configured => this'.token[y] = NoToken
      BY <1>1, <1>6, <2>1 DEF TokenOK
    <3>2. lapses' = {} =>
            /\ ~(this'.token[y].queued /\ this'.token[y].signaled)
            /\ this'.token[y].queued \/ this'.token[y].signaled => this'.slot[y] # 0
      BY <1>1, <1>2, <2>1 DEF TokenOK
    <3> QED
      BY <3>1, <3>2 DEF TokenOK
  <2>3. Going(y)' <=> Going(y)
    BY <1>1 DEF Going
  <2>4. ServedOK(y)'
    BY <1>1, <1>2, <1>8, <2>1, <2>3 DEF ServedOK, ServedNow
  <2> QED
    BY <2>2, <2>4
<1>10. ASSUME NEW y \in Slot PROVE StoredOK(y)'
  BY <1>1, <1>2, <1>8 DEF IInv, StoredOK
<1>11. PolledOK'
  <2>1. Updating' <=> Updating
    BY <1>1, <1>3 DEF Updating
  <2>2. \A d \in Context : Witness(d)' <=> Witness(d)
    BY <1>1 DEF Witness
  <2> QED
    BY <1>1, <1>2, <2>1, <2>2 DEF IInv, PolledOK
<1>12. ChildOK'
  <2>1. ChildOK /\ TokenOK("accept")
    BY <1>0 DEF IInv
  <2>2. this'.child /\ lapses' = {} => this'.slot["accept"] # 0
    BY <1>1, <1>2, <2>1 DEF ChildOK, TokenOK
  <2> QED
    BY <1>1, <1>2, <2>1, <2>2 DEF ChildOK
<1>13. ASSUME NEW p \in Op, done'[p] = "pending" PROVE HasPlace(p)'
  <2>1. HasPlace(p)
    BY <1>1, <1>13 DEF IInv
  <2> QED
    BY <1>1, <1>3, <2>1 DEF HasPlace
<1>14. TickOK'
  <2>1. TickOK
    BY DEF IInv
  <2>2. Places("App")' = Places("App") /\ Places("Timer")' = Places("Timer")
    BY <1>3 DEF Context
  <2>3. InCall' <=> InCall
    BY <1>1 DEF InCall
  <2> QED
    BY <1>1, <2>1, <2>2, <2>3 DEF TickOK
<1> QED
  BY <1>4, <1>5, <1>7, <1>9, <1>10, <1>11, <1>12, <1>13, <1>14 DEF IInv

\* A step that only begins or ends a tick.
LEMMA SameKeeps ==
  ASSUME IInv, UNCHANGED <<this, todo, done, calls>>, tick' \in BOOLEAN, TickOK',
         lapses \subseteq lapses',
         lapses' \subseteq {"released", "closeFailed", "overtaken", "acceptEnded", "listensTwice"}
  PROVE  IInv'
<1>1. lapses' = {} => lapses = {}
  OBVIOUS
<1>2. \A d \in Context : Places(d)' = Places(d)
  BY DEF Places
<1>3. TypeOK'
  <2>1. this' \in Fields /\ todo' \in [Context -> Seq(Label)] /\ calls' \in 0 .. MaxCalls
        /\ done' \in [Op -> {"none", "pending", "done"}]
    BY Types
  <2>2. this'.role # "listener" => this'.slot["listen"] = 0 /\ this'.slot["accept"] = 0
    BY Types
  <2>3. this'.role = "listener" => \A y \in {"connect", "receive", "transmit"} : this'.slot[y] = 0
    BY Types
  <2> QED
    BY <2>1, <2>2, <2>3, Together
<1>4. LabelsOK'
  BY <1>2 DEF IInv, LabelsOK, LabelOK, Fits
<1>5. ASSUME NEW d \in Context PROVE SetOK(d)' /\ BeginOK(d)'
  <2>1. SetOK(d)'
    BY <1>2 DEF IInv, SetOK
  <2>2. BeginOK(d)'
    BY <1>1 DEF IInv, BeginOK
  <2> QED
    BY <2>1, <2>2
<1>6. Finishing' <=> Finishing
  BY <1>2 DEF Finishing
<1>7. ASSUME NEW y \in Token PROVE TokenOK(y)' /\ ServedOK(y)'
  <2>1. TokenOK(y)'
    BY <1>1 DEF IInv, TokenOK
  <2>2. Going(y)' <=> Going(y)
    BY DEF Going
  <2>3. ServedOK(y)'
    BY <1>1, <1>6, <2>2 DEF IInv, ServedOK, ServedNow
  <2> QED
    BY <2>1, <2>3
<1>8. ASSUME NEW y \in Slot PROVE StoredOK(y)'
  BY <1>6 DEF IInv, StoredOK
<1>9. PolledOK'
  <2>1. Updating' <=> Updating
    BY <1>2 DEF Updating
  <2>2. \A d \in Context : Witness(d)' <=> Witness(d)
    BY DEF Witness
  <2> QED
    BY <2>1, <2>2 DEF IInv, PolledOK
<1>10. ChildOK'
  BY <1>1 DEF IInv, ChildOK
<1>11. ASSUME NEW p \in Op, done'[p] = "pending" PROVE HasPlace(p)'
  <2>1. HasPlace(p)
    BY <1>11 DEF IInv
  <2> QED
    BY <1>2, <2>1 DEF HasPlace
<1> QED
  BY <1>3, <1>4, <1>5, <1>7, <1>8, <1>9, <1>10, <1>11 DEF IInv

\* The tick begins where no pass is, and ends when its own is over.
LEMMA TimerTickKeeps == ASSUME IInv, Lapsing, TimerTick PROVE IInv'
<1>1. /\ UNCHANGED <<this, todo, done, calls>> /\ tick' = TRUE /\ ~tick /\ ~InPass
  BY DEF TimerTick
<1>2. "App" \in Context /\ "Timer" \in Context
  BY DEF Context
<1>3. \A i \in Places("App")' : todo'["App"][i].at # "passEnd"
  <2>1. todo["App"] \in Seq(Label)
    BY <1>2, Types
  <2>2. Places("App")' = DOMAIN todo["App"]
    BY <1>1, <2>1, LenProperties DEF Places
  <2> QED
    BY <1>1, <2>2 DEF InPass
<1>4. \A i \in Places("Timer")' : FALSE
  <2>1. todo["Timer"] = <<>>
    BY <1>1 DEF IInv, TickOK
  <2> QED
    BY <1>1, <2>1 DEF Places
<1>5. TickOK'
  BY <1>1, <1>3, <1>4 DEF TickOK
<1> QED
  BY <1>1, <1>5, LapsesGrow, SameKeeps

\* The end of a tick keeps the invariant.
LEMMA TickEndsKeeps == ASSUME IInv, Lapsing, TickEnds PROVE IInv'
<1>1. UNCHANGED <<this, todo, done, calls>> /\ tick' = FALSE /\ todo["Timer"] = <<>>
  BY DEF TickEnds
<1>2. TickOK'
  BY <1>1 DEF TickOK
<1> QED
  BY <1>1, <1>2, LapsesGrow, SameKeeps

\* A step that changes nothing keeps the invariant.
LEMMA StutterKeeps == ASSUME IInv, UNCHANGED vars PROVE IInv'
<1>1. UNCHANGED <<this, todo, done, calls, tick, lapses>>
  BY DEF vars, codeVars
<1>2. TickOK'
  BY <1>1 DEF IInv, TickOK, InCall, Places
<1> QED
  BY <1>1, <1>2, Types, SameKeeps

-----------------------------------------------------------------------------
(* The invariant, and what it means.                                        *)

\* A socket that is new, or that comes from an accept, satisfies the invariant.
LEMMA InitOK == Init => IInv
<1> SUFFICES ASSUME Init PROVE IInv
  OBVIOUS
<1>1. PICK role \in Role : this = Fresh(role)
  BY DEF Init
<1>2. /\ lapses = {} /\ todo = [c \in Context |-> <<>>] /\ done = [o \in Op |-> "none"]
      /\ calls = 0 /\ tick = FALSE
  BY DEF Init, HandlersInit
<1>3. MaxCalls \in Nat /\ 0 \in 0 .. MaxCalls
  BY CallAssumption
<1>4. NoToken \in [queued : BOOLEAN, signaled : BOOLEAN]
  BY DEF NoToken
<1>5. /\ this \in Fields /\ this.role = role /\ this.tcp = (role = "accepted")
      /\ this.connected = (role = "accepted") /\ this.configured = (role = "accepted")
      /\ ~this.listening /\ ~this.waiting /\ ~this.polled /\ ~this.child
      /\ \A x \in Slot : this.slot[x] = 0
      /\ \A x \in Token : this.token[x] = NoToken
  BY <1>1, <1>4 DEF Fresh, Fields
<1>6. \A c \in Context : todo[c] = <<>> /\ Places(c) = {}
  BY <1>2 DEF Places
<1>7. TypeOK
  <2>1. todo \in [Context -> Seq([at : {"set", "go", "submitConnect", "finish", "update",
                                        "pollAddress", "pollToken", "timeout"} \cup {"user", "passEnd"},
                                  x : Slot \cup {"none"}, op : Nat])]
    BY <1>2
  <2>2. HandlersTypeOK({"set", "go", "submitConnect", "finish", "update", "pollAddress",
                        "pollToken", "timeout"}, Slot)
    BY <1>2, <1>3, <2>1 DEF HandlersTypeOK
  <2>3. /\ this.slot["listen"] = 0 /\ this.slot["accept"] = 0
        /\ \A x \in {"connect", "receive", "transmit"} : this.slot[x] = 0
    BY <1>5 DEF Slot, Token
  <2> QED
    BY <1>2, <1>5, <2>2, <2>3 DEF TypeOK, Fields
<1>8. LabelsOK
  BY <1>6 DEF LabelsOK
<1>9. \A c \in Context : SetOK(c) /\ BeginOK(c)
  BY <1>6 DEF SetOK, BeginOK
<1>10. \A x \in Token : TokenOK(x) /\ ServedOK(x)
  BY <1>5 DEF TokenOK, ServedOK, NoToken, Slot
<1>11. \A x \in Slot : StoredOK(x)
  BY <1>5 DEF StoredOK
<1>12. PolledOK
  BY <1>5 DEF PolledOK
<1>13. ChildOK
  BY <1>5 DEF ChildOK, Slot, Token
<1>14. \A o \in Op : done[o] # "pending"
  BY <1>2
<1>15. TickOK
  BY <1>2, <1>6 DEF TickOK, Context
<1> QED
  BY <1>7, <1>8, <1>9, <1>10, <1>11, <1>12, <1>13, <1>14, <1>15 DEF IInv

\* Every step keeps the invariant.
LEMMA NextKeeps == IInv /\ [Next]_vars => IInv'
<1> SUFFICES ASSUME IInv, [Next]_vars PROVE IInv'
  OBVIOUS
<1>1. CASE UNCHANGED vars
  BY <1>1, StutterKeeps
<1>2. CASE Next
  <2>0. Lapsing
    BY <1>2 DEF Next, Lapsing
  <2>1. CASE \E c \in Context : Statement(c) \/ Call(c) \/ Poll(c) \/ \E o \in this.delays : Elapse(c, o)
    <3>1. PICK c \in Context : Statement(c) \/ Call(c) \/ Poll(c) \/ \E o \in this.delays : Elapse(c, o)
      BY <2>1
    <3>2. CASE Statement(c)
      <4>1. CASE SetSlot(c)
        BY <2>0, <4>1, SetSlotKeeps
      <4>2. CASE GoConnect(c)
        BY <2>0, <4>2, GoConnectKeeps
      <4>3. CASE GoSubmitConnect(c)
        BY <2>0, <4>3, GoSubmitConnectKeeps
      <4>4. CASE GoIo(c)
        BY <2>0, <4>4, GoIoKeeps
      <4>5. CASE GoAccept(c)
        BY <2>0, <4>5, GoAcceptKeeps
      <4>6. CASE GoClose(c)
        BY <2>0, <4>6, GoCloseKeeps
      <4>7. CASE Finish(c)
        BY <2>0, <4>7, FinishKeeps
      <4>8. CASE Update(c)
        BY <2>0, <4>8, UpdateKeeps
      <4>9. CASE PollAddress(c)
        BY <2>0, <4>9, PollAddressKeeps
      <4>10. CASE PollToken(c)
        BY <2>0, <4>10, PollTokenKeeps
      <4>11. CASE ConnectTimedOut(c)
        BY <2>0, <4>11, ConnectTimedOutKeeps
      <4>12. CASE PassEnds(c)
        BY <2>0, <4>12, PassEndsKeeps
      <4>13. CASE UserReturns(c)
        BY <2>0, <4>13, UserReturnsKeeps
      <4> QED
        BY <3>2, <4>1, <4>2, <4>3, <4>4, <4>5, <4>6, <4>7, <4>8, <4>9, <4>10, <4>11, <4>12, <4>13
           DEF Statement
    <3>3. CASE Call(c)
      <4>1. CASE CallConnect(c)
        BY <2>0, <4>1, CallConnectKeeps
      <4>2. CASE CallAccept(c)
        BY <2>0, <4>2, CallAcceptKeeps
      <4>3. CASE CallClose(c)
        BY <2>0, <4>3, CallCloseKeeps
      <4>4. CASE CallListen(c)
        BY <2>0, <4>4, CallListenKeeps
      <4>5. CASE CallListenAsync(c)
        BY <2>0, <4>5, CallListenAsyncKeeps
      <4>6. CASE \E x \in {"receive", "transmit"} : CallIo(c, x)
        BY <2>0, <4>6, CallIoKeeps
      <4> QED
        BY <3>3, <4>1, <4>2, <4>3, <4>4, <4>5, <4>6 DEF Call
    <3>4. CASE Poll(c)
      BY <2>0, <3>4, PollKeeps
    <3>5. CASE \E o \in this.delays : Elapse(c, o)
      BY <2>0, <3>5, ElapseKeeps
    <3> QED
      BY <3>1, <3>2, <3>3, <3>4, <3>5
  <2>2. CASE \E x \in Token : Signal(x)
    BY <2>0, <2>2, SignalKeeps
  <2>3. CASE TimerTick
    BY <2>0, <2>3, TimerTickKeeps
  <2>4. CASE TickEnds
    BY <2>0, <2>4, TickEndsKeeps
  <2> QED
    BY <1>2, <2>1, <2>2, <2>3, <2>4 DEF Next
<1> QED
  BY <1>1, <1>2

\* The invariant holds in every state.
LEMMA Invariance == Spec => []IInv
BY InitOK, NextKeeps, PTL DEF Spec

\* The labels of the contexts, one by one.
LEMMA LabelsThere ==
  ASSUME IInv
  PROVE  \A d \in Context : \A i \in Places(d) : todo[d][i] \in Labels
<1> SUFFICES ASSUME NEW d \in Context, NEW i \in Places(d) PROVE todo[d][i] \in Labels
  OBVIOUS
<1>1. todo[d] \in Seq(Label)
  BY Types
<1>2. i \in DOMAIN todo[d]
  BY <1>1, LenProperties DEF Places
<1>3. todo[d][i] \in ToSet(todo[d])
  BY <1>2 DEF ToSet
<1> QED
  BY <1>3 DEF Labels

\* The first label of a context, when it has one.
LEMMA FirstThere ==
  ASSUME IInv, NEW d \in Context, todo[d] # <<>>
  PROVE  todo[d][1] \in Labels
<1>1. 1 \in Places(d)
  BY Types, EmptySeq DEF Places
<1> QED
  BY <1>1, LabelsThere

\* What the inductive invariant says of the socket is what soundness asks.
LEMMA InvariantMeans == IInv => Sound
<1> SUFFICES ASSUME IInv PROVE Sound
  OBVIOUS
<1>1. TypeOK
  BY DEF IInv
<1>2. InPlace
  <2> SUFFICES ASSUME NEW o \in Op, done[o] = "pending"
               PROVE  o \in Pending(this) \/ \E l \in Labels : l.at \in {"set", "finish"} /\ l.op = o
    BY DEF InPlace
  <2>1. HasPlace(o) /\ o # 0
    BY Numbers DEF IInv
  <2> QED
    BY <2>1, LabelsThere DEF HasPlace, Pending
<1>3. WithFirmware
  <2> SUFFICES ASSUME lapses = {}, NEW x \in Token, NEW o \in Op, o \in Of(this, x)
               PROVE  \/ this.token[x].queued \/ this.token[x].signaled
                      \/ x = "connect" /\ this.waiting
                      \/ \E l \in Labels : (l.at = "go" /\ l.op = o)
                                           \/ (l.at = "submitConnect" /\ x = "connect")
                                           \/ (l.at = "finish" /\ l.x = x)
    <3>1. \A x \in Token : Of(this, x) \subseteq Op
      BY Numbers DEF Of, Slot
    <3> QED
      BY <3>1 DEF WithFirmware
  <2>1. this.slot[x] = o /\ o # 0
    BY DEF Of
  <2>2. ServedNow(x)
    BY <2>1 DEF IInv, ServedOK
  <2>3. CASE Going(x)
    <3>1. PICK d \in Context : /\ todo[d] # <<>>
                               /\ \/ todo[d][1] = L("go", x, this.slot[x])
                                  \/ x = "connect" /\ todo[d][1].at = "submitConnect"
      BY <2>3 DEF Going
    <3>2. todo[d][1] \in Labels
      BY <3>1, FirstThere
    <3>3. L("go", x, this.slot[x]).at = "go" /\ L("go", x, this.slot[x]).op = o
      BY <2>1 DEF L
    <3> QED
      BY <3>1, <3>2, <3>3
  <2>4. CASE x = "accept" /\ Finishing
    BY <2>4, LabelsThere DEF Finishing
  <2> QED
    BY <2>2, <2>3, <2>4 DEF ServedNow
<1>4. PolledWhileWaiting
  <2> SUFFICES ASSUME "released" \notin lapses, this.waiting \/ Pending(this) # {}
               PROVE  this.polled \/ \E l \in Labels : l.at \in {"go", "update", "submitConnect", "finish"}
    BY DEF PolledWhileWaiting
  <2>1. this.waiting \/ \E x \in Slot : this.slot[x] # 0
    BY DEF Pending
  <2>2. this.polled \/ Updating \/ \E c \in Context : Witness(c)
    BY <2>1 DEF IInv, PolledOK
  <2>3. CASE Updating
    BY <2>3, LabelsThere DEF Updating
  <2>4. CASE \E c \in Context : Witness(c)
    BY <2>4, FirstThere DEF Witness
  <2> QED
    BY <2>2, <2>3, <2>4
<1>5. OpenHasChild
  BY DEF IInv, ChildOK, OpenHasChild
<1>6. NoStrayToken
  BY DEF IInv, TokenOK, NoStrayToken
<1>7. AcceptedIsOwned
  BY DEF IInv, ChildOK, AcceptedIsOwned
<1> QED
  BY <1>1, <1>2, <1>3, <1>4, <1>5, <1>6, <1>7 DEF Sound

-----------------------------------------------------------------------------
(* The theorems.                                                            *)

\* The socket is sound, whatever calls are made, however the ticks and the firmware interleave.
THEOREM SocketIsSound == Spec => []Sound
BY Invariance, InvariantMeans, PTL

-----------------------------------------------------------------------------
(* Who learns of a connection.                                              *)

\* No connection is new.
Quiet == this'.connected => this.connected

\* The end of an operation other than a connect makes none.
LEMMA IoQuiet ==
  ASSUME NEW c, NEW s \in Fields, NEW x \in Slot, NEW ls, CompleteIo(c, s, x, ls)
  PROVE  this'.connected = s.connected
<1>1. PICK s0 : s0 = Taken(s, x)
  OBVIOUS
<1>2. s0 \in Fields /\ s0.connected = s.connected
  BY <1>1, TakenIs
<1>3. PICK u : u = UpdatePollingRegistration(s0)
  OBVIOUS
<1>4. u.connected = s0.connected
  BY <1>2, <1>3, UpdateIs
<1>5. this' = u
  BY <1>1, <1>3 DEF CompleteIo, Settle
<1> QED
  BY <1>2, <1>4, <1>5

\* The end of an accept does not connect the socket that accepts.
LEMMA AcceptQuiet ==
  ASSUME NEW c, NEW s \in Fields, NEW ok, NEW ls, CompleteAccept(c, s, ok, ls)
  PROVE  this'.connected = s.connected
<1>1. PICK x \in Slot : x = "accept"
  BY DEF Slot, Token
<1>2. PICK s0 : s0 = Taken(s, x)
  OBVIOUS
<1>3. s0 \in Fields /\ s0.connected = s.connected
  BY <1>2, TakenIs
<1>4. PICK u : u = [s0 EXCEPT !.child = s.child /\ ~ok]
  OBVIOUS
<1>5. u.connected = s0.connected
  BY <1>3, <1>4 DEF Fields
<1>6. this' = u \/ this' = s
  BY <1>1, <1>2, <1>4 DEF CompleteAccept, Settle, Proceed
<1> QED
  BY <1>3, <1>5, <1>6

\* The end of a listen does not connect the socket.
LEMMA ListenQuiet ==
  ASSUME NEW c, NEW s \in Fields, NEW status, NEW ls, CompleteListen(c, s, status, ls)
  PROVE  this'.connected = s.connected
<1>1. PICK x \in Slot : x = "listen"
  BY DEF Slot
<1>2. PICK s0 : s0 = Taken(s, x)
  OBVIOUS
<1>3. s0 \in Fields /\ s0.connected = s.connected
  BY <1>2, TakenIs
<1>4. PICK s1 : s1 = [s0 EXCEPT !.waiting = FALSE, !.listening = s0.listening \/ status = "ok"]
  OBVIOUS
<1>5. s1 \in Fields /\ s1.connected = s0.connected
  BY <1>3, <1>4 DEF Fields
<1>6. PICK r : r = ReleaseTcp(s1)
  OBVIOUS
<1>7. r.connected = s1.connected
  BY <1>5, <1>6, ReleaseIs
<1>8. this' = IF status = "ok" THEN s1 ELSE r
  BY <1>1, <1>2, <1>4, <1>6 DEF CompleteListen, Settle
<1> QED
  BY <1>3, <1>5, <1>7, <1>8

\* Nor does a connect that is submitted, or that cannot be.
LEMMA SubmitConnectQuiet ==
  ASSUME NEW c, NEW s \in Fields, NEW ls, SubmitConnect(c, s, ls)
  PROVE  this'.connected => s.connected
<1>1. PICK x \in Token : x = "connect"
  BY DEF Token
<1>2. PICK r \in Submit(s, x) :
        IF r.ok THEN Proceed(c, UpdatePollingRegistration(r.s), ls)
                ELSE CompleteConnect(c, s, "error", ls)
  BY <1>1 DEF SubmitConnect
<1>3. CASE r.ok
  <2>1. PICK u : u = UpdatePollingRegistration(r.s)
    OBVIOUS
  <2>2. u.connected = s.connected
    BY <1>3, <2>1, SubmittedIs
  <2>3. this' = u
    BY <1>2, <1>3, <2>1 DEF Proceed
  <2> QED
    BY <2>2, <2>3
<1>4. CASE ~r.ok
  <2>1. PICK status \in {"ok", "error", "timeout"} : status = "error"
    OBVIOUS
  <2>2. CompleteConnect(c, s, status, ls)
    BY <1>2, <1>4, <2>1
  <2>3. this'.connected = (status = "ok")
    BY <2>2, ConnectEndIs
  <2> QED
    BY <2>1, <2>3
<1> QED
  BY <1>3, <1>4

\* A connect that fails or times out disconnects.
LEMMA FailedConnectQuiet ==
  ASSUME NEW c, NEW s \in Fields, NEW status \in {"error", "timeout"}, NEW ls,
         CompleteConnect(c, s, status, ls)
  PROVE  Quiet
<1>1. PICK e \in {"ok", "error", "timeout"} : e = status
  OBVIOUS
<1>2. CompleteConnect(c, s, e, ls)
  BY <1>1
<1>3. this'.connected = (e = "ok")
  BY <1>2, ConnectEndIs
<1> QED
  BY <1>1, <1>3 DEF Quiet

\* What another operation submits, or fails to.
LEMMA SubmittedQuiet ==
  ASSUME IInv, NEW c, NEW x \in Token, NEW r \in Submit(this, x), r.ok,
         Proceed(c, UpdatePollingRegistration(r.s), <<>>)
  PROVE  Quiet
<1>1. PICK u : u = UpdatePollingRegistration(r.s)
  OBVIOUS
<1>2. u.connected = this.connected
  BY <1>1, Types, SubmittedIs
<1>3. this' = u
  BY <1>1 DEF Proceed
<1> QED
  BY <1>2, <1>3 DEF Quiet

\* A connect that begins does not connect the socket; its answer will.
LEMMA GoConnectQuiet == ASSUME IInv, NEW c \in Context, GoConnect(c) PROVE Quiet
<1>1. PICK i \in InitializeTcp(this) :
       IF ~i.ok THEN CompleteConnect(c, i.s, "error", <<>>)
       ELSE \E g \in ConfigureTcp(i.s) :
              LET timed == [g.s EXCEPT !.delays = @ \cup {Head(todo[c]).op}]
              IN  CASE g.status = "error"     -> CompleteConnect(c, g.s, "error", <<>>)
                    [] g.status = "noMapping" ->
                         Proceed(c, UpdatePollingRegistration([timed EXCEPT !.waiting = TRUE]), <<>>)
                    [] OTHER -> Proceed(c, timed, <<L("submitConnect", "connect", Head(todo[c]).op)>>)
  BY DEF GoConnect
<1>2. PICK s : s = i.s
  OBVIOUS
<1>3. s \in Fields /\ s.connected = this.connected
  BY <1>2, InitializeIs
<1>4. PICK e \in {"error", "timeout"} : e = "error"
  OBVIOUS
<1>5. CASE ~i.ok
  <2>1. CompleteConnect(c, s, e, <<>>)
    BY <1>1, <1>2, <1>4, <1>5
  <2> QED
    BY <1>3, <2>1, FailedConnectQuiet
<1>6. CASE i.ok
  <2>1. PICK g \in ConfigureTcp(s) :
              LET timed == [g.s EXCEPT !.delays = @ \cup {Head(todo[c]).op}]
              IN  CASE g.status = "error"     -> CompleteConnect(c, g.s, "error", <<>>)
                    [] g.status = "noMapping" ->
                         Proceed(c, UpdatePollingRegistration([timed EXCEPT !.waiting = TRUE]), <<>>)
                    [] OTHER -> Proceed(c, timed, <<L("submitConnect", "connect", Head(todo[c]).op)>>)
    BY <1>1, <1>2, <1>6
  <2>2. PICK t : t = g.s
    OBVIOUS
  <2>3. t \in Fields /\ t.connected = s.connected /\ g.status \in {"error", "noMapping", "ok"}
    BY <1>3, <2>2, ConfigureIs
  <2>4. PICK o : o = Head(todo[c]).op
    OBVIOUS
  <2>5. At(c, "go") /\ o \in Op
    <3>1. At(c, "go")
      BY DEF GoConnect
    <3>2. Head(todo[c]) = todo[c][1] /\ todo[c][1].at = "go" /\ LabelOK(c, 1)
      BY <3>1, IsAt
    <3> QED
      BY <2>4, <3>1, <3>2 DEF LabelOK
  <2>6. PICK timed : timed = [t EXCEPT !.delays = t.delays \cup {o}]
    OBVIOUS
  <2>7. timed \in Fields /\ timed.connected = t.connected
    BY <2>3, <2>5, <2>6 DEF Fields
  <2>8. CASE g.status = "error"
    <3>1. CompleteConnect(c, t, e, <<>>)
      BY <1>4, <2>1, <2>2, <2>8
    <3> QED
      BY <2>3, <3>1, FailedConnectQuiet
  <2>9. CASE g.status = "noMapping"
    <3>1. PICK v : v = [timed EXCEPT !.waiting = TRUE]
      OBVIOUS
    <3>2. v \in Fields /\ v.connected = timed.connected
      BY <2>7, <3>1 DEF Fields
    <3>3. PICK u : u = UpdatePollingRegistration(v)
      OBVIOUS
    <3>4. u.connected = v.connected
      BY <3>2, <3>3, UpdateIs
    <3>5. Proceed(c, u, <<>>)
      BY <2>1, <2>2, <2>4, <2>6, <2>9, <3>1, <3>3
    <3> QED
      BY <1>3, <2>3, <2>7, <3>2, <3>4, <3>5 DEF Proceed, Quiet
  <2>10. CASE g.status = "ok"
    <3>1. Proceed(c, timed, <<L("submitConnect", "connect", o)>>)
      BY <2>1, <2>2, <2>4, <2>6, <2>10
    <3> QED
      BY <1>3, <2>3, <2>7, <3>1 DEF Proceed, Quiet
  <2> QED
    BY <2>3, <2>8, <2>9, <2>10
<1> QED
  BY <1>5, <1>6

\* The other operations that go on.
LEMMA GoQuiet ==
  ASSUME IInv, NEW c \in Context,
         GoSubmitConnect(c) \/ GoIo(c) \/ GoAccept(c) \/ GoClose(c)
  PROVE  Quiet
<1>0. this \in Fields
  BY Types
<1>1. CASE GoSubmitConnect(c)
  <2>1. SubmitConnect(c, this, <<>>)
    BY <1>1 DEF GoSubmitConnect
  <2> QED
    BY <1>0, <2>1, SubmitConnectQuiet DEF Quiet
<1>2. CASE GoIo(c)
  <2>1. PICK x \in {"receive", "transmit"} : x = Head(todo[c]).x
    BY <1>2 DEF GoIo
  <2>2. x \in Token /\ x \in Slot
    BY DEF Slot, Token
  <2>3. PICK r \in Submit(this, x) :
          IF r.ok THEN Proceed(c, UpdatePollingRegistration(r.s), <<>>)
                  ELSE CompleteIo(c, this, x, <<>>)
    BY <1>2, <2>1 DEF GoIo
  <2>4. CASE r.ok
    BY <2>2, <2>3, <2>4, SubmittedQuiet
  <2>5. CASE ~r.ok
    <3>1. CompleteIo(c, this, x, <<>>)
      BY <2>3, <2>5
    <3> QED
      BY <1>0, <2>2, <3>1, IoQuiet DEF Quiet
  <2> QED
    BY <2>4, <2>5
<1>3. CASE GoAccept(c)
  <2>1. CASE this.slot["accept"] = 0 \/ ~this.tcp
    BY <1>3, <2>1 DEF GoAccept, Proceed, Quiet
  <2>2. CASE ~(this.slot["accept"] = 0 \/ ~this.tcp)
    <3>1. PICK x \in Token : x = "accept"
      BY DEF Token
    <3>2. PICK r \in Submit(this, x) :
            IF r.ok THEN Proceed(c, UpdatePollingRegistration(r.s), <<>>)
                    ELSE CompleteAccept(c, this, FALSE, <<>>)
      BY <1>3, <2>2, <3>1 DEF GoAccept
    <3>3. CASE r.ok
      BY <3>2, <3>3, SubmittedQuiet
    <3>4. CASE ~r.ok
      <4>1. CompleteAccept(c, this, FALSE, <<>>)
        BY <3>2, <3>4
      <4> QED
        BY <1>0, <4>1, AcceptQuiet DEF Quiet
    <3> QED
      BY <3>3, <3>4
  <2> QED
    BY <2>1, <2>2
<1>4. CASE GoClose(c)
  <2>1. PICK x \in Token : x = "close"
    BY DEF Token
  <2>2. PICK r \in Submit(this, x) :
          IF r.ok THEN Proceed(c, UpdatePollingRegistration(r.s), <<>>)
                  ELSE CompleteClose(c, this, "error", <<>>)
    BY <1>4, <2>1 DEF GoClose
  <2>3. CASE r.ok
    BY <2>2, <2>3, SubmittedQuiet
  <2>4. CASE ~r.ok
    <3>1. PICK status \in {"ok", "error"} : status = "error"
      OBVIOUS
    <3>2. CompleteClose(c, this, status, <<>>)
      BY <2>2, <2>4, <3>1
    <3>3. this'.connected = this.connected
      BY <1>0, <3>1, <3>2, CloseEndIs
    <3> QED
      BY <3>3 DEF Quiet
  <2> QED
    BY <2>3, <2>4
<1> QED
  BY <1>1, <1>2, <1>3, <1>4

\* The rest of a close, the update of the registration, and what changes no field.
LEMMA RestQuietly ==
  ASSUME IInv, NEW c \in Context,
         SetSlot(c) \/ Finish(c) \/ Update(c) \/ PassEnds(c) \/ UserReturns(c)
  PROVE  Quiet
<1>0. this \in Fields
  BY Types
<1>1. CASE SetSlot(c)
  <2>1. this'.connected = this.connected
    BY <1>1, SetIs DEF Stores
  <2> QED
    BY <2>1 DEF Quiet
<1>2. CASE Finish(c)
  <2>1. PICK x \in Slot : x = "accept"
    BY DEF Slot, Token
  <2>2. PICK u : u = Taken(this, x)
    OBVIOUS
  <2>3. u.connected = this.connected
    BY <1>0, <2>2, TakenIs
  <2>4. this' = this \/ this' = u
    BY <1>2, <2>1, <2>2 DEF Finish, Settle
  <2> QED
    BY <2>3, <2>4 DEF Quiet
<1>3. CASE Update(c)
  <2>1. PICK u : u = UpdatePollingRegistration(this)
    OBVIOUS
  <2>2. u.connected = this.connected
    BY <1>0, <2>1, UpdateIs
  <2>3. this' = u
    BY <1>3, <2>1 DEF Update, Proceed
  <2> QED
    BY <2>2, <2>3 DEF Quiet
<1>4. CASE PassEnds(c) \/ UserReturns(c)
  BY <1>4 DEF PassEnds, UserReturns, Proceed, Quiet
<1> QED
  BY <1>1, <1>2, <1>3, <1>4

\* An address that arrives does not connect the socket.
LEMMA PollAddressQuiet == ASSUME IInv, NEW c \in Context, PollAddress(c) PROVE Quiet
<1>0. this \in Fields
  BY Types
<1>1. CASE Proceed(c, this, <<>>)
  BY <1>1 DEF Proceed, Quiet
<1>2. CASE ~Proceed(c, this, <<>>)
  <2>1. PICK g \in ConfigureTcp(this) : g.status # "noMapping" /\ Answered(c, g.s, g.status)
    BY <1>2 DEF PollAddress
  <2>2. PICK s : s = g.s
    OBVIOUS
  <2>3. s \in Fields /\ s.connected = this.connected /\ g.status \in {"error", "noMapping", "ok"}
    BY <1>0, <2>2, ConfigureIs
  <2>4. CASE s.slot["listen"] # 0
    <3>1. CompleteListen(c, s, g.status, <<>>)
      BY <2>1, <2>2, <2>4 DEF Answered
    <3> QED
      BY <2>3, <3>1, ListenQuiet DEF Quiet
  <2>5. CASE s.slot["listen"] = 0 /\ g.status = "error"
    <3>1. PICK e \in {"error", "timeout"} : e = "error"
      OBVIOUS
    <3>2. CompleteConnect(c, s, e, <<>>)
      BY <2>1, <2>2, <2>5, <3>1 DEF Answered
    <3> QED
      BY <2>3, <3>2, FailedConnectQuiet
  <2>6. CASE s.slot["listen"] = 0 /\ g.status = "ok"
    <3>1. PICK t : t = [s EXCEPT !.waiting = FALSE]
      OBVIOUS
    <3>2. t \in Fields /\ t.connected = s.connected
      BY <2>3, <3>1 DEF Fields
    <3>3. SubmitConnect(c, t, <<>>)
      BY <2>1, <2>2, <2>6, <3>1 DEF Answered
    <3> QED
      BY <2>3, <3>2, <3>3, SubmitConnectQuiet DEF Quiet
  <2> QED
    BY <2>1, <2>3, <2>4, <2>5, <2>6
<1> QED
  BY <1>1, <1>2

\* The caller of the connect learns of it.
Reported == \E o \in Of(this, "connect") : done[o] = "pending" /\ done'[o] = "done"

\* The poll of a token connects the socket only when it ends the task of a connect.
LEMMA PollTokenReports == ASSUME IInv, NEW c \in Context, PollToken(c) PROVE Quiet \/ Reported
<1>0. this \in Fields
  BY Types
<1>1. At(c, "pollToken")
  BY DEF PollToken
<1>2. Head(todo[c]) = todo[c][1] /\ todo[c][1].x \in Token
  BY <1>1, IsAt DEF LabelOK
<1>3. PICK x \in Token : x = Head(todo[c]).x
  BY <1>2
<1>4. CASE this.slot[x] = 0 \/ ~this.token[x].signaled \/ (x = "connect" /\ this.waiting)
  BY <1>3, <1>4 DEF PollToken, Proceed, Quiet
<1>5. CASE ~(this.slot[x] = 0 \/ ~this.token[x].signaled \/ (x = "connect" /\ this.waiting))
  <2>1. PICK s : s = [this EXCEPT !.token[x].signaled = FALSE]
    OBVIOUS
  <2>2. (CASE x = "connect" -> \E status \in {"ok", "error", "timeout"} :
                                CompleteConnect(c, s, status, <<>>)
          [] x = "close"   -> \E status \in {"ok", "error"} : CompleteClose(c, s, status, <<>>)
          [] x = "accept"  -> CompleteAccept(c, s, this.child, <<>>)
          [] OTHER         -> CompleteIo(c, s, x, <<>>))
    BY <1>3, <1>5, <2>1 DEF PollToken
  <2>3. Took(s, x)
    BY <1>5, <2>1, ResetIs
  <2>4. s \in Fields /\ s.connected = this.connected /\ s.slot = this.slot /\ x \in Slot
    BY <2>3 DEF Took, Slot
  <2>5. CASE x = "connect"
    <3>1. PICK status \in {"ok", "error", "timeout"} : CompleteConnect(c, s, status, <<>>)
      BY <2>2, <2>5
    <3>2. Settle(c, this', Of(s, "connect"), <<>>)
      BY <2>4, <3>1, ConnectEndIs
    <3>3. Of(s, "connect") = Of(this, "connect")
      BY <2>4 DEF Of
    <3>4. PICK o : o = this.slot["connect"]
      OBVIOUS
    <3>5. o # 0 /\ o \in Op /\ done[o] = "pending"
      BY <1>5, <2>4, <2>5, <3>4, Numbers DEF IInv, StoredOK
    <3>6. o \in Of(this, "connect")
      BY <3>4, <3>5 DEF Of
    <3>7. done'[o] = "done"
      BY <3>2, <3>3, <3>5, <3>6 DEF Settle, Finished
    <3> QED
      BY <3>5, <3>6, <3>7 DEF Reported
  <2>6. CASE x = "close"
    <3>1. PICK status \in {"ok", "error"} : CompleteClose(c, s, status, <<>>)
      BY <2>2, <2>6
    <3>2. this'.connected => s.connected
      BY <2>4, <3>1, CloseEndIs
    <3> QED
      BY <2>4, <3>2 DEF Quiet
  <2>7. CASE x = "accept"
    <3>1. CompleteAccept(c, s, this.child, <<>>)
      BY <2>2, <2>7
    <3>2. this'.connected = s.connected
      BY <2>4, <3>1, AcceptQuiet
    <3> QED
      BY <2>4, <3>2 DEF Quiet
  <2>8. CASE x \notin {"connect", "close", "accept"}
    <3>1. CompleteIo(c, s, x, <<>>)
      BY <2>2, <2>8
    <3>2. this'.connected = s.connected
      BY <2>4, <3>1, IoQuiet
    <3> QED
      BY <2>4, <3>2 DEF Quiet
  <2> QED
    BY <2>5, <2>6, <2>7, <2>8
<1> QED
  BY <1>4, <1>5

\* The calls, which start with the fields as they are, or listen.
LEMMA CallQuiet == ASSUME IInv, NEW c \in Context, Call(c) PROVE Quiet
<1>1. CASE CallConnect(c) \/ CallAccept(c) \/ CallClose(c) \/ \E x \in {"receive", "transmit"} : CallIo(c, x)
  <2>1. this' = this
    BY <1>1 DEF CallConnect, CallAccept, CallClose, CallIo, Start
  <2> QED
    BY <2>1 DEF Quiet
<1>2. ASSUME NEW i \in InitializeTcp(this), NEW g \in ConfigureTcp(i.s)
      PROVE  /\ i.s \in Fields /\ i.s.connected = this.connected
             /\ g.s \in Fields /\ g.s.connected = this.connected
             /\ ReleaseTcp(g.s).connected = this.connected
             /\ [g.s EXCEPT !.listening = TRUE].connected = this.connected
  <2>1. PICK s : s = i.s
    OBVIOUS
  <2>2. s \in Fields /\ s.connected = this.connected
    BY <2>1, InitializeIs
  <2>3. PICK t : t = g.s
    OBVIOUS
  <2>4. t \in Fields /\ t.connected = s.connected
    BY <2>1, <2>2, <2>3, ConfigureIs
  <2>5. PICK r : r = ReleaseTcp(t)
    OBVIOUS
  <2>6. r.connected = t.connected
    BY <2>4, <2>5, ReleaseIs
  <2>7. [t EXCEPT !.listening = TRUE].connected = t.connected
    BY <2>4 DEF Fields
  <2> QED
    BY <2>1, <2>2, <2>3, <2>4, <2>5, <2>6, <2>7
<1>3. ASSUME NEW i \in InitializeTcp(this) PROVE i.s.connected = this.connected
  BY <1>3, InitializeIs
<1>4. CASE CallListen(c)
  <2>1. PICK i \in InitializeTcp(this) :
          IF ~i.ok THEN Return(c, i.s)
          ELSE \E g \in ConfigureTcp(i.s) :
                 Return(c, IF g.status = "ok" THEN [g.s EXCEPT !.listening = TRUE] ELSE ReleaseTcp(g.s))
    BY <1>4 DEF CallListen
  <2>2. CASE ~i.ok
    BY <1>3, <2>1, <2>2 DEF Return, Start, Quiet
  <2>3. CASE i.ok
    <3>1. PICK g \in ConfigureTcp(i.s) :
            Return(c, IF g.status = "ok" THEN [g.s EXCEPT !.listening = TRUE] ELSE ReleaseTcp(g.s))
      BY <2>1, <2>3
    <3>2. this' = [g.s EXCEPT !.listening = TRUE] \/ this' = ReleaseTcp(g.s)
      BY <3>1 DEF Return, Start
    <3> QED
      BY <1>2, <3>2 DEF Quiet
  <2> QED
    BY <2>2, <2>3
<1>5. CASE CallListenAsync(c)
  <2>1. PICK i \in InitializeTcp(this) :
         IF ~i.ok THEN Return(c, i.s)
         ELSE \E g \in ConfigureTcp(i.s) :
                CASE g.status = "ok"    -> Return(c, [g.s EXCEPT !.listening = TRUE])
                  [] g.status = "error" -> Return(c, ReleaseTcp(g.s))
                  [] OTHER -> /\ Start(c, UpdatePollingRegistration(
                                       [g.s EXCEPT !.slot["listen"] = New, !.waiting = TRUE]), <<>>)
                              /\ Pend(New)
    BY <1>5 DEF CallListenAsync
  <2>2. CASE ~i.ok
    BY <1>3, <2>1, <2>2 DEF Return, Start, Quiet
  <2>3. CASE i.ok
    <3>1. PICK g \in ConfigureTcp(i.s) :
            (CASE g.status = "ok"    -> Return(c, [g.s EXCEPT !.listening = TRUE])
               [] g.status = "error" -> Return(c, ReleaseTcp(g.s))
               [] OTHER -> /\ Start(c, UpdatePollingRegistration(
                                    [g.s EXCEPT !.slot["listen"] = New, !.waiting = TRUE]), <<>>)
                           /\ Pend(New))
      BY <2>1, <2>3
    <3>2. PICK v : v = [g.s EXCEPT !.slot["listen"] = New, !.waiting = TRUE]
      OBVIOUS
    <3>3. PICK u : u = UpdatePollingRegistration(v)
      OBVIOUS
    <3>4. \/ this' = [g.s EXCEPT !.listening = TRUE] \/ this' = ReleaseTcp(g.s)
          \/ this' = u /\ calls' = calls + 1
      BY <3>1, <3>2, <3>3 DEF Return, Start
    <3>5. ASSUME calls' = calls + 1 PROVE u.connected = this.connected
      <4>1. New \in Op
        BY <1>5, <3>5, NewOp DEF CallListenAsync
      <4>2. v \in Fields /\ v.connected = g.s.connected
        <5>1. PICK t : t = g.s
          OBVIOUS
        <5>2. t \in Fields
          BY <1>2, <5>1
        <5>3. PICK n \in Op : n = New
          BY <4>1
        <5>4. PICK y \in Slot : y = "listen"
          BY DEF Slot
        <5>5. v = [t EXCEPT !.slot[y] = n, !.waiting = TRUE]
          BY <3>2, <5>1, <5>3, <5>4
        <5>6. v \in Fields /\ v.connected = t.connected
          BY <5>2, <5>5 DEF Fields
        <5> QED
          BY <5>1, <5>6
      <4>3. u.connected = v.connected
        BY <3>3, <4>2, UpdateIs
      <4> QED
        BY <1>2, <4>2, <4>3
    <3> QED
      BY <1>2, <3>4, <3>5 DEF Quiet
  <2> QED
    BY <2>2, <2>3
<1> QED
  BY <1>1, <1>4, <1>5 DEF Call

\* Only the end of a connect makes the socket connected.
LEMMA NextReports == ASSUME IInv, Next PROVE Quiet \/ Reported
<1>0. this \in Fields
  BY Types
<1>1. CASE \E c \in Context : Statement(c) \/ Call(c) \/ Poll(c) \/ \E o \in this.delays : Elapse(c, o)
  <2>1. PICK c \in Context : Statement(c) \/ Call(c) \/ Poll(c) \/ \E o \in this.delays : Elapse(c, o)
    BY <1>1
  <2>2. CASE GoConnect(c)
    BY <2>2, GoConnectQuiet
  <2>3. CASE GoSubmitConnect(c) \/ GoIo(c) \/ GoAccept(c) \/ GoClose(c)
    BY <2>3, GoQuiet
  <2>4. CASE SetSlot(c) \/ Finish(c) \/ Update(c) \/ PassEnds(c) \/ UserReturns(c)
    BY <2>4, RestQuietly
  <2>5. CASE PollAddress(c)
    BY <2>5, PollAddressQuiet
  <2>6. CASE PollToken(c)
    BY <2>6, PollTokenReports
  <2>7. CASE ConnectTimedOut(c)
    <3>1. CASE this.slot["connect"] = 0
      BY <2>7, <3>1 DEF ConnectTimedOut, Proceed, Quiet
    <3>2. CASE this.slot["connect"] # 0
      <4>1. PICK status \in {"error", "timeout"} : status = "timeout"
        OBVIOUS
      <4>2. CompleteConnect(c, this, status, <<>>)
        BY <2>7, <3>2, <4>1 DEF ConnectTimedOut
      <4> QED
        BY <1>0, <4>2, FailedConnectQuiet
    <3> QED
      BY <3>1, <3>2
  <2>8. CASE Call(c)
    BY <2>8, CallQuiet
  <2>9. CASE Poll(c)
    BY <2>9 DEF Poll, Pass, Quiet
  <2>10. CASE \E o \in this.delays : Elapse(c, o)
    <3>1. PICK o \in this.delays : Elapse(c, o)
      BY <2>10
    <3>2. PICK u : u = [this EXCEPT !.delays = this.delays \ {o}]
      OBVIOUS
    <3>3. u.connected = this.connected
      BY <1>0, <3>2 DEF Fields
    <3>4. this' = u
      BY <3>1, <3>2 DEF Elapse, Pass
    <3> QED
      BY <3>3, <3>4 DEF Quiet
  <2> QED
    BY <2>1, <2>2, <2>3, <2>4, <2>5, <2>6, <2>7, <2>8, <2>9, <2>10 DEF Statement
<1>2. CASE \E x \in Token : Signal(x)
  <2>1. this'.connected = this.connected
    BY <1>2, SignalIs
  <2> QED
    BY <2>1 DEF Quiet
<1>3. CASE TimerTick \/ TickEnds
  BY <1>3 DEF TimerTick, TickEnds, Quiet
<1> QED
  BY <1>1, <1>2, <1>3 DEF Next

\* The socket becomes connected only with the end of the task of a connect: what a late answer, a
\* timeout or a close finds is never a connection that nobody has asked for.
THEOREM ConnectionsAreReported == Spec => ConnectIsReported
<1>1. ASSUME IInv, [Next]_vars
      PROVE  [~this.connected /\ this'.connected => Reported]_vars
  <2>1. CASE UNCHANGED vars
    BY <2>1
  <2>2. CASE Next
    BY <1>1, <2>2, NextReports DEF Quiet
  <2> QED
    BY <1>1, <2>1, <2>2
<1>2. ConnectIsReported <=> [][~this.connected /\ this'.connected => Reported]_vars
  BY DEF ConnectIsReported, Reported
<1> QED
  BY <1>1, <1>2, Invariance, PTL DEF Spec

=============================================================================
