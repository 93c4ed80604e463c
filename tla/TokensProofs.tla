---------------------------- MODULE TokensProofs -----------------------------
(***************************************************************************)
(* CancellationTokenSource, for every number of sources, callbacks, delays *)
(* and calls: no registration is missed, none runs twice, what is removed  *)
(* does not run, a linked source follows, and a delay that was replaced    *)
(* cancels nothing, whatever callbacks call and wherever a tick falls.     *)
(*                                                                         *)
(* BufferedStream, for every size of its buffer, every length of a file    *)
(* and every byte: it is a stream without a buffer (ByteStream), and what  *)
(* was written is in the file when it is closed.                           *)
(***************************************************************************)
EXTENDS MCTokens, SequenceTheorems, TLAPS

-----------------------------------------------------------------------------
(* The inductive invariant.                                                 *)

Places(c) == 1 .. Len(stack[c])

\* What a call is at while it is inside another one; the others are the innermost ones.
Resting == {"canRun", "regRun", "body", "regCheck"}
RegPc   == {"regCheck", "regRead", "regWrite"}
LoopPc  == {"canClear", "canLoop", "canFire", "canRun"}

\* Some call on s is at one of pcs.
Inside(s, pcs) ==
  \E c \in Context : \E i \in Places(c) : stack[c][i].s = s /\ stack[c][i].pc \in pcs

Shape ==
  /\ \A c \in Context : \A i \in Places(c) : i < Len(stack[c]) => stack[c][i].pc \in Resting
  /\ ~tick => stack["Timer"] = <<>>

NoDup(q) == \A i, j \in 1 .. Len(q) : q[i] = q[j] => i = j
Of(q)    == {q[i] : i \in 1 .. Len(q)}

\* What a call knows.
RegOK(a) ==
  a.pc \in RegPc =>
    /\ a.s \in Source /\ a.e \in Entry
    /\ \/ a.e \in Callback /\ phase[a.s][a.e] = "registering"
       \/ a.e \in Source /\ phase[a.s][a.e] = "new" /\ a.e \in created
    /\ a.pc # "regCheck" /\ ~raced[a.s] => ~canceled[a.s]
ReadOK(a) ==
  a.pc = "regWrite" =>
    /\ ~raced[a.s] => a.seq = callbacks[a.s]
    /\ ~canceled[a.s] /\ ~disposed[a.s] =>
         NoDup(a.seq) /\ \A e \in Of(a.seq) : phase[a.s][e] = "registered"
LoopOK(a) ==
  /\ a.pc \in {"canCheck", "canSet", "canTake"} \cup LoopPc => a.s \in Source
  /\ a.pc \in {"canTake"} \cup LoopPc => canceled[a.s]
  /\ a.pc \in LoopPc => NoDup(a.seq) /\ \A e \in Of(a.seq) : phase[a.s][e] = "taken"
  /\ a.pc = "canFire" => a.seq # <<>>
AfterOK(a) ==
  a.pc \in {"afterSet", "afterAdd"} =>
    /\ a.s \in Source /\ a.e \in Delay
    /\ a.pc = "afterSet" =>
         /\ delay[a.e] # "new" /\ owner[a.e] = a.s /\ a.e \notin superseded
         /\ \A r \in Source : after[r] # a.e
FrameOK(a) == RegOK(a) /\ ReadOK(a) /\ LoopOK(a) /\ AfterOK(a)
Frames == \A c \in Context : \A i \in Places(c) : FrameOK(stack[c][i])

\* The application has read s, and has not finished with it.
InWindow(s) ==
  \E i \in Places("App") :
    stack["App"][i].s = s /\ stack["App"][i].pc \in {"regRead", "regWrite", "canSet", "canTake", "canClear"}

\* What the tick has read or decided still holds, for nothing gets in; when it has canceled a
\* source, no Cancel of the application has its list.
Fresh(a) ==
  /\ a.pc \in {"regRead", "regWrite", "canSet"} => ~canceled[a.s] /\ ~disposed[a.s]
  /\ a.pc \in {"canTake", "canClear"} =>
       /\ InWindow(a.s) => raced[a.s]
       /\ \A j \in Places("App") :
            ~(stack["App"][j].s = a.s /\ stack["App"][j].pc \in {"canTake", "canClear"})
TickOK == \A i \in Places("Timer") : Fresh(stack["Timer"][i])

\* No two calls register or run the same entry, or set the same delay.
Same(a, b) ==
  \/ a.pc \in RegPc /\ b.pc \in RegPc /\ a.s = b.s /\ a.e = b.e
  \/ a.pc \in LoopPc /\ b.pc \in LoopPc /\ a.s = b.s /\ Of(a.seq) \cap Of(b.seq) # {}
  \/ a.pc = "afterSet" /\ b.pc = "afterSet" /\ a.e = b.e
Apart ==
  \A c, d \in Context : \A i \in Places(c), j \in Places(d) :
    Same(stack[c][i], stack[d][j]) => c = d /\ i = j

\* A list that a Cancel may still take holds every registration once, and nothing else.
ListOK(s) ==
  /\ (~canceled[s] /\ ~disposed[s]) \/ Inside(s, {"canSet", "canTake"})
  /\ ~Inside(s, {"canClear"})
  => NoDup(callbacks[s]) /\ \A e \in Of(callbacks[s]) : phase[s][e] = "registered"

RegisteredOK(s, e) ==
  phase[s][e] = "registered" /\ ~raced[s] =>
    e \in Of(callbacks[s]) /\ (~canceled[s] \/ Inside(s, {"canTake"}))
TakenOK(s, e) ==
  phase[s][e] = "taken" =>
    \E c \in Context : \E i \in Places(c) :
      stack[c][i].s = s /\ stack[c][i].pc \in LoopPc /\ e \in Of(stack[c][i].seq)
LinkOK(s, e) ==
  e \in Source =>
    /\ phase[s][e] # "new" => e \in created
    /\ phase[s][e] = "ran" => canceled[e] \/ disposed[e] \/ Inside(e, {"canCheck", "canSet"})
EntriesOK ==
  \A s \in Source : ListOK(s) /\ \A e \in Entry : RegisteredOK(s, e) /\ TakenOK(s, e) /\ LinkOK(s, e)

DelayOK(d) ==
  /\ delay[d] # "new" => owner[d] \in Source
  /\ d \in superseded \/ (\E r \in Source : after[r] = d) => delay[d] # "new"
  /\ d \in superseded => \A r \in Source : after[r] # d
  /\ \A r \in Source : after[r] = d => owner[d] = r

IInv ==
  /\ TypeOK /\ Shape /\ Frames /\ TickOK /\ Apart /\ EntriesOK
  /\ \A d \in Delay : DelayOK(d)
-----------------------------------------------------------------------------
(* Stacks.                                                                  *)

\* A place of a stack is a call, and the innermost one is at the end.
LEMMA StackType ==
  ASSUME TypeOK, NEW c \in Context
  PROVE  /\ stack[c] \in Seq(Activation)
         /\ Len(stack[c]) \in Nat
         /\ DOMAIN stack[c] = Places(c)
         /\ (stack[c] # <<>>) = (Len(stack[c]) > 0)
         /\ \A i \in Places(c) : stack[c][i] \in Activation
<1>1. stack[c] \in Seq(Activation)
  BY DEF TypeOK
<1> QED  BY <1>1, EmptySeq, LenProperties, ElementOfSeq DEF Places

\* The front of a sequence that is not empty.
LEMMA FrontFacts ==
  ASSUME NEW S, NEW s \in Seq(S), s # <<>>
  PROVE  /\ Front(s) \in Seq(S)
         /\ Len(s) \in Nat /\ Len(s) > 0
         /\ Len(Front(s)) = Len(s) - 1
         /\ \A i \in 1 .. Len(s) - 1 : Front(s)[i] = s[i]
<1>1. Len(s) \in Nat \ {0} /\ \A i \in 1 .. Len(s) - 1 : s[i] \in S
  BY EmptySeq, ElementOfSeq
<1>2. /\ SubSeq(s, 1, Len(s) - 1) \in Seq(S)
      /\ Len(SubSeq(s, 1, Len(s) - 1)) =
           IF 1 <= Len(s) - 1 THEN (Len(s) - 1) - 1 + 1 ELSE 0
      /\ \A i \in 1 .. (Len(s) - 1) - 1 + 1 : SubSeq(s, 1, Len(s) - 1)[i] = s[1 + i - 1]
  BY <1>1, SubSeqProperties
<1>3. Front(s) = SubSeq(s, 1, Len(s) - 1)
  BY DEF Front
<1>4. \A i \in 1 .. Len(s) - 1 : i \in 1 .. (Len(s) - 1) - 1 + 1 /\ 1 + i - 1 = i
  BY <1>1
<1>5. \A i \in 1 .. Len(s) - 1 : Front(s)[i] = s[i]
  BY <1>2, <1>3, <1>4
<1>6. Front(s) \in Seq(S)
  BY <1>2, <1>3
<1>7. Len(Front(s)) = IF 1 <= Len(s) - 1 THEN (Len(s) - 1) - 1 + 1 ELSE 0
  BY <1>2, <1>3
<1>8. \A n \in Nat \ {0} : (IF 1 <= n - 1 THEN (n - 1) - 1 + 1 ELSE 0) = n - 1
  OBVIOUS
<1>9. Len(Front(s)) = Len(s) - 1
  BY <1>1, <1>7, <1>8, Zenon
<1> QED  BY <1>1, <1>5, <1>6, <1>9

\* The calls of context c but for the first n give way to as; no other stack changes.
Moves(c, n, as) ==
  /\ n \in Nat /\ n <= Len(stack[c])
  /\ stack' \in [Context -> Seq(Activation)]
  /\ Len(stack'[c]) = n + Len(as)
  /\ \A i \in 1 .. n : stack'[c][i] = stack[c][i]
  /\ \A j \in 1 .. Len(as) : stack'[c][n + j] = as[j]
  /\ \A d \in Context : d # c => stack'[d] = stack[d]

\* The first n elements of a sequence and those of another one.
Cut(q, p, n, as) ==
  /\ n \in Nat /\ n <= Len(p)
  /\ Len(q) = n + Len(as)
  /\ \A i \in 1 .. n : q[i] = p[i]
  /\ \A j \in 1 .. Len(as) : q[n + j] = as[j]

\* A stack that was cut at n and continued by as has moved so.
LEMMA CutMoves ==
  ASSUME TypeOK, NEW c \in Context, NEW q \in Seq(Activation), NEW n, NEW as,
         stack' = [stack EXCEPT ![c] = q], Cut(q, stack[c], n, as)
  PROVE  Moves(c, n, as)
<1>1. stack'[c] = q /\ \A d \in Context : d # c => stack'[d] = stack[d]
  BY DEF TypeOK
<1>2. stack' \in [Context -> Seq(Activation)]
  BY DEF TypeOK
<1> QED  BY <1>1, <1>2 DEF Cut, Moves

\* A call on top of a sequence cuts nothing.
LEMMA CutAppend ==
  ASSUME NEW S, NEW p \in Seq(S), NEW a \in S
  PROVE  Append(p, a) \in Seq(S) /\ Cut(Append(p, a), p, Len(p), <<a>>)
<1>1. /\ Len(p) \in Nat /\ Append(p, a) \in Seq(S) /\ Len(Append(p, a)) = Len(p) + 1
      /\ \A i \in 1 .. Len(p) : Append(p, a)[i] = p[i]
      /\ Append(p, a)[Len(p) + 1] = a
  BY AppendProperties, LenProperties
<1>2. Len(<<a>>) = 1 /\ <<a>>[1] = a
  OBVIOUS
<1>3. \A j \in 1 .. Len(<<a>>) : Append(p, a)[Len(p) + j] = <<a>>[j]
  BY <1>1, <1>2
<1> QED  BY <1>1, <1>2, <1>3 DEF Cut

\* The front is the sequence cut before its last call.
LEMMA CutFront ==
  ASSUME NEW S, NEW p \in Seq(S), p # <<>>
  PROVE  Front(p) \in Seq(S) /\ Cut(Front(p), p, Len(p) - 1, <<>>)
<1>1. /\ Front(p) \in Seq(S) /\ Len(p) \in Nat /\ Len(p) > 0 /\ Len(Front(p)) = Len(p) - 1
      /\ \A i \in 1 .. Len(p) - 1 : Front(p)[i] = p[i]
  BY FrontFacts
<1>2. Len(<<>>) = 0
  OBVIOUS
<1> QED  BY <1>1, <1>2 DEF Cut

\* Cutting what was cut.
LEMMA CutCut ==
  ASSUME NEW S, NEW p \in Seq(S), NEW q \in Seq(S), NEW r \in Seq(S), NEW as, NEW n, NEW m,
         Cut(q, p, m, <<>>), Cut(r, q, n, as)
  PROVE  Cut(r, p, n, as)
<1>1. Len(q) = m /\ m \in Nat /\ m <= Len(p) /\ n \in Nat /\ n <= m /\ Len(p) \in Nat
  BY LenProperties DEF Cut
<1>2. (\A i \in 1 .. m : q[i] = p[i]) /\ (\A i \in 1 .. n : r[i] = q[i])
  BY DEF Cut
<1>3. \A i \in 1 .. n : i \in 1 .. m
  BY <1>1
<1>4. \A i \in 1 .. n : r[i] = p[i]
  BY <1>2, <1>3
<1>5. n <= Len(p)
  BY <1>1
<1>6. Len(r) = n + Len(as) /\ \A j \in 1 .. Len(as) : r[n + j] = as[j]
  BY Zenon DEF Cut
<1> QED  BY <1>1, <1>4, <1>5, <1>6, Zenon DEF Cut

\* Two calls instead of one.
LEMMA CutTwo ==
  ASSUME NEW S, NEW p \in Seq(S), NEW q \in Seq(S), NEW n, NEW a \in S, NEW b \in S,
         Cut(q, p, n, <<a>>)
  PROVE  /\ q \o <<b>> \in Seq(S)
         /\ Cut(q \o <<b>>, p, n, <<a, b>>)
<1>1. /\ Len(p) \in Nat /\ n \in Nat /\ n <= Len(p) /\ Len(q) = n + 1
      /\ \A i \in 1 .. n : q[i] = p[i]
      /\ q[n + 1] = a
  BY LenProperties DEF Cut
<1>2. PICK e \in Seq(S) : e = <<b>>
  <2>1. <<b>> \in Seq(S)
    OBVIOUS
  <2> QED  BY <2>1
<1>3. Len(e) = 1 /\ e[1] = b
  BY <1>2
<1>4. /\ q \o e \in Seq(S) /\ Len(q \o e) = Len(q) + Len(e)
      /\ \A i \in 1 .. Len(q) + Len(e) :
           (q \o e)[i] = IF i <= Len(q) THEN q[i] ELSE e[i - Len(q)]
  BY ConcatProperties
<1>5. PICK r \in Seq(S) : r = q \o e
  BY <1>4
<1>6. Len(r) = n + 2 /\ \A i \in 1 .. n + 2 : r[i] = IF i <= n + 1 THEN q[i] ELSE e[i - (n + 1)]
  BY <1>1, <1>3, <1>4, <1>5
<1>7. /\ \A i \in 1 .. n : r[i] = p[i]
      /\ r[n + 1] = a
  BY <1>1, <1>6
<1>8. r[n + 2] = b
  <2>1. n + 2 \in 1 .. n + 2 /\ ~(n + 2 <= n + 1) /\ (n + 2) - (n + 1) = 1
    BY <1>1
  <2> QED  BY <2>1, <1>6, <1>3
<1>9. Len(<<a, b>>) = 2 /\ <<a, b>>[1] = a /\ <<a, b>>[2] = b
  OBVIOUS
<1>10. \A j \in 1 .. Len(<<a, b>>) : r[n + j] = <<a, b>>[j]
  <2>1. \A j \in 1 .. 2 : j = 1 \/ j = 2
    OBVIOUS
  <2> QED  BY <2>1, <1>7, <1>8, <1>9
<1>11. Cut(r, p, n, <<a, b>>)
  BY <1>1, <1>6, <1>7, <1>9, <1>10 DEF Cut
<1> QED  BY <1>2, <1>5, <1>11

\* A call that begins is put on top.
LEMMA PushMoves ==
  ASSUME TypeOK, NEW c \in Context, NEW a \in Activation, Push(c, a)
  PROVE  Moves(c, Len(stack[c]), <<a>>)
<1>1. stack[c] \in Seq(Activation)
  BY StackType
<1>2. stack' = [stack EXCEPT ![c] = Append(stack[c], a)]
  BY DEF Push
<1> QED  BY <1>1, <1>2, CutAppend, CutMoves

\* The innermost call ends.
LEMMA PopMoves ==
  ASSUME TypeOK, NEW c \in Context, stack[c] # <<>>, Pop(c)
  PROVE  Moves(c, Len(stack[c]) - 1, <<>>)
<1>1. stack[c] \in Seq(Activation)
  BY StackType
<1>2. stack' = [stack EXCEPT ![c] = Front(stack[c])]
  BY DEF Pop
<1> QED  BY <1>1, <1>2, CutFront, CutMoves

\* The innermost call replaced by another.
LEMMA FrontAppend ==
  ASSUME NEW S, NEW p \in Seq(S), p # <<>>, NEW a \in S
  PROVE  /\ Append(Front(p), a) \in Seq(S)
         /\ Cut(Append(Front(p), a), p, Len(p) - 1, <<a>>)
<1>1. PICK q \in Seq(S) : q = Front(p)
  BY FrontFacts
<1>2. Cut(q, p, Len(p) - 1, <<>>) /\ Len(q) = Len(p) - 1
  BY <1>1, CutFront, FrontFacts
<1>3. PICK r \in Seq(S) : r = Append(q, a) /\ Cut(r, q, Len(q), <<a>>)
  BY CutAppend
<1>4. Cut(r, p, Len(q), <<a>>)
  BY <1>2, <1>3, CutCut
<1> QED  BY <1>1, <1>2, <1>3, <1>4

\* The innermost call goes on as another one.
LEMMA ReplaceMoves ==
  ASSUME TypeOK, NEW c \in Context, stack[c] # <<>>, NEW a \in Activation, Replace(c, a)
  PROVE  Moves(c, Len(stack[c]) - 1, <<a>>)
<1>1. stack[c] \in Seq(Activation)
  BY StackType
<1>2. stack' = [stack EXCEPT ![c] = Append(Front(stack[c]), a)]
  BY DEF Replace
<1> QED  BY <1>1, <1>2, FrontAppend, CutMoves

\* The innermost call goes on inside a and calls b.
LEMMA TwoMoves ==
  ASSUME TypeOK, NEW c \in Context, stack[c] # <<>>, NEW a \in Activation, NEW b \in Activation,
         stack' = [stack EXCEPT ![c] = Append(Front(@), a) \o <<b>>]
  PROVE  Moves(c, Len(stack[c]) - 1, <<a, b>>)
<1>1. stack[c] \in Seq(Activation)
  BY StackType
<1>2. PICK q \in Seq(Activation) :
        q = Append(Front(stack[c]), a) /\ Cut(q, stack[c], Len(stack[c]) - 1, <<a>>)
  BY <1>1, FrontAppend
<1>3. /\ q \o <<b>> \in Seq(Activation)
      /\ Cut(q \o <<b>>, stack[c], Len(stack[c]) - 1, <<a, b>>)
  BY <1>1, <1>2, CutTwo
<1>4. stack' = [stack EXCEPT ![c] = q \o <<b>>]
  BY <1>2
<1> QED  BY <1>3, <1>4, CutMoves

\* An exception reaches the caller.
LEMMA CatchMoves ==
  ASSUME TypeOK, NEW c \in Context, Len(stack[c]) > 1, NEW a \in Activation,
         stack' = [stack EXCEPT ![c] = Append(Front(Front(stack[c])), a)]
  PROVE  /\ Moves(c, Len(stack[c]) - 2, <<a>>)
         /\ Last(Front(stack[c])) = stack[c][Len(stack[c]) - 1]
<1>1. stack[c] \in Seq(Activation) /\ stack[c] # <<>> /\ Len(stack[c]) \in Nat
  BY StackType
<1>2. PICK q \in Seq(Activation) : q = Front(stack[c])
  BY <1>1, FrontFacts
<1>3. Cut(q, stack[c], Len(stack[c]) - 1, <<>>) /\ Len(q) = Len(stack[c]) - 1
  BY <1>1, <1>2, CutFront, FrontFacts
<1>4. q # <<>> /\ Len(q) - 1 = Len(stack[c]) - 2
  BY <1>1, <1>3, EmptySeq
<1>5. PICK r \in Seq(Activation) : r = Append(Front(q), a) /\ Cut(r, q, Len(q) - 1, <<a>>)
  BY <1>4, FrontAppend
<1>6. Cut(r, stack[c], Len(stack[c]) - 2, <<a>>)
  <2>1. PICK p \in Seq(Activation) : p = stack[c]
    BY <1>1
  <2>2. PICK n, m : n = Len(q) - 1 /\ m = Len(p) - 1
    OBVIOUS
  <2>3. Cut(q, p, m, <<>>) /\ Cut(r, q, n, <<a>>)
    BY <2>1, <2>2, <1>3, <1>5
  <2>4. Cut(r, p, n, <<a>>)
    BY <2>3, CutCut
  <2> QED  BY <2>1, <2>2, <2>4, <1>4
<1>7. stack' = [stack EXCEPT ![c] = r]
  BY <1>2, <1>5
<1>8. Last(q) = stack[c][Len(stack[c]) - 1]
  <2>1. Len(stack[c]) - 1 \in 1 .. Len(stack[c]) - 1
    BY <1>1
  <2>2. q[Len(stack[c]) - 1] = stack[c][Len(stack[c]) - 1]
    BY <2>1, <1>1, <1>2, FrontFacts
  <2> QED  BY <2>2, <1>3 DEF Last
<1> QED  BY <1>2, <1>6, <1>7, <1>8, CutMoves

-----------------------------------------------------------------------------
(* What a step of one context does to the calls.                            *)

\* A call that a step of c, which leaves its first n calls, does not touch.
Kept(c, n, d, i) == i \in Places(d) /\ (d = c => i <= n)

\* The context on the CPU changes its calls, and its callers wait inside theirs.
StackStep(c, n, as) ==
  /\ OnCpu(c) /\ tick' = tick
  /\ as \in Seq(Activation) /\ Moves(c, n, as)
  /\ \A i \in 1 .. n : stack[c][i].pc \in Resting
  /\ \A j \in 1 .. Len(as) : j < Len(as) => as[j].pc \in Resting

\* After a step every call is one that was kept or a new one.
AllFound(c, n, as) ==
  \A d \in Context : \A i \in 1 .. Len(stack'[d]) :
    \/ Kept(c, n, d, i) /\ stack'[d][i] = stack[d][i]
    \/ d = c /\ \E j \in 1 .. Len(as) : i = n + j /\ stack'[d][i] = as[j]
AllThere(c, n, as) ==
  /\ \A d \in Context : \A i \in Places(d) :
       Kept(c, n, d, i) => i \in 1 .. Len(stack'[d]) /\ stack'[d][i] = stack[d][i]
  /\ \A j \in 1 .. Len(as) : n + j \in 1 .. Len(stack'[c]) /\ stack'[c][n + j] = as[j]

\* Positions in two parts of a sequence.
LEMMA Sums ==
  ASSUME NEW n \in Nat, NEW m \in Nat
  PROVE  /\ \A i \in 1 .. n + m : ~(i <= n) => i - n \in 1 .. m /\ i = n + (i - n)
         /\ \A j \in 1 .. m : n + j \in 1 .. n + m /\ (n + j < n + m => j < m)
         /\ \A i \in 1 .. n : i \in 1 .. n + m
OBVIOUS

\* Every place of the new stacks is a place that stayed or one of the new calls.
LEMMA Where ==
  ASSUME TypeOK, NEW c \in Context, NEW n, NEW as, StackStep(c, n, as)
  PROVE  AllFound(c, n, as) /\ AllThere(c, n, as)
<1>1. /\ Len(as) \in Nat /\ n \in Nat /\ n <= Len(stack[c]) /\ Len(stack[c]) \in Nat
      /\ Len(stack'[c]) = n + Len(as)
  BY StackType, LenProperties DEF StackStep, Moves
<1>2. /\ \A i \in 1 .. n : stack'[c][i] = stack[c][i]
      /\ \A j \in 1 .. Len(as) : stack'[c][n + j] = as[j]
      /\ \A d \in Context : d # c => stack'[d] = stack[d]
  BY DEF StackStep, Moves
<1>3. ASSUME NEW d \in Context, NEW i \in 1 .. Len(stack'[d])
      PROVE  \/ Kept(c, n, d, i) /\ stack'[d][i] = stack[d][i]
             \/ d = c /\ \E j \in 1 .. Len(as) : i = n + j /\ stack'[d][i] = as[j]
  <2>1. CASE d # c
    BY <2>1, <1>2 DEF Kept, Places
  <2>2. CASE d = c /\ i <= n
    <3>1. i \in 1 .. n /\ i \in 1 .. Len(stack[c])
      BY <2>2, <1>1
    <3> QED  BY <3>1, <2>2, <1>2 DEF Kept, Places
  <2>3. CASE d = c /\ ~(i <= n)
    <3>1. i - n \in 1 .. Len(as) /\ i = n + (i - n)
      BY <2>3, <1>1, Sums, Zenon
    <3> QED  BY <3>1, <2>3, <1>2
  <2> QED  BY <2>1, <2>2, <2>3
<1>4. ASSUME NEW d \in Context, NEW i \in Places(d), Kept(c, n, d, i)
      PROVE  i \in 1 .. Len(stack'[d]) /\ stack'[d][i] = stack[d][i]
  <2>1. CASE d # c
    BY <2>1, <1>2 DEF Places
  <2>2. CASE d = c
    <3>1. i \in 1 .. n
      BY <2>2, <1>1, <1>4 DEF Kept, Places
    <3>2. i \in 1 .. n + Len(as)
      BY <3>1, <1>1, Sums, Zenon
    <3> QED  BY <3>1, <3>2, <2>2, <1>1, <1>2
  <2> QED  BY <2>1, <2>2
<1>5. \A j \in 1 .. Len(as) : n + j \in 1 .. n + Len(as)
  BY <1>1, Sums, Zenon
<1>6. AllFound(c, n, as)
  BY <1>3 DEF AllFound
<1>7. AllThere(c, n, as)
  BY <1>1, <1>2, <1>4, <1>5 DEF AllThere
<1> QED  BY <1>6, <1>7

\* What Shape says of the order of the calls is kept when the new calls wait as Shape says.
LEMMA ShapeStep ==
  ASSUME TypeOK, Shape, NEW c \in Context, NEW n, NEW as, StackStep(c, n, as)
  PROVE  Shape'
<1>0. AllFound(c, n, as)
  BY Where
<1>1. /\ Len(as) \in Nat /\ n \in Nat /\ n <= Len(stack[c]) /\ Len(stack[c]) \in Nat
      /\ Len(stack'[c]) = n + Len(as)
  BY StackType, LenProperties DEF StackStep, Moves
<1>2. \A d \in Context : d # c => stack'[d] = stack[d]
  BY DEF StackStep, Moves
<1>3. ASSUME NEW d \in Context, NEW i \in 1 .. Len(stack'[d]), i < Len(stack'[d])
      PROVE  stack'[d][i].pc \in Resting
  <2>1. CASE d # c
    BY <2>1, <1>2, <1>3 DEF Shape, Places
  <2>2. CASE d = c
    <3>1. CASE Kept(c, n, d, i) /\ stack'[d][i] = stack[d][i]
      <4>1. i \in 1 .. n
        BY <3>1, <2>2, <1>1 DEF Kept
      <4> QED  BY <4>1, <3>1, <2>2 DEF StackStep
    <3>2. ASSUME NEW j \in 1 .. Len(as), i = n + j, stack'[d][i] = as[j]
          PROVE  stack'[d][i].pc \in Resting
      <4>1. n + j < n + Len(as)
        BY <3>2, <2>2, <1>1, <1>3
      <4>2. j < Len(as)
        BY <4>1, <1>1, Sums, Zenon
      <4> QED  BY <4>2, <3>2 DEF StackStep
    <3> QED  BY <3>1, <3>2, <1>0 DEF AllFound
  <2> QED  BY <2>1, <2>2
<1>4. ~tick' => stack'["Timer"] = <<>>
  BY <1>2 DEF StackStep, OnCpu, Shape, Context
<1> QED  BY <1>3, <1>4 DEF Shape, Places

\* A call new to its stack registers and runs nothing that a kept one does.
Alone(c, n, as) ==
  /\ \A j \in 1 .. Len(as) : \A d \in Context : \A i \in Places(d) :
       Kept(c, n, d, i) => ~Same(as[j], stack[d][i])
  /\ \A j, k \in 1 .. Len(as) : Same(as[j], as[k]) => j = k

\* Two calls hold the same entry whichever is named first.
LEMMA SameIsSymmetric == \A a, b : Same(a, b) <=> Same(b, a)
BY DEF Same

\* No two calls hold the same entry if none of the new ones does with another.
LEMMA ApartStep ==
  ASSUME TypeOK, Apart, NEW c \in Context, NEW n, NEW as, StackStep(c, n, as), Alone(c, n, as)
  PROVE  Apart'
<1> SUFFICES ASSUME NEW d1 \in Context, NEW d2 \in Context,
                    NEW i1 \in 1 .. Len(stack'[d1]), NEW i2 \in 1 .. Len(stack'[d2]),
                    Same(stack'[d1][i1], stack'[d2][i2])
             PROVE  d1 = d2 /\ i1 = i2
  BY DEF Apart, Places, Same
<1>0. AllFound(c, n, as)
  BY Where
<1>1. CASE Kept(c, n, d1, i1) /\ stack'[d1][i1] = stack[d1][i1]
  <2>1. CASE Kept(c, n, d2, i2) /\ stack'[d2][i2] = stack[d2][i2]
    BY <1>1, <2>1 DEF Apart, Kept
  <2>2. ASSUME NEW j \in 1 .. Len(as), stack'[d2][i2] = as[j]
        PROVE  FALSE
    BY <1>1, <2>2, SameIsSymmetric DEF Alone, Kept
  <2> QED  BY <2>1, <2>2, <1>0 DEF AllFound
<1>2. ASSUME NEW j \in 1 .. Len(as), d1 = c, i1 = n + j, stack'[d1][i1] = as[j]
      PROVE  d1 = d2 /\ i1 = i2
  <2>1. CASE Kept(c, n, d2, i2) /\ stack'[d2][i2] = stack[d2][i2]
    BY <1>2, <2>1 DEF Alone, Kept
  <2>2. ASSUME NEW k \in 1 .. Len(as), d2 = c, i2 = n + k, stack'[d2][i2] = as[k]
        PROVE  d1 = d2 /\ i1 = i2
    BY <1>2, <2>2 DEF Alone
  <2> QED  BY <2>1, <2>2, <1>0 DEF AllFound
<1> QED  BY <1>1, <1>2, <1>0 DEF AllFound

\* A tick leaves no call of the application inside what the new calls of the tick change.
LEMMA TickStep ==
  ASSUME TypeOK, Shape, NEW c \in Context, NEW n, NEW as, StackStep(c, n, as),
         \A j \in 1 .. Len(as) : c = "Timer" => Fresh(as[j])'
  PROVE  TickOK'
<1>0. AllFound(c, n, as)
  BY Where
<1>1. CASE c = "App"
  <2>1. stack'["Timer"] = <<>>
    BY <1>1 DEF StackStep, Moves, OnCpu, Shape, Context
  <2> QED  BY <2>1 DEF TickOK, Places
<1>2. CASE c = "Timer"
  <2>1. ASSUME NEW i \in 1 .. Len(stack'[c])  PROVE Fresh(stack[c][i])'
    <3>1. CASE Kept(c, n, c, i) /\ stack'[c][i] = stack[c][i]
      <4>1. i \in 1 .. n
        BY <3>1 DEF Kept, StackStep, Moves
      <4>2. stack'[c][i].pc \in Resting
        BY <4>1, <3>1 DEF StackStep
      <4> QED  BY <4>2 DEF Fresh, Resting
    <3>2. ASSUME NEW j \in 1 .. Len(as), stack'[c][i] = as[j]  PROVE Fresh(stack[c][i])'
      BY <3>2, <1>2 DEF Fresh
    <3> QED  BY <3>1, <3>2, <1>0 DEF AllFound
  <2> QED  BY <1>2, <2>1 DEF TickOK, Places, Fresh
<1> QED  BY <1>1, <1>2 DEF Context

\* Every call is as it should be if those that stayed and the new ones are.
LEMMA FramesStep ==
  ASSUME TypeOK, Frames, NEW c \in Context, NEW n, NEW as, StackStep(c, n, as),
         \A j \in 1 .. Len(as) : FrameOK(as[j])',
         \A d \in Context : \A i \in Places(d) : Kept(c, n, d, i) =>
           \A a \in Activation : a = stack[d][i] /\ FrameOK(a) => FrameOK(a)'
  PROVE  Frames'
<1> SUFFICES ASSUME NEW d \in Context, NEW i \in 1 .. Len(stack'[d])
             PROVE  FrameOK(stack[d][i])'
  BY DEF Frames, Places
<1>0. AllFound(c, n, as)
  BY Where
<1>1. PICK a : a = stack'[d][i]
  OBVIOUS
<1>4. ASSUME FrameOK(a)'  PROVE FrameOK(stack[d][i])'
  <2>1. RegOK(stack[d][i])'
    BY <1>1, <1>4 DEF FrameOK, RegOK
  <2>2. ReadOK(stack[d][i])'
    BY <1>1, <1>4 DEF FrameOK, ReadOK
  <2>3. LoopOK(stack[d][i])'
    BY <1>1, <1>4 DEF FrameOK, LoopOK
  <2>4. AfterOK(stack[d][i])'
    BY <1>1, <1>4 DEF FrameOK, AfterOK
  <2> QED  BY <2>1, <2>2, <2>3, <2>4 DEF FrameOK
<1>2. CASE Kept(c, n, d, i) /\ stack'[d][i] = stack[d][i]
  <2>1. i \in Places(d) /\ a \in Activation /\ a = stack[d][i]
    BY <1>1, <1>2, StackType DEF Kept
  <2>2. FrameOK(a)
    <3>1. FrameOK(stack[d][i])
      BY <2>1 DEF Frames
    <3> QED  BY <2>1, <3>1
  <2>3. FrameOK(a)'
    BY <1>2, <2>1, <2>2
  <2> QED  BY <2>3, <1>4
<1>3. ASSUME NEW j \in 1 .. Len(as), stack'[d][i] = as[j]
      PROVE  FrameOK(stack[d][i])'
  <2>1. FrameOK(a)'
    BY <1>1, <1>3
  <2> QED  BY <2>1, <1>4
<1> QED  BY <1>2, <1>3, <1>0 DEF AllFound

\* A kept call on s is at one of P.
KeptInside(c, n, s, P) ==
  \E d \in Context : \E i \in Places(d) :
    Kept(c, n, d, i) /\ stack[d][i].s = s /\ stack[d][i].pc \in P
\* A call on s that begins, or ends, is at one of P.
NewInside(as, s, P) == \E j \in 1 .. Len(as) : as[j].s = s /\ as[j].pc \in P
OldInside(c, n, s, P) ==
  \E i \in Places(c) : i > n /\ stack[c][i].s = s /\ stack[c][i].pc \in P

\* A source has a call at one of the statements P after a step exactly if one stayed or is new.
LEMMA InsideStep ==
  ASSUME TypeOK, NEW c \in Context, NEW n, NEW as, StackStep(c, n, as), NEW s, NEW P
  PROVE  /\ Inside(s, P)' <=> KeptInside(c, n, s, P) \/ NewInside(as, s, P)
         /\ Inside(s, P)  <=> KeptInside(c, n, s, P) \/ OldInside(c, n, s, P)
<1>0. AllFound(c, n, as) /\ AllThere(c, n, as)
  BY Where
<1>1. Inside(s, P)' <=> \E d \in Context : \E i \in 1 .. Len(stack'[d]) :
                          stack'[d][i].s = s /\ stack'[d][i].pc \in P
  BY DEF Inside, Places
<1>2. ASSUME NEW d \in Context, NEW i \in 1 .. Len(stack'[d]),
             stack'[d][i].s = s, stack'[d][i].pc \in P
      PROVE  KeptInside(c, n, s, P) \/ \E j \in 1 .. Len(as) : as[j].s = s /\ as[j].pc \in P
  <2>1. \/ Kept(c, n, d, i) /\ stack'[d][i] = stack[d][i]
        \/ \E j \in 1 .. Len(as) : stack'[d][i] = as[j]
    BY <1>0 DEF AllFound
  <2>2. ASSUME Kept(c, n, d, i), stack'[d][i] = stack[d][i]  PROVE KeptInside(c, n, s, P)
    BY <1>2, <2>2 DEF KeptInside, Kept
  <2> QED  BY <1>2, <2>1, <2>2
<1>3. ASSUME KeptInside(c, n, s, P)
      PROVE  \E d \in Context : \E i \in 1 .. Len(stack'[d]) :
                          stack'[d][i].s = s /\ stack'[d][i].pc \in P
  BY <1>0, <1>3 DEF AllThere, KeptInside
<1>4. ASSUME NEW j \in 1 .. Len(as), as[j].s = s, as[j].pc \in P
      PROVE  \E d \in Context : \E i \in 1 .. Len(stack'[d]) :
                          stack'[d][i].s = s /\ stack'[d][i].pc \in P
  BY <1>0, <1>4 DEF AllThere
<1>5. \A d \in Context : \A i \in Places(d) : Kept(c, n, d, i) \/ (d = c /\ i > n)
  BY StackType DEF Kept, Places, StackStep, Moves
<1>6. Inside(s, P) <=> KeptInside(c, n, s, P) \/ OldInside(c, n, s, P)
  BY <1>5 DEF Inside, KeptInside, OldInside
<1> QED  BY <1>1, <1>2, <1>3, <1>4, <1>6 DEF NewInside

-----------------------------------------------------------------------------
(* Steps that leave the lists and the flags of the sources as they are.     *)

\* The call registers or runs entry e of source s.
Holds(a, s, e) ==
  a.s = s /\ ((a.pc \in RegPc /\ a.e = e) \/ (a.pc \in LoopPc /\ e \in Of(a.seq)))

\* An entry that a kept call holds keeps its phase, and so does a registered one.
PhasesStep(c, n) ==
  \A s \in Source, e \in Entry : phase'[s][e] # phase[s][e] =>
    /\ phase[s][e] # "registered" /\ phase'[s][e] \notin {"registered", "taken"}
    /\ e \in Source =>
         e \in created' /\ (phase'[s][e] = "ran" => Inside(e, {"canCheck", "canSet"})')
    /\ \A d \in Context : \A i \in Places(d) : Kept(c, n, d, i) => ~Holds(stack[d][i], s, e)

\* The calls that end leave nothing undone.
Leaves(c, n, as) ==
  \A i \in Places(c) : \A f \in Activation : i > n /\ f = stack[c][i] =>
    /\ f.pc \notin {"canSet", "canTake", "canClear"}
    /\ f.pc = "canCheck" =>
         \/ canceled[f.s] \/ disposed[f.s]
         \/ \E j \in 1 .. Len(as) : as[j].s = f.s /\ as[j].pc \in {"canCheck", "canSet"}
    /\ f.pc \in LoopPc => \A e \in Of(f.seq) : phase'[f.s][e] = "taken" =>
         \E j \in 1 .. Len(as) : as[j].s = f.s /\ as[j].pc \in LoopPc /\ e \in Of(as[j].seq)

\* What the new calls know is so.
Enters(c, as) ==
  \A j \in 1 .. Len(as) :
    /\ FrameOK(as[j])'
    /\ as[j].pc \notin {"canTake", "canClear"}
    /\ as[j].pc = "canSet" \/ (c = "Timer" /\ as[j].pc \in {"regRead", "regWrite"}) =>
         ~canceled[as[j].s] /\ ~disposed[as[j].s]

DelaysStep(c, n) ==
  /\ \A d \in Context : \A i \in Places(d) : Kept(c, n, d, i) =>
       \A a \in Activation : a = stack[d][i] /\ AfterOK(a) => AfterOK(a)'
  /\ \A d \in Delay : DelayOK(d)'

KeepsSources ==
  created \subseteq created' /\ UNCHANGED <<callbacks, canceled, disposed, raced>>

\* A step that changes no list and no flag of a source leaves the calls that stay as they should
\* be.
LEMMA CalmFrames ==
  ASSUME IInv, TypeOK', NEW c \in Context, NEW n, NEW as, StackStep(c, n, as), Enters(c, as),
         PhasesStep(c, n), DelaysStep(c, n), KeepsSources
  PROVE  Frames'
<1>1. ASSUME NEW d \in Context, NEW i \in Places(d), Kept(c, n, d, i),
             NEW a \in Activation, a = stack[d][i], FrameOK(a)
      PROVE  FrameOK(a)'
  <2>1. \A s \in Source, e \in Entry :
          Holds(a, s, e) \/ phase[s][e] = "registered" => phase'[s][e] = phase[s][e]
    BY <1>1 DEF PhasesStep
  <2>2. RegOK(a)'
    <3>1. RegOK(a)
      BY <1>1 DEF FrameOK
    <3>2. a.pc \in RegPc => phase'[a.s][a.e] = phase[a.s][a.e]
      BY <3>1, <2>1 DEF RegOK, Holds
    <3> QED  BY <3>1, <3>2 DEF RegOK, KeepsSources
  <2>3. ASSUME a.pc \in {"regWrite"} \cup LoopPc, a.s \in Source
        PROVE  Of(a.seq) \subseteq Entry
    <3>1. a.seq \in Seq(Entry)
      BY DEF Activation
    <3> QED  BY <3>1, ElementOfSeq DEF Of
  <2>4. ReadOK(a)'
    <3>1. ReadOK(a) /\ (a.pc = "regWrite" => a.s \in Source)
      BY <1>1 DEF FrameOK, RegOK, RegPc
    <3> QED  BY <3>1, <2>1, <2>3 DEF ReadOK, KeepsSources
  <2>5. LoopOK(a)'
    <3>1. LoopOK(a)
      BY <1>1 DEF FrameOK
    <3>2. a.pc \in LoopPc => \A e \in Of(a.seq) : phase'[a.s][e] = phase[a.s][e]
      BY <3>1, <2>1, <2>3 DEF LoopOK, Holds
    <3> QED  BY <3>1, <3>2 DEF LoopOK, KeepsSources
  <2>6. AfterOK(a)'
    BY <1>1 DEF DelaysStep, FrameOK
  <2> QED  BY <2>2, <2>4, <2>5, <2>6 DEF FrameOK
<1>2. \A j \in 1 .. Len(as) : FrameOK(as[j])'
  BY DEF Enters
<1>3. TypeOK /\ Frames
  BY DEF IInv
<1> QED  BY <1>1, <1>2, <1>3, FramesStep

\* The same step and what the calls of each source are inside.
LEMMA CalmInside ==
  ASSUME IInv, NEW c \in Context, NEW n, NEW as, StackStep(c, n, as), Enters(c, as),
         Leaves(c, n, as), NEW s \in Source
  PROVE  /\ Inside(s, {"canTake"})' <=> Inside(s, {"canTake"})
         /\ Inside(s, {"canClear"})' <=> Inside(s, {"canClear"})
         /\ Inside(s, {"canSet", "canTake"})' =>
              Inside(s, {"canSet", "canTake"}) \/ (~canceled[s] /\ ~disposed[s])
         /\ Inside(s, {"canCheck", "canSet"}) =>
              Inside(s, {"canCheck", "canSet"})' \/ canceled[s] \/ disposed[s]
<1>1. TypeOK
  BY DEF IInv
<1>2. /\ ~NewInside(as, s, {"canTake"}) /\ ~NewInside(as, s, {"canClear"})
      /\ NewInside(as, s, {"canSet", "canTake"}) => ~canceled[s] /\ ~disposed[s]
  BY DEF Enters, NewInside
<1>3. \A i \in Places(c) : stack[c][i] \in Activation
  BY <1>1, StackType
<1>4. ~OldInside(c, n, s, {"canTake"}) /\ ~OldInside(c, n, s, {"canClear"})
  BY <1>3 DEF Leaves, OldInside
<1>5. OldInside(c, n, s, {"canCheck", "canSet"}) =>
        canceled[s] \/ disposed[s] \/ NewInside(as, s, {"canCheck", "canSet"})
  BY <1>3 DEF Leaves, OldInside, NewInside
<1>6. Inside(s, {"canTake"})' <=> Inside(s, {"canTake"})
  <2>1. Inside(s, {"canTake"})' <=> KeptInside(c, n, s, {"canTake"})
    BY <1>1, <1>2, InsideStep
  <2>2. Inside(s, {"canTake"}) <=> KeptInside(c, n, s, {"canTake"})
    BY <1>1, <1>4, InsideStep
  <2> QED  BY <2>1, <2>2
<1>7. Inside(s, {"canClear"})' <=> Inside(s, {"canClear"})
  <2>1. Inside(s, {"canClear"})' <=> KeptInside(c, n, s, {"canClear"})
    BY <1>1, <1>2, InsideStep
  <2>2. Inside(s, {"canClear"}) <=> KeptInside(c, n, s, {"canClear"})
    BY <1>1, <1>4, InsideStep
  <2> QED  BY <2>1, <2>2
<1>8. Inside(s, {"canSet", "canTake"})' =>
        Inside(s, {"canSet", "canTake"}) \/ (~canceled[s] /\ ~disposed[s])
  BY <1>1, <1>2, InsideStep
<1>9. Inside(s, {"canCheck", "canSet"}) =>
        Inside(s, {"canCheck", "canSet"})' \/ canceled[s] \/ disposed[s]
  BY <1>1, <1>5, InsideStep
<1> QED  BY <1>6, <1>7, <1>8, <1>9

\* The same step and the entries of each source.
LEMMA CalmEntries ==
  ASSUME IInv, TypeOK', NEW c \in Context, NEW n, NEW as, StackStep(c, n, as), Enters(c, as),
         Leaves(c, n, as), PhasesStep(c, n), KeepsSources
  PROVE  EntriesOK'
<1>0. TypeOK /\ EntriesOK /\ AllThere(c, n, as)
  BY Where DEF IInv
<1> SUFFICES ASSUME NEW s \in Source
             PROVE  ListOK(s)' /\ \A e \in Entry : RegisteredOK(s, e)' /\ TakenOK(s, e)' /\ LinkOK(s, e)'
  BY DEF EntriesOK
<1>1. UNCHANGED <<callbacks, canceled, disposed, raced>>
  BY DEF KeepsSources
<1>2. ListOK(s)'
  <2>1. Of(callbacks[s]) \subseteq Entry
    <3>1. callbacks[s] \in Seq(Entry)
      BY <1>0 DEF TypeOK
    <3> QED  BY <3>1, ElementOfSeq DEF Of
  <2>2. \A e \in Of(callbacks[s]) : phase[s][e] = "registered" => phase'[s][e] = "registered"
    BY <2>1 DEF PhasesStep
  <2>3. ListOK(s)
    BY <1>0 DEF EntriesOK
  <2>4. /\ Inside(s, {"canClear"})' <=> Inside(s, {"canClear"})
        /\ Inside(s, {"canSet", "canTake"})' =>
              Inside(s, {"canSet", "canTake"}) \/ (~canceled[s] /\ ~disposed[s])
    BY CalmInside
  <2> QED  BY <1>1, <2>2, <2>3, <2>4 DEF ListOK
<1>3. ASSUME NEW e \in Entry  PROVE RegisteredOK(s, e)'
  <2>1. phase'[s][e] = "registered" => phase[s][e] = "registered"
    BY DEF PhasesStep
  <2>2. RegisteredOK(s, e)
    BY <1>0 DEF EntriesOK
  <2>3. Inside(s, {"canTake"})' <=> Inside(s, {"canTake"})
    BY CalmInside
  <2> QED  BY <1>1, <2>1, <2>2, <2>3 DEF RegisteredOK
<1>4. ASSUME NEW e \in Entry  PROVE TakenOK(s, e)'
  <2> SUFFICES ASSUME phase'[s][e] = "taken"
               PROVE  \E d \in Context : \E i \in 1 .. Len(stack'[d]) :
                        stack'[d][i].s = s /\ stack'[d][i].pc \in LoopPc /\ e \in Of(stack'[d][i].seq)
    BY DEF TakenOK, Places
  <2>1. phase[s][e] = "taken" /\ TakenOK(s, e)
    BY <1>0 DEF PhasesStep, EntriesOK
  <2>2. PICK d \in Context : \E i \in Places(d) :
          stack[d][i].s = s /\ stack[d][i].pc \in LoopPc /\ e \in Of(stack[d][i].seq)
    BY <2>1 DEF TakenOK
  <2>3. PICK i \in Places(d) :
          stack[d][i].s = s /\ stack[d][i].pc \in LoopPc /\ e \in Of(stack[d][i].seq)
    BY <2>2
  <2>4. CASE Kept(c, n, d, i)
    BY <1>0, <2>3, <2>4 DEF AllThere
  <2>5. CASE ~Kept(c, n, d, i)
    <3>1. d = c /\ i > n /\ i \in Places(c) /\ stack[d][i] \in Activation
      BY <1>0, <2>5, StackType DEF Kept, Places, StackStep, Moves
    <3>2. PICK j \in 1 .. Len(as) : as[j].s = s /\ as[j].pc \in LoopPc /\ e \in Of(as[j].seq)
      BY <2>3, <3>1 DEF Leaves
    <3> QED  BY <1>0, <3>2 DEF AllThere
  <2> QED  BY <2>4, <2>5
<1>5. ASSUME NEW e \in Entry  PROVE LinkOK(s, e)'
  <2> SUFFICES ASSUME e \in Source  PROVE LinkOK(s, e)'
    BY DEF LinkOK
  <2>1. LinkOK(s, e)
    BY <1>0 DEF EntriesOK
  <2>2. CASE phase'[s][e] = phase[s][e]
    <3>1. Inside(e, {"canCheck", "canSet"}) =>
              Inside(e, {"canCheck", "canSet"})' \/ canceled[e] \/ disposed[e]
      BY CalmInside
    <3> QED  BY <1>1, <2>1, <2>2, <3>1 DEF LinkOK, KeepsSources
  <2>3. CASE phase'[s][e] # phase[s][e]
    BY <2>3 DEF PhasesStep, LinkOK
  <2> QED  BY <2>2, <2>3
<1> QED  BY <1>2, <1>3, <1>4, <1>5

\* A step that changes calls and phases, but no list and no flag of a source, keeps the invariant.
LEMMA CalmStep ==
  ASSUME IInv, TypeOK', NEW c \in Context, NEW n, NEW as, StackStep(c, n, as), Alone(c, n, as),
         Enters(c, as), Leaves(c, n, as), PhasesStep(c, n), DelaysStep(c, n), KeepsSources
  PROVE  IInv'
<1>1. TypeOK /\ Shape /\ Apart
  BY DEF IInv
<1>2. Shape'
  BY <1>1, ShapeStep
<1>3. Frames'
  BY CalmFrames
<1>4. TickOK'
  <2>1. ASSUME NEW j \in 1 .. Len(as), c = "Timer"  PROVE Fresh(as[j])'
    <3>1. /\ as[j].pc \notin {"canTake", "canClear"}
          /\ as[j].pc \in {"regRead", "regWrite", "canSet"} =>
               ~canceled[as[j].s] /\ ~disposed[as[j].s]
      BY <2>1 DEF Enters
    <3> QED  BY <3>1 DEF Fresh, KeepsSources
  <2> QED  BY <2>1, <1>1, TickStep
<1>5. Apart'
  BY <1>1, ApartStep
<1>6. EntriesOK'
  BY CalmEntries
<1>7. \A d \in Delay : DelayOK(d)'
  BY DEF DelaysStep
<1> QED  BY <1>2, <1>3, <1>4, <1>5, <1>6, <1>7 DEF IInv

-----------------------------------------------------------------------------
(* The innermost call.                                                      *)

\* The innermost call of the context that is on the CPU.
LEMMA OnTop ==
  ASSUME IInv, NEW c \in Context, OnCpu(c), stack[c] # <<>>
  PROVE  /\ Len(stack[c]) \in Nat /\ Len(stack[c]) > 0 /\ Len(stack[c]) \in Places(c)
         /\ Top(c) = stack[c][Len(stack[c])]
         /\ Top(c) \in Activation
         /\ FrameOK(Top(c))
         /\ c = "App" => stack["Timer"] = <<>>
         /\ c = "Timer" => Fresh(Top(c))
         /\ \A i \in 1 .. Len(stack[c]) - 1 : stack[c][i].pc \in Resting
<1>1. /\ Len(stack[c]) \in Nat /\ Len(stack[c]) > 0 /\ Len(stack[c]) \in Places(c)
      /\ stack[c][Len(stack[c])] \in Activation
  BY StackType DEF IInv, Places
<1>2. Top(c) = stack[c][Len(stack[c])]
  BY DEF Top, Last
<1>3. FrameOK(Top(c))
  BY <1>1, <1>2 DEF IInv, Frames
<1>4. c = "App" => stack["Timer"] = <<>>
  BY DEF OnCpu, IInv, Shape
<1>5. c = "Timer" => Fresh(Top(c))
  BY <1>1, <1>2 DEF IInv, TickOK
<1>6. \A i \in 1 .. Len(stack[c]) - 1 : stack[c][i].pc \in Resting
  BY <1>1 DEF IInv, Shape, Places
<1> QED  BY <1>1, <1>2, <1>3, <1>4, <1>5, <1>6

\* User code calls from the application, a tick or a callback.
LEMMA InUser ==
  ASSUME IInv, NEW c \in Context, InUserCode(c)
  PROVE  /\ OnCpu(c) /\ Len(stack[c]) \in Nat
         /\ c = "App" => stack["Timer"] = <<>>
         /\ \A i \in 1 .. Len(stack[c]) : stack[c][i].pc \in Resting
<1>1. CASE stack[c] = <<>>
  <2>1. Len(stack[c]) = 0
    BY <1>1
  <2>2. OnCpu(c) /\ (c = "App" => stack["Timer"] = <<>>)
    BY DEF InUserCode, OnCpu, IInv, Shape
  <2> QED  BY <2>1, <2>2
<1>2. CASE stack[c] # <<>>
  <2>1. OnCpu(c) /\ Top(c).pc \in Resting
    BY <1>2 DEF InUserCode, Resting
  <2> QED  BY <2>1, <1>2, OnTop
<1> QED  BY <1>1, <1>2

\* A call that registers or runs no entry that f does not, and sets no delay.
Heir(b, f) ==
  /\ b.pc \in RegPc => f.pc \in RegPc /\ b.s = f.s /\ b.e = f.e
  /\ b.pc \in LoopPc => f.pc \in LoopPc /\ b.s = f.s /\ Of(b.seq) \subseteq Of(f.seq)
  /\ b.pc # "afterSet"
Idle(b) == b.pc \notin RegPc \cup LoopPc \cup {"afterSet"}

\* A new call that goes on for one that held an entry is alone with it.
LEMMA HeirIsAlone ==
  ASSUME IInv, NEW c \in Context, NEW n, NEW as, StackStep(c, n, as),
         \/ \A j \in 1 .. Len(as) : Idle(as[j])
         \/ \E k \in Places(c) :
              /\ k > n
              /\ \A j \in 1 .. Len(as) : Idle(as[j]) \/ (j = 1 /\ Heir(as[j], stack[c][k]))
  PROVE  Alone(c, n, as)
<1>1. \A a, b : Idle(a) => ~Same(a, b)
  BY DEF Idle, Same
<1>2. \A j, k \in 1 .. Len(as) : Same(as[j], as[k]) => j = k
  BY <1>1, SameIsSymmetric
<1>3. ASSUME NEW j \in 1 .. Len(as), NEW d \in Context, NEW i \in Places(d), Kept(c, n, d, i),
             Same(as[j], stack[d][i])
      PROVE  FALSE
  <2>1. PICK k \in Places(c) : k > n /\ Heir(as[j], stack[c][k])
    BY <1>1, <1>3
  <2>2. Same(stack[c][k], stack[d][i])
    BY <2>1, <1>3 DEF Heir, Same
  <2>3. c = d /\ k = i
    BY <2>2 DEF IInv, Apart
  <2> QED  BY <2>1, <2>3, <1>3 DEF Kept, StackStep, Moves, Places
<1> QED  BY <1>2, <1>3 DEF Alone

\* The delays are as they were.
LEMMA SameDelays ==
  ASSUME IInv, NEW c \in Context, NEW n, UNCHANGED <<delay, owner, superseded, after>>
  PROVE  DelaysStep(c, n)
<1>1. \A a : AfterOK(a) => AfterOK(a)'
  BY DEF AfterOK
<1>2. \A d \in Delay : DelayOK(d)'
  BY DEF IInv, DelayOK
<1> QED  BY <1>1, <1>2 DEF DelaysStep

\* An entry that a call which ends holds changes its phase: no other call holds it.
LEMMA HeldPhases ==
  ASSUME IInv, NEW c \in Context, NEW n \in Nat, NEW k \in Places(c), k > n,
         NEW f \in Activation, f = stack[c][k],
         \A s \in Source, e \in Entry : phase'[s][e] # phase[s][e] =>
           /\ Holds(f, s, e)
           /\ phase'[s][e] \notin {"registered", "taken"}
           /\ e \in Source =>
                e \in created' /\ (phase'[s][e] = "ran" => Inside(e, {"canCheck", "canSet"})')
  PROVE  PhasesStep(c, n)
<1> SUFFICES ASSUME NEW s \in Source, NEW e \in Entry, phase'[s][e] # phase[s][e]
             PROVE  /\ phase[s][e] # "registered"
                    /\ \A d \in Context : \A i \in Places(d) :
                         Kept(c, n, d, i) => ~Holds(stack[d][i], s, e)
  BY DEF PhasesStep
<1>1. Holds(f, s, e) /\ FrameOK(f)
  BY DEF IInv, Frames
<1>2. phase[s][e] # "registered"
  BY <1>1 DEF Holds, FrameOK, RegOK, LoopOK
<1>3. ASSUME NEW d \in Context, NEW i \in Places(d), Kept(c, n, d, i), Holds(stack[d][i], s, e)
      PROVE  FALSE
  <2>1. FrameOK(stack[d][i])
    BY DEF IInv, Frames
  <2>2. Same(f, stack[d][i])
    <3>1. CASE f.pc \in RegPc /\ f.e = e
      <4>1. phase[s][e] \in {"registering", "new"}
        BY <3>1, <1>1 DEF FrameOK, RegOK, Holds
      <4>2. stack[d][i].pc \in RegPc /\ stack[d][i].e = e
        BY <4>1, <2>1, <1>3 DEF FrameOK, LoopOK, Holds
      <4> QED  BY <3>1, <4>2, <1>1, <1>3 DEF Same, Holds
    <3>2. CASE f.pc \in LoopPc /\ e \in Of(f.seq)
      <4>1. phase[s][e] = "taken"
        BY <3>2, <1>1 DEF FrameOK, LoopOK, Holds
      <4>2. stack[d][i].pc \in LoopPc /\ e \in Of(stack[d][i].seq)
        BY <4>1, <2>1, <1>3 DEF FrameOK, RegOK, Holds
      <4> QED  BY <3>2, <4>2, <1>1, <1>3 DEF Same, Holds
    <3> QED  BY <3>1, <3>2, <1>1 DEF Holds
  <2>3. c = d /\ k = i
    BY <2>2 DEF IInv, Apart
  <2> QED  BY <2>3, <1>3 DEF Kept, Places
<1> QED  BY <1>2, <1>3

-----------------------------------------------------------------------------
(* Steps that change nothing but the calls of a context.                    *)

quietVars == <<created, callbacks, canceled, disposed, after, delay, owner, fired, superseded,
               phase, raced, tick, passing>>

QuietRest ==
  UNCHANGED quietVars /\ calls' \in Nat /\ removed' \subseteq Callback /\ escaped' \in BOOLEAN

\* What the calls that end have yet to do the new ones do.
Leaving(c, n, as) ==
  \A i \in Places(c) : \A f \in Activation : i > n /\ f = stack[c][i] =>
    /\ f.pc \notin {"canSet", "canTake", "canClear"}
    /\ f.pc = "canCheck" =>
         \/ canceled[f.s] \/ disposed[f.s]
         \/ \E j \in 1 .. Len(as) : as[j].s = f.s /\ as[j].pc \in {"canCheck", "canSet"}
    /\ f.pc \in LoopPc =>
         \/ Of(f.seq) = {}
         \/ \E j \in 1 .. Len(as) :
              as[j].s = f.s /\ as[j].pc \in LoopPc /\ Of(f.seq) \subseteq Of(as[j].seq)
Entering(c, as) ==
  \A j \in 1 .. Len(as) :
    /\ FrameOK(as[j])
    /\ as[j].pc \notin {"canTake", "canClear"}
    /\ as[j].pc = "canSet" \/ (c = "Timer" /\ as[j].pc \in {"regRead", "regWrite"}) =>
         ~canceled[as[j].s] /\ ~disposed[as[j].s]

\* A step that changes only the calls keeps the invariant.
LEMMA QuietStep ==
  ASSUME IInv, NEW c \in Context, NEW n, NEW as, StackStep(c, n, as), Alone(c, n, as),
         QuietRest, Leaving(c, n, as), Entering(c, as)
  PROVE  IInv'
<1>1. TypeOK'
  BY DEF IInv, TypeOK, StackStep, Moves, QuietRest, quietVars
<1>2. \A a : FrameOK(a) => FrameOK(a)'
  BY DEF FrameOK, RegOK, ReadOK, LoopOK, AfterOK, QuietRest, quietVars
<1>3. Enters(c, as)
  BY <1>2 DEF Entering, Enters
<1>4. Leaves(c, n, as)
  BY DEF Leaving, Leaves
<1>5. PhasesStep(c, n)
  BY DEF PhasesStep, QuietRest, quietVars
<1>6. DelaysStep(c, n)
  BY SameDelays DEF QuietRest, quietVars
<1>7. KeepsSources
  BY DEF KeepsSources, QuietRest, quietVars
<1> QED  BY <1>1, <1>3, <1>4, <1>5, <1>6, <1>7, CalmStep

\* A call begins.
LEMMA PushStep ==
  ASSUME IInv, NEW c \in Context, InUserCode(c), NEW b \in Activation, Push(c, b), tick' = tick
  PROVE  StackStep(c, Len(stack[c]), <<b>>)
<1>1. Moves(c, Len(stack[c]), <<b>>)
  BY PushMoves DEF IInv
<1> QED  BY <1>1, InUser DEF StackStep

\* A call that begins and changes nothing else keeps the invariant.
LEMMA QuietPush ==
  ASSUME IInv, NEW c \in Context, InUserCode(c), NEW b \in Activation, Push(c, b), QuietRest,
         FrameOK(b), Idle(b), b.pc \notin {"canSet", "canTake"}
  PROVE  IInv'
<1> DEFINE n == Len(stack[c])
<1>1. StackStep(c, n, <<b>>)
  BY PushStep DEF QuietRest, quietVars
<1>2. Len(<<b>>) = 1 /\ <<b>>[1] = b
  OBVIOUS
<1>3. Alone(c, n, <<b>>)
  BY <1>1, <1>2, HeirIsAlone
<1>4. Leaving(c, n, <<b>>)
  BY InUser DEF Leaving, Places
<1>5. Entering(c, <<b>>)
  BY <1>2 DEF Entering, Idle, RegPc, LoopPc
<1> QED  BY <1>1, <1>3, <1>4, <1>5, QuietStep

\* The innermost call ends, or goes on as another one.
LEMMA PopStep ==
  ASSUME IInv, NEW c \in Context, OnCpu(c), stack[c] # <<>>, Pop(c), tick' = tick
  PROVE  StackStep(c, Len(stack[c]) - 1, <<>>)
<1>1. Moves(c, Len(stack[c]) - 1, <<>>)
  BY PopMoves DEF IInv
<1> QED  BY <1>1, OnTop DEF StackStep

\* The stack when the innermost call goes on as another.
LEMMA ReplaceStep ==
  ASSUME IInv, NEW c \in Context, OnCpu(c), stack[c] # <<>>, NEW b \in Activation, Replace(c, b),
         tick' = tick
  PROVE  StackStep(c, Len(stack[c]) - 1, <<b>>)
<1>1. Moves(c, Len(stack[c]) - 1, <<b>>)
  BY ReplaceMoves DEF IInv
<1> QED  BY <1>1, OnTop DEF StackStep

\* The only place above those below the innermost call.
LEMMA TopPlace ==
  ASSUME IInv, NEW c \in Context, OnCpu(c), stack[c] # <<>>
  PROVE  \A i \in Places(c) : i > Len(stack[c]) - 1 => i = Len(stack[c])
BY OnTop DEF Places

\* The innermost call ends and changes nothing else.
LEMMA QuietPop ==
  ASSUME IInv, NEW c \in Context, OnCpu(c), stack[c] # <<>>, Pop(c), QuietRest,
         Top(c).pc \notin {"canSet", "canTake", "canClear"},
         Top(c).pc = "canCheck" => canceled[Top(c).s] \/ disposed[Top(c).s],
         Top(c).pc \in LoopPc => Top(c).seq = <<>>
  PROVE  IInv'
<1> DEFINE n == Len(stack[c]) - 1
<1>1. StackStep(c, n, <<>>)
  BY PopStep DEF QuietRest, quietVars
<1>2. Len(<<>>) = 0
  OBVIOUS
<1>3. Alone(c, n, <<>>)
  BY <1>1, <1>2, HeirIsAlone
<1>4. Leaving(c, n, <<>>)
  BY <1>2, TopPlace, OnTop DEF Leaving, Of
<1>5. Entering(c, <<>>)
  BY <1>2 DEF Entering
<1> QED  BY <1>1, <1>3, <1>4, <1>5, QuietStep

\* The innermost call goes on as another one and changes nothing else.
LEMMA QuietGoto ==
  ASSUME IInv, NEW c \in Context, OnCpu(c), stack[c] # <<>>, NEW b \in Activation, Replace(c, b),
         QuietRest,
         Top(c).pc \notin {"canSet", "canTake", "canClear"},
         Top(c).pc = "canCheck" => canceled[Top(c).s] \/ disposed[Top(c).s] \/
                                     (b.s = Top(c).s /\ b.pc \in {"canCheck", "canSet"}),
         Top(c).pc \in LoopPc => \/ Top(c).seq = <<>>
                                 \/ b.s = Top(c).s /\ b.pc \in LoopPc /\ b.seq = Top(c).seq,
         Heir(b, Top(c)), FrameOK(b), b.pc \notin {"canTake", "canClear"},
         b.pc = "canSet" \/ (c = "Timer" /\ b.pc \in {"regRead", "regWrite"}) =>
           ~canceled[b.s] /\ ~disposed[b.s]
  PROVE  IInv'
<1> DEFINE n == Len(stack[c]) - 1
<1>1. StackStep(c, n, <<b>>)
  BY ReplaceStep DEF QuietRest, quietVars
<1>2. Len(<<b>>) = 1 /\ <<b>>[1] = b
  OBVIOUS
<1>3. Alone(c, n, <<b>>)
  <2>1. Len(stack[c]) \in Places(c) /\ Len(stack[c]) > n /\ Heir(b, stack[c][Len(stack[c])])
    BY OnTop
  <2>2. \A j \in 1 .. Len(<<b>>) : j = 1 /\ Heir(<<b>>[j], stack[c][Len(stack[c])])
    BY <1>2, <2>1
  <2> QED  BY <1>1, <2>1, <2>2, HeirIsAlone
<1>4. Leaving(c, n, <<b>>)
  <2>1. ASSUME NEW i \in Places(c), i > n  PROVE stack[c][i] = Top(c)
    BY <2>1, TopPlace, OnTop
  <2>2. 1 \in 1 .. Len(<<b>>)
    BY <1>2
  <2> QED  BY <1>2, <2>1, <2>2 DEF Leaving, Of
<1>5. Entering(c, <<b>>)
  BY <1>2 DEF Entering
<1> QED  BY <1>1, <1>3, <1>4, <1>5, QuietStep

\* A new call is a call.
LEMMA FrameType ==
  ASSUME NEW pc \in Pc, NEW s \in Source \cup {None}, NEW e \in Entry \cup Delay \cup {None}
  PROVE  /\ Frame(pc, s, e) \in Activation
         /\ Frame(pc, s, e).pc = pc /\ Frame(pc, s, e).s = s /\ Frame(pc, s, e).e = e
         /\ Frame(pc, s, e).seq = <<>>
<1>1. <<>> \in Seq(Entry)
  OBVIOUS
<1> QED  BY <1>1 DEF Frame, Activation

\* A call that goes on is a call.
LEMMA GotoType ==
  ASSUME NEW a \in Activation, NEW pc \in Pc
  PROVE  /\ [a EXCEPT !.pc = pc] \in Activation
         /\ [a EXCEPT !.pc = pc].pc = pc /\ [a EXCEPT !.pc = pc].s = a.s
         /\ [a EXCEPT !.pc = pc].e = a.e /\ [a EXCEPT !.pc = pc].seq = a.seq
BY DEF Activation

\* The call at another statement, with another list.
WithSeq(a, pc, q) == [a EXCEPT !.pc = pc, !.seq = q]

\* A call that goes on with another list is a call.
LEMMA SeqType ==
  ASSUME NEW a \in Activation, NEW pc \in Pc, NEW q \in Seq(Entry)
  PROVE  /\ WithSeq(a, pc, q) \in Activation
         /\ WithSeq(a, pc, q).pc = pc /\ WithSeq(a, pc, q).s = a.s /\ WithSeq(a, pc, q).e = a.e
         /\ WithSeq(a, pc, q).seq = q /\ WithSeq(a, pc, q).first = a.first
BY DEF Activation, WithSeq

\* A Cancel that begins is a call, with its throwOnFirstException.
LEMMA FirstType ==
  ASSUME NEW a \in Activation, NEW first \in BOOLEAN
  PROVE  \E b \in Activation : b = [a EXCEPT !.first = first] /\ b.pc = a.pc /\ b.s = a.s
<1>1. [a EXCEPT !.first = first] \in Activation
  BY DEF Activation
<1>2. PICK b \in Activation : b = [a EXCEPT !.first = first]
  BY <1>1
<1> QED  BY <1>2 DEF Activation

\* The call throws.
LEMMA QuietThrow ==
  ASSUME IInv, NEW c \in Context, OnCpu(c), stack[c] # <<>>, Throw(c), QuietRest,
         Top(c).pc \notin {"canSet", "canTake", "canClear"},
         Top(c).pc = "canCheck" => canceled[Top(c).s] \/ disposed[Top(c).s],
         Top(c).pc \in LoopPc => Top(c).seq = <<>>
  PROVE  IInv'
<1>1. PICK b \in Activation : b = Frame("throw", None, None) /\ b.pc = "throw"
  BY FrameType DEF Pc
<1>2. Replace(c, b)
  BY <1>1 DEF Throw
<1>3. FrameOK(b) /\ Heir(b, Top(c))
  BY <1>1 DEF FrameOK, RegOK, ReadOK, LoopOK, AfterOK, RegPc, LoopPc, Heir
<1> QED  BY <1>1, <1>2, <1>3, QuietGoto

\* The same call, at another statement.
LEMMA QuietAdvance ==
  ASSUME IInv, NEW c \in Context, OnCpu(c), stack[c] # <<>>, NEW pc \in Pc, Goto(c, pc), QuietRest,
         \/ Top(c).pc = "regCheck" /\ pc = "regRead" /\ ~disposed[Top(c).s] /\ ~canceled[Top(c).s]
         \/ Top(c).pc = "canCheck" /\ pc = "canSet" /\ ~disposed[Top(c).s] /\ ~canceled[Top(c).s]
         \/ Top(c).pc = "canLoop" /\ pc = "canFire" /\ Top(c).seq # <<>>
         \/ Top(c).pc = "canRun" /\ pc = "canLoop"
  PROVE  IInv'
<1>1. Top(c) \in Activation /\ FrameOK(Top(c))
  BY OnTop
<1>2. PICK b \in Activation :
        b = [Top(c) EXCEPT !.pc = pc] /\ b.pc = pc /\ b.s = Top(c).s /\ b.e = Top(c).e
          /\ b.seq = Top(c).seq
  BY <1>1, GotoType
<1>3. Replace(c, b)
  BY <1>2 DEF Goto
<1>4. FrameOK(b) /\ Heir(b, Top(c))
  BY <1>1, <1>2 DEF FrameOK, RegOK, ReadOK, LoopOK, AfterOK, RegPc, LoopPc, Heir
<1> QED  BY <1>2, <1>3, <1>4, QuietGoto DEF LoopPc

-----------------------------------------------------------------------------

\* Cancel is called.
LEMMA CallCancelInv ==
  ASSUME IInv, NEW c \in Context, NEW s \in Source, NEW first \in BOOLEAN, CallCancel(c, s, first)
  PROVE  IInv'
<1>1. PICK f \in Activation : f = Frame("canCheck", s, None) /\ f.pc = "canCheck" /\ f.s = s
  BY FrameType DEF Pc
<1>2. PICK b \in Activation : b = [f EXCEPT !.first = first] /\ b.pc = "canCheck" /\ b.s = s
  BY <1>1, FirstType
<1>3. Push(c, b)
  BY <1>1, <1>2 DEF CallCancel
<1>4. FrameOK(b) /\ Idle(b)
  BY <1>2 DEF FrameOK, RegOK, ReadOK, LoopOK, AfterOK, RegPc, LoopPc, Idle
<1>5. QuietRest
  BY DEF CallCancel, Call, QuietRest, quietVars, sourceVars, delayVars, cpuVars, IInv, TypeOK
<1> QED  BY <1>2, <1>3, <1>4, <1>5, QuietPush DEF CallCancel, Call

\* Cancel looks at _disposed and _canceled.
LEMMA CancelCheckInv ==
  ASSUME IInv, NEW c \in Context, CancelCheck(c)
  PROVE  IInv'
<1>1. QuietRest
  BY DEF CancelCheck, QuietRest, quietVars, sourceVars, delayVars, cpuVars, IInv, TypeOK
<1>2. OnCpu(c) /\ stack[c] # <<>> /\ Top(c).pc = "canCheck"
  BY DEF CancelCheck, At
<1>3. CASE disposed[Top(c).s] /\ Throw(c)
  BY <1>1, <1>2, <1>3, QuietThrow DEF LoopPc
<1>4. CASE ~disposed[Top(c).s] /\ canceled[Top(c).s] /\ Pop(c)
  BY <1>1, <1>2, <1>4, QuietPop DEF LoopPc
<1>5. CASE ~disposed[Top(c).s] /\ ~canceled[Top(c).s] /\ Goto(c, "canSet")
  BY <1>1, <1>2, <1>5, QuietAdvance DEF Pc
<1> QED  BY <1>3, <1>4, <1>5 DEF CancelCheck

\* Register reads the list.
LEMMA RegisterReadInv ==
  ASSUME IInv, NEW c \in Context, RegisterRead(c)
  PROVE  IInv'
<1>1. QuietRest
  BY DEF RegisterRead, QuietRest, quietVars, sourceVars, delayVars, cpuVars, IInv, TypeOK
<1>2. OnCpu(c) /\ stack[c] # <<>> /\ Top(c).pc = "regRead"
  BY DEF RegisterRead, At
<1>3. /\ Top(c) \in Activation /\ FrameOK(Top(c)) /\ (c = "Timer" => Fresh(Top(c)))
      /\ Top(c).s \in Source
  BY <1>2, OnTop DEF FrameOK, RegOK, RegPc
<1>4. callbacks[Top(c).s] \in Seq(Entry)
  BY <1>3 DEF IInv, TypeOK
<1>5. PICK b \in Activation :
        /\ b = WithSeq(Top(c), "regWrite", callbacks[Top(c).s])
        /\ b.pc = "regWrite" /\ b.s = Top(c).s /\ b.e = Top(c).e /\ b.seq = callbacks[Top(c).s]
  <2>1. Top(c) \in Activation /\ callbacks[Top(c).s] \in Seq(Entry) /\ "regWrite" \in Pc
    BY <1>3, <1>4 DEF Pc
  <2>2. /\ WithSeq(Top(c), "regWrite", callbacks[Top(c).s]) \in Activation
        /\ WithSeq(Top(c), "regWrite", callbacks[Top(c).s]).pc = "regWrite"
        /\ WithSeq(Top(c), "regWrite", callbacks[Top(c).s]).s = Top(c).s
        /\ WithSeq(Top(c), "regWrite", callbacks[Top(c).s]).e = Top(c).e
        /\ WithSeq(Top(c), "regWrite", callbacks[Top(c).s]).seq = callbacks[Top(c).s]
    BY <2>1, SeqType
  <2> QED  BY <2>2
<1>6. Replace(c, b)
  BY <1>5 DEF RegisterRead, WithSeq
<1>7. ReadOK(b)
  <2>1. canceled[b.s] \/ ~Inside(b.s, {"canClear"})
    BY <1>3, <1>5 DEF Inside, IInv, Frames, FrameOK, LoopOK, LoopPc
  <2>2. ListOK(b.s)
    BY <1>3, <1>5 DEF IInv, EntriesOK
  <2> QED  BY <2>1, <2>2, <1>5 DEF ReadOK, ListOK
<1>8. FrameOK(b) /\ Heir(b, Top(c))
  BY <1>2, <1>3, <1>5, <1>7 DEF FrameOK, RegOK, LoopOK, AfterOK, RegPc, LoopPc, Heir
<1>9. c = "Timer" => ~canceled[b.s] /\ ~disposed[b.s]
  BY <1>2, <1>3, <1>5 DEF Fresh
<1> QED  BY <1>1, <1>2, <1>5, <1>6, <1>8, <1>9, QuietGoto DEF LoopPc

\* What ends without anything left to do.
LEMMA ReturnsInv ==
  ASSUME IInv, NEW c \in Context,
         RegisterReturns(c) \/ BodyReturns(c) \/ BodyThrows(c) \/ CancelEnds(c) \/ ExceptionLeaves(c)
  PROVE  IInv'
<1>1. QuietRest
  BY DEF RegisterReturns, BodyReturns, BodyThrows, CancelEnds, ExceptionLeaves,
         QuietRest, quietVars, sourceVars, delayVars, cpuVars, IInv, TypeOK
<1>2. OnCpu(c) /\ stack[c] # <<>>
  BY DEF RegisterReturns, BodyReturns, BodyThrows, CancelEnds, ExceptionLeaves, At
<1>3. Top(c).pc \in {"regRun", "body", "throw"} \/ (Top(c).pc = "canLoop" /\ Top(c).seq = <<>>)
  BY DEF RegisterReturns, BodyReturns, BodyThrows, CancelEnds, ExceptionLeaves, At
<1>4. Pop(c) \/ Throw(c)
  BY DEF RegisterReturns, BodyReturns, BodyThrows, CancelEnds, ExceptionLeaves
<1> QED  BY <1>1, <1>2, <1>3, <1>4, QuietPop, QuietThrow DEF LoopPc

\* Cancel goes on after a callback.
LEMMA CancelResumesInv ==
  ASSUME IInv, NEW c \in Context, CancelResumes(c)
  PROVE  IInv'
<1>1. QuietRest
  BY DEF CancelResumes, QuietRest, quietVars, sourceVars, delayVars, cpuVars, IInv, TypeOK
<1> QED  BY <1>1, QuietAdvance DEF CancelResumes, At, Pc

\* The flag of a registration is set.
LEMMA CallUnregisterInv ==
  ASSUME IInv, NEW c \in Context, NEW k \in Callback, CallUnregister(c, k)
  PROVE  IInv'
<1> DEFINE n == Len(stack[c])
<1>1. QuietRest
  BY DEF CallUnregister, Call, QuietRest, quietVars, sourceVars, delayVars, cpuVars, IInv, TypeOK
<1>2. InUserCode(c)
  BY DEF CallUnregister, Call
<1>3. Len(<<>>) = 0
  OBVIOUS
<1>4. StackStep(c, n, <<>>)
  <2>1. Moves(c, n, <<>>)
    BY <1>3, InUser DEF CallUnregister, Moves, IInv, TypeOK
  <2> QED  BY <1>1, <1>2, <1>3, <2>1, InUser DEF StackStep, QuietRest, quietVars
<1>5. Alone(c, n, <<>>)
  BY <1>3, <1>4, HeirIsAlone
<1>6. Leaving(c, n, <<>>)
  BY <1>2, InUser DEF Leaving, Places
<1>7. Entering(c, <<>>)
  BY <1>3 DEF Entering
<1> QED  BY <1>1, <1>4, <1>5, <1>6, <1>7, QuietStep

\* An exception that unwinds knows nothing of a source.
LEMMA ThrowFrame ==
  \E b \in Activation :
    b = Frame("throw", None, None) /\ b.pc = "throw" /\ Idle(b) /\ FrameOK(b) /\ FrameOK(b)'
<1>1. PICK b \in Activation : b = Frame("throw", None, None) /\ b.pc = "throw"
  BY FrameType DEF Pc
<1> QED  BY <1>1 DEF Idle, FrameOK, RegOK, ReadOK, LoopOK, AfterOK, RegPc, LoopPc

\* CancelAfter of a disposed source throws.
LEMMA CallCancelAfterThrows ==
  ASSUME IInv, NEW c \in Context, NEW s \in Source, NEW d \in Delay, CallCancelAfter(c, s, d),
         disposed[s]
  PROVE  IInv'
<1>1. QuietRest /\ InUserCode(c)
  BY DEF CallCancelAfter, Call, QuietRest, quietVars, sourceVars, delayVars, cpuVars, IInv, TypeOK
<1>2. PICK b \in Activation :
        b = Frame("throw", None, None) /\ b.pc = "throw" /\ Idle(b) /\ FrameOK(b)
  BY ThrowFrame
<1>3. Push(c, b)
  BY <1>2 DEF CallCancelAfter
<1> QED  BY <1>1, <1>2, <1>3, QuietPush

\* AddContinuation of a delay that has not elapsed adds.
LEMMA CancelAfterAdds ==
  ASSUME IInv, NEW c \in Context, CancelAfterAdd(c), delay[Top(c).e] = "running"
  PROVE  IInv'
<1>1. QuietRest
  BY DEF CancelAfterAdd, QuietRest, quietVars, sourceVars, delayVars, cpuVars, IInv, TypeOK
<1>2. OnCpu(c) /\ stack[c] # <<>> /\ Top(c).pc = "afterAdd" /\ Pop(c)
  BY DEF CancelAfterAdd, At
<1> QED  BY <1>1, <1>2, QuietPop DEF LoopPc

\* Register found the source neither disposed nor canceled.
LEMMA RegisterGoesOn ==
  ASSUME IInv, NEW c \in Context, RegisterCheck(c), ~disposed[Top(c).s], ~canceled[Top(c).s]
  PROVE  IInv'
<1>1. QuietRest
  BY DEF RegisterCheck, QuietRest, quietVars, sourceVars, delayVars, cpuVars, IInv, TypeOK
<1>2. OnCpu(c) /\ stack[c] # <<>> /\ Top(c).pc = "regCheck" /\ Goto(c, "regRead")
  BY DEF RegisterCheck, At
<1> QED  BY <1>1, <1>2, QuietAdvance DEF Pc

\* The loop found the entry not removed.
LEMMA LoopGoesOn ==
  ASSUME IInv, NEW c \in Context, CancelLoop(c), Head(Top(c).seq) \notin removed
  PROVE  IInv'
<1>1. QuietRest
  BY DEF CancelLoop, QuietRest, quietVars, sourceVars, delayVars, cpuVars, IInv, TypeOK
<1>2. OnCpu(c) /\ stack[c] # <<>> /\ Top(c).pc = "canLoop" /\ Top(c).seq # <<>> /\ Goto(c, "canFire")
  BY DEF CancelLoop, At
<1> QED  BY <1>1, <1>2, QuietAdvance DEF Pc

\* The exception has reached the caller of the innermost call.
LEMMA CatchStep ==
  ASSUME IInv, NEW c \in Context, OnCpu(c), Len(stack[c]) > 1, NEW g \in Activation,
         stack' = [stack EXCEPT ![c] = Append(Front(Front(stack[c])), g)], tick' = tick,
         Top(c).pc = "throw"
  PROVE  /\ StackStep(c, Len(stack[c]) - 2, <<g>>)
         /\ Len(stack[c]) - 1 \in Places(c) /\ Len(stack[c]) \in Nat
         /\ Last(Front(stack[c])) = stack[c][Len(stack[c]) - 1]
         /\ Last(Front(stack[c])) \in Activation /\ FrameOK(Last(Front(stack[c])))
         /\ \A i \in Places(c) : i > Len(stack[c]) - 2 =>
              i = Len(stack[c]) - 1 \/ stack[c][i].pc = "throw"
<1>1. Len(stack[c]) \in Nat /\ stack[c] # <<>>
  BY StackType DEF IInv
<1>2. /\ Moves(c, Len(stack[c]) - 2, <<g>>)
      /\ Last(Front(stack[c])) = stack[c][Len(stack[c]) - 1]
  BY CatchMoves DEF IInv
<1>3. \A i \in 1 .. Len(stack[c]) - 2 : stack[c][i].pc \in Resting
  BY <1>1, OnTop
<1>4. Len(<<g>>) = 1
  OBVIOUS
<1>5. Len(stack[c]) - 1 \in Places(c)
  BY <1>1 DEF Places
<1>6. stack[c][Len(stack[c]) - 1] \in Activation /\ FrameOK(stack[c][Len(stack[c]) - 1])
  BY <1>5, StackType DEF IInv, Frames
<1>7. \A i \in Places(c) : i > Len(stack[c]) - 2 => i = Len(stack[c]) - 1 \/ i = Len(stack[c])
  BY <1>1 DEF Places
<1>8. stack[c][Len(stack[c])].pc = "throw"
  BY <1>1, OnTop
<1> QED  BY <1>1, <1>2, <1>3, <1>4, <1>5, <1>6, <1>7, <1>8 DEF StackStep

\* Cancel's loop keeps the exception, a callback catches it, or it goes on.
LEMMA UnwindQuietly ==
  ASSUME IInv, NEW c \in Context, Unwind(c),
         ~(Last(Front(stack[c])).pc = "canRun" /\ Last(Front(stack[c])).first)
  PROVE  IInv'
<1> DEFINE n == Len(stack[c]) - 2
           f == Last(Front(stack[c]))
<1>1. QuietRest
  BY DEF Unwind, QuietRest, quietVars, sourceVars, delayVars, cpuVars, IInv, TypeOK
<1>2. OnCpu(c) /\ stack[c] # <<>> /\ Top(c).pc = "throw" /\ Len(stack[c]) > 1
  BY DEF Unwind, At
<1>3. ASSUME NEW g \in Activation,
             stack' = [stack EXCEPT ![c] = Append(Front(Front(stack[c])), g)],
             f.pc \in {"canRun", "body", "regRun", "regCheck"},
             FrameOK(g), Heir(g, f), g.pc \in {"canLoop", "body", "throw"},
             f.pc = "canRun" => g.pc = "canLoop" /\ g.s = f.s /\ g.seq = f.seq
      PROVE  IInv'
  <2>1. /\ StackStep(c, n, <<g>>)
        /\ Len(stack[c]) - 1 \in Places(c) /\ Len(stack[c]) - 1 > n
        /\ f = stack[c][Len(stack[c]) - 1]
        /\ \A i \in Places(c) : i > n => stack[c][i] = f \/ stack[c][i].pc = "throw"
    <3>1. tick' = tick
      BY <1>1 DEF QuietRest, quietVars
    <3>2. /\ StackStep(c, n, <<g>>)
          /\ Len(stack[c]) - 1 \in Places(c) /\ Len(stack[c]) \in Nat
          /\ f = stack[c][Len(stack[c]) - 1]
          /\ \A i \in Places(c) : i > n =>
               i = Len(stack[c]) - 1 \/ stack[c][i].pc = "throw"
      BY <1>2, <1>3, <3>1, CatchStep
    <3> QED  BY <3>2
  <2>2. Len(<<g>>) = 1 /\ <<g>>[1] = g
    OBVIOUS
  <2>3. \A j \in 1 .. Len(<<g>>) : j = 1 /\ Heir(<<g>>[j], stack[c][Len(stack[c]) - 1])
    BY <1>3, <2>1, <2>2
  <2>4. Alone(c, n, <<g>>)
    BY <2>1, <2>3, HeirIsAlone
  <2>5. Leaving(c, n, <<g>>)
    <3>1. 1 \in 1 .. Len(<<g>>)
      BY <2>2
    <3> HIDE DEF f, n
    <3> QED  BY <1>3, <2>1, <2>2, <3>1 DEF Leaving, LoopPc
  <2>6. Entering(c, <<g>>)
    BY <1>3, <2>2 DEF Entering
  <2> QED  BY <1>1, <2>1, <2>4, <2>5, <2>6, QuietStep
<1>4. f \in Activation /\ FrameOK(f)
  <2>1. Len(stack[c]) - 1 \in Places(c)
    BY <1>2, StackType DEF Places, IInv
  <2>2. stack[c] \in Seq(Activation)
    BY StackType DEF IInv
  <2>3. f = stack[c][Len(stack[c]) - 1]
    <3>1. /\ Front(stack[c]) \in Seq(Activation) /\ Len(stack[c]) \in Nat
          /\ Len(Front(stack[c])) = Len(stack[c]) - 1
          /\ \A i \in 1 .. Len(stack[c]) - 1 : Front(stack[c])[i] = stack[c][i]
      BY <1>2, <2>2, FrontFacts
    <3>2. Len(stack[c]) - 1 \in 1 .. Len(stack[c]) - 1
      BY <1>2, <3>1
    <3> QED  BY <3>1, <3>2 DEF Last
  <2> QED  BY <2>1, <2>3, StackType DEF IInv, Frames
<1>5. PICK b \in Activation :
        b = Frame("throw", None, None) /\ b.pc = "throw" /\ Idle(b) /\ FrameOK(b)
  BY ThrowFrame
<1>6. CASE f.pc = "canRun" /\ ~f.first /\
             stack' = [stack EXCEPT ![c] = Append(Front(Front(stack[c])),
                                                  [f EXCEPT !.pc = "canLoop", !.failed = TRUE])]
  <2>1. PICK g \in Activation : g = [f EXCEPT !.pc = "canLoop", !.failed = TRUE]
    <3>1. [f EXCEPT !.pc = "canLoop", !.failed = TRUE] \in Activation
      BY <1>4 DEF Activation, Pc
    <3> QED  BY <3>1
  <2>2. g.pc = "canLoop" /\ g.s = f.s /\ g.seq = f.seq
    BY <1>4, <2>1 DEF Activation
  <2> HIDE DEF f
  <2>3. FrameOK(g) /\ Heir(g, f)
    BY <1>4, <1>6, <2>2 DEF FrameOK, RegOK, ReadOK, LoopOK, AfterOK, RegPc, LoopPc, Heir
  <2> QED  BY <1>3, <1>6, <2>1, <2>2, <2>3
<1>7. CASE f.pc = "body" /\ stack' = [stack EXCEPT ![c] = Append(Front(Front(stack[c])), f)]
  <2>1. Heir(f, f)
    BY <1>7 DEF Heir
  <2> HIDE DEF f
  <2> QED  BY <1>3, <1>4, <1>7, <2>1
<1>8. CASE f.pc \in {"regRun", "regCheck", "body"} /\
             stack' = [stack EXCEPT ![c] =
                         Append(Front(Front(stack[c])), Frame("throw", None, None))]
  <2>1. Heir(b, f)
    BY <1>5 DEF Heir, RegPc, LoopPc
  <2> HIDE DEF f
  <2> QED  BY <1>3, <1>5, <1>8, <2>1
<1> QED  BY <1>6, <1>7, <1>8 DEF Unwind

-----------------------------------------------------------------------------
(* Steps that change the phase of the entries a call holds.                 *)

\* The phases after SetPhase.
LEMMA PhaseOf ==
  ASSUME TypeOK, NEW s \in Source, NEW E, NEW ph \in Phase, SetPhase(s, E, ph)
  PROVE  /\ phase' \in [Source -> [Entry -> Phase]]
         /\ \A r \in Source : \A e \in Entry :
              phase'[r][e] = IF r = s /\ e \in E THEN ph ELSE phase[r][e]
<1>1. PICK g : g = [e \in Entry |-> IF e \in E THEN ph ELSE phase[s][e]]
  OBVIOUS
<1>2. phase' = [phase EXCEPT ![s] = g]
  BY <1>1 DEF SetPhase
<1>3. phase \in [Source -> [Entry -> Phase]]
  BY DEF TypeOK
<1>4. g \in [Entry -> Phase] /\ \A e \in Entry : g[e] = IF e \in E THEN ph ELSE phase[s][e]
  BY <1>1, <1>3
<1>5. phase'[s] = g /\ \A r \in Source : r # s => phase'[r] = phase[r]
  BY <1>2, <1>3
<1>6. phase' \in [Source -> [Entry -> Phase]]
  BY <1>2, <1>3, <1>4
<1> QED  BY <1>4, <1>5, <1>6

\* An entry is run: a callback, or Cancel of a linked source.
LEMMA InvocationFrame ==
  ASSUME NEW e \in Entry
  PROVE  \E b \in Activation :
           /\ b = Invocation(e) /\ Idle(b) /\ FrameOK(b)'
           /\ b.pc \in {"body", "canCheck"}
           /\ e \in Source => b.pc = "canCheck" /\ b.s = e
<1>1. CASE e \in Callback
  <2>1. PICK b \in Activation : b = Frame("body", None, e) /\ b.pc = "body"
    BY FrameType DEF Pc
  <2>2. e \notin Source
    BY <1>1, DistinctAssumption
  <2> QED  BY <1>1, <2>1, <2>2
           DEF Invocation, Idle, FrameOK, RegOK, ReadOK, LoopOK, AfterOK, RegPc, LoopPc
<1>2. CASE e \notin Callback
  <2>1. e \in Source
    BY <1>2 DEF Entry
  <2>2. PICK b \in Activation : b = Frame("canCheck", e, None) /\ b.pc = "canCheck" /\ b.s = e
    BY <2>1, FrameType DEF Pc
  <2> QED  BY <1>2, <2>1, <2>2
           DEF Invocation, Idle, FrameOK, RegOK, ReadOK, LoopOK, AfterOK, RegPc, LoopPc
<1> QED  BY <1>1, <1>2

\* The tail of a list without duplicates.
LEMMA TailFacts ==
  ASSUME NEW q \in Seq(Entry), q # <<>>
  PROVE  /\ Head(q) \in Entry /\ Head(q) \in Of(q) /\ Tail(q) \in Seq(Entry)
         /\ Of(Tail(q)) \subseteq Of(q)
         /\ \A e \in Of(q) : e = Head(q) \/ e \in Of(Tail(q))
         /\ NoDup(q) => NoDup(Tail(q)) /\ Head(q) \notin Of(Tail(q))
<1>1. /\ Len(q) \in Nat /\ Len(q) > 0 /\ \A i \in 1 .. Len(q) : q[i] \in Entry
  BY EmptySeq, LenProperties, ElementOfSeq
<1>2. /\ Head(q) = q[1] /\ Tail(q) \in Seq(Entry) /\ Len(Tail(q)) = Len(q) - 1
      /\ \A i \in 1 .. Len(q) - 1 : Tail(q)[i] = q[i + 1]
  BY HeadTailProperties
<1>3. Head(q) \in Entry /\ Head(q) \in Of(q)
  BY <1>1, <1>2 DEF Of
<1>4. \A i \in 1 .. Len(q) - 1 : i + 1 \in 1 .. Len(q) /\ i + 1 # 1
  BY <1>1
<1>5. Of(Tail(q)) \subseteq Of(q)
  BY <1>2, <1>4 DEF Of
<1>6. \A e \in Of(q) : e = Head(q) \/ e \in Of(Tail(q))
  <2>1. ASSUME NEW i \in 1 .. Len(q), i # 1  PROVE q[i] \in Of(Tail(q))
    <3>1. i - 1 \in 1 .. Len(q) - 1 /\ (i - 1) + 1 = i
      BY <1>1, <2>1
    <3> QED  BY <1>2, <3>1 DEF Of
  <2> QED  BY <2>1, <1>2 DEF Of
<1>7. ASSUME NoDup(q)  PROVE NoDup(Tail(q)) /\ Head(q) \notin Of(Tail(q))
  <2>1. \A i, j \in 1 .. Len(q) - 1 : Tail(q)[i] = Tail(q)[j] => i = j
    <3>1. ASSUME NEW i \in 1 .. Len(q) - 1, NEW j \in 1 .. Len(q) - 1, Tail(q)[i] = Tail(q)[j]
          PROVE  i = j
      <4>1. q[i + 1] = q[j + 1] /\ i + 1 \in 1 .. Len(q) /\ j + 1 \in 1 .. Len(q)
        BY <3>1, <1>2, <1>4
      <4>2. i + 1 = j + 1
        BY <4>1, <1>7 DEF NoDup
      <4> QED  BY <4>2, <1>1
    <3> QED  BY <3>1
  <2>2. \A i \in 1 .. Len(q) - 1 : Tail(q)[i] # Head(q)
    BY <1>1, <1>2, <1>4, <1>7 DEF NoDup
  <2> QED  BY <1>2, <2>1, <2>2 DEF NoDup, Of
<1> QED  BY <1>2, <1>3, <1>5, <1>6, <1>7

\* The entries of a list, as the model and as the invariant have them.
LEMMA OfIsToSet ==
  ASSUME NEW S, NEW q \in Seq(S)
  PROVE  ToSet(q) = Of(q) /\ Of(q) \subseteq S
BY LenProperties, ElementOfSeq DEF ToSet, Of

\* A disposed source drops what is to be registered.
LEMMA RegisterThrows ==
  ASSUME IInv, NEW c \in Context, RegisterCheck(c), disposed[Top(c).s]
  PROVE  IInv'
<1> DEFINE n == Len(stack[c]) - 1
<1>1. OnCpu(c) /\ stack[c] # <<>> /\ Top(c).pc = "regCheck" /\ Throw(c)
      /\ SetPhase(Top(c).s, {Top(c).e}, "dropped")
      /\ UNCHANGED <<sourceVars, delayVars, cpuVars, calls, raced>>
  BY DEF RegisterCheck, At
<1>2. PICK f \in Activation : f = Top(c) /\ f.pc = "regCheck" /\ FrameOK(f)
                                /\ f = stack[c][Len(stack[c])]
  BY <1>1, OnTop
<1>3. f.s \in Source /\ f.e \in Entry /\ (f.e \in Source => f.e \in created)
  BY <1>2, DistinctAssumption DEF FrameOK, RegOK, RegPc
<1>4. PICK b \in Activation :
        b = Frame("throw", None, None) /\ b.pc = "throw" /\ Idle(b) /\ FrameOK(b)'
  BY ThrowFrame
<1>5. StackStep(c, n, <<b>>)
  BY <1>1, <1>4, ReplaceStep DEF Throw, cpuVars
<1>6. Len(<<b>>) = 1 /\ <<b>>[1] = b
  OBVIOUS
<1>7. /\ phase' \in [Source -> [Entry -> Phase]]
      /\ \A r \in Source : \A e \in Entry :
           phase'[r][e] = IF r = f.s /\ e \in {f.e} THEN "dropped" ELSE phase[r][e]
  <2>1. "dropped" \in Phase /\ TypeOK
    BY DEF Phase, IInv
  <2> QED  BY <1>1, <1>2, <1>3, <2>1, PhaseOf
<1>8. TypeOK'
  BY <1>1, <1>5, <1>7 DEF IInv, TypeOK, StackStep, Moves, sourceVars, delayVars, cpuVars
<1>9. Alone(c, n, <<b>>)
  BY <1>4, <1>5, <1>6, HeirIsAlone
<1>10. Enters(c, <<b>>)
  BY <1>4, <1>6 DEF Enters
<1>11. Leaves(c, n, <<b>>)
  <2>1. \A i \in Places(c) : i > n => stack[c][i].pc = "regCheck"
    BY <1>1, <1>2, TopPlace
  <2> QED  BY <2>1 DEF Leaves, LoopPc
<1>12. PhasesStep(c, n)
  <2>1. n \in Nat /\ Len(stack[c]) \in Places(c) /\ Len(stack[c]) > n
    BY <1>1, OnTop
  <2>2. \A s \in Source, e \in Entry : phase'[s][e] # phase[s][e] =>
           /\ Holds(f, s, e)
           /\ phase'[s][e] = "dropped"
           /\ e \in Source => e \in created'
    BY <1>1, <1>2, <1>3, <1>7 DEF Holds, RegPc, sourceVars
  <2> QED  BY <1>2, <2>1, <2>2, HeldPhases
<1>13. DelaysStep(c, n)
  BY <1>1, SameDelays DEF delayVars, sourceVars
<1>14. KeepsSources
  BY <1>1 DEF KeepsSources, sourceVars
<1> QED  BY <1>5, <1>8, <1>9, <1>10, <1>11, <1>12, <1>13, <1>14, CalmStep

\* A step that changes only calls and the phase of entries E that call f holds, which ends.
LEMMA HeldStep ==
  ASSUME IInv, NEW c \in Context, NEW n, NEW as, StackStep(c, n, as),
         NEW k \in Places(c), k > n, NEW f \in Activation, f = stack[c][k], f.s \in Source,
         NEW E, NEW ph \in {"ran", "skipped", "dropped"}, SetPhase(f.s, E, ph),
         \A e \in Entry : e \in E =>
           /\ Holds(f, f.s, e)
           /\ e \in Source => e \in created /\ (ph = "ran" => NewInside(as, e, {"canCheck", "canSet"})),
         UNCHANGED <<sourceVars, delayVars, cpuVars, calls, raced>>,
         Alone(c, n, as), Enters(c, as), Leaves(c, n, as)
  PROVE  IInv'
<1>1. /\ phase' \in [Source -> [Entry -> Phase]]
      /\ \A r \in Source : \A e \in Entry :
           phase'[r][e] = IF r = f.s /\ e \in E THEN ph ELSE phase[r][e]
  <2>1. ph \in Phase /\ TypeOK
    BY DEF Phase, IInv
  <2> QED  BY <2>1, PhaseOf
<1>2. TypeOK'
  BY <1>1 DEF IInv, TypeOK, StackStep, Moves, sourceVars, delayVars, cpuVars
<1>3. PhasesStep(c, n)
  <2>1. n \in Nat
    BY DEF StackStep, Moves
  <2>2. ASSUME NEW e \in Source, NewInside(as, e, {"canCheck", "canSet"})
        PROVE  Inside(e, {"canCheck", "canSet"})'
    BY <2>2, InsideStep DEF IInv
  <2>3. \A s \in Source, e \in Entry : phase'[s][e] # phase[s][e] =>
           /\ s = f.s /\ e \in E /\ Holds(f, s, e)
           /\ phase'[s][e] = ph
           /\ e \in Source =>
                e \in created' /\ (ph = "ran" => Inside(e, {"canCheck", "canSet"})')
    BY <1>1, <2>2 DEF sourceVars
  <2> QED  BY <2>1, <2>3, HeldPhases
<1>4. DelaysStep(c, n)
  BY SameDelays DEF delayVars, sourceVars
<1>5. KeepsSources
  BY DEF KeepsSources, sourceVars
<1> QED  BY <1>2, <1>3, <1>4, <1>5, CalmStep

\* A canceled source runs what is to be registered.
LEMMA RegisterRuns ==
  ASSUME IInv, NEW c \in Context, RegisterCheck(c), ~disposed[Top(c).s], canceled[Top(c).s]
  PROVE  IInv'
<1> DEFINE n == Len(stack[c]) - 1
<1>1. OnCpu(c) /\ stack[c] # <<>> /\ Top(c).pc = "regCheck"
      /\ RunIn(c, "regRun", Invocation(Top(c).e))
      /\ SetPhase(Top(c).s, {Top(c).e}, "ran")
      /\ UNCHANGED <<sourceVars, delayVars, cpuVars, calls, raced>>
  BY DEF RegisterCheck, At
<1>2. PICK f \in Activation : f = Top(c) /\ f.pc = "regCheck" /\ FrameOK(f)
                                /\ f = stack[c][Len(stack[c])]
  BY <1>1, OnTop
<1>3. f.s \in Source /\ f.e \in Entry /\ (f.e \in Source => f.e \in created)
  BY <1>2, DistinctAssumption DEF FrameOK, RegOK, RegPc
<1>4. PICK a \in Activation : a = [f EXCEPT !.pc = "regRun"] /\ a.pc = "regRun"
  <2>1. [f EXCEPT !.pc = "regRun"] \in Activation /\ [f EXCEPT !.pc = "regRun"].pc = "regRun"
    BY GotoType DEF Pc
  <2> QED  BY <2>1
<1>5. PICK b \in Activation :
           /\ b = Invocation(f.e) /\ Idle(b) /\ FrameOK(b)'
           /\ b.pc \in {"body", "canCheck"}
           /\ f.e \in Source => b.pc = "canCheck" /\ b.s = f.e
  BY <1>3, InvocationFrame
<1>6. Len(<<a, b>>) = 2 /\ <<a, b>>[1] = a /\ <<a, b>>[2] = b
  OBVIOUS
<1>7. \A j \in 1 .. Len(<<a, b>>) : <<a, b>>[j] = a \/ <<a, b>>[j] = b
  BY <1>6
<1>8. StackStep(c, n, <<a, b>>)
  <2>1. Moves(c, n, <<a, b>>)
    BY <1>1, <1>2, <1>4, <1>5, TwoMoves DEF RunIn, IInv
  <2>2. \A j \in 1 .. Len(<<a, b>>) : j < Len(<<a, b>>) => <<a, b>>[j].pc \in Resting
    <3>1. \A j \in 1 .. 2 : j < 2 => j = 1
      OBVIOUS
    <3> QED  BY <3>1, <1>4, <1>6 DEF Resting
  <2>3. tick' = tick /\ <<a, b>> \in Seq(Activation)
    BY <1>1 DEF cpuVars
  <2> QED  BY <1>1, <2>1, <2>2, <2>3, OnTop DEF StackStep
<1>9. Idle(a) /\ FrameOK(a)'
  BY <1>4 DEF Idle, FrameOK, RegOK, ReadOK, LoopOK, AfterOK, RegPc, LoopPc
<1>10. Alone(c, n, <<a, b>>)
  BY <1>5, <1>7, <1>8, <1>9, HeirIsAlone
<1>11. Enters(c, <<a, b>>)
  BY <1>4, <1>5, <1>7, <1>9 DEF Enters
<1>12. Leaves(c, n, <<a, b>>)
  <2>1. \A i \in Places(c) : i > n => stack[c][i].pc = "regCheck"
    BY <1>1, <1>2, TopPlace
  <2> QED  BY <2>1 DEF Leaves, LoopPc
<1>13. \A e \in Entry : e \in {f.e} =>
         /\ Holds(f, f.s, e)
         /\ e \in Source => e \in created /\ NewInside(<<a, b>>, e, {"canCheck", "canSet"})
  <2>1. f.e \in Source => NewInside(<<a, b>>, f.e, {"canCheck", "canSet"})
    BY <1>5, <1>6 DEF NewInside
  <2> QED  BY <1>2, <1>3, <2>1 DEF Holds, RegPc
<1>14. Len(stack[c]) \in Places(c) /\ Len(stack[c]) > n
  BY <1>1, OnTop
<1> QED  BY <1>1, <1>2, <1>3, <1>8, <1>10, <1>11, <1>12, <1>13, <1>14, HeldStep

\* The loop of a Cancel at its next entry.
LEMMA LoopEntry ==
  ASSUME IInv, NEW c \in Context, OnCpu(c), stack[c] # <<>>, Top(c).pc \in {"canLoop", "canFire"},
         Top(c).seq # <<>>
  PROVE  /\ Top(c).s \in Source /\ canceled[Top(c).s]
         /\ Top(c).seq \in Seq(Entry)
         /\ Head(Top(c).seq) \in Entry /\ Head(Top(c).seq) \in Of(Top(c).seq)
         /\ Tail(Top(c).seq) \in Seq(Entry)
         /\ Of(Tail(Top(c).seq)) \subseteq Of(Top(c).seq) /\ Of(Top(c).seq) \subseteq Entry
         /\ \A e \in Of(Top(c).seq) : e = Head(Top(c).seq) \/ e \in Of(Tail(Top(c).seq))
         /\ NoDup(Tail(Top(c).seq)) /\ Head(Top(c).seq) \notin Of(Tail(Top(c).seq))
         /\ \A e \in Of(Top(c).seq) : phase[Top(c).s][e] = "taken"
         /\ Head(Top(c).seq) \in Source => Head(Top(c).seq) \in created
<1>1. Top(c) \in Activation /\ FrameOK(Top(c))
  BY OnTop
<1>2. PICK q \in Seq(Entry) : q = Top(c).seq
  BY <1>1 DEF Activation
<1>3. /\ Top(c).s \in Source /\ canceled[Top(c).s] /\ NoDup(q)
      /\ \A e \in Of(q) : phase[Top(c).s][e] = "taken"
  BY <1>1, <1>2 DEF FrameOK, LoopOK, LoopPc
<1>4. /\ Head(q) \in Entry /\ Head(q) \in Of(q) /\ Tail(q) \in Seq(Entry)
      /\ Of(Tail(q)) \subseteq Of(q)
      /\ \A e \in Of(q) : e = Head(q) \/ e \in Of(Tail(q))
      /\ NoDup(Tail(q)) /\ Head(q) \notin Of(Tail(q))
  BY <1>2, <1>3, TailFacts
<1>5. Of(q) \subseteq Entry
  BY OfIsToSet
<1>6. Head(q) \in Source => Head(q) \in created
  BY <1>3, <1>4 DEF IInv, EntriesOK, LinkOK
<1> QED  BY <1>2, <1>3, <1>4, <1>5, <1>6

\* It goes on with the rest of its list.
LEMMA LoopRest ==
  ASSUME IInv, NEW c \in Context, OnCpu(c), stack[c] # <<>>, Top(c).pc \in {"canLoop", "canFire"},
         Top(c).seq # <<>>, NEW ph \in {"ran", "skipped"},
         SetPhase(Top(c).s, {Head(Top(c).seq)}, ph),
         UNCHANGED <<sourceVars, delayVars, cpuVars, calls, raced>>,
         NEW pc \in {"canLoop", "canRun"}
  PROVE  \E a \in Activation :
           /\ a = WithSeq(Top(c), pc, Tail(Top(c).seq))
           /\ a.pc = pc /\ a.s = Top(c).s /\ a.seq = Tail(Top(c).seq)
           /\ FrameOK(a)' /\ Heir(a, Top(c))
           /\ \A e \in Of(Top(c).seq) : phase'[Top(c).s][e] = "taken" => e \in Of(a.seq)
<1>1. /\ Top(c).s \in Source /\ canceled[Top(c).s]
      /\ Head(Top(c).seq) \in Entry
      /\ Tail(Top(c).seq) \in Seq(Entry)
      /\ Of(Tail(Top(c).seq)) \subseteq Of(Top(c).seq) /\ Of(Top(c).seq) \subseteq Entry
      /\ \A e \in Of(Top(c).seq) : e = Head(Top(c).seq) \/ e \in Of(Tail(Top(c).seq))
      /\ NoDup(Tail(Top(c).seq)) /\ Head(Top(c).seq) \notin Of(Tail(Top(c).seq))
      /\ \A e \in Of(Top(c).seq) : phase[Top(c).s][e] = "taken"
  BY LoopEntry
<1>2. pc \in Pc /\ ph \in Phase /\ Top(c) \in Activation
  BY OnTop DEF Pc, Phase
<1>3. PICK a \in Activation :
           /\ a = WithSeq(Top(c), pc, Tail(Top(c).seq))
           /\ a.pc = pc /\ a.s = Top(c).s /\ a.seq = Tail(Top(c).seq)
  <2>1. /\ WithSeq(Top(c), pc, Tail(Top(c).seq)) \in Activation
        /\ WithSeq(Top(c), pc, Tail(Top(c).seq)).pc = pc
        /\ WithSeq(Top(c), pc, Tail(Top(c).seq)).s = Top(c).s
        /\ WithSeq(Top(c), pc, Tail(Top(c).seq)).seq = Tail(Top(c).seq)
    <3>1. PICK t \in Activation : t = Top(c)
      BY <1>2
    <3>2. PICK q \in Seq(Entry) : q = Tail(Top(c).seq)
      BY <1>1
    <3>3. /\ WithSeq(t, pc, q) \in Activation
          /\ WithSeq(t, pc, q).pc = pc /\ WithSeq(t, pc, q).s = t.s /\ WithSeq(t, pc, q).seq = q
      BY <1>2, SeqType
    <3> QED  BY <3>1, <3>2, <3>3
  <2> QED  BY <2>1
<1>4. \A e \in Entry :
        phase'[Top(c).s][e] = IF e = Head(Top(c).seq) THEN ph ELSE phase[Top(c).s][e]
  <2>1. TypeOK
    BY DEF IInv
  <2>2. \A r \in Source : \A e \in Entry :
          phase'[r][e] = IF r = Top(c).s /\ e \in {Head(Top(c).seq)} THEN ph ELSE phase[r][e]
    BY <1>1, <1>2, <2>1, PhaseOf
  <2> QED  BY <1>1, <2>2
<1>5. \A e \in Of(a.seq) : phase'[a.s][e] = "taken"
  BY <1>1, <1>3, <1>4
<1>6. canceled' = canceled
  BY DEF sourceVars
<1>7. FrameOK(a)'
  BY <1>1, <1>3, <1>5, <1>6 DEF FrameOK, RegOK, ReadOK, LoopOK, AfterOK, RegPc, LoopPc
<1>8. Heir(a, Top(c))
  BY <1>1, <1>3 DEF Heir, RegPc, LoopPc
<1>9. \A e \in Of(Top(c).seq) : phase'[Top(c).s][e] = "taken" => e \in Of(a.seq)
  BY <1>1, <1>3, <1>4
<1> QED  BY <1>3, <1>7, <1>8, <1>9

\* A removed entry is skipped.
LEMMA LoopSkips ==
  ASSUME IInv, NEW c \in Context, CancelLoop(c), Head(Top(c).seq) \in removed
  PROVE  IInv'
<1> DEFINE n == Len(stack[c]) - 1
           h == Head(Top(c).seq)
<1>1. /\ OnCpu(c) /\ stack[c] # <<>> /\ Top(c).pc = "canLoop" /\ Top(c).seq # <<>>
      /\ Replace(c, [Top(c) EXCEPT !.seq = Tail(@)])
      /\ SetPhase(Top(c).s, {h}, "skipped")
      /\ UNCHANGED <<sourceVars, delayVars, cpuVars, calls, raced>>
  BY DEF CancelLoop, At
<1>2. PICK f \in Activation : f = Top(c) /\ FrameOK(f) /\ f = stack[c][Len(stack[c])]
  BY <1>1, OnTop
<1>3. /\ f.s \in Source /\ h \in Of(f.seq) /\ (h \in Source => h \in created)
  BY <1>1, <1>2, LoopEntry
<1>4. PICK a \in Activation :
           /\ a = WithSeq(Top(c), "canLoop", Tail(Top(c).seq))
           /\ a.pc = "canLoop" /\ a.s = Top(c).s /\ a.seq = Tail(Top(c).seq)
           /\ FrameOK(a)' /\ Heir(a, Top(c))
           /\ \A e \in Of(Top(c).seq) : phase'[Top(c).s][e] = "taken" => e \in Of(a.seq)
  BY <1>1, LoopRest
<1>5. Replace(c, a)
  <2>1. WithSeq(Top(c), "canLoop", Tail(Top(c).seq)) = [Top(c) EXCEPT !.seq = Tail(@)]
    BY <1>1, <1>2 DEF WithSeq, Activation
  <2> QED  BY <1>1, <1>4, <2>1
<1>6. Len(<<a>>) = 1 /\ <<a>>[1] = a
  OBVIOUS
<1>7. StackStep(c, n, <<a>>)
  BY <1>1, <1>5, ReplaceStep DEF cpuVars
<1>8. Len(stack[c]) \in Places(c) /\ Len(stack[c]) > n
  BY <1>1, OnTop
<1>9. Alone(c, n, <<a>>)
  <2>1. \A j \in 1 .. Len(<<a>>) : j = 1 /\ Heir(<<a>>[j], stack[c][Len(stack[c])])
    BY <1>2, <1>4, <1>6
  <2> QED  BY <1>7, <1>8, <2>1, HeirIsAlone
<1>10. Enters(c, <<a>>)
  BY <1>4, <1>6 DEF Enters
<1>11. Leaves(c, n, <<a>>)
  <2>1. \A i \in Places(c) : i > n => stack[c][i] = f
    BY <1>1, <1>2, TopPlace
  <2>2. 1 \in 1 .. Len(<<a>>) /\ a.pc \in LoopPc
    BY <1>4, <1>6 DEF LoopPc
  <2>3. f.pc = "canLoop" /\ a.s = f.s
    BY <1>1, <1>2, <1>4
  <2> QED  BY <1>2, <1>4, <1>6, <2>1, <2>2, <2>3 DEF Leaves
<1>12. \A e \in Entry : e \in {h} => Holds(f, f.s, e) /\ (e \in Source => e \in created)
  BY <1>1, <1>2, <1>3 DEF Holds, LoopPc
<1>13. SetPhase(f.s, {h}, "skipped")
  BY <1>1, <1>2
<1> HIDE DEF h, n
<1> QED  BY <1>1, <1>2, <1>3, <1>7, <1>8, <1>9, <1>10, <1>11, <1>12, <1>13, HeldStep

\* The next callback is called.
LEMMA CancelFireInv ==
  ASSUME IInv, NEW c \in Context, CancelFire(c)
  PROVE  IInv'
<1> DEFINE n == Len(stack[c]) - 1
           h == Head(Top(c).seq)
<1>0. /\ OnCpu(c) /\ stack[c] # <<>> /\ Top(c).pc = "canFire" /\ FrameOK(Top(c))
      /\ Top(c) \in Activation
  BY OnTop DEF CancelFire, At
<1>1. /\ Top(c).seq # <<>>
      /\ stack' = [stack EXCEPT ![c] =
              Append(Front(@), [Top(c) EXCEPT !.pc = "canRun", !.seq = Tail(@)])
                \o <<Invocation(h)>>]
      /\ SetPhase(Top(c).s, {h}, "ran")
      /\ UNCHANGED <<sourceVars, delayVars, cpuVars, calls, raced>>
  BY <1>0 DEF CancelFire, FrameOK, LoopOK
<1>2. PICK f \in Activation : f = Top(c) /\ FrameOK(f) /\ f = stack[c][Len(stack[c])]
  BY <1>0, OnTop
<1>3. /\ f.s \in Source /\ h \in Of(f.seq) /\ (h \in Source => h \in created) /\ h \in Entry
  BY <1>0, <1>1, <1>2, LoopEntry
<1>4. PICK a \in Activation :
           /\ a = WithSeq(Top(c), "canRun", Tail(Top(c).seq))
           /\ a.pc = "canRun" /\ a.s = Top(c).s /\ a.seq = Tail(Top(c).seq)
           /\ FrameOK(a)' /\ Heir(a, Top(c))
           /\ \A e \in Of(Top(c).seq) : phase'[Top(c).s][e] = "taken" => e \in Of(a.seq)
  BY <1>0, <1>1, LoopRest
<1>5. PICK b \in Activation :
           /\ b = Invocation(h) /\ Idle(b) /\ FrameOK(b)'
           /\ b.pc \in {"body", "canCheck"}
           /\ h \in Source => b.pc = "canCheck" /\ b.s = h
  BY <1>3, InvocationFrame
<1>6. Len(<<a, b>>) = 2 /\ <<a, b>>[1] = a /\ <<a, b>>[2] = b
  OBVIOUS
<1>7. \A j \in 1 .. Len(<<a, b>>) : (j = 1 /\ <<a, b>>[j] = a) \/ (j = 2 /\ <<a, b>>[j] = b)
  <2>1. \A j \in 1 .. 2 : j = 1 \/ j = 2
    OBVIOUS
  <2> QED  BY <2>1, <1>6
<1>8. StackStep(c, n, <<a, b>>)
  <2>1. WithSeq(Top(c), "canRun", Tail(Top(c).seq)) = [Top(c) EXCEPT !.pc = "canRun", !.seq = Tail(@)]
    BY <1>0 DEF WithSeq, Activation
  <2>2. stack' = [stack EXCEPT ![c] = Append(Front(@), a) \o <<b>>]
    BY <1>1, <1>4, <1>5, <2>1
  <2>3. Moves(c, n, <<a, b>>)
    BY <1>0, <2>2, TwoMoves DEF IInv
  <2>4. \A j \in 1 .. Len(<<a, b>>) : j < Len(<<a, b>>) => <<a, b>>[j].pc \in Resting
    <3>1. \A j \in 1 .. 2 : j < 2 => j = 1
      OBVIOUS
    <3> QED  BY <3>1, <1>4, <1>6 DEF Resting
  <2>5. tick' = tick /\ <<a, b>> \in Seq(Activation)
    BY <1>1 DEF cpuVars
  <2> QED  BY <1>0, <2>3, <2>4, <2>5, OnTop DEF StackStep
<1>9. Len(stack[c]) \in Places(c) /\ Len(stack[c]) > n
  BY <1>0, OnTop
<1>10. Alone(c, n, <<a, b>>)
  <2>1. \A j \in 1 .. Len(<<a, b>>) :
          Idle(<<a, b>>[j]) \/ (j = 1 /\ Heir(<<a, b>>[j], stack[c][Len(stack[c])]))
    BY <1>2, <1>4, <1>5, <1>7
  <2> QED  BY <1>8, <1>9, <2>1, HeirIsAlone
<1>11. Enters(c, <<a, b>>)
  BY <1>4, <1>5, <1>7 DEF Enters
<1>12. Leaves(c, n, <<a, b>>)
  <2>1. \A i \in Places(c) : i > n => stack[c][i] = f
    BY <1>0, <1>2, TopPlace
  <2>2. 1 \in 1 .. Len(<<a, b>>) /\ a.pc \in LoopPc
    BY <1>4, <1>6 DEF LoopPc
  <2>3. f.pc = "canFire" /\ a.s = f.s
    BY <1>0, <1>2, <1>4
  <2> QED  BY <1>2, <1>4, <1>6, <2>1, <2>2, <2>3 DEF Leaves
<1>13. \A e \in Entry : e \in {h} =>
         /\ Holds(f, f.s, e)
         /\ e \in Source => e \in created /\ NewInside(<<a, b>>, e, {"canCheck", "canSet"})
  <2>1. h \in Source => NewInside(<<a, b>>, h, {"canCheck", "canSet"})
    BY <1>5, <1>6 DEF NewInside
  <2> QED  BY <1>0, <1>2, <1>3, <2>1 DEF Holds, LoopPc
<1>14. SetPhase(f.s, {h}, "ran")
  BY <1>1, <1>2
<1> HIDE DEF h, n
<1> QED  BY <1>1, <1>2, <1>3, <1>8, <1>9, <1>10, <1>11, <1>12, <1>13, <1>14, HeldStep

\* Cancel(true) lets the exception through and drops the rest of its list.
LEMMA UnwindDrops ==
  ASSUME IInv, NEW c \in Context, Unwind(c),
         Last(Front(stack[c])).pc = "canRun", Last(Front(stack[c])).first
  PROVE  IInv'
<1> DEFINE n == Len(stack[c]) - 2
<1>1. /\ OnCpu(c) /\ stack[c] # <<>> /\ Top(c).pc = "throw" /\ Len(stack[c]) > 1
      /\ stack' = [stack EXCEPT ![c] = Append(Front(Front(stack[c])), Frame("throw", None, None))]
      /\ SetPhase(Last(Front(stack[c])).s, ToSet(Last(Front(stack[c])).seq), "dropped")
      /\ UNCHANGED <<sourceVars, delayVars, cpuVars, calls, raced>>
  BY DEF Unwind, At
<1>2. PICK b \in Activation :
        b = Frame("throw", None, None) /\ b.pc = "throw" /\ Idle(b) /\ FrameOK(b)'
  BY ThrowFrame
<1>3. /\ StackStep(c, n, <<b>>)
      /\ Len(stack[c]) - 1 \in Places(c) /\ Len(stack[c]) \in Nat
      /\ Last(Front(stack[c])) = stack[c][Len(stack[c]) - 1]
      /\ Last(Front(stack[c])) \in Activation /\ FrameOK(Last(Front(stack[c])))
      /\ \A i \in Places(c) : i > n => i = Len(stack[c]) - 1 \/ stack[c][i].pc = "throw"
  <2>1. tick' = tick
    BY <1>1 DEF cpuVars
  <2> QED  BY <1>1, <1>2, <2>1, CatchStep
<1>4. PICK f \in Activation : f = Last(Front(stack[c])) /\ FrameOK(f) /\ f.pc = "canRun"
                                /\ f = stack[c][Len(stack[c]) - 1]
  BY <1>3
<1>5. /\ f.s \in Source /\ f.seq \in Seq(Entry)
      /\ \A e \in Of(f.seq) : phase[f.s][e] = "taken"
  BY <1>4 DEF FrameOK, LoopOK, LoopPc, Activation
<1>6. ToSet(f.seq) = Of(f.seq) /\ Of(f.seq) \subseteq Entry
  BY <1>5, OfIsToSet
<1>7. SetPhase(f.s, Of(f.seq), "dropped")
  BY <1>1, <1>4, <1>6
<1>8. Len(<<b>>) = 1 /\ <<b>>[1] = b
  OBVIOUS
<1>9. Alone(c, n, <<b>>)
  BY <1>2, <1>3, <1>8, HeirIsAlone
<1>10. Enters(c, <<b>>)
  BY <1>2, <1>8 DEF Enters
<1>11. \A e \in Of(f.seq) : phase'[f.s][e] = "dropped"
  <2>1. "dropped" \in Phase /\ TypeOK
    BY DEF Phase, IInv
  <2>2. \A r \in Source : \A e \in Entry :
          phase'[r][e] = IF r = f.s /\ e \in Of(f.seq) THEN "dropped" ELSE phase[r][e]
    BY <2>1, <1>5, <1>7, PhaseOf
  <2> QED  BY <1>5, <1>6, <2>2
<1>12. Leaves(c, n, <<b>>)
  <2>1. \A i \in Places(c) : i > n => stack[c][i] = f \/ stack[c][i].pc = "throw"
    BY <1>3, <1>4
  <2> QED  BY <2>1, <1>4, <1>11 DEF Leaves, LoopPc
<1>13. \A e \in Entry : e \in Of(f.seq) => Holds(f, f.s, e) /\ (e \in Source => e \in created)
  BY <1>4, <1>5 DEF Holds, LoopPc, IInv, EntriesOK, LinkOK
<1>14. Len(stack[c]) - 1 > n
  BY <1>3
<1> HIDE DEF n
<1> QED  BY <1>1, <1>3, <1>4, <1>5, <1>7, <1>9, <1>10, <1>12, <1>13, <1>14, HeldStep

-----------------------------------------------------------------------------
(* Registrations begin.                                                     *)

\* Register is called.
LEMMA CallRegisterInv ==
  ASSUME IInv, NEW c \in Context, NEW s \in Source, NEW k \in Callback, CallRegister(c, s, k)
  PROVE  IInv'
<1> DEFINE n == Len(stack[c])
<1>1. /\ InUserCode(c) /\ calls' = calls + 1 /\ Push(c, Frame("regCheck", s, k))
      /\ SetPhase(s, {k}, "registering")
      /\ \A r \in Source : phase[r][k] = "new"
      /\ UNCHANGED <<sourceVars, delayVars, cpuVars, raced>>
  BY DEF CallRegister, Call
<1>2. k \in Entry /\ k \notin Source
  BY DistinctAssumption DEF Entry
<1>3. PICK b \in Activation :
        b = Frame("regCheck", s, k) /\ b.pc = "regCheck" /\ b.s = s /\ b.e = k
  BY <1>2, FrameType DEF Pc
<1>4. Len(<<b>>) = 1 /\ <<b>>[1] = b
  OBVIOUS
<1>5. StackStep(c, n, <<b>>)
  BY <1>1, <1>3, PushStep DEF cpuVars
<1>6. /\ phase' \in [Source -> [Entry -> Phase]]
      /\ \A r \in Source : \A e \in Entry :
           phase'[r][e] = IF r = s /\ e \in {k} THEN "registering" ELSE phase[r][e]
  <2>1. "registering" \in Phase /\ TypeOK
    BY DEF Phase, IInv
  <2> QED  BY <1>1, <2>1, PhaseOf
<1>7. TypeOK'
  BY <1>1, <1>5, <1>6 DEF IInv, TypeOK, StackStep, Moves, sourceVars, delayVars, cpuVars
<1>8. \A d \in Context : \A i \in Places(d) : ~Holds(stack[d][i], s, k)
  <2>1. ASSUME NEW d \in Context, NEW i \in Places(d), Holds(stack[d][i], s, k)  PROVE FALSE
    <3>1. FrameOK(stack[d][i])
      BY DEF IInv, Frames
    <3> QED  BY <1>1, <1>2, <2>1, <3>1 DEF Holds, FrameOK, RegOK, LoopOK
  <2> QED  BY <2>1
<1>9. Alone(c, n, <<b>>)
  <2>1. \A d \in Context : \A i \in Places(d) : ~Same(b, stack[d][i])
    BY <1>3, <1>8 DEF Same, Holds, RegPc, LoopPc
  <2>2. \A i, j \in 1 .. Len(<<b>>) : i = j
    BY <1>4
  <2> QED  BY <1>4, <2>1, <2>2 DEF Alone
<1>10. Enters(c, <<b>>)
  <2>1. FrameOK(b)'
    BY <1>2, <1>3, <1>6 DEF FrameOK, RegOK, ReadOK, LoopOK, AfterOK, RegPc, LoopPc
  <2> QED  BY <1>3, <1>4, <2>1 DEF Enters
<1>11. Leaves(c, n, <<b>>)
  BY <1>1, InUser DEF Leaves, Places
<1>12. PhasesStep(c, n)
  BY <1>1, <1>2, <1>6, <1>8 DEF PhasesStep
<1>13. DelaysStep(c, n)
  BY <1>1, SameDelays DEF delayVars, sourceVars
<1>14. KeepsSources
  BY <1>1 DEF KeepsSources, sourceVars
<1> HIDE DEF n
<1> QED  BY <1>5, <1>7, <1>9, <1>10, <1>11, <1>12, <1>13, <1>14, CalmStep

\* A call on top, by concatenation.
LEMMA CutConcat ==
  ASSUME NEW S, NEW p \in Seq(S), NEW a \in S
  PROVE  p \o <<a>> \in Seq(S) /\ Cut(p \o <<a>>, p, Len(p), <<a>>)
BY CutAppend, AppendIsConcat

\* The calls of Register that CreateLinkedTokenSource makes, one after the other.
LEMMA LinkedMoves ==
  ASSUME IInv, NEW c \in Context, NEW s1 \in Source, NEW s2 \in Source \cup {None},
         NEW child \in Source, CallCreateLinked(c, s1, s2, child)
  PROVE  \E as \in Seq(Activation) :
           /\ Moves(c, Len(stack[c]), as)
           /\ \A j \in 1 .. Len(as) :
                as[j].pc = "regCheck" /\ as[j].s \in Source /\ as[j].e = child
           /\ \A i, j \in 1 .. Len(as) : as[i].s = as[j].s => i = j
<1> DEFINE n == Len(stack[c])
<1>1. /\ s1 # s2
      /\ stack' = [stack EXCEPT ![c] = @
                 \o (IF s2 = None THEN <<>> ELSE <<Frame("regCheck", s2, child)>>)
                 \o <<Frame("regCheck", s1, child)>>]
  BY DEF CallCreateLinked
<1>2. child \in Entry
  BY DEF Entry
<1>3. PICK a \in Activation :
        a = Frame("regCheck", s1, child) /\ a.pc = "regCheck" /\ a.s = s1 /\ a.e = child
  BY <1>2, FrameType DEF Pc
<1>4. PICK b \in Activation :
        b = Frame("regCheck", s2, child) /\ b.pc = "regCheck" /\ b.s = s2 /\ b.e = child
  <2>1. "regCheck" \in Pc /\ child \in Entry \cup Delay \cup {None}
    BY <1>2 DEF Pc
  <2>2. /\ Frame("regCheck", s2, child) \in Activation
        /\ Frame("regCheck", s2, child).pc = "regCheck"
        /\ Frame("regCheck", s2, child).s = s2 /\ Frame("regCheck", s2, child).e = child
    BY <2>1, FrameType
  <2> QED  BY <2>2
<1>5. stack[c] \in Seq(Activation) /\ n \in Nat
  BY StackType DEF IInv
<1>6. PICK as \in Seq(Activation) :
        /\ Moves(c, n, as)
        /\ \A j \in 1 .. Len(as) : as[j] = a \/ (as[j] = b /\ s2 \in Source)
        /\ \A i, j \in 1 .. Len(as) : as[i].s = as[j].s => i = j
  <2>1. CASE s2 = None
    <3>1. stack[c] \o <<>> = stack[c]
      BY <1>5, ConcatEmptySeq
    <3>2. stack' = [stack EXCEPT ![c] = stack[c] \o <<a>>]
      BY <1>1, <1>3, <2>1, <3>1
    <3>3. Moves(c, n, <<a>>)
      BY <1>5, <3>2, CutConcat, CutMoves DEF IInv
    <3>4. Len(<<a>>) = 1 /\ <<a>>[1] = a /\ <<a>> \in Seq(Activation)
      OBVIOUS
    <3>5. /\ \A j \in 1 .. Len(<<a>>) : <<a>>[j] = a
          /\ \A i, j \in 1 .. Len(<<a>>) : i = j
      BY <3>4
    <3> QED  BY <3>3, <3>4, <3>5
  <2>2. CASE s2 # None
    <3>1. PICK q \in Seq(Activation) : q = stack[c] \o <<b>> /\ Cut(q, stack[c], n, <<b>>)
      BY <1>5, CutConcat
    <3>2. q \o <<a>> \in Seq(Activation) /\ Cut(q \o <<a>>, stack[c], n, <<b, a>>)
      BY <1>5, <3>1, CutTwo
    <3>3. stack' = [stack EXCEPT ![c] = q \o <<a>>]
      BY <1>1, <1>3, <1>4, <2>2, <3>1
    <3>4. Moves(c, n, <<b, a>>)
      BY <3>2, <3>3, CutMoves DEF IInv
    <3>5. Len(<<b, a>>) = 2 /\ <<b, a>>[1] = b /\ <<b, a>>[2] = a /\ <<b, a>> \in Seq(Activation)
      OBVIOUS
    <3>6. s2 \in Source /\ a.s # b.s
      BY <1>1, <1>3, <1>4, <2>2
    <3>7. \A j \in 1 .. 2 : j = 1 \/ j = 2
      OBVIOUS
    <3>8. \A j \in 1 .. Len(<<b, a>>) : <<b, a>>[j] = a \/ <<b, a>>[j] = b
      BY <3>5, <3>7
    <3>9. \A i, j \in 1 .. Len(<<b, a>>) : <<b, a>>[i].s = <<b, a>>[j].s => i = j
      BY <3>5, <3>6, <3>7
    <3> QED  BY <3>4, <3>5, <3>6, <3>8, <3>9
  <2> QED  BY <2>1, <2>2
<1>7. \A j \in 1 .. Len(as) :
        as[j].pc = "regCheck" /\ as[j].s \in Source /\ as[j].e = child
  BY <1>3, <1>4, <1>6
<1> QED  BY <1>6, <1>7

\* CreateLinkedTokenSource is called: a new source, whose calls of Register run one after the
\* other.
LEMMA CallCreateLinkedInv ==
  ASSUME IInv, NEW c \in Context, NEW s1 \in Source, NEW s2 \in Source \cup {None},
         NEW child \in Source, CallCreateLinked(c, s1, s2, child)
  PROVE  IInv'
<1> DEFINE n == Len(stack[c])
<1>1. /\ InUserCode(c) /\ calls' = calls + 1
      /\ s1 # s2 /\ child \notin created /\ created' = created \cup {child}
      /\ stack' = [stack EXCEPT ![c] = @
                 \o (IF s2 = None THEN <<>> ELSE <<Frame("regCheck", s2, child)>>)
                 \o <<Frame("regCheck", s1, child)>>]
      /\ UNCHANGED <<callbacks, canceled, disposed, after, removed,
                     delayVars, cpuVars, phase, raced>>
  BY DEF CallCreateLinked, Call
<1>2. child \in Entry
  BY DEF Entry
<1>6. PICK as \in Seq(Activation) :
        /\ Moves(c, n, as)
        /\ \A j \in 1 .. Len(as) :
             as[j].pc = "regCheck" /\ as[j].s \in Source /\ as[j].e = child
        /\ \A i, j \in 1 .. Len(as) : as[i].s = as[j].s => i = j
  BY LinkedMoves
<1>7. \A j \in 1 .. Len(as) :
        as[j].pc = "regCheck" /\ as[j].s \in Source /\ as[j].e = child
  BY <1>6
<1>8. StackStep(c, n, as)
  <2>1. tick' = tick
    BY <1>1 DEF cpuVars
  <2>2. \A j \in 1 .. Len(as) : as[j].pc \in Resting
    BY <1>7 DEF Resting
  <2> QED  BY <1>1, <1>6, <2>1, <2>2, InUser DEF StackStep
<1>9. TypeOK'
  BY <1>1, <1>8 DEF IInv, TypeOK, StackStep, Moves, sourceVars, delayVars, cpuVars
<1>10. Alone(c, n, as)
  <2>1. ASSUME NEW j \in 1 .. Len(as), NEW d \in Context, NEW i \in Places(d),
               Same(as[j], stack[d][i])
        PROVE  FALSE
    <3>1. stack[d][i].pc \in RegPc /\ stack[d][i].e = child
      BY <1>7, <2>1 DEF Same, LoopPc
    <3>2. FrameOK(stack[d][i])
      BY DEF IInv, Frames
    <3> QED  BY <1>1, <3>1, <3>2, DistinctAssumption DEF FrameOK, RegOK
  <2>2. ASSUME NEW i \in 1 .. Len(as), NEW j \in 1 .. Len(as), Same(as[i], as[j])
        PROVE  i = j
    <3>1. as[i].s = as[j].s
      BY <1>7, <2>2 DEF Same, LoopPc
    <3> QED  BY <1>6, <3>1
  <2> QED  BY <2>1, <2>2 DEF Alone
<1>11. Enters(c, as)
  <2>1. ASSUME NEW j \in 1 .. Len(as)  PROVE FrameOK(as[j])'
    <3>1. PICK f : f = as[j]
      OBVIOUS
    <3>2. phase[f.s][f.e] = "new" /\ f.e \in Source /\ f.s \in Source
      <4>1. LinkOK(f.s, f.e)
        BY <1>2, <1>7, <3>1 DEF IInv, EntriesOK
      <4> QED  BY <1>1, <1>7, <3>1, <4>1 DEF LinkOK
    <3>3. FrameOK(f)'
      BY <1>1, <1>2, <1>7, <3>1, <3>2 DEF FrameOK, RegOK, ReadOK, LoopOK, AfterOK, RegPc, LoopPc
    <3> QED  BY <3>1, <3>3
  <2> QED  BY <1>7, <2>1 DEF Enters
<1>12. Leaves(c, n, as)
  BY <1>1, InUser DEF Leaves, Places
<1>13. PhasesStep(c, n)
  BY <1>1 DEF PhasesStep
<1>14. DelaysStep(c, n)
  BY <1>1, SameDelays DEF delayVars
<1>15. KeepsSources
  BY <1>1 DEF KeepsSources
<1> HIDE DEF n
<1> QED  BY <1>8, <1>9, <1>10, <1>11, <1>12, <1>13, <1>14, <1>15, CalmStep

-----------------------------------------------------------------------------
(* CancelAfter.                                                             *)

\* CancelAfter of a source that is not disposed starts its delay.
LEMMA CallCancelAfterStarts ==
  ASSUME IInv, NEW c \in Context, NEW s \in Source, NEW d \in Delay, CallCancelAfter(c, s, d),
         ~disposed[s]
  PROVE  IInv'
<1> DEFINE n == Len(stack[c])
<1>1. /\ InUserCode(c) /\ calls' = calls + 1 /\ delay[d] = "new"
      /\ Push(c, Frame("afterSet", s, d))
      /\ owner' = [owner EXCEPT ![d] = s]
      /\ UNCHANGED <<sourceVars, fired, superseded, cpuVars, phase, raced>>
  BY DEF CallCancelAfter, Call
<1>2. PICK st \in {"running", "elapsed"} : delay' = [delay EXCEPT ![d] = st]
  BY DEF CallCancelAfter
<1>3. PICK b \in Activation :
        b = Frame("afterSet", s, d) /\ b.pc = "afterSet" /\ b.s = s /\ b.e = d
  BY FrameType DEF Pc
<1>4. Len(<<b>>) = 1 /\ <<b>>[1] = b
  OBVIOUS
<1>5. StackStep(c, n, <<b>>)
  BY <1>1, <1>3, PushStep DEF cpuVars
<1>6. /\ delay' \in [Delay -> {"new", "running", "elapsed", "done"}]
      /\ owner' \in [Delay -> Source \cup {None}]
      /\ delay'[d] # "new" /\ owner'[d] = s
      /\ \A x \in Delay : x # d => delay'[x] = delay[x] /\ owner'[x] = owner[x]
  BY <1>1, <1>2 DEF IInv, TypeOK
<1>7. TypeOK'
  BY <1>1, <1>5, <1>6 DEF IInv, TypeOK, StackStep, Moves, sourceVars, cpuVars
<1>8. DelayOK(d) /\ d \notin superseded /\ \A r \in Source : after[r] # d
  BY <1>1 DEF IInv, DelayOK
<1>9. \A e \in Context : \A i \in Places(e) :
        stack[e][i].pc = "afterSet" => stack[e][i].e \in Delay /\ stack[e][i].e # d
  <2>1. ASSUME NEW e \in Context, NEW i \in Places(e), stack[e][i].pc = "afterSet"
        PROVE  stack[e][i].e \in Delay /\ stack[e][i].e # d
    <3>1. FrameOK(stack[e][i])
      BY DEF IInv, Frames
    <3> QED  BY <1>1, <2>1, <3>1 DEF FrameOK, AfterOK
  <2> QED  BY <2>1
<1>10. Alone(c, n, <<b>>)
  <2>1. \A e \in Context : \A i \in Places(e) : ~Same(b, stack[e][i])
    BY <1>3, <1>9 DEF Same, RegPc, LoopPc
  <2>2. \A i, j \in 1 .. Len(<<b>>) : i = j
    BY <1>4
  <2> QED  BY <1>4, <2>1, <2>2 DEF Alone
<1>11. Enters(c, <<b>>)
  <2>1. UNCHANGED <<after, superseded>>
    BY <1>1 DEF sourceVars
  <2>2. FrameOK(b)'
    BY <1>3, <1>6, <1>8, <2>1 DEF FrameOK, RegOK, ReadOK, LoopOK, AfterOK, RegPc, LoopPc
  <2> QED  BY <1>3, <1>4, <2>2 DEF Enters
<1>12. Leaves(c, n, <<b>>)
  BY <1>1, InUser DEF Leaves, Places
<1>13. PhasesStep(c, n)
  BY <1>1 DEF PhasesStep
<1>14. DelaysStep(c, n)
  <2>1. UNCHANGED <<after, superseded>>
    BY <1>1 DEF sourceVars
  <2>2. ASSUME NEW e \in Context, NEW i \in Places(e), NEW a \in Activation, a = stack[e][i],
               AfterOK(a)
        PROVE  AfterOK(a)'
    BY <1>6, <1>9, <2>1, <2>2 DEF AfterOK
  <2>3. ASSUME NEW x \in Delay  PROVE DelayOK(x)'
    <3>1. DelayOK(x)
      BY DEF IInv
    <3> QED  BY <1>6, <1>8, <2>1, <3>1 DEF DelayOK
  <2> QED  BY <2>2, <2>3 DEF DelaysStep
<1>15. KeepsSources
  BY <1>1 DEF KeepsSources, sourceVars
<1> HIDE DEF n
<1> QED  BY <1>5, <1>7, <1>10, <1>11, <1>12, <1>13, <1>14, <1>15, CalmStep

\* The delay becomes that of its source, and the one before it is superseded.
LEMMA CancelAfterSetInv ==
  ASSUME IInv, NEW c \in Context, CancelAfterSet(c)
  PROVE  IInv'
<1> DEFINE n == Len(stack[c]) - 1
<1>1. /\ OnCpu(c) /\ stack[c] # <<>> /\ Top(c).pc = "afterSet" /\ Goto(c, "afterAdd")
      /\ after' = [after EXCEPT ![Top(c).s] = Top(c).e]
      /\ superseded' = superseded \cup ({after[Top(c).s]} \ {None})
      /\ UNCHANGED <<created, callbacks, canceled, disposed, removed,
                     delay, owner, fired, cpuVars, calls, phase, raced>>
  BY DEF CancelAfterSet, At
<1>2. PICK f \in Activation : f = Top(c) /\ FrameOK(f) /\ f = stack[c][Len(stack[c])]
                                /\ f.pc = "afterSet"
  BY <1>1, OnTop
<1>3. /\ f.s \in Source /\ f.e \in Delay /\ delay[f.e] # "new" /\ owner[f.e] = f.s
      /\ f.e \notin superseded /\ \A r \in Source : after[r] # f.e
  BY <1>2 DEF FrameOK, AfterOK
<1>4. PICK b \in Activation :
        b = [f EXCEPT !.pc = "afterAdd"] /\ b.pc = "afterAdd" /\ b.s = f.s /\ b.e = f.e
  <2>1. "afterAdd" \in Pc
    BY DEF Pc
  <2>2. /\ [f EXCEPT !.pc = "afterAdd"] \in Activation /\ [f EXCEPT !.pc = "afterAdd"].pc = "afterAdd"
        /\ [f EXCEPT !.pc = "afterAdd"].s = f.s /\ [f EXCEPT !.pc = "afterAdd"].e = f.e
    BY <2>1, GotoType
  <2> QED  BY <2>2
<1>5. Len(<<b>>) = 1 /\ <<b>>[1] = b /\ \A j \in 1 .. Len(<<b>>) : <<b>>[j] = b
  OBVIOUS
<1>6. StackStep(c, n, <<b>>)
  <2>1. Replace(c, b)
    BY <1>1, <1>2, <1>4 DEF Goto
  <2> QED  BY <1>1, <2>1, ReplaceStep DEF cpuVars
<1>7. /\ after' \in [Source -> Delay \cup {None}]
      /\ after'[f.s] = f.e /\ \A r \in Source : r # f.s => after'[r] = after[r]
  BY <1>1, <1>2, <1>3 DEF IInv, TypeOK
<1>8. superseded' = superseded \cup ({after[f.s]} \ {None}) /\ superseded' \subseteq Delay
  BY <1>1, <1>2, <1>3 DEF IInv, TypeOK
<1>9. TypeOK'
  BY <1>1, <1>6, <1>7, <1>8 DEF IInv, TypeOK, StackStep, Moves, cpuVars
<1>10. Alone(c, n, <<b>>)
  <2>1. Idle(b)
    BY <1>4 DEF Idle, RegPc, LoopPc
  <2>2. \A j \in 1 .. Len(<<b>>) : Idle(<<b>>[j])
    BY <1>5, <2>1
  <2> QED  BY <1>6, <2>2, HeirIsAlone
<1>11. Enters(c, <<b>>)
  <2>1. FrameOK(b)'
    BY <1>3, <1>4 DEF FrameOK, RegOK, ReadOK, LoopOK, AfterOK, RegPc, LoopPc
  <2>2. b.pc = "afterAdd"
    BY <1>4
  <2> QED  BY <1>5, <2>1, <2>2 DEF Enters
<1>12. Leaves(c, n, <<b>>)
  <2>1. \A i \in Places(c) : i > n => stack[c][i].pc = "afterSet"
    BY <1>1, <1>2, TopPlace
  <2> QED  BY <2>1 DEF Leaves, LoopPc
<1>13. PhasesStep(c, n)
  BY <1>1 DEF PhasesStep
<1>14. DelaysStep(c, n)
  <2>1. ASSUME NEW d \in Context, NEW i \in Places(d), Kept(c, n, d, i),
               NEW a \in Activation, a = stack[d][i], AfterOK(a)
        PROVE  AfterOK(a)'
    <3>1. a.pc = "afterSet" => a.e # f.e
      <4>1. ASSUME a.pc = "afterSet", a.e = f.e  PROVE FALSE
        <5>1. Same(f, a)
          BY <1>2, <4>1 DEF Same
        <5>2. Len(stack[c]) \in Places(c) /\ Len(stack[c]) > n
          BY <1>1, OnTop
        <5>3. c = d /\ Len(stack[c]) = i
          BY <1>2, <2>1, <5>1, <5>2 DEF IInv, Apart
        <5> QED  BY <2>1, <5>2, <5>3 DEF Kept, Places
      <4> QED  BY <4>1
    <3> QED  BY <1>1, <1>3, <1>7, <1>8, <2>1, <3>1 DEF AfterOK
  <2>2. ASSUME NEW x \in Delay  PROVE DelayOK(x)'
    <3>1. DelayOK(x)
      BY DEF IInv
    <3>2. UNCHANGED <<delay, owner>>
      BY <1>1
    <3>3. x \in superseded' => \A r \in Source : after'[r] # x
      BY <1>3, <1>7, <1>8, <3>1 DEF DelayOK
    <3>4. x \in superseded' \/ (\E r \in Source : after'[r] = x) => delay[x] # "new"
      BY <1>3, <1>7, <1>8, <3>1 DEF DelayOK
    <3>5. \A r \in Source : after'[r] = x => owner[x] = r
      BY <1>3, <1>7, <3>1 DEF DelayOK
    <3> QED  BY <3>1, <3>2, <3>3, <3>4, <3>5 DEF DelayOK
  <2> QED  BY <2>1, <2>2 DEF DelaysStep
<1>15. KeepsSources
  BY <1>1 DEF KeepsSources
<1> HIDE DEF n
<1> QED  BY <1>6, <1>9, <1>10, <1>11, <1>12, <1>13, <1>14, <1>15, CalmStep

\* A delay is over: its source is canceled, or not.
Over(c, n, as, d) ==
  /\ delay[d] # "new" /\ \E st \in {"elapsed", "done"} : delay' = [delay EXCEPT ![d] = st]
  /\ fired' \subseteq Delay
  /\ UNCHANGED <<sourceVars, owner, superseded, cpuVars, calls, phase, raced>>
  /\ \A j \in 1 .. Len(as) : as[j].pc = "canCheck" /\ as[j].s = owner[d]
  /\ \A i \in Places(c) : i > n => stack[c][i].pc = "afterAdd"

\* A delay that is over changes from elapsed or running, and its source is canceled if it was the
\* delay of the source still.
LEMMA OverStep ==
  ASSUME IInv, NEW c \in Context, NEW n, NEW as, StackStep(c, n, as), NEW d \in Delay,
         Over(c, n, as, d)
  PROVE  IInv'
<1> USE DEF Over
<1>1. /\ delay' \in [Delay -> {"new", "running", "elapsed", "done"}]
      /\ \A x \in Delay : delay'[x] = "new" <=> delay[x] = "new"
  BY DEF IInv, TypeOK
<1>2. TypeOK'
  BY <1>1 DEF IInv, TypeOK, StackStep, Moves, sourceVars, cpuVars
<1>3. owner[d] \in Source
  BY DEF IInv, DelayOK
<1>4. Alone(c, n, as)
  BY HeirIsAlone DEF Idle, RegPc, LoopPc
<1>5. Enters(c, as)
  <2>1. ASSUME NEW j \in 1 .. Len(as)  PROVE FrameOK(as[j])'
    <3>1. PICK b : b = as[j]
      OBVIOUS
    <3>2. FrameOK(b)'
      BY <1>3, <3>1 DEF FrameOK, RegOK, ReadOK, LoopOK, AfterOK, RegPc, LoopPc
    <3> QED  BY <3>1, <3>2
  <2> QED  BY <2>1 DEF Enters
<1>6. Leaves(c, n, as)
  BY DEF Leaves, LoopPc
<1>7. PhasesStep(c, n)
  BY DEF PhasesStep
<1>8. DelaysStep(c, n)
  <2>1. UNCHANGED <<after, owner, superseded>>
    BY DEF sourceVars
  <2>2. \A a : AfterOK(a) => AfterOK(a)'
    BY <1>1, <2>1 DEF AfterOK
  <2>3. \A x \in Delay : DelayOK(x)'
    BY <1>1, <2>1 DEF IInv, DelayOK
  <2> QED  BY <2>2, <2>3 DEF DelaysStep
<1>9. KeepsSources
  BY DEF KeepsSources, sourceVars
<1> QED  BY <1>2, <1>4, <1>5, <1>6, <1>7, <1>8, <1>9, CalmStep

\* AddContinuation of the delay.
LEMMA CancelAfterAddInv ==
  ASSUME IInv, NEW c \in Context, CancelAfterAdd(c), delay[Top(c).e] = "elapsed"
  PROVE  IInv'
<1> DEFINE n == Len(stack[c]) - 1
<1>1. PICK d \in Delay :
        /\ d = Top(c).e /\ delay[d] = "elapsed"
        /\ OnCpu(c) /\ stack[c] # <<>> /\ Top(c).pc = "afterAdd"
  <2>1. OnCpu(c) /\ stack[c] # <<>> /\ Top(c).pc = "afterAdd"
    BY DEF CancelAfterAdd, At
  <2>2. FrameOK(Top(c))
    BY <2>1, OnTop
  <2> QED  BY <2>1, <2>2 DEF FrameOK, AfterOK
<1>2. /\ \/ Replace(c, Frame("canCheck", owner[d], None)) /\ fired' = fired \cup {d}
         \/ Pop(c) /\ fired' = fired
      /\ UNCHANGED <<sourceVars, owner, superseded, cpuVars, calls, phase, raced>>
  BY <1>1 DEF CancelAfterAdd
<1>3. PICK st \in {"elapsed", "done"} : delay' = [delay EXCEPT ![d] = st] /\ delay[d] # "new"
  BY <1>1 DEF CancelAfterAdd
<1>4. fired' \subseteq Delay /\ tick' = tick
  BY <1>2 DEF IInv, TypeOK, cpuVars
<1>5. \A i \in Places(c) : i > n => stack[c][i].pc = "afterAdd"
  BY <1>1, TopPlace, OnTop
<1>8. UNCHANGED <<sourceVars, owner, superseded, cpuVars, calls, phase, raced>>
  BY <1>2
<1>6. CASE Replace(c, Frame("canCheck", owner[d], None))
  <2>1. owner[d] \in Source
    BY <1>1 DEF IInv, DelayOK
  <2>2. PICK b \in Activation :
          b = Frame("canCheck", owner[d], None) /\ b.pc = "canCheck" /\ b.s = owner[d]
    BY <2>1, FrameType DEF Pc
  <2>3. Len(<<b>>) = 1 /\ <<b>>[1] = b
    OBVIOUS
  <2>4. StackStep(c, n, <<b>>)
    BY <1>1, <1>4, <1>6, <2>2, ReplaceStep
  <2>5. \A j \in 1 .. Len(<<b>>) : <<b>>[j].pc = "canCheck" /\ <<b>>[j].s = owner[d]
    BY <2>2, <2>3
  <2>6. Over(c, n, <<b>>, d)
    BY <1>3, <1>4, <1>5, <1>8, <2>5 DEF Over
  <2> HIDE DEF n
  <2> QED  BY <2>4, <2>6, OverStep
<1>7. CASE Pop(c)
  <2>1. Len(<<>>) = 0
    OBVIOUS
  <2>2. StackStep(c, n, <<>>)
    BY <1>1, <1>4, <1>7, PopStep
  <2>3. \A j \in 1 .. Len(<<>>) : <<>>[j].pc = "canCheck" /\ <<>>[j].s = owner[d]
    BY <2>1
  <2>4. Over(c, n, <<>>, d)
    BY <1>3, <1>4, <1>5, <1>8, <2>3 DEF Over
  <2> HIDE DEF n
  <2> QED  BY <2>2, <2>4, OverStep
<1> QED  BY <1>2, <1>6, <1>7

\* The delay is over.
LEMMA DelayElapsesInv ==
  ASSUME IInv, NEW c \in Context, NEW d \in Delay, DelayElapses(c, d)
  PROVE  IInv'
<1> DEFINE n == Len(stack[c])
<1>1. PICK st \in {"elapsed", "done"} :
        /\ InUserCode(c) /\ delay[d] = "running"
        /\ delay' = [delay EXCEPT ![d] = st]
  BY DEF DelayElapses, Elapses
<1>2. /\ \/ Push(c, Frame("canCheck", owner[d], None)) /\ fired' = fired \cup {d}
         \/ UNCHANGED <<stack, fired>>
      /\ UNCHANGED <<sourceVars, owner, superseded, cpuVars, calls, phase, raced>>
  BY DEF DelayElapses
<1>3. fired' \subseteq Delay /\ tick' = tick
  BY <1>2 DEF IInv, TypeOK, cpuVars
<1>4. \A i \in Places(c) : i > n => stack[c][i].pc = "afterAdd"
  BY <1>1, InUser DEF Places
<1>5. CASE Push(c, Frame("canCheck", owner[d], None))
  <2>1. owner[d] \in Source
    BY <1>1 DEF IInv, DelayOK
  <2>2. PICK b \in Activation :
          b = Frame("canCheck", owner[d], None) /\ b.pc = "canCheck" /\ b.s = owner[d]
    BY <2>1, FrameType DEF Pc
  <2>3. Len(<<b>>) = 1 /\ <<b>>[1] = b
    OBVIOUS
  <2>4. StackStep(c, n, <<b>>)
    BY <1>1, <1>3, <1>5, <2>2, PushStep
  <2>5. \A j \in 1 .. Len(<<b>>) : <<b>>[j].pc = "canCheck" /\ <<b>>[j].s = owner[d]
    BY <2>2, <2>3
  <2>6. Over(c, n, <<b>>, d)
    BY <1>1, <1>2, <1>3, <1>4, <2>5 DEF Over
  <2> HIDE DEF n
  <2> QED  BY <2>4, <2>6, OverStep
<1>6. CASE UNCHANGED <<stack, fired>>
  <2>1. Len(<<>>) = 0
    OBVIOUS
  <2>2. StackStep(c, n, <<>>)
    <3>1. Moves(c, n, <<>>)
      BY <1>1, <1>6, <2>1, InUser DEF Moves, IInv, TypeOK
    <3> QED  BY <1>1, <1>3, <2>1, <3>1, InUser DEF StackStep
  <2>3. \A j \in 1 .. Len(<<>>) : <<>>[j].pc = "canCheck" /\ <<>>[j].s = owner[d]
    BY <2>1
  <2>4. Over(c, n, <<>>, d)
    BY <1>1, <1>2, <1>3, <1>4, <2>3 DEF Over
  <2> HIDE DEF n
  <2> QED  BY <2>2, <2>4, OverStep
<1> QED  BY <1>2, <1>5, <1>6
-----------------------------------------------------------------------------
(* Steps that change the list or the flags of one source.                   *)

\* A call that is not the innermost one of c waits inside another, or it is one of the
\* application that a tick has found.
LEMMA KeptKind ==
  ASSUME IInv, NEW c \in Context, NEW n, NEW as, StackStep(c, n, as),
         NEW d \in Context, NEW i \in Places(d), Kept(c, n, d, i)
  PROVE  /\ stack[d][i] \in Activation /\ FrameOK(stack[d][i])
         /\ stack[d][i].pc \in Resting \/ (c = "Timer" /\ d = "App")
<1>1. stack[d][i] \in Activation /\ FrameOK(stack[d][i])
  BY StackType DEF IInv, Frames
<1>2. CASE d = c
  <2>1. i \in 1 .. n
    BY <1>2 DEF Kept, Places, StackStep, Moves
  <2> QED  BY <1>1, <1>2, <2>1 DEF StackStep
<1>3. CASE d # c
  <2>1. d = "Timer" => stack[d] = <<>>
    BY <1>3 DEF StackStep, OnCpu, Context, IInv, Shape
  <2> QED  BY <1>1, <1>3, <2>1 DEF Context, Places
<1> QED  BY <1>2, <1>3

\* What Touch records: a source raced stays so, and a tick inside a call of the application races
\* it.
LEMMA TouchFacts ==
  ASSUME TypeOK, NEW c, NEW s \in Source, Touch(c, s)
  PROVE  /\ raced' \in [Source -> BOOLEAN]
         /\ \A r \in Source : r # s => raced'[r] = raced[r]
         /\ raced[s] => raced'[s]
         /\ c = "Timer" /\ InWindow(s) => raced'[s]
<1>1. Window(s) = InWindow(s)
  BY StackType DEF Window, InWindow, Context
<1>2. Window(s) \in BOOLEAN
  BY DEF Window
<1> QED  BY <1>1, <1>2 DEF Touch, TypeOK

\* The other sources stay as they are, and so do what s was canceled or disposed for.
Elsewhere(c, n, as, s) ==
  /\ created' = created
  /\ \A r \in Source : r # s =>
       /\ callbacks'[r] = callbacks[r] /\ canceled'[r] = canceled[r] /\ disposed'[r] = disposed[r]
       /\ raced'[r] = raced[r] /\ \A e \in Entry : phase'[r][e] = phase[r][e]
  /\ canceled[s] => canceled'[s]
  /\ disposed[s] => disposed'[s]
  /\ \A j \in 1 .. Len(as) : as[j].s = s
  /\ \A i \in Places(c) : i > n =>
       stack[c][i].s = s /\ (stack[c][i].pc \in {"canCheck", "canSet"} => canceled'[s])

\* The other sources keep the calls that are inside them.
LEMMA ElsewhereInside ==
  ASSUME TypeOK, NEW c \in Context, NEW n, NEW as, StackStep(c, n, as), NEW s \in Source,
         Elsewhere(c, n, as, s), NEW r \in Source, r # s, NEW P
  PROVE  Inside(r, P)' <=> Inside(r, P)
<1>1. /\ Inside(r, P)' <=> KeptInside(c, n, r, P) \/ NewInside(as, r, P)
      /\ Inside(r, P)  <=> KeptInside(c, n, r, P) \/ OldInside(c, n, r, P)
  BY InsideStep
<1>2. /\ \A j \in 1 .. Len(as) : as[j].s # r
      /\ \A i \in Places(c) : i > n => stack[c][i].s # r
  <2>1. /\ \A j \in 1 .. Len(as) : as[j].s = s
        /\ \A i \in Places(c) : i > n => stack[c][i].s = s
    BY Zenon DEF Elsewhere
  <2>2. (\A j \in 1 .. Len(as) : as[j].s # r)
    BY <2>1
  <2>3. \A i \in Places(c) : i > n => stack[c][i].s # r
    BY <2>1
  <2> QED  BY <2>2, <2>3
<1>3. ~NewInside(as, r, P)
  BY <1>2 DEF NewInside
<1>4. ~OldInside(c, n, r, P)
  BY <1>2 DEF OldInside
<1> QED  BY <1>1, <1>3, <1>4

\* What must still hold of s itself.
KeptOn(c, n, s) ==
  \A d \in Context : \A i \in Places(d) : Kept(c, n, d, i) =>
    \A a \in Activation : a = stack[d][i] /\ a.s = s /\ FrameOK(a) =>
      RegOK(a)' /\ ReadOK(a)' /\ LoopOK(a)'
Persists(s) ==
  /\ ListOK(s)'
  /\ \A e \in Entry :
       /\ RegisteredOK(s, e)' /\ TakenOK(s, e)'
       /\ phase'[s][e] # phase[s][e] =>
            phase'[s][e] # "ran" /\ (e \in Source => e \in created)

\* The lists of the Cancels of s that end go on in others.
HandsOn(c, n, as, s) ==
  \A i \in Places(c) : \A f \in Activation :
    i > n /\ f = stack[c][i] /\ f.s = s /\ f.pc \in LoopPc =>
      \E j \in 1 .. Len(as) : as[j].s = s /\ as[j].pc \in LoopPc /\ Of(f.seq) \subseteq Of(as[j].seq)

\* What was taken from the other lists, and what stays taken from this one, is still in the list
\* of a Cancel.
LEMMA TakenStays ==
  ASSUME IInv, NEW c \in Context, NEW n, NEW as, StackStep(c, n, as), NEW s \in Source,
         NEW e \in Entry, phase[s][e] = "taken", HandsOn(c, n, as, s)
  PROVE  TakenOK(s, e)'
<1>0. TypeOK /\ AllThere(c, n, as)
  BY Where DEF IInv
<1> SUFFICES \E d \in Context : \E i \in 1 .. Len(stack'[d]) :
               stack'[d][i].s = s /\ stack'[d][i].pc \in LoopPc /\ e \in Of(stack'[d][i].seq)
  BY DEF TakenOK, Places
<1>1. PICK d \in Context : \E i \in Places(d) :
        stack[d][i].s = s /\ stack[d][i].pc \in LoopPc /\ e \in Of(stack[d][i].seq)
  BY DEF IInv, EntriesOK, TakenOK
<1>2. PICK i \in Places(d) :
        stack[d][i].s = s /\ stack[d][i].pc \in LoopPc /\ e \in Of(stack[d][i].seq)
  BY <1>1
<1>3. CASE Kept(c, n, d, i)
  BY <1>0, <1>2, <1>3 DEF AllThere
<1>4. CASE ~Kept(c, n, d, i)
  <2>1. d = c /\ i > n /\ i \in Places(c) /\ stack[d][i] \in Activation
    BY <1>0, <1>4, StackType DEF Kept, Places, StackStep, Moves
  <2>2. PICK j \in 1 .. Len(as) : as[j].s = s /\ as[j].pc \in LoopPc /\ e \in Of(as[j].seq)
    BY <1>2, <2>1 DEF HandsOn
  <2> QED  BY <1>0, <2>2 DEF AllThere
<1> QED  BY <1>3, <1>4

\* A step that changes the list or the flags of one source keeps the invariant, if it keeps it for
\* that source.
LEMMA SourceStep ==
  ASSUME IInv, TypeOK', NEW c \in Context, NEW n, NEW as, StackStep(c, n, as), NEW s \in Source,
         Elsewhere(c, n, as, s), Alone(c, n, as), DelaysStep(c, n),
         \A j \in 1 .. Len(as) : FrameOK(as[j])' /\ (c = "Timer" => Fresh(as[j])'),
         KeptOn(c, n, s), Persists(s)
  PROVE  IInv'
<1>1. TypeOK /\ Shape /\ Apart /\ Frames
  BY DEF IInv
<1>2. Shape'
  BY <1>1, ShapeStep
<1>3. Apart'
  BY <1>1, ApartStep
<1>4. TickOK'
  BY <1>1, TickStep
<1>5. ASSUME NEW d \in Context, NEW i \in Places(d), Kept(c, n, d, i),
             NEW a \in Activation, a = stack[d][i], FrameOK(a)
      PROVE  FrameOK(a)'
  <2>1. AfterOK(a)'
    BY <1>5 DEF DelaysStep, FrameOK
  <2>2. CASE a.s = s
    BY <1>5, <2>1, <2>2 DEF KeptOn, FrameOK
  <2>3. CASE a.s # s
    <3>1. a.s \in Source \cup {None} /\ Of(a.seq) \subseteq Entry
      BY OfIsToSet DEF Activation
    <3>2. RegOK(a) /\ ReadOK(a) /\ LoopOK(a)
      BY <1>5 DEF FrameOK
    <3>3. RegOK(a)'
      BY <2>3, <3>2 DEF RegOK, Elsewhere, Entry
    <3>4. ReadOK(a)'
      <4>1. a.pc = "regWrite" => a.s \in Source
        BY <3>2 DEF RegOK, RegPc
      <4> QED  BY <2>3, <3>1, <3>2, <4>1 DEF ReadOK, Elsewhere
    <3>5. LoopOK(a)'
      BY <2>3, <3>1, <3>2 DEF LoopOK, Elsewhere, LoopPc
    <3> QED  BY <2>1, <3>3, <3>4, <3>5 DEF FrameOK
  <2> QED  BY <2>2, <2>3
<1>6. Frames'
  BY <1>1, <1>5, FramesStep
<1>7. ASSUME NEW e \in Source  PROVE
        canceled[e] \/ disposed[e] \/ Inside(e, {"canCheck", "canSet"}) =>
          canceled'[e] \/ disposed'[e] \/ Inside(e, {"canCheck", "canSet"})'
  <2>1. CASE e # s
    <3>1. Inside(e, {"canCheck", "canSet"})' <=> Inside(e, {"canCheck", "canSet"})
      BY <1>1, <2>1, ElsewhereInside
    <3>2. canceled'[e] = canceled[e] /\ disposed'[e] = disposed[e]
      BY <2>1 DEF Elsewhere
    <3> QED  BY <3>1, <3>2
  <2>2. CASE e = s
    <3>1. /\ Inside(e, {"canCheck", "canSet"})' <=>
               KeptInside(c, n, e, {"canCheck", "canSet"}) \/ NewInside(as, e, {"canCheck", "canSet"})
          /\ Inside(e, {"canCheck", "canSet"}) <=>
               KeptInside(c, n, e, {"canCheck", "canSet"}) \/ OldInside(c, n, e, {"canCheck", "canSet"})
      BY <1>1, InsideStep
    <3>2. OldInside(c, n, e, {"canCheck", "canSet"}) => canceled'[s]
      BY DEF OldInside, Elsewhere
    <3> QED  BY <2>2, <3>1, <3>2 DEF Elsewhere
  <2> QED  BY <2>1, <2>2
<1>8. ASSUME NEW r \in Source, NEW e \in Entry  PROVE LinkOK(r, e)'
  <2>1. LinkOK(r, e)
    BY DEF IInv, EntriesOK
  <2>2. CASE phase'[r][e] = phase[r][e]
    BY <1>7, <2>1, <2>2 DEF LinkOK, Elsewhere
  <2>3. CASE phase'[r][e] # phase[r][e]
    BY <2>3 DEF Persists, Elsewhere, LinkOK
  <2> QED  BY <2>2, <2>3
<1>9. ASSUME NEW r \in Source, r # s
      PROVE  ListOK(r)' /\ \A e \in Entry : RegisteredOK(r, e)' /\ TakenOK(r, e)'
  <2>1. \A P : Inside(r, P)' <=> Inside(r, P)
    BY <1>1, <1>9, ElsewhereInside
  <2>2. /\ callbacks'[r] = callbacks[r] /\ canceled'[r] = canceled[r] /\ disposed'[r] = disposed[r]
        /\ raced'[r] = raced[r] /\ \A e \in Entry : phase'[r][e] = phase[r][e]
    BY <1>9 DEF Elsewhere
  <2>3. ListOK(r)'
    <3>1. ListOK(r)
      BY DEF IInv, EntriesOK
    <3>2. callbacks[r] \in Seq(Entry)
      BY <1>1 DEF TypeOK
    <3>3. Of(callbacks[r]) \subseteq Entry
      BY <3>2, OfIsToSet
    <3>4. /\ Inside(r, {"canSet", "canTake"})' <=> Inside(r, {"canSet", "canTake"})
          /\ Inside(r, {"canClear"})' <=> Inside(r, {"canClear"})
      BY <2>1
    <3> QED  BY <2>2, <3>1, <3>3, <3>4 DEF ListOK
  <2>4. ASSUME NEW e \in Entry  PROVE RegisteredOK(r, e)'
    <3>1. RegisteredOK(r, e)
      BY DEF IInv, EntriesOK
    <3>2. Inside(r, {"canTake"})' <=> Inside(r, {"canTake"})
      BY <2>1
    <3> QED  BY <2>2, <3>1, <3>2 DEF RegisteredOK
  <2>5. ASSUME NEW e \in Entry  PROVE TakenOK(r, e)'
    <3>1. CASE phase[r][e] = "taken"
      <4>1. HandsOn(c, n, as, r)
        BY <1>9 DEF Elsewhere, HandsOn
      <4> QED  BY <3>1, <4>1, TakenStays
    <3>2. CASE phase[r][e] # "taken"
      BY <2>2, <3>2 DEF TakenOK
    <3> QED  BY <3>1, <3>2
  <2> QED  BY <2>3, <2>4, <2>5
<1>10. EntriesOK'
  BY <1>8, <1>9 DEF EntriesOK, Persists
<1>11. \A x \in Delay : DelayOK(x)'
  BY DEF DelaysStep
<1> QED  BY <1>2, <1>3, <1>4, <1>6, <1>10, <1>11 DEF IInv

\* The source of the innermost call.
LEMMA TopSource ==
  ASSUME IInv, NEW c \in Context, OnCpu(c), stack[c] # <<>>,
         Top(c).pc \in {"regRead", "regWrite", "canSet", "canTake", "canClear"}
  PROVE  \E f \in Activation : \E s \in Source :
           /\ f = Top(c) /\ FrameOK(f) /\ f.s = s /\ (c = "Timer" => Fresh(f))
           /\ \A i \in Places(c) : i > Len(stack[c]) - 1 => stack[c][i] = f
           /\ Len(stack[c]) \in Places(c) /\ Len(stack[c]) > Len(stack[c]) - 1
           /\ f = stack[c][Len(stack[c])]
<1>1. PICK f \in Activation : f = Top(c)
  BY OnTop
<1>2. FrameOK(f) /\ (c = "Timer" => Fresh(f)) /\ f = stack[c][Len(stack[c])]
  BY <1>1, OnTop
<1>3. f.s \in Source
  BY <1>1, <1>2 DEF FrameOK, RegOK, LoopOK, RegPc, LoopPc
<1>4. \A i \in Places(c) : i > Len(stack[c]) - 1 => stack[c][i] = f
  BY <1>2, TopPlace
<1>5. Len(stack[c]) \in Places(c) /\ Len(stack[c]) > Len(stack[c]) - 1
  BY OnTop
<1> QED  BY <1>1, <1>2, <1>3, <1>4, <1>5

\* _canceled is set: the callbacks registered so far are for this Cancel to take.
LEMMA CancelSetInv ==
  ASSUME IInv, NEW c \in Context, CancelSet(c)
  PROVE  IInv'
<1> DEFINE n == Len(stack[c]) - 1
<1>1. /\ OnCpu(c) /\ stack[c] # <<>> /\ Top(c).pc = "canSet" /\ Goto(c, "canTake")
      /\ canceled' = [canceled EXCEPT ![Top(c).s] = TRUE]
      /\ Touch(c, Top(c).s)
      /\ UNCHANGED <<created, callbacks, disposed, after, removed, delayVars, cpuVars, calls, phase>>
  BY DEF CancelSet, At
<1>2. PICK f \in Activation : \E s \in Source :
           /\ f = Top(c) /\ FrameOK(f) /\ f.s = s /\ (c = "Timer" => Fresh(f))
           /\ \A i \in Places(c) : i > n => stack[c][i] = f
           /\ Len(stack[c]) \in Places(c) /\ Len(stack[c]) > n
           /\ f = stack[c][Len(stack[c])]
  BY <1>1, TopSource
<1>3. PICK s \in Source : f.s = s
  BY <1>2
<1>4. PICK b \in Activation :
        b = [f EXCEPT !.pc = "canTake"] /\ b.pc = "canTake" /\ b.s = s
  <2>1. "canTake" \in Pc
    BY DEF Pc
  <2>2. /\ [f EXCEPT !.pc = "canTake"] \in Activation /\ [f EXCEPT !.pc = "canTake"].pc = "canTake"
        /\ [f EXCEPT !.pc = "canTake"].s = s
    BY <1>3, <2>1, GotoType
  <2> QED  BY <2>2
<1>5. Len(<<b>>) = 1 /\ <<b>>[1] = b /\ \A j \in 1 .. Len(<<b>>) : <<b>>[j] = b
  OBVIOUS
<1>6. StackStep(c, n, <<b>>)
  <2>1. Replace(c, b)
    BY <1>1, <1>2, <1>4 DEF Goto
  <2> QED  BY <1>1, <2>1, ReplaceStep DEF cpuVars
<1>7. /\ canceled' \in [Source -> BOOLEAN] /\ canceled'[s]
      /\ \A r \in Source : r # s => canceled'[r] = canceled[r]
      /\ \A r \in Source : canceled[r] => canceled'[r]
  BY <1>1, <1>2, <1>3 DEF IInv, TypeOK
<1>8. /\ raced' \in [Source -> BOOLEAN]
      /\ \A r \in Source : r # s => raced'[r] = raced[r]
      /\ raced[s] => raced'[s]
      /\ c = "Timer" /\ InWindow(s) => raced'[s]
  BY <1>1, <1>2, <1>3, TouchFacts DEF IInv
<1>9. TypeOK'
  BY <1>1, <1>6, <1>7, <1>8 DEF IInv, TypeOK, StackStep, Moves, delayVars, cpuVars
<1>10. f.pc = "canSet" /\ TypeOK
  BY <1>1, <1>2 DEF IInv
<1>11. Elsewhere(c, n, <<b>>, s)
  BY <1>1, <1>2, <1>3, <1>4, <1>5, <1>7, <1>8 DEF Elsewhere
<1>12. Alone(c, n, <<b>>)
  <2>1. \A j \in 1 .. Len(<<b>>) : Idle(<<b>>[j])
    BY <1>4, <1>5 DEF Idle, RegPc, LoopPc
  <2> QED  BY <1>6, <2>1, HeirIsAlone
<1>13. DelaysStep(c, n)
  BY <1>1, SameDelays DEF delayVars
<1>14. FrameOK(b)' /\ (c = "Timer" => Fresh(b)')
  <2>1. FrameOK(b)'
    BY <1>4, <1>7 DEF FrameOK, RegOK, ReadOK, LoopOK, AfterOK, RegPc, LoopPc
  <2>2. ASSUME c = "Timer"  PROVE Fresh(b)'
    <3>1. stack'["App"] = stack["App"]
      BY <1>6, <2>2 DEF StackStep, Moves, Context
    <3>2. InWindow(s)' <=> InWindow(s)
      BY <3>1 DEF InWindow, Places
    <3>3. ~canceled[s]
      BY <1>2, <1>3, <1>10, <2>2 DEF Fresh
    <3>4. \A j \in Places("App") :
            ~(stack["App"][j].s = s /\ stack["App"][j].pc \in {"canTake", "canClear"})
      BY <3>3 DEF IInv, Frames, FrameOK, LoopOK, LoopPc, Context
    <3> QED  BY <1>4, <1>8, <2>2, <3>1, <3>2, <3>4 DEF Fresh, Places
  <2> QED  BY <2>1, <2>2
<1>15. KeptOn(c, n, s)
  <2> SUFFICES ASSUME NEW d \in Context, NEW i \in Places(d), Kept(c, n, d, i),
                      NEW a \in Activation, a = stack[d][i], a.s = s, FrameOK(a)
               PROVE  RegOK(a)' /\ ReadOK(a)' /\ LoopOK(a)'
    BY DEF KeptOn
  <2>1. a.pc \in Resting \/ (c = "Timer" /\ d = "App")
    BY <1>6, KeptKind
  <2>2. a.pc \in {"regRead", "regWrite"} => raced'[s]
    BY <1>8, <2>1 DEF InWindow, Resting
  <2>3. RegOK(a) /\ ReadOK(a) /\ LoopOK(a)
    BY DEF FrameOK
  <2>4. RegOK(a)'
    BY <1>1, <2>2, <2>3 DEF RegOK, RegPc
  <2>5. ReadOK(a)'
    BY <1>1, <1>7, <1>8, <2>3 DEF ReadOK
  <2>6. LoopOK(a)'
    BY <1>1, <1>7, <2>3 DEF LoopOK, LoopPc
  <2> QED  BY <2>4, <2>5, <2>6
<1>16. Persists(s)
  <2>1. ListOK(s)'
    <3>1. Inside(s, {"canSet", "canTake"})
      BY <1>2, <1>3, <1>10 DEF Inside
    <3>2. Inside(s, {"canClear"}) => Inside(s, {"canClear"})'
      <4>1. ~OldInside(c, n, s, {"canClear"})
        BY <1>2, <1>10 DEF OldInside
      <4> QED  BY <1>6, <1>10, <4>1, InsideStep
    <3>3. ListOK(s)
      BY DEF IInv, EntriesOK
    <3> QED  BY <1>1, <3>1, <3>2, <3>3 DEF ListOK
  <2>2. ASSUME NEW e \in Entry  PROVE RegisteredOK(s, e)'
    <3>1. NewInside(<<b>>, s, {"canTake"})
      <4>1. 1 \in 1 .. Len(<<b>>)
        BY <1>5
      <4> QED  BY <1>4, <1>5, <4>1 DEF NewInside
    <3>2. Inside(s, {"canTake"})'
      BY <1>6, <1>10, <3>1, InsideStep
    <3>3. RegisteredOK(s, e)
      BY DEF IInv, EntriesOK
    <3> QED  BY <1>1, <1>8, <3>2, <3>3 DEF RegisteredOK
  <2>3. ASSUME NEW e \in Entry  PROVE TakenOK(s, e)'
    <3>1. HandsOn(c, n, <<b>>, s)
      BY <1>2, <1>10 DEF HandsOn, LoopPc
    <3>2. CASE phase[s][e] = "taken"
      BY <1>6, <3>1, <3>2, TakenStays
    <3>3. CASE phase[s][e] # "taken"
      BY <1>1, <3>3 DEF TakenOK
    <3> QED  BY <3>2, <3>3
  <2> QED  BY <1>1, <2>1, <2>2, <2>3 DEF Persists
<1>17. \A j \in 1 .. Len(<<b>>) : FrameOK(<<b>>[j])' /\ (c = "Timer" => Fresh(<<b>>[j])')
  BY <1>5, <1>14
<1> HIDE DEF n
<1> QED  BY <1>6, <1>9, <1>11, <1>12, <1>13, <1>15, <1>16, <1>17, SourceStep

\* What a Cancel takes is registered.
LEMMA TakesRegistered ==
  ASSUME IInv, NEW c \in Context, OnCpu(c), stack[c] # <<>>, Top(c).pc = "canTake"
  PROVE  /\ NoDup(callbacks[Top(c).s])
         /\ \A e \in Of(callbacks[Top(c).s]) : phase[Top(c).s][e] = "registered"
<1> DEFINE n == Len(stack[c]) - 1
<1>1. PICK f \in Activation : \E s \in Source :
           /\ f = Top(c) /\ FrameOK(f) /\ f.s = s /\ (c = "Timer" => Fresh(f))
           /\ \A i \in Places(c) : i > n => stack[c][i] = f
           /\ Len(stack[c]) \in Places(c) /\ Len(stack[c]) > n
           /\ f = stack[c][Len(stack[c])]
  BY TopSource
<1>2. PICK s \in Source : f.s = s
  BY <1>1
<1>3. f.pc = "canTake"
  BY <1>1
<1>4. Inside(s, {"canSet", "canTake"})
  BY <1>1, <1>2, <1>3 DEF Inside
<1>5. ASSUME NEW d \in Context, NEW i \in Places(d),
             stack[d][i].s = s, stack[d][i].pc = "canClear"
      PROVE  FALSE
  <2>1. CASE d = c
    <3>1. i \in 1 .. Len(stack[c]) - 1 \/ i = Len(stack[c])
      BY <2>1, StackType DEF Places, IInv
    <3> QED  BY <1>1, <1>3, <1>5, <2>1, <3>1, OnTop DEF Resting
  <2>2. CASE d # c
    <3>1. c = "Timer" /\ d = "App"
      BY <2>2, <1>5, OnTop DEF Context, Places
    <3> QED  BY <1>1, <1>2, <1>3, <1>5, <3>1 DEF Fresh
  <2> QED  BY <2>1, <2>2
<1>6. ~Inside(s, {"canClear"})
  BY <1>5 DEF Inside
<1>7. ListOK(s)
  BY DEF IInv, EntriesOK
<1> QED  BY <1>1, <1>2, <1>4, <1>6, <1>7 DEF ListOK

\* The list is read: no other Cancel has any of it.
LEMMA CancelTakeInv ==
  ASSUME IInv, NEW c \in Context, CancelTake(c)
  PROVE  IInv'
<1> DEFINE n == Len(stack[c]) - 1
<1>1. /\ OnCpu(c) /\ stack[c] # <<>> /\ Top(c).pc = "canTake"
      /\ Replace(c, [Top(c) EXCEPT !.pc = "canClear", !.seq = callbacks[Top(c).s]])
      /\ SetPhase(Top(c).s, ToSet(callbacks[Top(c).s]), "taken")
      /\ UNCHANGED <<sourceVars, delayVars, cpuVars, calls, raced>>
  BY DEF CancelTake, At
<1>2. PICK f \in Activation : \E s \in Source :
           /\ f = Top(c) /\ FrameOK(f) /\ f.s = s /\ (c = "Timer" => Fresh(f))
           /\ \A i \in Places(c) : i > n => stack[c][i] = f
           /\ Len(stack[c]) \in Places(c) /\ Len(stack[c]) > n
           /\ f = stack[c][Len(stack[c])]
  BY <1>1, TopSource
<1>3. PICK s \in Source : f.s = s
  BY <1>2
<1>4. PICK q \in Seq(Entry) : q = callbacks[s]
  BY <1>3 DEF IInv, TypeOK
<1>5. ToSet(q) = Of(q) /\ Of(q) \subseteq Entry
  BY OfIsToSet
<1>6. f.pc = "canTake" /\ TypeOK /\ canceled[s]
  BY <1>1, <1>2, <1>3 DEF IInv, FrameOK, LoopOK
<1>7. PICK b \in Activation :
        b = WithSeq(f, "canClear", q) /\ b.pc = "canClear" /\ b.s = s /\ b.seq = q
  <2>1. "canClear" \in Pc
    BY DEF Pc
  <2>2. /\ WithSeq(f, "canClear", q) \in Activation /\ WithSeq(f, "canClear", q).pc = "canClear"
        /\ WithSeq(f, "canClear", q).s = s /\ WithSeq(f, "canClear", q).seq = q
    BY <1>3, <2>1, SeqType
  <2> QED  BY <2>2
<1>8. Len(<<b>>) = 1 /\ <<b>>[1] = b /\ \A j \in 1 .. Len(<<b>>) : <<b>>[j] = b
  OBVIOUS
<1>9. StackStep(c, n, <<b>>)
  <2>1. Replace(c, b)
    BY <1>1, <1>2, <1>3, <1>4, <1>7 DEF WithSeq
  <2> QED  BY <1>1, <2>1, ReplaceStep DEF cpuVars
<1>10. /\ phase' \in [Source -> [Entry -> Phase]]
       /\ \A r \in Source : \A e \in Entry :
            phase'[r][e] = IF r = s /\ e \in Of(q) THEN "taken" ELSE phase[r][e]
  <2>1. "taken" \in Phase
    BY DEF Phase
  <2>2. SetPhase(s, Of(q), "taken")
    BY <1>1, <1>2, <1>3, <1>4, <1>5
  <2> QED  BY <1>6, <2>1, <2>2, PhaseOf
<1>11. TypeOK'
  BY <1>1, <1>9, <1>10 DEF IInv, TypeOK, StackStep, Moves, sourceVars, delayVars, cpuVars
<1>12. NoDup(q) /\ \A e \in Of(q) : phase[s][e] = "registered"
  BY <1>1, <1>2, <1>3, <1>4, TakesRegistered
<1>13. Elsewhere(c, n, <<b>>, s)
  BY <1>1, <1>2, <1>3, <1>6, <1>7, <1>8, <1>10 DEF Elsewhere, sourceVars
<1>14. Alone(c, n, <<b>>)
  <2>1. ASSUME NEW d \in Context, NEW i \in Places(d), Same(b, stack[d][i])
        PROVE  FALSE
    <3>1. /\ stack[d][i].pc \in LoopPc /\ stack[d][i].s = s
          /\ Of(q) \cap Of(stack[d][i].seq) # {}
      BY <1>7, <2>1 DEF Same, RegPc
    <3>2. \A e \in Of(stack[d][i].seq) : phase[s][e] = "taken"
      BY <3>1 DEF IInv, Frames, FrameOK, LoopOK
    <3> QED  BY <1>12, <3>1, <3>2
  <2>2. \A j, k \in 1 .. Len(<<b>>) : j = k
    BY <1>8
  <2> QED  BY <1>8, <2>1, <2>2 DEF Alone
<1>15. DelaysStep(c, n)
  BY <1>1, SameDelays DEF delayVars, sourceVars
<1>16. FrameOK(b)' /\ (c = "Timer" => Fresh(b)')
  <2>1. FrameOK(b)'
    BY <1>1, <1>5, <1>6, <1>7, <1>10, <1>12
       DEF FrameOK, RegOK, ReadOK, LoopOK, AfterOK, RegPc, LoopPc, sourceVars
  <2>2. ASSUME c = "Timer"  PROVE Fresh(b)'
    <3>1. stack'["App"] = stack["App"]
      BY <1>9, <2>2 DEF StackStep, Moves, Context
    <3>2. InWindow(s)' <=> InWindow(s)
      BY <3>1 DEF InWindow, Places
    <3>3. /\ InWindow(s) => raced[s]
          /\ \A j \in Places("App") :
               ~(stack["App"][j].s = s /\ stack["App"][j].pc \in {"canTake", "canClear"})
      BY <1>2, <1>3, <1>6, <2>2 DEF Fresh
    <3> QED  BY <1>1, <1>7, <3>1, <3>2, <3>3 DEF Fresh, Places
  <2> QED  BY <2>1, <2>2
<1>17. KeptOn(c, n, s)
  <2> SUFFICES ASSUME NEW d \in Context, NEW i \in Places(d), Kept(c, n, d, i),
                      NEW a \in Activation, a = stack[d][i], a.s = s, FrameOK(a)
               PROVE  RegOK(a)' /\ ReadOK(a)' /\ LoopOK(a)'
    BY DEF KeptOn
  <2>1. RegOK(a) /\ ReadOK(a) /\ LoopOK(a) /\ Of(a.seq) \subseteq Entry
    BY OfIsToSet DEF FrameOK, Activation
  <2>2. UNCHANGED <<created, callbacks, canceled, disposed, raced>>
    BY <1>1 DEF sourceVars
  <2>3. RegOK(a)'
    <3>1. a.pc \in RegPc => phase'[a.s][a.e] = phase[a.s][a.e]
      BY <1>10, <1>12, <2>1 DEF RegOK
    <3> QED  BY <2>1, <2>2, <3>1 DEF RegOK
  <2>4. ReadOK(a)'
    BY <1>6, <2>1, <2>2 DEF ReadOK
  <2>5. LoopOK(a)'
    <3>1. a.pc \in LoopPc => \A e \in Of(a.seq) : phase'[a.s][e] = "taken"
      BY <1>10, <2>1 DEF LoopOK
    <3> QED  BY <2>1, <2>2, <3>1 DEF LoopOK
  <2> QED  BY <2>3, <2>4, <2>5
<1>18. Persists(s)
  <2>1. ListOK(s)'
    <3>1. NewInside(<<b>>, s, {"canClear"})
      BY <1>7, <1>8 DEF NewInside
    <3>2. Inside(s, {"canClear"})'
      BY <1>6, <1>9, <3>1, InsideStep
    <3> QED  BY <3>2 DEF ListOK
  <2>2. ASSUME NEW e \in Entry  PROVE RegisteredOK(s, e)'
    <3>1. RegisteredOK(s, e)
      BY DEF IInv, EntriesOK
    <3> QED  BY <1>1, <1>4, <1>10, <3>1 DEF RegisteredOK
  <2>3. ASSUME NEW e \in Entry  PROVE TakenOK(s, e)'
    <3>1. CASE phase[s][e] = "taken"
      <4>1. HandsOn(c, n, <<b>>, s)
        BY <1>2, <1>6 DEF HandsOn, LoopPc
      <4> QED  BY <1>9, <3>1, <4>1, TakenStays
    <3>2. CASE phase[s][e] # "taken" /\ e \in Of(q)
      <4>1. AllThere(c, n, <<b>>)
        BY <1>6, <1>9, Where
      <4>2. n + 1 \in 1 .. Len(stack'[c]) /\ stack'[c][n + 1] = b
        BY <1>8, <4>1 DEF AllThere
      <4> HIDE DEF n
      <4> QED  BY <1>7, <3>2, <4>2 DEF TakenOK, Places, LoopPc
    <3>3. CASE phase[s][e] # "taken" /\ e \notin Of(q)
      BY <1>10, <3>3 DEF TakenOK
    <3> QED  BY <3>1, <3>2, <3>3
  <2>4. ASSUME NEW e \in Entry, phase'[s][e] # phase[s][e]
        PROVE  phase'[s][e] # "ran" /\ (e \in Source => e \in created)
    <3>1. phase[s][e] = "registered" /\ phase'[s][e] = "taken"
      BY <1>10, <1>12, <2>4
    <3>2. LinkOK(s, e)
      BY DEF IInv, EntriesOK
    <3> QED  BY <3>1, <3>2 DEF LinkOK
  <2> QED  BY <2>1, <2>2, <2>3, <2>4 DEF Persists
<1>19. \A j \in 1 .. Len(<<b>>) : FrameOK(<<b>>[j])' /\ (c = "Timer" => Fresh(<<b>>[j])')
  BY <1>8, <1>16
<1> HIDE DEF n
<1> QED  BY <1>9, <1>11, <1>13, <1>14, <1>15, <1>17, <1>18, <1>19, SourceStep

\* The list is emptied.
LEMMA CancelClearInv ==
  ASSUME IInv, NEW c \in Context, CancelClear(c)
  PROVE  IInv'
<1> DEFINE n == Len(stack[c]) - 1
<1>1. /\ OnCpu(c) /\ stack[c] # <<>> /\ Top(c).pc = "canClear" /\ Goto(c, "canLoop")
      /\ callbacks' = [callbacks EXCEPT ![Top(c).s] = <<>>]
      /\ UNCHANGED <<created, canceled, disposed, after, removed,
                     delayVars, cpuVars, calls, phase, raced>>
  BY DEF CancelClear, At
<1>2. PICK f \in Activation : \E s \in Source :
           /\ f = Top(c) /\ FrameOK(f) /\ f.s = s /\ (c = "Timer" => Fresh(f))
           /\ \A i \in Places(c) : i > n => stack[c][i] = f
           /\ Len(stack[c]) \in Places(c) /\ Len(stack[c]) > n
           /\ f = stack[c][Len(stack[c])]
  BY <1>1, TopSource
<1>3. PICK s \in Source : f.s = s
  BY <1>2
<1>4. f.pc = "canClear" /\ TypeOK /\ canceled[s] /\ LoopOK(f)
  BY <1>1, <1>2, <1>3 DEF IInv, FrameOK, LoopOK, LoopPc
<1>5. PICK b \in Activation :
        b = [f EXCEPT !.pc = "canLoop"] /\ b.pc = "canLoop" /\ b.s = s /\ b.seq = f.seq
  <2>1. "canLoop" \in Pc
    BY DEF Pc
  <2>2. /\ [f EXCEPT !.pc = "canLoop"] \in Activation /\ [f EXCEPT !.pc = "canLoop"].pc = "canLoop"
        /\ [f EXCEPT !.pc = "canLoop"].s = s /\ [f EXCEPT !.pc = "canLoop"].seq = f.seq
    BY <1>3, <2>1, GotoType
  <2> QED  BY <2>2
<1>6. Len(<<b>>) = 1 /\ <<b>>[1] = b /\ 1 \in 1 .. Len(<<b>>) /\ \A j \in 1 .. Len(<<b>>) : j = 1 /\ <<b>>[j] = b
  OBVIOUS
<1>7. StackStep(c, n, <<b>>)
  <2>1. Replace(c, b)
    BY <1>1, <1>2, <1>5 DEF Goto
  <2> QED  BY <1>1, <2>1, ReplaceStep DEF cpuVars
<1>8. /\ callbacks' \in [Source -> Seq(Entry)] /\ callbacks'[s] = <<>>
      /\ \A r \in Source : r # s => callbacks'[r] = callbacks[r]
  <2>1. <<>> \in Seq(Entry)
    OBVIOUS
  <2> QED  BY <1>1, <1>2, <1>3, <2>1 DEF IInv, TypeOK
<1>9. TypeOK'
  BY <1>1, <1>7, <1>8 DEF IInv, TypeOK, StackStep, Moves, delayVars, cpuVars
<1>10. Elsewhere(c, n, <<b>>, s)
  BY <1>1, <1>2, <1>3, <1>4, <1>5, <1>6, <1>8 DEF Elsewhere
<1>11. Alone(c, n, <<b>>)
  <2>1. Heir(b, stack[c][Len(stack[c])])
    BY <1>2, <1>3, <1>4, <1>5 DEF Heir, RegPc, LoopPc
  <2> QED  BY <1>2, <1>6, <1>7, <2>1, HeirIsAlone
<1>12. DelaysStep(c, n)
  BY <1>1, SameDelays DEF delayVars
<1>13. FrameOK(b)' /\ (c = "Timer" => Fresh(b)')
  BY <1>1, <1>3, <1>4, <1>5
     DEF FrameOK, RegOK, ReadOK, LoopOK, AfterOK, RegPc, LoopPc, Fresh
<1>14. ASSUME NEW d \in Context, NEW i \in Places(d), Kept(c, n, d, i), stack[d][i].s = s
       PROVE  /\ stack[d][i].pc = "regWrite" => raced[s]
              /\ stack[d][i].pc # "canTake"
  <2>1. stack[d][i].pc \in Resting \/ (c = "Timer" /\ d = "App")
    BY <1>7, <1>14, KeptKind
  <2>2. c = "Timer" => /\ InWindow(s) => raced[s]
                       /\ \A j \in Places("App") :
                            ~(stack["App"][j].s = s /\ stack["App"][j].pc \in {"canTake", "canClear"})
    BY <1>2, <1>3, <1>4 DEF Fresh
  <2> QED  BY <1>14, <2>1, <2>2 DEF InWindow, Resting
<1>15. KeptOn(c, n, s)
  <2> SUFFICES ASSUME NEW d \in Context, NEW i \in Places(d), Kept(c, n, d, i),
                      NEW a \in Activation, a = stack[d][i], a.s = s, FrameOK(a)
               PROVE  RegOK(a)' /\ ReadOK(a)' /\ LoopOK(a)'
    BY DEF KeptOn
  <2>1. RegOK(a) /\ LoopOK(a)
    BY DEF FrameOK
  <2>2. a.pc = "regWrite" => raced[s]
    BY <1>14
  <2> QED  BY <1>1, <1>4, <2>1, <2>2 DEF RegOK, ReadOK, LoopOK
<1>16. Persists(s)
  <2>1. ListOK(s)'
    BY <1>8 DEF ListOK, NoDup, Of
  <2>2. ASSUME NEW e \in Entry  PROVE RegisteredOK(s, e)'
    <3>1. RegisteredOK(s, e)
      BY DEF IInv, EntriesOK
    <3>2. ~Inside(s, {"canTake"})
      <4>1. ~OldInside(c, n, s, {"canTake"})
        BY <1>2, <1>4 DEF OldInside
      <4>2. ~KeptInside(c, n, s, {"canTake"})
        BY <1>14 DEF KeptInside
      <4> QED  BY <1>4, <1>7, <4>1, <4>2, InsideStep
    <3> QED  BY <1>1, <1>4, <3>1, <3>2 DEF RegisteredOK
  <2>3. ASSUME NEW e \in Entry  PROVE TakenOK(s, e)'
    <3>1. CASE phase[s][e] = "taken"
      <4>1. HandsOn(c, n, <<b>>, s)
        BY <1>2, <1>5, <1>6 DEF HandsOn, LoopPc
      <4> QED  BY <1>7, <3>1, <4>1, TakenStays
    <3>2. CASE phase[s][e] # "taken"
      BY <1>1, <3>2 DEF TakenOK
    <3> QED  BY <3>1, <3>2
  <2> QED  BY <1>1, <2>1, <2>2, <2>3 DEF Persists
<1>17. \A j \in 1 .. Len(<<b>>) : FrameOK(<<b>>[j])' /\ (c = "Timer" => Fresh(<<b>>[j])')
  BY <1>6, <1>13
<1> HIDE DEF n
<1> QED  BY <1>7, <1>9, <1>10, <1>11, <1>12, <1>15, <1>16, <1>17, SourceStep

\* <<x>> \o q.
LEMMA ConsFacts ==
  ASSUME NEW S, NEW x \in S, NEW q \in Seq(S)
  PROVE  /\ <<x>> \o q \in Seq(S)
         /\ Of(<<x>> \o q) = {x} \cup Of(q)
         /\ NoDup(q) /\ x \notin Of(q) => NoDup(<<x>> \o q)
<1>1. PICK e \in Seq(S) : e = <<x>>
  <2>1. <<x>> \in Seq(S)
    OBVIOUS
  <2> QED  BY <2>1
<1>2. Len(e) = 1 /\ e[1] = x
  BY <1>1
<1>3. /\ e \o q \in Seq(S) /\ Len(e \o q) = Len(e) + Len(q)
      /\ \A i \in 1 .. Len(e) + Len(q) :
           (e \o q)[i] = IF i <= Len(e) THEN e[i] ELSE q[i - Len(e)]
  BY ConcatProperties
<1>4. PICK r \in Seq(S) : r = e \o q
  BY <1>3
<1>5. /\ Len(q) \in Nat /\ Len(r) = 1 + Len(q)
      /\ \A i \in 1 .. 1 + Len(q) : r[i] = IF i <= 1 THEN e[i] ELSE q[i - 1]
  BY <1>2, <1>3, <1>4, LenProperties
<1>6. /\ r[1] = x
      /\ \A i \in 1 .. Len(q) : i + 1 \in 1 .. Len(r) /\ r[i + 1] = q[i]
      /\ \A i \in 1 .. Len(r) : i = 1 \/ (i - 1 \in 1 .. Len(q) /\ r[i] = q[i - 1])
  <2>1. 1 \in 1 .. 1 + Len(q) /\ 1 <= 1
    BY <1>5
  <2>2. \A i \in 1 .. Len(q) : i + 1 \in 1 .. 1 + Len(q) /\ ~(i + 1 <= 1) /\ (i + 1) - 1 = i
    BY <1>5
  <2>3. \A i \in 1 .. 1 + Len(q) : i = 1 \/ (i - 1 \in 1 .. Len(q) /\ ~(i <= 1))
    BY <1>5
  <2>4. r[1] = x
    BY <1>2, <1>5, <2>1
  <2>5. \A i \in 1 .. Len(q) : i + 1 \in 1 .. Len(r) /\ r[i + 1] = q[i]
    BY <1>5, <2>2
  <2>6. \A i \in 1 .. Len(r) : i = 1 \/ (i - 1 \in 1 .. Len(q) /\ r[i] = q[i - 1])
    BY <1>5, <2>3
  <2> QED  BY <2>4, <2>5, <2>6
<1>7. Of(r) = {x} \cup Of(q)
  <2>1. 1 \in 1 .. Len(r)
    BY <1>5
  <2>2. x \in Of(r)
    BY <1>6, <2>1 DEF Of
  <2>3. ASSUME NEW i \in 1 .. Len(q)  PROVE q[i] \in Of(r)
    <3>1. i + 1 \in 1 .. Len(r) /\ r[i + 1] = q[i]
      BY <1>6
    <3> QED  BY <3>1 DEF Of
  <2>4. Of(q) \subseteq Of(r)
    BY <2>3 DEF Of
  <2>5. ASSUME NEW i \in 1 .. Len(r)  PROVE r[i] \in {x} \cup Of(q)
    <3>1. i = 1 \/ (i - 1 \in 1 .. Len(q) /\ r[i] = q[i - 1])
      BY <1>6
    <3> QED  BY <1>6, <3>1 DEF Of
  <2>6. Of(r) \subseteq {x} \cup Of(q)
    BY <2>5 DEF Of
  <2> QED  BY <2>2, <2>4, <2>6
<1>8. ASSUME NoDup(q), x \notin Of(q)  PROVE NoDup(r)
  <2> SUFFICES ASSUME NEW i \in 1 .. Len(r), NEW j \in 1 .. Len(r), r[i] = r[j]
               PROVE  i = j
    BY DEF NoDup
  <2>1. \A k \in 1 .. Len(q) : q[k] # x
    BY <1>8 DEF Of
  <2>2. (i = 1) <=> (j = 1)
    <3>1. i = 1 \/ (i - 1 \in 1 .. Len(q) /\ r[i] = q[i - 1])
      BY <1>6
    <3>2. j = 1 \/ (j - 1 \in 1 .. Len(q) /\ r[j] = q[j - 1])
      BY <1>6
    <3> QED  BY <1>6, <2>1, <3>1, <3>2, Zenon
  <2>3. CASE i # 1 /\ j # 1
    <3>1. /\ i - 1 \in 1 .. Len(q) /\ r[i] = q[i - 1]
          /\ j - 1 \in 1 .. Len(q) /\ r[j] = q[j - 1]
      BY <1>6, <2>3
    <3>2. i - 1 = j - 1
      BY <1>8, <3>1 DEF NoDup
    <3> QED  BY <3>2, <1>5
  <2> QED  BY <2>2, <2>3
<1> QED  BY <1>1, <1>4, <1>7, <1>8

\* The entry goes in front of what was read: a tick that came between shows in raced.
LEMMA RegisterWriteInv ==
  ASSUME IInv, NEW c \in Context, RegisterWrite(c)
  PROVE  IInv'
<1> DEFINE n == Len(stack[c]) - 1
<1>1. /\ OnCpu(c) /\ stack[c] # <<>> /\ Top(c).pc = "regWrite" /\ Pop(c)
      /\ callbacks' = [callbacks EXCEPT ![Top(c).s] = <<Top(c).e>> \o Top(c).seq]
      /\ SetPhase(Top(c).s, {Top(c).e}, IF disposed[Top(c).s] THEN "dropped" ELSE "registered")
      /\ Touch(c, Top(c).s)
      /\ UNCHANGED <<created, canceled, disposed, after, removed, delayVars, cpuVars, calls>>
  BY DEF RegisterWrite, At
<1>2. PICK f \in Activation : \E s \in Source :
           /\ f = Top(c) /\ FrameOK(f) /\ f.s = s /\ (c = "Timer" => Fresh(f))
           /\ \A i \in Places(c) : i > n => stack[c][i] = f
           /\ Len(stack[c]) \in Places(c) /\ Len(stack[c]) > n
           /\ f = stack[c][Len(stack[c])]
  BY <1>1, TopSource
<1>3. PICK s \in Source : f.s = s
  BY <1>2
<1>4. f.pc = "regWrite" /\ TypeOK /\ RegOK(f) /\ ReadOK(f)
  BY <1>1, <1>2 DEF IInv, FrameOK
<1>5. PICK x \in Entry : x = f.e /\ phase[s][x] \in {"registering", "new"}
                                 /\ (x \in Source => x \in created)
  BY <1>3, <1>4, DistinctAssumption DEF RegOK, RegPc
<1>6. PICK q \in Seq(Entry) : q = f.seq
  BY DEF Activation
<1>7. /\ <<x>> \o q \in Seq(Entry)
      /\ Of(<<x>> \o q) = {x} \cup Of(q)
      /\ NoDup(q) /\ x \notin Of(q) => NoDup(<<x>> \o q)
  BY ConsFacts
<1>8. Len(<<>>) = 0
  OBVIOUS
<1>9. StackStep(c, n, <<>>)
  BY <1>1, PopStep DEF cpuVars
<1>10. /\ callbacks' \in [Source -> Seq(Entry)] /\ callbacks'[s] = <<x>> \o q
       /\ \A r \in Source : r # s => callbacks'[r] = callbacks[r]
  BY <1>1, <1>2, <1>3, <1>5, <1>6, <1>7 DEF IInv, TypeOK
<1>11. PICK ph : ph = IF disposed[s] THEN "dropped" ELSE "registered"
  OBVIOUS
<1>12. /\ phase' \in [Source -> [Entry -> Phase]]
       /\ \A r \in Source : \A e \in Entry :
            phase'[r][e] = IF r = s /\ e = x THEN ph ELSE phase[r][e]
  <2>1. ph \in Phase
    BY <1>11 DEF Phase
  <2>2. SetPhase(s, {x}, ph)
    BY <1>1, <1>2, <1>3, <1>5, <1>11
  <2>3. /\ phase' \in [Source -> [Entry -> Phase]]
        /\ \A r \in Source : \A e \in Entry :
             phase'[r][e] = IF r = s /\ e \in {x} THEN ph ELSE phase[r][e]
    BY <1>4, <2>1, <2>2, PhaseOf
  <2> QED  BY <2>3
<1>13. /\ raced' \in [Source -> BOOLEAN]
       /\ \A r \in Source : r # s => raced'[r] = raced[r]
       /\ raced[s] => raced'[s]
       /\ c = "Timer" /\ InWindow(s) => raced'[s]
  BY <1>1, <1>2, <1>3, <1>4, TouchFacts
<1>14. TypeOK'
  <2>1. stack' \in [Context -> Seq(Activation)]
    BY <1>9 DEF StackStep, Moves
  <2>2. UNCHANGED <<created, canceled, disposed, after, removed, delay, owner, fired, superseded,
                    tick, passing, escaped, calls>>
    BY <1>1 DEF delayVars, cpuVars
  <2>3. TypeOK /\ callbacks' \in [Source -> Seq(Entry)] /\ raced' \in [Source -> BOOLEAN]
               /\ phase' \in [Source -> [Entry -> Phase]]
    BY <1>4, <1>10, <1>12, <1>13
  <2> QED  BY <2>1, <2>2, <2>3 DEF TypeOK
<1>15. Elsewhere(c, n, <<>>, s)
  <2>1. \A i \in Places(c) : i > n => stack[c][i].s = s /\ stack[c][i].pc = "regWrite"
    BY <1>2, <1>3, <1>4
  <2>2. UNCHANGED <<created, canceled, disposed>>
    BY <1>1
  <2>3. \A r \in Source : r # s => \A e \in Entry : phase'[r][e] = phase[r][e]
    BY <1>12
  <2> QED  BY <2>1, <2>2, <2>3, <1>8, <1>10, <1>13 DEF Elsewhere
<1>16. Alone(c, n, <<>>)
  BY <1>8, <1>9, HeirIsAlone
<1>17. DelaysStep(c, n)
  BY <1>1, SameDelays DEF delayVars
<1>18. ASSUME NEW d \in Context, NEW i \in Places(d), Kept(c, n, d, i), stack[d][i].s = s
       PROVE  /\ stack[d][i].pc \in RegPc => stack[d][i].e # x
              /\ stack[d][i].pc = "regWrite" => raced'[s]
              /\ stack[d][i].pc \in {"canSet", "canTake"} => ~canceled[s] /\ ~disposed[s]
  <2>1. stack[d][i].pc \in Resting \/ (c = "Timer" /\ d = "App")
    BY <1>9, <1>18, KeptKind
  <2>2. ASSUME stack[d][i].pc \in RegPc, stack[d][i].e = x  PROVE FALSE
    <3>1. Same(f, stack[d][i])
      BY <1>3, <1>4, <1>5, <1>18, <2>2 DEF Same, RegPc
    <3>2. c = d /\ Len(stack[c]) = i
      BY <1>2, <3>1 DEF IInv, Apart
    <3> QED  BY <1>2, <1>18, <3>2 DEF Kept
  <2>3. c = "Timer" => ~canceled[s] /\ ~disposed[s]
    BY <1>2, <1>3, <1>4 DEF Fresh
  <2> QED  BY <1>13, <1>18, <2>1, <2>2, <2>3 DEF InWindow, Resting
<1>19. KeptOn(c, n, s)
  <2> SUFFICES ASSUME NEW d \in Context, NEW i \in Places(d), Kept(c, n, d, i),
                      NEW a \in Activation, a = stack[d][i], a.s = s, FrameOK(a)
               PROVE  RegOK(a)' /\ ReadOK(a)' /\ LoopOK(a)'
    BY DEF KeptOn
  <2>1. RegOK(a) /\ ReadOK(a) /\ LoopOK(a) /\ Of(a.seq) \subseteq Entry
    BY OfIsToSet DEF FrameOK, Activation
  <2>2. (a.pc \in RegPc => a.e # x) /\ (a.pc = "regWrite" => raced'[s])
    BY <1>18
  <2>3. \A e \in Entry : phase[s][e] \in {"registered", "taken"} => phase'[s][e] = phase[s][e]
    BY <1>5, <1>12
  <2>4. RegOK(a)'
    <3>1. a.pc \in RegPc => phase'[a.s][a.e] = phase[a.s][a.e]
      BY <1>12, <2>1, <2>2 DEF RegOK
    <3> QED  BY <1>1, <1>13, <2>1, <3>1 DEF RegOK
  <2>5. ReadOK(a)'
    BY <1>1, <2>1, <2>2, <2>3 DEF ReadOK
  <2>6. LoopOK(a)'
    BY <1>1, <2>1, <2>3 DEF LoopOK, LoopPc
  <2> QED  BY <2>4, <2>5, <2>6
<1>20. Persists(s)
  <2>1. ListOK(s)'
    <3>1. Inside(s, {"canSet", "canTake"})' => ~canceled[s] /\ ~disposed[s]
      <4>1. Inside(s, {"canSet", "canTake"})' => KeptInside(c, n, s, {"canSet", "canTake"})
        <5>1. ~NewInside(<<>>, s, {"canSet", "canTake"})
          BY <1>8 DEF NewInside
        <5> QED  BY <1>4, <1>9, <5>1, InsideStep
      <4> QED  BY <1>18, <4>1 DEF KeptInside
    <3>2. ASSUME ~canceled[s], ~disposed[s]
          PROVE  NoDup(<<x>> \o q) /\ \A e \in {x} \cup Of(q) : phase'[s][e] = "registered"
      <4>1. NoDup(q) /\ \A e \in Of(q) : phase[s][e] = "registered"
        BY <1>3, <1>4, <1>6, <3>2 DEF ReadOK
      <4>2. x \notin Of(q)
        BY <1>5, <4>1
      <4>3. Of(q) \subseteq Entry
        BY OfIsToSet
      <4> QED  BY <1>7, <1>11, <1>12, <3>2, <4>1, <4>2, <4>3
    <3> QED  BY <1>1, <1>7, <1>10, <3>1, <3>2 DEF ListOK
  <2>2. ASSUME NEW e \in Entry  PROVE RegisteredOK(s, e)'
    <3>1. RegisteredOK(s, e)
      BY DEF IInv, EntriesOK
    <3>2. ~raced'[s] => ~raced[s] /\ ~canceled[s] /\ q = callbacks[s]
      BY <1>3, <1>4, <1>6, <1>13 DEF RegOK, ReadOK, RegPc
    <3> QED  BY <1>1, <1>7, <1>10, <1>12, <3>1, <3>2 DEF RegisteredOK
  <2>3. ASSUME NEW e \in Entry  PROVE TakenOK(s, e)'
    <3>1. CASE phase[s][e] = "taken"
      <4>1. HandsOn(c, n, <<>>, s)
        BY <1>2, <1>4 DEF HandsOn, LoopPc
      <4> QED  BY <1>9, <3>1, <4>1, TakenStays
    <3>2. CASE phase[s][e] # "taken"
      BY <1>11, <1>12, <3>2 DEF TakenOK
    <3> QED  BY <3>1, <3>2
  <2>4. \A e \in Entry : phase'[s][e] # phase[s][e] =>
          phase'[s][e] # "ran" /\ (e \in Source => e \in created)
    BY <1>5, <1>11, <1>12
  <2> QED  BY <2>1, <2>2, <2>3, <2>4 DEF Persists
<1>21. \A j \in 1 .. Len(<<>>) : FrameOK(<<>>[j])' /\ (c = "Timer" => Fresh(<<>>[j])')
  BY <1>8
<1> HIDE DEF n
<1> QED  BY <1>9, <1>14, <1>15, <1>16, <1>17, <1>19, <1>20, <1>21, SourceStep

\* Dispose.
LEMMA CallDisposeInv ==
  ASSUME IInv, NEW c \in Context, NEW s \in Source, CallDispose(c, s)
  PROVE  IInv'
<1> DEFINE n == Len(stack[c])
<1>1. /\ InUserCode(c) /\ calls' = calls + 1
      /\ disposed' = [disposed EXCEPT ![s] = TRUE]
      /\ callbacks' = [callbacks EXCEPT ![s] = <<>>]
      /\ after' = [after EXCEPT ![s] = None]
      /\ superseded' = superseded \cup ({after[s]} \ {None})
      /\ SetPhase(s, {e \in ToSet(callbacks[s]) : phase[s][e] = "registered"}, "dropped")
      /\ Touch(c, s)
      /\ UNCHANGED <<created, canceled, removed, delay, owner, fired, cpuVars, stack>>
  BY DEF CallDispose, Call
<1>2. TypeOK
  BY DEF IInv
<1>3. PICK q \in Seq(Entry) : q = callbacks[s]
  BY <1>2 DEF TypeOK
<1>4. ToSet(q) = Of(q)
  BY OfIsToSet
<1>5. /\ phase' \in [Source -> [Entry -> Phase]]
      /\ \A r \in Source : \A e \in Entry : phase'[r][e] =
           IF r = s /\ e \in Of(q) /\ phase[s][e] = "registered" THEN "dropped" ELSE phase[r][e]
  <2>1. PICK E : E = {e \in Of(q) : phase[s][e] = "registered"}
    OBVIOUS
  <2>2. SetPhase(s, E, "dropped") /\ "dropped" \in Phase
    BY <1>1, <1>3, <1>4, <2>1 DEF Phase
  <2>3. /\ phase' \in [Source -> [Entry -> Phase]]
        /\ \A r \in Source : \A e \in Entry :
             phase'[r][e] = IF r = s /\ e \in E THEN "dropped" ELSE phase[r][e]
    BY <1>2, <2>2, PhaseOf
  <2> QED  BY <2>1, <2>3
<1>6. /\ raced' \in [Source -> BOOLEAN]
      /\ \A r \in Source : r # s => raced'[r] = raced[r]
      /\ raced[s] => raced'[s]
      /\ c = "Timer" /\ InWindow(s) => raced'[s]
  BY <1>1, <1>2, TouchFacts
<1>7. /\ callbacks' \in [Source -> Seq(Entry)] /\ callbacks'[s] = <<>>
      /\ \A r \in Source : r # s => callbacks'[r] = callbacks[r]
  <2>1. <<>> \in Seq(Entry)
    OBVIOUS
  <2> QED  BY <1>1, <1>2, <2>1 DEF TypeOK
<1>8. /\ disposed' \in [Source -> BOOLEAN] /\ disposed'[s]
      /\ \A r \in Source : r # s => disposed'[r] = disposed[r]
  BY <1>1, <1>2 DEF TypeOK
<1>9. /\ after' \in [Source -> Delay \cup {None}] /\ after'[s] = None
      /\ \A r \in Source : r # s => after'[r] = after[r]
      /\ superseded' \subseteq Delay
  BY <1>1, <1>2 DEF TypeOK
<1>10. Len(<<>>) = 0 /\ <<>> \in Seq(Activation)
  OBVIOUS
<1>11. StackStep(c, n, <<>>)
  <2>1. Moves(c, n, <<>>)
    BY <1>1, <1>2, <1>10, InUser DEF Moves, TypeOK
  <2> QED  BY <1>1, <1>10, <2>1, InUser DEF StackStep, cpuVars
<1>12. TypeOK'
  BY <1>1, <1>2, <1>5, <1>6, <1>7, <1>8, <1>9 DEF TypeOK, cpuVars
<1>13. \A i \in Places(c) : ~(i > n)
  BY <1>1, InUser DEF Places
<1>14. Elsewhere(c, n, <<>>, s)
  BY <1>1, <1>5, <1>6, <1>7, <1>8, <1>10, <1>13 DEF Elsewhere
<1>15. Alone(c, n, <<>>)
  BY <1>10, <1>11, HeirIsAlone
<1>16. DelaysStep(c, n)
  <2>1. \A x \in Delay : x \in superseded' => x \in superseded \/ after[s] = x
    BY <1>1
  <2>2. ASSUME NEW d \in Context, NEW i \in Places(d), Kept(c, n, d, i),
               NEW a \in Activation, a = stack[d][i], AfterOK(a)
        PROVE  AfterOK(a)'
    BY <1>1, <1>9, <2>1, <2>2, DistinctAssumption DEF AfterOK
  <2>3. ASSUME NEW x \in Delay  PROVE DelayOK(x)'
    <3>1. DelayOK(x)
      BY DEF IInv
    <3>2. \A r \in Source : after'[r] = x => r # s /\ after[r] = x
      BY <1>9, DistinctAssumption
    <3> QED  BY <1>1, <2>1, <3>1, <3>2 DEF DelayOK
  <2> QED  BY <2>2, <2>3 DEF DelaysStep
<1>17. KeptOn(c, n, s)
  <2> SUFFICES ASSUME NEW d \in Context, NEW i \in Places(d), Kept(c, n, d, i),
                      NEW a \in Activation, a = stack[d][i], a.s = s, FrameOK(a)
               PROVE  RegOK(a)' /\ ReadOK(a)' /\ LoopOK(a)'
    BY DEF KeptOn
  <2>1. RegOK(a) /\ ReadOK(a) /\ LoopOK(a) /\ Of(a.seq) \subseteq Entry
    BY OfIsToSet DEF FrameOK, Activation
  <2>2. a.pc \in Resting \/ (c = "Timer" /\ d = "App")
    BY <1>11, KeptKind
  <2>3. a.pc = "regWrite" => raced'[s]
    BY <1>6, <2>2 DEF InWindow, Resting
  <2>4. \A e \in Entry : phase[s][e] # "registered" => phase'[s][e] = phase[s][e]
    BY <1>5
  <2>5. RegOK(a)'
    <3>1. a.pc \in RegPc => phase'[a.s][a.e] = phase[a.s][a.e]
      BY <2>1, <2>4 DEF RegOK
    <3> QED  BY <1>1, <1>6, <2>1, <3>1 DEF RegOK
  <2>6. ReadOK(a)'
    BY <1>8, <2>3 DEF ReadOK
  <2>7. LoopOK(a)'
    BY <1>1, <2>1, <2>4 DEF LoopOK, LoopPc
  <2> QED  BY <2>5, <2>6, <2>7
<1>18. Persists(s)
  <2>1. ListOK(s)'
    BY <1>7 DEF ListOK, NoDup, Of
  <2>2. ASSUME NEW e \in Entry  PROVE RegisteredOK(s, e)'
    <3>1. RegisteredOK(s, e)
      BY DEF IInv, EntriesOK
    <3> QED  BY <1>3, <1>5, <1>6, <3>1 DEF RegisteredOK
  <2>3. ASSUME NEW e \in Entry  PROVE TakenOK(s, e)'
    <3>1. CASE phase[s][e] = "taken"
      <4>1. HandsOn(c, n, <<>>, s)
        BY <1>13 DEF HandsOn
      <4> QED  BY <1>11, <3>1, <4>1, TakenStays
    <3>2. CASE phase[s][e] # "taken"
      BY <1>5, <3>2 DEF TakenOK
    <3> QED  BY <3>1, <3>2
  <2>4. ASSUME NEW e \in Entry, phase'[s][e] # phase[s][e]
        PROVE  phase'[s][e] # "ran" /\ (e \in Source => e \in created)
    <3>1. LinkOK(s, e)
      BY DEF IInv, EntriesOK
    <3> QED  BY <1>5, <2>4, <3>1 DEF LinkOK
  <2> QED  BY <2>1, <2>2, <2>3, <2>4 DEF Persists
<1>19. \A j \in 1 .. Len(<<>>) : FrameOK(<<>>[j])' /\ (c = "Timer" => Fresh(<<>>[j])')
  BY <1>10
<1> HIDE DEF n
<1> QED  BY <1>11, <1>12, <1>14, <1>15, <1>16, <1>17, <1>18, <1>19, SourceStep

-----------------------------------------------------------------------------
(* Ticks and passes.                                                        *)

\* The calls stay as they are.
LEMMA StackStays ==
  ASSUME IInv, UNCHANGED <<sourceVars, delayVars, stack, calls, phase, raced>>,
         tick' \in BOOLEAN, passing' \in BOOLEAN, escaped' \in BOOLEAN,
         ~tick' => stack["Timer"] = <<>>
  PROVE  IInv'
<1>1. TypeOK'
  BY DEF IInv, TypeOK, sourceVars, delayVars
<1>2. Shape'
  BY DEF IInv, Shape, Places
<1>3. \A a : FrameOK(a) => FrameOK(a)'
  BY DEF FrameOK, RegOK, ReadOK, LoopOK, AfterOK, sourceVars, delayVars
<1>4. Frames'
  <2>1. ASSUME NEW c \in Context, NEW i \in 1 .. Len(stack'[c])  PROVE FrameOK(stack[c][i])'
    <3>1. PICK a : a = stack[c][i]
      OBVIOUS
    <3>2. FrameOK(a)
      BY <2>1, <3>1 DEF IInv, Frames, Places
    <3>3. FrameOK(a)' /\ a = stack'[c][i]
      BY <1>3, <3>1, <3>2
    <3> QED  BY <3>3 DEF FrameOK, RegOK, ReadOK, LoopOK, AfterOK
  <2> QED  BY <2>1 DEF Frames, Places
<1>5. TickOK'
  BY DEF IInv, TickOK, Fresh, InWindow, Places, sourceVars
<1>6. Apart'
  BY DEF IInv, Apart, Places
<1>7. \A s, P : Inside(s, P)' <=> Inside(s, P)
  BY DEF Inside, Places
<1>8. EntriesOK'
  BY <1>7 DEF IInv, EntriesOK, ListOK, RegisteredOK, TakenOK, LinkOK, Places, sourceVars
<1>9. \A d \in Delay : DelayOK(d)'
  BY DEF IInv, DelayOK, delayVars, sourceVars
<1> QED  BY <1>1, <1>2, <1>4, <1>5, <1>6, <1>8, <1>9 DEF IInv

\* The timer ticks.
LEMMA TimerTickInv ==
  ASSUME IInv, TimerTick
  PROVE  IInv'
BY StackStays DEF TimerTick, IInv, TypeOK

\* The notification of the timer ends.
LEMMA TickEndsInv ==
  ASSUME IInv, TickEnds
  PROVE  IInv'
BY StackStays DEF TickEnds, IInv, TypeOK

\* The application begins or ends a pass.
LEMMA PassInv ==
  ASSUME IInv, BeginPass \/ EndPass
  PROVE  IInv'
BY StackStays DEF BeginPass, EndPass, IInv, TypeOK, Shape

\* Nothing happens.
LEMMA StutterInv ==
  ASSUME IInv, UNCHANGED vars
  PROVE  IInv'
<1>1. /\ UNCHANGED <<sourceVars, delayVars, stack, calls, phase, raced>>
      /\ UNCHANGED <<tick, passing, escaped>>
  BY DEF vars, cpuVars
<1> QED  BY <1>1, StackStays DEF IInv, TypeOK, Shape

-----------------------------------------------------------------------------
(* The invariant.                                                           *)

\* The invariant holds at the start.
LEMMA InitInv ==
  ASSUME Init
  PROVE  IInv
<1>1. TypeOK
  <2>1. <<>> \in Seq(Entry) /\ <<>> \in Seq(Activation)
    OBVIOUS
  <2> QED  BY <2>1 DEF Init, TypeOK, Phase
<1>2. \A c \in Context : stack[c] = <<>> /\ Places(c) = {}
  BY DEF Init, Places
<1>3. Shape /\ Frames /\ TickOK /\ Apart
  BY <1>2 DEF Shape, Frames, TickOK, Apart, Context
<1>4. /\ \A s \in Source : callbacks[s] = <<>> /\ Of(callbacks[s]) = {} /\ NoDup(callbacks[s])
      /\ \A s \in Source : \A e \in Entry : phase[s][e] = "new"
  <2>1. Of(<<>>) = {} /\ NoDup(<<>>)
    BY DEF Of, NoDup
  <2> QED  BY <2>1 DEF Init
<1>5. EntriesOK
  BY <1>4 DEF EntriesOK, ListOK, RegisteredOK, TakenOK, LinkOK
<1>6. \A d \in Delay : DelayOK(d)
  BY DistinctAssumption DEF Init, DelayOK
<1> QED  BY <1>1, <1>3, <1>5, <1>6 DEF IInv

\* Every statement of a call keeps the invariant.
LEMMA StatementInv ==
  ASSUME IInv, NEW c \in Context, Statement(c)
  PROVE  IInv'
<1>1. CASE RegisterCheck(c)
  BY <1>1, RegisterThrows, RegisterRuns, RegisterGoesOn
<1>2. CASE CancelLoop(c)
  BY <1>2, LoopSkips, LoopGoesOn
<1>3. CASE CancelAfterAdd(c)
  <2>1. delay[Top(c).e] = "running" \/ delay[Top(c).e] = "elapsed"
    BY <1>3 DEF CancelAfterAdd
  <2> QED  BY <1>3, <2>1, CancelAfterAdds, CancelAfterAddInv
<1>4. CASE Unwind(c)
  BY <1>4, UnwindDrops, UnwindQuietly
<1>5. CASE RegisterRead(c) \/ RegisterWrite(c) \/ CancelCheck(c) \/ CancelSet(c)
  BY <1>5, RegisterReadInv, RegisterWriteInv, CancelCheckInv, CancelSetInv
<1>6. CASE CancelTake(c) \/ CancelClear(c) \/ CancelFire(c) \/ CancelResumes(c) \/ CancelAfterSet(c)
  BY <1>6, CancelTakeInv, CancelClearInv, CancelFireInv, CancelResumesInv, CancelAfterSetInv
<1>7. CASE RegisterReturns(c) \/ BodyReturns(c) \/ BodyThrows(c) \/ CancelEnds(c) \/ ExceptionLeaves(c)
  BY <1>7, ReturnsInv
<1> QED  BY <1>1, <1>2, <1>3, <1>4, <1>5, <1>6, <1>7 DEF Statement

\* Every call that begins keeps the invariant.
LEMMA CallStepInv ==
  ASSUME IInv, NEW c \in Context, CallStep(c)
  PROVE  IInv'
<1>1. ASSUME NEW s \in Source, NEW k \in Callback, CallRegister(c, s, k)  PROVE IInv'
  BY <1>1, CallRegisterInv
<1>2. ASSUME NEW s \in Source, NEW s2 \in Source \cup {None}, NEW child \in Source,
             CallCreateLinked(c, s, s2, child)
      PROVE  IInv'
  BY <1>2, CallCreateLinkedInv
<1>3. ASSUME NEW s \in Source, NEW first \in BOOLEAN, CallCancel(c, s, first)  PROVE IInv'
  BY <1>3, CallCancelInv
<1>4. ASSUME NEW s \in Source, NEW d \in Delay, CallCancelAfter(c, s, d)  PROVE IInv'
  BY <1>4, CallCancelAfterThrows, CallCancelAfterStarts
<1>5. ASSUME NEW s \in Source, CallDispose(c, s)  PROVE IInv'
  BY <1>5, CallDisposeInv
<1>6. ASSUME NEW k \in Callback, CallUnregister(c, k)  PROVE IInv'
  BY <1>6, CallUnregisterInv
<1>7. ASSUME NEW d \in Delay, DelayElapses(c, d)  PROVE IInv'
  BY <1>7, DelayElapsesInv
<1> QED  BY <1>1, <1>2, <1>3, <1>4, <1>5, <1>6, <1>7 DEF CallStep

\* Every step keeps the invariant.
LEMMA NextInv ==
  ASSUME IInv, [Next]_vars
  PROVE  IInv'
<1>1. CASE UNCHANGED vars
  BY <1>1, StutterInv
<1>2. CASE TimerTick \/ TickEnds \/ BeginPass \/ EndPass
  BY <1>2, TimerTickInv, TickEndsInv, PassInv
<1>3. ASSUME NEW c \in Context, Statement(c) \/ CallStep(c)  PROVE IInv'
  BY <1>3, StatementInv, CallStepInv
<1> QED  BY <1>1, <1>2, <1>3 DEF Next

\* The invariant holds in every state.
LEMMA Invariance == Spec => []IInv
<1>1. Init => IInv
  BY InitInv
<1>2. IInv /\ [Next]_vars => IInv'
  BY NextInv
<1> QED  BY <1>1, <1>2, PTL DEF Spec

-----------------------------------------------------------------------------
(* The properties.                                                          *)

\* The invariant implies what the run checks.
LEMMA InvIsSound ==
  ASSUME IInv
  PROVE  Sound
<1>1. TypeOK /\ \A c \in Context : DOMAIN stack[c] = Places(c)
  BY StackType DEF IInv
<1>2. \A s, P : InCall(s, P) <=> Inside(s, P)
  BY <1>1 DEF InCall, Inside
<1>3. ASSUME NEW c \in Context, NEW i \in DOMAIN stack[c]
      PROVE  /\ stack[c][i] \in Activation /\ FrameOK(stack[c][i]) /\ i \in Places(c)
             /\ ToSet(stack[c][i].seq) = Of(stack[c][i].seq)
  <2>1. i \in Places(c) /\ stack[c][i] \in Activation /\ FrameOK(stack[c][i])
    BY <1>1, StackType DEF IInv, Frames
  <2>2. stack[c][i].seq \in Seq(Entry)
    BY <2>1 DEF Activation
  <2> QED  BY <2>1, <2>2, OfIsToSet
<1>4. NoneMissed
  <2> SUFFICES ASSUME NEW s \in Source, NEW e \in Entry
               PROVE  /\ phase[s][e] = "registered" /\ ~raced[s] =>
                           /\ e \in ToSet(callbacks[s])
                           /\ ~canceled[s] \/ InCall(s, {"canTake"})
                      /\ phase[s][e] = "taken" =>
                           \E c \in Context : \E i \in DOMAIN stack[c] :
                             stack[c][i].s = s /\ e \in ToSet(stack[c][i].seq)
    BY DEF NoneMissed
  <2>1. RegisteredOK(s, e) /\ TakenOK(s, e)
    BY DEF IInv, EntriesOK
  <2>2. callbacks[s] \in Seq(Entry)
    BY <1>1 DEF TypeOK
  <2>3. ToSet(callbacks[s]) = Of(callbacks[s])
    BY <2>2, OfIsToSet
  <2>4. phase[s][e] = "registered" /\ ~raced[s] =>
          e \in ToSet(callbacks[s]) /\ (~canceled[s] \/ InCall(s, {"canTake"}))
    BY <1>2, <2>1, <2>3 DEF RegisteredOK
  <2>5. phase[s][e] = "taken" =>
          \E c \in Context : \E i \in DOMAIN stack[c] :
            stack[c][i].s = s /\ e \in ToSet(stack[c][i].seq)
    BY <1>1, <1>3, <2>1 DEF TakenOK
  <2> QED  BY <2>4, <2>5
<1>5. RunsWhatItTook
  <2> SUFFICES ASSUME NEW c \in Context, NEW i \in DOMAIN stack[c], stack[c][i].pc = "canFire"
               PROVE  /\ stack[c][i].seq # <<>>
                      /\ phase[stack[c][i].s][Head(stack[c][i].seq)] = "taken"
    BY DEF RunsWhatItTook
  <2>1. PICK f \in Activation : f = stack[c][i] /\ LoopOK(f) /\ f.pc = "canFire"
    BY <1>3 DEF FrameOK
  <2>2. PICK q \in Seq(Entry) : q = f.seq
    BY DEF Activation
  <2>3. q # <<>> /\ \A e \in Of(q) : phase[f.s][e] = "taken"
    BY <2>1, <2>2 DEF LoopOK, LoopPc
  <2>4. Head(q) \in Of(q)
    BY <2>3, TailFacts
  <2> QED  BY <2>1, <2>2, <2>3, <2>4
<1>6. LinkedFollow
  <2> SUFFICES ASSUME NEW s \in Source, NEW child \in Source,
                      canceled[s], ~raced[s], ~InCall(s, {"canTake"}),
                      phase[s][child] \in {"registered", "ran"}
               PROVE  \/ canceled[child] \/ disposed[child]
                      \/ InCall(child, {"canCheck", "canSet"})
    BY DEF LinkedFollow
  <2>1. RegisteredOK(s, child) /\ LinkOK(s, child)
    BY DEF IInv, EntriesOK, Entry
  <2> QED  BY <1>2, <2>1 DEF RegisteredOK, LinkOK
<1> QED  BY <1>1, <1>4, <1>5, <1>6 DEF Sound

\* No registration is missed, none is run that was run, skipped or dropped before, and a linked
\* source is canceled with its parent, for every number of sources and callbacks.
THEOREM CancellationIsSound == Spec => []Sound
<1>1. IInv => Sound
  BY InvIsSound
<1> QED  BY <1>1, Invariance, PTL

-----------------------------------------------------------------------------
(* What a step does to the entries that have ended, the removed ones and the delays. *)

Ends == {"ran", "skipped", "dropped"}
EndsKept ==
  \A s \in Source, e \in Entry : phase[s][e] \in Ends => phase'[s][e] = phase[s][e]
NoneFires == \A k \in removed : Firing(k)' => Firing(k)
NoneLate  == (fired' \ fired) \cap superseded = {}

\* A phase set on entries that had not ended ends nothing twice.
LEMMA PhasesEnd ==
  ASSUME TypeOK, NEW s \in Source, NEW E, NEW ph \in Phase, SetPhase(s, E, ph),
         \A e \in Entry : e \in E => phase[s][e] \notin Ends
  PROVE  EndsKept
<1>1. \A r \in Source : \A e \in Entry :
        phase'[r][e] = IF r = s /\ e \in E THEN ph ELSE phase[r][e]
  BY PhaseOf
<1> QED  BY <1>1 DEF EndsKept

\* A Cancel that is about to run a callback was so before, or is new to its stack.
LEMMA MovesFire ==
  ASSUME TypeOK, NEW c \in Context, NEW n, NEW as, Moves(c, n, as),
         \A j \in 1 .. Len(as) : as[j].pc = "canFire" => Head(as[j].seq) \notin removed,
         Len(as) \in Nat
  PROVE  NoneFires
<1>1. /\ n \in Nat /\ n <= Len(stack[c]) /\ Len(stack[c]) \in Nat
      /\ stack' \in [Context -> Seq(Activation)]
      /\ Len(stack'[c]) = n + Len(as)
  BY StackType DEF Moves
<1>2. /\ \A i \in 1 .. n : stack'[c][i] = stack[c][i]
      /\ \A j \in 1 .. Len(as) : stack'[c][n + j] = as[j]
      /\ \A d \in Context : d # c => stack'[d] = stack[d]
  BY DEF Moves
<1> SUFFICES ASSUME NEW k \in removed, NEW d \in Context, NEW i \in DOMAIN stack'[d],
                    stack'[d][i].pc = "canFire", Head(stack'[d][i].seq) = k
             PROVE  Firing(k)
  BY DEF NoneFires, Firing
<1>3. CASE d # c
  BY <1>2, <1>3 DEF Firing
<1>4. CASE d = c
  <2>1. i \in 1 .. n + Len(as)
    <3>1. stack'[c] \in Seq(Activation)
      BY <1>1
    <3> QED  BY <1>1, <1>4, <3>1, LenProperties
  <2>2. CASE i <= n
    <3>1. i \in 1 .. n /\ i \in DOMAIN stack[c]
      BY <1>1, <2>1, <2>2, StackType DEF Places
    <3> QED  BY <1>2, <1>4, <3>1 DEF Firing
  <2>3. CASE ~(i <= n)
    <3>1. i - n \in 1 .. Len(as) /\ i = n + (i - n)
      BY <1>1, <2>1, <2>3, Sums, Zenon
    <3>2. PICK j \in 1 .. Len(as) : i = n + j
      BY <3>1
    <3> QED  BY <1>2, <1>4, <3>2
  <2> QED  BY <2>2, <2>3
<1> QED  BY <1>3, <1>4

\* The calls stay as they are: nothing new is about to run.
LEMMA StaysFire == ASSUME UNCHANGED stack  PROVE NoneFires
BY DEF NoneFires, Firing

\* A call that begins is not about to run a callback.
LEMMA PushFires ==
  ASSUME TypeOK, NEW c \in Context, NEW b \in Activation, Push(c, b), b.pc # "canFire"
  PROVE  NoneFires
<1>1. Moves(c, Len(stack[c]), <<b>>)
  BY PushMoves
<1>2. Len(<<b>>) \in Nat /\ \A j \in 1 .. Len(<<b>>) : <<b>>[j] = b
  OBVIOUS
<1> QED  BY <1>1, <1>2, MovesFire

\* A call that ends runs none.
LEMMA PopFires ==
  ASSUME TypeOK, NEW c \in Context, stack[c] # <<>>, Pop(c)
  PROVE  NoneFires
<1>1. Moves(c, Len(stack[c]) - 1, <<>>)
  BY PopMoves
<1>2. Len(<<>>) = 0
  OBVIOUS
<1> QED  BY <1>1, <1>2, MovesFire

\* A call that goes on as another is about to run only what that one is.
LEMMA ReplaceFires ==
  ASSUME TypeOK, NEW c \in Context, stack[c] # <<>>, NEW b \in Activation, Replace(c, b),
         b.pc = "canFire" => Head(b.seq) \notin removed
  PROVE  NoneFires
<1>1. Moves(c, Len(stack[c]) - 1, <<b>>)
  BY ReplaceMoves
<1>2. Len(<<b>>) \in Nat /\ \A j \in 1 .. Len(<<b>>) : <<b>>[j] = b
  OBVIOUS
<1> QED  BY <1>1, <1>2, MovesFire

\* The same when it calls another.
LEMMA TwoFires ==
  ASSUME TypeOK, NEW c \in Context, stack[c] # <<>>, NEW a \in Activation, NEW b \in Activation,
         stack' = [stack EXCEPT ![c] = Append(Front(@), a) \o <<b>>],
         a.pc # "canFire", b.pc # "canFire"
  PROVE  NoneFires
<1>1. Moves(c, Len(stack[c]) - 1, <<a, b>>)
  BY TwoMoves
<1>2. Len(<<a, b>>) = 2 /\ <<a, b>>[1] = a /\ <<a, b>>[2] = b
  OBVIOUS
<1>3. \A j \in 1 .. 2 : j = 1 \/ j = 2
  OBVIOUS
<1>4. \A j \in 1 .. Len(<<a, b>>) : <<a, b>>[j] = a \/ <<a, b>>[j] = b
  BY <1>2, <1>3
<1> QED  BY <1>1, <1>2, <1>4, MovesFire

\* The same when it has caught an exception.
LEMMA CatchFires ==
  ASSUME TypeOK, NEW c \in Context, Len(stack[c]) > 1, NEW b \in Activation, b.pc # "canFire",
         stack' = [stack EXCEPT ![c] = Append(Front(Front(stack[c])), b)]
  PROVE  NoneFires
<1>1. Moves(c, Len(stack[c]) - 2, <<b>>)
  BY CatchMoves
<1>2. Len(<<b>>) \in Nat /\ \A j \in 1 .. Len(<<b>>) : <<b>>[j] = b
  OBVIOUS
<1> QED  BY <1>1, <1>2, MovesFire

\* The same when it goes on at another statement than canFire.
LEMMA GotoFires ==
  ASSUME TypeOK, NEW c \in Context, stack[c] # <<>>, Top(c) \in Activation, NEW pc \in Pc,
         Goto(c, pc), pc = "canFire" => Head(Top(c).seq) \notin removed
  PROVE  NoneFires
<1>1. PICK b \in Activation : b = [Top(c) EXCEPT !.pc = pc] /\ b.pc = pc /\ b.seq = Top(c).seq
  <2>1. /\ [Top(c) EXCEPT !.pc = pc] \in Activation /\ [Top(c) EXCEPT !.pc = pc].pc = pc
        /\ [Top(c) EXCEPT !.pc = pc].seq = Top(c).seq
    BY GotoType
  <2> QED  BY <2>1
<1>2. Replace(c, b)
  BY <1>1 DEF Goto
<1> QED  BY <1>1, <1>2, ReplaceFires

\* A call that throws runs none.
LEMMA ThrowFires ==
  ASSUME TypeOK, NEW c \in Context, stack[c] # <<>>, Throw(c)
  PROVE  NoneFires
<1>1. PICK b \in Activation : b = Frame("throw", None, None) /\ b.pc = "throw"
  BY FrameType DEF Pc
<1> QED  BY <1>1, ReplaceFires DEF Throw

\* Register runs an entry once.
LEMMA RegisterFires ==
  ASSUME IInv, NEW c \in Context,
         RegisterCheck(c) \/ RegisterRead(c) \/ RegisterWrite(c) \/ RegisterReturns(c)
  PROVE  EndsKept /\ NoneFires
<1>1. TypeOK /\ OnCpu(c) /\ stack[c] # <<>>
  BY DEF IInv, RegisterCheck, RegisterRead, RegisterWrite, RegisterReturns, At
<1>2. Top(c) \in Activation /\ FrameOK(Top(c))
  BY <1>1, OnTop
<1>3. Top(c).pc \in RegPc =>
        Top(c).s \in Source /\ Top(c).e \in Entry /\ phase[Top(c).s][Top(c).e] \notin Ends
  BY <1>2 DEF FrameOK, RegOK, Ends
<1>4. CASE RegisterCheck(c)
  <2>1. Top(c).pc \in RegPc
    BY <1>4 DEF RegisterCheck, At, RegPc
  <2>2. EndsKept
    BY <1>1, <1>3, <1>4, <2>1, PhasesEnd DEF RegisterCheck, Phase, EndsKept
  <2>3. CASE Throw(c)
    BY <1>1, <2>2, <2>3, ThrowFires
  <2>4. CASE RunIn(c, "regRun", Invocation(Top(c).e))
    <3>1. PICK b \in Activation : b = Invocation(Top(c).e) /\ b.pc \in {"body", "canCheck"}
      BY <1>3, <2>1, InvocationFrame
    <3>2. PICK a \in Activation : a = [Top(c) EXCEPT !.pc = "regRun"] /\ a.pc = "regRun"
      <4>1. PICK t \in Activation : t = Top(c)
        BY <1>2
      <4>2. "regRun" \in Pc
        BY DEF Pc
      <4>3. [t EXCEPT !.pc = "regRun"] \in Activation /\ [t EXCEPT !.pc = "regRun"].pc = "regRun"
        BY <4>2, GotoType
      <4> QED  BY <4>1, <4>3
    <3> QED  BY <1>1, <2>2, <2>4, <3>1, <3>2, TwoFires DEF RunIn
  <2>5. CASE Goto(c, "regRead")
    BY <1>1, <1>2, <2>2, <2>5, GotoFires DEF Pc
  <2> QED  BY <1>4, <2>3, <2>4, <2>5 DEF RegisterCheck
<1>5. CASE RegisterRead(c)
  <2>1. Top(c).s \in Source
    BY <1>3, <1>5 DEF RegisterRead, At, RegPc
  <2>2. callbacks[Top(c).s] \in Seq(Entry) /\ "regWrite" \in Pc
    BY <1>1, <2>1 DEF TypeOK, Pc
  <2>3. PICK b \in Activation : b = WithSeq(Top(c), "regWrite", callbacks[Top(c).s]) /\ b.pc = "regWrite"
    <3>1. /\ WithSeq(Top(c), "regWrite", callbacks[Top(c).s]) \in Activation
          /\ WithSeq(Top(c), "regWrite", callbacks[Top(c).s]).pc = "regWrite"
      BY <1>2, <2>2, SeqType
    <3> QED  BY <3>1
  <2>4. Replace(c, b) /\ UNCHANGED phase
    BY <1>5, <2>3 DEF RegisterRead, WithSeq
  <2> QED  BY <1>1, <2>3, <2>4, ReplaceFires DEF EndsKept
<1>6. CASE RegisterWrite(c)
  <2>1. Top(c).pc \in RegPc
    BY <1>6 DEF RegisterWrite, At, RegPc
  <2>2. PICK ph \in Phase : SetPhase(Top(c).s, {Top(c).e}, ph)
    <3>1. (IF disposed[Top(c).s] THEN "dropped" ELSE "registered") \in Phase
      BY DEF Phase
    <3> QED  BY <1>6, <3>1 DEF RegisterWrite
  <2>3. EndsKept
    BY <1>1, <1>3, <2>1, <2>2, PhasesEnd
  <2> QED  BY <1>1, <1>6, <2>3, PopFires DEF RegisterWrite
<1>7. CASE RegisterReturns(c)
  BY <1>1, <1>7, PopFires DEF RegisterReturns, EndsKept
<1> QED  BY <1>4, <1>5, <1>6, <1>7

\* The loop runs, skips or goes to an entry that it took.
LEMMA LoopFires ==
  ASSUME IInv, NEW c \in Context, CancelLoop(c) \/ CancelFire(c)
  PROVE  EndsKept /\ NoneFires
<1>1. /\ TypeOK /\ OnCpu(c) /\ stack[c] # <<>>
      /\ Top(c).pc \in {"canLoop", "canFire"}
  BY DEF IInv, CancelLoop, CancelFire, At
<1>2. Top(c) \in Activation /\ FrameOK(Top(c))
  BY <1>1, OnTop
<1>3. Top(c).seq # <<>>
  BY <1>2 DEF CancelLoop, CancelFire, At, FrameOK, LoopOK
<1>4. /\ Top(c).s \in Source /\ Head(Top(c).seq) \in Entry
      /\ phase[Top(c).s][Head(Top(c).seq)] \notin Ends
      /\ Tail(Top(c).seq) \in Seq(Entry)
  BY <1>1, <1>3, LoopEntry DEF Ends
<1>5. CASE CancelLoop(c) /\ Head(Top(c).seq) \in removed
  <2>1. EndsKept
    <3>1. SetPhase(Top(c).s, {Head(Top(c).seq)}, "skipped") /\ "skipped" \in Phase
      BY <1>5 DEF CancelLoop, Phase
    <3> QED  BY <1>1, <1>4, <3>1, PhasesEnd
  <2>2. PICK b \in Activation : b = [Top(c) EXCEPT !.seq = Tail(@)] /\ b.pc = Top(c).pc
    <3>1. [Top(c) EXCEPT !.seq = Tail(@)] \in Activation /\ [Top(c) EXCEPT !.seq = Tail(@)].pc = Top(c).pc
      BY <1>2, <1>4 DEF Activation
    <3> QED  BY <3>1
  <2>3. Replace(c, b) /\ b.pc = "canLoop"
    BY <1>5, <2>2 DEF CancelLoop, At
  <2> QED  BY <1>1, <2>1, <2>3, ReplaceFires
<1>6. CASE CancelLoop(c) /\ Head(Top(c).seq) \notin removed
  <2>1. Goto(c, "canFire") /\ UNCHANGED phase
    BY <1>6 DEF CancelLoop
  <2> QED  BY <1>1, <1>2, <1>6, <2>1, GotoFires DEF EndsKept, Pc
<1>7. CASE CancelFire(c)
  <2>1. EndsKept
    <3>1. SetPhase(Top(c).s, {Head(Top(c).seq)}, "ran") /\ "ran" \in Phase
      BY <1>7 DEF CancelFire, Phase
    <3> QED  BY <1>1, <1>4, <3>1, PhasesEnd
  <2>2. PICK b \in Activation : b = Invocation(Head(Top(c).seq)) /\ b.pc \in {"body", "canCheck"}
    BY <1>4, InvocationFrame
  <2>3. PICK a \in Activation : a = [Top(c) EXCEPT !.pc = "canRun", !.seq = Tail(@)] /\ a.pc = "canRun"
    <3>1. /\ [Top(c) EXCEPT !.pc = "canRun", !.seq = Tail(@)] \in Activation
          /\ [Top(c) EXCEPT !.pc = "canRun", !.seq = Tail(@)].pc = "canRun"
      BY <1>2, <1>4 DEF Activation, Pc
    <3> QED  BY <3>1
  <2>4. stack' = [stack EXCEPT ![c] = Append(Front(@), a) \o <<b>>]
    BY <1>7, <2>2, <2>3 DEF CancelFire
  <2> QED  BY <1>1, <2>1, <2>2, <2>3, <2>4, TwoFires
<1> QED  BY <1>5, <1>6, <1>7

\* The other statements of Cancel.
LEMMA CancelFires ==
  ASSUME IInv, NEW c \in Context,
         \/ CancelCheck(c) \/ CancelSet(c) \/ CancelTake(c) \/ CancelClear(c) \/ CancelResumes(c)
         \/ CancelEnds(c) \/ CancelAfterSet(c) \/ BodyReturns(c) \/ BodyThrows(c) \/ ExceptionLeaves(c)
  PROVE  EndsKept /\ NoneFires
<1>1. TypeOK /\ OnCpu(c) /\ stack[c] # <<>>
  BY DEF IInv, CancelCheck, CancelSet, CancelTake, CancelClear, CancelResumes, CancelEnds,
         CancelAfterSet, BodyReturns, BodyThrows, ExceptionLeaves, At
<1>2. Top(c) \in Activation /\ FrameOK(Top(c))
  BY <1>1, OnTop
<1>3. CASE CancelTake(c)
  <2>1. Top(c).pc = "canTake" /\ Top(c).s \in Source
    BY <1>2, <1>3 DEF CancelTake, At, FrameOK, LoopOK
  <2>2. PICK q \in Seq(Entry) : q = callbacks[Top(c).s]
    BY <1>1, <2>1 DEF TypeOK
  <2>3. ToSet(q) = Of(q) /\ \A e \in Of(q) : phase[Top(c).s][e] \notin Ends
    BY <1>1, <2>1, <2>2, OfIsToSet, TakesRegistered DEF Ends
  <2>4. EndsKept
    <3>1. SetPhase(Top(c).s, Of(q), "taken") /\ "taken" \in Phase
      BY <1>3, <2>2, <2>3 DEF CancelTake, Phase
    <3> QED  BY <1>1, <2>1, <2>3, <3>1, PhasesEnd
  <2>5. PICK b \in Activation : b = WithSeq(Top(c), "canClear", q) /\ b.pc = "canClear"
    <3>1. "canClear" \in Pc
      BY DEF Pc
    <3>2. WithSeq(Top(c), "canClear", q) \in Activation /\ WithSeq(Top(c), "canClear", q).pc = "canClear"
      BY <1>2, <3>1, SeqType
    <3> QED  BY <3>2
  <2>6. Replace(c, b)
    BY <1>3, <2>2, <2>5 DEF CancelTake, WithSeq
  <2> QED  BY <1>1, <2>4, <2>5, <2>6, ReplaceFires
<1>4. CASE ~CancelTake(c)
  <2>1. UNCHANGED phase
    BY <1>4 DEF CancelCheck, CancelSet, CancelClear, CancelResumes, CancelEnds, CancelAfterSet,
                BodyReturns, BodyThrows, ExceptionLeaves
  <2>2. \/ Throw(c) \/ Pop(c)
        \/ \E pc \in {"canSet", "canTake", "canLoop", "afterAdd"} : Goto(c, pc)
    BY <1>4 DEF CancelCheck, CancelSet, CancelClear, CancelResumes, CancelEnds, CancelAfterSet,
                BodyReturns, BodyThrows, ExceptionLeaves
  <2>3. ASSUME NEW pc \in {"canSet", "canTake", "canLoop", "afterAdd"}, Goto(c, pc)
        PROVE  NoneFires
    <3>1. pc \in Pc /\ pc # "canFire"
      BY DEF Pc
    <3> QED  BY <1>1, <1>2, <2>3, <3>1, GotoFires
  <2>4. NoneFires
    BY <1>1, <2>2, <2>3, ThrowFires, PopFires
  <2> QED  BY <2>1, <2>4 DEF EndsKept
<1> QED  BY <1>3, <1>4

\* An exception runs nothing, and drops only what was taken.
LEMMA UnwindFires ==
  ASSUME IInv, NEW c \in Context, Unwind(c)
  PROVE  EndsKept /\ NoneFires
<1> DEFINE f == Last(Front(stack[c]))
<1>1. /\ TypeOK /\ stack[c] \in Seq(Activation) /\ Len(stack[c]) > 1 /\ Len(stack[c]) \in Nat
      /\ stack[c] # <<>>
  BY StackType DEF IInv, Unwind, At
<1>2. f \in Activation /\ FrameOK(f)
  <2>1. Len(stack[c]) - 1 \in Places(c) /\ Len(stack[c]) - 1 \in 1 .. Len(stack[c]) - 1
    BY <1>1 DEF Places
  <2>2. /\ Len(Front(stack[c])) = Len(stack[c]) - 1
        /\ \A i \in 1 .. Len(stack[c]) - 1 : Front(stack[c])[i] = stack[c][i]
    BY <1>1, FrontFacts
  <2>3. f = stack[c][Len(stack[c]) - 1]
    BY <2>1, <2>2 DEF Last
  <2> QED  BY <1>1, <2>1, <2>3, StackType DEF IInv, Frames
<1>3. PICK t \in Activation : t = Frame("throw", None, None) /\ t.pc = "throw"
  BY FrameType DEF Pc
<1>4. ASSUME NEW g \in Activation, g.pc # "canFire",
             stack' = [stack EXCEPT ![c] = Append(Front(Front(stack[c])), g)]
      PROVE  NoneFires
  BY <1>1, <1>4, CatchFires
<1>5. CASE f.pc = "canRun" /\ ~f.first /\ UNCHANGED phase /\
           stack' = [stack EXCEPT ![c] =
                       Append(Front(Front(stack[c])), [f EXCEPT !.pc = "canLoop", !.failed = TRUE])]
  <2>1. PICK g \in Activation : g = [f EXCEPT !.pc = "canLoop", !.failed = TRUE] /\ g.pc = "canLoop"
    <3>1. /\ [f EXCEPT !.pc = "canLoop", !.failed = TRUE] \in Activation
          /\ [f EXCEPT !.pc = "canLoop", !.failed = TRUE].pc = "canLoop"
      BY <1>2 DEF Activation, Pc
    <3> QED  BY <3>1
  <2> HIDE DEF f
  <2> QED  BY <1>4, <1>5, <2>1 DEF EndsKept
<1>6. CASE f.pc = "canRun" /\ SetPhase(f.s, ToSet(f.seq), "dropped") /\
           stack' = [stack EXCEPT ![c] = Append(Front(Front(stack[c])), Frame("throw", None, None))]
  <2>1. PICK q \in Seq(Entry) : q = f.seq
    BY <1>2 DEF Activation
  <2>2. f.s \in Source /\ \A e \in Of(q) : phase[f.s][e] \notin Ends
    BY <1>2, <1>6, <2>1 DEF FrameOK, LoopOK, LoopPc, Ends
  <2>3. ToSet(q) = Of(q)
    BY OfIsToSet
  <2>4. SetPhase(f.s, Of(q), "dropped") /\ "dropped" \in Phase
    BY <1>6, <2>1, <2>3 DEF Phase
  <2>5. EndsKept
    BY <1>1, <2>2, <2>4, PhasesEnd
  <2> QED  BY <1>3, <1>4, <1>6, <2>5
<1>7. CASE f.pc = "body" /\ UNCHANGED phase /\
           stack' = [stack EXCEPT ![c] = Append(Front(Front(stack[c])), f)]
  <2> HIDE DEF f
  <2> QED  BY <1>2, <1>4, <1>7 DEF EndsKept
<1>8. CASE UNCHANGED phase /\
           stack' = [stack EXCEPT ![c] = Append(Front(Front(stack[c])), Frame("throw", None, None))]
  BY <1>3, <1>4, <1>8 DEF EndsKept
<1> QED  BY <1>5, <1>6, <1>7, <1>8 DEF Unwind

\* A delay that is over fires only for its source, which has no other one.
LEMMA EffectiveIsNew ==
  ASSUME IInv, NEW d \in Delay, delay[d] # "new", Effective(d)
  PROVE  owner[d] \in Source /\ d \notin superseded
BY DEF IInv, DelayOK, Effective

\* A delay fires only if it was not superseded.
LEMMA DelayFires ==
  ASSUME IInv, NEW c \in Context, CancelAfterAdd(c) \/ \E d \in Delay : DelayElapses(c, d)
  PROVE  EndsKept /\ NoneFires /\ NoneLate
<1>1. TypeOK /\ UNCHANGED phase
  BY DEF IInv, CancelAfterAdd, DelayElapses
<1>2. ASSUME NEW s \in Source
      PROVE  \E b \in Activation : b = Frame("canCheck", s, None) /\ b.pc = "canCheck"
  BY FrameType DEF Pc
<1>3. CASE CancelAfterAdd(c)
  <2>1. stack[c] # <<>> /\ FrameOK(Top(c)) /\ Top(c).pc = "afterAdd"
    BY <1>3, OnTop DEF CancelAfterAdd, At
  <2>2. PICK d \in Delay : d = Top(c).e
    BY <2>1 DEF FrameOK, AfterOK
  <2>3. CASE Pop(c) /\ UNCHANGED fired
    BY <1>1, <2>1, <2>3, PopFires DEF EndsKept, NoneLate
  <2>4. CASE /\ delay[d] = "elapsed" /\ Effective(d)
             /\ Replace(c, Frame("canCheck", owner[d], None)) /\ fired' = fired \cup {d}
    <3>1. owner[d] \in Source /\ d \notin superseded
      BY <2>4, EffectiveIsNew
    <3>2. PICK b \in Activation : b = Frame("canCheck", owner[d], None) /\ b.pc = "canCheck"
      BY <1>2, <3>1
    <3>3. NoneFires
      BY <1>1, <2>1, <2>4, <3>2, ReplaceFires
    <3> QED  BY <1>1, <2>4, <3>1, <3>3 DEF EndsKept, NoneLate
  <2> QED  BY <1>3, <2>2, <2>3, <2>4 DEF CancelAfterAdd
<1>4. ASSUME NEW d \in Delay, DelayElapses(c, d)  PROVE EndsKept /\ NoneFires /\ NoneLate
  <2>1. CASE UNCHANGED <<stack, fired>>
    BY <1>1, <2>1, StaysFire DEF EndsKept, NoneLate
  <2>2. CASE /\ delay[d] = "running" /\ Effective(d)
             /\ Push(c, Frame("canCheck", owner[d], None)) /\ fired' = fired \cup {d}
    <3>1. owner[d] \in Source /\ d \notin superseded
      BY <2>2, EffectiveIsNew
    <3>2. PICK b \in Activation : b = Frame("canCheck", owner[d], None) /\ b.pc = "canCheck"
      BY <1>2, <3>1
    <3>3. NoneFires
      BY <1>1, <2>2, <3>2, PushFires
    <3> QED  BY <1>1, <2>2, <3>1, <3>3 DEF EndsKept, NoneLate
  <2> QED  BY <1>4, <2>1, <2>2 DEF DelayElapses, Elapses
<1> QED  BY <1>3, <1>4

\* The calls that begin.
LEMMA CallFires ==
  ASSUME IInv, NEW c \in Context, CallStep(c)
  PROVE  EndsKept /\ NoneFires /\ NoneLate
<1>1. TypeOK
  BY DEF IInv
<1>2. ASSUME NEW s \in Source, NEW k \in Callback, CallRegister(c, s, k)
      PROVE  EndsKept /\ NoneFires /\ NoneLate
  <2>1. k \in Entry
    BY DEF Entry
  <2>2. PICK b \in Activation : b = Frame("regCheck", s, k) /\ b.pc = "regCheck"
    BY <2>1, FrameType DEF Pc
  <2>3. NoneFires
    BY <1>1, <1>2, <2>2, PushFires DEF CallRegister
  <2>4. SetPhase(s, {k}, "registering") /\ "registering" \in Phase /\ phase[s][k] \notin Ends
    BY <1>2 DEF CallRegister, Phase, Ends
  <2>5. EndsKept
    BY <1>1, <2>4, PhasesEnd
  <2> QED  BY <1>2, <2>3, <2>5 DEF CallRegister, NoneLate, delayVars
<1>3. ASSUME NEW s \in Source, NEW s2 \in Source \cup {None}, NEW child \in Source,
             CallCreateLinked(c, s, s2, child)
      PROVE  EndsKept /\ NoneFires /\ NoneLate
  <2>1. PICK as \in Seq(Activation) :
          /\ Moves(c, Len(stack[c]), as)
          /\ \A j \in 1 .. Len(as) : as[j].pc = "regCheck" /\ as[j].s \in Source /\ as[j].e = child
          /\ \A i, j \in 1 .. Len(as) : as[i].s = as[j].s => i = j
    BY <1>3, LinkedMoves
  <2>2. \A j \in 1 .. Len(as) : as[j].pc = "canFire" => Head(as[j].seq) \notin removed
    BY <2>1
  <2>3. NoneFires
    <3>1. PICK n : n = Len(stack[c])
      OBVIOUS
    <3>2. Moves(c, n, as) /\ Len(as) \in Nat
      BY <2>1, <3>1, LenProperties
    <3> QED  BY <1>1, <2>2, <3>2, MovesFire
  <2> QED  BY <1>3, <2>3 DEF CallCreateLinked, EndsKept, NoneLate, delayVars
<1>4. ASSUME NEW s \in Source, NEW first \in BOOLEAN, CallCancel(c, s, first)
      PROVE  EndsKept /\ NoneFires /\ NoneLate
  <2>1. PICK f \in Activation : f = Frame("canCheck", s, None) /\ f.pc = "canCheck" /\ f.s = s
    BY FrameType DEF Pc
  <2>2. PICK b \in Activation : b = [f EXCEPT !.first = first] /\ b.pc = "canCheck" /\ b.s = s
    BY <2>1, FirstType
  <2>3. NoneFires
    BY <1>1, <1>4, <2>1, <2>2, PushFires DEF CallCancel
  <2> QED  BY <1>4, <2>3 DEF CallCancel, EndsKept, NoneLate, delayVars
<1>5. ASSUME NEW s \in Source, NEW d \in Delay, CallCancelAfter(c, s, d)
      PROVE  EndsKept /\ NoneFires /\ NoneLate
  <2>1. PICK t \in Activation : t = Frame("throw", None, None) /\ t.pc = "throw"
    BY FrameType DEF Pc
  <2>2. PICK b \in Activation : b = Frame("afterSet", s, d) /\ b.pc = "afterSet"
    BY FrameType DEF Pc
  <2>3. Push(c, t) \/ Push(c, b)
    BY <1>5, <2>1, <2>2 DEF CallCancelAfter
  <2>4. NoneFires
    BY <1>1, <2>1, <2>2, <2>3, PushFires
  <2> QED  BY <1>5, <2>4 DEF CallCancelAfter, EndsKept, NoneLate
<1>6. ASSUME NEW s \in Source, CallDispose(c, s)
      PROVE  EndsKept /\ NoneFires /\ NoneLate
  <2>1. PICK E : E = {e \in ToSet(callbacks[s]) : phase[s][e] = "registered"}
    OBVIOUS
  <2>2. SetPhase(s, E, "dropped") /\ "dropped" \in Phase
    BY <1>6, <2>1 DEF CallDispose, Phase
  <2>3. EndsKept
    BY <1>1, <2>1, <2>2, PhasesEnd DEF Ends
  <2> QED  BY <1>6, <2>3, StaysFire DEF CallDispose, NoneLate
<1>7. ASSUME NEW k \in Callback, CallUnregister(c, k)  PROVE EndsKept /\ NoneFires /\ NoneLate
  BY <1>7, StaysFire DEF CallUnregister, EndsKept, NoneLate, delayVars
<1>8. ASSUME NEW d \in Delay, DelayElapses(c, d)  PROVE EndsKept /\ NoneFires /\ NoneLate
  BY <1>8, DelayFires
<1> QED  BY <1>2, <1>3, <1>4, <1>5, <1>6, <1>7, <1>8 DEF CallStep

\* Every statement of a call.
LEMMA StatementFires ==
  ASSUME IInv, NEW c \in Context, Statement(c)
  PROVE  EndsKept /\ NoneFires /\ NoneLate
<1>1. CASE CancelAfterAdd(c)
  BY <1>1, DelayFires
<1>2. CASE ~CancelAfterAdd(c)
  <2>1. UNCHANGED fired
    BY <1>2 DEF Statement, RegisterCheck, RegisterRead, RegisterWrite, RegisterReturns,
         CancelCheck, CancelSet, CancelTake, CancelClear, CancelLoop, CancelFire, CancelResumes,
         CancelEnds, CancelAfterSet, BodyReturns, BodyThrows, Unwind, ExceptionLeaves, delayVars
  <2>2. EndsKept /\ NoneFires
    BY <1>2, RegisterFires, CancelFires, LoopFires, UnwindFires DEF Statement
  <2> QED  BY <2>1, <2>2 DEF NoneLate
<1> QED  BY <1>1, <1>2

\* An entry that has run, or was skipped or dropped, stays so: it runs at most once; a step calls
\* no callback whose registration is disposed; and a delay that was replaced cancels nothing.
THEOREM CallbacksRunOnce == Spec => RunsOnceUnlessRemoved
<1>1. IInv /\ [Next]_vars => EndsKept /\ NoneFires /\ NoneLate
  <2> SUFFICES ASSUME IInv, [Next]_vars  PROVE EndsKept /\ NoneFires /\ NoneLate
    OBVIOUS
  <2>1. CASE UNCHANGED <<stack, phase, fired>>
    BY <2>1, StaysFire DEF EndsKept, NoneLate
  <2>2. ASSUME NEW c \in Context, Statement(c) \/ CallStep(c)  PROVE EndsKept /\ NoneFires /\ NoneLate
    BY <2>2, StatementFires, CallFires
  <2>3. CASE TimerTick \/ TickEnds \/ BeginPass \/ EndPass \/ UNCHANGED vars
    BY <2>1, <2>3 DEF TimerTick, TickEnds, BeginPass, EndPass, vars, delayVars
  <2> QED  BY <2>2, <2>3 DEF Next
<1>2. EndsKept /\ NoneFires /\ NoneLate =>
        /\ \A s \in Source, e \in Entry :
             phase[s][e] \in {"ran", "skipped", "dropped"} => phase'[s][e] = phase[s][e]
        /\ \A k \in removed : Firing(k)' => Firing(k)
        /\ (fired' \ fired) \cap superseded = {}
  BY DEF EndsKept, NoneFires, NoneLate, Ends
<1> QED  BY <1>1, <1>2, Invariance, PTL DEF Spec, RunsOnceUnlessRemoved

-----------------------------------------------------------------------------
(* BufferedStream: the inductive invariant.                                 *)

\* The steps of a call that are not a step of FlushWriteBuffer, and the calls.
SeekAt   == {"seek", "seekCurrent", "seekEnd"}
DrainedAt == SeekAt \cup {"read", "copy", "length", "close"}
CallAt   == DrainedAt \cup {"idle", "flush", "return", "write"}
CallDo   == SeekAt \cup {"none", "return", "read", "write", "length", "close"}
StreamCall ==
  [at : CallAt, do : CallDo, n : Int, data : Seq(Byte), got : Seq(Byte), want : Int]

StreamTypes ==
  /\ file \in Seq(Byte) /\ place \in 0 .. Len(file)
  /\ buffer \in [1 .. BufferSize -> Byte]
  /\ rlen \in 0 .. BufferSize /\ rpos \in 0 .. rlen
  /\ wpos \in 0 .. BufferSize /\ flushed \in 0 .. wpos
  /\ closed \in BOOLEAN /\ threw \in BOOLEAN /\ astray \in BOOLEAN
  /\ op \in StreamCall

\* The buffer has one use, and what was read ahead is in the file.
BufferOK ==
  /\ wpos > 0 => rlen - rpos = 0
  /\ rlen - rpos <= place
  /\ \A i \in 1 .. rlen - rpos : buffer[rpos + i] = file[place - (rlen - rpos) + i]

\* Where a call is, what it does and what it has still to do fit.
CallOK ==
  /\ op.at = "idle" => op = B!Idle
  /\ op.at = "flush" => op.do # "none"
  /\ op.at = "write" => op.do = "write"
  /\ op.at = "return" => op.do \in {"return", "read"}
  /\ op.at \in DrainedAt => op.do = IF op.at = "copy" THEN "read" ELSE op.at
  /\ op.do = "write" => rlen - rpos = 0
  /\ op.do # "write" => op.data = <<>>
  /\ op.do # "read" => op.got = <<>>
  /\ op.do = "length" => op.n \in Nat
DrainedOK ==
  /\ op.at # "flush" => flushed = 0
  /\ op.at \in DrainedAt => wpos = 0
ReadCallOK ==
  op.do = "read" =>
    /\ op.at # "return" => op.n > 0 /\ Len(op.got) + op.n = op.want
    /\ op.at \in {"flush", "read"} => op.got = <<>>
    /\ op.at = "return" => wpos = 0 /\ (place - (rlen - rpos) = Len(file) \/ Len(op.got) = op.want)
SeekOK ==
  /\ op.do = "seek" => op.n = op.want
  /\ op.do = "seekCurrent" => place + (wpos - flushed) + op.n = op.want
  /\ op.do = "seekEnd" => Len(B!Content) + op.n = op.want
  /\ op.do \in SeekAt => op.want \in 0 .. Len(B!Content)
ClosedOK == closed => op = B!Idle /\ (threw \/ wpos = 0)

StreamInv == StreamTypes /\ BufferOK /\ CallOK /\ DrainedOK /\ ReadCallOK /\ SeekOK /\ ClosedOK
-----------------------------------------------------------------------------
(* Sequences of bytes.                                                      *)

\* An array of n bytes is a sequence of n bytes.
LEMMA ArrayIsSeq ==
  ASSUME NEW S, NEW n \in Nat, NEW f \in [1 .. n -> S]
  PROVE  f \in Seq(S) /\ Len(f) = n
<1>1. f \in Seq(S)
  BY SeqDef
<1>2. Len(f) \in Nat /\ DOMAIN f = 1 .. Len(f)
  BY <1>1, LenProperties
<1>3. 1 .. Len(f) = 1 .. n
  BY <1>2
<1>4. Len(f) \in Nat /\ n \in Nat /\ 1 .. Len(f) = 1 .. n => Len(f) = n
  OBVIOUS
<1> QED  BY <1>1, <1>2, <1>3, <1>4

\* A part of a sequence.
LEMMA Slice ==
  ASSUME NEW S, NEW s \in Seq(S), NEW a \in Nat, NEW b \in Nat, a <= b, b <= Len(s)
  PROVE  /\ SubSeq(s, a + 1, b) \in Seq(S)
         /\ Len(SubSeq(s, a + 1, b)) = b - a
         /\ \A i \in 1 .. b - a : SubSeq(s, a + 1, b)[i] = s[a + i]
<1>1. \A i \in a + 1 .. b : s[i] \in S
  <2>1. Len(s) \in Nat /\ \A i \in 1 .. Len(s) : s[i] \in S
    BY LenProperties, ElementOfSeq
  <2> QED  BY <2>1
<1>2. a + 1 \in Int /\ b \in Int
  OBVIOUS
<1>3. /\ SubSeq(s, a + 1, b) \in Seq(S)
      /\ Len(SubSeq(s, a + 1, b)) = IF a + 1 <= b THEN b - (a + 1) + 1 ELSE 0
      /\ \A i \in 1 .. b - (a + 1) + 1 : SubSeq(s, a + 1, b)[i] = s[a + 1 + i - 1]
  BY <1>1, <1>2, SubSeqProperties
<1>4. (IF a + 1 <= b THEN b - (a + 1) + 1 ELSE 0) = b - a /\ b - (a + 1) + 1 = b - a
  OBVIOUS
<1>5. ASSUME NEW i \in 1 .. b - a  PROVE a + 1 + i - 1 = a + i
  OBVIOUS
<1> QED  BY <1>3, <1>4, <1>5

\* The smaller of two numbers.
LEMMA SmallerFacts ==
  ASSUME NEW a \in Int, NEW b \in Int
  PROVE  B!Smaller(a, b) \in {a, b} /\ B!Smaller(a, b) <= a /\ B!Smaller(a, b) <= b
BY DEF B!Smaller

\* What is behind the first k bytes.
LEMMA RestFacts ==
  ASSUME NEW S, NEW s \in Seq(S), NEW k \in 0 .. Len(s)
  PROVE  /\ B!Rest(s, k) \in Seq(S)
         /\ Len(B!Rest(s, k)) = Len(s) - k
<1>1. Len(s) \in Nat /\ k \in Nat /\ k <= Len(s)
  BY LenProperties
<1> QED  BY <1>1, Slice DEF B!Rest

\* What is at each place of f with d written over it at p.
LEMMA OverFacts ==
  ASSUME NEW S, NEW f \in Seq(S), NEW p \in 0 .. Len(f), NEW d \in Seq(S)
  PROVE  /\ B!Over(f, p, d) \in Seq(S)
         /\ Len(B!Over(f, p, d)) = B!Larger(Len(f), p + Len(d))
         /\ \A i \in 1 .. B!Larger(Len(f), p + Len(d)) :
              B!Over(f, p, d)[i] = IF p < i /\ i <= p + Len(d) THEN d[i - p] ELSE f[i]
<1>1. Len(f) \in Nat /\ Len(d) \in Nat /\ p \in Nat /\ p <= Len(f)
  BY LenProperties
<1>2. (\A i \in 1 .. Len(f) : f[i] \in S) /\ (\A i \in 1 .. Len(d) : d[i] \in S)
  BY ElementOfSeq
<1>3. CASE d = <<>>
  <2>1. Len(d) = 0
    BY <1>3, EmptySeq
  <2>2. B!Larger(Len(f), p + Len(d)) = Len(f)
    BY <1>1, <2>1 DEF B!Larger
  <2>3. \A i \in 1 .. Len(f) : ~(p < i /\ i <= p + Len(d))
    BY <1>1, <2>1
  <2> QED  BY <1>3, <2>2, <2>3 DEF B!Over
<1>4. CASE d # <<>>
  <2>1. PICK n \in Nat : n = B!Larger(Len(f), p + Len(d))
    BY <1>1 DEF B!Larger
  <2>2. n >= Len(f) /\ n >= p + Len(d) /\ (n = Len(f) \/ n = p + Len(d))
    BY <1>1, <2>1 DEF B!Larger
  <2>3. PICK g : g = [i \in 1 .. n |-> IF i \in p + 1 .. p + Len(d) THEN d[i - p] ELSE f[i]]
    OBVIOUS
  <2>4. ASSUME NEW i \in 1 .. n
        PROVE  /\ g[i] = IF p < i /\ i <= p + Len(d) THEN d[i - p] ELSE f[i]
               /\ g[i] \in S
    <3>1. i \in p + 1 .. p + Len(d) <=> p < i /\ i <= p + Len(d)
      BY <1>1
    <3>2. g[i] = IF p < i /\ i <= p + Len(d) THEN d[i - p] ELSE f[i]
      BY <2>3, <3>1
    <3>3. p < i /\ i <= p + Len(d) => i - p \in 1 .. Len(d)
      BY <1>1
    <3>4. ~(p < i /\ i <= p + Len(d)) => i \in 1 .. Len(f)
      BY <1>1, <2>2
    <3> QED  BY <1>2, <3>2, <3>3, <3>4
  <2>5. g \in [1 .. n -> S]
    <3>1. DOMAIN g = 1 .. n /\ g = [i \in 1 .. n |-> g[i]]
      BY <2>3
    <3> QED  BY <2>4, <3>1
  <2>6. g \in Seq(S) /\ Len(g) = n
    BY <2>5, ArrayIsSeq
  <2>7. B!Over(f, p, d) = g
    BY <1>4, <2>1, <2>3 DEF B!Over
  <2> QED  BY <2>1, <2>4, <2>6, <2>7
<1> QED  BY <1>3, <1>4

\* Writing nothing changes nothing.
LEMMA OverNothing ==
  ASSUME NEW f, NEW p
  PROVE  B!Over(f, p, <<>>) = f
BY DEF B!Over

\* Writing d and then e behind it is writing both.
LEMMA OverOver ==
  ASSUME NEW S, NEW f \in Seq(S), NEW p \in 0 .. Len(f), NEW d \in Seq(S), NEW e \in Seq(S)
  PROVE  /\ p + Len(d) \in 0 .. Len(B!Over(f, p, d))
         /\ B!Over(B!Over(f, p, d), p + Len(d), e) = B!Over(f, p, d \o e)
<1>1. Len(f) \in Nat /\ Len(d) \in Nat /\ Len(e) \in Nat /\ p \in Nat /\ p <= Len(f)
  BY LenProperties
<1>2. PICK g \in Seq(S) :
        /\ g = B!Over(f, p, d)
        /\ Len(g) = B!Larger(Len(f), p + Len(d))
        /\ \A i \in 1 .. B!Larger(Len(f), p + Len(d)) :
             g[i] = IF p < i /\ i <= p + Len(d) THEN d[i - p] ELSE f[i]
  <2>1. /\ B!Over(f, p, d) \in Seq(S)
        /\ Len(B!Over(f, p, d)) = B!Larger(Len(f), p + Len(d))
        /\ \A i \in 1 .. B!Larger(Len(f), p + Len(d)) :
             B!Over(f, p, d)[i] = IF p < i /\ i <= p + Len(d) THEN d[i - p] ELSE f[i]
    BY OverFacts
  <2> QED  BY <2>1
<1>3. PICK m \in Nat : m = B!Larger(Len(f), p + Len(d)) /\ m = Len(g)
  BY <1>1, <1>2 DEF B!Larger
<1>4. m >= Len(f) /\ m >= p + Len(d) /\ (m = Len(f) \/ m = p + Len(d))
  BY <1>1, <1>3 DEF B!Larger
<1>5. p + Len(d) \in 0 .. Len(g)
  BY <1>1, <1>3, <1>4
<1>6. \A i \in 1 .. m : g[i] = IF p < i /\ i <= p + Len(d) THEN d[i - p] ELSE f[i]
  BY <1>2, <1>3
<1>7. PICK de \in Seq(S) : de = d \o e
  BY ConcatProperties
<1>8. /\ Len(de) = Len(d) + Len(e)
      /\ \A i \in 1 .. Len(d) + Len(e) : de[i] = IF i <= Len(d) THEN d[i] ELSE e[i - Len(d)]
  BY <1>7, ConcatProperties
<1>9. PICK q : q = p + Len(d)
  OBVIOUS
<1>10. PICK h \in Seq(S) :
         /\ h = B!Over(g, q, e)
         /\ Len(h) = B!Larger(Len(g), q + Len(e))
         /\ \A i \in 1 .. B!Larger(Len(g), q + Len(e)) :
              h[i] = IF q < i /\ i <= q + Len(e) THEN e[i - q] ELSE g[i]
  <2>1. q \in 0 .. Len(g)
    BY <1>5, <1>9
  <2>2. /\ B!Over(g, q, e) \in Seq(S)
        /\ Len(B!Over(g, q, e)) = B!Larger(Len(g), q + Len(e))
        /\ \A i \in 1 .. B!Larger(Len(g), q + Len(e)) :
             B!Over(g, q, e)[i] = IF q < i /\ i <= q + Len(e) THEN e[i - q] ELSE g[i]
    BY <2>1, OverFacts
  <2> QED  BY <2>2
<1>11. PICK r \in Seq(S) :
         /\ r = B!Over(f, p, de)
         /\ Len(r) = B!Larger(Len(f), p + Len(de))
         /\ \A i \in 1 .. B!Larger(Len(f), p + Len(de)) :
              r[i] = IF p < i /\ i <= p + Len(de) THEN de[i - p] ELSE f[i]
  <2>1. /\ B!Over(f, p, de) \in Seq(S)
        /\ Len(B!Over(f, p, de)) = B!Larger(Len(f), p + Len(de))
        /\ \A i \in 1 .. B!Larger(Len(f), p + Len(de)) :
             B!Over(f, p, de)[i] = IF p < i /\ i <= p + Len(de) THEN de[i - p] ELSE f[i]
    BY OverFacts
  <2> QED  BY <2>1
<1>12. PICK n \in Nat : n = B!Larger(m, q + Len(e)) /\ n = Len(h)
  BY <1>1, <1>3, <1>5, <1>9, <1>10 DEF B!Larger
<1>13. n >= m /\ n >= q + Len(e) /\ (n = m \/ n = q + Len(e))
  BY <1>1, <1>9, <1>12 DEF B!Larger
<1>14. \A i \in 1 .. n : h[i] = IF q < i /\ i <= q + Len(e) THEN e[i - q] ELSE g[i]
  BY <1>3, <1>10, <1>12
<1>15. Len(r) = n /\ B!Larger(Len(f), p + Len(de)) = n
  <2>1. Len(r) = B!Larger(Len(f), p + Len(de))
    BY <1>11
  <2>2. p + Len(de) = q + Len(e)
    BY <1>1, <1>8, <1>9
  <2>3. q \in Int /\ m >= q /\ (m = Len(f) \/ m = q)
    BY <1>1, <1>4, <1>9
  <2>4. B!Larger(Len(f), q + Len(e)) = n
    <3>1. PICK t \in Int : t = q + Len(e)
      BY <1>1, <2>3
    <3>2. n >= m /\ n >= t /\ (n = m \/ n = t) /\ t >= q
      BY <1>1, <1>13, <2>3, <3>1
    <3>3. B!Larger(Len(f), t) = n
      BY <1>1, <1>4, <2>3, <3>2 DEF B!Larger
    <3> QED  BY <3>1, <3>3
  <2> QED  BY <2>1, <2>2, <2>4
<1>16. \A i \in 1 .. n : r[i] = IF p < i /\ i <= p + Len(de) THEN de[i - p] ELSE f[i]
  BY <1>11, <1>15
<1>17. ASSUME NEW i \in 1 .. n  PROVE h[i] = r[i]
  <2>1. CASE q < i /\ i <= q + Len(e)
    <3>1. i - p \in 1 .. Len(d) + Len(e) /\ ~(i - p <= Len(d)) /\ (i - p) - Len(d) = i - q
      BY <1>1, <1>9, <2>1
    <3>2. p < i /\ i <= p + Len(de)
      BY <1>1, <1>8, <1>9, <2>1
    <3> QED  BY <1>8, <1>14, <1>16, <2>1, <3>1, <3>2
  <2>2. CASE p < i /\ i <= q
    <3>1. i - p \in 1 .. Len(d) + Len(e) /\ i - p <= Len(d) /\ i \in 1 .. m
      BY <1>1, <1>4, <1>9, <2>2
    <3>2. p < i /\ i <= p + Len(de) /\ ~(q < i) /\ i <= p + Len(d)
      BY <1>1, <1>8, <1>9, <2>2
    <3>3. h[i] = d[i - p] /\ r[i] = de[i - p] /\ de[i - p] = d[i - p]
      BY <1>6, <1>8, <1>14, <1>16, <3>1, <3>2
    <3> QED  BY <3>3
  <2>3. CASE ~(p < i /\ i <= q + Len(e))
    <3>1. i \in 1 .. m /\ ~(p < i /\ i <= p + Len(d)) /\ ~(q < i /\ i <= q + Len(e))
      BY <1>1, <1>4, <1>9, <1>13, <2>3
    <3>2. ~(p < i /\ i <= p + Len(de))
      BY <1>1, <1>8, <1>9, <2>3
    <3>3. h[i] = f[i] /\ r[i] = f[i]
      BY <1>6, <1>14, <1>16, <3>1, <3>2
    <3> QED  BY <3>3
  <2>4. (q < i /\ i <= q + Len(e)) \/ (p < i /\ i <= q) \/ ~(p < i /\ i <= q + Len(e))
    BY <1>1, <1>9
  <2> QED  BY <2>1, <2>2, <2>3, <2>4
<1>18. h = r
  BY <1>12, <1>15, <1>17, SeqEqual
<1> QED  BY <1>2, <1>5, <1>7, <1>9, <1>10, <1>11, <1>18

\* Two slices that follow each other.
LEMMA SliceSlice ==
  ASSUME NEW S, NEW s \in Seq(S), NEW a \in Nat, NEW b \in Nat, NEW c \in Nat,
         a <= b, b <= c, c <= Len(s)
  PROVE  SubSeq(s, a + 1, b) \o SubSeq(s, b + 1, c) = SubSeq(s, a + 1, c)
<1>0. a <= c /\ b <= Len(s)
  <2>1. Len(s) \in Nat
    BY LenProperties
  <2> QED  BY <2>1
<1>1. PICK x \in Seq(S) : x = SubSeq(s, a + 1, b)
  BY <1>0, Slice
<1>2. PICK y \in Seq(S) : y = SubSeq(s, b + 1, c)
  BY Slice
<1>4. PICK z \in Seq(S) : z = SubSeq(s, a + 1, c)
  BY <1>0, Slice
<1>5. Len(x) = b - a /\ \A i \in 1 .. b - a : x[i] = s[a + i]
  BY <1>0, <1>1, Slice
<1>6. Len(y) = c - b /\ \A i \in 1 .. c - b : y[i] = s[b + i]
  BY <1>0, <1>2, Slice
<1>7. Len(z) = c - a /\ \A i \in 1 .. c - a : z[i] = s[a + i]
  BY <1>0, <1>4, Slice
<1>8. PICK xy \in Seq(S) : xy = x \o y
  BY ConcatProperties
<1>9. /\ Len(xy) = Len(x) + Len(y)
      /\ \A i \in 1 .. Len(x) + Len(y) : xy[i] = IF i <= Len(x) THEN x[i] ELSE y[i - Len(x)]
  BY <1>8, ConcatProperties
<1>10. Len(x) + Len(y) = c - a
  BY <1>5, <1>6
<1>11. ASSUME NEW i \in 1 .. c - a  PROVE xy[i] = z[i]
  <2>1. CASE i <= b - a
    <3>1. i \in 1 .. b - a
      BY <2>1
    <3> QED  BY <1>5, <1>7, <1>9, <1>10, <2>1, <3>1
  <2>2. CASE ~(i <= b - a)
    <3>1. i - (b - a) \in 1 .. c - b /\ b + (i - (b - a)) = a + i
      BY <2>2
    <3>2. xy[i] = y[i - (b - a)]
      BY <1>5, <1>9, <1>10, <2>2
    <3>3. y[i - (b - a)] = s[b + (i - (b - a))]
      BY <1>6, <3>1
    <3> QED  BY <1>7, <3>1, <3>2, <3>3
  <2> QED  BY <2>1, <2>2
<1>12. xy = z
  BY <1>7, <1>9, <1>10, <1>11, SeqEqual
<1> QED  BY <1>1, <1>2, <1>4, <1>8, <1>12
-----------------------------------------------------------------------------
(* The state of a stream.                                                   *)

\* Bounds of the positions.
LEMMA StreamNumbers ==
  ASSUME StreamTypes
  PROVE  /\ BufferSize \in Nat /\ BufferSize > 0
         /\ Len(file) \in Nat /\ place \in Nat /\ place <= Len(file)
         /\ rlen \in Nat /\ rlen <= BufferSize /\ rpos \in Nat /\ rpos <= rlen
         /\ wpos \in Nat /\ wpos <= BufferSize /\ flushed \in Nat /\ flushed <= wpos
         /\ buffer \in Seq(Byte) /\ Len(buffer) = BufferSize
<1>1. BufferSize \in Nat /\ BufferSize > 0
  BY StreamAssumption DEF B!BufferAssumption
<1>2. Len(file) \in Nat
  BY LenProperties DEF StreamTypes
<1>3. buffer \in Seq(Byte) /\ Len(buffer) = BufferSize
  BY <1>1, ArrayIsSeq DEF StreamTypes
<1> QED  BY <1>1, <1>2, <1>3 DEF StreamTypes

\* What is in the buffer and not yet written.
Pending == SubSeq(buffer, flushed + 1, wpos)

\* How much is in the buffer that the file has not got.
LEMMA PendingFacts ==
  ASSUME StreamTypes
  PROVE  /\ Pending \in Seq(Byte) /\ Len(Pending) = wpos - flushed
         /\ wpos = flushed => Pending = <<>>
<1>1. Pending \in Seq(Byte) /\ Len(Pending) = wpos - flushed
  BY StreamNumbers, Slice DEF Pending
<1>2. wpos = flushed => Pending = <<>>
  BY StreamNumbers, SubSeqEmpty DEF Pending
<1> QED  BY <1>1, <1>2

\* The bytes of the stream, and the position in it.
LEMMA ContentFacts ==
  ASSUME StreamTypes, rlen - rpos <= place
  PROVE  /\ B!Content \in Seq(Byte)
         /\ Len(B!Content) \in Nat
         /\ Len(B!Content) >= Len(file) /\ Len(B!Content) >= place + (wpos - flushed)
         /\ wpos = flushed => B!Content = file
         /\ B!Pos \in Nat /\ B!Pos <= Len(B!Content)
         /\ B!Pos = place - (rlen - rpos) + (wpos - flushed)
<1>1. PICK p \in Seq(Byte) : p = Pending /\ Len(p) = wpos - flushed /\ (wpos = flushed => p = <<>>)
  BY PendingFacts
<1>2. B!Content = B!Over(file, place, p)
  BY <1>1 DEF B!Content, Pending
<1>3. file \in Seq(Byte) /\ place \in 0 .. Len(file)
  BY DEF StreamTypes
<1>4. B!Over(file, place, p) \in Seq(Byte) /\ Len(B!Over(file, place, p)) = B!Larger(Len(file), place + Len(p))
  BY <1>3, OverFacts
<1>5. wpos = flushed => B!Content = file
  BY <1>1, <1>2, OverNothing
<1>6. B!Larger(Len(file), place + Len(p)) \in Nat /\ B!Larger(Len(file), place + Len(p)) >= Len(file)
      /\ B!Larger(Len(file), place + Len(p)) >= place + (wpos - flushed)
  BY <1>1, StreamNumbers DEF B!Larger
<1>7. B!Pos = place - (rlen - rpos) + (wpos - flushed)
  BY DEF B!Pos
<1>8. B!Content \in Seq(Byte) /\ Len(B!Content) = B!Larger(Len(file), place + Len(p))
  BY <1>2, <1>4
<1>9. B!Pos \in Nat /\ B!Pos <= place + (wpos - flushed)
  BY <1>7, StreamNumbers
<1>10. /\ Len(B!Content) \in Nat
       /\ Len(B!Content) >= Len(file) /\ Len(B!Content) >= place + (wpos - flushed)
  BY <1>6, <1>8
<1>11. B!Pos <= Len(B!Content)
  BY <1>9, <1>10, StreamNumbers
<1> QED  BY <1>5, <1>7, <1>8, <1>9, <1>10, <1>11

\* A new call has its fields.
LEMMA AtFields ==
  ASSUME NEW a \in CallAt, NEW d \in CallDo, NEW n \in Int, NEW s \in Seq(Byte), NEW w \in Int
  PROVE  /\ B!At(a, d, n, s, w) \in StreamCall
         /\ B!At(a, d, n, s, w).at = a /\ B!At(a, d, n, s, w).do = d
         /\ B!At(a, d, n, s, w).n = n /\ B!At(a, d, n, s, w).data = s
         /\ B!At(a, d, n, s, w).got = <<>> /\ B!At(a, d, n, s, w).want = w
<1>1. <<>> \in Seq(Byte)
  BY EmptySeq
<1> QED  BY <1>1 DEF B!At, StreamCall

\* No call is under way.
LEMMA IdleFields ==
  /\ B!Idle \in StreamCall
  /\ B!Idle.at = "idle" /\ B!Idle.do = "none" /\ B!Idle.data = <<>> /\ B!Idle.got = <<>>
<1>1. <<>> \in Seq(Byte)
  BY EmptySeq
<1>2. "idle" \in CallAt /\ "none" \in CallDo
  BY DEF CallAt, CallDo
<1> QED  BY <1>1, <1>2 DEF B!Idle, B!At, StreamCall

-----------------------------------------------------------------------------
(* Steps of the promise.                                                    *)

\* A step of the stream is a step of a sequence of bytes, or none.
Promised == B!Abstract!Next \/ UNCHANGED B!Abstract!vars

StreamKept == B!Content' = B!Content /\ B!Pos' = B!Pos

\* Nothing the user sees has changed.
LEMMA HiddenStep ==
  ASSUME StreamKept, op'.got = op.got, op'.data = op.data, op'.do = op.do, op'.want = op.want,
         UNCHANGED astray
  PROVE  Promised
BY DEF Promised, B!Abstract!vars, StreamKept

\* A call ends, and what it was to do is not promised or the stream has not changed.
LEMMA EndStep ==
  ASSUME op' = B!Idle, astray' \/ (UNCHANGED astray /\ StreamKept)
  PROVE  Promised
<1>1. op'.do = "none" /\ op'.got = <<>> /\ op'.data = <<>>
  BY IdleFields
<1>2. CASE astray'
  BY <1>2 DEF Promised, B!Abstract!Next
<1>3. CASE UNCHANGED astray /\ StreamKept
  <2>1. B!Abstract!End
    BY <1>1, <1>3 DEF B!Abstract!End, StreamKept
  <2> QED  BY <1>3, <2>1 DEF Promised, B!Abstract!Next
<1> QED  BY <1>2, <1>3

\* A call begins.
LEMMA BeginStep ==
  ASSUME StreamKept, UNCHANGED astray, op' \in StreamCall, op'.got = op.got
  PROVE  Promised
<1>1. op'.data \in Seq(Byte) /\ op'.want \in Int
  BY DEF StreamCall
<1>2. B!Abstract!Begin
  BY <1>1 DEF B!Abstract!Begin, StreamKept
<1> QED  BY <1>2 DEF Promised, B!Abstract!Next
-----------------------------------------------------------------------------
(* Calls.                                                                   *)

\* A call that begins with the buffer to be written, or with reading.
Fits(o) ==
  /\ o.at = "flush" \/ (o.at = "read" /\ o.do = "read" /\ wpos = 0)
  /\ o.do \notin {"none", "write"} /\ o.data = <<>> /\ o.got = <<>>
  /\ o.do = "read" => o.n > 0 /\ o.n = o.want
  /\ o.do = "length" => o.n \in Nat
  /\ o.do = "seek" => o.n = o.want
  /\ o.do = "seekCurrent" => place + (wpos - flushed) + o.n = o.want
  /\ o.do = "seekEnd" => Len(B!Content) + o.n = o.want
  /\ o.do \in SeekAt => o.want \in 0 .. Len(B!Content)

\* A call begins that may begin: the user sees no change yet.
LEMMA CallBegins ==
  ASSUME StreamInv, NEW o \in StreamCall, B!Begin(o), Fits(o),
         UNCHANGED <<file, place, buffer, rpos, rlen, wpos, flushed, closed, astray>>
  PROVE  StreamInv' /\ Promised
<1>1. op = B!Idle /\ ~closed /\ op' = o /\ threw' = FALSE
  BY DEF B!Begin
<1>2. op.got = <<>> /\ op.at = "idle"
  BY <1>1, IdleFields
<1>3. StreamKept
  BY DEF StreamKept, B!Content, B!Pos
<1>4. Promised
  BY <1>1, <1>2, <1>3, BeginStep DEF Fits
<1>5. StreamTypes'
  BY <1>1 DEF StreamInv, StreamTypes
<1>6. BufferOK'
  BY DEF StreamInv, BufferOK
<1>7. flushed' = 0
  BY <1>2 DEF StreamInv, DrainedOK
<1>8. CallOK'
  BY <1>1 DEF Fits, CallOK, DrainedAt, SeekAt
<1>9. DrainedOK'
  BY <1>1, <1>7 DEF Fits, DrainedOK, DrainedAt, SeekAt
<1>10. ReadCallOK'
  <2>1. Len(o.got) = 0 /\ o.n \in Int
    BY EmptySeq DEF Fits, StreamCall
  <2> QED  BY <1>1, <2>1 DEF Fits, ReadCallOK
<1>11. SeekOK'
  BY <1>1, <1>3 DEF Fits, SeekOK, StreamKept
<1>12. ClosedOK'
  BY <1>1 DEF ClosedOK
<1> QED  BY <1>4, <1>5, <1>6, <1>8, <1>9, <1>10, <1>11, <1>12 DEF StreamInv

\* Every call but Write.
LEMMA CallsBegin ==
  ASSUME StreamInv,
         \/ B!CallFlush \/ B!CallClose
         \/ \E n \in 1 .. BufferSize + 1 : B!CallRead(n)
         \/ \E p \in 0 .. Len(B!Content) :
              B!CallSeek(p) \/ B!CallSeekCurrent(p - B!Pos) \/ B!CallSeekEnd(p - Len(B!Content))
         \/ \E n \in 0 .. MaxLength : B!CallSetLength(n)
  PROVE  StreamInv' /\ Promised
<1> USE DEF B!innerVars, B!readVars, B!writeVars
<1>1. /\ BufferSize \in Nat /\ MaxLength \in Nat
      /\ place \in Nat /\ wpos \in Nat /\ flushed \in Nat /\ rlen \in Nat /\ rpos \in Nat
  BY StreamNumbers, StreamAssumption DEF StreamInv, B!BufferAssumption
<1>2. /\ Len(B!Content) \in Nat /\ B!Pos \in Nat
      /\ B!Pos = place - (rlen - rpos) + (wpos - flushed)
  BY ContentFacts DEF StreamInv, BufferOK
<1>3. <<>> \in Seq(Byte)
  BY EmptySeq
<1>4. CASE B!CallFlush
  <2>1. PICK o : o = B!At("flush", "return", 0, <<>>, 0)
    OBVIOUS
  <2>2. o \in StreamCall /\ Fits(o)
    BY <1>3, <2>1 DEF B!At, StreamCall, Fits, CallAt, CallDo, SeekAt
  <2> QED  BY <1>4, <2>1, <2>2, CallBegins DEF B!CallFlush
<1>5. CASE B!CallClose
  <2>1. PICK o : o = B!At("flush", "close", 0, <<>>, 0)
    OBVIOUS
  <2>2. o \in StreamCall /\ Fits(o)
    BY <1>3, <2>1 DEF B!At, StreamCall, Fits, CallAt, CallDo, SeekAt
  <2> QED  BY <1>5, <2>1, <2>2, CallBegins DEF B!CallClose
<1>6. ASSUME NEW n \in 1 .. BufferSize + 1, B!CallRead(n)  PROVE StreamInv' /\ Promised
  <2>1. PICK o : o = B!At(IF wpos # 0 THEN "flush" ELSE "read", "read", n, <<>>, n)
    OBVIOUS
  <2>2. o \in StreamCall /\ Fits(o)
    BY <1>1, <1>3, <2>1 DEF B!At, StreamCall, Fits, CallAt, CallDo, SeekAt, DrainedAt
  <2> QED  BY <1>6, <2>1, <2>2, CallBegins DEF B!CallRead
<1>7. ASSUME NEW p \in 0 .. Len(B!Content), B!CallSeek(p)  PROVE StreamInv' /\ Promised
  <2>1. PICK o : o = B!At("flush", "seek", p, <<>>, p)
    OBVIOUS
  <2>2. o \in StreamCall /\ Fits(o)
    BY <1>2, <1>3, <2>1 DEF B!At, StreamCall, Fits, CallAt, CallDo, SeekAt
  <2> QED  BY <1>7, <2>1, <2>2, CallBegins DEF B!CallSeek
<1>8. ASSUME NEW p \in 0 .. Len(B!Content), B!CallSeekCurrent(p - B!Pos)
      PROVE  StreamInv' /\ Promised
  <2>1. PICK o : o = B!At("flush", "seekCurrent", p - B!Pos - (rlen - rpos), <<>>, B!Pos + (p - B!Pos))
    OBVIOUS
  <2>2. p - B!Pos - (rlen - rpos) \in Int /\ B!Pos + (p - B!Pos) = p
    BY <1>1, <1>2
  <2>3. place + (wpos - flushed) + (p - B!Pos - (rlen - rpos)) = p
    BY <1>1, <1>2
  <2>4. PICK m \in Int : m = p - B!Pos - (rlen - rpos)
    BY <2>2
  <2>5. o = B!At("flush", "seekCurrent", m, <<>>, p) /\ place + (wpos - flushed) + m = p
    BY <2>1, <2>2, <2>3, <2>4
  <2>6. o \in StreamCall /\ Fits(o)
    BY <1>2, <1>3, <2>5 DEF B!At, StreamCall, Fits, CallAt, CallDo, SeekAt
  <2> QED  BY <1>8, <2>1, <2>6, CallBegins DEF B!CallSeekCurrent, B!Ahead
<1>9. ASSUME NEW p \in 0 .. Len(B!Content), B!CallSeekEnd(p - Len(B!Content))
      PROVE  StreamInv' /\ Promised
  <2>1. PICK m \in Int : m = p - Len(B!Content) /\ Len(B!Content) + m = p
    BY <1>2
  <2>2. PICK o : o = B!At("flush", "seekEnd", m, <<>>, p)
    OBVIOUS
  <2>3. o \in StreamCall /\ Fits(o)
    BY <1>2, <1>3, <2>1, <2>2 DEF B!At, StreamCall, Fits, CallAt, CallDo, SeekAt
  <2> QED  BY <1>9, <2>1, <2>2, <2>3, CallBegins DEF B!CallSeekEnd
<1>10. ASSUME NEW n \in 0 .. MaxLength, B!CallSetLength(n)  PROVE StreamInv' /\ Promised
  <2>1. PICK o : o = B!At("flush", "length", n, <<>>, 0)
    OBVIOUS
  <2>2. o \in StreamCall /\ Fits(o)
    BY <1>1, <1>3, <2>1 DEF B!At, StreamCall, Fits, CallAt, CallDo, SeekAt
  <2> QED  BY <1>10, <2>1, <2>2, CallBegins DEF B!CallSetLength
<1> QED  BY <1>4, <1>5, <1>6, <1>7, <1>8, <1>9, <1>10
-----------------------------------------------------------------------------
(* A call that ends or throws.                                              *)

\* A call is over, and everything is flushed.
LEMMA EndInv ==
  ASSUME StreamTypes', BufferOK', op' = B!Idle, flushed' = 0, closed' => threw' \/ wpos' = 0
  PROVE  StreamInv'
<1>1. op'.at = "idle" /\ op'.do = "none" /\ op'.data = <<>> /\ op'.got = <<>>
  BY IdleFields
<1>2. CallOK' /\ DrainedOK' /\ ReadCallOK' /\ SeekOK'
  BY <1>1 DEF CallOK, DrainedOK, ReadCallOK, SeekOK, DrainedAt, SeekAt
<1>3. ClosedOK'
  BY DEF ClosedOK
<1> QED  BY <1>2, <1>3 DEF StreamInv

\* A call that is under way: the stream is open.
LEMMA Busy ==
  ASSUME StreamInv, op.at # "idle"
  PROVE  ~closed
BY IdleFields DEF StreamInv, ClosedOK

\* Steps that end a call and do nothing else.
LEMMA PlainEnds ==
  ASSUME StreamInv,
         B!CallReturns \/ B!WriteThrows \/ B!WriteReturns \/ B!Close \/ B!CallWriteThrows
  PROVE  StreamInv' /\ Promised
<1> USE DEF B!innerVars, B!readVars, B!writeVars
<1>1. /\ op' = B!Idle /\ threw' \in BOOLEAN
      /\ UNCHANGED <<file, place, buffer, rpos, rlen, wpos, flushed, astray>>
  BY DEF B!CallReturns, B!WriteThrows, B!WriteReturns, B!Close, B!CallWriteThrows, B!Return, B!Throws
<1>2. StreamKept
  BY <1>1 DEF StreamKept, B!Content, B!Pos
<1>3. flushed' = 0
  <2>1. op.at # "flush"
    BY IdleFields DEF B!CallReturns, B!WriteThrows, B!WriteReturns, B!Close, B!CallWriteThrows
  <2> QED  BY <1>1, <2>1 DEF StreamInv, DrainedOK
<1>4. closed' \in BOOLEAN /\ (closed' => threw' \/ wpos' = 0)
  <2>1. CASE B!Close
    BY <1>1, <2>1 DEF B!Close, StreamInv, DrainedOK, DrainedAt
  <2>2. CASE ~B!Close
    <3>1. ~closed /\ closed' = closed
      BY <2>2, Busy DEF B!CallReturns, B!WriteThrows, B!WriteReturns, B!CallWriteThrows
    <3>2. closed' = FALSE
      BY <3>1 DEF StreamInv, StreamTypes
    <3> QED  BY <3>2
  <2> QED  BY <2>1, <2>2
<1>5. StreamTypes' /\ BufferOK'
  BY <1>1, <1>4, IdleFields DEF StreamInv, StreamTypes, BufferOK
<1> QED  BY <1>1, <1>2, <1>3, <1>4, <1>5, EndInv, EndStep

-----------------------------------------------------------------------------
(* FlushWriteBuffer.                                                        *)

\* What is written into the file was in the stream.
LEMMA FlushSomeStep ==
  ASSUME StreamInv, NEW k \in 1 .. wpos - flushed, B!FlushSome(k)
  PROVE  StreamInv' /\ Promised
<1> USE DEF B!innerVars, B!readVars, B!writeVars
<1>1. /\ op.at = "flush" /\ place' = place + k /\ flushed' = flushed + k
      /\ UNCHANGED <<buffer, rpos, rlen, wpos, closed, op, threw, astray>>
  BY DEF B!FlushSome
<1>2. /\ Len(file) \in Nat /\ place \in Nat /\ place <= Len(file)
      /\ wpos \in Nat /\ wpos <= BufferSize /\ flushed \in Nat /\ flushed <= wpos
      /\ BufferSize \in Nat /\ rlen \in Nat /\ rpos \in Nat
      /\ buffer \in Seq(Byte) /\ Len(buffer) = BufferSize
  BY StreamNumbers DEF StreamInv
<1>3. k \in Nat /\ k > 0 /\ flushed + k <= wpos /\ flushed + k \in Nat /\ wpos > 0
  BY <1>2
<1>4. rlen - rpos = 0
  BY <1>3 DEF StreamInv, BufferOK
<1>5. PICK x \in Seq(Byte) : x = SubSeq(buffer, flushed + 1, flushed + k) /\ Len(x) = k
  <2>1. /\ SubSeq(buffer, flushed + 1, flushed + k) \in Seq(Byte)
        /\ Len(SubSeq(buffer, flushed + 1, flushed + k)) = (flushed + k) - flushed
    BY <1>2, <1>3, Slice
  <2>2. (flushed + k) - flushed = k
    BY <1>2, <1>3
  <2> QED  BY <2>1, <2>2
<1>6. PICK y \in Seq(Byte) : y = SubSeq(buffer, (flushed + k) + 1, wpos)
  BY <1>2, <1>3, Slice
<1>7. x \o y = Pending
  BY <1>2, <1>3, <1>5, <1>6, SliceSlice DEF Pending
<1>8. file \in Seq(Byte) /\ place \in 0 .. Len(file) /\ file' = B!Over(file, place, x)
  BY <1>5 DEF StreamInv, StreamTypes, B!FlushSome
<1>9. /\ place + Len(x) \in 0 .. Len(B!Over(file, place, x))
      /\ B!Over(B!Over(file, place, x), place + Len(x), y) = B!Over(file, place, x \o y)
  BY <1>8, OverOver
<1>10. file' \in Seq(Byte) /\ place' \in 0 .. Len(file')
  <2>1. B!Over(file, place, x) \in Seq(Byte)
    BY <1>8, OverFacts
  <2> QED  BY <1>1, <1>5, <1>8, <1>9, <2>1
<1>11. B!Content' = B!Content
  <2>1. B!Content' = B!Over(file', place', SubSeq(buffer', flushed' + 1, wpos'))
    BY DEF B!Content
  <2>2. B!Content = B!Over(file, place, Pending)
    BY DEF B!Content, Pending
  <2> QED  BY <1>1, <1>5, <1>6, <1>7, <1>8, <1>9, <2>1, <2>2
<1>12. B!Pos' = B!Pos
  BY <1>1, <1>2, <1>3 DEF B!Pos, B!Ahead
<1>13. Promised
  BY <1>1, <1>11, <1>12, HiddenStep DEF StreamKept
<1>14. StreamTypes'
  BY <1>1, <1>2, <1>3, <1>10 DEF StreamInv, StreamTypes
<1>15. BufferOK'
  <2>1. rlen' - rpos' = 0 /\ place' \in Nat
    BY <1>1, <1>2, <1>3, <1>4
  <2> QED  BY <2>1 DEF BufferOK
<1>16. CallOK' /\ DrainedOK' /\ ReadCallOK' /\ ClosedOK'
  <2>1. CallOK'
    BY <1>1 DEF StreamInv, CallOK
  <2>2. DrainedOK'
    BY <1>1 DEF DrainedOK, DrainedAt, SeekAt
  <2>3. ReadCallOK'
    BY <1>1 DEF StreamInv, ReadCallOK
  <2>4. ClosedOK'
    BY <1>1 DEF StreamInv, ClosedOK
  <2> QED  BY <2>1, <2>2, <2>3, <2>4
<1>17. SeekOK'
  <2>1. place' + (wpos' - flushed') = place + (wpos - flushed)
    BY <1>1, <1>2, <1>3
  <2> QED  BY <1>1, <1>11, <2>1 DEF StreamInv, SeekOK
<1> QED  BY <1>13, <1>14, <1>15, <1>16, <1>17 DEF StreamInv

\* An exception, and what has been written will be written again.
LEMMA FlushThrowsStep ==
  ASSUME StreamInv, B!FlushThrows
  PROVE  StreamInv' /\ Promised
<1> USE DEF B!innerVars, B!readVars
<1>1. /\ op' = B!Idle /\ threw' = TRUE /\ flushed' = 0
      /\ astray' = (astray \/ flushed > 0) /\ closed' \in BOOLEAN
      /\ UNCHANGED <<file, place, buffer, rpos, rlen, wpos>>
  BY DEF B!FlushThrows, B!Throws
<1>2. wpos \in Nat /\ flushed \in Nat
  BY StreamNumbers DEF StreamInv
<1>3. StreamTypes' /\ BufferOK'
  BY <1>1, <1>2, IdleFields DEF StreamInv, StreamTypes, BufferOK
<1>4. CASE flushed = 0
  <2>1. StreamKept /\ astray' = astray
    BY <1>1, <1>4 DEF StreamKept, B!Content, B!Pos, B!Ahead, StreamInv, StreamTypes
  <2> QED  BY <1>1, <1>3, <2>1, EndInv, EndStep
<1>5. CASE flushed # 0
  <2>1. flushed > 0
    BY <1>2, <1>5
  <2>2. astray'
    BY <1>1, <2>1, Zenon
  <2> QED  BY <1>1, <1>3, <2>2, EndInv, EndStep
<1> QED  BY <1>4, <1>5

\* Everything is written; the call goes on or throws.
LEMMA FlushEndsStep ==
  ASSUME StreamInv, B!FlushEnds
  PROVE  StreamInv' /\ Promised
<1> USE DEF B!innerVars, B!readVars
<1>1. /\ op.at = "flush" /\ flushed = wpos /\ wpos' = 0 /\ flushed' = 0
      /\ UNCHANGED <<file, place, buffer, rpos, rlen, astray>>
  BY DEF B!FlushEnds
<1>2. wpos \in Nat /\ BufferSize \in Nat /\ place \in Nat
  BY StreamNumbers DEF StreamInv
<1>3. BufferOK'
  BY <1>1, <1>2 DEF StreamInv, BufferOK
<1>4. B!Content = file /\ rlen - rpos <= place
  BY <1>1, ContentFacts DEF StreamInv, BufferOK
<1>5. StreamKept
  <2>1. SubSeq(buffer', flushed' + 1, wpos') = <<>>
    BY <1>1, SubSeqEmpty
  <2>2. B!Content' = file'
    BY <2>1, OverNothing DEF B!Content
  <2>3. B!Pos' = B!Pos
    BY <1>1, <1>2 DEF B!Pos, B!Ahead
  <2> QED  BY <1>1, <1>4, <2>2, <2>3 DEF StreamKept
<1>6. CASE B!Throws /\ closed' = (op.do = "close")
  <2>1. op' = B!Idle /\ threw' = TRUE
    BY <1>6 DEF B!Throws
  <2>2. StreamTypes'
    BY <1>1, <1>2, <1>6, <2>1, IdleFields DEF StreamInv, StreamTypes
  <2> QED  BY <1>1, <1>3, <1>5, <2>1, <2>2, EndInv, EndStep
<1>7. CASE B!GoTo(op.do) /\ UNCHANGED closed
  <2>1. PICK d \in CallDo : d = op.do /\ d # "none" /\ d \in CallAt
    <3>1. op.do \in CallDo /\ op.do # "none"
      BY <1>1 DEF StreamInv, StreamTypes, StreamCall, CallOK
    <3> QED  BY <3>1 DEF CallDo, CallAt, DrainedAt
  <2>2. op' = [op EXCEPT !.at = d] /\ threw' = threw
    BY <1>7, <2>1 DEF B!GoTo
  <2>3. /\ op' \in StreamCall /\ op'.at = d /\ op'.do = d /\ op'.n = op.n /\ op'.data = op.data
        /\ op'.got = op.got /\ op'.want = op.want
    BY <2>1, <2>2 DEF StreamInv, StreamTypes, StreamCall
  <2>4. Promised
    BY <1>1, <1>5, <2>1, <2>3, HiddenStep
  <2>5. StreamTypes'
    BY <1>1, <1>2, <1>7, <2>2, <2>3 DEF StreamInv, StreamTypes
  <2>6. ~closed'
    BY <1>1, <1>7, Busy
  <2>7. CallOK'
    <3>1. /\ op.do = "write" => rlen - rpos = 0
          /\ op.do # "write" => op.data = <<>>
          /\ op.do # "read" => op.got = <<>>
          /\ op.do = "length" => op.n \in Nat
      BY DEF StreamInv, CallOK
    <3>2. d # "idle" /\ d # "flush" /\ (d \in DrainedAt => d # "copy")
      BY <2>1 DEF CallDo, SeekAt, DrainedAt
    <3> QED  BY <1>1, <2>1, <2>3, <3>1, <3>2 DEF CallOK
  <2>8. DrainedOK'
    BY <1>1 DEF DrainedOK
  <2>9. ReadCallOK'
    BY <1>1, <2>1, <2>3 DEF StreamInv, ReadCallOK
  <2>10. SeekOK'
    <3>1. place' + (wpos' - flushed') = place + (wpos - flushed)
      BY <1>1, <1>2
    <3> QED  BY <1>5, <2>1, <2>3, <3>1 DEF StreamInv, SeekOK, StreamKept
  <2>11. ClosedOK'
    BY <2>6 DEF ClosedOK
  <2> QED  BY <1>3, <2>4, <2>5, <2>7, <2>8, <2>9, <2>10, <2>11 DEF StreamInv
<1> QED  BY <1>6, <1>7 DEF B!FlushEnds
-----------------------------------------------------------------------------
(* Reading.                                                                 *)

\* At a step of Read the buffer holds nothing to be written.
LEMMA Reading ==
  ASSUME StreamInv, op.at \in {"read", "copy"}
  PROVE  /\ op.do = "read" /\ wpos = 0 /\ flushed = 0 /\ ~closed
         /\ op.n \in Nat /\ op.n > 0 /\ Len(op.got) + op.n = op.want
         /\ op.got \in Seq(Byte) /\ Len(op.got) \in Nat /\ op.data = <<>>
         /\ B!Content = file /\ B!Pos = place - (rlen - rpos) /\ B!Pos \in Nat
<1>1. op.at \in DrainedAt /\ op.at # "flush" /\ op.at # "idle" /\ op.at # "return"
  BY DEF DrainedAt
<1>2. op.do = "read"
  BY <1>1 DEF StreamInv, CallOK
<1>3. wpos = 0 /\ flushed = 0
  BY <1>1 DEF StreamInv, DrainedOK
<1>4. ~closed
  BY <1>1, Busy
<1>5. op.n > 0 /\ Len(op.got) + op.n = op.want /\ op.n \in Int /\ op.got \in Seq(Byte)
  BY <1>1, <1>2 DEF StreamInv, ReadCallOK, StreamTypes, StreamCall
<1>6. Len(op.got) \in Nat
  BY <1>5, LenProperties
<1>7. op.data = <<>>
  BY <1>2 DEF StreamInv, CallOK
<1>8. /\ B!Content = file /\ B!Pos \in Nat /\ B!Pos = place - (rlen - rpos) + (wpos - flushed)
  BY <1>3, ContentFacts DEF StreamInv, BufferOK
<1>9. place - (rlen - rpos) + (wpos - flushed) = place - (rlen - rpos)
  BY <1>3, StreamNumbers DEF StreamInv
<1> QED  BY <1>2, <1>3, <1>4, <1>5, <1>6, <1>7, <1>8, <1>9

\* What the invariant says of a step of Read that leaves the writing side alone.
LEMMA ReadInv ==
  ASSUME StreamTypes', BufferOK', op'.do = "read", op'.data = <<>>, ~closed',
         wpos' = 0, flushed' = 0, op'.at \in {"copy", "return"},
         op'.at = "copy" => op'.n > 0 /\ Len(op'.got) + op'.n = op'.want,
         op'.at = "return" =>
           place' - (rlen' - rpos') = Len(file') \/ Len(op'.got) = op'.want
  PROVE  StreamInv'
<1>1. CallOK'
  BY DEF CallOK, DrainedAt, SeekAt
<1>2. DrainedOK' /\ ReadCallOK'
  BY DEF DrainedOK, ReadCallOK
<1>3. SeekOK' /\ ClosedOK'
  BY DEF SeekOK, SeekAt, ClosedOK
<1> QED  BY <1>1, <1>2, <1>3 DEF StreamInv

\* k bytes of the stream are handed out, or none.
LEMMA GetStep ==
  ASSUME NEW k \in Nat, NEW s \in Seq(Byte), Len(s) = k,
         B!Content' = B!Content, B!Content \in Seq(Byte), B!Pos \in Nat,
         B!Pos' = B!Pos + k, B!Pos + k <= Len(B!Content),
         s = SubSeq(B!Content, B!Pos + 1, B!Pos + k),
         op.got \in Seq(Byte), op'.got = op.got \o s,
         op'.data = op.data, op'.do = op.do, op'.want = op.want, UNCHANGED astray
  PROVE  Promised
<1>1. Len(B!Content) \in Nat
  BY LenProperties
<1>2. CASE k = 0
  <2>1. s = <<>>
    BY <1>2, EmptySeq
  <2>2. op.got \o s = op.got
    BY <2>1, ConcatEmptySeq
  <2>3. B!Pos' = B!Pos
    BY <1>2
  <2> QED  BY <2>2, <2>3, HiddenStep DEF StreamKept
<1>3. CASE k # 0
  <2>1. k \in 1 .. Len(B!Content) - B!Pos
    BY <1>1, <1>3
  <2>2. B!Abstract!Get(k)
    BY DEF B!Abstract!Get
  <2> QED  BY <2>1, <2>2 DEF Promised, B!Abstract!Next
<1> QED  BY <1>2, <1>3

\* A read past the buffer returns what is behind the position.
LEMMA ReadStep ==
  ASSUME StreamInv, B!Read
  PROVE  StreamInv' /\ Promised
<1> USE DEF B!innerVars, B!readVars, B!writeVars
<1>1. /\ op.at = "read"
      /\ UNCHANGED <<file, buffer, wpos, flushed, closed, threw, astray>>
  BY DEF B!Read, B!GoTo
<1>2. /\ op.do = "read" /\ wpos = 0 /\ flushed = 0 /\ ~closed
      /\ op.n \in Nat /\ op.n > 0 /\ Len(op.got) + op.n = op.want
      /\ op.got \in Seq(Byte) /\ op.data = <<>>
      /\ B!Content = file /\ B!Pos = place - (rlen - rpos) /\ B!Pos \in Nat
  BY <1>1, Reading
<1>3. op.got = <<>>
  BY <1>1, <1>2 DEF StreamInv, ReadCallOK
<1>4. /\ Len(file) \in Nat /\ place \in Nat /\ place <= Len(file) /\ BufferSize \in Nat
      /\ rlen \in Nat /\ rpos \in Nat /\ rpos <= rlen
  BY StreamNumbers DEF StreamInv
<1>5. file \in Seq(Byte) /\ op \in StreamCall
  BY DEF StreamInv, StreamTypes
<1>6. CASE op.n >= BufferSize
  <2>1. PICK p \in Nat : p = place - B!Ahead
    BY <1>2 DEF B!Ahead
  <2>2. p = place - (rlen - rpos)
    BY <2>1 DEF B!Ahead
  <2>3. p = B!Pos /\ p <= Len(file) /\ Len(file) - p \in Nat
    BY <1>2, <1>4, <2>2
  <2>4. PICK k \in Nat : k = B!Smaller(op.n, Len(file) - p) /\ (k = op.n \/ k = Len(file) - p)
                         /\ k <= Len(file) - p
    BY <1>2, <2>3, SmallerFacts
  <2>5. p + k <= Len(file) /\ p + k \in Nat /\ p <= p + k /\ (p + k) - p = k
    BY <1>4, <2>3, <2>4
  <2>6. PICK s \in Seq(Byte) : s = SubSeq(file, p + 1, p + k) /\ Len(s) = k
    <3>1. /\ SubSeq(file, p + 1, p + k) \in Seq(Byte)
          /\ Len(SubSeq(file, p + 1, p + k)) = (p + k) - p
      BY <1>5, <2>5, Slice
    <3> QED  BY <2>5, <3>1
  <2>7. op' = [op EXCEPT !.at = "return", !.got = s] /\ place' = p + k /\ rpos' = 0 /\ rlen' = 0
    BY <1>6, <2>1, <2>4, <2>6 DEF B!Read, B!ForgetAhead
  <2>8. /\ op' \in StreamCall /\ op'.at = "return" /\ op'.do = "read" /\ op'.data = <<>>
        /\ op'.got = s /\ op'.want = op.want
    <3>1. "return" \in CallAt
      BY DEF CallAt
    <3> QED  BY <1>2, <1>5, <2>7, <3>1 DEF StreamCall
  <2>9. StreamTypes'
    BY <1>1, <1>4, <2>5, <2>7, <2>8 DEF StreamInv, StreamTypes
  <2>10. BufferOK'
    BY <1>1, <1>2, <2>5, <2>7 DEF BufferOK
  <2>11. B!Content' = file /\ B!Pos' = p + k
    <3>1. rlen' - rpos' <= place'
      BY <2>5, <2>7
    <3>2. B!Content' = file' /\ B!Pos' = place' - (rlen' - rpos') + (wpos' - flushed')
      <4>2. B!Content' = file'
        <5>1. SubSeq(buffer', flushed' + 1, wpos') = <<>>
          BY <1>1, <1>2, SubSeqEmpty
        <5> QED  BY <5>1, OverNothing DEF B!Content
      <4>3. B!Pos' = place' - (rlen' - rpos') + (wpos' - flushed')
        BY DEF B!Pos
      <4> QED  BY <4>2, <4>3
    <3> QED  BY <1>1, <1>2, <2>5, <2>7, <3>2
  <2>12. Promised
    <3>1. op.got \o s = s
      BY <1>3, ConcatEmptySeq
    <3> QED  BY <1>1, <1>2, <1>5, <2>3, <2>5, <2>6, <2>8, <2>11, <3>1, GetStep
  <2>13. Len(s) = op.want \/ p + k = Len(file)
    <3>1. op.n = op.want
      BY <1>2, <1>3, EmptySeq
    <3>2. k = Len(file) - p => p + k = Len(file)
      BY <1>4, <2>3
    <3> QED  BY <2>4, <2>6, <3>1, <3>2
  <2>14. StreamInv'
    <3>1. place' - (rlen' - rpos') = p + k
      BY <2>5, <2>7
    <3> QED  BY <1>1, <1>2, <2>8, <2>9, <2>10, <2>13, <3>1, ReadInv
  <2> QED  BY <2>12, <2>14
<1>7. CASE ~(op.n >= BufferSize)
  <2>1. op' = [op EXCEPT !.at = "copy"] /\ UNCHANGED <<place, rpos, rlen>>
    BY <1>7 DEF B!Read, B!GoTo
  <2>2. /\ op' \in StreamCall /\ op'.at = "copy" /\ op'.do = "read" /\ op'.data = <<>>
        /\ op'.got = op.got /\ op'.want = op.want /\ op'.n = op.n
    <3>1. "copy" \in CallAt
      BY DEF CallAt, DrainedAt
    <3> QED  BY <1>2, <1>5, <2>1, <3>1 DEF StreamCall
  <2>3. StreamTypes' /\ BufferOK'
    BY <1>1, <2>1, <2>2 DEF StreamInv, StreamTypes, BufferOK
  <2>4. StreamKept
    BY <1>1, <2>1 DEF StreamKept, B!Content, B!Pos, B!Ahead
  <2>5. StreamInv'
    BY <1>1, <1>2, <2>2, <2>3, ReadInv
  <2> QED  BY <1>1, <1>2, <2>2, <2>4, <2>5, HiddenStep
<1> QED  BY <1>6, <1>7
\* While nothing is to be written, the bytes of the stream are those of the file.
LEMMA DrainedContent ==
  ASSUME StreamTypes', wpos' = 0, flushed' = 0
  PROVE  B!Content' = file' /\ B!Pos' = place' - (rlen' - rpos')
<1>1. SubSeq(buffer', flushed' + 1, wpos') = <<>>
  BY SubSeqEmpty
<1>2. B!Content' = file'
  BY <1>1, OverNothing DEF B!Content
<1>3. B!Pos' = place' - (rlen' - rpos') + (wpos' - flushed')
  BY DEF B!Pos
<1>4. place' \in Int /\ rlen' \in Int /\ rpos' \in Int
  <2>1. Len(file)' \in Nat /\ BufferSize \in Nat
    BY LenProperties, StreamAssumption DEF StreamTypes, B!BufferAssumption
  <2> QED  BY <2>1 DEF StreamTypes
<1> QED  BY <1>2, <1>3, <1>4

\* What was read ahead may be given back; the position the user sees stays.
LEMMA ReadThrowsStep ==
  ASSUME StreamInv, B!ReadThrows
  PROVE  StreamInv' /\ Promised
<1> USE DEF B!innerVars, B!readVars, B!writeVars
<1>1. /\ op.at \in {"read", "copy"} /\ op' = B!Idle /\ threw' = TRUE
      /\ UNCHANGED <<file, buffer, wpos, flushed, closed, astray>>
  BY DEF B!ReadThrows, B!Throws
<1>2. wpos = 0 /\ flushed = 0 /\ ~closed /\ B!Content = file /\ B!Pos = place - (rlen - rpos) /\ B!Pos \in Nat
  BY <1>1, Reading
<1>3. /\ Len(file) \in Nat /\ place \in Nat /\ place <= Len(file) /\ BufferSize \in Nat
      /\ rlen \in Nat /\ rpos \in Nat /\ rpos <= rlen
  BY StreamNumbers DEF StreamInv
<1>4. CASE UNCHANGED <<place, rlen, rpos>>
  <2>1. StreamTypes' /\ BufferOK'
    BY <1>1, <1>4, IdleFields DEF StreamInv, StreamTypes, BufferOK
  <2>2. StreamKept
    BY <1>1, <1>4 DEF StreamKept, B!Content, B!Pos, B!Ahead
  <2> QED  BY <1>1, <1>2, <2>1, <2>2, EndInv, EndStep
<1>5. CASE place' = place - B!Ahead /\ rpos' = 0 /\ rlen' = 0
  <2>1. place' = place - (rlen - rpos)
    BY <1>5 DEF B!Ahead
  <2>2. place' \in 0 .. Len(file) /\ rlen' - rpos' = 0 /\ place' - (rlen' - rpos') = place'
    BY <1>2, <1>3, <1>5, <2>1
  <2>3. StreamTypes'
    BY <1>1, <1>3, <1>5, <2>2, IdleFields DEF StreamInv, StreamTypes
  <2>4. BufferOK'
    BY <1>1, <1>2, <2>2 DEF BufferOK
  <2>5. StreamKept
    BY <1>1, <1>2, <2>1, <2>2, <2>3, DrainedContent DEF StreamKept
  <2> QED  BY <1>1, <1>2, <2>3, <2>4, <2>5, EndInv, EndStep
<1> QED  BY <1>4, <1>5 DEF B!ReadThrows, B!ForgetAhead

\* The buffer is filled; nothing is handed out yet.
LEMMA FillStep ==
  ASSUME StreamInv, B!Fill
  PROVE  StreamInv' /\ Promised
<1> USE DEF B!innerVars, B!readVars, B!writeVars
<1>1. /\ op.at = "copy" /\ rlen - rpos = 0
      /\ UNCHANGED <<file, wpos, flushed, closed, threw, astray>>
  BY DEF B!Fill, B!Ahead
<1>2. /\ op.do = "read" /\ wpos = 0 /\ flushed = 0 /\ ~closed
      /\ op.n \in Nat /\ op.n > 0 /\ Len(op.got) + op.n = op.want
      /\ op.got \in Seq(Byte) /\ op.data = <<>>
      /\ B!Content = file /\ B!Pos = place - (rlen - rpos)
  BY <1>1, Reading
<1>3. /\ Len(file) \in Nat /\ place \in Nat /\ place <= Len(file) /\ BufferSize \in Nat
      /\ rlen \in Nat /\ rpos \in Nat /\ rpos <= rlen
      /\ buffer \in Seq(Byte) /\ Len(buffer) = BufferSize
  BY StreamNumbers DEF StreamInv
<1>4. file \in Seq(Byte) /\ op \in StreamCall
  BY DEF StreamInv, StreamTypes
<1>5. PICK k \in Nat : k = B!Smaller(BufferSize, Len(file) - place) /\ k <= BufferSize
                       /\ k <= Len(file) - place /\ (k = BufferSize \/ k = Len(file) - place)
  BY <1>3, SmallerFacts
<1>6. PICK s \in Seq(Byte) :
        /\ s = SubSeq(file, place + 1, place + k) /\ Len(s) = k
        /\ \A i \in 1 .. k : s[i] = file[place + i]
  <2>1. PICK e \in Nat : e = place + k /\ place <= e /\ e <= Len(file) /\ e - place = k
    BY <1>3, <1>5
  <2>2. /\ SubSeq(file, place + 1, e) \in Seq(Byte)
        /\ Len(SubSeq(file, place + 1, e)) = e - place
        /\ \A i \in 1 .. e - place : SubSeq(file, place + 1, e)[i] = file[place + i]
    <3>1. file \in Seq(Byte) /\ place \in Nat /\ place <= e /\ e <= Len(file)
      BY <1>3, <1>4, <2>1
    <3> QED  BY <3>1, Slice
  <2> QED  BY <2>1, <2>2
<1>7. /\ buffer' = B!Over(buffer, 0, s) /\ place' = place + k /\ rpos' = 0 /\ rlen' = k
      /\ op' = [op EXCEPT !.at = IF k = 0 THEN "return" ELSE "copy"]
  BY <1>5, <1>6 DEF B!Fill
<1>8. buffer' \in [1 .. BufferSize -> Byte] /\ \A i \in 1 .. k : buffer'[i] = s[i]
  <2>1. 0 \in 0 .. Len(buffer) /\ B!Larger(Len(buffer), 0 + Len(s)) = BufferSize
    <3>1. 0 + Len(s) = k /\ Len(buffer) = BufferSize /\ 0 \in 0 .. BufferSize
      BY <1>3, <1>6
    <3>2. B!Larger(BufferSize, k) = BufferSize
      BY <1>3, <1>5 DEF B!Larger
    <3> QED  BY <3>1, <3>2
  <2>2. /\ B!Over(buffer, 0, s) \in Seq(Byte)
        /\ Len(B!Over(buffer, 0, s)) = B!Larger(Len(buffer), 0 + Len(s))
        /\ \A i \in 1 .. B!Larger(Len(buffer), 0 + Len(s)) :
             B!Over(buffer, 0, s)[i] = IF 0 < i /\ i <= 0 + Len(s) THEN s[i - 0] ELSE buffer[i]
    BY <1>3, <2>1, OverFacts
  <2>3. buffer' \in Seq(Byte) /\ Len(buffer') = BufferSize
    BY <1>7, <2>1, <2>2
  <2>4. buffer' \in [1 .. BufferSize -> Byte]
    BY <2>3, LenProperties
  <2>5. ASSUME NEW i \in 1 .. k  PROVE buffer'[i] = s[i]
    <3>1. i \in 1 .. BufferSize /\ 0 < i /\ i <= 0 + Len(s) /\ i - 0 = i
      BY <1>3, <1>5, <1>6
    <3> QED  BY <1>7, <2>1, <2>2, <3>1
  <2> QED  BY <2>4, <2>5
<1>9. /\ op' \in StreamCall /\ op'.at = (IF k = 0 THEN "return" ELSE "copy") /\ op'.do = "read"
      /\ op'.data = <<>> /\ op'.got = op.got /\ op'.want = op.want /\ op'.n = op.n
  <2>1. "copy" \in CallAt /\ "return" \in CallAt
    BY DEF CallAt, DrainedAt
  <2> QED  BY <1>2, <1>4, <1>7, <2>1 DEF StreamCall
<1>10. place' \in 0 .. Len(file) /\ rlen' - rpos' = k /\ place' - (rlen' - rpos') = place
  BY <1>3, <1>5, <1>7
<1>11. StreamTypes'
  BY <1>1, <1>3, <1>5, <1>7, <1>8, <1>9, <1>10 DEF StreamInv, StreamTypes
<1>12. BufferOK'
  <2>1. rlen' - rpos' <= place'
    BY <1>3, <1>7, <1>10
  <2>2. ASSUME NEW i \in 1 .. rlen' - rpos'
        PROVE  buffer'[rpos' + i] = file'[place' - (rlen' - rpos') + i]
    <3>1. i \in 1 .. k /\ rpos' + i = i
      BY <1>7, <1>10
    <3> QED  BY <1>1, <1>6, <1>8, <1>10, <3>1
  <2> QED  BY <1>1, <1>2, <2>1, <2>2 DEF BufferOK
<1>13. StreamKept
  <2>1. B!Pos = place
    BY <1>1, <1>2, <1>3
  <2> QED  BY <1>1, <1>2, <1>10, <1>11, <2>1, DrainedContent DEF StreamKept
<1>14. StreamInv'
  <2>1. k = 0 => place' - (rlen' - rpos') = Len(file')
    BY <1>1, <1>3, <1>5, <1>10, StreamNumbers DEF StreamInv
  <2> QED  BY <1>1, <1>2, <1>9, <1>11, <1>12, <2>1, ReadInv
<1> QED  BY <1>1, <1>2, <1>9, <1>13, <1>14, HiddenStep

\* Bytes of the buffer are handed out; they are the ones of the file.
LEMMA CopyStep ==
  ASSUME StreamInv, B!Copy
  PROVE  StreamInv' /\ Promised
<1> USE DEF B!innerVars, B!readVars, B!writeVars
<1>1. /\ op.at = "copy" /\ rlen - rpos > 0
      /\ UNCHANGED <<file, place, buffer, rlen, wpos, flushed, closed, threw, astray>>
  BY DEF B!Copy, B!Ahead
<1>2. /\ op.do = "read" /\ wpos = 0 /\ flushed = 0 /\ ~closed
      /\ op.n \in Nat /\ op.n > 0 /\ Len(op.got) + op.n = op.want
      /\ op.got \in Seq(Byte) /\ Len(op.got) \in Nat /\ op.data = <<>>
      /\ B!Content = file /\ B!Pos = place - (rlen - rpos) /\ B!Pos \in Nat
  BY <1>1, Reading
<1>3. /\ Len(file) \in Nat /\ place \in Nat /\ place <= Len(file) /\ BufferSize \in Nat
      /\ rlen \in Nat /\ rlen <= BufferSize /\ rpos \in Nat /\ rpos <= rlen
      /\ buffer \in Seq(Byte) /\ Len(buffer) = BufferSize
  BY StreamNumbers DEF StreamInv
<1>4. file \in Seq(Byte) /\ op \in StreamCall
  BY DEF StreamInv, StreamTypes
<1>5. PICK k \in Nat : k = B!Smaller(op.n, B!Ahead) /\ k <= op.n /\ k <= rlen - rpos
  BY <1>2, <1>3, SmallerFacts DEF B!Ahead
<1>6. PICK p \in Nat : p = B!Pos /\ p = place - (rlen - rpos) /\ p + k <= Len(file) /\ p <= p + k
                       /\ (p + k) - p = k
  BY <1>2, <1>3, <1>5
<1>7. PICK s \in Seq(Byte) :
        /\ s = SubSeq(buffer, rpos + 1, rpos + k) /\ Len(s) = k
        /\ \A i \in 1 .. k : s[i] = buffer[rpos + i]
  <2>1. PICK e \in Nat : e = rpos + k /\ rpos <= e /\ e <= Len(buffer) /\ e - rpos = k
    BY <1>3, <1>5
  <2>2. /\ SubSeq(buffer, rpos + 1, e) \in Seq(Byte)
        /\ Len(SubSeq(buffer, rpos + 1, e)) = e - rpos
        /\ \A i \in 1 .. e - rpos : SubSeq(buffer, rpos + 1, e)[i] = buffer[rpos + i]
    <3>1. buffer \in Seq(Byte) /\ rpos \in Nat /\ rpos <= e /\ e <= Len(buffer)
      BY <1>3, <2>1
    <3> QED  BY <3>1, Slice
  <2> QED  BY <2>1, <2>2
<1>8. s = SubSeq(file, p + 1, p + k)
  <2>1. p + k \in Nat
    BY <1>5, <1>6
  <2>2. PICK t \in Seq(Byte) :
          t = SubSeq(file, p + 1, p + k) /\ Len(t) = k /\ \A i \in 1 .. k : t[i] = file[p + i]
    <3>1. /\ SubSeq(file, p + 1, p + k) \in Seq(Byte)
          /\ Len(SubSeq(file, p + 1, p + k)) = (p + k) - p
          /\ \A i \in 1 .. (p + k) - p : SubSeq(file, p + 1, p + k)[i] = file[p + i]
      BY <1>4, <1>6, <2>1, Slice
    <3> QED  BY <1>6, <3>1
  <2>3. ASSUME NEW i \in 1 .. k  PROVE s[i] = t[i]
    <3>1. i \in 1 .. rlen - rpos
      BY <1>3, <1>5
    <3>2. buffer[rpos + i] = file[place - (rlen - rpos) + i]
      BY <3>1 DEF StreamInv, BufferOK
    <3> QED  BY <1>6, <1>7, <2>2, <3>2
  <2>4. s = t
    BY <1>7, <2>2, <2>3, SeqEqual
  <2> QED  BY <2>2, <2>4
<1>9. op' = [op EXCEPT !.got = @ \o s, !.n = @ - k, !.at = IF k = op.n THEN "return" ELSE "copy"]
  BY <1>5, <1>7 DEF B!Copy
<1>9a. rpos' = rpos + k
  BY <1>5, <1>7 DEF B!Copy
<1>10. PICK g \in Seq(Byte) : g = op.got \o s /\ Len(g) = Len(op.got) + k
  <2>1. op.got \o s \in Seq(Byte) /\ Len(op.got \o s) = Len(op.got) + Len(s)
    BY <1>2, <1>7, ConcatProperties
  <2> QED  BY <1>7, <2>1
<1>11. /\ op' \in StreamCall /\ op'.at = (IF k = op.n THEN "return" ELSE "copy") /\ op'.do = "read"
       /\ op'.data = <<>> /\ op'.got = g /\ op'.want = op.want /\ op'.n = op.n - k
  <2>1. "copy" \in CallAt /\ "return" \in CallAt /\ op.n - k \in Int
    BY <1>2, <1>5 DEF CallAt, DrainedAt
  <2>2. op' = [op EXCEPT !.got = g, !.n = op.n - k, !.at = IF k = op.n THEN "return" ELSE "copy"]
    BY <1>4, <1>9, <1>10 DEF StreamCall
  <2> QED  BY <1>2, <1>4, <2>1, <2>2 DEF StreamCall
<1>12. rpos' \in 0 .. rlen /\ rlen' - rpos' = (rlen - rpos) - k /\ place' - (rlen' - rpos') = p + k
  <2>1. rlen' = rlen /\ place' = place
    BY <1>1
  <2>2. rpos' \in 0 .. rlen
    BY <1>3, <1>5, <1>9a
  <2>3. rlen' - rpos' = (rlen - rpos) - k
    BY <1>3, <1>9a, <2>1
  <2>4. place' - (rlen' - rpos') = p + k
    BY <1>3, <1>6, <1>9a, <2>1
  <2> QED  BY <2>2, <2>3, <2>4
<1>13. StreamTypes'
  BY <1>1, <1>3, <1>11, <1>12 DEF StreamInv, StreamTypes
<1>14. BufferOK'
  <2>1. rlen' - rpos' <= place'
    <3>1. rlen' - rpos' \in Int /\ place' \in Int /\ p + k >= 0
      BY <1>1, <1>3, <1>12
    <3> QED  BY <1>12, <3>1
  <2>2. ASSUME NEW i \in 1 .. rlen' - rpos'
        PROVE  buffer'[rpos' + i] = file'[place' - (rlen' - rpos') + i]
    <3>0. i \in 1 .. (rlen - rpos) - k
      BY <1>12
    <3>1. k + i \in 1 .. rlen - rpos /\ rpos' + i = rpos + (k + i)
      <4>1. k + i \in 1 .. rlen - rpos
        BY <1>3, <3>0
      <4>2. rpos' + i = rpos + (k + i)
        BY <1>3, <1>9a, <3>0
      <4> QED  BY <4>1, <4>2
    <3>2. place' - (rlen' - rpos') + i = place - (rlen - rpos) + (k + i)
      BY <1>3, <1>6, <1>12
    <3>3. buffer[rpos + (k + i)] = file[place - (rlen - rpos) + (k + i)]
      BY <3>1 DEF StreamInv, BufferOK
    <3> QED  BY <1>1, <3>1, <3>2, <3>3
  <2> QED  BY <1>1, <1>2, <2>1, <2>2 DEF BufferOK
<1>15. Promised
  <2>1. B!Content' = file /\ B!Pos' = p + k
    BY <1>1, <1>2, <1>12, <1>13, DrainedContent
  <2> QED  BY <1>1, <1>2, <1>4, <1>5, <1>6, <1>7, <1>8, <1>10, <1>11, <2>1, GetStep
<1>16. StreamInv'
  <2>1. CASE k = op.n
    <3>1. op'.at = "return" /\ Len(op'.got) = op'.want
      BY <1>2, <1>10, <1>11, <2>1
    <3> QED  BY <1>1, <1>2, <1>11, <1>13, <1>14, <3>1, ReadInv
  <2>2. CASE k # op.n
    <3>1. op'.at = "copy" /\ op'.n > 0 /\ Len(op'.got) + op'.n = op'.want
      BY <1>2, <1>5, <1>10, <1>11, <2>2
    <3> QED  BY <1>1, <1>2, <1>11, <1>13, <1>14, <3>1, ReadInv
  <2> QED  BY <2>1, <2>2
<1> QED  BY <1>15, <1>16
-----------------------------------------------------------------------------
(* Writing.                                                                 *)

\* The first k bytes.
LEMMA Prefix ==
  ASSUME NEW S, NEW s \in Seq(S), NEW k \in Nat, k <= Len(s)
  PROVE  /\ SubSeq(s, 1, k) \in Seq(S) /\ Len(SubSeq(s, 1, k)) = k
         /\ \A i \in 1 .. k : SubSeq(s, 1, k)[i] = s[i]
<1>1. PICK a \in Nat : a = 0 /\ a <= k /\ a + 1 = 1 /\ k - a = k
  OBVIOUS
<1>2. /\ SubSeq(s, a + 1, k) \in Seq(S) /\ Len(SubSeq(s, a + 1, k)) = k - a
      /\ \A i \in 1 .. k - a : SubSeq(s, a + 1, k)[i] = s[a + i]
  BY <1>1, Slice
<1>3. \A i \in 1 .. k : a + i = i
  BY <1>1
<1> QED  BY <1>1, <1>2, <1>3

\* The operators of ByteStream are the ones of BufferedStream.
LEMMA SameBytes ==
  ASSUME NEW f, NEW p, NEW d
  PROVE  /\ B!Abstract!Over(f, p, d) = B!Over(f, p, d)
         /\ B!Abstract!Rest(f, p) = B!Rest(f, p)
         /\ B!Abstract!Resized(f, p) = B!Resized(f, p)
         /\ B!Abstract!Smaller(p, d) = B!Smaller(p, d)
BY DEF B!Abstract!Over, B!Over, B!Abstract!Larger, B!Larger, B!Abstract!Rest, B!Rest,
       B!Abstract!Resized, B!Resized, B!Abstract!Smaller, B!Smaller

\* What was written over the end of a part of f follows that part.
LEMMA OverTail ==
  ASSUME NEW S, NEW f \in Seq(S), NEW p \in Nat, NEW d \in Seq(S), p + Len(d) <= Len(f)
  PROVE  /\ B!Over(f, p, d) \in Seq(S) /\ Len(B!Over(f, p, d)) = Len(f)
         /\ SubSeq(B!Over(f, p, d), 1, p + Len(d)) = SubSeq(f, 1, p) \o d
<1>1. Len(f) \in Nat /\ Len(d) \in Nat
  BY LenProperties
<1>2. p \in 0 .. Len(f) /\ p <= Len(f) /\ B!Larger(Len(f), p + Len(d)) = Len(f)
  BY <1>1 DEF B!Larger
<1>3. PICK g \in Seq(S) :
        /\ g = B!Over(f, p, d) /\ Len(g) = Len(f)
        /\ \A i \in 1 .. Len(f) : g[i] = IF p < i /\ i <= p + Len(d) THEN d[i - p] ELSE f[i]
  <2>1. /\ B!Over(f, p, d) \in Seq(S)
        /\ Len(B!Over(f, p, d)) = B!Larger(Len(f), p + Len(d))
        /\ \A i \in 1 .. B!Larger(Len(f), p + Len(d)) :
             B!Over(f, p, d)[i] = IF p < i /\ i <= p + Len(d) THEN d[i - p] ELSE f[i]
    BY <1>2, OverFacts
  <2> QED  BY <1>2, <2>1
<1>4. PICK n \in Nat : n = p + Len(d) /\ n <= Len(g)
  BY <1>1, <1>3
<1>5. PICK x \in Seq(S) : x = SubSeq(f, 1, p) /\ Len(x) = p /\ \A i \in 1 .. p : x[i] = f[i]
  <2>1. /\ SubSeq(f, 1, p) \in Seq(S) /\ Len(SubSeq(f, 1, p)) = p
        /\ \A i \in 1 .. p : SubSeq(f, 1, p)[i] = f[i]
    BY <1>2, Prefix
  <2> QED  BY <2>1
<1>6. PICK y \in Seq(S) : y = SubSeq(g, 1, n) /\ Len(y) = n /\ \A i \in 1 .. n : y[i] = g[i]
  <2>1. /\ SubSeq(g, 1, n) \in Seq(S) /\ Len(SubSeq(g, 1, n)) = n
        /\ \A i \in 1 .. n : SubSeq(g, 1, n)[i] = g[i]
    BY <1>4, Prefix
  <2> QED  BY <2>1
<1>7. PICK z \in Seq(S) :
        /\ z = x \o d /\ Len(z) = Len(x) + Len(d)
        /\ \A i \in 1 .. Len(x) + Len(d) : z[i] = IF i <= Len(x) THEN x[i] ELSE d[i - Len(x)]
  <2>1. /\ x \o d \in Seq(S) /\ Len(x \o d) = Len(x) + Len(d)
        /\ \A i \in 1 .. Len(x) + Len(d) : (x \o d)[i] = IF i <= Len(x) THEN x[i] ELSE d[i - Len(x)]
    BY ConcatProperties
  <2> QED  BY <2>1
<1>8. ASSUME NEW i \in 1 .. n  PROVE y[i] = z[i]
  <2>1. i \in 1 .. Len(f) /\ i \in 1 .. Len(x) + Len(d) /\ i <= p + Len(d)
    BY <1>1, <1>3, <1>4, <1>5
  <2>2. CASE i <= p
    <3>1. i \in 1 .. p /\ ~(p < i)
      BY <2>2
    <3> QED  BY <1>3, <1>5, <1>6, <1>7, <2>1, <2>2, <3>1
  <2>3. CASE ~(i <= p)
    <3>1. p < i
      BY <2>3
    <3>2. y[i] = d[i - p] /\ z[i] = d[i - p]
      BY <1>3, <1>5, <1>6, <1>7, <2>1, <2>3, <3>1
    <3> QED  BY <3>2
  <2> QED  BY <2>2, <2>3
<1>9. Len(y) = Len(z)
  BY <1>4, <1>5, <1>6, <1>7
<1>10. y = z
  BY <1>6, <1>8, <1>9, SeqEqual
<1> QED  BY <1>3, <1>4, <1>5, <1>6, <1>7, <1>10

\* k bytes of the call are written, or none.
LEMMA PutStep ==
  ASSUME NEW k \in Nat, op.data \in Seq(Byte), k <= Len(op.data),
         B!Content' = B!Over(B!Content, B!Pos, SubSeq(op.data, 1, k)), B!Pos \in Nat,
         B!Pos' = B!Pos + k, op'.data = B!Rest(op.data, k), op'.got = op.got,
         op'.do = op.do, op'.want = op.want, UNCHANGED astray
  PROVE  Promised
<1>1. Len(op.data) \in Nat
  BY LenProperties
<1>2. CASE k = 0
  <2>1. SubSeq(op.data, 1, k) = <<>>
    BY <1>2, SubSeqEmpty
  <2>2. B!Content' = B!Content
    BY <2>1, OverNothing
  <2>3. B!Rest(op.data, k) = op.data
    BY <1>2, SubSeqFull DEF B!Rest
  <2>4. B!Pos' = B!Pos
    BY <1>2
  <2> QED  BY <2>2, <2>3, <2>4, HiddenStep DEF StreamKept
<1>3. CASE k # 0
  <2>1. k \in 1 .. Len(op.data)
    BY <1>1, <1>3
  <2>2. B!Abstract!Put(k)
    BY SameBytes DEF B!Abstract!Put
  <2> QED  BY <2>1, <2>2 DEF Promised, B!Abstract!Next
<1> QED  BY <1>2, <1>3

\* A write that is under way, with nothing read ahead.
LEMMA WriteInv ==
  ASSUME StreamTypes', BufferOK', op'.do = "write", op'.at \in {"write", "flush"},
         op'.got = <<>>, ~closed', rlen' - rpos' = 0, op'.at = "write" => flushed' = 0
  PROVE  StreamInv'
<1>1. CallOK' /\ DrainedOK' /\ ReadCallOK' /\ SeekOK' /\ ClosedOK'
  BY DEF CallOK, DrainedOK, ReadCallOK, SeekOK, ClosedOK, DrainedAt, SeekAt
<1> QED  BY <1>1 DEF StreamInv

\* At a step of Write nothing is read ahead.
LEMMA Writing ==
  ASSUME StreamInv, op.at = "write"
  PROVE  /\ op.do = "write" /\ op.got = <<>> /\ rlen - rpos = 0 /\ flushed = 0 /\ ~closed
         /\ op.data \in Seq(Byte) /\ Len(op.data) \in Nat /\ op \in StreamCall
         /\ B!Pos = place + wpos
<1>1. op.do = "write" /\ op.got = <<>> /\ rlen - rpos = 0
  BY DEF StreamInv, CallOK
<1>2. flushed = 0 /\ ~closed
  BY Busy DEF StreamInv, DrainedOK
<1>3. op \in StreamCall /\ op.data \in Seq(Byte)
  BY DEF StreamInv, StreamTypes, StreamCall
<1>4. Len(op.data) \in Nat
  BY <1>3, LenProperties
<1>5. B!Pos = place - (rlen - rpos) + (wpos - flushed)
  BY ContentFacts DEF StreamInv, BufferOK
<1>6. place - (rlen - rpos) + (wpos - flushed) = place + wpos
  BY <1>1, <1>2, StreamNumbers DEF StreamInv
<1> QED  BY <1>1, <1>2, <1>3, <1>4, <1>5, <1>6

\* What was read ahead is given back, and the data is taken.
LEMMA CallWriteStep ==
  ASSUME StreamInv, NEW d \in B!Data, B!CallWrite(d)
  PROVE  StreamInv' /\ Promised
<1> USE DEF B!innerVars, B!readVars, B!writeVars
<1>1. d \in Seq(Byte)
  BY SeqDef, StreamAssumption DEF B!Data, B!BufferAssumption
<1>2. PICK o : o = B!At("write", "write", 0, d, 0)
  OBVIOUS
<1>3. /\ o \in StreamCall /\ o.at = "write" /\ o.do = "write" /\ o.got = <<>> /\ o.data = d
  <2>1. <<>> \in Seq(Byte)
    BY EmptySeq
  <2> QED  BY <1>1, <1>2, <2>1 DEF B!At, StreamCall, CallAt, CallDo
<1>4. op = B!Idle /\ ~closed /\ op' = o /\ threw' = FALSE
  BY <1>2 DEF B!CallWrite, B!Begin
<1>5. /\ place' = place - (rlen - rpos) /\ rpos' = 0 /\ rlen' = 0
      /\ UNCHANGED <<file, buffer, wpos, flushed, closed, astray>>
  BY DEF B!CallWrite, B!ForgetAhead, B!Ahead
<1>6. op.got = <<>> /\ flushed = 0
  BY <1>4, IdleFields DEF StreamInv, DrainedOK
<1>7. /\ Len(file) \in Nat /\ place \in Nat /\ place <= Len(file) /\ BufferSize \in Nat
      /\ rlen \in Nat /\ rpos \in Nat /\ rpos <= rlen /\ wpos \in Nat /\ flushed \in Nat
  BY StreamNumbers DEF StreamInv
<1>8. (wpos > 0 => rlen - rpos = 0) /\ rlen - rpos <= place
  BY DEF StreamInv, BufferOK
<1>9. place' \in 0 .. Len(file) /\ rlen' - rpos' = 0 /\ place' \in Nat
  BY <1>5, <1>7, <1>8
<1>10. StreamTypes'
  <2>1. rlen' \in 0 .. BufferSize /\ rpos' \in 0 .. rlen' /\ threw' \in BOOLEAN
    <3>1. rlen' \in 0 .. BufferSize
      BY <1>5, <1>7
    <3>2. rpos' \in 0 .. rlen'
      BY <1>5
    <3> QED  BY <1>4, <3>1, <3>2
  <2> QED  BY <1>3, <1>4, <1>5, <1>9, <2>1 DEF StreamInv, StreamTypes
<1>11. BufferOK'
  BY <1>9 DEF BufferOK
<1>12. StreamKept
  <2>1. B!Pos' = B!Pos
    <3>1. B!Pos = place - (rlen - rpos) + (wpos - flushed)
      BY DEF B!Pos, B!Ahead
    <3>2. B!Pos' = place' - (rlen' - rpos') + (wpos' - flushed')
      BY DEF B!Pos, B!Ahead
    <3>3. place' - (rlen' - rpos') = place - (rlen - rpos)
      BY <1>5, <1>7, <1>9
    <3>4. wpos' - flushed' = wpos - flushed
      BY <1>5
    <3> QED  BY <3>1, <3>2, <3>3, <3>4
  <2>2. CASE wpos = 0
    <3>1. wpos = flushed
      BY <1>6, <2>2
    <3>2. B!Content = file
      BY <1>8, <3>1, ContentFacts DEF StreamInv
    <3>3. B!Content' = file'
      BY <1>5, <1>6, <1>10, <2>2, DrainedContent
    <3> QED  BY <1>5, <2>1, <3>2, <3>3 DEF StreamKept
  <2>3. CASE wpos # 0
    <3>1. place' = place
      BY <1>5, <1>7, <1>8, <2>3
    <3>2. B!Content' = B!Content
      BY <1>5, <3>1 DEF B!Content
    <3> QED  BY <2>1, <3>2 DEF StreamKept
  <2> QED  BY <2>2, <2>3
<1>13. Promised
  BY <1>3, <1>4, <1>5, <1>6, <1>12, BeginStep
<1>14. StreamInv'
  BY <1>3, <1>4, <1>5, <1>6, <1>9, <1>10, <1>11, WriteInv
<1> QED  BY <1>13, <1>14

\* Bytes of the call go into the file.
LEMMA WriteDirectStep ==
  ASSUME StreamInv, NEW k \in 1 .. Len(op.data), B!WriteDirect(k)
  PROVE  StreamInv' /\ Promised
<1> USE DEF B!innerVars, B!readVars, B!writeVars
<1>1. /\ op.at = "write" /\ wpos = 0 /\ place' = place + k
      /\ op' = [op EXCEPT !.data = B!Rest(@, k)]
      /\ UNCHANGED <<buffer, rpos, rlen, wpos, flushed, closed, threw, astray>>
  BY DEF B!WriteDirect
<1>2. /\ op.do = "write" /\ op.got = <<>> /\ rlen - rpos = 0 /\ flushed = 0 /\ ~closed
      /\ op.data \in Seq(Byte) /\ Len(op.data) \in Nat /\ op \in StreamCall
      /\ B!Pos = place + wpos
  BY <1>1, Writing
<1>3. /\ Len(file) \in Nat /\ place \in Nat /\ place <= Len(file)
      /\ rlen \in Nat /\ rpos \in Nat /\ wpos \in Nat
  BY StreamNumbers DEF StreamInv
<1>4. k \in Nat /\ k <= Len(op.data) /\ k \in 0 .. Len(op.data)
  BY <1>2
<1>5. PICK d \in Seq(Byte) : d = SubSeq(op.data, 1, k) /\ Len(d) = k
  <2>1. SubSeq(op.data, 1, k) \in Seq(Byte) /\ Len(SubSeq(op.data, 1, k)) = k
    BY <1>2, <1>4, Prefix
  <2> QED  BY <2>1
<1>6. file \in Seq(Byte) /\ place \in 0 .. Len(file) /\ file' = B!Over(file, place, d)
  BY <1>5 DEF StreamInv, StreamTypes, B!WriteDirect
<1>7. file' \in Seq(Byte) /\ place' \in 0 .. Len(file')
  <2>1. B!Over(file, place, d) \in Seq(Byte) /\ place + Len(d) \in 0 .. Len(B!Over(file, place, d))
    BY <1>6, OverFacts, OverOver
  <2> QED  BY <1>1, <1>5, <1>6, <2>1
<1>8. PICK r \in Seq(Byte) : r = B!Rest(op.data, k)
  BY <1>2, <1>4, RestFacts
<1>9. /\ op' \in StreamCall /\ op'.at = "write" /\ op'.do = "write" /\ op'.data = r
      /\ op'.got = op.got /\ op'.want = op.want
  BY <1>1, <1>2, <1>8 DEF StreamCall
<1>10. StreamTypes'
  BY <1>1, <1>7, <1>9 DEF StreamInv, StreamTypes
<1>11. rlen' - rpos' = 0 /\ place' - (rlen' - rpos') = place + k /\ place' \in Nat
  BY <1>1, <1>2, <1>3, <1>4
<1>12. BufferOK'
  BY <1>11 DEF BufferOK
<1>13. StreamInv'
  BY <1>1, <1>2, <1>9, <1>10, <1>11, <1>12, WriteInv
<1>14. B!Content = file /\ B!Pos = place
  <2>1. wpos = flushed /\ rlen - rpos <= place
    BY <1>1, <1>2, <1>3
  <2>2. B!Content = file
    BY <2>1, ContentFacts DEF StreamInv
  <2> QED  BY <1>1, <1>2, <1>3, <2>2
<1>15. B!Content' = file' /\ B!Pos' = place + k
  BY <1>1, <1>2, <1>10, <1>11, DrainedContent
<1>16. Promised
  BY <1>1, <1>2, <1>3, <1>4, <1>5, <1>6, <1>8, <1>9, <1>14, <1>15, PutStep
<1> QED  BY <1>13, <1>16

\* Bytes of the call go into the buffer.
LEMMA WriteBufferedStep ==
  ASSUME StreamInv, B!WriteBuffered
  PROVE  StreamInv' /\ Promised
<1> USE DEF B!innerVars, B!readVars, B!writeVars
<1>1. /\ op.at = "write"
      /\ UNCHANGED <<file, place, rpos, rlen, flushed, closed, threw, astray>>
  BY DEF B!WriteBuffered
<1>2. /\ op.do = "write" /\ op.got = <<>> /\ rlen - rpos = 0 /\ flushed = 0 /\ ~closed
      /\ op.data \in Seq(Byte) /\ Len(op.data) \in Nat /\ op \in StreamCall
      /\ B!Pos = place + wpos
  BY <1>1, Writing
<1>3. /\ Len(file) \in Nat /\ place \in Nat /\ place <= Len(file) /\ BufferSize \in Nat
      /\ rlen \in Nat /\ rpos \in Nat /\ wpos \in Nat /\ wpos <= BufferSize
      /\ buffer \in Seq(Byte) /\ Len(buffer) = BufferSize
  BY StreamNumbers DEF StreamInv
<1>4. PICK k \in Nat : k = B!Smaller(Len(op.data), BufferSize - wpos) /\ k <= Len(op.data)
                       /\ k <= BufferSize - wpos
  BY <1>2, <1>3, SmallerFacts
<1>5. PICK d \in Seq(Byte) : d = SubSeq(op.data, 1, k) /\ Len(d) = k
  <2>1. SubSeq(op.data, 1, k) \in Seq(Byte) /\ Len(SubSeq(op.data, 1, k)) = k
    BY <1>2, <1>4, Prefix
  <2> QED  BY <2>1
<1>6. PICK r \in Seq(Byte) : r = B!Rest(op.data, k)
  <2>1. k \in 0 .. Len(op.data)
    BY <1>2, <1>4
  <2> QED  BY <1>2, <2>1, RestFacts
<1>7. /\ buffer' = B!Over(buffer, wpos, d) /\ wpos' = wpos + k
      /\ op' = [op EXCEPT !.data = B!Rest(@, k),
                          !.at = IF wpos + k = BufferSize THEN "flush" ELSE "write"]
  BY <1>4, <1>5 DEF B!WriteBuffered
<1>8. /\ op' \in StreamCall /\ op'.at \in {"write", "flush"} /\ op'.do = "write" /\ op'.data = r
      /\ op'.got = op.got /\ op'.want = op.want
  <2>1. "write" \in CallAt /\ "flush" \in CallAt
    BY DEF CallAt
  <2> QED  BY <1>2, <1>6, <1>7, <2>1 DEF StreamCall
<1>9. PICK x \in Seq(Byte) : x = SubSeq(buffer, 1, wpos) /\ Len(x) = wpos
  <2>1. SubSeq(buffer, 1, wpos) \in Seq(Byte) /\ Len(SubSeq(buffer, 1, wpos)) = wpos
    BY <1>3, Prefix
  <2> QED  BY <2>1
<1>10. wpos + k \in 0 .. BufferSize /\ wpos + k <= BufferSize
  BY <1>3, <1>4
<1>11. buffer' \in Seq(Byte) /\ Len(buffer') = BufferSize /\ SubSeq(buffer', 1, wpos + k) = x \o d
  <2>1. wpos + Len(d) <= Len(buffer)
    BY <1>3, <1>5, <1>10
  <2>2. /\ B!Over(buffer, wpos, d) \in Seq(Byte) /\ Len(B!Over(buffer, wpos, d)) = Len(buffer)
        /\ SubSeq(B!Over(buffer, wpos, d), 1, wpos + Len(d)) = SubSeq(buffer, 1, wpos) \o d
    <3>1. PICK b \in Seq(Byte) : b = buffer
      BY <1>3
    <3>2. PICK w \in Nat : w = wpos
      BY <1>3
    <3>3. w + Len(d) <= Len(b)
      BY <2>1, <3>1, <3>2
    <3>4. /\ B!Over(b, w, d) \in Seq(Byte) /\ Len(B!Over(b, w, d)) = Len(b)
          /\ SubSeq(B!Over(b, w, d), 1, w + Len(d)) = SubSeq(b, 1, w) \o d
      BY <3>3, OverTail
    <3> QED  BY <3>1, <3>2, <3>4
  <2> QED  BY <1>3, <1>5, <1>7, <1>9, <2>2
<1>12. buffer' \in [1 .. BufferSize -> Byte]
  BY <1>11, LenProperties
<1>13. StreamTypes'
  <2>1. flushed' \in 0 .. wpos'
    BY <1>1, <1>2, <1>3, <1>7, <1>10
  <2> QED  BY <1>1, <1>7, <1>8, <1>10, <1>12, <2>1 DEF StreamInv, StreamTypes
<1>14. rlen' - rpos' = 0 /\ place' = place
  BY <1>1, <1>2
<1>15. BufferOK'
  BY <1>3, <1>14 DEF BufferOK
<1>16. StreamInv'
  BY <1>1, <1>2, <1>8, <1>13, <1>14, <1>15, WriteInv
<1>17. file \in Seq(Byte) /\ place \in 0 .. Len(file)
  BY DEF StreamInv, StreamTypes
<1>18. B!Content = B!Over(file, place, x)
  <2>1. flushed + 1 = 1
    BY <1>2
  <2> QED  BY <1>9, <2>1 DEF B!Content
<1>19. B!Content' = B!Over(file, place, x \o d)
  <2>1. flushed' + 1 = 1
    BY <1>1, <1>2
  <2>2. B!Content' = B!Over(file', place', SubSeq(buffer', flushed' + 1, wpos'))
    BY DEF B!Content
  <2> QED  BY <1>1, <1>7, <1>11, <2>1, <2>2
<1>20. B!Content' = B!Over(B!Content, B!Pos, d)
  <2>1. B!Over(B!Over(file, place, x), place + Len(x), d) = B!Over(file, place, x \o d)
    BY <1>17, OverOver
  <2> QED  BY <1>2, <1>9, <1>18, <1>19, <2>1
<1>21. B!Pos \in Nat /\ B!Pos' = B!Pos + k
  <2>1. B!Pos' = place' - (rlen' - rpos') + (wpos' - flushed')
    BY DEF B!Pos, B!Ahead
  <2>2. place' - (rlen' - rpos') + (wpos' - flushed') = (place + wpos) + k
    BY <1>1, <1>2, <1>3, <1>7, <1>14
  <2> QED  BY <1>2, <1>3, <2>1, <2>2
<1>22. Promised
  BY <1>1, <1>2, <1>4, <1>5, <1>6, <1>8, <1>20, <1>21, PutStep
<1> QED  BY <1>16, <1>22
-----------------------------------------------------------------------------
(* Moving, and the length.                                                  *)

\* Where a seek is to go is where the user asked.
LEMMA TargetIsAim ==
  ASSUME StreamInv, op.at \in SeekAt
  PROVE  /\ op.do \in SeekAt /\ op.data = <<>> /\ op.got = <<>>
         /\ wpos = 0 /\ flushed = 0 /\ ~closed
         /\ B!Content = file /\ B!SeekTarget = op.want /\ op.want \in 0 .. Len(file)
<1>1. op.at \in DrainedAt /\ op.at # "copy" /\ op.at # "flush" /\ op.at # "idle"
  BY DEF DrainedAt, SeekAt
<1>2. op.do = op.at /\ wpos = 0 /\ flushed = 0
  BY <1>1 DEF StreamInv, CallOK, DrainedOK
<1>3. op.data = <<>> /\ op.got = <<>>
  BY <1>2 DEF StreamInv, CallOK, SeekAt
<1>4. ~closed
  BY <1>1, Busy
<1>5. B!Content = file
  BY <1>2, ContentFacts DEF StreamInv, BufferOK
<1>6. op.want \in 0 .. Len(file)
  BY <1>2, <1>5 DEF StreamInv, SeekOK
<1>7. B!SeekTarget = op.want
  <2>1. place \in Nat
    BY StreamNumbers DEF StreamInv
  <2>2. op.n \in Int
    BY DEF StreamInv, StreamTypes, StreamCall
  <2>3. CASE op.at = "seek"
    BY <1>2, <2>3 DEF StreamInv, SeekOK, B!SeekTarget
  <2>4. CASE op.at = "seekCurrent"
    <3>1. place + (wpos - flushed) + op.n = op.want
      BY <1>2, <2>4 DEF StreamInv, SeekOK
    <3>2. place + op.n = op.want
      BY <1>2, <2>1, <2>2, <3>1
    <3> QED  BY <2>4, <3>2 DEF B!SeekTarget
  <2>5. CASE op.at = "seekEnd"
    BY <1>2, <1>5, <2>5 DEF StreamInv, SeekOK, B!SeekTarget
  <2> QED  BY <2>3, <2>4, <2>5 DEF SeekAt
<1> QED  BY <1>2, <1>3, <1>4, <1>5, <1>6, <1>7

\* Seek moves the position, as the abstract stream does, or throws.
LEMMA SeekStep ==
  ASSUME StreamInv, B!Seek
  PROVE  StreamInv' /\ Promised
<1> USE DEF B!innerVars, B!readVars, B!writeVars
<1>1. /\ op.at \in SeekAt /\ rpos' = 0 /\ rlen' = 0
      /\ op' = B!Idle /\ threw' \in BOOLEAN
      /\ UNCHANGED <<file, buffer, wpos, flushed, closed>>
  BY DEF B!Seek, B!ForgetAhead, B!Return, B!Throws, SeekAt
<1>2. /\ op.do \in SeekAt /\ op.data = <<>> /\ op.got = <<>>
      /\ wpos = 0 /\ flushed = 0 /\ ~closed
      /\ B!Content = file /\ B!SeekTarget = op.want /\ op.want \in 0 .. Len(file)
  BY <1>1, TargetIsAim
<1>3. /\ Len(file) \in Nat /\ place \in Nat /\ place <= Len(file) /\ BufferSize \in Nat
      /\ rlen \in Nat /\ rpos \in Nat /\ rpos <= rlen
  BY StreamNumbers DEF StreamInv
<1>4. rlen' \in 0 .. BufferSize /\ rpos' \in 0 .. rlen' /\ rlen' - rpos' = 0
  <2>1. rlen' \in 0 .. BufferSize
    BY <1>1, <1>3
  <2>2. rpos' \in 0 .. rlen' /\ rlen' - rpos' = 0
    BY <1>1
  <2> QED  BY <2>1, <2>2
<1>5. CASE place' = B!SeekTarget /\ UNCHANGED astray
  <2>1. place' = op.want /\ place' \in 0 .. Len(file) /\ place' \in Nat
    BY <1>2, <1>3, <1>5
  <2>2. StreamTypes'
    BY <1>1, <1>4, <1>5, <2>1, IdleFields DEF StreamInv, StreamTypes
  <2>3. BufferOK'
    BY <1>1, <2>1 DEF BufferOK
  <2>4. StreamInv'
    BY <1>1, <1>2, <2>2, <2>3, EndInv
  <2>5. B!Content' = file' /\ B!Pos' = op.want
    <3>1. B!Content' = file' /\ B!Pos' = place' - (rlen' - rpos')
      BY <1>1, <1>2, <2>2, DrainedContent
    <3>2. place' - (rlen' - rpos') = place'
      BY <1>1, <2>1
    <3> QED  BY <2>1, <3>1, <3>2
  <2>6. B!Abstract!Jump
    BY <1>1, <1>2, <2>5, IdleFields DEF B!Abstract!Jump, SeekAt
  <2>7. Promised
    BY <1>5, <2>6 DEF Promised, B!Abstract!Next
  <2> QED  BY <2>4, <2>7
<1>6. CASE UNCHANGED place /\ astray' = (astray \/ B!Ahead > 0)
  <2>1. astray' \in BOOLEAN /\ place' \in Nat /\ place' \in 0 .. Len(file)
    <3>1. astray' \in BOOLEAN
      BY <1>6
    <3> QED  BY <1>3, <1>6, <3>1
  <2>2. StreamTypes'
    BY <1>1, <1>4, <1>6, <2>1, IdleFields DEF StreamInv, StreamTypes
  <2>3. BufferOK'
    BY <1>1, <2>1 DEF BufferOK
  <2>4. StreamInv'
    BY <1>1, <1>2, <2>2, <2>3, EndInv
  <2>5. CASE rlen - rpos = 0
    <3>1. astray' = astray
      <4>1. ~(B!Ahead > 0)
        BY <2>5 DEF B!Ahead
      <4> QED  BY <1>6, <4>1 DEF StreamInv, StreamTypes
    <3>2. B!Content' = file' /\ B!Pos' = place' - (rlen' - rpos')
      BY <1>1, <1>2, <2>2, DrainedContent
    <3>3. place' - (rlen' - rpos') = place - (rlen - rpos) + (wpos - flushed)
      <4>1. place' - (rlen' - rpos') = place
        BY <1>1, <1>3, <1>6
      <4>2. place - (rlen - rpos) + (wpos - flushed) = place
        BY <1>2, <1>3, <2>5
      <4> QED  BY <4>1, <4>2
    <3>4. StreamKept
      BY <1>1, <1>2, <3>2, <3>3 DEF StreamKept, B!Pos, B!Ahead
    <3> QED  BY <1>1, <2>4, <3>1, <3>4, EndStep
  <2>6. CASE rlen - rpos # 0
    <3>1. B!Ahead > 0
      BY <1>3, <2>6 DEF B!Ahead
    <3>2. astray'
      BY <1>6, <3>1, Zenon
    <3> QED  BY <1>1, <2>4, <3>2, EndStep
  <2> QED  BY <2>5, <2>6
<1> QED  BY <1>5, <1>6 DEF B!Seek

\* A file with another length.
LEMMA ResizedFacts ==
  ASSUME NEW f \in Seq(Byte), NEW n \in Nat
  PROVE  B!Resized(f, n) \in Seq(Byte) /\ Len(B!Resized(f, n)) = n
<1>1. Len(f) \in Nat /\ \A i \in 1 .. Len(f) : f[i] \in Byte
  BY LenProperties, ElementOfSeq
<1>2. 0 \in Byte
  BY StreamAssumption DEF B!BufferAssumption
<1>3. \A i \in 1 .. n : (IF i <= Len(f) THEN f[i] ELSE 0) \in Byte
  BY <1>1, <1>2
<1>4. B!Resized(f, n) \in [1 .. n -> Byte]
  BY <1>3 DEF B!Resized
<1> QED  BY <1>4, ArrayIsSeq

\* SetLength cuts or extends the content, as in the abstract stream, or throws.
LEMMA SetLengthStep ==
  ASSUME StreamInv, B!SetLength
  PROVE  StreamInv' /\ Promised
<1> USE DEF B!innerVars, B!readVars, B!writeVars
<1>1. /\ op.at = "length" /\ rpos' = 0 /\ rlen' = 0
      /\ op' = B!Idle /\ threw' \in BOOLEAN
      /\ astray' = (astray \/ B!Ahead > 0)
      /\ UNCHANGED <<buffer, wpos, flushed, closed>>
  BY DEF B!SetLength, B!ForgetAhead, B!Return, B!Throws
<1>2. op.at \in DrainedAt /\ op.at # "copy" /\ op.at # "flush" /\ op.at # "idle"
  BY <1>1 DEF DrainedAt
<1>3. /\ op.do = "length" /\ op.n \in Nat /\ op.data = <<>> /\ op.got = <<>>
      /\ wpos = 0 /\ flushed = 0 /\ ~closed
  BY <1>1, <1>2, Busy DEF StreamInv, CallOK, DrainedOK
<1>4. /\ Len(file) \in Nat /\ place \in Nat /\ place <= Len(file) /\ BufferSize \in Nat
      /\ rlen \in Nat /\ rpos \in Nat /\ rpos <= rlen
  BY StreamNumbers DEF StreamInv
<1>5. rlen' \in 0 .. BufferSize /\ rpos' \in 0 .. rlen' /\ rlen' - rpos' = 0
  <2>1. rlen' \in 0 .. BufferSize
    BY <1>1, <1>4
  <2>2. rpos' \in 0 .. rlen' /\ rlen' - rpos' = 0
    BY <1>1
  <2> QED  BY <2>1, <2>2
<1>6. \/ file' = B!Resized(file, op.n) /\ place' = B!Smaller(place, op.n)
      \/ UNCHANGED <<file, place>>
  BY DEF B!SetLength
<1>7. file' \in Seq(Byte) /\ place' \in 0 .. Len(file') /\ place' \in Nat
  <2>1. CASE file' = B!Resized(file, op.n) /\ place' = B!Smaller(place, op.n)
    <3>1. file' \in Seq(Byte) /\ Len(file') = op.n
      BY <1>3, <2>1, ResizedFacts DEF StreamInv, StreamTypes
    <3>2. place' \in Nat /\ place' <= op.n
      BY <1>3, <1>4, <2>1, SmallerFacts
    <3> QED  BY <1>3, <3>1, <3>2
  <2>2. CASE UNCHANGED <<file, place>>
    BY <1>4, <2>2 DEF StreamInv, StreamTypes
  <2> QED  BY <1>6, <2>1, <2>2
<1>8. StreamTypes'
  <2>1. astray' \in BOOLEAN
    BY <1>1
  <2> QED  BY <1>1, <1>5, <1>7, <2>1, IdleFields DEF StreamInv, StreamTypes
<1>9. BufferOK'
  BY <1>1, <1>7 DEF BufferOK
<1>10. StreamInv'
  BY <1>1, <1>3, <1>8, <1>9, EndInv
<1>11. CASE rlen - rpos # 0
  <2>1. B!Ahead > 0
    BY <1>4, <1>11 DEF B!Ahead
  <2>2. astray'
    BY <1>1, <2>1, Zenon
  <2> QED  BY <1>1, <1>10, <2>2, EndStep
<1>12. CASE rlen - rpos = 0
  <2>1. astray' = astray
    <3>1. ~(B!Ahead > 0)
      BY <1>12 DEF B!Ahead
    <3> QED  BY <1>1, <3>1 DEF StreamInv, StreamTypes
  <2>2. B!Content' = file' /\ B!Pos' = place'
    <3>1. B!Content' = file' /\ B!Pos' = place' - (rlen' - rpos')
      BY <1>1, <1>3, <1>8, DrainedContent
    <3>2. place' - (rlen' - rpos') = place'
      <4>1. \A x \in Nat : x - 0 = x
        OBVIOUS
      <4> QED  BY <1>5, <1>7, <4>1, Zenon
    <3> QED  BY <3>1, <3>2
  <2>3. B!Content = file /\ B!Pos = place
    <3>1. rlen - rpos <= place /\ wpos = flushed
      BY <1>3, <1>4, <1>12
    <3>2. B!Content = file /\ B!Pos = place - (rlen - rpos) + (wpos - flushed)
      BY <3>1, ContentFacts DEF StreamInv
    <3>3. place - (rlen - rpos) + (wpos - flushed) = place
      BY <1>3, <1>4, <1>12
    <3> QED  BY <3>2, <3>3
  <2>4. CASE UNCHANGED <<file, place>>
    <3>1. StreamKept
      BY <2>2, <2>3, <2>4 DEF StreamKept
    <3> QED  BY <1>1, <1>10, <2>1, <3>1, EndStep
  <2>5. CASE file' = B!Resized(file, op.n) /\ place' = B!Smaller(place, op.n)
    <3>1. Len(file') = op.n
      BY <1>3, <2>5, ResizedFacts DEF StreamInv, StreamTypes
    <3>2. op'.got = op.got /\ op'.data = op.data /\ op'.do \notin SeekAt
      BY <1>1, <1>3, IdleFields DEF SeekAt
    <3>3. B!Content' = B!Abstract!Resized(B!Content, Len(B!Content'))
      BY <2>2, <2>3, <2>5, <3>1, SameBytes
    <3>4. B!Pos' = B!Abstract!Smaller(B!Pos, Len(B!Content'))
      BY <2>2, <2>3, <2>5, <3>1, SameBytes
    <3>5. B!Abstract!Resize(Len(B!Content'))
      BY <1>3, <3>2, <3>3, <3>4 DEF B!Abstract!Resize, SeekAt
    <3>6. Promised
      BY <2>1, <3>5 DEF Promised, B!Abstract!Next
    <3> QED  BY <1>10, <3>6
  <2> QED  BY <1>6, <2>4, <2>5
<1> QED  BY <1>11, <1>12

-----------------------------------------------------------------------------
(* The theorems.                                                            *)

\* A new stream, and what it stands for.
LEMMA StreamInit == B!Init => StreamInv /\ B!Abstract!Init
<1> SUFFICES ASSUME B!Init  PROVE StreamInv /\ B!Abstract!Init
  OBVIOUS
<1>1. BufferSize \in Nat /\ BufferSize > 0 /\ MaxLength \in Nat /\ 0 \in Byte
  BY StreamAssumption DEF B!BufferAssumption
<1>2. /\ place = 0 /\ rpos = 0 /\ rlen = 0 /\ wpos = 0 /\ flushed = 0
      /\ closed = FALSE /\ op = B!Idle /\ threw = FALSE /\ astray = FALSE
  BY DEF B!Init
<1>3. file \in Seq(Byte)
  BY <1>1, SeqDef DEF B!Init
<1>4. Len(file) \in Nat
  BY <1>3, LenProperties
<1>5. buffer \in [1 .. BufferSize -> Byte]
  BY <1>1 DEF B!Init
<1>6. StreamTypes
  <2>1. place \in 0 .. Len(file) /\ rlen \in 0 .. BufferSize /\ wpos \in 0 .. BufferSize
    BY <1>1, <1>2, <1>4
  <2>2. rpos \in 0 .. rlen /\ flushed \in 0 .. wpos
    BY <1>2
  <2> QED  BY <1>2, <1>3, <1>5, <2>1, <2>2, IdleFields DEF StreamTypes
<1>7. BufferOK
  BY <1>2 DEF BufferOK
<1>8. CallOK /\ DrainedOK /\ ReadCallOK /\ SeekOK /\ ClosedOK
  BY <1>2, IdleFields DEF CallOK, DrainedOK, ReadCallOK, SeekOK, ClosedOK, DrainedAt, SeekAt
<1>9. B!Content = file /\ B!Pos = 0
  <2>1. B!Content = file /\ B!Pos = place - (rlen - rpos) + (wpos - flushed)
    BY <1>2, <1>6, ContentFacts
  <2> QED  BY <1>2, <2>1
<1>10. B!Abstract!Init
  BY <1>2, <1>3, <1>9, IdleFields DEF B!Abstract!Init
<1> QED  BY <1>6, <1>7, <1>8, <1>10 DEF StreamInv

\* Every step keeps the invariant and the promise.
LEMMA StreamStep == StreamInv /\ [B!Next]_B!vars => StreamInv' /\ Promised
<1> SUFFICES ASSUME StreamInv, [B!Next]_B!vars  PROVE StreamInv' /\ Promised
  OBVIOUS
<1>1. CASE UNCHANGED B!vars
  <2>1. UNCHANGED <<file, place, buffer, rpos, rlen, wpos, flushed, closed, op, threw, astray>>
    BY <1>1 DEF B!vars, B!innerVars, B!readVars, B!writeVars
  <2>2. StreamKept
    BY <2>1 DEF StreamKept, B!Content, B!Pos, B!Ahead
  <2>3. StreamTypes' /\ BufferOK' /\ CallOK' /\ DrainedOK' /\ ReadCallOK' /\ ClosedOK'
    BY <2>1 DEF StreamInv, StreamTypes, BufferOK, CallOK, DrainedOK, ReadCallOK, ClosedOK
  <2>4. SeekOK'
    BY <2>1, <2>2 DEF StreamInv, SeekOK, StreamKept
  <2> QED  BY <2>1, <2>2, <2>3, <2>4, HiddenStep DEF StreamInv
<1>2. CASE B!Call
  <2>1. CASE B!CallWriteThrows
    BY <2>1, PlainEnds
  <2>2. ASSUME NEW d \in B!Data, B!CallWrite(d)  PROVE StreamInv' /\ Promised
    BY <2>2, CallWriteStep
  <2> QED  BY <1>2, <2>1, <2>2, CallsBegin DEF B!Call
<1>3. CASE B!Step
  <2>1. ASSUME NEW k \in 1 .. wpos - flushed, B!FlushSome(k)  PROVE StreamInv' /\ Promised
    BY <2>1, FlushSomeStep
  <2>2. ASSUME NEW k \in 1 .. Len(op.data), B!WriteDirect(k)  PROVE StreamInv' /\ Promised
    BY <2>2, WriteDirectStep
  <2> QED
    BY <1>3, <2>1, <2>2, FlushThrowsStep, FlushEndsStep, PlainEnds, ReadStep, ReadThrowsStep,
       FillStep, CopyStep, WriteBufferedStep, SeekStep, SetLengthStep DEF B!Step
<1> QED  BY <1>1, <1>2, <1>3 DEF B!Next

\* The invariant holds for ever.
LEMMA StreamInvariance == B!Spec => []StreamInv
<1>1. B!Init => StreamInv
  BY StreamInit
<1>2. StreamInv /\ [B!Next]_B!vars => StreamInv'
  BY StreamStep
<1> QED  BY <1>1, <1>2, PTL DEF B!Spec

\* What the run checks follows from the invariant.
LEMMA StreamInvSuffices == StreamInv => ClosedIsSaved
<1> SUFFICES ASSUME StreamInv  PROVE ClosedIsSaved
  OBVIOUS
<1>1. B!TypeOK
  BY DEF StreamInv, StreamTypes, StreamCall, CallAt, DrainedAt, SeekAt, B!TypeOK
<1>2. B!OneUse
  BY DEF StreamInv, BufferOK, B!OneUse, B!Ahead
<1>3. B!ReadAheadIsFresh
  <2>1. /\ Len(file) \in Nat /\ place \in Nat /\ place <= Len(file)
        /\ rlen \in Nat /\ rlen <= BufferSize /\ rpos \in Nat /\ rpos <= rlen
        /\ buffer \in Seq(Byte) /\ Len(buffer) = BufferSize /\ file \in Seq(Byte)
    BY StreamNumbers DEF StreamInv, StreamTypes
  <2>2. /\ rlen - rpos <= place
        /\ \A i \in 1 .. rlen - rpos : buffer[rpos + i] = file[place - (rlen - rpos) + i]
    BY DEF StreamInv, BufferOK
  <2>3. PICK a \in Nat : a = place - (rlen - rpos) /\ a <= place /\ place - a = rlen - rpos
    BY <2>1, <2>2
  <2>4. PICK x \in Seq(Byte) :
          /\ x = SubSeq(buffer, rpos + 1, rlen) /\ Len(x) = rlen - rpos
          /\ \A i \in 1 .. rlen - rpos : x[i] = buffer[rpos + i]
    <3>1. /\ SubSeq(buffer, rpos + 1, rlen) \in Seq(Byte)
          /\ Len(SubSeq(buffer, rpos + 1, rlen)) = rlen - rpos
          /\ \A i \in 1 .. rlen - rpos : SubSeq(buffer, rpos + 1, rlen)[i] = buffer[rpos + i]
      BY <2>1, Slice
    <3> QED  BY <3>1
  <2>5. PICK y \in Seq(Byte) :
          /\ y = SubSeq(file, a + 1, place) /\ Len(y) = place - a
          /\ \A i \in 1 .. place - a : y[i] = file[a + i]
    <3>1. /\ SubSeq(file, a + 1, place) \in Seq(Byte)
          /\ Len(SubSeq(file, a + 1, place)) = place - a
          /\ \A i \in 1 .. place - a : SubSeq(file, a + 1, place)[i] = file[a + i]
      <4>1. a <= place /\ place <= Len(file) /\ place \in Nat /\ file \in Seq(Byte)
        BY <2>1, <2>3
      <4> QED  BY <4>1, Slice
    <3> QED  BY <3>1
  <2>6. ASSUME NEW i \in 1 .. rlen - rpos  PROVE x[i] = y[i]
    BY <2>2, <2>3, <2>4, <2>5
  <2>7. x = y
    BY <2>3, <2>4, <2>5, <2>6, SeqEqual
  <2> QED  BY <2>2, <2>3, <2>4, <2>5, <2>7 DEF B!ReadAheadIsFresh, B!Ahead
<1>4. B!ClosedIsSaved
  BY DEF StreamInv, ClosedOK, B!ClosedIsSaved
<1>5. B!ReadStopsAtEnd
  <2> SUFFICES ASSUME op.at = "return", op.do = "read"
               PROVE  B!Pos = Len(B!Content) \/ Len(op.got) = op.want
    BY DEF B!ReadStopsAtEnd
  <2>1. wpos = 0 /\ flushed = 0 /\ (place - (rlen - rpos) = Len(file) \/ Len(op.got) = op.want)
    BY DEF StreamInv, ReadCallOK, DrainedOK
  <2>2. B!Content = file /\ B!Pos = place - (rlen - rpos) + (wpos - flushed)
    BY <2>1, ContentFacts DEF StreamInv, BufferOK
  <2>3. place - (rlen - rpos) + (wpos - flushed) = place - (rlen - rpos)
    BY <2>1, StreamNumbers DEF StreamInv
  <2> QED  BY <2>1, <2>2, <2>3
<1> QED  BY <1>1, <1>2, <1>3, <1>4, <1>5 DEF ClosedIsSaved, B!Sound

\* The buffer never shows what the file does not hold; after a Close that did not throw everything
\* written is in the file, and a read stops short only at the end.
THEOREM StreamIsSound == B!Spec => []ClosedIsSaved
BY StreamInvariance, StreamInvSuffices, PTL

\* A buffered stream is a sequence of bytes with a position: every step of a call is one of the
\* steps the promise allows, or none.
THEOREM StreamImplementsByteStream == B!Spec => ImplementsByteStream
<1>1. B!Init => B!Abstract!Init
  BY StreamInit
<1>2. StreamInv /\ [B!Next]_B!vars => [B!Abstract!Next]_B!Abstract!vars
  BY StreamStep DEF Promised
<1> QED
  BY <1>1, <1>2, StreamInvariance, PTL
     DEF B!Spec, ImplementsByteStream, B!ImplementsByteStream, B!Abstract!Spec

=============================================================================
