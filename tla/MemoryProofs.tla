---------------------------- MODULE MemoryProofs ----------------------------
(***************************************************************************)
(* What is kept in memory, proved for every value of the constants.        *)
(*                                                                         *)
(* The garbage collected heap keeps what can be reached.  Kept is what a   *)
(* sweep leaves: the invariant of a collection is that the marked objects  *)
(* lead only to marked ones, but for those that are still to be scanned,   *)
(* and that the sweep changes marks into membership.                       *)
(*                                                                         *)
(* The zones of Doom and Quake are a list of blocks that is tiled, ordered *)
(* and linked both ways; freeing a block and taking one keep it so, and    *)
(* with it goes what a search knows of the blocks that it has passed.      *)
(***************************************************************************)
EXTENDS MCMemory, SequenceTheorems, TLAPS

-----------------------------------------------------------------------------
(* The garbage collected heap (GcHeap).                                     *)

\* What the sweep has kept or will keep.
Kept == marked \cup (allocations \ rest)

\* The marks of a collection, by its phases.
Marks ==
  /\ call.at \notin {"mark", "sweep"} => marked = {}
  /\ call.at # "mark" => pending = {}
  /\ call.at # "sweep" => rest = {}
  /\ pending \subseteq marked
  /\ call.at = "sweep" => marked \subseteq rest

\* What is marked, or kept, is closed.
Closed ==
  /\ call.at = "mark" =>
       Roots \subseteq marked /\ \A o \in marked \ pending : RefersTo(o) \subseteq marked
  /\ call.at = "sweep" =>
       Roots \subseteq Kept /\ \A o \in Kept : RefersTo(o) \subseteq Kept

HeapInv == Sound /\ Marks /\ Closed /\ KeepsOnlyReachable

-----------------------------------------------------------------------------
(* Sequences of frames.                                                     *)

\* The frame of the method that runs is one of the frames.
LEMMA TopFrame ==
  ASSUME TypeOK
  PROVE  /\ Depth \in Nat \ {0} /\ frames[Depth] \in SUBSET Object
         /\ \A i \in 1 .. Depth : frames[i] \in SUBSET Object
<1>1. Depth \in Nat  BY LenProperties DEF TypeOK, Depth
<1>2. \A i \in 1 .. Depth : frames[i] \in SUBSET Object  BY ElementOfSeq DEF TypeOK, Depth
<1>3. Depth \in 1 .. Depth  BY <1>1 DEF TypeOK
<1>4. QED  BY <1>1, <1>2, <1>3 DEF TypeOK

\* The roots refer to what is there: the statics, the exception and every frame do.
LEMMA RootsThere ==
  ASSUME NoDangling, TypeOK
  PROVE  /\ \A s \in Static : statics[s] \in allocations \cup {None}
         /\ current \in allocations \cup {None}
         /\ \A i \in 1 .. Depth : frames[i] \subseteq allocations
  BY DEF NoDangling, Roots, TypeOK

\* Without the last exception frame, and with the frames that it unwinds to or all of them.
LEMMA FewerHandlers ==
  ASSUME Unwinds, handlers \in Seq(Nat), handlers # <<>>, Depth \in Nat, Depth' \in Nat,
         Depth' = Depth \/ Depth' = handlers[Len(handlers)],
         handlers' = SubSeq(handlers, 1, Len(handlers) - 1)
  PROVE  handlers' \in Seq(Nat) /\ Unwinds'
<1>1. /\ Len(handlers) \in Nat /\ Len(handlers) \in 1 .. Len(handlers)
      /\ \A i \in 1 .. Len(handlers) : handlers[i] \in Nat
  BY EmptySeq, LenProperties, ElementOfSeq
<1>2. /\ handlers' \in Seq(Nat) /\ Len(handlers') = Len(handlers) - 1
      /\ \A i \in 1 .. Len(handlers) - 1 : handlers'[i] = handlers[i]
  <2> DEFINE n == Len(handlers) - 1
  <2>1. n \in Nat /\ \A i \in 1 .. n : handlers[i] \in Nat  BY <1>1
  <2> HIDE DEF n
  <2>2. /\ SubSeq(handlers, 1, n) \in Seq(Nat)
        /\ Len(SubSeq(handlers, 1, n)) = IF 1 <= n THEN n - 1 + 1 ELSE 0
        /\ \A i \in 1 .. n - 1 + 1 : SubSeq(handlers, 1, n)[i] = handlers[1 + i - 1]
    BY <2>1, SubSeqProperties
  <2>3. /\ Len(SubSeq(handlers, 1, n)) = n
        /\ \A i \in 1 .. n : SubSeq(handlers, 1, n)[i] = handlers[i]
    BY <2>1, <2>2
  <2>4. QED  BY <2>2, <2>3 DEF n
<1>3. \A i \in 1 .. Len(handlers) :
        /\ handlers[i] \in 1 .. Depth
        /\ handlers[i] <= handlers[Len(handlers)]
        /\ \A j \in 1 .. i : handlers[j] <= handlers[i]
  BY <1>1 DEF Unwinds
<1>4. SUFFICES ASSUME NEW i \in 1 .. Len(handlers) - 1
               PROVE  handlers[i] \in 1 .. Depth' /\ \A j \in 1 .. i : handlers[j] <= handlers[i]
  <2>1. \A i \in 1 .. Len(handlers) - 1, j \in 1 .. Len(handlers) - 1 : j <= i =>
          handlers'[i] = handlers[i] /\ handlers'[j] = handlers[j]
    BY <1>2
  <2>2. \A i \in 1 .. Len(handlers) - 1 : 1 .. i \subseteq 1 .. Len(handlers) - 1
    BY <1>1
  <2>3. QED  BY <1>2, <2>1, <2>2 DEF Unwinds
<1>5. i \in 1 .. Len(handlers)  BY <1>1
<1>6. QED  BY <1>3, <1>5

\* The converse, after a step.
LEMMA RootsThereAfter ==
  ASSUME \A s \in Static : statics'[s] \in allocations' \cup {None},
         current' \in allocations' \cup {None},
         \A i \in 1 .. Depth' : frames'[i] \subseteq allocations'
  PROVE  Roots' \subseteq allocations'
  BY DEF Roots

-----------------------------------------------------------------------------
(* Between two calls of the heap.                                           *)

\* What a step of the code between two calls must keep.
LEMMA UserKeeps ==
  ASSUME HeapInv, UserStep, TypeOK', Unwinds',
         \A s \in Static : statics'[s] \in allocations \cup {None},
         current' \in allocations \cup {None},
         \A i \in 1 .. Depth' : frames'[i] \subseteq allocations,
         \A o \in allocations : RefersTo(o)' \subseteq allocations
  PROVE  HeapInv'
<1>1. call' = call /\ call.at = "idle" /\ allocations' = allocations
  BY DEF UserStep, InUser, Idle
<1>2. NoDangling'  BY <1>1, RootsThereAfter DEF NoDangling
<1>3. Marks'  BY <1>1 DEF HeapInv, Marks, UserStep, markVars, sweepVars
<1>4. Closed'  BY <1>1 DEF Closed
<1>5. KeepsOnlyReachable'  BY <1>1 DEF KeepsOnlyReachable
<1>6. QED  BY <1>2, <1>3, <1>4, <1>5 DEF HeapInv, Sound

\* A step that changes the frames alone.
LEMMA FramesKeep ==
  ASSUME HeapInv, UserStep, UNCHANGED <<refs, statics, current>>,
         frames' \in Seq(SUBSET Object), Depth' > 0,
         \A i \in 1 .. Depth' : frames'[i] \subseteq allocations,
         handlers' \in Seq(Nat), Unwinds'
  PROVE  HeapInv'
<1>1. TypeOK'
  BY DEF HeapInv, Sound, TypeOK, UserStep, markVars, sweepVars, countVars
<1>2. /\ \A s \in Static : statics'[s] \in allocations \cup {None}
      /\ current' \in allocations \cup {None}
  BY RootsThere DEF HeapInv, Sound
<1>3. call.at = "idle"  BY DEF UserStep, InUser, Idle
<1>4. \A o \in allocations : RefersTo(o)' \subseteq allocations
  BY <1>3 DEF HeapInv, Sound, NoDangling, RefersTo
<1>5. QED  BY <1>1, <1>2, <1>4, UserKeeps

\* A callee gets references of its caller.
LEMMA PushKeeps ==
  ASSUME HeapInv, Push
  PROVE  HeapInv'
<1>1. PICK arguments \in SUBSET frames[Depth] : frames' = Append(frames, arguments)  BY DEF Push
<1>2. TypeOK /\ frames \in Seq(SUBSET Object)  BY DEF HeapInv, Sound, TypeOK
<1>3. arguments \in SUBSET Object  BY <1>1, <1>2, TopFrame
<1>4. /\ frames' \in Seq(SUBSET Object) /\ Depth' = Depth + 1
      /\ \A i \in 1 .. Depth : frames'[i] = frames[i]
      /\ frames'[Depth + 1] = arguments
  BY <1>1, <1>2, <1>3, AppendProperties DEF Depth
<1>5. Depth \in Nat \ {0} /\ \A i \in 1 .. Depth : frames[i] \subseteq allocations
  BY <1>2, TopFrame, RootsThere DEF HeapInv, Sound
<1>6. ASSUME NEW i \in 1 .. Depth'
      PROVE  frames'[i] \subseteq allocations
  <2>1. i \in 1 .. Depth \/ i = Depth + 1  BY <1>4, <1>5
  <2>2. frames[Depth] \subseteq allocations  BY <1>5
  <2>3. QED  BY <1>1, <1>4, <1>5, <2>1, <2>2
<1>7. Unwinds'  BY <1>4, <1>5 DEF HeapInv, Sound, Unwinds, Push
<1>8. UserStep /\ UNCHANGED <<refs, statics, current>> /\ handlers' \in Seq(Nat)
  BY DEF Push, HeapInv, Sound, TypeOK
<1>9. QED  BY <1>4, <1>5, <1>6, <1>7, <1>8, FramesKeep


\* The frame of the method that runs has other references, to what is there.
LEMMA TopChanges ==
  ASSUME HeapInv, UserStep, UNCHANGED <<refs, statics, current, handlers>>,
         NEW S \in SUBSET allocations,
         frames' = [frames EXCEPT ![Depth] = S]
  PROVE  HeapInv'
<1>1. TypeOK /\ frames \in Seq(SUBSET Object)  BY DEF HeapInv, Sound, TypeOK
<1>2. Depth \in Nat \ {0} /\ \A i \in 1 .. Depth : frames[i] \subseteq allocations
  BY <1>1, TopFrame, RootsThere DEF HeapInv, Sound
<1>3. S \in SUBSET Object  BY <1>1 DEF TypeOK
<1>4. /\ frames' \in Seq(SUBSET Object) /\ Depth' = Depth
      /\ \A i \in 1 .. Depth : frames'[i] = IF i = Depth THEN S ELSE frames[i]
  BY <1>1, <1>2, <1>3, ExceptSeq DEF Depth
<1>5. \A i \in 1 .. Depth' : frames'[i] \subseteq allocations  BY <1>2, <1>4
<1>6. Unwinds'  BY <1>4 DEF HeapInv, Sound, Unwinds
<1>7. handlers' \in Seq(Nat)  BY <1>1 DEF TypeOK
<1>8. QED  BY <1>2, <1>4, <1>5, <1>6, <1>7, FramesKeep

\* What a field, a static or the exception refers to is there.
LEMMA ReadKeeps ==
  ASSUME HeapInv, Read
  PROVE  HeapInv'
<1>1. PICK o \in (UNION {RefersTo(x) : x \in frames[Depth]})
                   \cup (({statics[s] : s \in Static} \cup {current}) \ {None}) :
        frames' = [frames EXCEPT ![Depth] = @ \cup {o}]
  BY DEF Read
<1>2. TypeOK /\ NoDangling /\ call.at = "idle"
  BY DEF HeapInv, Sound, Read, UserStep, InUser, Idle
<1>3. frames[Depth] \subseteq allocations /\ Roots \subseteq allocations
  BY <1>2, TopFrame, RootsThere DEF NoDangling
<1>4. o \in allocations
  <2>1. CASE o \in (UNION {RefersTo(x) : x \in frames[Depth]})
    BY <2>1, <1>2, <1>3 DEF NoDangling
  <2>2. CASE o \in ({statics[s] : s \in Static} \cup {current}) \ {None}
    BY <2>2, <1>3 DEF Roots
  <2>3. QED  BY <2>1, <2>2, Zenon
<1>5. frames' = [frames EXCEPT ![Depth] = frames[Depth] \cup {o}]
  BY <1>1, <1>2 DEF TypeOK
<1>6. UserStep /\ UNCHANGED <<refs, statics, current, handlers>>  BY DEF Read
<1>7. frames[Depth] \cup {o} \in SUBSET allocations  BY <1>3, <1>4
<1>8. QED  BY <1>5, <1>6, <1>7, TopChanges

\* A local is overwritten.
LEMMA ForgetKeeps ==
  ASSUME HeapInv, Forget
  PROVE  HeapInv'
<1>1. PICK o \in frames[Depth] : frames' = [frames EXCEPT ![Depth] = @ \ {o}]  BY DEF Forget
<1>2. TypeOK /\ NoDangling  BY DEF HeapInv, Sound
<1>3. frames[Depth] \ {o} \subseteq allocations  BY <1>2, TopFrame, RootsThere
<1>4. frames' = [frames EXCEPT ![Depth] = frames[Depth] \ {o}]  BY <1>1, <1>2 DEF TypeOK
<1>5. QED  BY <1>3, <1>4, TopChanges DEF Forget

\* The frames above some are taken off, those of exceptions with them.
LEMMA CutKeeps ==
  ASSUME HeapInv, UserStep, UNCHANGED <<refs, statics>>, current' \in allocations \cup {None},
         NEW n \in 1 .. Depth, frames' = SubSeq(frames, 1, n),
         handlers' \in Seq(Nat), Unwinds'
  PROVE  HeapInv'
<1>1. TypeOK /\ NoDangling /\ frames \in Seq(SUBSET Object)  BY DEF HeapInv, Sound, TypeOK
<1>2. Depth \in Nat \ {0} /\ \A i \in 1 .. Depth : frames[i] \in SUBSET Object /\ frames[i] \subseteq allocations
  BY <1>1, TopFrame, RootsThere
<1>3. /\ frames' \in Seq(SUBSET Object) /\ Depth' = n
      /\ \A i \in 1 .. n : frames'[i] = frames[i]
  BY <1>1, <1>2, SubSeqProperties DEF Depth
<1>4. TypeOK'
  BY <1>1, <1>3 DEF TypeOK, UserStep, markVars, sweepVars, countVars
<1>5. \A s \in Static : statics'[s] \in allocations \cup {None}  BY <1>1, RootsThere
<1>6. ASSUME NEW i \in 1 .. Depth'
      PROVE  frames'[i] \subseteq allocations
  <2>1. i \in 1 .. n /\ i \in 1 .. Depth  BY <1>2, <1>3
  <2>2. QED  BY <1>2, <1>3, <2>1
<1>7. \A o \in allocations : RefersTo(o)' \subseteq allocations
  BY <1>1 DEF NoDangling, RefersTo, UserStep, InUser, Idle
<1>8. QED  BY <1>4, <1>5, <1>6, <1>7, UserKeeps


\* The caller gets a reference of its callee.
LEMMA PopKeeps ==
  ASSUME HeapInv, Pop
  PROVE  HeapInv'
<1>1. PICK S \in SUBSET frames[Depth] :
        frames' = [SubSeq(frames, 1, Depth - 1) EXCEPT ![Depth - 1] = @ \cup S]
  BY DEF Pop
<1>2. /\ UserStep /\ UNCHANGED <<refs, statics, current, handlers>>
      /\ Depth > 1 /\ ~HandledHere
  BY DEF Pop
<1>3. TypeOK /\ NoDangling /\ Unwinds /\ frames \in Seq(SUBSET Object) /\ handlers \in Seq(Nat)
  BY DEF HeapInv, Sound, TypeOK
<1>4. /\ Depth \in Nat \ {0}
      /\ \A i \in 1 .. Depth : frames[i] \in SUBSET Object
      /\ \A i \in 1 .. Depth : frames[i] \subseteq allocations
  BY <1>3, TopFrame, RootsThere
<1> DEFINE rest0 == SubSeq(frames, 1, Depth - 1)
<1>5. /\ rest0 \in Seq(SUBSET Object) /\ Len(rest0) = Depth - 1
      /\ \A i \in 1 .. Depth - 1 : rest0[i] = frames[i]
  BY <1>2, <1>3, <1>4, SubSeqProperties DEF Depth
<1>6. Depth - 1 \in 1 .. Depth - 1 /\ Depth - 1 \in 1 .. Depth  BY <1>2, <1>4
<1>7. rest0[Depth - 1] \cup S \in SUBSET Object
  BY <1>3, <1>4, <1>5, <1>6
<1>8. frames' = [rest0 EXCEPT ![Depth - 1] = rest0[Depth - 1] \cup S]  BY <1>1
<1> HIDE DEF rest0
<1>9. /\ frames' \in Seq(SUBSET Object) /\ Depth' = Depth - 1
      /\ \A i \in 1 .. Depth - 1 :
           frames'[i] = IF i = Depth - 1 THEN rest0[Depth - 1] \cup S ELSE rest0[i]
  BY <1>5, <1>6, <1>7, <1>8, ExceptSeq DEF Depth
<1>10. ASSUME NEW i \in 1 .. Depth'
       PROVE  frames'[i] \subseteq allocations
  <2>1. i \in 1 .. Depth - 1 /\ i \in 1 .. Depth  BY <1>4, <1>9
  <2>2. frames[i] \subseteq allocations /\ frames[Depth] \subseteq allocations  BY <1>4, <2>1
  <2>3. rest0[i] = frames[i]  BY <1>5, <2>1
  <2>4. frames'[i] \in {rest0[i] \cup S, rest0[i]}  BY <1>9, <2>1
  <2>5. S \subseteq allocations  BY <1>1, <2>2
  <2>6. QED  BY <2>2, <2>3, <2>4, <2>5
<1>11. Unwinds'
  <2>1. ASSUME NEW i \in 1 .. Len(handlers)
        PROVE  handlers[i] \in 1 .. Depth - 1
    <3>1. Len(handlers) \in Nat /\ \A j \in 1 .. Len(handlers) : handlers[j] \in 1 .. Depth
      BY <1>3, LenProperties DEF Unwinds
    <3>2. handlers[i] <= handlers[Len(handlers)]
      BY <1>3, <3>1 DEF Unwinds
    <3>3. handlers # <<>> /\ Len(handlers) \in 1 .. Len(handlers)  BY <1>3, <3>1, EmptySeq
    <3>4. handlers[Len(handlers)] # Depth  BY <1>2, <3>3 DEF HandledHere
    <3>5. QED  BY <1>4, <3>1, <3>2, <3>3, <3>4
  <2>2. QED  BY <1>2, <1>3, <1>9, <2>1 DEF Unwinds
<1>12. Depth' > 0  BY <1>2, <1>4, <1>9
<1>13. QED  BY <1>2, <1>3, <1>9, <1>10, <1>11, <1>12, FramesKeep

\* The newest exception frame unwinds to the newest frame.
LEMMA PushHandlerKeeps ==
  ASSUME HeapInv, PushHandler
  PROVE  HeapInv'
<1>1. TypeOK /\ NoDangling /\ Unwinds /\ frames \in Seq(SUBSET Object) /\ handlers \in Seq(Nat)
  BY DEF HeapInv, Sound, TypeOK
<1>2. /\ UserStep /\ UNCHANGED <<refs, statics, current, frames>>
      /\ handlers' = Append(handlers, Depth)
  BY DEF PushHandler
<1>3. Depth \in Nat \ {0} /\ \A i \in 1 .. Depth : frames[i] \subseteq allocations
  BY <1>1, TopFrame, RootsThere
<1>4. Len(handlers) \in Nat  BY <1>1, LenProperties
<1>5. /\ handlers' \in Seq(Nat) /\ Len(handlers') = Len(handlers) + 1
      /\ \A i \in 1 .. Len(handlers) : handlers'[i] = handlers[i]
      /\ handlers'[Len(handlers) + 1] = Depth
  BY <1>1, <1>2, <1>3, AppendProperties
<1>6. Unwinds'
  <2>1. Depth' = Depth  BY <1>2 DEF Depth
  <2>2. \A j \in 1 .. Len(handlers) : handlers[j] \in 1 .. Depth  BY <1>1 DEF Unwinds
  <2>3. SUFFICES ASSUME NEW i \in 1 .. Len(handlers) + 1, NEW j \in 1 .. i
                 PROVE  handlers'[i] \in 1 .. Depth /\ handlers'[j] <= handlers'[i]
    BY <1>4, <1>5, <2>1 DEF Unwinds
  <2>4. CASE i \in 1 .. Len(handlers)
    <3>1. j \in 1 .. Len(handlers)  BY <2>4, <1>4
    <3>2. QED  BY <1>1, <1>5, <2>4, <3>1 DEF Unwinds
  <2>5. CASE i = Len(handlers) + 1
    <3>1. j \in 1 .. Len(handlers) \/ j = i  BY <2>5, <1>4
    <3>2. QED  BY <1>3, <1>5, <2>2, <2>5, <3>1
  <2>6. QED  BY <1>4, <2>4, <2>5
<1>7. Depth' > 0 /\ \A i \in 1 .. Depth' : frames'[i] \subseteq allocations
  BY <1>2, <1>3 DEF Depth
<1>8. QED  BY <1>1, <1>2, <1>5, <1>6, <1>7, FramesKeep


\* A try is left without an exception.
LEMMA PopHandlerKeeps ==
  ASSUME HeapInv, PopHandler
  PROVE  HeapInv'
<1>1. TypeOK /\ NoDangling /\ Unwinds /\ frames \in Seq(SUBSET Object) /\ handlers \in Seq(Nat)
  BY DEF HeapInv, Sound, TypeOK
<1>2. /\ UserStep /\ UNCHANGED <<refs, statics, current, frames>>
      /\ handlers # <<>> /\ handlers' = SubSeq(handlers, 1, Len(handlers) - 1)
  BY DEF PopHandler, HandledHere
<1>3. Depth \in Nat \ {0} /\ \A i \in 1 .. Depth : frames[i] \subseteq allocations
  BY <1>1, TopFrame, RootsThere
<1>4. handlers' \in Seq(Nat) /\ Unwinds'  BY <1>1, <1>2, <1>3, FewerHandlers DEF Depth
<1>5. Depth' > 0 /\ \A i \in 1 .. Depth' : frames'[i] \subseteq allocations
  BY <1>2, <1>3 DEF Depth
<1>6. QED  BY <1>1, <1>2, <1>4, <1>5, FramesKeep

\* The exception was a root of the frames that are unwound.
LEMMA ThrowKeeps ==
  ASSUME HeapInv, Throw
  PROVE  HeapInv'
<1>1. TypeOK /\ NoDangling /\ Unwinds /\ frames \in Seq(SUBSET Object) /\ handlers \in Seq(Nat)
  BY DEF HeapInv, Sound, TypeOK
<1>2. /\ UserStep /\ UNCHANGED <<refs, statics>>
      /\ handlers # <<>> /\ handlers' = SubSeq(handlers, 1, Len(handlers) - 1)
      /\ frames' = SubSeq(frames, 1, handlers[Len(handlers)])
  BY DEF Throw
<1>3. Depth \in Nat \ {0} /\ frames[Depth] \subseteq allocations
  BY <1>1, TopFrame, RootsThere
<1>4. current' \in allocations \cup {None}  BY <1>3 DEF Throw
<1>5. Len(handlers) \in 1 .. Len(handlers)  BY <1>1, <1>2, EmptySeq, LenProperties
<1>6. handlers[Len(handlers)] \in 1 .. Depth  BY <1>1, <1>5 DEF Unwinds
<1>7. Depth' = handlers[Len(handlers)]
  BY <1>1, <1>2, <1>3, <1>6, SubSeqProperties DEF Depth
<1>8. handlers' \in Seq(Nat) /\ Unwinds'
  BY <1>1, <1>2, <1>3, <1>5, <1>7, FewerHandlers
<1>9. QED  BY <1>2, <1>4, <1>6, <1>8, CutKeeps

\* What is written is in a frame.
LEMMA WriteFieldKeeps ==
  ASSUME HeapInv, WriteField
  PROVE  HeapInv'
<1>1. TypeOK /\ NoDangling /\ Unwinds /\ call.at = "idle"
  BY DEF HeapInv, Sound, WriteField, UserStep, InUser, Idle
<1>2. PICK o \in frames[Depth], f \in Field, value \in frames[Depth] \cup {None} :
        refs' = [refs EXCEPT ![o][f] = value]
  BY DEF WriteField
<1>3. UserStep /\ UNCHANGED <<statics, current, frames, handlers>>  BY DEF WriteField
<1>4. frames[Depth] \subseteq allocations /\ \A i \in 1 .. Depth : frames[i] \subseteq allocations
  BY <1>1, TopFrame, RootsThere
<1>5. o \in Object /\ value \in Object \cup {None}  BY <1>1, <1>2, <1>4 DEF TypeOK
<1>6. refs' = [refs EXCEPT ![o] = [refs[o] EXCEPT ![f] = value]]  BY <1>1, <1>2, <1>5 DEF TypeOK
<1>7. refs' \in [Object -> [Field -> Object \cup {None}]]  BY <1>1, <1>5, <1>6 DEF TypeOK
<1>8. TypeOK'
  BY <1>1, <1>3, <1>7 DEF TypeOK, UserStep, markVars, sweepVars, countVars, Depth
<1>9. Unwinds'  BY <1>1, <1>3 DEF Unwinds, Depth
<1>10. ASSUME NEW x \in allocations
       PROVE  RefersTo(x)' \subseteq allocations
  <2>1. x \in Object /\ RefersTo(x) \subseteq allocations  BY <1>1 DEF TypeOK, NoDangling
  <2>2. \A g \in Field : refs'[x][g] \in {refs[x][g], value}  BY <1>1, <1>6, <2>1 DEF TypeOK
  <2>3. value \in allocations \cup {None}  BY <1>2, <1>4
  <2>4. QED  BY <2>1, <2>2, <2>3 DEF RefersTo
<1>11. /\ \A s \in Static : statics'[s] \in allocations \cup {None}
       /\ current' \in allocations \cup {None}
  BY <1>1, <1>3, RootsThere
<1>12. \A i \in 1 .. Depth' : frames'[i] \subseteq allocations  BY <1>3, <1>4 DEF Depth
<1>13. QED  BY <1>3, <1>8, <1>9, <1>10, <1>11, <1>12, UserKeeps

\* So it is for a static.
LEMMA WriteStaticKeeps ==
  ASSUME HeapInv, WriteStatic
  PROVE  HeapInv'
<1>1. TypeOK /\ NoDangling /\ Unwinds /\ call.at = "idle"
  BY DEF HeapInv, Sound, WriteStatic, UserStep, InUser, Idle
<1>2. PICK s \in Static, value \in frames[Depth] \cup {None} :
        statics' = [statics EXCEPT ![s] = value]
  BY DEF WriteStatic
<1>3. UserStep /\ UNCHANGED <<refs, current, frames, handlers>>  BY DEF WriteStatic
<1>4. frames[Depth] \subseteq allocations /\ \A i \in 1 .. Depth : frames[i] \subseteq allocations
  BY <1>1, TopFrame, RootsThere
<1>5. value \in allocations \cup {None} /\ value \in Object \cup {None}
  BY <1>1, <1>2, <1>4 DEF TypeOK
<1>6. statics' \in [Static -> Object \cup {None}]  BY <1>1, <1>2, <1>5 DEF TypeOK
<1>7. TypeOK'
  BY <1>1, <1>3, <1>6 DEF TypeOK, UserStep, markVars, sweepVars, countVars, Depth
<1>8. Unwinds'  BY <1>1, <1>3 DEF Unwinds, Depth
<1>9. /\ \A t \in Static : statics'[t] \in allocations \cup {None}
      /\ current' \in allocations \cup {None}
  BY <1>1, <1>2, <1>3, <1>5, RootsThere DEF TypeOK
<1>10. \A o \in allocations : RefersTo(o)' \subseteq allocations
  BY <1>1, <1>3 DEF NoDangling, RefersTo
<1>11. \A i \in 1 .. Depth' : frames'[i] \subseteq allocations  BY <1>3, <1>4 DEF Depth
<1>12. QED  BY <1>3, <1>7, <1>8, <1>9, <1>10, <1>11, UserKeeps


-----------------------------------------------------------------------------
(* Inside a call of the heap.                                               *)

\* A step of the heap that leaves the program's references alone: where a set that is closed
\* leads to is the same.
LEMMA SameReach ==
  ASSUME UNCHANGED userVars
  PROVE  /\ Roots' = Roots /\ \A o : RefersTo(o)' = RefersTo(o)
         /\ \A S : Reaches(S)' = Reaches(S)
         /\ Depth' = Depth /\ Unwinds' = Unwinds
<1>1. Depth' = Depth  BY DEF userVars, Depth
<1>2. Roots' = Roots  BY <1>1 DEF userVars, Roots
<1>3. \A o : RefersTo(o)' = RefersTo(o)  BY DEF userVars, RefersTo
<1>4. \A S : Reaches(S)' = Reaches(S)  BY <1>2, <1>3 DEF Reaches
<1>5. Unwinds' = Unwinds  BY <1>1 DEF userVars, Unwinds
<1>6. QED  BY <1>1, <1>2, <1>3, <1>4, <1>5

\* Nothing is marked when a collection or an allocation begins.
LEMMA BeginsKeeps ==
  ASSUME HeapAssumption, HeapInv, Collect \/ \E o \in Object : Allocate(Size[o])
  PROVE  HeapInv'
<1>1. /\ call.at = "idle" /\ UNCHANGED <<allocations, userVars, markVars, sweepVars, countVars>>
      /\ call' \in [at : {"roots", "allocate"}, size : Nat]
  BY DEF Collect, Allocate, InUser, Idle, HeapAssumption
<1>2. UNCHANGED userVars  BY <1>1
<1>3. TypeOK'
  BY <1>1 DEF HeapInv, Sound, TypeOK, userVars, markVars, sweepVars, countVars, Depth
<1>4. Unwinds' /\ NoDangling'  BY <1>1, <1>2, SameReach DEF HeapInv, Sound, NoDangling
<1>5. Marks' /\ marked' = {}  BY <1>1 DEF HeapInv, Marks, markVars, sweepVars
<1>6. call'.at \in {"roots", "allocate"}  BY <1>1
<1>7. Closed'  BY <1>6 DEF Closed
<1>8. KeepsOnlyReachable'  BY <1>5, <1>6 DEF KeepsOnlyReachable
<1>9. QED  BY <1>3, <1>4, <1>5, <1>7, <1>8 DEF HeapInv, Sound

\* All marked objects are still to be scanned.
LEMMA MarkRootsKeeps ==
  ASSUME HeapInv, MarkRoots
  PROVE  HeapInv'
<1>1. /\ call.at = "roots" /\ call'.at = "mark"
      /\ UNCHANGED <<allocations, userVars, sweepVars, countVars>>
      /\ call' \in [at : {"mark"}, size : Nat]
  BY DEF MarkRoots, Goto, HeapInv, Sound, TypeOK
<1>2. UNCHANGED userVars /\ allocations' = allocations /\ rest' = rest
  BY <1>1 DEF sweepVars
<1>3. marked' = Roots /\ pending' = Roots /\ Roots \subseteq allocations
  BY <1>1 DEF MarkRoots, MarkObject, HeapInv, Sound, NoDangling, Marks
<1>4. TypeOK'
  BY <1>1, <1>3 DEF HeapInv, Sound, TypeOK, userVars, sweepVars, countVars, Depth
<1>5. Unwinds' /\ NoDangling'
  BY <1>1, <1>2, SameReach DEF HeapInv, Sound, NoDangling
<1>6. Marks'  BY <1>1, <1>2, <1>3 DEF HeapInv, Marks
<1>7. Closed'  BY <1>1, <1>2, <1>3, SameReach DEF Closed
<1>8. KeepsOnlyReachable'
  BY <1>1, <1>2, <1>3, SameReach DEF KeepsOnlyReachable, Reaches
<1>9. QED  BY <1>4, <1>5, <1>6, <1>7, <1>8 DEF HeapInv, Sound

\* One object less is to be scanned, and what it refers to is marked.
LEMMA ScanObjectKeeps ==
  ASSUME HeapInv, ScanObject
  PROVE  HeapInv'
<1>1. PICK o \in pending :
        /\ marked' = marked \cup ((RefersTo(o) \cap allocations) \ marked)
        /\ pending' = (pending \ {o}) \cup ((RefersTo(o) \cap allocations) \ marked)
  BY DEF ScanObject
<1>2. call.at = "mark" /\ UNCHANGED <<allocations, userVars, sweepVars, countVars, call>>
  BY DEF ScanObject
<1>3. UNCHANGED userVars /\ allocations' = allocations /\ rest' = rest /\ call' = call
  BY <1>2 DEF sweepVars
<1>4. /\ TypeOK /\ Unwinds /\ NoDangling /\ Marks /\ Closed /\ KeepsOnlyReachable
      /\ o \in marked /\ o \in allocations /\ RefersTo(o) \subseteq allocations
  BY <1>1, <1>2 DEF HeapInv, Sound, Marks, TypeOK, NoDangling
<1>5. marked' = marked \cup RefersTo(o)  BY <1>1, <1>4
<1>6. TypeOK'
  BY <1>1, <1>2, <1>4 DEF TypeOK, userVars, sweepVars, countVars, Depth
<1>7. Unwinds' /\ NoDangling'  BY <1>2, <1>3, <1>4, SameReach DEF NoDangling
<1>8. Marks'  BY <1>1, <1>2, <1>3, <1>4 DEF Marks
<1>9. Closed'
  <2>1. Roots' \subseteq marked'  BY <1>2, <1>3, <1>4, <1>5, SameReach DEF Closed
  <2>2. ASSUME NEW x \in marked' \ pending'
        PROVE  RefersTo(x)' \subseteq marked'
    <3>1. x = o \/ x \in marked \ pending  BY <1>1, <2>2
    <3>2. RefersTo(x)' = RefersTo(x)  BY <1>3, SameReach
    <3>3. QED  BY <1>2, <1>4, <1>5, <3>1, <3>2 DEF Closed
  <2>3. QED  BY <1>2, <1>3, <2>1, <2>2 DEF Closed
<1>10. KeepsOnlyReachable'
  <2>1. SUFFICES ASSUME NEW S \in SUBSET Object, Reaches(S)
                 PROVE  marked' \subseteq S
    BY <1>2, <1>3, SameReach DEF KeepsOnlyReachable
  <2>2. marked \subseteq S  BY <1>2, <1>4, <2>1 DEF KeepsOnlyReachable
  <2>3. QED  BY <1>4, <1>5, <2>1, <2>2 DEF Reaches
<1>11. QED  BY <1>6, <1>7, <1>8, <1>9, <1>10 DEF HeapInv, Sound

\* The marks are closed, and all there is will be swept.
LEMMA StartSweepKeeps ==
  ASSUME HeapInv, StartSweep
  PROVE  HeapInv'
<1>1. /\ call.at = "mark" /\ call'.at = "sweep" /\ pending = {} /\ rest' = allocations
      /\ UNCHANGED <<allocations, userVars, markVars, liveBytes, countVars>>
      /\ call' \in [at : {"sweep"}, size : Nat]
  BY DEF StartSweep, Goto, HeapInv, Sound, TypeOK
<1>2. /\ UNCHANGED userVars /\ allocations' = allocations /\ marked' = marked /\ pending' = {}
      /\ Kept' = marked
  BY <1>1 DEF markVars, Kept
<1>3. TypeOK /\ Unwinds /\ NoDangling /\ Marks /\ Closed /\ KeepsOnlyReachable
  BY DEF HeapInv, Sound
<1>4. TypeOK'  BY <1>1, <1>3 DEF TypeOK, userVars, markVars, countVars, Depth
<1>5. Unwinds' /\ NoDangling'  BY <1>1, <1>2, <1>3, SameReach DEF NoDangling
<1>6. Marks'  BY <1>1, <1>2, <1>3 DEF Marks, TypeOK
<1>7. Closed'  BY <1>1, <1>2, <1>3, SameReach DEF Closed
<1>8. KeepsOnlyReachable'  BY <1>1, <1>2, <1>3, SameReach DEF KeepsOnlyReachable
<1>9. QED  BY <1>4, <1>5, <1>6, <1>7, <1>8 DEF HeapInv, Sound

\* An object is kept or freed, and what is kept does not change.
LEMMA SweepKeeps ==
  ASSUME HeapAssumption, HeapInv, Sweep
  PROVE  HeapInv'
<1>1. PICK o \in rest :
        /\ rest' = rest \ {o} /\ marked' = marked \ {o}
        /\ IF o \in marked
             THEN liveBytes' = liveBytes + Size[o] /\ UNCHANGED allocations
             ELSE allocations' = allocations \ {o} /\ UNCHANGED liveBytes
  BY DEF Sweep
<1>2. call.at = "sweep" /\ UNCHANGED <<userVars, pending, countVars, call>>  BY DEF Sweep
<1>3. UNCHANGED userVars /\ pending' = pending /\ call' = call  BY <1>2
<1>4. /\ TypeOK /\ Unwinds /\ NoDangling /\ Marks /\ Closed /\ KeepsOnlyReachable
      /\ o \in allocations /\ o \in Object /\ marked \subseteq rest /\ pending = {}
  BY <1>1, <1>2 DEF HeapInv, Sound, Marks, TypeOK
<1>5. Kept' = Kept /\ Kept \subseteq allocations'  BY <1>1, <1>4 DEF Kept, TypeOK
<1>6. Roots \subseteq Kept /\ \A x \in Kept : RefersTo(x) \subseteq Kept  BY <1>2, <1>4 DEF Closed
<1>7. TypeOK'
  <2>1. liveBytes' \in Nat  BY <1>1, <1>4 DEF TypeOK, HeapAssumption
  <2>2. allocations' \subseteq allocations /\ marked' \subseteq allocations' /\ rest' \subseteq allocations'
    BY <1>1, <1>4 DEF TypeOK
  <2>3. QED  BY <1>2, <1>3, <1>4, <2>1, <2>2 DEF TypeOK, userVars, countVars, Depth
<1>8. Unwinds' /\ NoDangling'  BY <1>2, <1>3, <1>4, <1>5, <1>6, SameReach DEF NoDangling
<1>9. Marks'  BY <1>1, <1>2, <1>3, <1>4 DEF Marks
<1>10. Closed'  BY <1>2, <1>3, <1>5, <1>6, SameReach DEF Closed
<1>11. KeepsOnlyReachable'
  <2>1. SUFFICES ASSUME NEW S \in SUBSET Object, Reaches(S)
                 PROVE  Kept' \subseteq S
    BY <1>2, <1>3, SameReach DEF KeepsOnlyReachable, Kept
  <2>2. QED  BY <1>2, <1>4, <1>5, <2>1 DEF KeepsOnlyReachable, Kept
<1>12. QED  BY <1>7, <1>8, <1>9, <1>10, <1>11 DEF HeapInv, Sound

\* All that is left was kept, and leads to what was kept.
LEMMA CollectedKeeps ==
  ASSUME HeapInv, Collected
  PROVE  HeapInv'
<1>1. /\ call.at = "sweep" /\ rest = {} /\ liveBytes' = 0
      /\ allocatedBytes' = liveBytes
      /\ collectionThreshold' = IF liveBytes > collectionThreshold THEN liveBytes * 2 ELSE collectionThreshold
      /\ call' = IF call.size = 0 THEN Idle ELSE [call EXCEPT !.at = "allocate"]
      /\ UNCHANGED <<allocations, userVars, markVars, rest>>
  BY DEF Collected
<1>2. /\ UNCHANGED userVars /\ allocations' = allocations /\ marked' = marked /\ pending' = pending
      /\ rest' = rest
  BY <1>1 DEF markVars
<1>3. /\ TypeOK /\ Unwinds /\ NoDangling /\ Marks /\ Closed
      /\ marked = {} /\ pending = {} /\ Kept = allocations
  BY <1>1 DEF HeapInv, Sound, Marks, Kept
<1>4. call' \in [at : {"idle", "allocate"}, size : Nat]  BY <1>1, <1>3 DEF TypeOK, Idle
<1>5. liveBytes * 2 \in Nat  BY <1>3 DEF TypeOK
<1>6. TypeOK'  BY <1>1, <1>2, <1>3, <1>4, <1>5 DEF TypeOK, userVars, Depth
<1>7. call'.at \in {"idle", "allocate"}  BY <1>4
<1>8. Unwinds' /\ NoDangling'
  BY <1>1, <1>2, <1>3, SameReach DEF NoDangling, Closed
<1>9. Marks'  BY <1>1, <1>2, <1>3, <1>7 DEF Marks
<1>10. Closed' /\ KeepsOnlyReachable'  BY <1>7 DEF Closed, KeepsOnlyReachable
<1>11. QED  BY <1>6, <1>8, <1>9, <1>10 DEF HeapInv, Sound

\* A new object refers to nothing.
LEMMA AllocatedKeeps ==
  ASSUME HeapAssumption, HeapInv, Allocated
  PROVE  HeapInv'
<1>1. /\ call.at = "allocate"
      /\ UNCHANGED <<statics, current, handlers, markVars, sweepVars, collectionThreshold>>
  BY DEF Allocated
<1>2. /\ TypeOK /\ Unwinds /\ NoDangling /\ Marks /\ frames \in Seq(SUBSET Object)
      /\ marked = {} /\ pending = {} /\ rest = {} /\ Roots \subseteq allocations
  BY <1>1 DEF HeapInv, Sound, Marks, TypeOK, NoDangling
<1>3. Marks' /\ Closed' /\ KeepsOnlyReachable'
  <2>1. call'.at \in {"idle", "aborted"}  BY <1>2 DEF Allocated, Goto, Idle, TypeOK
  <2>2. marked' = {} /\ pending' = {} /\ rest' = {}  BY <1>1, <1>2 DEF markVars, sweepVars
  <2>3. QED  BY <2>1, <2>2 DEF Marks, Closed, KeepsOnlyReachable
<1>4. CASE UNCHANGED <<allocations, refs, frames, allocatedBytes>> /\ Goto("aborted")
  <2>1. UNCHANGED userVars /\ allocations' = allocations  BY <1>1, <1>4 DEF userVars
  <2>2. call' \in [at : {"aborted"}, size : Nat]  BY <1>2, <1>4 DEF Goto, TypeOK
  <2>3. TypeOK'  BY <1>1, <1>2, <1>4, <2>2 DEF TypeOK, markVars, sweepVars, Depth
  <2>4. Unwinds' /\ NoDangling'  BY <1>1, <1>2, <2>1, SameReach DEF NoDangling
  <2>5. QED  BY <1>3, <2>3, <2>4 DEF HeapInv, Sound, KeepsOnlyReachable
<1>5. ASSUME NEW o \in Object \ allocations,
             allocations' = allocations \cup {o},
             refs' = [refs EXCEPT ![o] = [f \in Field |-> None]],
             frames' = [frames EXCEPT ![Depth] = @ \cup {o}],
             allocatedBytes' = allocatedBytes + Size[o],
             call' = Idle
      PROVE  HeapInv'
  <2>1. /\ Depth \in Nat \ {0} /\ frames[Depth] \in SUBSET Object
        /\ \A i \in 1 .. Depth : frames[i] \subseteq allocations
    BY <1>2, TopFrame, RootsThere
  <2>2. frames' = [frames EXCEPT ![Depth] = frames[Depth] \cup {o}]  BY <1>5
  <2>3. /\ frames' \in Seq(SUBSET Object) /\ Depth' = Depth
        /\ \A i \in 1 .. Depth : frames'[i] = IF i = Depth THEN frames[Depth] \cup {o} ELSE frames[i]
    BY <1>2, <1>5, <2>1, <2>2, ExceptSeq DEF Depth
  <2>4. refs' \in [Object -> [Field -> Object \cup {None}]]  BY <1>2, <1>5 DEF TypeOK
  <2>5. allocatedBytes' \in Nat  BY <1>2, <1>5 DEF TypeOK, HeapAssumption
  <2>6. call' \in [at : {"idle"}, size : Nat]  BY <1>5 DEF Idle
  <2>7. TypeOK'
    BY <1>1, <1>2, <1>5, <2>1, <2>3, <2>4, <2>5, <2>6 DEF TypeOK, markVars, sweepVars
  <2>8. Unwinds'  BY <1>1, <1>2, <2>3 DEF Unwinds
  <2>9. \A i \in 1 .. Depth' : frames'[i] \subseteq allocations'  BY <1>5, <2>1, <2>3
  <2>10. Roots' \subseteq allocations'
    BY <1>1, <1>2, <1>5, <2>9, RootsThere, RootsThereAfter
  <2>11. ASSUME NEW x \in allocations'
         PROVE  RefersTo(x)' \subseteq allocations'
    <3>1. CASE x = o
      <4>1. \A f \in Field : refs'[o][f] = None  BY <1>2, <1>5 DEF TypeOK
      <4>2. QED  BY <3>1, <4>1 DEF RefersTo
    <3>2. CASE x # o
      <4>1. x \in allocations /\ x \in Object /\ RefersTo(x) \subseteq allocations
        BY <1>1, <1>2, <1>5, <3>2 DEF TypeOK, NoDangling
      <4>2. refs'[x] = refs[x]  BY <1>2, <1>5, <3>2, <4>1 DEF TypeOK
      <4>3. QED  BY <1>5, <4>1, <4>2 DEF RefersTo
    <3>3. QED  BY <3>1, <3>2
  <2>12. NoDangling'  BY <2>10, <2>11 DEF NoDangling
  <2>13. QED  BY <1>3, <2>7, <2>8, <2>12 DEF HeapInv, Sound
<1>6. QED  BY <1>4, <1>5 DEF Allocated

-----------------------------------------------------------------------------
(* The specification.                                                       *)

\* There is nothing in the heap.
LEMMA HeapInit ==
  ASSUME Init
  PROVE  HeapInv
<1>1. /\ frames = <<{}>> /\ frames \in Seq(SUBSET Object) /\ Depth = 1 /\ frames[1] = {}
      /\ handlers \in Seq(Nat) /\ Len(handlers) = 0
  BY DEF Init, Depth
<1>2. TypeOK  BY <1>1 DEF Init, TypeOK, Idle
<1>3. Unwinds  BY <1>1 DEF Unwinds
<1>4. Roots = {}
  <2>1. \A s \in Static : statics[s] = None  BY DEF Init
  <2>2. current = None  BY DEF Init
  <2>3. \A i \in 1 .. Depth : frames[i] = {}  BY <1>1
  <2>4. QED  BY <2>1, <2>2, <2>3 DEF Roots
<1>5. NoDangling  BY <1>4 DEF Init, NoDangling
<1>6. Marks /\ Closed /\ KeepsOnlyReachable
  BY DEF Init, Idle, Marks, Closed, KeepsOnlyReachable
<1>7. QED  BY <1>2, <1>3, <1>5, <1>6 DEF HeapInv, Sound

\* Every step of the specification.
LEMMA HeapStep ==
  ASSUME HeapAssumption, HeapInv, [Next]_vars
  PROVE  HeapInv'
<1>1. CASE User
  BY <1>1, PushKeeps, PopKeeps, PushHandlerKeeps, PopHandlerKeeps, ThrowKeeps, ReadKeeps,
     ForgetKeeps, WriteFieldKeeps, WriteStaticKeeps DEF User
<1>2. CASE Turn
  BY <1>2, MarkRootsKeeps, ScanObjectKeeps, StartSweepKeeps, SweepKeeps, CollectedKeeps,
     AllocatedKeeps DEF Turn
<1>3. CASE Collect \/ \E o \in Object : Allocate(Size[o])  BY <1>3, BeginsKeeps
<1>4. CASE UNCHANGED vars
  <2>1. /\ UNCHANGED userVars /\ allocations' = allocations /\ marked' = marked
        /\ pending' = pending /\ rest' = rest /\ call' = call
    BY <1>4 DEF vars, markVars, sweepVars
  <2>2. TypeOK'
    BY <1>4 DEF HeapInv, Sound, TypeOK, vars, userVars, markVars, sweepVars, countVars, Depth
  <2>3. Unwinds' /\ NoDangling'  BY <2>1, SameReach DEF HeapInv, Sound, NoDangling
  <2>4. Marks' /\ Closed' /\ KeepsOnlyReachable'
    BY <2>1, SameReach DEF HeapInv, Marks, Closed, Kept, KeepsOnlyReachable
  <2>5. QED  BY <2>2, <2>3, <2>4 DEF HeapInv, Sound
<1>5. QED  BY <1>1, <1>2, <1>3, <1>4 DEF Next

\* What can be reached from a static, a local of a method that has not returned or the exception
\* that is thrown stays in the heap (Collect), and an exception unwinds to a frame that is there.
THEOREM HeapIsSound ==
  ASSUME HeapAssumption
  PROVE  Spec => []Sound
<1>1. Init => HeapInv  BY HeapInit
<1>2. HeapInv /\ [Next]_vars => HeapInv'  BY HeapStep
<1>3. HeapInv => Sound  BY DEF HeapInv
<1>4. QED  BY <1>1, <1>2, <1>3, PTL DEF Spec

\* And a collection keeps nothing that cannot be reached, whatever was called, returned, thrown
\* and written since the last (Collect).
THEOREM HeapCollectsGarbage ==
  ASSUME HeapAssumption
  PROVE  Spec => []CollectsGarbage
<1>1. Init => HeapInv  BY HeapInit
<1>2. HeapInv /\ [Next]_vars => HeapInv'  BY HeapStep
<1>3. HeapInv => CollectsGarbage  BY DEF HeapInv, CollectsGarbage
<1>4. QED  BY <1>1, <1>2, <1>3, PTL DEF Spec


-----------------------------------------------------------------------------
(* The list of blocks of a zone (ZoneList).                                 *)

Tags  == {"cap", "free", "static", "level", "levspec", "cache", "used"}
Users == Lump \cup {NoUser}
BlockType == [size : Nat, tag : Tags, user : Users, next : Nat, prev : Nat]
At(z) == DOMAIN z.blocks

\* What the lemmas of a zone need of its constants.
Shape ==
  /\ Header \in Nat \ {0} /\ ZoneHeader \in Nat \ {0} /\ MinFragment \in Nat /\ Align \in Nat \ {0}
  /\ MinFragment >= Header

Typed(z) ==
  /\ z = [blocks |-> z.blocks, rover |-> z.rover]
  /\ At(z) \in SUBSET Nat
  /\ z.blocks \in [At(z) -> BlockType]
  /\ z.rover \in At(z)

\* The links lead through the list, both ways.
Linked(z) ==
  \A b \in At(z) :
    /\ z.blocks[b].next \in At(z) /\ z.blocks[b].prev \in At(z)
    /\ z.blocks[z.blocks[b].next].prev = b
    /\ z.blocks[z.blocks[b].prev].next = b

\* No gap: a block ends where the next one begins, the last one where the zone does.
Tiled(z, end) ==
  \A b \in At(z) \ {Cap} :
    /\ z.blocks[b].size >= Header
    /\ b + z.blocks[b].size = IF z.blocks[b].next = Cap THEN end ELSE z.blocks[b].next

\* The link of a block leads to the one that follows in memory.
Ordered(z) ==
  \A x, y \in At(z) : x < y => z.blocks[x].next # Cap /\ z.blocks[x].next <= y

Capped(z) ==
  /\ Cap \in At(z)
  /\ z.blocks[Cap].tag = "cap" /\ z.blocks[Cap].user = NoUser /\ z.blocks[Cap].next = ZoneHeader

\* A free block belongs to nobody.
Unowned(z) == \A b \in At(z) : IsFree(z, b) => z.blocks[b].user = NoUser

\* No two free blocks in a row.
Apart(z) == \A b \in At(z) : IsFree(z, b) => ~IsFree(z, z.blocks[b].next)

List(z, end) == Typed(z) /\ Linked(z) /\ Tiled(z, end) /\ Ordered(z) /\ Capped(z) /\ Unowned(z)

\* The fields of a block of a zone.
LEMMA Fields ==
  ASSUME NEW z, Typed(z), NEW b \in At(z)
  PROVE  /\ b \in Nat
         /\ z.blocks[b] \in BlockType
         /\ z.blocks[b].size \in Nat /\ z.blocks[b].tag \in Tags /\ z.blocks[b].user \in Users
         /\ z.blocks[b].next \in Nat /\ z.blocks[b].prev \in Nat
<1>1. b \in Nat /\ z.blocks[b] \in BlockType  BY DEF Typed, At
<1>2. QED  BY <1>1 DEF BlockType

\* A free block is not the cap, and one that is not the last ends before the one it leads to.
LEMMA Follows ==
  ASSUME Shape, NEW z, NEW end \in Nat, List(z, end), NEW b \in At(z)
  PROVE  /\ IsFree(z, b) => b # Cap
         /\ z.blocks[b].next \in At(z) /\ z.blocks[b].next \in Nat
         /\ z.blocks[b].next # b
         /\ z.blocks[b].next # Cap => b < z.blocks[b].next
<1>1. z.blocks[b].next \in At(z) /\ z.blocks[b].next \in Nat /\ b \in Nat /\ z.blocks[b].size \in Nat
  BY Fields DEF List, Linked
<1>2. IsFree(z, b) => b # Cap  BY DEF List, Capped, IsFree, FreeTag
<1>3. CASE b = Cap
  <2>1. z.blocks[b].next = ZoneHeader  BY <1>3 DEF List, Capped
  <2>2. QED  BY <1>1, <1>2, <1>3, <2>1 DEF Shape, Cap
<1>4. CASE b # Cap
  <2>1. /\ z.blocks[b].size >= Header
        /\ z.blocks[b].next # Cap => b + z.blocks[b].size = z.blocks[b].next
    BY <1>4 DEF List, Tiled
  <2>2. z.blocks[b].next # Cap => b < z.blocks[b].next  BY <1>1, <2>1 DEF Shape
  <2>3. QED  BY <1>1, <1>2, <1>4, <2>2
<1>5. QED  BY <1>3, <1>4

-----------------------------------------------------------------------------
(* A block becomes a part of the one before it.                             *)

\* What Absorbed leaves of a zone.
IsAbsorbed(w, z, a, b) ==
  /\ At(w) = At(z) \ {b}
  /\ w.rover = IF z.rover = b THEN a ELSE z.rover
  /\ \A x \in At(w) :
       /\ w.blocks[x].tag = z.blocks[x].tag /\ w.blocks[x].user = z.blocks[x].user
       /\ w.blocks[x].size = IF x = a THEN z.blocks[a].size + z.blocks[b].size ELSE z.blocks[x].size
       /\ w.blocks[x].next = IF x = a THEN z.blocks[b].next ELSE z.blocks[x].next
       /\ w.blocks[x].prev = IF x = z.blocks[b].next THEN a ELSE z.blocks[x].prev

\* A list with another size, link or link back of one block.
LEMMA Sized ==
  ASSUME NEW S, NEW g \in [S -> BlockType], NEW a \in S, NEW s \in Nat
  PROVE  LET h == [g EXCEPT ![a].size = s] IN
         /\ h \in [S -> BlockType]
         /\ \A x \in S : /\ h[x].size = (IF x = a THEN s ELSE g[x].size)
                         /\ h[x].tag = g[x].tag /\ h[x].user = g[x].user
                         /\ h[x].next = g[x].next /\ h[x].prev = g[x].prev
  BY DEF BlockType

\* A list with another link of one block.
LEMMA Led ==
  ASSUME NEW S, NEW g \in [S -> BlockType], NEW a \in S, NEW n \in Nat
  PROVE  LET h == [g EXCEPT ![a].next = n] IN
         /\ h \in [S -> BlockType]
         /\ \A x \in S : /\ h[x].next = (IF x = a THEN n ELSE g[x].next)
                         /\ h[x].tag = g[x].tag /\ h[x].user = g[x].user
                         /\ h[x].size = g[x].size /\ h[x].prev = g[x].prev
  BY DEF BlockType

\* A list with another link back of one block.
LEMMA LedBack ==
  ASSUME NEW S, NEW g \in [S -> BlockType], NEW a \in S, NEW n \in Nat
  PROVE  LET h == [g EXCEPT ![a].prev = n] IN
         /\ h \in [S -> BlockType]
         /\ \A x \in S : /\ h[x].prev = (IF x = a THEN n ELSE g[x].prev)
                         /\ h[x].tag = g[x].tag /\ h[x].user = g[x].user
                         /\ h[x].size = g[x].size /\ h[x].next = g[x].next
  BY DEF BlockType

\* Absorbed, read off its nested EXCEPTs.
LEMMA AbsorbedIs ==
  ASSUME NEW z, Typed(z), NEW a \in At(z), NEW b \in At(z), a # b,
         z.blocks[b].next \in At(z) \ {b}
  PROVE  Typed(Absorbed(z, a, b)) /\ IsAbsorbed(Absorbed(z, a, b), z, a, b)
<1> DEFINE S  == At(z) \ {b}
           after == z.blocks[b].next
           f0 == Restrict(z.blocks, S)
           s  == f0[a].size + z.blocks[b].size
           f1 == [f0 EXCEPT ![a].size = s]
           f2 == [f1 EXCEPT ![a].next = after]
           f3 == [f2 EXCEPT ![after].prev = a]
           w  == Absorbed(z, a, b)
<1>1. /\ f0 = [x \in S |-> z.blocks[x]]
      /\ a \in S /\ after \in S /\ S \in SUBSET Nat
      /\ \A x \in S : z.blocks[x] \in BlockType
  BY Fields DEF Restrict, Typed, At
<1>2. f0 \in [S -> BlockType] /\ \A x \in S : f0[x] = z.blocks[x]
  BY <1>1
<1>3. s \in Nat /\ after \in Nat /\ a \in Nat /\ s = z.blocks[a].size + z.blocks[b].size
  BY <1>1, <1>2, Fields
<1>4. w = [blocks |-> f3, rover |-> IF z.rover = b THEN a ELSE z.rover]
  BY Zenon DEF Absorbed, At
<1> HIDE DEF f0, w, s, after, S
<1>5. /\ f1 \in [S -> BlockType]
      /\ \A x \in S : /\ f1[x].size = (IF x = a THEN s ELSE f0[x].size)
                      /\ f1[x].tag = f0[x].tag /\ f1[x].user = f0[x].user
                      /\ f1[x].next = f0[x].next /\ f1[x].prev = f0[x].prev
  BY <1>1, <1>2, <1>3, Sized
<1> HIDE DEF f1
<1>6. /\ f2 \in [S -> BlockType]
      /\ \A x \in S : /\ f2[x].next = (IF x = a THEN after ELSE f1[x].next)
                      /\ f2[x].tag = f1[x].tag /\ f2[x].user = f1[x].user
                      /\ f2[x].size = f1[x].size /\ f2[x].prev = f1[x].prev
  BY <1>1, <1>5, <1>3, Led
<1> HIDE DEF f2
<1>7. /\ f3 \in [S -> BlockType]
      /\ \A x \in S : /\ f3[x].prev = (IF x = after THEN a ELSE f2[x].prev)
                      /\ f3[x].tag = f2[x].tag /\ f3[x].user = f2[x].user
                      /\ f3[x].size = f2[x].size /\ f3[x].next = f2[x].next
  BY <1>1, <1>6, <1>3, LedBack
<1> HIDE DEF f3
<1>8. w.blocks = f3 /\ w.rover = (IF z.rover = b THEN a ELSE z.rover) /\ At(w) = S
      /\ w = [blocks |-> w.blocks, rover |-> w.rover]
  BY <1>4, <1>7 DEF At
<1>9. z.rover \in At(z)  BY DEF Typed
<1>10. w.rover \in S  BY <1>8, <1>9, <1>1 DEF S
<1>11. Typed(w)  BY <1>1, <1>7, <1>8, <1>10 DEF Typed
<1>12. ASSUME NEW x \in S
       PROVE  /\ f3[x].tag = z.blocks[x].tag /\ f3[x].user = z.blocks[x].user
              /\ f3[x].size = IF x = a THEN s ELSE z.blocks[x].size
              /\ f3[x].next = IF x = a THEN after ELSE z.blocks[x].next
              /\ f3[x].prev = IF x = after THEN a ELSE z.blocks[x].prev
  BY <1>2, <1>5, <1>6, <1>7
<1>13. IsAbsorbed(w, z, a, b)
  <2>1. /\ At(w) = At(z) \ {b} /\ w.rover = (IF z.rover = b THEN a ELSE z.rover)
    BY <1>8 DEF S
  <2>2. ASSUME NEW x \in At(w)
        PROVE  /\ w.blocks[x].tag = z.blocks[x].tag /\ w.blocks[x].user = z.blocks[x].user
               /\ w.blocks[x].size = IF x = a THEN s ELSE z.blocks[x].size
               /\ w.blocks[x].next = IF x = a THEN after ELSE z.blocks[x].next
               /\ w.blocks[x].prev = IF x = after THEN a ELSE z.blocks[x].prev
    BY <1>8, <1>12
  <2>3. QED  BY <1>3, <2>1, <2>2 DEF IsAbsorbed, after
<1>14. QED  BY <1>11, <1>13 DEF w

\* Links, sizes and the order are kept when a block becomes a part of the one before it.
LEMMA AbsorbedLinked ==
  ASSUME Shape, NEW z, NEW end \in Nat, List(z, end), NEW a \in At(z), NEW b \in At(z),
         a # Cap, b # Cap, z.blocks[a].next = b,
         NEW w, IsAbsorbed(w, z, a, b)
  PROVE  Linked(w)
<1>1. /\ At(w) = At(z) \ {b} /\ a # b /\ z.blocks[b].next # b
      /\ z.blocks[b].next # a
  <2>1. a < b /\ (z.blocks[b].next # Cap => b < z.blocks[b].next) /\ a \in Nat /\ b \in Nat
    BY Follows, Fields DEF List
  <2>2. z.blocks[b].next \in Nat  BY Follows
  <2>3. QED  BY <2>1, <2>2, Follows DEF IsAbsorbed
<1>2. \A x \in At(w) : /\ w.blocks[x].next = IF x = a THEN z.blocks[b].next ELSE z.blocks[x].next
                       /\ w.blocks[x].prev = IF x = z.blocks[b].next THEN a ELSE z.blocks[x].prev
  BY DEF IsAbsorbed
<1>3. Linked(z)  BY DEF List
<1>4. ASSUME NEW x \in At(w)
      PROVE  w.blocks[x].next \in At(w) /\ w.blocks[w.blocks[x].next].prev = x
  <2>1. CASE x = a
    <3>1. w.blocks[x].next = z.blocks[b].next /\ z.blocks[b].next \in At(w)
      BY <1>1, <1>2, <1>3, <2>1 DEF Linked
    <3>2. QED  BY <1>2, <2>1, <3>1
  <2>2. CASE x # a
    <3>1. w.blocks[x].next = z.blocks[x].next  BY <1>2, <2>2
    <3>2. x \in At(z) /\ x # b  BY <1>1
    <3>3. z.blocks[x].next # b /\ z.blocks[x].next # z.blocks[b].next
      BY <1>3, <2>2, <3>2 DEF Linked
    <3>4. z.blocks[x].next \in At(z) /\ z.blocks[z.blocks[x].next].prev = x
      BY <1>3, <3>2 DEF Linked
    <3>5. z.blocks[x].next \in At(w)  BY <1>1, <3>3, <3>4
    <3>6. QED  BY <1>2, <3>1, <3>3, <3>4, <3>5
  <2>3. QED  BY <2>1, <2>2
<1>5. ASSUME NEW x \in At(w)
      PROVE  w.blocks[x].prev \in At(w) /\ w.blocks[w.blocks[x].prev].next = x
  <2>1. CASE x = z.blocks[b].next
    <3>1. w.blocks[x].prev = a /\ a \in At(w)  BY <1>1, <1>2, <2>1
    <3>2. QED  BY <1>2, <2>1, <3>1
  <2>2. CASE x # z.blocks[b].next
    <3>1. w.blocks[x].prev = z.blocks[x].prev  BY <1>2, <2>2
    <3>2. x \in At(z) /\ x # b  BY <1>1
    <3>3. z.blocks[x].prev \in At(z) /\ z.blocks[z.blocks[x].prev].next = x
      BY <1>3, <3>2 DEF Linked
    <3>4. z.blocks[x].prev # b /\ z.blocks[x].prev # a  BY <2>2, <3>2, <3>3
    <3>5. z.blocks[x].prev \in At(w)  BY <1>1, <3>3, <3>4
    <3>6. QED  BY <1>2, <3>1, <3>3, <3>4, <3>5
  <2>3. QED  BY <2>1, <2>2
<1>6. QED  BY <1>4, <1>5 DEF Linked

\* The list stays one when a block becomes a part of the one before it.
LEMMA AbsorbedKeeps ==
  ASSUME Shape, NEW z, NEW end \in Nat, List(z, end), NEW a \in At(z), NEW b \in At(z),
         a # Cap, b # Cap, z.blocks[a].next = b
  PROVE  List(Absorbed(z, a, b), end) /\ IsAbsorbed(Absorbed(z, a, b), z, a, b)
<1> DEFINE w == Absorbed(z, a, b)
<1>1. /\ z.blocks[b].next \in At(z) /\ z.blocks[b].next \in Nat /\ z.blocks[b].next # b
      /\ a < b /\ a \in Nat /\ b \in Nat
      /\ z.blocks[b].next # Cap => b < z.blocks[b].next
  BY Follows, Fields DEF List
<1>2. Typed(z)  BY DEF List
<1>3. a # b  BY <1>1
<1>4. Typed(w) /\ IsAbsorbed(w, z, a, b)
  BY <1>1, <1>2, <1>3, AbsorbedIs
<1> HIDE DEF w
<1>5. /\ At(w) = At(z) \ {b} /\ At(w) \in SUBSET Nat
      /\ \A x \in At(w) :
           /\ w.blocks[x].tag = z.blocks[x].tag /\ w.blocks[x].user = z.blocks[x].user
           /\ w.blocks[x].size = IF x = a THEN z.blocks[a].size + z.blocks[b].size ELSE z.blocks[x].size
           /\ w.blocks[x].next = IF x = a THEN z.blocks[b].next ELSE z.blocks[x].next
  BY <1>4 DEF IsAbsorbed, Typed
<1>6. Linked(w)  BY <1>4, AbsorbedLinked
<1>7. ASSUME NEW x \in At(w) \ {Cap}
      PROVE  /\ w.blocks[x].size >= Header
             /\ x + w.blocks[x].size = IF w.blocks[x].next = Cap THEN end ELSE w.blocks[x].next
  <2>1. CASE x # a
    BY <1>5, <2>1 DEF List, Tiled
  <2>2. CASE x = a
    <3>1. /\ z.blocks[a].size >= Header /\ a + z.blocks[a].size = b
          /\ z.blocks[b].size >= Header
          /\ b + z.blocks[b].size = IF z.blocks[b].next = Cap THEN end ELSE z.blocks[b].next
      BY DEF List, Tiled
    <3>2. z.blocks[a].size \in Nat /\ z.blocks[b].size \in Nat  BY <1>2, Fields
    <3>3. w.blocks[a].size = z.blocks[a].size + z.blocks[b].size
          /\ w.blocks[a].next = z.blocks[b].next
      BY <1>5, <2>2
    <3>4. z.blocks[a].size + z.blocks[b].size >= Header
          /\ a + (z.blocks[a].size + z.blocks[b].size) = b + z.blocks[b].size
      BY <1>1, <3>1, <3>2 DEF Shape
    <3>5. QED  BY <2>2, <3>1, <3>3, <3>4
  <2>3. QED  BY <2>1, <2>2
<1>8. ASSUME NEW x \in At(w), NEW y \in At(w), x < y
      PROVE  w.blocks[x].next # Cap /\ w.blocks[x].next <= y
  <2>1. x \in At(z) /\ y \in At(z) /\ y # b /\ x \in Nat /\ y \in Nat  BY <1>5
  <2>2. z.blocks[x].next # Cap /\ z.blocks[x].next <= y  BY <1>8, <2>1 DEF List, Ordered
  <2>3. CASE x # a  BY <1>5, <2>2, <2>3
  <2>4. CASE x = a
    <3>1. b <= y  BY <2>2, <2>4
    <3>2. b < y  BY <1>1, <2>1, <3>1
    <3>3. z.blocks[b].next # Cap /\ z.blocks[b].next <= y  BY <2>1, <3>2 DEF List, Ordered
    <3>4. QED  BY <1>5, <2>4, <3>3
  <2>5. QED  BY <2>3, <2>4
<1>9. Capped(w)
  <2>1. Cap \in At(w) /\ Cap # a /\ Cap \in At(z)  BY <1>5 DEF List, Capped
  <2>2. QED  BY <1>5, <2>1 DEF List, Capped
<1>10. Unowned(w)  BY <1>5 DEF List, Unowned, IsFree
<1>11. QED  BY <1>4, <1>6, <1>7, <1>8, <1>9, <1>10 DEF List, Tiled, Ordered, w

-----------------------------------------------------------------------------
(* A block is freed.                                                        *)

\* The block marked as free, before it is joined.
Marked(z, b) == [z EXCEPT !.blocks[b].tag = FreeTag, !.blocks[b].user = NoUser]

\* Marked, read off.
LEMMA MarkedIs ==
  ASSUME NEW z, Typed(z), NEW b \in At(z)
  PROVE  LET w == Marked(z, b) IN
         /\ Typed(w) /\ At(w) = At(z) /\ w.rover = z.rover
         /\ \A x \in At(z) :
              /\ w.blocks[x].tag = IF x = b THEN FreeTag ELSE z.blocks[x].tag
              /\ w.blocks[x].user = IF x = b THEN NoUser ELSE z.blocks[x].user
              /\ w.blocks[x].size = z.blocks[x].size
              /\ w.blocks[x].next = z.blocks[x].next
              /\ w.blocks[x].prev = z.blocks[x].prev
<1> DEFINE S  == At(z)
           f0 == z.blocks
           f1 == [f0 EXCEPT ![b].tag = FreeTag]
           f2 == [f1 EXCEPT ![b].user = NoUser]
           w  == Marked(z, b)
<1>1. f0 \in [S -> BlockType] /\ FreeTag \in Tags /\ NoUser \in Users
      /\ S \in SUBSET Nat /\ z.rover \in S
  BY DEF Typed, FreeTag, Tags, Users
<1>2. z = [blocks |-> f0, rover |-> z.rover]  BY DEF Typed
<1>3. w = [blocks |-> f2, rover |-> z.rover]
  <2>1. w = [[z EXCEPT !.blocks = f1] EXCEPT !.blocks = f2]
    BY <1>2 DEF Marked
  <2>2. QED  BY <1>2, <2>1
<1> HIDE DEF f0, w, S
<1>4. /\ f1 \in [S -> BlockType]
      /\ \A x \in S : /\ f1[x].tag = (IF x = b THEN FreeTag ELSE f0[x].tag)
                      /\ f1[x].size = f0[x].size /\ f1[x].user = f0[x].user
                      /\ f1[x].next = f0[x].next /\ f1[x].prev = f0[x].prev
  BY <1>1 DEF BlockType, S
<1> HIDE DEF f1
<1>5. /\ f2 \in [S -> BlockType]
      /\ \A x \in S : /\ f2[x].user = (IF x = b THEN NoUser ELSE f1[x].user)
                      /\ f2[x].size = f1[x].size /\ f2[x].tag = f1[x].tag
                      /\ f2[x].next = f1[x].next /\ f2[x].prev = f1[x].prev
  BY <1>1, <1>4 DEF BlockType, S
<1> HIDE DEF f2
<1>6. w.blocks = f2 /\ w.rover = z.rover /\ At(w) = S /\ w = [blocks |-> w.blocks, rover |-> w.rover]
  BY <1>3, <1>5 DEF At
<1>7. Typed(w)  BY <1>1, <1>5, <1>6 DEF Typed
<1>8. \A x \in S :
        /\ w.blocks[x].tag = (IF x = b THEN FreeTag ELSE f0[x].tag)
        /\ w.blocks[x].user = (IF x = b THEN NoUser ELSE f0[x].user)
        /\ w.blocks[x].size = f0[x].size /\ w.blocks[x].next = f0[x].next
        /\ w.blocks[x].prev = f0[x].prev
  BY <1>4, <1>5, <1>6
<1>9. QED  BY <1>6, <1>7, <1>8 DEF w, S, f0

\* A list with a block marked as free is one, though two free blocks may be in a row.
LEMMA MarkedKeeps ==
  ASSUME Shape, NEW z, NEW end \in Nat, List(z, end), NEW b \in At(z), b # Cap
  PROVE  List(Marked(z, b), end)
<1> DEFINE w == Marked(z, b)
<1>1. /\ Typed(w) /\ At(w) = At(z)
      /\ \A x \in At(z) :
           /\ w.blocks[x].tag = IF x = b THEN FreeTag ELSE z.blocks[x].tag
           /\ w.blocks[x].user = IF x = b THEN NoUser ELSE z.blocks[x].user
           /\ w.blocks[x].size = z.blocks[x].size
           /\ w.blocks[x].next = z.blocks[x].next
           /\ w.blocks[x].prev = z.blocks[x].prev
  BY MarkedIs DEF List
<1> HIDE DEF w
<1>2. Linked(w)  BY <1>1 DEF List, Linked
<1>3. Tiled(w, end)  BY <1>1 DEF List, Tiled
<1>4. Ordered(w)  BY <1>1 DEF List, Ordered
<1>5. Capped(w)  BY <1>1 DEF List, Capped
<1>6. Unowned(w)  BY <1>1 DEF List, Unowned, IsFree
<1>7. QED  BY <1>1, <1>2, <1>3, <1>4, <1>5, <1>6 DEF List, w

\* The block that the freed block b becomes a part of, or is.
Merged(z, b) == IF IsFree(z, z.blocks[b].prev) THEN z.blocks[b].prev ELSE b

\* The freed block after it was joined with the one before it.
HalfReleased(z, b) ==
  IF IsFree(z, z.blocks[b].prev) THEN Absorbed(Marked(z, b), z.blocks[b].prev, b) ELSE Marked(z, b)

\* What is known of it: only a may be next to a free block, the one behind it.
IsHalfReleased(w, z, b, a) ==
  /\ At(w) \subseteq At(z) /\ \A x \in At(z) : x # b => x \in At(w)
  /\ a \in At(w) /\ IsFree(w, a)
  /\ w.blocks[a].next = z.blocks[b].next /\ w.blocks[a].prev = z.blocks[a].prev
  /\ \A x \in At(w) : x # a =>
       /\ x # b
       /\ w.blocks[x].tag = z.blocks[x].tag /\ w.blocks[x].user = z.blocks[x].user
       /\ w.blocks[x].size = z.blocks[x].size
  /\ \A x \in At(w) : x # a /\ IsFree(w, x) => ~IsFree(w, w.blocks[x].next)

\* The freed block, the one before it and the one behind it are three, as far as they are free.
LEMMA Around ==
  ASSUME Shape, NEW z, NEW end \in Nat, List(z, end), NEW b \in At(z), b # Cap, ~IsFree(z, b)
  PROVE  /\ z.blocks[b].prev \in At(z) /\ z.blocks[b].next \in At(z)
         /\ z.blocks[z.blocks[b].prev].next = b
         /\ z.blocks[b].prev # b /\ z.blocks[b].next # b
         /\ IsFree(z, z.blocks[b].prev) =>
              z.blocks[b].prev # Cap /\ z.blocks[b].prev # z.blocks[b].next
<1> DEFINE p == z.blocks[b].prev
           n == z.blocks[b].next
<1>1. p \in At(z) /\ n \in At(z) /\ z.blocks[p].next = b  BY DEF List, Linked
<1>2. n # b /\ n \in Nat /\ b \in Nat /\ (n # Cap => b < n)  BY Follows, Fields DEF List
<1>3. p \in Nat /\ p # b /\ p < b /\ (IsFree(z, p) => p # Cap)
  BY <1>1, Follows, Fields DEF List
<1>4. QED  BY <1>1, <1>2, <1>3

\* The freed block, joined with the one before it if that is free: a list, where only it may be
\* next to a free block.
LEMMA HalfReleasedKeeps ==
  ASSUME Shape, NEW z, NEW end \in Nat, List(z, end), Apart(z),
         NEW b \in At(z), b # Cap, ~IsFree(z, b)
  PROVE  /\ List(HalfReleased(z, b), end)
         /\ IsHalfReleased(HalfReleased(z, b), z, b, Merged(z, b))
<1> DEFINE p == z.blocks[b].prev
           n == z.blocks[b].next
           v == Marked(z, b)
           w == HalfReleased(z, b)
           a == Merged(z, b)
<1>1. /\ p \in At(z) /\ n \in At(z) /\ z.blocks[p].next = b /\ p # b /\ n # b
      /\ IsFree(z, p) => p # Cap /\ p # n
  BY Around
<1>2. /\ List(v, end) /\ At(v) = At(z)
      /\ \A x \in At(z) :
           /\ v.blocks[x].tag = IF x = b THEN FreeTag ELSE z.blocks[x].tag
           /\ v.blocks[x].user = IF x = b THEN NoUser ELSE z.blocks[x].user
           /\ v.blocks[x].size = z.blocks[x].size
           /\ v.blocks[x].next = z.blocks[x].next
           /\ v.blocks[x].prev = z.blocks[x].prev
  BY MarkedKeeps, MarkedIs DEF List
<1>3. \A x \in At(z) : IsFree(z, x) => ~IsFree(z, z.blocks[x].next)  BY DEF Apart
<1>4. \A x \in At(z) : z.blocks[x].next \in At(z) /\ (z.blocks[x].next = b => x = p)
  BY DEF List, Linked
<1>5. CASE IsFree(z, p)
  <2>1. w = Absorbed(v, p, b) /\ a = p  BY <1>5 DEF HalfReleased, Merged
  <2> HIDE DEF v, w, a
  <2>2. v.blocks[p].next = b /\ p \in At(v) /\ b \in At(v)  BY <1>1, <1>2
  <2>3. p # Cap  BY <1>1, <1>5
  <2>4. List(w, end) /\ IsAbsorbed(w, v, p, b)  BY <1>2, <2>1, <2>2, <2>3, AbsorbedKeeps
  <2>5. /\ At(w) = At(z) \ {b}
        /\ \A x \in At(w) :
             /\ w.blocks[x].tag = z.blocks[x].tag /\ w.blocks[x].user = z.blocks[x].user
             /\ x # p => w.blocks[x].size = z.blocks[x].size
             /\ w.blocks[x].next = IF x = p THEN n ELSE z.blocks[x].next
             /\ w.blocks[x].prev = IF x = n THEN p ELSE z.blocks[x].prev
    BY <1>2, <2>4 DEF IsAbsorbed
  <2>6. p \in At(w) /\ p # n  BY <1>1, <1>5, <2>5
  <2>7. ASSUME NEW x \in At(w), x # p, IsFree(w, x)
        PROVE  ~IsFree(w, w.blocks[x].next)
    <3>1. x \in At(z) /\ x # b /\ IsFree(z, x) /\ w.blocks[x].next = z.blocks[x].next
      BY <2>5, <2>7 DEF IsFree
    <3>2. z.blocks[x].next \in At(w)  BY <1>4, <2>5, <2>7, <3>1
    <3>3. QED  BY <1>3, <2>5, <3>1, <3>2 DEF IsFree
  <2>8. IsFree(w, p)  BY <1>5, <2>5, <2>6 DEF IsFree
  <2>9. IsHalfReleased(w, z, b, p)
    BY <2>5, <2>6, <2>7, <2>8 DEF IsHalfReleased
  <2>10. QED  BY <2>1, <2>4, <2>9 DEF w, a
<1>6. CASE ~IsFree(z, p)
  <2>1. w = v /\ a = b  BY <1>6 DEF HalfReleased, Merged
  <2> HIDE DEF v, w, a
  <2>2. IsFree(w, b)  BY <1>2, <2>1 DEF IsFree
  <2>3. ASSUME NEW x \in At(w), x # b, IsFree(w, x)
        PROVE  ~IsFree(w, w.blocks[x].next)
    <3>1. x \in At(z) /\ IsFree(z, x) /\ w.blocks[x].next = z.blocks[x].next
      BY <1>2, <2>1, <2>3 DEF IsFree
    <3>2. z.blocks[x].next \in At(z) /\ z.blocks[x].next # b  BY <1>4, <1>6, <3>1
    <3>3. QED  BY <1>2, <1>3, <2>1, <3>1, <3>2 DEF IsFree
  <2>4. IsHalfReleased(w, z, b, b)
    BY <1>2, <2>1, <2>2, <2>3 DEF IsHalfReleased
  <2>5. QED  BY <1>2, <2>1, <2>4 DEF w, a
<1>7. QED  BY <1>5, <1>6

\* What is left of a zone when b was freed: every block in use but b, and where b was, a free one.
IsReleased(w, z, b) ==
  /\ At(w) \subseteq At(z)
  /\ \A x \in At(z) : ~IsFree(z, x) /\ x # b =>
       /\ x \in At(w)
       /\ w.blocks[x].size = z.blocks[x].size
       /\ w.blocks[x].tag = z.blocks[x].tag /\ w.blocks[x].user = z.blocks[x].user
  /\ \A x \in At(w) : IsFree(z, x) \/ x = b => IsFree(w, x)
  /\ Merged(z, b) \in At(w)
  /\ w.blocks[Merged(z, b)].prev = z.blocks[Merged(z, b)].prev

\* A freed zone, from its two halves.
LEMMA ReleasedInHalves ==
  ASSUME NEW z, Typed(z), NEW b \in At(z), z.blocks[b].prev \in At(z), z.blocks[b].prev # b
  PROVE  LET w == HalfReleased(z, b)
             a == Merged(z, b)
             n == w.blocks[a].next
         IN  Released(z, b) = IF IsFree(w, n) THEN Absorbed(w, a, n) ELSE w
<1>1. IsFree(Marked(z, b), z.blocks[b].prev) = IsFree(z, z.blocks[b].prev)
  BY MarkedIs DEF IsFree
<1>2. QED  BY <1>1 DEF Released, HalfReleased, Merged, Marked

\* A list stays one when a block is freed, no two free blocks are in a row, and what is in use
\* stays as it is.
LEMMA ReleasedKeeps ==
  ASSUME Shape, NEW z, NEW end \in Nat, List(z, end), Apart(z),
         NEW b \in At(z), b # Cap, ~IsFree(z, b)
  PROVE  /\ List(Released(z, b), end) /\ Apart(Released(z, b))
         /\ IsReleased(Released(z, b), z, b)
<1> DEFINE v == HalfReleased(z, b)
           a == Merged(z, b)
           n == v.blocks[a].next
           w == Released(z, b)
<1>1. List(v, end) /\ IsHalfReleased(v, z, b, a)  BY HalfReleasedKeeps
<1>2. w = IF IsFree(v, n) THEN Absorbed(v, a, n) ELSE v
  BY Around, ReleasedInHalves DEF List
<1> HIDE DEF v, w, a
<1>3. /\ At(v) \subseteq At(z) /\ \A x \in At(z) : x # b => x \in At(v)
      /\ a \in At(v) /\ IsFree(v, a)
      /\ n = z.blocks[b].next /\ v.blocks[a].prev = z.blocks[a].prev
      /\ \A x \in At(v) : x # a =>
           /\ x # b
           /\ v.blocks[x].tag = z.blocks[x].tag /\ v.blocks[x].user = z.blocks[x].user
           /\ v.blocks[x].size = z.blocks[x].size
      /\ \A x \in At(v) : x # a /\ IsFree(v, x) => ~IsFree(v, v.blocks[x].next)
  BY <1>1 DEF IsHalfReleased
<1>4. n \in At(v) /\ a # Cap /\ n # a /\ (n # Cap => a < n) /\ n \in Nat /\ a \in Nat
  BY <1>1, <1>3, Follows, Fields DEF List
<1>5. IsFree(z, a) \/ a = b  BY DEF a, Merged
<1>6. CASE ~IsFree(v, n)
  <2>1. w = v  BY <1>2, <1>6
  <2>2. Apart(w)  BY <1>3, <1>6, <2>1 DEF Apart
  <2>3. IsReleased(w, z, b)
    <3>1. ASSUME NEW x \in At(z), ~IsFree(z, x), x # b
          PROVE  /\ x \in At(w) /\ w.blocks[x].size = z.blocks[x].size
                 /\ w.blocks[x].tag = z.blocks[x].tag /\ w.blocks[x].user = z.blocks[x].user
      BY <1>3, <1>5, <2>1, <3>1
    <3>2. ASSUME NEW x \in At(w), IsFree(z, x) \/ x = b  PROVE IsFree(w, x)
      BY <1>3, <2>1, <3>2 DEF IsFree
    <3>3. QED  BY <1>3, <2>1, <3>1, <3>2 DEF IsReleased, a
  <2>4. QED  BY <1>1, <2>1, <2>2, <2>3 DEF w
<1>7. CASE IsFree(v, n)
  <2>1. w = Absorbed(v, a, n) /\ n # Cap  BY <1>1, <1>2, <1>4, <1>7, Follows
  <2>2. List(w, end) /\ IsAbsorbed(w, v, a, n)  BY <1>1, <1>3, <1>4, <2>1, AbsorbedKeeps
  <2> DEFINE m == v.blocks[n].next
  <2>3. m \in At(v) /\ m # n /\ m # a /\ ~IsFree(v, m)
    <3>1. m \in At(v) /\ m # n /\ (m # Cap => n < m) /\ m \in Nat  BY <1>1, <1>4, Follows
    <3>2. QED  BY <1>3, <1>4, <1>7, <2>1, <3>1
  <2>4. /\ At(w) = At(v) \ {n}
        /\ \A x \in At(w) :
             /\ w.blocks[x].tag = v.blocks[x].tag /\ w.blocks[x].user = v.blocks[x].user
             /\ x # a => w.blocks[x].size = v.blocks[x].size
             /\ w.blocks[x].next = IF x = a THEN m ELSE v.blocks[x].next
             /\ w.blocks[x].prev = IF x = m THEN a ELSE v.blocks[x].prev
    BY <2>2 DEF IsAbsorbed
  <2> HIDE DEF m, n
  <2>5. IsFree(z, n) /\ n # b  BY <1>3, <1>4, <1>7 DEF IsFree
  <2>6. ASSUME NEW x \in At(w), IsFree(w, x)
        PROVE  ~IsFree(w, w.blocks[x].next)
    <3>1. w.blocks[x].next \in At(w)  BY <2>2 DEF List, Linked
    <3>2. CASE x = a  BY <2>3, <2>4, <3>1, <3>2 DEF IsFree
    <3>3. CASE x # a
      <4>1. w.blocks[x].next = v.blocks[x].next /\ IsFree(v, x) /\ x \in At(v)
        BY <2>4, <2>6, <3>3 DEF IsFree
      <4>2. ~IsFree(v, v.blocks[x].next)  BY <1>3, <3>3, <4>1
      <4>3. QED  BY <2>4, <3>1, <4>1, <4>2 DEF IsFree
    <3>4. QED  BY <3>2, <3>3
  <2>7. IsReleased(w, z, b)
    <3>1. ASSUME NEW x \in At(z), ~IsFree(z, x), x # b
          PROVE  /\ x \in At(w) /\ w.blocks[x].size = z.blocks[x].size
                 /\ w.blocks[x].tag = z.blocks[x].tag /\ w.blocks[x].user = z.blocks[x].user
      <4>1. x \in At(v) /\ x # a /\ x # n  BY <1>3, <1>5, <2>5, <3>1
      <4>2. QED  BY <1>3, <2>4, <4>1
    <3>2. ASSUME NEW x \in At(w), IsFree(z, x) \/ x = b  PROVE IsFree(w, x)
      <4>1. x \in At(v)  BY <2>4
      <4>2. IsFree(v, x)  BY <1>3, <3>2, <4>1 DEF IsFree
      <4>3. QED  BY <2>4, <4>2 DEF IsFree
    <3>3. a \in At(w) /\ w.blocks[a].prev = z.blocks[a].prev  BY <1>3, <1>4, <2>3, <2>4
    <3>4. At(w) \subseteq At(z)  BY <1>3, <2>4
    <3>5. QED  BY <3>1, <3>2, <3>3, <3>4 DEF IsReleased, a
  <2>8. QED  BY <2>2, <2>6, <2>7 DEF Apart, w
<1>8. QED  BY <1>6, <1>7

-----------------------------------------------------------------------------
(* A free block is taken.                                                   *)

\* What the list is like when b was taken whole, and when a free block, rest, was cut off.
IsTakenWhole(w, z, b, tag, user) ==
  /\ At(w) = At(z)
  /\ w.rover = z.blocks[b].next
  /\ \A x \in At(w) :
       /\ w.blocks[x].tag = IF x = b THEN tag ELSE z.blocks[x].tag
       /\ w.blocks[x].user = IF x = b THEN user ELSE z.blocks[x].user
       /\ w.blocks[x].size = z.blocks[x].size
       /\ w.blocks[x].next = z.blocks[x].next
       /\ w.blocks[x].prev = z.blocks[x].prev

IsTakenCut(w, z, b, size, tag, user) ==
  LET cut == b + size IN
  /\ At(w) = At(z) \cup {cut}
  /\ w.rover = cut
  /\ w.blocks[b].tag = tag /\ w.blocks[b].user = user /\ w.blocks[b].size = size
  /\ w.blocks[b].next = cut /\ w.blocks[b].prev = z.blocks[b].prev
  /\ w.blocks[cut].tag = FreeTag /\ w.blocks[cut].user = NoUser
  /\ w.blocks[cut].size = z.blocks[b].size - size
  /\ w.blocks[cut].next = z.blocks[b].next /\ w.blocks[cut].prev = b
  /\ \A x \in At(z) \ {b} :
       /\ w.blocks[x].tag = z.blocks[x].tag /\ w.blocks[x].user = z.blocks[x].user
       /\ w.blocks[x].size = z.blocks[x].size
       /\ w.blocks[x].next = z.blocks[x].next
       /\ w.blocks[x].prev = IF x = z.blocks[b].next THEN cut ELSE z.blocks[x].prev

\* Taken, read off, when the rest would be tiny.
LEMMA TakenWhole ==
  ASSUME NEW z, Typed(z), Linked(z), NEW b \in At(z), z.blocks[b].next # b, NEW size \in Nat,
         NEW t \in Tags, NEW u \in Users,
         ~(z.blocks[b].size - size > MinFragment)
  PROVE  LET w == Taken(z, b, size, t, u) IN Typed(w) /\ IsTakenWhole(w, z, b, t, u)
<1> DEFINE S  == At(z)
           f0 == z.blocks
           n  == z.blocks[b].next
           r  == Block(z.blocks[b].size, t, u, n, z.blocks[b].prev)
           f1 == [f0 EXCEPT ![b] = r]
           f2 == [f1 EXCEPT ![n].prev = b]
           w  == Taken(z, b, size, t, u)
<1>1. f0 \in [S -> BlockType] /\ S \in SUBSET Nat /\ b \in S /\ n \in S /\ n # b /\ b \in Nat
  BY DEF Typed, Linked
<1>2. /\ r \in BlockType /\ r.size = z.blocks[b].size /\ r.tag = t /\ r.user = u
      /\ r.next = n /\ r.prev = z.blocks[b].prev
  <2>1. z.blocks[b].size \in Nat /\ n \in Nat /\ z.blocks[b].prev \in Nat  BY Fields
  <2>2. QED  BY <2>1 DEF Block, BlockType
<1>3. w = [blocks |-> f2, rover |-> n]
  BY DEF Taken
<1>4. f0[n].prev = b  BY DEF Linked
<1> HIDE DEF w, r, f0, S, n
<1>5. f1 \in [S -> BlockType] /\ \A x \in S : f1[x] = IF x = b THEN r ELSE f0[x]
  BY <1>1, <1>2
<1> HIDE DEF f1
<1>6. /\ f2 \in [S -> BlockType]
      /\ \A x \in S : /\ f2[x].prev = (IF x = n THEN b ELSE f1[x].prev)
                      /\ f2[x].tag = f1[x].tag /\ f2[x].user = f1[x].user
                      /\ f2[x].size = f1[x].size /\ f2[x].next = f1[x].next
  BY <1>1, <1>5, LedBack
<1> HIDE DEF f2
<1>7. w.blocks = f2 /\ w.rover = n /\ At(w) = S /\ w = [blocks |-> w.blocks, rover |-> w.rover]
  BY <1>3, <1>6 DEF At
<1>8. Typed(w)  BY <1>1, <1>6, <1>7 DEF Typed
<1>9. ASSUME NEW x \in S
      PROVE  /\ f2[x].tag = IF x = b THEN t ELSE f0[x].tag
             /\ f2[x].user = IF x = b THEN u ELSE f0[x].user
             /\ f2[x].size = f0[x].size /\ f2[x].next = f0[x].next /\ f2[x].prev = f0[x].prev
  <2>1. CASE x = b
    <3>1. f1[x] = r /\ x # n  BY <1>1, <1>5, <2>1
    <3>2. QED  BY <1>2, <1>6, <2>1, <3>1 DEF f0, n
  <2>2. CASE x # b
    <3>1. f1[x] = f0[x]  BY <1>5, <2>2
    <3>2. QED  BY <1>4, <1>6, <2>2, <3>1
  <2>3. QED  BY <2>1, <2>2
<1>10. IsTakenWhole(w, z, b, t, u)  BY <1>7, <1>9 DEF IsTakenWhole, S, f0, n
<1>11. QED  BY <1>8, <1>10 DEF w

\* Taken, read off, when the rest is cut off as a block that is free.
LEMMA TakenCut ==
  ASSUME NEW z, Typed(z), Linked(z), NEW b \in At(z), z.blocks[b].next # b, NEW size \in Nat,
         NEW t \in Tags, NEW u \in Users,
         z.blocks[b].size - size > MinFragment, MinFragment \in Nat, b + size \notin At(z)
  PROVE  LET w == Taken(z, b, size, t, u) IN Typed(w) /\ IsTakenCut(w, z, b, size, t, u)
<1> DEFINE cut == b + size
           S  == At(z) \cup {cut}
           n  == z.blocks[b].next
           extra == z.blocks[b].size - size
           q  == Block(extra, FreeTag, NoUser, n, b)
           f0 == [x \in S |-> IF x = cut THEN q ELSE z.blocks[x]]
           r  == Block(size, t, u, cut, z.blocks[b].prev)
           f1 == [f0 EXCEPT ![b] = r]
           f2 == [f1 EXCEPT ![n].prev = cut]
           w  == Taken(z, b, size, t, u)
<1>1. /\ S \in SUBSET Nat /\ b \in S /\ n \in S /\ n # b /\ n # cut /\ cut # b /\ b \in Nat
      /\ cut \in S /\ cut \in Nat /\ n \in Nat /\ At(z) \subseteq S /\ n \in At(z)
  BY DEF Typed, Linked
<1>2. extra \in Nat  BY Fields
<1>3. /\ r \in BlockType /\ r.size = size /\ r.tag = t /\ r.user = u
      /\ r.next = cut /\ r.prev = z.blocks[b].prev
  <2>1. z.blocks[b].prev \in Nat  BY Fields
  <2>2. QED  BY <1>1, <2>1 DEF Block, BlockType
<1>4. /\ q \in BlockType /\ q.size = extra /\ q.tag = FreeTag /\ q.user = NoUser
      /\ q.next = n /\ q.prev = b
  <2>1. FreeTag \in Tags /\ NoUser \in Users  BY DEF FreeTag, Tags, Users
  <2>2. QED  BY <1>1, <1>2, <2>1 DEF Block, BlockType
<1>5. w = [blocks |-> f2, rover |-> cut]
  BY DEF Taken, At
<1>6. \A x \in At(z) : z.blocks[x] \in BlockType  BY Fields
<1> HIDE DEF w, r, q, S, n, cut
<1>7. f0 \in [S -> BlockType] /\ f0[cut] = q /\ \A x \in At(z) : f0[x] = z.blocks[x]
  BY <1>1, <1>4, <1>6 DEF S, cut
<1> HIDE DEF f0
<1>8. f1 \in [S -> BlockType] /\ \A x \in S : f1[x] = IF x = b THEN r ELSE f0[x]
  BY <1>1, <1>3, <1>7
<1> HIDE DEF f1
<1>9. /\ f2 \in [S -> BlockType]
      /\ \A x \in S : /\ f2[x].prev = (IF x = n THEN cut ELSE f1[x].prev)
                      /\ f2[x].tag = f1[x].tag /\ f2[x].user = f1[x].user
                      /\ f2[x].size = f1[x].size /\ f2[x].next = f1[x].next
  BY <1>1, <1>8, LedBack
<1> HIDE DEF f2
<1>10. w.blocks = f2 /\ w.rover = cut /\ At(w) = S /\ w = [blocks |-> w.blocks, rover |-> w.rover]
  BY <1>5, <1>9 DEF At
<1>11. Typed(w)  BY <1>1, <1>9, <1>10 DEF Typed
<1>12. /\ f2[b].tag = t /\ f2[b].user = u /\ f2[b].size = size /\ f2[b].next = cut
       /\ f2[b].prev = z.blocks[b].prev
  BY <1>1, <1>3, <1>8, <1>9
<1>13. /\ f2[cut].tag = FreeTag /\ f2[cut].user = NoUser /\ f2[cut].size = extra
       /\ f2[cut].next = n /\ f2[cut].prev = b
  BY <1>1, <1>4, <1>7, <1>8, <1>9
<1>14. ASSUME NEW x \in At(z) \ {b}
       PROVE  /\ f2[x].tag = z.blocks[x].tag /\ f2[x].user = z.blocks[x].user
              /\ f2[x].size = z.blocks[x].size /\ f2[x].next = z.blocks[x].next
              /\ f2[x].prev = IF x = n THEN cut ELSE z.blocks[x].prev
  <2>1. x \in S /\ f1[x] = z.blocks[x]  BY <1>1, <1>7, <1>8
  <2>2. QED  BY <1>9, <2>1
<1>15. IsTakenCut(w, z, b, size, t, u)
  BY <1>10, <1>12, <1>13, <1>14 DEF IsTakenCut, S, n, cut
<1>16. QED  BY <1>11, <1>15 DEF w

\* What is known of a zone of which b was taken.
IsTaken(w, z, b, tag, user) ==
  /\ At(z) \subseteq At(w)
  /\ \A x \in At(z) \ {b} :
       /\ w.blocks[x].size = z.blocks[x].size
       /\ w.blocks[x].tag = z.blocks[x].tag /\ w.blocks[x].user = z.blocks[x].user
  /\ w.blocks[b].tag = tag /\ w.blocks[b].user = user
  /\ \A x \in At(w) \ At(z) : IsFree(w, x)

\* A list stays one when a block of it is taken whole.
LEMMA TakenWholeKeeps ==
  ASSUME Shape, NEW z, NEW end \in Nat, List(z, end), Apart(z), NEW b \in At(z), IsFree(z, b),
         NEW t \in Tags, t # FreeTag, NEW u, NEW w, Typed(w), IsTakenWhole(w, z, b, t, u)
  PROVE  List(w, end) /\ Apart(w) /\ IsTaken(w, z, b, t, u)
<1>1. /\ At(w) = At(z)
      /\ \A x \in At(w) :
           /\ w.blocks[x].tag = IF x = b THEN t ELSE z.blocks[x].tag
           /\ w.blocks[x].user = IF x = b THEN u ELSE z.blocks[x].user
           /\ w.blocks[x].size = z.blocks[x].size
           /\ w.blocks[x].next = z.blocks[x].next
           /\ w.blocks[x].prev = z.blocks[x].prev
  BY DEF IsTakenWhole
<1>2. b # Cap  BY Follows
<1>3. Linked(w)  BY <1>1 DEF List, Linked
<1>4. Tiled(w, end)  BY <1>1 DEF List, Tiled
<1>5. Ordered(w)  BY <1>1 DEF List, Ordered
<1>6. Capped(w)  BY <1>1, <1>2 DEF List, Capped
<1>7. Unowned(w)  BY <1>1 DEF List, Unowned, IsFree
<1>8. Apart(w)
  <2>1. SUFFICES ASSUME NEW x \in At(w), IsFree(w, x)  PROVE ~IsFree(w, w.blocks[x].next)
    BY DEF Apart
  <2>2. x # b /\ IsFree(z, x)  BY <1>1, <2>1 DEF IsFree
  <2>3. ~IsFree(z, z.blocks[x].next) /\ z.blocks[x].next \in At(z)  BY <1>1, <2>2 DEF Apart, List, Linked
  <2>4. QED  BY <1>1, <2>3 DEF IsFree
<1>9. IsTaken(w, z, b, t, u)  BY <1>1 DEF IsTaken
<1>10. QED  BY <1>3, <1>4, <1>5, <1>6, <1>7, <1>8, <1>9 DEF List

\* No block is where another one is cut.
LEMMA CutIsNew ==
  ASSUME Shape, NEW z, NEW end \in Nat, List(z, end), NEW b \in At(z), b # Cap,
         NEW size \in Nat, size >= Header, z.blocks[b].size - size > MinFragment
  PROVE  /\ b + size \notin At(z) /\ b < b + size /\ b + size \in Nat
         /\ b + size # Cap
         /\ z.blocks[b].next # Cap => b + size < z.blocks[b].next
         /\ \A x \in At(z) : x < b + size /\ x # b => x < b
         /\ \A y \in At(z) : b + size < y => b < y
<1>1. b \in Nat /\ z.blocks[b].size \in Nat /\ z.blocks[b].next \in Nat /\ At(z) \subseteq Nat
  BY Fields DEF List
<1>2. z.blocks[b].next # Cap => b + z.blocks[b].size = z.blocks[b].next  BY DEF List, Tiled
<1>3. b < b + size /\ b + size < b + z.blocks[b].size /\ b + size \in Nat  BY <1>1 DEF Shape
<1>4. \A x \in At(z) : x > b => z.blocks[b].next # Cap /\ z.blocks[b].next <= x
  BY DEF List, Ordered
<1>5. ASSUME NEW x \in At(z), x > b  PROVE b + size < x
  <2>1. z.blocks[b].next # Cap /\ z.blocks[b].next <= x  BY <1>4, <1>5
  <2>2. b + z.blocks[b].size <= x /\ x \in Nat  BY <1>1, <1>2, <2>1
  <2>3. QED  BY <1>1, <1>3, <2>2
<1>6. b + size \notin At(z)  BY <1>3, <1>5
<1>7. b + size # Cap  BY <1>1, <1>3 DEF Cap
<1>8. z.blocks[b].next # Cap => b + size < z.blocks[b].next  BY <1>2, <1>3
<1>9. ASSUME NEW x \in At(z), x < b + size, x # b  PROVE x < b
  <2>1. x \in Nat  BY <1>1
  <2>2. ~(x > b)
    <3>1. SUFFICES ASSUME x > b  PROVE FALSE  OBVIOUS
    <3>2. b + size < x  BY <1>5, <3>1
    <3>3. QED  BY <1>3, <1>9, <2>1, <3>2
  <2>3. QED  BY <1>1, <1>9, <2>1, <2>2
<1>10. ASSUME NEW y \in At(z), b + size < y  PROVE b < y
  BY <1>1, <1>3, <1>10
<1>11. QED  BY <1>3, <1>6, <1>7, <1>8, <1>9, <1>10

\* A list stays one when a block of it is cut and taken.
LEMMA TakenCutKeeps ==
  ASSUME Shape, NEW z, NEW end \in Nat, List(z, end), Apart(z), NEW b \in At(z), IsFree(z, b),
         NEW size \in Nat, size >= Header, z.blocks[b].size - size > MinFragment,
         NEW t \in Tags, t # FreeTag, NEW u, NEW w, Typed(w), IsTakenCut(w, z, b, size, t, u)
  PROVE  List(w, end) /\ Apart(w) /\ IsTaken(w, z, b, t, u)
<1> DEFINE cut == b + size
           n   == z.blocks[b].next
           p   == z.blocks[b].prev
<1>1. b # Cap /\ n \in At(z) /\ n # b /\ b \in Nat /\ z.blocks[b].size \in Nat /\ n \in Nat
  BY Follows, Fields DEF List
<1>2. /\ cut \notin At(z) /\ b < cut /\ cut \in Nat /\ cut # Cap
      /\ n # Cap => cut < n
      /\ \A x \in At(z) : x < cut /\ x # b => x < b
      /\ \A y \in At(z) : cut < y => b < y
  BY <1>1, CutIsNew
<1>3. /\ At(w) = At(z) \cup {cut}
      /\ w.blocks[b].tag = t /\ w.blocks[b].user = u /\ w.blocks[b].size = size
      /\ w.blocks[b].next = cut /\ w.blocks[b].prev = p
      /\ w.blocks[cut].tag = FreeTag /\ w.blocks[cut].user = NoUser
      /\ w.blocks[cut].size = z.blocks[b].size - size
      /\ w.blocks[cut].next = n /\ w.blocks[cut].prev = b
      /\ \A x \in At(z) \ {b} :
           /\ w.blocks[x].tag = z.blocks[x].tag /\ w.blocks[x].user = z.blocks[x].user
           /\ w.blocks[x].size = z.blocks[x].size
           /\ w.blocks[x].next = z.blocks[x].next
           /\ w.blocks[x].prev = IF x = n THEN cut ELSE z.blocks[x].prev
  BY DEF IsTakenCut
<1>4. Linked(z)  BY DEF List
<1>5. /\ z.blocks[n].prev = b /\ p \in At(z) /\ z.blocks[p].next = b /\ p # b
  <2>1. z.blocks[n].prev = b /\ p \in At(z) /\ z.blocks[p].next = b  BY <1>4 DEF Linked
  <2>2. QED  BY <1>1, <2>1
<1> HIDE DEF cut, n, p
<1>6. Linked(w)
  <2>1. ASSUME NEW x \in At(w)
        PROVE  w.blocks[x].next \in At(w) /\ w.blocks[w.blocks[x].next].prev = x
    <3>1. CASE x = b  BY <1>3, <3>1
    <3>2. CASE x = cut  BY <1>1, <1>3, <3>2
    <3>3. CASE x # b /\ x # cut
      <4>1. x \in At(z) /\ w.blocks[x].next = z.blocks[x].next  BY <1>3, <3>3
      <4>2. z.blocks[x].next \in At(z) /\ z.blocks[z.blocks[x].next].prev = x
        BY <1>4, <4>1 DEF Linked
      <4>3. z.blocks[x].next # n  BY <1>5, <3>3, <4>2
      <4>4. CASE z.blocks[x].next = b  BY <1>3, <4>1, <4>2, <4>4 DEF p
      <4>5. CASE z.blocks[x].next # b  BY <1>3, <4>1, <4>2, <4>3, <4>5
      <4>6. QED  BY <4>4, <4>5
    <3>4. QED  BY <3>1, <3>2, <3>3
  <2>2. ASSUME NEW x \in At(w)
        PROVE  w.blocks[x].prev \in At(w) /\ w.blocks[w.blocks[x].prev].next = x
    <3>1. CASE x = b  BY <1>3, <1>5, <3>1
    <3>2. CASE x = cut  BY <1>3, <3>2
    <3>3. CASE x # b /\ x # cut
      <4>1. x \in At(z) /\ w.blocks[x].prev = IF x = n THEN cut ELSE z.blocks[x].prev  BY <1>3, <3>3
      <4>2. CASE x = n  BY <1>3, <4>1, <4>2
      <4>3. CASE x # n
        <5>1. z.blocks[x].prev \in At(z) /\ z.blocks[z.blocks[x].prev].next = x
          BY <1>4, <4>1 DEF Linked
        <5>2. z.blocks[x].prev # b  BY <4>3, <5>1 DEF n
        <5>3. QED  BY <1>3, <4>1, <4>3, <5>1, <5>2
      <4>4. QED  BY <4>2, <4>3
    <3>4. QED  BY <3>1, <3>2, <3>3
  <2>3. QED  BY <2>1, <2>2 DEF Linked
<1>7. ASSUME NEW x \in At(w) \ {Cap}
      PROVE  /\ w.blocks[x].size >= Header
             /\ x + w.blocks[x].size = IF w.blocks[x].next = Cap THEN end ELSE w.blocks[x].next
  <2>1. CASE x = b
    <3>1. w.blocks[x].size = size /\ w.blocks[x].next = cut  BY <1>3, <2>1
    <3>2. QED  BY <1>2, <2>1, <3>1 DEF cut
  <2>2. CASE x = cut
    <3>1. /\ w.blocks[x].size = z.blocks[b].size - size /\ w.blocks[x].next = n  BY <1>3, <2>2
    <3>2. b + z.blocks[b].size = IF n = Cap THEN end ELSE n  BY <1>1 DEF List, Tiled, n
    <3>3. z.blocks[b].size - size >= Header  BY <1>1 DEF Shape
    <3>4. cut + (z.blocks[b].size - size) = b + z.blocks[b].size  BY <1>1 DEF cut
    <3>5. QED  BY <2>2, <3>1, <3>2, <3>3, <3>4
  <2>3. CASE x # b /\ x # cut
    <3>1. x \in At(z) \ {b} /\ x # Cap  BY <1>3, <2>3
    <3>2. QED  BY <1>3, <3>1 DEF List, Tiled
  <2>4. QED  BY <2>1, <2>2, <2>3
<1>8. ASSUME NEW x \in At(w), NEW y \in At(w), x < y
      PROVE  w.blocks[x].next # Cap /\ w.blocks[x].next <= y
  <2>1. Ordered(z) /\ At(z) \subseteq Nat  BY Fields DEF List
  <2>2. CASE x = b
    <3>1. w.blocks[x].next = cut  BY <1>3, <2>2
    <3>2. CASE y = cut  BY <1>2, <3>1, <3>2
    <3>3. CASE y # cut
      <4>1. y \in At(z) /\ y \in Nat  BY <1>3, <2>1, <3>3
      <4>2. n # Cap /\ n <= y  BY <1>8, <2>1, <2>2, <4>1 DEF Ordered, n
      <4>3. cut <= y  BY <1>1, <1>2, <4>1, <4>2
      <4>4. QED  BY <1>2, <3>1, <4>3
    <3>4. QED  BY <3>2, <3>3
  <2>3. CASE x = cut
    <3>1. w.blocks[x].next = n  BY <1>3, <2>3
    <3>2. y # cut /\ y \in At(z)  BY <1>2, <1>3, <1>8, <2>3
    <3>3. b < y  BY <1>2, <1>8, <2>3, <3>2
    <3>4. QED  BY <2>1, <3>1, <3>2, <3>3 DEF Ordered, n
  <2>4. CASE x # b /\ x # cut
    <3>1. x \in At(z) \ {b} /\ w.blocks[x].next = z.blocks[x].next  BY <1>3, <2>4
    <3>2. CASE y = cut
      <4>1. x < b  BY <1>2, <1>8, <2>4, <3>1, <3>2
      <4>2. z.blocks[x].next # Cap /\ z.blocks[x].next <= b  BY <2>1, <3>1, <4>1 DEF Ordered
      <4>3. z.blocks[x].next \in Nat  BY <3>1, Fields DEF List
      <4>4. QED  BY <1>1, <1>2, <3>1, <3>2, <4>2, <4>3
    <3>3. CASE y # cut
      <4>1. y \in At(z)  BY <1>3, <3>3
      <4>2. QED  BY <1>8, <2>1, <3>1, <4>1 DEF Ordered
    <3>4. QED  BY <3>2, <3>3
  <2>5. QED  BY <2>2, <2>3, <2>4
<1>9. Capped(w)
  <2>1. Cap \in At(z) \ {b}  BY <1>1 DEF List, Capped
  <2>2. QED  BY <1>3, <2>1 DEF List, Capped
<1>10. ASSUME NEW x \in At(w), IsFree(w, x)  PROVE w.blocks[x].user = NoUser
  <2>1. x # b  BY <1>3, <1>10 DEF IsFree
  <2>2. CASE x = cut  BY <1>3, <2>2
  <2>3. CASE x # cut
    <3>1. x \in At(z) \ {b}  BY <1>3, <2>1, <2>3
    <3>2. IsFree(z, x)  BY <1>3, <1>10, <3>1 DEF IsFree
    <3>3. QED  BY <1>3, <3>1, <3>2 DEF List, Unowned
  <2>4. QED  BY <2>2, <2>3
<1>11. ASSUME NEW x \in At(w), IsFree(w, x)  PROVE ~IsFree(w, w.blocks[x].next)
  <2>1. x # b  BY <1>3, <1>11 DEF IsFree
  <2>2. ASSUME NEW y \in At(z), ~IsFree(z, y)  PROVE ~IsFree(w, y)
    <3>1. CASE y = b  BY <1>3, <3>1 DEF IsFree
    <3>2. CASE y # b  BY <1>3, <2>2, <3>2 DEF IsFree
    <3>3. QED  BY <3>1, <3>2
  <2>3. CASE x = cut
    <3>1. ~IsFree(z, n)  BY DEF Apart, n
    <3>2. QED  BY <1>1, <1>3, <2>2, <2>3, <3>1
  <2>4. CASE x # cut
    <3>1. x \in At(z) \ {b}  BY <1>3, <2>1, <2>4
    <3>2. IsFree(z, x) /\ w.blocks[x].next = z.blocks[x].next  BY <1>3, <1>11, <3>1 DEF IsFree
    <3>3. z.blocks[x].next \in At(z) /\ ~IsFree(z, z.blocks[x].next)
      BY <1>4, <3>1, <3>2 DEF Linked, Apart
    <3>4. QED  BY <2>2, <3>2, <3>3
  <2>5. QED  BY <2>3, <2>4
<1>12. IsTaken(w, z, b, t, u)
  <2>1. ASSUME NEW x \in At(w) \ At(z)  PROVE IsFree(w, x)  BY <1>3, <2>1 DEF IsFree
  <2>2. QED  BY <1>3, <2>1 DEF IsTaken
<1>13. QED
  <2>1. Tiled(w, end) /\ Ordered(w)  BY <1>7, <1>8 DEF Tiled, Ordered
  <2>2. Unowned(w) /\ Apart(w)  BY <1>10, <1>11 DEF Unowned, Apart
  <2>3. QED  BY <1>6, <1>9, <1>12, <2>1, <2>2 DEF List

\* A list stays one when a free block is taken, and the others stay as they are.
LEMMA TakenKeeps ==
  ASSUME Shape, NEW z, NEW end \in Nat, List(z, end), Apart(z), NEW b \in At(z), IsFree(z, b),
         NEW size \in Nat, size >= Header, z.blocks[b].size >= size,
         NEW t \in Tags, t # FreeTag, NEW u \in Users
  PROVE  LET w == Taken(z, b, size, t, u) IN
         List(w, end) /\ Apart(w) /\ IsTaken(w, z, b, t, u)
<1> DEFINE w == Taken(z, b, size, t, u)
<1>1. /\ z.blocks[b].next # b /\ b # Cap /\ z.blocks[b].size \in Nat
      /\ Typed(z) /\ Linked(z) /\ MinFragment \in Nat
  BY Follows, Fields DEF List, Shape
<1>2. CASE z.blocks[b].size - size > MinFragment
  <2>1. b + size \notin At(z)  BY <1>1, <1>2, CutIsNew
  <2>2. Typed(w) /\ IsTakenCut(w, z, b, size, t, u)  BY <1>1, <1>2, <2>1, TakenCut
  <2> HIDE DEF w
  <2>3. List(w, end) /\ Apart(w) /\ IsTaken(w, z, b, t, u)  BY <1>2, <2>2, TakenCutKeeps
  <2>4. QED  BY <2>3 DEF w
<1>3. CASE ~(z.blocks[b].size - size > MinFragment)
  <2>1. Typed(w) /\ IsTakenWhole(w, z, b, t, u)  BY <1>1, <1>3, TakenWhole
  <2> HIDE DEF w
  <2>2. List(w, end) /\ Apart(w) /\ IsTaken(w, z, b, t, u)  BY <2>1, TakenWholeKeeps
  <2>3. QED  BY <2>2 DEF w
<1>4. QED  BY <1>2, <1>3

-----------------------------------------------------------------------------
(* The zone as it begins, and what is checked of it.                        *)

\* Z_ClearZone leaves a list.
LEMMA ClearedIs ==
  ASSUME Shape, NEW end \in Nat, end >= ZoneHeader + Header,
         NEW z, z = [blocks |-> [b \in {Cap, ZoneHeader} |->
                       IF b = Cap THEN Block(0, "cap", NoUser, ZoneHeader, ZoneHeader)
                                  ELSE Block(end - ZoneHeader, FreeTag, NoUser, Cap, Cap)],
                     rover  |-> ZoneHeader]
  PROVE  List(z, end) /\ Apart(z)
<1>1. ZoneHeader # Cap /\ ZoneHeader \in Nat /\ Cap \in Nat /\ Header \in Nat /\ end - ZoneHeader \in Nat
      /\ end - ZoneHeader >= Header /\ ZoneHeader + (end - ZoneHeader) = end
  BY DEF Shape, Cap
<1>2. /\ At(z) = {Cap, ZoneHeader} /\ z.rover = ZoneHeader
      /\ z = [blocks |-> z.blocks, rover |-> z.rover]
      /\ z.blocks[Cap] = Block(0, "cap", NoUser, ZoneHeader, ZoneHeader)
      /\ z.blocks[ZoneHeader] = Block(end - ZoneHeader, FreeTag, NoUser, Cap, Cap)
  BY <1>1 DEF At
<1>3. /\ z.blocks[Cap] \in BlockType /\ z.blocks[ZoneHeader] \in BlockType
      /\ z.blocks[Cap].tag = "cap" /\ z.blocks[Cap].user = NoUser
      /\ z.blocks[Cap].next = ZoneHeader /\ z.blocks[Cap].prev = ZoneHeader
      /\ z.blocks[ZoneHeader].tag = FreeTag /\ z.blocks[ZoneHeader].user = NoUser
      /\ z.blocks[ZoneHeader].next = Cap /\ z.blocks[ZoneHeader].prev = Cap
      /\ z.blocks[ZoneHeader].size = end - ZoneHeader
  BY <1>1, <1>2 DEF Block, BlockType, Tags, Users, FreeTag
<1>4. z.blocks \in [At(z) -> BlockType]
  <2>1. z.blocks = [b \in At(z) |-> z.blocks[b]]  BY <1>2
  <2>2. \A b \in At(z) : z.blocks[b] \in BlockType  BY <1>2, <1>3
  <2>3. QED  BY <2>1, <2>2
<1>5. Typed(z)  BY <1>1, <1>2, <1>4 DEF Typed
<1>6. Linked(z)  BY <1>1, <1>2, <1>3 DEF Linked
<1>7. Tiled(z, end)  BY <1>1, <1>2, <1>3 DEF Tiled
<1>8. Ordered(z)
  <2>1. SUFFICES ASSUME NEW x \in At(z), NEW y \in At(z), x < y
                 PROVE  z.blocks[x].next # Cap /\ z.blocks[x].next <= y
    BY DEF Ordered
  <2>2. x = Cap /\ y = ZoneHeader
    BY <1>1, <1>2, <2>1 DEF Cap
  <2>3. QED  BY <1>1, <1>3, <2>2
<1>9. Capped(z) /\ Unowned(z) /\ Apart(z)
  BY <1>1, <1>2, <1>3 DEF Capped, Unowned, Apart, IsFree, FreeTag
<1>10. QED  BY <1>5, <1>6, <1>7, <1>8, <1>9 DEF List

\* The list is the zone that Z_CheckHeap finds nothing wrong with.
LEMMA ListIsZone ==
  ASSUME Shape, NEW z, NEW end \in Nat, List(z, end), Apart(z)
  PROVE  /\ Cap \in At(z) /\ ZoneHeader \in At(z) /\ z.rover \in At(z)
         /\ z.blocks[Cap].tag = "cap" /\ z.blocks[Cap].next = ZoneHeader
         /\ \A b \in At(z) :
              /\ z.blocks[b].next \in At(z)
              /\ z.blocks[z.blocks[b].next].prev = b
              /\ b # Cap =>
                   /\ z.blocks[b].size >= Header
                   /\ b + z.blocks[b].size = IF z.blocks[b].next = Cap THEN end ELSE z.blocks[b].next
         /\ CheckHeap(z)
<1>1. Cap \in At(z) /\ ZoneHeader \in At(z) /\ z.rover \in At(z)
      /\ z.blocks[Cap].tag = "cap" /\ z.blocks[Cap].next = ZoneHeader
  BY DEF List, Capped, Linked, Typed
<1>2. \A b \in At(z) :
        /\ z.blocks[b].next \in At(z)
        /\ z.blocks[z.blocks[b].next].prev = b
        /\ b # Cap =>
             /\ z.blocks[b].size >= Header
             /\ b + z.blocks[b].size = IF z.blocks[b].next = Cap THEN end ELSE z.blocks[b].next
  BY DEF List, Linked, Tiled
<1>3. \A b \in At(z) : IsFree(z, b) => ~IsFree(z, z.blocks[b].next)  BY DEF Apart
<1>4. CheckHeap(z)  BY <1>2, <1>3 DEF CheckHeap, At
<1>5. QED  BY <1>1, <1>2, <1>4

-----------------------------------------------------------------------------
(* Quake's zone (QuakeZone).                                                *)

\* The lists of the two zones are those of ZoneList.
LEMMA SameList ==
  /\ \A z, b : Z!IsFree(z, b) = IsFree(z, b) /\ D!IsFree(z, b) = IsFree(z, b)
  /\ \A z, b : Z!Released(z, b) = Released(z, b) /\ D!Released(z, b) = Released(z, b)
  /\ \A z, b, size, tag, user : Z!Taken(z, b, size, tag, user) = Taken(z, b, size, tag, user)
  /\ \A z, b, size, tag, user : D!Taken(z, b, size, tag, user) = Taken(z, b, size, tag, user)
  /\ \A z : Z!CheckHeap(z) = CheckHeap(z) /\ D!CheckHeap(z) = CheckHeap(z)
  /\ \A n : Z!RoundUp(n) = RoundUp(n) /\ D!RoundUp(n) = RoundUp(n)
  /\ Z!Cap = Cap /\ D!Cap = Cap /\ Z!NoUser = NoUser /\ D!NoUser = NoUser
  /\ Z!FreeTag = FreeTag /\ D!FreeTag = FreeTag
<1>1. \A z, b : Z!IsFree(z, b) = IsFree(z, b) /\ D!IsFree(z, b) = IsFree(z, b)
  BY DEF Z!IsFree, D!IsFree, IsFree, Z!FreeTag, D!FreeTag, FreeTag
<1>2. \A z, b : Z!Released(z, b) = Released(z, b) /\ D!Released(z, b) = Released(z, b)
  <2>1. \A z, a, b : Z!Absorbed(z, a, b) = Absorbed(z, a, b) /\ D!Absorbed(z, a, b) = Absorbed(z, a, b)
    BY DEF Z!Absorbed, D!Absorbed, Absorbed, Z!Restrict, D!Restrict, Restrict
  <2>2. \A z, b : Z!Released(z, b) = Released(z, b)
    BY <1>1, <2>1 DEF Z!Released, Released, Z!FreeTag, FreeTag, Z!NoUser, NoUser
  <2>3. \A z, b : D!Released(z, b) = Released(z, b)
    BY <1>1, <2>1 DEF D!Released, Released, D!FreeTag, FreeTag, D!NoUser, NoUser
  <2>4. QED  BY <2>2, <2>3
<1>3. \A z, b, size, tag, user : Z!Taken(z, b, size, tag, user) = Taken(z, b, size, tag, user)
  BY DEF Z!Taken, Taken, Z!Block, Block, Z!FreeTag, FreeTag, Z!NoUser, NoUser
<1>4. \A z, b, size, tag, user : D!Taken(z, b, size, tag, user) = Taken(z, b, size, tag, user)
  BY DEF D!Taken, Taken, D!Block, Block, D!FreeTag, FreeTag, D!NoUser, NoUser
<1>5. \A z : Z!CheckHeap(z) = CheckHeap(z) /\ D!CheckHeap(z) = CheckHeap(z)
  BY DEF Z!CheckHeap, D!CheckHeap, CheckHeap, Z!Cap, D!Cap, Cap,
    Z!IsFree, D!IsFree, IsFree, Z!FreeTag, D!FreeTag, FreeTag
<1>6. \A n : Z!RoundUp(n) = RoundUp(n) /\ D!RoundUp(n) = RoundUp(n)
  BY DEF Z!RoundUp, D!RoundUp, RoundUp
<1>7. /\ Z!Cap = Cap /\ D!Cap = Cap /\ Z!NoUser = NoUser /\ D!NoUser = NoUser
      /\ Z!FreeTag = FreeTag /\ D!FreeTag = FreeTag
  BY DEF Z!Cap, D!Cap, Cap, Z!NoUser, D!NoUser, NoUser, Z!FreeTag, D!FreeTag, FreeTag
<1>8. QED  BY <1>1, <1>2, <1>3, <1>4, <1>5, <1>6, <1>7

\* A size is rounded up.
LEMMA RoundUpIs ==
  ASSUME Align \in Nat \ {0}, NEW n \in Nat
  PROVE  RoundUp(n) \in Nat /\ RoundUp(n) >= n
<1> DEFINE m == n + Align - 1
           q == m \div Align
           r == m % Align
<1>1. m \in Nat  OBVIOUS
<1> HIDE DEF m
<1>2. q \in Nat /\ r \in 0 .. Align - 1 /\ m = q * Align + r  BY <1>1
<1> HIDE DEF q, r
<1>3. q * Align \in Nat  BY <1>2
<1>4. q * Align >= n  BY <1>2, <1>3 DEF m
<1>5. QED  BY <1>3, <1>4 DEF RoundUp, q, m

\* What a search passed that began at f and is at r: it went up, and around from the last block.
Passed(f, x, r) == IF f <= r THEN f <= x /\ x < r ELSE f <= x \/ x < r

\* One block further, it passed one block more.
LEMMA PassedNext ==
  ASSUME Shape, NEW z, NEW end \in Nat, List(z, end), NEW f \in At(z), NEW r \in At(z),
         z.blocks[r].next # f, NEW x \in At(z), Passed(f, x, z.blocks[r].next)
  PROVE  x = r \/ Passed(f, x, r)
<1> DEFINE n == z.blocks[r].next
<1>1. n \in At(z) /\ n \in Nat /\ (n # Cap => r < n) /\ f \in Nat /\ r \in Nat /\ x \in Nat
  BY Follows, Fields DEF List
<1>2. /\ x > r => n # Cap /\ n <= x
      /\ f > r => n # Cap /\ n <= f
  BY DEF List, Ordered
<1> HIDE DEF n
<1>3. n # f /\ Passed(f, x, n)  BY DEF n
<1>4. QED  BY <1>1, <1>2, <1>3 DEF Passed, Cap

\* Before the block where it began, it has passed all others.
LEMMA PassedAll ==
  ASSUME Shape, NEW z, NEW end \in Nat, List(z, end), NEW s \in At(z), NEW x \in At(z)
  PROVE  x = s \/ Passed(z.blocks[s].next, x, s)
<1> DEFINE f == z.blocks[s].next
<1>1. f \in At(z) /\ f \in Nat /\ (f # Cap => s < f) /\ s \in Nat /\ x \in Nat
  BY Follows, Fields DEF List
<1>2. x > s => f # Cap /\ f <= x  BY DEF List, Ordered
<1> HIDE DEF f
<1>3. x = s \/ Passed(f, x, s)  BY <1>1, <1>2 DEF Passed, Cap
<1>4. QED  BY <1>3 DEF f

Small(z, x, size) == IsFree(z, x) => z.blocks[x].size < size

\* A search: what it passed was too small, so is where it is but at the beginning.
Searched(z, c) ==
  LET f == z.blocks[c.start].next IN
  /\ \A x \in At(z) : Passed(f, x, c.rover) => Small(z, x, c.size)
  /\ c.rover # f => Small(z, c.rover, c.size)
  /\ c.rover = f => c.base = f

QuakeCall ==
  /\ quakeCall \in [at : {"idle", "scan", "failed"}, size : Nat,
                    base : Nat, rover : Nat, start : Nat]
  /\ {quakeCall.base, quakeCall.rover, quakeCall.start} \subseteq At(quakeZone)
  /\ quakeCall.at = "scan" => quakeCall.size >= Header /\ Searched(quakeZone, quakeCall)

QuakeInv ==
  /\ List(quakeZone, ZoneSize) /\ Apart(quakeZone)
  /\ QuakeCall
  /\ Z!FailsOnlyWhenFull

\* The assumptions on the constants of Quake's zone.
LEMMA QuakeShape ==
  ASSUME Z!ZoneAssumption, Z!RequestAssumption
  PROVE  /\ Shape /\ ZoneSize \in Nat /\ ZoneSize >= ZoneHeader + Header
         /\ QuakeSize \subseteq Nat /\ Trash \in Nat
  BY DEF Z!ZoneAssumption, Z!RequestAssumption, Shape

\* The invariant at the beginning.
LEMMA QuakeInit ==
  ASSUME Z!ZoneAssumption, Z!RequestAssumption, Z!Init
  PROVE  QuakeInv
<1>1. quakeZone = [blocks |-> [b \in {Cap, ZoneHeader} |->
                     IF b = Cap THEN Block(0, "cap", NoUser, ZoneHeader, ZoneHeader)
                                ELSE Block(ZoneSize - ZoneHeader, FreeTag, NoUser, Cap, Cap)],
                   rover  |-> ZoneHeader]
  BY DEF Z!Init, Z!Cleared, Z!Cap, Cap, Z!Block, Block, Z!NoUser, NoUser, Z!FreeTag, FreeTag
<1>2. List(quakeZone, ZoneSize) /\ Apart(quakeZone)  BY <1>1, QuakeShape, ClearedIs
<1>3. Cap \in At(quakeZone)  BY <1>2 DEF List, Capped
<1>4. quakeCall = [at |-> "idle", size |-> 0, base |-> Cap, rover |-> Cap, start |-> Cap]
  BY SameList DEF Z!Init, Z!Idle
<1>5. QuakeCall  BY <1>3, <1>4 DEF QuakeCall, Cap
<1>6. QED  BY <1>2, <1>4, <1>5 DEF QuakeInv, Z!FailsOnlyWhenFull

\* A search begins.
LEMMA QuakeMalloc ==
  ASSUME Shape, ZoneSize \in Nat, Trash \in Nat, QuakeInv, NEW n \in Nat, Z!Z_Malloc(n)
  PROVE  QuakeInv'
<1> DEFINE r == quakeZone.rover
           s == quakeZone.blocks[r].prev
           size == RoundUp(n + Header + Trash)
<1>1. List(quakeZone, ZoneSize) /\ Apart(quakeZone)  BY DEF QuakeInv
<1>2. Z!CheckHeap(quakeZone)  BY <1>1, ListIsZone, SameList
<1>3. quakeZone' = quakeZone
      /\ quakeCall' = [at |-> "scan", size |-> size, base |-> r, rover |-> r, start |-> s]
  BY <1>2, SameList DEF Z!Z_Malloc
<1>4. r \in At(quakeZone) /\ s \in At(quakeZone) /\ quakeZone.blocks[s].next = r
      /\ r \in Nat /\ s \in Nat
  <2>1. r \in At(quakeZone)  BY <1>1 DEF List, Typed
  <2>2. s \in At(quakeZone) /\ quakeZone.blocks[s].next = r  BY <1>1, <2>1 DEF List, Linked
  <2>3. QED  BY <1>1, <2>1, <2>2, Fields DEF List
<1>5. size \in Nat /\ size >= Header
  <2>1. n + Header + Trash \in Nat /\ Header \in Nat  BY DEF Shape
  <2>2. size \in Nat /\ size >= n + Header + Trash  BY <2>1, RoundUpIs DEF Shape
  <2>3. QED  BY <2>1, <2>2
<1> HIDE DEF r, s, size
<1>6. \A x \in At(quakeZone) : ~Passed(r, x, r)
  <2>1. SUFFICES ASSUME NEW x \in At(quakeZone)  PROVE ~Passed(r, x, r)  OBVIOUS
  <2>2. x \in Nat  BY <1>1, Fields DEF List
  <2>3. QED  BY <1>4, <2>2 DEF Passed
<1>7. Searched(quakeZone', quakeCall')  BY <1>3, <1>4, <1>6 DEF Searched
<1>8. QuakeCall'  BY <1>3, <1>4, <1>5, <1>7 DEF QuakeCall
<1>9. Z!FailsOnlyWhenFull'  BY <1>3 DEF Z!FailsOnlyWhenFull
<1>10. QED  BY <1>1, <1>3, <1>8, <1>9 DEF QuakeInv

\* One turn of it.
LEMMA QuakeScan ==
  ASSUME Shape, ZoneSize \in Nat, QuakeInv, Z!Scan
  PROVE  QuakeInv'
<1> DEFINE r == quakeCall.rover
           s == quakeCall.start
           f == quakeZone.blocks[s].next
           n == quakeZone.blocks[r].next
           base == IF IsFree(quakeZone, r) THEN quakeCall.base ELSE n
           size == quakeCall.size
<1>1. List(quakeZone, ZoneSize) /\ Apart(quakeZone)  BY DEF QuakeInv
<1>2. /\ quakeCall \in [at : {"idle", "scan", "failed"}, size : Nat,
                        base : Nat, rover : Nat, start : Nat]
      /\ r \in At(quakeZone) /\ s \in At(quakeZone) /\ quakeCall.base \in At(quakeZone)
      /\ quakeCall.at = "scan" /\ size >= Header /\ size \in Nat
      /\ Searched(quakeZone, quakeCall)
  BY DEF QuakeInv, QuakeCall, Z!Scan
<1>3. f \in At(quakeZone) /\ n \in At(quakeZone) /\ f \in Nat /\ n \in Nat /\ base \in At(quakeZone)
      /\ r \in Nat /\ s \in Nat /\ base \in Nat
  BY <1>1, <1>2, Follows, Fields DEF List
<1>4. /\ \A x \in At(quakeZone) : Passed(f, x, r) => Small(quakeZone, x, size)
      /\ r # f => Small(quakeZone, r, size)
      /\ r = f => quakeCall.base = f
  BY <1>2 DEF Searched
<1>5. IF r = s
        THEN quakeCall' = [quakeCall EXCEPT !.at = "failed"] /\ quakeZone' = quakeZone
        ELSE IF IsFree(quakeZone, base) /\ quakeZone.blocks[base].size >= size
          THEN quakeCall' = Z!Idle /\ quakeZone' = Taken(quakeZone, base, size, "used", NoUser)
          ELSE quakeCall' = [quakeCall EXCEPT !.rover = n, !.base = base] /\ quakeZone' = quakeZone
  BY SameList DEF Z!Scan
<1> HIDE DEF r, s, f, n, base, size
<1>6. CASE r = s
  <2>1. quakeCall' = [quakeCall EXCEPT !.at = "failed"] /\ quakeZone' = quakeZone  BY <1>5, <1>6
  <2>2. f # s  BY <1>1, <1>2, Follows DEF f
  <2>3. \A x \in At(quakeZone) : Small(quakeZone, x, size)
    BY <1>1, <1>2, <1>4, <1>6, <2>2, PassedAll DEF f
  <2>4. /\ quakeCall' \in [at : {"idle", "scan", "failed"}, size : Nat,
                           base : Nat, rover : Nat, start : Nat]
        /\ quakeCall'.at = "failed" /\ quakeCall'.size = size /\ quakeCall'.base = quakeCall.base
        /\ quakeCall'.rover = r /\ quakeCall'.start = s
    BY <1>2, <2>1 DEF r, s, size
  <2>5. QuakeCall'  BY <1>2, <2>1, <2>4 DEF QuakeCall
  <2>6. Z!FailsOnlyWhenFull'
    BY <2>1, <2>3, <2>4, SameList DEF Z!FailsOnlyWhenFull, Small, At
  <2>7. QED  BY <1>1, <2>1, <2>5, <2>6 DEF QuakeInv
<1>7. CASE r # s /\ IsFree(quakeZone, base) /\ quakeZone.blocks[base].size >= size
  <2>1. quakeCall' = Z!Idle /\ quakeZone' = Taken(quakeZone, base, size, "used", NoUser)
    BY <1>5, <1>7
  <2>2. "used" \in Tags /\ "used" # FreeTag /\ NoUser \in Users  BY DEF Tags, FreeTag, Users
  <2>3. List(quakeZone', ZoneSize) /\ Apart(quakeZone')
    BY <1>1, <1>2, <1>3, <1>7, <2>1, <2>2, TakenKeeps
  <2>4. Cap \in At(quakeZone')  BY <2>3 DEF List, Capped
  <2>5. quakeCall' = [at |-> "idle", size |-> 0, base |-> Cap, rover |-> Cap, start |-> Cap]
    BY <2>1, SameList DEF Z!Idle
  <2>6. QuakeCall'  BY <2>4, <2>5 DEF QuakeCall, Cap
  <2>7. Z!FailsOnlyWhenFull'  BY <2>5 DEF Z!FailsOnlyWhenFull
  <2>8. QED  BY <2>3, <2>6, <2>7 DEF QuakeInv
<1>8. CASE r # s /\ ~(IsFree(quakeZone, base) /\ quakeZone.blocks[base].size >= size)
  <2>1. quakeCall' = [quakeCall EXCEPT !.rover = n, !.base = base] /\ quakeZone' = quakeZone
    BY <1>5, <1>8
  <2>2. /\ quakeCall' \in [at : {"idle", "scan", "failed"}, size : Nat,
                           base : Nat, rover : Nat, start : Nat]
        /\ quakeCall'.at = "scan" /\ quakeCall'.size = size /\ quakeCall'.base = base
        /\ quakeCall'.rover = n /\ quakeCall'.start = s
    BY <1>2, <1>3, <2>1 DEF s, size
  <2>3. Small(quakeZone, base, size)
    <3>1. quakeZone.blocks[base].size \in Nat  BY <1>1, <1>3, Fields DEF List
    <3>2. QED  BY <1>2, <1>8, <3>1 DEF Small
  <2>4. n # f
    <3>1. quakeZone.blocks[n].prev = r /\ quakeZone.blocks[f].prev = s
      BY <1>1, <1>2 DEF List, Linked, n, f
    <3>2. QED  BY <1>8, <3>1
  <2>5. Small(quakeZone, r, size)
    <3>1. CASE r # f  BY <1>4, <3>1
    <3>2. CASE r = f
      <4>1. CASE IsFree(quakeZone, r)
        <5>1. base = r  BY <1>4, <3>2, <4>1 DEF base
        <5>2. QED  BY <2>3, <5>1
      <4>2. CASE ~IsFree(quakeZone, r)  BY <4>2 DEF Small
      <4>3. QED  BY <4>1, <4>2
    <3>3. QED  BY <3>1, <3>2
  <2>6. ASSUME NEW x \in At(quakeZone), Passed(f, x, n)  PROVE Small(quakeZone, x, size)
    <3>1. x = r \/ Passed(f, x, r)
      BY <1>1, <1>2, <1>3, <2>4, <2>6, PassedNext DEF n
    <3>2. QED  BY <1>4, <2>5, <3>1
  <2>7. Small(quakeZone, n, size)
    <3>1. CASE IsFree(quakeZone, r)
      <4>1. ~IsFree(quakeZone, n)  BY <1>1, <1>2, <3>1 DEF Apart, n
      <4>2. QED  BY <4>1 DEF Small
    <3>2. CASE ~IsFree(quakeZone, r)
      <4>1. base = n  BY <3>2 DEF base
      <4>2. QED  BY <2>3, <4>1
    <3>3. QED  BY <3>1, <3>2
  <2>8. Searched(quakeZone', quakeCall')
    BY <2>1, <2>2, <2>4, <2>6, <2>7 DEF Searched, f
  <2>9. QuakeCall'  BY <1>2, <1>3, <2>1, <2>2, <2>8 DEF QuakeCall
  <2>10. Z!FailsOnlyWhenFull'  BY <2>2 DEF Z!FailsOnlyWhenFull
  <2>11. QED  BY <1>1, <2>1, <2>9, <2>10 DEF QuakeInv
<1>9. QED  BY <1>6, <1>7, <1>8

\* A block is given back.
LEMMA QuakeFree ==
  ASSUME Shape, ZoneSize \in Nat, QuakeInv, NEW b, Z!Z_Free(b)
  PROVE  QuakeInv'
<1>1. List(quakeZone, ZoneSize) /\ Apart(quakeZone)  BY DEF QuakeInv
<1>2. /\ b \in At(quakeZone) /\ quakeZone.blocks[b].tag = "used"
      /\ quakeZone' = Released(quakeZone, b) /\ quakeCall' = quakeCall
      /\ quakeCall = [at |-> "idle", size |-> 0, base |-> Cap, rover |-> Cap, start |-> Cap]
  BY SameList DEF Z!Z_Free, Z!Idle, At
<1>3. b # Cap /\ ~IsFree(quakeZone, b)  BY <1>1, <1>2 DEF List, Capped, IsFree, FreeTag
<1>4. List(quakeZone', ZoneSize) /\ Apart(quakeZone')  BY <1>1, <1>2, <1>3, ReleasedKeeps
<1>5. Cap \in At(quakeZone')  BY <1>4 DEF List, Capped
<1>6. QuakeCall'  BY <1>2, <1>5 DEF QuakeCall, Cap
<1>7. Z!FailsOnlyWhenFull'  BY <1>2 DEF Z!FailsOnlyWhenFull
<1>8. QED  BY <1>4, <1>6, <1>7 DEF QuakeInv

\* Every step of the specification keeps it.
LEMMA QuakeStep ==
  ASSUME Z!ZoneAssumption, Z!RequestAssumption, QuakeInv, [Z!Next]_Z!vars
  PROVE  QuakeInv'
<1>1. Shape /\ ZoneSize \in Nat /\ QuakeSize \subseteq Nat /\ Trash \in Nat  BY QuakeShape
<1>2. ASSUME NEW n \in QuakeSize, Z!Z_Malloc(n)  PROVE QuakeInv'
  <2>1. n \in Nat  BY <1>1
  <2>2. QED  BY <1>1, <1>2, <2>1, QuakeMalloc
<1>3. ASSUME NEW b, Z!Z_Free(b)  PROVE QuakeInv'  BY <1>1, <1>3, QuakeFree
<1>4. CASE Z!Scan  BY <1>1, <1>4, QuakeScan
<1>5. CASE UNCHANGED Z!vars
  <2>1. quakeZone' = quakeZone /\ quakeCall' = quakeCall  BY <1>5 DEF Z!vars
  <2>2. QED  BY <2>1 DEF QuakeInv, QuakeCall, Z!FailsOnlyWhenFull
<1>6. QED  BY <1>2, <1>3, <1>4, <1>5 DEF Z!Next

\* Quake's zone is whole after every call, for every size of it, of its headers and of what is
\* asked for: its blocks fill it, linked both ways and never two free ones in a row.
THEOREM QuakeZoneIsSound ==
  ASSUME Z!ZoneAssumption, Z!RequestAssumption
  PROVE  Z!Spec => []Z!Sound
<1>1. Z!Init => QuakeInv  BY QuakeInit
<1>2. QuakeInv /\ [Z!Next]_Z!vars => QuakeInv'  BY QuakeStep
<1>3. QuakeInv => Z!Sound
  <2>1. SUFFICES ASSUME QuakeInv  PROVE Z!Sound  OBVIOUS
  <2>2. List(quakeZone, ZoneSize) /\ Apart(quakeZone) /\ QuakeCall  BY <2>1 DEF QuakeInv
  <2>3. Z!IsZone(quakeZone)
    BY <2>2, ListIsZone, QuakeShape, SameList DEF Z!IsZone, At
  <2>4. Z!CheckHeap(quakeZone)  BY <2>2, ListIsZone, QuakeShape, SameList
  <2>5. QED  BY <2>2, <2>3, <2>4 DEF Z!Sound, QuakeCall, At
<1>4. QED  BY <1>1, <1>2, <1>3, PTL DEF Z!Spec

\* A search gives up only when no free block would do, wherever it began.
THEOREM QuakeZoneFailsOnlyWhenFull ==
  ASSUME Z!ZoneAssumption, Z!RequestAssumption
  PROVE  Z!Spec => []FailsOnlyWhenFull
<1>1. Z!Init => QuakeInv  BY QuakeInit
<1>2. QuakeInv /\ [Z!Next]_Z!vars => QuakeInv'  BY QuakeStep
<1>3. QuakeInv => FailsOnlyWhenFull  BY DEF QuakeInv, FailsOnlyWhenFull
<1>4. QED  BY <1>1, <1>2, <1>3, PTL DEF Z!Spec

-----------------------------------------------------------------------------
(* Doom's zone and the lumps that it caches (DoomZone).                     *)

\* The assumptions on the constants of Doom's zone.
LEMMA DoomShape ==
  ASSUME D!ZoneAssumption, D!LumpAssumption
  PROVE  /\ Shape /\ DoomZoneSize \in Nat /\ DoomZoneSize >= ZoneHeader + Header
         /\ DoomSize \subseteq Nat /\ LumpSize \in [Lump -> Nat] /\ NoUser \notin Lump
  BY SameList DEF D!ZoneAssumption, D!LumpAssumption, Shape

\* A lump points to the block that has it as its user, or to none.
Owned(z, m) ==
  /\ m \in [Lump -> Nat]
  /\ \A b \in At(z) : z.blocks[b].user \in Lump => m[z.blocks[b].user] = b
  /\ \A l \in Lump : m[l] # Cap => m[l] \in At(z) /\ z.blocks[m[l]].user = l

\* A block in use stays as it is.
Stays(w, z, x) ==
  /\ x \in At(w) /\ w.blocks[x].size = z.blocks[x].size
  /\ w.blocks[x].tag = z.blocks[x].tag /\ w.blocks[x].user = z.blocks[x].user

\* The block that is taken becomes that of the lump it is for.
LEMMA OwnedTaken ==
  ASSUME Shape, NEW end \in Nat, NoUser \notin Lump,
         NEW z, List(z, end), NEW m, Owned(z, m), NEW b \in At(z), IsFree(z, b),
         NEW t, NEW u, u \in Lump => m[u] = Cap,
         NEW w, List(w, end), IsTaken(w, z, b, t, u)
  PROVE  Owned(w, [l \in Lump |-> IF l = u THEN b ELSE m[l]])
<1> DEFINE c == [l \in Lump |-> IF l = u THEN b ELSE m[l]]
<1>1. /\ m \in [Lump -> Nat]
      /\ \A x \in At(z) : z.blocks[x].user \in Lump => m[z.blocks[x].user] = x
      /\ \A l \in Lump : m[l] # Cap => m[l] \in At(z) /\ z.blocks[m[l]].user = l
  BY DEF Owned
<1>2. /\ At(z) \subseteq At(w)
      /\ \A x \in At(z) \ {b} : w.blocks[x].user = z.blocks[x].user
      /\ w.blocks[b].user = u
      /\ \A x \in At(w) \ At(z) : IsFree(w, x)
  BY DEF IsTaken
<1>3. b \in Nat /\ b # Cap /\ z.blocks[b].user = NoUser
  BY Follows, Fields DEF List, Unowned
<1>4. z.blocks[Cap].user = NoUser  BY DEF List, Capped
<1>5. c \in [Lump -> Nat]  BY <1>1, <1>3
<1>6. \A l \in Lump : c[l] = IF l = u THEN b ELSE m[l]  OBVIOUS
<1> HIDE DEF c
<1>7. ASSUME NEW x \in At(w), w.blocks[x].user \in Lump
      PROVE  c[w.blocks[x].user] = x
  <2>1. CASE x = b  BY <1>2, <1>6, <1>7, <2>1
  <2>2. CASE x \in At(z) \ {b}
    <3>1. w.blocks[x].user = z.blocks[x].user /\ z.blocks[x].user \in Lump  BY <1>2, <1>7, <2>2
    <3>2. m[z.blocks[x].user] = x  BY <1>1, <2>2, <3>1
    <3>3. z.blocks[x].user # u
      <4>1. SUFFICES ASSUME z.blocks[x].user = u  PROVE FALSE  OBVIOUS
      <4>2. x = Cap  BY <3>1, <3>2, <4>1
      <4>3. QED  BY <1>4, <3>1, <4>2
    <3>4. QED  BY <1>6, <3>1, <3>2, <3>3
  <2>3. CASE x \notin At(z)
    <3>1. w.blocks[x].user = NoUser  BY <1>2, <2>3 DEF List, Unowned
    <3>2. QED  BY <1>7, <3>1
  <2>4. QED  BY <2>1, <2>2, <2>3
<1>8. ASSUME NEW l \in Lump, c[l] # Cap
      PROVE  c[l] \in At(w) /\ w.blocks[c[l]].user = l
  <2>1. CASE l = u  BY <1>2, <1>6, <2>1
  <2>2. CASE l # u
    <3>1. c[l] = m[l] /\ m[l] \in At(z) /\ z.blocks[m[l]].user = l  BY <1>1, <1>6, <1>8, <2>2
    <3>2. m[l] # b  BY <1>3, <3>1
    <3>3. QED  BY <1>2, <3>1, <3>2
  <2>3. QED  BY <2>1, <2>2
<1>9. QED  BY <1>5, <1>7, <1>8 DEF Owned, c

\* The lump of a freed block has none any more; the others keep theirs.
LEMMA OwnedReleased ==
  ASSUME Shape, NEW end \in Nat, NoUser \notin Lump,
         NEW z, List(z, end), NEW m, Owned(z, m), NEW b \in At(z),
         NEW w, List(w, end), IsReleased(w, z, b),
         NEW c \in [Lump -> Nat], \A l \in Lump : c[l] = IF z.blocks[b].user = l THEN Cap ELSE m[l]
  PROVE  Owned(w, c)
<1>1. /\ \A x \in At(z) : z.blocks[x].user \in Lump => m[z.blocks[x].user] = x
      /\ \A l \in Lump : m[l] # Cap => m[l] \in At(z) /\ z.blocks[m[l]].user = l
  BY DEF Owned
<1>2. /\ At(w) \subseteq At(z)
      /\ \A x \in At(z) : ~IsFree(z, x) /\ x # b =>
           x \in At(w) /\ w.blocks[x].user = z.blocks[x].user
      /\ \A x \in At(w) : IsFree(z, x) \/ x = b => IsFree(w, x)
  BY DEF IsReleased
<1>3. /\ \A x \in At(z) : IsFree(z, x) => z.blocks[x].user = NoUser
      /\ \A x \in At(w) : IsFree(w, x) => w.blocks[x].user = NoUser
  BY DEF List, Unowned
<1>4. ASSUME NEW x \in At(w), w.blocks[x].user \in Lump
      PROVE  c[w.blocks[x].user] = x
  <2>1. x \in At(z) /\ ~IsFree(z, x) /\ x # b /\ w.blocks[x].user = z.blocks[x].user
    BY <1>2, <1>3, <1>4
  <2>2. m[z.blocks[x].user] = x  BY <1>1, <1>4, <2>1
  <2>3. z.blocks[b].user # z.blocks[x].user  BY <1>1, <1>4, <2>1, <2>2
  <2>4. QED  BY <1>4, <2>1, <2>2, <2>3
<1>5. ASSUME NEW l \in Lump, c[l] # Cap
      PROVE  c[l] \in At(w) /\ w.blocks[c[l]].user = l
  <2>1. z.blocks[b].user # l /\ c[l] = m[l]  BY <1>5
  <2>2. m[l] \in At(z) /\ z.blocks[m[l]].user = l  BY <1>1, <1>5, <2>1
  <2>3. m[l] # b /\ ~IsFree(z, m[l])  BY <1>3, <2>1, <2>2
  <2>4. QED  BY <1>2, <2>1, <2>2, <2>3
<1>6. QED  BY <1>4, <1>5 DEF Owned

\* Another tag, in a block that is in use.
LEMMA RetaggedKeeps ==
  ASSUME Shape, NEW z, NEW end \in Nat, List(z, end), Apart(z),
         NEW b \in At(z), b # Cap, ~IsFree(z, b), NEW t \in Tags, t # FreeTag
  PROVE  LET w == [z EXCEPT !.blocks[b].tag = t] IN
         /\ List(w, end) /\ Apart(w) /\ At(w) = At(z)
         /\ \A x \in At(z) : w.blocks[x].user = z.blocks[x].user
<1> DEFINE S  == At(z)
           f0 == z.blocks
           f1 == [f0 EXCEPT ![b].tag = t]
           w  == [z EXCEPT !.blocks[b].tag = t]
<1>1. f0 \in [S -> BlockType] /\ S \in SUBSET Nat /\ z.rover \in S
      /\ z = [blocks |-> f0, rover |-> z.rover]
  BY DEF List, Typed
<1>2. w = [blocks |-> f1, rover |-> z.rover]  BY <1>1
<1> HIDE DEF f0, w, S
<1>3. /\ f1 \in [S -> BlockType]
      /\ \A x \in S : /\ f1[x].tag = (IF x = b THEN t ELSE f0[x].tag)
                      /\ f1[x].size = f0[x].size /\ f1[x].user = f0[x].user
                      /\ f1[x].next = f0[x].next /\ f1[x].prev = f0[x].prev
  BY <1>1 DEF BlockType, S
<1> HIDE DEF f1
<1>4. w.blocks = f1 /\ w.rover = z.rover /\ At(w) = S /\ w = [blocks |-> w.blocks, rover |-> w.rover]
  BY <1>2, <1>3 DEF At
<1>5. Typed(w)  BY <1>1, <1>3, <1>4 DEF Typed
<1>6. /\ At(w) = At(z)
      /\ \A x \in At(z) :
           /\ w.blocks[x].tag = (IF x = b THEN t ELSE z.blocks[x].tag)
           /\ w.blocks[x].size = z.blocks[x].size /\ w.blocks[x].user = z.blocks[x].user
           /\ w.blocks[x].next = z.blocks[x].next /\ w.blocks[x].prev = z.blocks[x].prev
  BY <1>3, <1>4 DEF S, f0
<1>7. Linked(w)  BY <1>6 DEF List, Linked
<1>8. Tiled(w, end)  BY <1>6 DEF List, Tiled
<1>9. Ordered(w)  BY <1>6 DEF List, Ordered
<1>10. Capped(w)  BY <1>6 DEF List, Capped
<1>11. Unowned(w)  BY <1>6 DEF List, Unowned, IsFree
<1>12. Apart(w)
  <2>1. SUFFICES ASSUME NEW x \in At(w), IsFree(w, x)  PROVE ~IsFree(w, w.blocks[x].next)
    BY DEF Apart
  <2>2. IsFree(z, x) /\ x \in At(z)  BY <1>6, <2>1 DEF IsFree
  <2>3. ~IsFree(z, z.blocks[x].next) /\ z.blocks[x].next \in At(z)  BY <2>2 DEF Apart, List, Linked
  <2>4. QED  BY <1>6, <2>2, <2>3 DEF IsFree
<1>13. QED  BY <1>5, <1>6, <1>7, <1>8, <1>9, <1>10, <1>11, <1>12 DEF List, w

CallType ==
  [at : {"idle", "scan", "failed", "freetags"}, size : Nat, tag : Tags, user : Users,
   base : Nat, rover : Nat, start : Nat]

\* A search that has a lump for its user will not find it with a block; where it began is no
\* free block; and the base is where the rover is, or the free block right before it, with no
\* free block before that.
Seeking(z, c, m) ==
  /\ c.size >= Header /\ c.tag # FreeTag
  /\ c.user \in Lump => m[c.user] = Cap
  /\ ~IsFree(z, c.start) /\ ~IsFree(z, z.blocks[c.base].prev)
  /\ c.base = c.rover \/ (IsFree(z, c.base) /\ z.blocks[c.base].next = c.rover)

\* What is left of the level when its blocks are freed.
OfLevel(z, b) == z.blocks[b].tag \in {"level", "levspec"}
Freeing(z, c) ==
  /\ c.base = Cap /\ c.start = Cap
  /\ \A x \in At(z) : OfLevel(z, x) => c.rover # Cap /\ c.rover <= x

DoomWhole(z, c, m) ==
  /\ List(z, DoomZoneSize) /\ Apart(z)
  /\ c \in CallType /\ {c.base, c.rover, c.start} \subseteq At(z)
  /\ Owned(z, m)
  /\ c.at = "scan" => Seeking(z, c, m)
  /\ c.at = "freetags" => Freeing(z, c)

DoomInv == DoomWhole(doomZone, doomCall, cached)

\* What is left of a call when there is none.
LEMMA DoomIdle ==
  /\ D!Idle = [at |-> "idle", size |-> 0, tag |-> FreeTag, user |-> NoUser,
               base |-> Cap, rover |-> Cap, start |-> Cap]
  /\ D!Idle \in CallType
  /\ D!Idle.at = "idle" /\ D!Idle.base = Cap /\ D!Idle.rover = Cap /\ D!Idle.start = Cap
  BY SameList DEF D!Idle, CallType, Tags, Users, FreeTag, Cap

\* No call is in progress: of the zone, its lumps are left to know.
LEMMA DoomAtRest ==
  ASSUME NEW z, List(z, DoomZoneSize), Apart(z), NEW m, Owned(z, m)
  PROVE  DoomWhole(z, D!Idle, m)
<1>1. Cap \in At(z)  BY DEF List, Capped
<1>2. QED  BY <1>1, DoomIdle DEF DoomWhole

\* The invariant at the beginning.
LEMMA DoomInit ==
  ASSUME D!ZoneAssumption, D!LumpAssumption, D!Init
  PROVE  DoomInv
<1>1. doomZone = [blocks |-> [b \in {Cap, ZoneHeader} |->
                    IF b = Cap THEN Block(0, "cap", NoUser, ZoneHeader, ZoneHeader)
                               ELSE Block(DoomZoneSize - ZoneHeader, FreeTag, NoUser, Cap, Cap)],
                  rover  |-> ZoneHeader]
  BY DEF D!Init, D!Cleared, D!Cap, Cap, D!Block, Block, D!NoUser, NoUser, D!FreeTag, FreeTag
<1>2. List(doomZone, DoomZoneSize) /\ Apart(doomZone)  BY <1>1, DoomShape, ClearedIs
<1>3. doomCall = D!Idle /\ cached = [l \in Lump |-> Cap]  BY SameList DEF D!Init
<1>4. At(doomZone) = {Cap, ZoneHeader} /\ doomZone.blocks[Cap].user = NoUser
      /\ doomZone.blocks[ZoneHeader].user = NoUser
  BY <1>1 DEF At, Block
<1>5. Owned(doomZone, cached)  BY <1>3, <1>4, DoomShape DEF Owned, Cap
<1>6. QED  BY <1>2, <1>3, <1>5, DoomAtRest DEF DoomInv

\* A search begins at the rover, or at the free block before it.
LEMMA DoomMalloc ==
  ASSUME D!ZoneAssumption, D!LumpAssumption, DoomInv, NEW n \in Nat,
         NEW t \in Tags, t # FreeTag, NEW u \in Users, u \in Lump => cached[u] = Cap,
         D!Malloc(n, t, u), UNCHANGED <<doomZone, cached>>
  PROVE  DoomInv'
<1> DEFINE r == doomZone.rover
           p == doomZone.blocks[r].prev
           b == IF IsFree(doomZone, p) THEN p ELSE r
           s == doomZone.blocks[b].prev
           size == RoundUp(n) + Header
           c == doomCall'
<1>1. List(doomZone, DoomZoneSize) /\ Apart(doomZone) /\ Owned(doomZone, cached) /\ Shape
  BY DoomShape DEF DoomInv, DoomWhole
<1>2. c = [at |-> "scan", size |-> size, tag |-> t, user |-> u, base |-> b, rover |-> b, start |-> s]
  BY SameList DEF D!Malloc
<1>3. \A x \in At(doomZone) :
        /\ doomZone.blocks[x].prev \in At(doomZone)
        /\ doomZone.blocks[doomZone.blocks[x].prev].next = x
  BY <1>1 DEF List, Linked
<1>4. r \in At(doomZone) /\ p \in At(doomZone)  BY <1>1, <1>3 DEF List, Typed
<1>5. b \in At(doomZone) /\ s \in At(doomZone) /\ b \in Nat /\ s \in Nat
  <2>1. b \in At(doomZone)  BY <1>4
  <2>2. s \in At(doomZone)  BY <1>3, <2>1
  <2>3. QED  BY <1>1, <2>1, <2>2, Fields DEF List
<1>6. ~IsFree(doomZone, s)
  <2>1. CASE IsFree(doomZone, p)
    <3>1. b = p /\ doomZone.blocks[s].next = p  BY <1>3, <1>4, <2>1
    <3>2. QED  BY <1>1, <1>5, <2>1, <3>1 DEF Apart
  <2>2. CASE ~IsFree(doomZone, p)  BY <2>2
  <2>3. QED  BY <2>1, <2>2
<1>7. size \in Nat /\ size >= Header
  <2>1. RoundUp(n) \in Nat  BY <1>1, RoundUpIs DEF Shape
  <2>2. QED  BY <1>1, <2>1 DEF Shape
<1> HIDE DEF b, s, size, c
<1>8. /\ c \in CallType /\ c.at = "scan" /\ c.size = size /\ c.tag = t /\ c.user = u
      /\ c.base = b /\ c.rover = b /\ c.start = s
  BY <1>2, <1>5, <1>7 DEF CallType
<1>9. Seeking(doomZone, c, cached)  BY <1>6, <1>7, <1>8 DEF Seeking, s
<1>10. DoomWhole(doomZone, c, cached)  BY <1>1, <1>5, <1>8, <1>9 DEF DoomWhole
<1>11. doomZone' = doomZone /\ cached' = cached  OBVIOUS
<1>12. QED  BY <1>10, <1>11 DEF DoomInv, c

\* A turn that looked at a base: it is taken, or the search goes on; what was in use stays.
LEMMA DoomLook ==
  ASSUME D!ZoneAssumption, D!LumpAssumption,
         NEW z, List(z, DoomZoneSize), Apart(z), NEW m, Owned(z, m),
         doomCall \in CallType, doomCall.at = "scan", doomCall.start \in At(z),
         doomCall.size >= Header, doomCall.tag # FreeTag,
         doomCall.user \in Lump => m[doomCall.user] = Cap,
         ~IsFree(z, doomCall.start),
         NEW b \in At(z), NEW r \in At(z), ~IsFree(z, z.blocks[b].prev),
         b = r \/ (IsFree(z, b) /\ z.blocks[b].next = r),
         D!Look(z, m, b, r)
  PROVE  DoomInv' /\ \A x \in At(z) : ~IsFree(z, x) => Stays(doomZone', z, x)
<1> DEFINE c == doomCall
           size == doomCall.size
           marks == [l \in Lump |-> IF l = c.user THEN b ELSE m[l]]
<1>1. Shape /\ DoomZoneSize \in Nat /\ NoUser \notin Lump  BY DoomShape
<1>2. /\ c.size \in Nat /\ c.tag \in Tags /\ c.user \in Users
      /\ c.start \in Nat /\ b \in Nat /\ r \in Nat
  BY Fields DEF CallType, List
<1>3. IF IsFree(z, b) /\ z.blocks[b].size >= c.size
        THEN /\ doomZone' = Taken(z, b, c.size, c.tag, c.user)
             /\ cached' = marks /\ doomCall' = D!Idle
        ELSE /\ doomZone' = z /\ cached' = m
             /\ doomCall' = [c EXCEPT !.base = b, !.rover = r]
  BY SameList DEF D!Look
<1>4. CASE IsFree(z, b) /\ z.blocks[b].size >= c.size
  <2>1. doomZone' = Taken(z, b, c.size, c.tag, c.user) /\ cached' = marks /\ doomCall' = D!Idle
    BY <1>3, <1>4
  <2>2. /\ List(doomZone', DoomZoneSize) /\ Apart(doomZone')
        /\ IsTaken(doomZone', z, b, c.tag, c.user)
    BY <1>1, <1>2, <1>4, <2>1, TakenKeeps
  <2>3. Owned(doomZone', cached')  BY <1>1, <1>4, <2>1, <2>2, OwnedTaken
  <2>4. DoomWhole(doomZone', D!Idle, cached')  BY <2>2, <2>3, DoomAtRest
  <2>5. ASSUME NEW x \in At(z), ~IsFree(z, x)  PROVE Stays(doomZone', z, x)
    <3>1. x # b  BY <1>4, <2>5
    <3>2. QED  BY <2>2, <3>1 DEF IsTaken, Stays
  <2>6. QED  BY <2>1, <2>4, <2>5 DEF DoomInv
<1>5. CASE ~(IsFree(z, b) /\ z.blocks[b].size >= c.size)
  <2>1. doomZone' = z /\ cached' = m /\ doomCall' = [c EXCEPT !.base = b, !.rover = r]
    BY <1>3, <1>5
  <2>2. /\ doomCall' \in CallType /\ doomCall'.at = "scan" /\ doomCall'.size = c.size
        /\ doomCall'.tag = c.tag /\ doomCall'.user = c.user /\ doomCall'.start = c.start
        /\ doomCall'.base = b /\ doomCall'.rover = r
    BY <1>2, <2>1 DEF CallType
  <2>3. Seeking(z, doomCall', m)  BY <2>2 DEF Seeking
  <2>4. DoomWhole(z, doomCall', m)  BY <2>2, <2>3 DEF DoomWhole
  <2>5. QED  BY <2>1, <2>4 DEF DoomInv, Stays
<1>6. QED  BY <1>4, <1>5

\* What a search knows of where it is.
LEMMA DoomSeeks ==
  ASSUME D!ZoneAssumption, D!LumpAssumption, DoomInv, doomCall.at = "scan"
  PROVE  /\ List(doomZone, DoomZoneSize) /\ Apart(doomZone) /\ Owned(doomZone, cached)
         /\ doomCall \in CallType
         /\ doomCall.base \in At(doomZone) /\ doomCall.rover \in At(doomZone)
         /\ doomCall.start \in At(doomZone)
         /\ doomCall.size >= Header /\ doomCall.tag # FreeTag
         /\ doomCall.user \in Lump => cached[doomCall.user] = Cap
         /\ ~IsFree(doomZone, doomCall.start)
         /\ ~IsFree(doomZone, doomZone.blocks[doomCall.base].prev)
         /\ \/ doomCall.base = doomCall.rover
            \/ IsFree(doomZone, doomCall.base) /\ doomZone.blocks[doomCall.base].next = doomCall.rover
         /\ Shape /\ DoomZoneSize \in Nat /\ NoUser \notin Lump
  BY DoomShape DEF DoomInv, DoomWhole, Seeking

\* What one turn does not free stays.
DoomStays ==
  doomCall.at # "idle" =>
    \A x \in At(doomZone) :
      \/ IsFree(doomZone, x) \/ doomZone.blocks[x].tag = "cache"
      \/ doomCall.at = "freetags" /\ OfLevel(doomZone, x)
      \/ Stays(doomZone', doomZone, x)

\* A free block is passed: it becomes the base, for what is before a free block is in use.
LEMMA DoomPassFree ==
  ASSUME D!ZoneAssumption, D!LumpAssumption, DoomInv, D!PassFree
  PROVE  DoomInv' /\ DoomStays
<1> DEFINE r == doomCall.rover
           b == doomCall.base
           n == doomZone.blocks[r].next
<1>1. doomCall.at = "scan" /\ IsFree(doomZone, r) /\ D!Look(doomZone, cached, b, n)
  BY SameList DEF D!PassFree
<1>2. b = r  BY <1>1, DoomSeeks DEF Apart
<1>3. n \in At(doomZone)  BY <1>1, DoomSeeks DEF List, Linked
<1> HIDE DEF r, b, n
<1>4. b \in At(doomZone) /\ ~IsFree(doomZone, doomZone.blocks[b].prev)
  BY <1>1, DoomSeeks DEF b
<1>5. b = n \/ (IsFree(doomZone, b) /\ doomZone.blocks[b].next = n)  BY <1>1, <1>2 DEF n
<1>6. DoomInv' /\ \A x \in At(doomZone) : ~IsFree(doomZone, x) => Stays(doomZone', doomZone, x)
  BY <1>1, <1>3, <1>4, <1>5, DoomSeeks, DoomLook
<1>7. QED  BY <1>6 DEF DoomStays

\* A block in use is passed: the base goes behind it.
LEMMA DoomPassUsed ==
  ASSUME D!ZoneAssumption, D!LumpAssumption, DoomInv, D!PassUsed
  PROVE  DoomInv' /\ DoomStays
<1> DEFINE r == doomCall.rover
           n == doomZone.blocks[r].next
<1>1. doomCall.at = "scan" /\ ~IsFree(doomZone, r) /\ D!Look(doomZone, cached, n, n)
  BY SameList DEF D!PassUsed
<1>2. n \in At(doomZone) /\ doomZone.blocks[n].prev = r  BY <1>1, DoomSeeks DEF List, Linked
<1> HIDE DEF r, n
<1>3. DoomInv' /\ \A x \in At(doomZone) : ~IsFree(doomZone, x) => Stays(doomZone', doomZone, x)
  BY <1>1, <1>2, DoomSeeks, DoomLook
<1>4. QED  BY <1>3 DEF DoomStays

\* A block is purged under the rover: its place is found again from the block before the base.
LEMMA DoomPurge ==
  ASSUME D!ZoneAssumption, D!LumpAssumption, DoomInv, D!Purge
  PROVE  DoomInv' /\ DoomStays
<1> DEFINE r == doomCall.rover
           b == doomCall.base
           q == doomZone.blocks[b].prev
           z == Released(doomZone, r)
           m == [cached EXCEPT ![doomZone.blocks[r].user] = Cap]
           a == z.blocks[q].next
           n == z.blocks[a].next
<1>1. /\ doomCall.at = "scan" /\ doomZone.blocks[r].tag = "cache" /\ r # doomCall.start
      /\ D!Look(z, m, a, n)
  BY SameList DEF D!Purge, D!Purgable
<1>2. /\ List(doomZone, DoomZoneSize) /\ Apart(doomZone) /\ Owned(doomZone, cached)
      /\ r \in At(doomZone) /\ b \in At(doomZone) /\ doomCall.start \in At(doomZone)
      /\ ~IsFree(doomZone, doomCall.start) /\ ~IsFree(doomZone, q)
      /\ b = r \/ (IsFree(doomZone, b) /\ doomZone.blocks[b].next = r)
      /\ Shape /\ DoomZoneSize \in Nat /\ NoUser \notin Lump
  BY <1>1, DoomSeeks
<1>3. ~IsFree(doomZone, r) /\ r # Cap  BY <1>1, <1>2 DEF IsFree, FreeTag, List, Capped
<1>4. /\ List(z, DoomZoneSize) /\ Apart(z) /\ IsReleased(z, doomZone, r)
  BY <1>2, <1>3, ReleasedKeeps
<1>5. m \in [Lump -> Nat]
      /\ \A l \in Lump : m[l] = IF doomZone.blocks[r].user = l THEN Cap ELSE cached[l]
  <2>1. cached \in [Lump -> Nat]  BY <1>2 DEF Owned
  <2>2. QED  BY <2>1 DEF Cap
<1> HIDE DEF z, m
<1>6. Owned(z, m)  BY <1>2, <1>4, <1>5, OwnedReleased
<1>7. b = Merged(doomZone, r)
  <2>1. doomZone.blocks[r].prev = q \/ doomZone.blocks[r].prev = b
    BY <1>2 DEF List, Linked
  <2>2. CASE b = r  BY <1>2, <2>2 DEF Merged
  <2>3. CASE b # r
    <3>1. IsFree(doomZone, b) /\ doomZone.blocks[r].prev = b  BY <1>2, <2>3 DEF List, Linked
    <3>2. QED  BY <3>1 DEF Merged
  <2>4. QED  BY <2>2, <2>3
<1>8. b \in At(z) /\ z.blocks[b].prev = q  BY <1>4, <1>7 DEF IsReleased
<1>9. a = b /\ q \in At(z) /\ n \in At(z)  BY <1>4, <1>8 DEF List, Linked
<1>10. IsFree(z, a)  BY <1>2, <1>4, <1>8, <1>9 DEF IsReleased
<1>11. ~IsFree(z, q)
  <2>1. q \in At(doomZone) /\ q # r
    <3>1. q \in At(doomZone) /\ doomZone.blocks[q].next = b  BY <1>2 DEF List, Linked
    <3>2. CASE b = r  BY <1>2, <3>1, <3>2, Follows
    <3>3. CASE b # r
      <4>1. doomZone.blocks[b].next = r /\ b # Cap  BY <1>2, <3>3, Follows
      <4>2. b \in Nat /\ r \in Nat /\ b < r  BY <1>2, <1>3, <4>1, Follows, Fields DEF List
      <4>3. doomZone.blocks[r].next # b
        <5>1. SUFFICES ASSUME doomZone.blocks[r].next = b  PROVE FALSE  OBVIOUS
        <5>2. r < b  BY <1>2, <4>1, <5>1, Follows
        <5>3. QED  BY <4>2, <5>2
      <4>4. QED  BY <3>1, <4>3
    <3>4. QED  BY <3>2, <3>3
  <2>2. z.blocks[q].tag = doomZone.blocks[q].tag  BY <1>2, <1>4, <2>1 DEF IsReleased
  <2>3. QED  BY <1>2, <2>2 DEF IsFree
<1>12. doomCall.start \in At(z) /\ ~IsFree(z, doomCall.start)
  <2>1. z.blocks[doomCall.start].tag = doomZone.blocks[doomCall.start].tag /\ doomCall.start \in At(z)
    BY <1>1, <1>2, <1>4 DEF IsReleased
  <2>2. QED  BY <1>2, <2>1 DEF IsFree
<1>13. doomCall.user \in Lump => m[doomCall.user] = Cap
  BY <1>1, <1>5, DoomSeeks
<1>14. DoomInv' /\ \A x \in At(z) : ~IsFree(z, x) => Stays(doomZone', z, x)
  <2>1. z.blocks[a].prev = q  BY <1>8, <1>9
  <2>2. z.blocks[a].next = n  OBVIOUS
  <2>3. /\ doomCall \in CallType /\ doomCall.size >= Header /\ doomCall.tag # FreeTag
    BY <1>1, DoomSeeks
  <2>4. a \in At(z)  BY <1>8, <1>9
  <2> HIDE DEF a, n, q
  <2>5. QED  BY <1>1, <1>4, <1>6, <1>9, <1>10, <1>11, <1>12, <1>13, <2>1, <2>2, <2>3, <2>4, DoomLook
<1>15. ASSUME NEW x \in At(doomZone), ~IsFree(doomZone, x), doomZone.blocks[x].tag # "cache"
       PROVE  Stays(doomZone', doomZone, x)
  <2>1. x # r  BY <1>1, <1>15
  <2>2. Stays(z, doomZone, x)  BY <1>4, <1>15, <2>1 DEF IsReleased, Stays
  <2>3. x \in At(z) /\ ~IsFree(z, x)  BY <1>15, <2>2 DEF Stays, IsFree
  <2>4. Stays(doomZone', z, x)  BY <1>14, <2>3
  <2>5. QED  BY <2>2, <2>4 DEF Stays
<1>16. QED  BY <1>14, <1>15 DEF DoomStays

\* The search fails.
LEMMA DoomFull ==
  ASSUME D!ZoneAssumption, D!LumpAssumption, DoomInv, D!Full
  PROVE  DoomInv' /\ DoomStays
<1>1. doomCall' = [doomCall EXCEPT !.at = "failed"] /\ doomZone' = doomZone /\ cached' = cached
  BY DEF D!Full
<1>2. DoomWhole(doomZone, doomCall, cached)  BY DEF DoomInv
<1>3. /\ doomCall' \in CallType /\ doomCall'.at = "failed" /\ doomCall'.base = doomCall.base
      /\ doomCall'.rover = doomCall.rover /\ doomCall'.start = doomCall.start
  BY <1>1, <1>2 DEF DoomWhole, CallType
<1>4. DoomWhole(doomZone, doomCall', cached)  BY <1>2, <1>3 DEF DoomWhole
<1>5. DoomInv'  BY <1>1, <1>4 DEF DoomInv
<1>6. QED  BY <1>1, <1>5 DEF DoomStays, Stays

\* A turn of Z_FreeTags: the link that was read leads to what is left of the list.
LEMMA DoomFreeNext ==
  ASSUME D!ZoneAssumption, D!LumpAssumption, DoomInv, D!FreeNext
  PROVE  /\ DoomInv' /\ DoomStays
         /\ doomCall'.at = "idle" => \A x \in At(doomZone') : ~OfLevel(doomZone', x)
<1> DEFINE b == doomCall.rover
           n == doomZone.blocks[b].next
           k == IF IsFree(doomZone, n) THEN doomZone.blocks[n].next ELSE n
           w == doomZone'
<1>1. /\ List(doomZone, DoomZoneSize) /\ Apart(doomZone) /\ Owned(doomZone, cached)
      /\ doomCall \in CallType /\ {doomCall.base, b, doomCall.start} \subseteq At(doomZone)
      /\ doomCall.at = "freetags"
      /\ \A x \in At(doomZone) : OfLevel(doomZone, x) => b # Cap /\ b <= x
      /\ doomCall.base = Cap /\ doomCall.start = Cap
      /\ Shape /\ DoomZoneSize \in Nat /\ NoUser \notin Lump
  BY DoomShape DEF DoomInv, DoomWhole, D!FreeNext, Freeing
<1>2. IF b = Cap
        THEN doomCall' = D!Idle /\ doomZone' = doomZone /\ cached' = cached
        ELSE IF OfLevel(doomZone, b)
          THEN /\ doomZone' = Released(doomZone, b)
               /\ cached' = [l \in Lump |-> IF doomZone.blocks[b].user = l THEN Cap ELSE cached[l]]
               /\ doomCall' = [doomCall EXCEPT !.rover = k]
          ELSE doomCall' = [doomCall EXCEPT !.rover = n] /\ doomZone' = doomZone /\ cached' = cached
  BY SameList DEF D!FreeNext, D!OfLevel, OfLevel, D!Free
<1>3. /\ b \in At(doomZone) /\ b \in Nat /\ n \in At(doomZone) /\ n \in Nat
      /\ doomZone.blocks[n].next \in At(doomZone) /\ doomZone.blocks[n].next \in Nat
      /\ n # b
  BY <1>1, Follows, Fields DEF List
<1>4. ASSUME NEW x \in At(doomZone), OfLevel(doomZone, x), x # b  PROVE n # Cap /\ n <= x
  <2>1. b <= x /\ x \in Nat  BY <1>1, <1>4, Fields DEF List
  <2>2. b < x  BY <1>3, <1>4, <2>1
  <2>3. QED  BY <1>1, <1>3, <2>2 DEF List, Ordered
<1>5. CASE b = Cap
  <2>1. doomCall' = D!Idle /\ doomZone' = doomZone /\ cached' = cached  BY <1>2, <1>5
  <2>2. DoomInv'  BY <1>1, <2>1, DoomAtRest DEF DoomInv
  <2>3. QED  BY <1>1, <1>5, <2>1, <2>2 DEF DoomStays, Stays
<1>6. CASE b # Cap /\ ~OfLevel(doomZone, b)
  <2>1. doomCall' = [doomCall EXCEPT !.rover = n] /\ doomZone' = doomZone /\ cached' = cached
    BY <1>2, <1>6
  <2>2. /\ doomCall' \in CallType /\ doomCall'.at = "freetags" /\ doomCall'.base = doomCall.base
        /\ doomCall'.rover = n /\ doomCall'.start = doomCall.start
    BY <1>1, <1>3, <2>1 DEF CallType
  <2>3. Freeing(doomZone, doomCall')  BY <1>1, <1>4, <1>6, <2>2 DEF Freeing
  <2>4. DoomWhole(doomZone, doomCall', cached)  BY <1>1, <1>3, <2>2, <2>3 DEF DoomWhole
  <2>5. DoomInv'  BY <2>1, <2>4 DEF DoomInv
  <2>6. QED  BY <2>1, <2>2, <2>5 DEF DoomStays, Stays
<1>7. CASE b # Cap /\ OfLevel(doomZone, b)
  <2>1. /\ w = Released(doomZone, b)
        /\ cached' = [l \in Lump |-> IF doomZone.blocks[b].user = l THEN Cap ELSE cached[l]]
        /\ doomCall' = [doomCall EXCEPT !.rover = k]
    BY <1>2, <1>7
  <2>2. ~IsFree(doomZone, b)  BY <1>7 DEF OfLevel, IsFree, FreeTag
  <2>3. List(w, DoomZoneSize) /\ Apart(w) /\ IsReleased(w, doomZone, b)
    BY <1>1, <1>3, <1>7, <2>1, <2>2, ReleasedKeeps
  <2>4. /\ cached' \in [Lump -> Nat]
        /\ \A l \in Lump : cached'[l] = IF doomZone.blocks[b].user = l THEN Cap ELSE cached[l]
    <3>1. cached \in [Lump -> Nat]  BY <1>1 DEF Owned
    <3>2. QED  BY <2>1, <3>1 DEF Cap
  <2>5. Owned(w, cached')  BY <1>1, <1>3, <2>3, <2>4, OwnedReleased
  <2>6. k \in At(w) /\ k \in Nat /\ ~IsFree(doomZone, k)
    <3>1. k \in At(doomZone) /\ k \in Nat /\ ~IsFree(doomZone, k)
      BY <1>1, <1>3 DEF Apart
    <3>2. k # b
      <4>1. CASE ~IsFree(doomZone, n)  BY <1>3, <4>1
      <4>2. CASE IsFree(doomZone, n)
        <5>1. n # Cap /\ b < n /\ (k # Cap => n < k)  BY <1>1, <1>3, <4>2, Follows
        <5>2. QED  BY <1>3, <1>7, <3>1, <5>1
      <4>3. QED  BY <4>1, <4>2
    <3>3. QED  BY <2>3, <3>1, <3>2 DEF IsReleased
  <2>7. ASSUME NEW x \in At(w), OfLevel(w, x)  PROVE k # Cap /\ k <= x
    <3>1. ~IsFree(w, x)  BY <2>7 DEF OfLevel, IsFree, FreeTag
    <3>2. x \in At(doomZone) /\ ~IsFree(doomZone, x) /\ x # b  BY <2>3, <3>1 DEF IsReleased
    <3>3. OfLevel(doomZone, x)  BY <2>3, <2>7, <3>2 DEF IsReleased, OfLevel
    <3>4. n # Cap /\ n <= x  BY <1>4, <3>2, <3>3
    <3>5. CASE ~IsFree(doomZone, n)  BY <3>4, <3>5
    <3>6. CASE IsFree(doomZone, n)
      <4>1. x # n /\ x \in Nat  BY <1>1, <3>2, <3>6, Fields DEF List
      <4>2. n < x  BY <1>3, <3>4, <4>1
      <4>3. QED  BY <1>1, <1>3, <3>2, <3>6, <4>2 DEF List, Ordered
    <3>7. QED  BY <3>5, <3>6
  <2> HIDE DEF k, w
  <2>8. /\ doomCall' \in CallType /\ doomCall'.at = "freetags" /\ doomCall'.base = doomCall.base
        /\ doomCall'.rover = k /\ doomCall'.start = doomCall.start
    BY <1>1, <2>1, <2>6 DEF CallType
  <2>9. Freeing(w, doomCall')  BY <1>1, <2>7, <2>8 DEF Freeing
  <2>10. Cap \in At(w)  BY <2>3 DEF List, Capped
  <2>11. DoomWhole(w, doomCall', cached')
    BY <1>1, <2>3, <2>5, <2>6, <2>8, <2>9, <2>10 DEF DoomWhole
  <2>12. DoomInv'  BY <2>11 DEF DoomInv, w
  <2>13. ASSUME NEW x \in At(doomZone), ~IsFree(doomZone, x), ~OfLevel(doomZone, x)
         PROVE  Stays(w, doomZone, x)
    <3>1. x # b  BY <1>7, <2>13
    <3>2. QED  BY <2>3, <2>13, <3>1 DEF IsReleased, Stays
  <2>14. DoomStays  BY <1>1, <2>13 DEF DoomStays, w
  <2>15. QED  BY <2>8, <2>12, <2>14
<1>8. QED  BY <1>5, <1>6, <1>7

\* The callers, between calls: what was asked for is searched for, given back or tagged.
LEMMA DoomCallers ==
  ASSUME D!ZoneAssumption, D!LumpAssumption, DoomInv, doomCall = D!Idle,
         \/ \E n \in DoomSize, t \in {"static", "level"} : D!New(n, t)
         \/ \E b : D!Z_Free(b)
         \/ \E l \in Lump : D!W_ReleaseLump(l) \/ \E t \in {"static", "cache"} : D!W_CacheLump(l, t)
         \/ D!Z_FreeTags
  PROVE  DoomInv'
<1>1. /\ List(doomZone, DoomZoneSize) /\ Apart(doomZone) /\ Owned(doomZone, cached)
      /\ cached \in [Lump -> Nat]
      /\ \A l \in Lump : cached[l] # Cap =>
           cached[l] \in At(doomZone) /\ doomZone.blocks[cached[l]].user = l
      /\ Shape /\ DoomZoneSize \in Nat /\ NoUser \notin Lump
      /\ DoomSize \subseteq Nat /\ LumpSize \in [Lump -> Nat]
  BY DoomShape DEF DoomInv, DoomWhole, Owned
<1>2. {"static", "level", "cache"} \subseteq Tags \ {FreeTag} /\ NoUser \in Users /\ Lump \subseteq Users
  BY DEF Tags, FreeTag, Users
<1>3. ASSUME NEW n \in DoomSize, NEW t \in {"static", "level"}, D!New(n, t)  PROVE DoomInv'
  <2>1. n \in Nat /\ t \in Tags /\ t # FreeTag /\ NoUser \notin Lump  BY <1>1, <1>2
  <2>2. D!Malloc(n, t, NoUser) /\ UNCHANGED <<doomZone, cached>>  BY <1>3, SameList DEF D!New
  <2>3. QED  BY <1>1, <1>2, <2>1, <2>2, DoomMalloc
<1>4. ASSUME NEW b, D!Z_Free(b)  PROVE DoomInv'
  <2>1. /\ b \in At(doomZone) /\ b # Cap /\ ~IsFree(doomZone, b)
        /\ doomZone' = Released(doomZone, b)
        /\ cached' = [l \in Lump |-> IF doomZone.blocks[b].user = l THEN Cap ELSE cached[l]]
        /\ doomCall' = doomCall
    BY <1>4, SameList DEF D!Z_Free, D!Free, At
  <2>2. List(doomZone', DoomZoneSize) /\ Apart(doomZone') /\ IsReleased(doomZone', doomZone, b)
    BY <1>1, <2>1, ReleasedKeeps
  <2>3. cached' \in [Lump -> Nat]
        /\ \A l \in Lump : cached'[l] = IF doomZone.blocks[b].user = l THEN Cap ELSE cached[l]
    BY <1>1, <2>1 DEF Cap
  <2>4. Owned(doomZone', cached')  BY <1>1, <2>1, <2>2, <2>3, OwnedReleased
  <2>5. QED  BY <2>1, <2>2, <2>4, DoomAtRest DEF DoomInv
<1>5. ASSUME NEW l \in Lump, cached[l] # Cap, NEW t \in {"static", "cache"},
             doomZone' = [doomZone EXCEPT !.blocks[cached[l]].tag = t],
             UNCHANGED <<cached, doomCall>>
      PROVE  DoomInv'
  <2>1. /\ cached[l] \in At(doomZone) /\ doomZone.blocks[cached[l]].user = l /\ l # NoUser
        /\ t \in Tags /\ t # FreeTag
    BY <1>1, <1>2, <1>5
  <2>2. ~IsFree(doomZone, cached[l])  BY <1>1, <2>1 DEF List, Unowned
  <2>3. /\ List(doomZone', DoomZoneSize) /\ Apart(doomZone') /\ At(doomZone') = At(doomZone)
        /\ \A x \in At(doomZone) : doomZone'.blocks[x].user = doomZone.blocks[x].user
    BY <1>1, <1>5, <2>1, <2>2, RetaggedKeeps
  <2>4. Owned(doomZone', cached)  BY <1>1, <2>3 DEF Owned
  <2>5. cached' = cached /\ doomCall' = doomCall  BY <1>5
  <2>6. QED  BY <2>3, <2>4, <2>5, DoomAtRest DEF DoomInv
<1>6. ASSUME NEW l \in Lump, D!W_ReleaseLump(l)  PROVE DoomInv'
  <2>1. /\ cached[l] # Cap /\ doomZone' = [doomZone EXCEPT !.blocks[cached[l]].tag = "cache"]
        /\ UNCHANGED <<cached, doomCall>>
    BY <1>6, SameList DEF D!W_ReleaseLump
  <2>2. QED  BY <1>5, <2>1
<1>7. ASSUME NEW l \in Lump, NEW t \in {"static", "cache"}, D!W_CacheLump(l, t)  PROVE DoomInv'
  <2>1. CASE cached[l] # Cap
    <3>1. doomZone' = [doomZone EXCEPT !.blocks[cached[l]].tag = t] /\ UNCHANGED <<cached, doomCall>>
      BY <1>7, <2>1, SameList DEF D!W_CacheLump
    <3>2. QED  BY <1>5, <2>1, <3>1
  <2>2. CASE cached[l] = Cap
    <3>1. D!Malloc(LumpSize[l], t, l) /\ UNCHANGED <<doomZone, cached>>
      BY <1>7, <2>2, SameList DEF D!W_CacheLump
    <3>2. LumpSize[l] \in Nat /\ t \in Tags /\ t # FreeTag /\ l \in Users  BY <1>1, <1>2
    <3>3. QED  BY <2>2, <3>1, <3>2, DoomMalloc
  <2>3. QED  BY <2>1, <2>2
<1>8. CASE D!Z_FreeTags
  <2> DEFINE n == doomZone.blocks[Cap].next
  <2>1. doomCall' = [D!Idle EXCEPT !.at = "freetags", !.rover = n] /\ doomZone' = doomZone
        /\ cached' = cached
    BY <1>8, SameList DEF D!Z_FreeTags
  <2>2. Cap \in At(doomZone) /\ n \in At(doomZone) /\ n \in Nat
    BY <1>1, Follows DEF List, Capped
  <2>3. ASSUME NEW x \in At(doomZone), OfLevel(doomZone, x)  PROVE n # Cap /\ n <= x
    <3>1. x # Cap /\ x \in Nat  BY <1>1, <2>3, Fields DEF List, Capped, OfLevel
    <3>2. Cap < x  BY <3>1 DEF Cap
    <3>3. QED  BY <1>1, <2>2, <3>2 DEF List, Ordered
  <2> HIDE DEF n
  <2>4. /\ doomCall' \in CallType /\ doomCall'.at = "freetags" /\ doomCall'.base = Cap
        /\ doomCall'.rover = n /\ doomCall'.start = Cap
    BY <2>1, <2>2, DoomIdle DEF CallType
  <2>5. Freeing(doomZone, doomCall')  BY <2>3, <2>4 DEF Freeing
  <2>6. DoomWhole(doomZone, doomCall', cached)  BY <1>1, <2>2, <2>4, <2>5 DEF DoomWhole
  <2>7. QED  BY <2>1, <2>6 DEF DoomInv
<1>9. QED  BY <1>3, <1>4, <1>6, <1>7, <1>8

\* No step of the zone breaks it, nor frees what it may not free.
LEMMA DoomStep ==
  ASSUME D!ZoneAssumption, D!LumpAssumption, DoomInv, D!Next
  PROVE  /\ DoomInv' /\ DoomStays
         /\ doomCall.at = "freetags" /\ doomCall'.at = "idle" =>
              \A x \in At(doomZone') : ~OfLevel(doomZone', x)
<1>1. CASE D!Turn
  <2>1. CASE D!Full \/ D!PassFree \/ D!PassUsed \/ D!Purge
    <3>1. DoomInv' /\ DoomStays  BY <2>1, DoomFull, DoomPassFree, DoomPassUsed, DoomPurge
    <3>2. doomCall.at = "scan"  BY <2>1 DEF D!Full, D!PassFree, D!PassUsed, D!Purge
    <3>3. QED  BY <3>1, <3>2
  <2>2. CASE D!FreeNext  BY <2>2, DoomFreeNext
  <2>3. QED  BY <1>1, <2>1, <2>2 DEF D!Turn
<1>2. CASE ~D!Turn
  <2>1. \/ \E n \in DoomSize, t \in {"static", "level"} : D!New(n, t)
        \/ \E b : D!Z_Free(b)
        \/ \E l \in Lump : D!W_ReleaseLump(l) \/ \E t \in {"static", "cache"} : D!W_CacheLump(l, t)
        \/ D!Z_FreeTags
    BY <1>2 DEF D!Next
  <2>2. doomCall = D!Idle
    BY <2>1 DEF D!New, D!Z_Free, D!W_ReleaseLump, D!W_CacheLump, D!Z_FreeTags
  <2>3. DoomInv'  BY <2>1, <2>2, DoomCallers
  <2>4. doomCall.at = "idle"  BY <2>2, DoomIdle
  <2>5. QED  BY <2>3, <2>4 DEF DoomStays
<1>3. QED  BY <1>1, <1>2

\* Every step of the specification keeps the invariant.
LEMMA DoomKeeps ==
  ASSUME D!ZoneAssumption, D!LumpAssumption, DoomInv, [D!Next]_D!vars
  PROVE  DoomInv'
<1>1. CASE D!Next  BY <1>1, DoomStep
<1>2. CASE UNCHANGED D!vars
  <2>1. doomZone' = doomZone /\ doomCall' = doomCall /\ cached' = cached  BY <1>2 DEF D!vars
  <2>2. QED  BY <2>1 DEF DoomInv
<1>3. QED  BY <1>1, <1>2

\* Doom's zone is whole after every call, for every size of it and of what is asked for, through
\* all that searches purge: its blocks fill it, the pointers of a search stay on blocks of the
\* list, and a lump points to its own block, or to none.
THEOREM DoomZoneIsSound ==
  ASSUME D!ZoneAssumption, D!LumpAssumption
  PROVE  D!Spec => []D!Sound
<1>1. D!Init => DoomInv  BY DoomInit
<1>2. DoomInv /\ [D!Next]_D!vars => DoomInv'  BY DoomKeeps
<1>3. DoomInv => D!Sound
  <2>1. SUFFICES ASSUME DoomInv  PROVE D!Sound  OBVIOUS
  <2>2. /\ List(doomZone, DoomZoneSize) /\ Apart(doomZone)
        /\ {doomCall.base, doomCall.rover, doomCall.start} \subseteq At(doomZone)
        /\ Owned(doomZone, cached)
    BY <2>1 DEF DoomInv, DoomWhole
  <2>3. D!IsZone(doomZone)
    BY <2>2, ListIsZone, DoomShape, SameList DEF D!IsZone, At
  <2>4. D!CheckHeap(doomZone)  BY <2>2, ListIsZone, DoomShape, SameList
  <2>5. QED  BY <2>2, <2>3, <2>4, SameList DEF D!Sound, Owned, At
<1>4. QED  BY <1>1, <1>2, <1>3, PTL DEF D!Spec

\* A search frees only what is purgable, Z_FreeTags only what is of the level or purgable, and all
\* of it: nothing else is lost, moved or cut, wherever the links lead them.
THEOREM DoomZoneFreesWhatItMay ==
  ASSUME D!ZoneAssumption, D!LumpAssumption
  PROVE  D!Spec => FreesWhatItMay
<1>1. D!Init => DoomInv  BY DoomInit
<1>2. DoomInv /\ [D!Next]_D!vars => DoomInv'  BY DoomKeeps
<1> DEFINE StaysBody ==
             doomCall.at # "idle" =>
               \A b \in DOMAIN doomZone.blocks :
                 \/ D!IsFree(doomZone, b) \/ D!Purgable(doomZone, b)
                 \/ doomCall.at = "freetags" /\ D!OfLevel(doomZone, b)
                 \/ b = D!Cap
                 \/ /\ b \in DOMAIN doomZone'.blocks
                    /\ \A f \in {"size", "tag", "user"} : doomZone'.blocks[b][f] = doomZone.blocks[b][f]
           FreedBody ==
             doomCall.at = "freetags" /\ doomCall'.at = "idle" =>
               \A b \in DOMAIN doomZone'.blocks : ~D!OfLevel(doomZone', b)
<1>3. DoomInv /\ [D!Next]_D!vars => [StaysBody]_D!vars
  <2>1. SUFFICES ASSUME DoomInv, D!Next  PROVE StaysBody  OBVIOUS
  <2>2. DoomStays  BY <2>1, DoomStep
  <2>3. QED  BY <2>2, SameList DEF DoomStays, Stays, At, OfLevel, D!OfLevel, D!Purgable
<1>4. DoomInv /\ [D!Next]_D!vars => [FreedBody]_D!vars
  <2>1. SUFFICES ASSUME DoomInv, D!Next  PROVE FreedBody  OBVIOUS
  <2>2. doomCall.at = "freetags" /\ doomCall'.at = "idle" =>
          \A x \in At(doomZone') : ~OfLevel(doomZone', x)
    BY <2>1, DoomStep
  <2>3. QED  BY <2>2 DEF At, OfLevel, D!OfLevel
<1>5. (D!Spec => [][StaysBody]_D!vars) /\ (D!Spec => [][FreedBody]_D!vars)
  <2> HIDE DEF StaysBody, FreedBody
  <2>1. QED  BY <1>1, <1>2, <1>3, <1>4, PTL DEF D!Spec
<1>6. QED  BY <1>5 DEF FreesWhatItMay, D!StaticStays, D!LevelIsFreed
=============================================================================
