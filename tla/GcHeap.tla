------------------------------- MODULE GcHeap -------------------------------
(***************************************************************************)
(* The garbage collected heap (GCHeap in CoreLib.cs) and the exceptions    *)
(* that unwind its roots (ExceptionRuntime).  Compiled code pushes a frame *)
(* with the addresses of a method's locals, a frame of exceptions for each *)
(* try, and calls Allocate, which collects first when too much has been    *)
(* allocated since the last time.  A collection marks what the roots lead  *)
(* to, through a list of the objects still to be scanned, and then frees   *)
(* every allocation without a mark.                                        *)
(*                                                                         *)
(* The two lists of allocations are sets here, from which a loop takes its *)
(* elements in any order; the turns of the loops are steps.                *)
(***************************************************************************)
EXTENDS Integers, Sequences, FiniteSets

CONSTANTS
  Object,      \* the allocations that memory can hold
  None,        \* null
  Field,       \* the references an object holds, as fields or as elements
  Static,      \* the static roots
  Size,        \* of each object
  MaxFrames    \* bound: the frames of methods and of exceptions

HeapAssumption ==
  /\ None \notin Object
  /\ IsFiniteSet(Object)
  /\ Size \in [Object -> Nat \ {0}]
  /\ MaxFrames \in Nat \ {0}

VARIABLES
  allocations,   \* the list s_allocations
  refs,          \* what each object refers to
  statics,       \* what each static root refers to
  current,       \* ExceptionRuntime's _current
  frames,        \* of each frame from the oldest to s_frames, what its roots refer to
  handlers,      \* of each exception frame up to _top, the number of frames at its Push
  marked, pending, rest, liveBytes,        \* of a collection: Marked, s_pendingMarks, the sweep
  allocatedBytes, collectionThreshold,
  call           \* where a call of the heap is, and the size to allocate, 0 for none

userVars  == <<refs, statics, current, frames, handlers>>
markVars  == <<marked, pending>>
sweepVars == <<rest, liveBytes>>
countVars == <<allocatedBytes, collectionThreshold>>
vars == <<allocations, userVars, markVars, sweepVars, countVars, call>>

Idle == [at |-> "idle", size |-> 0]
Goto(at) == call' = [call EXCEPT !.at = at]

Init ==
  /\ allocations = {} /\ refs = [o \in Object |-> [f \in Field |-> None]]
  /\ statics = [s \in Static |-> None] /\ current = None
  /\ frames = <<{}>> /\ handlers = <<>>
  /\ marked = {} /\ pending = {} /\ rest = {} /\ liveBytes = 0
  /\ allocatedBytes = 0 /\ collectionThreshold = 0
  /\ call = Idle

-----------------------------------------------------------------------------
(* What refers to what.                                                     *)

RefersTo(o) == {refs[o][f] : f \in Field} \ {None}

Depth == Len(frames)
Roots ==
  (({statics[s] : s \in Static} \cup {current}) \ {None}) \cup UNION {frames[i] : i \in 1 .. Depth}

-----------------------------------------------------------------------------
(* A collection.                                                            *)

\* MarkObject of some references: what is no allocation, or marked, is left.
MarkObject(S) ==
  LET new == (S \cap allocations) \ marked IN
  marked' = marked \cup new /\ pending' = pending \cup new

MarkRoots ==
  /\ call.at = "roots"
  /\ MarkObject(Roots)
  /\ Goto("mark")
  /\ UNCHANGED <<allocations, userVars, sweepVars, countVars>>

\* Mutant: an object that is scanned marks nothing but what is on the list with it.
ScanPending ==
  /\ call.at = "mark"
  /\ \E o \in pending :
       /\ marked' = marked \cup (RefersTo(o) \cap pending)
       /\ pending' = pending \ {o}
  /\ UNCHANGED <<allocations, userVars, sweepVars, countVars, call>>

ScanObject ==
  /\ call.at = "mark"
  /\ \E o \in pending :
       LET new == (RefersTo(o) \cap allocations) \ marked IN
       /\ marked' = marked \cup new
       /\ pending' = (pending \ {o}) \cup new
  /\ UNCHANGED <<allocations, userVars, sweepVars, countVars, call>>

StartSweep ==
  /\ call.at = "mark" /\ pending = {}
  /\ rest' = allocations
  /\ Goto("sweep")
  /\ UNCHANGED <<allocations, userVars, markVars, liveBytes, countVars>>

Sweep ==
  /\ call.at = "sweep"
  /\ \E o \in rest :
       /\ rest' = rest \ {o}
       /\ marked' = marked \ {o}
       /\ IF o \in marked
            THEN liveBytes' = liveBytes + Size[o] /\ UNCHANGED allocations
            ELSE allocations' = allocations \ {o} /\ UNCHANGED liveBytes
  /\ UNCHANGED <<userVars, pending, countVars, call>>

\* The collection of an allocation goes on with it.
Collected ==
  /\ call.at = "sweep" /\ rest = {}
  /\ allocatedBytes' = liveBytes
  /\ collectionThreshold' =
       IF liveBytes > collectionThreshold THEN liveBytes * 2 ELSE collectionThreshold
  /\ liveBytes' = 0
  /\ call' = IF call.size = 0 THEN Idle ELSE [call EXCEPT !.at = "allocate"]
  /\ UNCHANGED <<allocations, userVars, markVars, rest>>

-----------------------------------------------------------------------------
(* What compiled code calls.                                                *)

InUser == call = Idle

Collect ==
  /\ InUser /\ call' = [at |-> "roots", size |-> 0]
  /\ UNCHANGED <<allocations, userVars, markVars, sweepVars, countVars>>

Allocate(size) ==
  /\ InUser
  /\ call' = [at |-> IF \/ allocatedBytes >= collectionThreshold
                        \/ size > collectionThreshold - allocatedBytes
                       THEN "roots" ELSE "allocate",
              size |-> size]
  /\ UNCHANGED <<allocations, userVars, markVars, sweepVars, countVars>>

\* AllocHGlobal, which finds place or not, and the rest of Allocate; the caller has a root for
\* what it is given.
Allocated ==
  /\ call.at = "allocate"
  /\ UNCHANGED <<statics, current, handlers, markVars, sweepVars, collectionThreshold>>
  /\ \/ \E o \in Object \ allocations :
          /\ Size[o] = call.size
          /\ allocations' = allocations \cup {o}
          /\ refs' = [refs EXCEPT ![o] = [f \in Field |-> None]]
          /\ frames' = [frames EXCEPT ![Depth] = @ \cup {o}]
          /\ allocatedBytes' = allocatedBytes + Size[o]
          /\ call' = Idle
     \/ /\ \A o \in Object \ allocations : Size[o] # call.size
        /\ Goto("aborted")
        /\ UNCHANGED <<allocations, refs, frames, allocatedBytes>>

UserStep == InUser /\ UNCHANGED <<allocations, markVars, sweepVars, countVars, call>>

\* GCHeap.Push: a method is called, with some of the caller's references.
Push ==
  /\ UserStep /\ Depth < MaxFrames
  /\ \E arguments \in SUBSET frames[Depth] : frames' = Append(frames, arguments)
  /\ UNCHANGED <<refs, statics, current, handlers>>

HandledHere == handlers # <<>> /\ handlers[Len(handlers)] = Depth

\* GCHeap.Pop: it returns, perhaps a reference.  It has left its tries.
Pop ==
  /\ UserStep /\ Depth > 1 /\ ~HandledHere
  /\ \E S \in SUBSET frames[Depth] :
       /\ Cardinality(S) <= 1
       /\ frames' = [SubSeq(frames, 1, Depth - 1) EXCEPT ![Depth - 1] = @ \cup S]
  /\ UNCHANGED <<refs, statics, current, handlers>>

\* ExceptionRuntime.Push, Pop and Throw.
PushHandler ==
  /\ UserStep /\ Len(handlers) < MaxFrames
  /\ handlers' = Append(handlers, Depth)
  /\ UNCHANGED <<refs, statics, current, frames>>

PopHandler ==
  /\ UserStep /\ HandledHere
  /\ handlers' = SubSeq(handlers, 1, Len(handlers) - 1)
  /\ UNCHANGED <<refs, statics, current, frames>>

\* The handler takes the exception frame off itself; an exception without one ends the program.
Throw ==
  /\ UserStep /\ handlers # <<>>
  /\ \E exception \in frames[Depth] : current' = exception
  /\ frames' = SubSeq(frames, 1, handlers[Len(handlers)])
  /\ handlers' = SubSeq(handlers, 1, Len(handlers) - 1)
  /\ UNCHANGED <<refs, statics>>

\* The code between: it reads a field, a static or the exception, writes, and forgets.
Read ==
  /\ UserStep
  /\ \E o \in (UNION {RefersTo(x) : x \in frames[Depth]})
              \cup (({statics[s] : s \in Static} \cup {current}) \ {None}) :
       frames' = [frames EXCEPT ![Depth] = @ \cup {o}]
  /\ UNCHANGED <<refs, statics, current, handlers>>

Forget ==
  /\ UserStep
  /\ \E o \in frames[Depth] : frames' = [frames EXCEPT ![Depth] = @ \ {o}]
  /\ UNCHANGED <<refs, statics, current, handlers>>

WriteField ==
  /\ UserStep
  /\ \E o \in frames[Depth], f \in Field, value \in frames[Depth] \cup {None} :
       refs' = [refs EXCEPT ![o][f] = value]
  /\ UNCHANGED <<statics, current, frames, handlers>>

WriteStatic ==
  /\ UserStep
  /\ \E s \in Static, value \in frames[Depth] \cup {None} : statics' = [statics EXCEPT ![s] = value]
  /\ UNCHANGED <<refs, current, frames, handlers>>

User ==
  \/ Push \/ Pop \/ PushHandler \/ PopHandler \/ Throw
  \/ Read \/ Forget \/ WriteField \/ WriteStatic

Turn == MarkRoots \/ ScanObject \/ StartSweep \/ Sweep \/ Collected \/ Allocated

Next ==
  \/ Turn
  \/ Collect \/ \E o \in Object : Allocate(Size[o])
  \/ User

Spec == Init /\ [][Next]_vars
FairSpec == Spec /\ WF_vars(Turn)

-----------------------------------------------------------------------------
(* What holds.                                                              *)

TypeOK ==
  /\ allocations \subseteq Object /\ marked \subseteq allocations
  /\ pending \subseteq allocations /\ rest \subseteq allocations
  /\ refs \in [Object -> [Field -> Object \cup {None}]]
  /\ statics \in [Static -> Object \cup {None}] /\ current \in Object \cup {None}
  /\ frames \in Seq(SUBSET Object) /\ Depth > 0
  /\ handlers \in Seq(Nat)
  /\ {liveBytes, allocatedBytes, collectionThreshold} \subseteq Nat
  /\ call \in [at : {"idle", "roots", "mark", "sweep", "allocate", "aborted"}, size : Nat]

\* The exception frames are in the order of the frames they unwind to, all of which are there.
Unwinds ==
  \A i \in 1 .. Len(handlers) :
    handlers[i] \in 1 .. Depth /\ \A j \in 1 .. i : handlers[j] <= handlers[i]

\* What can be reached is there, however it is reached: from a root, or from a field of an
\* object that is there, but for those a sweep is about to free (Collect, through all that
\* is called, returned, thrown and written between the collections).
NoDangling ==
  /\ Roots \subseteq allocations
  /\ call.at # "sweep" => \A o \in allocations : RefersTo(o) \subseteq allocations

\* A set that holds what the roots refer to and what its elements refer to.
Reaches(S) == Roots \subseteq S /\ \A o \in S : RefersTo(o) \subseteq S

\* A collection keeps nothing else: what it has marked, and what its sweep has left, is in
\* every such set ("freed %d unreferenced objects", Program.EFI.cs).
KeepsOnlyReachable ==
  \A S \in SUBSET Object : Reaches(S) =>
    /\ call.at \in {"roots", "mark", "sweep"} => marked \subseteq S
    /\ call.at = "sweep" => allocations \ rest \subseteq S

Sound == TypeOK /\ Unwinds /\ NoDangling

\* Both: what can be reached is kept, and nothing else is (GCHeap.Collect).
CollectsGarbage == Sound /\ KeepsOnlyReachable

\* Every call of the heap returns, or ends the program.
Returned == call.at \in {"idle", "aborted"}
CallsReturn == []<>Returned

=============================================================================
