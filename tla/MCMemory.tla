------------------------------ MODULE MCMemory ------------------------------
(***************************************************************************)
(* What is kept in memory, for TLC: the garbage collected heap, Doom's     *)
(* zone, Quake's zone, Quake's hunk with its cache, and the tables and the *)
(* output of the decompressor, all small.  They share nothing.             *)
(***************************************************************************)
EXTENDS GcHeap, ZoneList, FiniteSetsExt

CONSTANTS                     \* ZoneList's ZoneSize is that of Quake's zone
  DoomZoneSize, Lump, LumpSize, DoomSize,   \* DoomZone
  QuakeSize, Trash                          \* QuakeZone

VARIABLES
  which,         \* the component at work, see MCInit
  doomZone, cached, doomCall,   \* DoomZone
  quakeZone, quakeCall,   \* QuakeZone
  low, high, tempactive, tempmark, cache, lru, data, prev, hunkCall, uses,   \* QuakeHunk
  lengths, stream, bp, step, next, head, coded, out, error   \* Inflate

DVars == <<doomZone, cached, doomCall>>
ZVars == <<quakeZone, quakeCall>>
HVars == <<low, high, tempactive, tempmark, cache, lru, data, prev, hunkCall, uses>>
IVars == <<lengths, stream, bp, step, next, head, coded, out, error>>
MCVars == <<which, DVars, ZVars, HVars, IVars, vars>>

D == INSTANCE DoomZone WITH
  ZoneSize <- DoomZoneSize, Size <- DoomSize, zone <- doomZone, call <- doomCall
Z == INSTANCE QuakeZone WITH Size <- QuakeSize, zone <- quakeZone, call <- quakeCall
H == INSTANCE QuakeHunk WITH
  User <- {"a", "b", "c"}, None <- "none", HunkSize <- 18, Align <- 2, HunkHeader <- 2,
  CacheHeader <- 2, Size <- {1, 3}, StackBuf <- 2, call <- hunkCall
I == INSTANCE Inflate WITH
  FirstBits <- 3, MaxBits <- 4, Copies <- [s \in 0 .. 4 |-> IF s = 3 THEN 3 ELSE IF s = 4 THEN 2 ELSE 0], StreamBits <- 7, rest <- coded

\* Values of constants, see the .cfg: of GcHeap's Size, and of LumpSize.
ObjectSize == [o \in Object |-> 1]
LumpLength == [l \in Lump |-> IF l = "l" THEN 2 ELSE 3]

\* One of them is at work; the others stay as they begin.
DOnly == which = "doom zone" /\ UNCHANGED <<which, ZVars, HVars, IVars, vars>>
ZOnly == which = "quake zone" /\ UNCHANGED <<which, DVars, HVars, IVars, vars>>
HOnly == which = "hunk" /\ UNCHANGED <<which, DVars, ZVars, IVars, vars>>
IOnly == which = "inflate" /\ UNCHANGED <<which, DVars, ZVars, HVars, vars>>
GOnly == which = "heap" /\ UNCHANGED <<which, DVars, ZVars, HVars, IVars>>

MCInit ==
  /\ which \in {"doom zone", "quake zone", "hunk", "inflate", "heap"}
  /\ D!Init
  /\ Z!Init
  /\ H!Init
  /\ I!Init /\ (which # "inflate" => lengths = [s \in I!Symbols |-> 0])
  /\ Init

MCNext ==
  \/ DOnly /\ D!Next
  \/ ZOnly /\ Z!Next
  \/ HOnly /\ H!Next
  \/ IOnly /\ I!Next
  \/ GOnly /\ Next

MCSpec == MCInit /\ [][MCNext]_MCVars
MCFairSpec ==
  MCSpec /\ WF_MCVars((DOnly /\ D!Turn) \/ (ZOnly /\ Z!Scan) \/ (HOnly /\ H!Turn) \/ (GOnly /\ Turn))

-----------------------------------------------------------------------------
ASSUME HeapAssumed == HeapAssumption
ASSUME ZonesAssumed ==
  ZoneAssumption /\ D!ZoneAssumption /\ D!LumpAssumption /\ Z!RequestAssumption
ASSUME OthersAssumed == H!SizeAssumption /\ I!InflateAssumption

\* The lists of blocks of the three are whole, through all that is cut, joined, purged and
\* moved, and their users' pointers lead to them (DoomZone, QuakeZone, QuakeHunk); and the bytes
\* of the heap are counted, however they were freed (GcHeap).
BytesAreCounted ==
  call.at # "sweep" => allocatedBytes = MapThenSumSet(LAMBDA o : ObjectSize[o], allocations)
MemoryIsWhole == D!Sound /\ Z!Sound /\ H!Sound /\ BytesAreCounted

\* Doom: whatever a search purges, what it may not purge stays; when Z_FreeTags returns,
\* nothing of the old level is left (DoomZone).
FreesWhatItMay == D!StaticStays /\ D!LevelIsFreed

\* Quake: when Z_TagMalloc gives up, no free block would do (QuakeZone).
FailsOnlyWhenFull == Z!FailsOnlyWhenFull

\* Quake's cache, through all its moves, is a cache that gives up the items touched longest
\* ago, and others only to the hunk (LruCache).
ImplementsLru == H!ImplementsLru

\* Inflate: the tables and the loop decode what the format says, no more and no less.
DecodesTheFormat == I!DecodesTheFormat

\* Every call of an allocator returns.
AllCallsReturn == []<>(D!Returned /\ Z!Returned /\ H!Returned /\ Returned)

=============================================================================
