----------------------------- MODULE QuakeHunk -----------------------------
(***************************************************************************)
(* The memory of Quake (src/quakegeneric/zone.c): one piece, from whose    *)
(* two ends the hunk grows, low blocks from below, a temporary file from   *)
(* above, with a cache in between whose blocks are moved or thrown out     *)
(* when the hunk needs their place, and evicted, the least recently used   *)
(* first, when another one is to be cached.  The callers are the loading   *)
(* of a sound (snd_mem.c) and of a model (model.c), which read a file into *)
(* temporary memory and keep the result in the cache, and the commands     *)
(* that take low memory, give it back, or flush the cache.                 *)
(*                                                                         *)
(* A call runs to its end before the next one, but each turn of a loop is  *)
(* a step, so that the loops can be seen to end and to keep what they must.*)
(***************************************************************************)
EXTENDS Integers, Sequences, SequencesExt, FiniteSetsExt

CONSTANTS
  User, None,    \* the cache_user_t of the sounds and models
  HunkSize,      \* hunk_size
  Align,         \* 16 in the code
  HunkHeader,    \* sizeof(hunk_t)
  CacheHeader,   \* sizeof(cache_system_t)
  Size,          \* the sizes asked for
  StackBuf       \* sizeof(stackbuf): a smaller file needs no temporary memory

SizeAssumption ==
  /\ None \notin User
  /\ {HunkSize, Align, HunkHeader, CacheHeader} \subseteq Nat \ {0}
  /\ Size \subseteq Nat /\ StackBuf \in Nat
  /\ HunkSize % Align = 0 /\ HunkHeader % Align = 0 /\ CacheHeader % Align = 0

VARIABLES
  low, high,            \* hunk_low_used, hunk_high_used
  tempactive, tempmark, \* hunk_tempactive, hunk_tempmark
  cache,                \* the blocks of cache_head by next: [at, size, user]
  lru,                  \* the same blocks, their addresses, by lru_next
  data,                 \* cache_user_t.data: the block, or Null
  prev,                 \* the local prev of Cache_FreeHigh
  call,                 \* the call in progress, see Idle
  uses                  \* history: the users of cached items, the last to ask first

hunkVars  == <<low, high, tempactive, tempmark>>
cacheVars == <<cache, lru, data, uses>>
vars == <<hunkVars, cacheVars, prev, call>>

Null == -1

\* Where a call is, for whom it loads, if it loads, the size of the item and, for a model,
\* the low mark to return to.
Idle == [at |-> "idle", for |-> None, size |-> 0, mark |-> 0]

Rounded(n) == ((n + Align - 1) \div Align) * Align
HunkBlock(n) == HunkHeader + Rounded(n)
Free == HunkSize - low - high

Goto(at) == call' = [call EXCEPT !.at = at]
Error(why) == call' = [Idle EXCEPT !.at = why]     \* Sys_Error

-----------------------------------------------------------------------------
(* The cache as a value: its blocks, the order of use, the users' pointers. *)

Cache == [blocks |-> cache, lru |-> lru, data |-> data]
Becomes(c) == cache' = c.blocks /\ lru' = c.lru /\ data' = c.data

End(b) == b.at + b.size
Owner(a) == (CHOOSE b \in ToSet(cache) : b.at = a).user

\* The gap before the i-th block, or behind the last one.
GapStart(i) == IF i = 1 THEN low ELSE End(cache[i - 1])
GapEnd(i)   == IF i > Len(cache) THEN HunkSize - high ELSE cache[i].at

\* Cache_TryAlloc looks from the bottom up; nobottom leaves out the lowest gap.
Fits(size, nobottom) ==
  {i \in (IF nobottom THEN 2 ELSE 1) .. Len(cache) + 1 : GapEnd(i) - GapStart(i) >= size}

Taken(c, i, size, u) ==
  [blocks |-> InsertAt(c.blocks, i, [at |-> GapStart(i), size |-> size, user |-> u]),
   lru    |-> <<GapStart(i)>> \o c.lru,
   data   |-> [c.data EXCEPT ![u] = GapStart(i)]]

\* Cache_Free: the block is the one the user points to.
Freed(c, u) ==
  [blocks |-> SelectSeq(c.blocks, LAMBDA b : b.at # c.data[u]),
   lru    |-> Remove(c.lru, c.data[u]),
   data   |-> [c.data EXCEPT ![u] = Null]]

\* The new block is taken while the old one is still there.
Moved(b) ==
  LET i     == Min(Fits(b.size, TRUE))
      added == [Taken(Cache, i, b.size, b.user) EXCEPT !.data = data]
      freed == Freed(added, b.user)
  IN  [freed EXCEPT !.data[b.user] = GapStart(i)]

\* Mutant: what cannot be moved is left where it is.
Cache_MoveIfItFits(b) ==
  IF Fits(b.size, TRUE) # {} THEN Becomes(Moved(b)) /\ UNCHANGED uses ELSE UNCHANGED cacheVars

Cache_Move(b) ==
  IF Fits(b.size, TRUE) # {}
    THEN Becomes(Moved(b)) /\ UNCHANGED uses
    ELSE Becomes(Freed(Cache, b.user)) /\ uses' = Remove(uses, b.user)

\* Mutant: the item is linked at the wrong end.
TouchedLast(c, u) == [c EXCEPT !.lru = Append(Remove(@, c.data[u]), c.data[u])]

\* Cache_UnlinkLRU and Cache_MakeLRU of Cache_Check.
Touched(c, u) == [c EXCEPT !.lru = <<c.data[u]>> \o Remove(@, c.data[u])]
Used(u) == uses' = <<u>> \o Remove(uses, u)

-----------------------------------------------------------------------------
(* The hunk makes room: Cache_FreeLow and Cache_FreeHigh.                   *)

\* Where the call goes on when there is room.
AfterLow  == IF call.for = None THEN "idle" ELSE "store"
AfterHigh ==
  CASE call.for = None  -> "idle"
    [] call.mark = Null -> "store"
    [] OTHER            -> "parse"

FreeLow ==
  /\ call.at = "freelow"
  /\ IF cache = <<>> \/ Head(cache).at >= low
       THEN Goto(AfterLow) /\ UNCHANGED cacheVars
       ELSE Cache_Move(Head(cache)) /\ UNCHANGED call
  /\ UNCHANGED <<hunkVars, prev>>

FreeHigh ==
  /\ call.at = "freehigh"
  /\ UNCHANGED hunkVars
  /\ IF cache = <<>> \/ End(Last(cache)) <= HunkSize - high
       THEN Goto(AfterHigh) /\ prev' = Null /\ UNCHANGED cacheVars
       ELSE LET b == Last(cache) IN
            /\ UNCHANGED call
            /\ IF b.at = prev
                 THEN /\ Becomes(Freed(Cache, b.user)) /\ uses' = Remove(uses, b.user)
                      /\ UNCHANGED prev
                 ELSE Cache_Move(b) /\ prev' = b.at

\* Hunk_AllocName: the marks are moved first, then the cache is pushed away.
GrowLow(n) ==
  IF Free < HunkBlock(n)
    THEN Error("failed low") /\ UNCHANGED hunkVars
    ELSE /\ low' = low + HunkBlock(n)
         /\ Goto("freelow")
         /\ UNCHANGED <<high, tempactive, tempmark>>

\* Hunk_FreeToHighMark, when it frees the temporary block.
HighWithoutTemp == IF tempactive THEN tempmark ELSE high

\* Hunk_TempAlloc.  A file that does not fit is an error of COM_LoadFile; SCR_ScreenShot
\* has its NULL.
GrowTemp(n, c, failed) ==
  LET size == HunkBlock(Rounded(n)) IN
  /\ tempactive' = TRUE
  /\ tempmark' = HighWithoutTemp
  /\ IF HunkSize - low - HighWithoutTemp < size
       THEN high' = HighWithoutTemp /\ call' = [Idle EXCEPT !.at = failed]
       ELSE high' = HighWithoutTemp + size /\ call' = c
  /\ UNCHANGED low

-----------------------------------------------------------------------------
(* The callers.                                                             *)

\* Hunk_AllocName by a level that loads.
AllocLow(n) ==
  /\ call = Idle
  /\ GrowLow(n)
  /\ UNCHANGED <<cacheVars, prev>>

\* Host_ClearMemory: Hunk_FreeToLowMark(host_hunklevel), the mark of an empty hunk here.
ClearMemory ==
  /\ call = Idle /\ low' = 0
  /\ UNCHANGED <<high, tempactive, tempmark, cacheVars, prev, call>>

\* SCR_ScreenShot.
ScreenShot(n) ==
  /\ call = Idle
  /\ GrowTemp(n, [Idle EXCEPT !.at = "freehigh"], "idle")
  /\ UNCHANGED <<cacheVars, prev>>

\* S_LoadSound and Mod_LoadModel of what is in memory, Mod_TouchModel, Mod_Extradata.
Cache_Check(u) ==
  /\ call = Idle /\ data[u] # Null
  /\ Becomes(Touched(Cache, u)) /\ Used(u)
  /\ UNCHANGED <<hunkVars, prev, call>>

\* The same of what is not: the file is read, into temporary memory unless it is small, and
\* the item, of size n, is built from it, a model on the low hunk first.
Load(u, file, n, model) ==
  /\ call = Idle /\ data[u] = Null
  /\ UNCHANGED <<cacheVars, prev>>
  /\ LET c(at) == [at |-> at, for |-> u, size |-> n, mark |-> IF model THEN low ELSE Null] IN
     IF file <= StackBuf
       THEN call' = c(IF model THEN "parse" ELSE "store") /\ UNCHANGED hunkVars
       ELSE GrowTemp(file, c("freehigh"), "failed temp")

\* Mod_LoadAliasModel puts the model together on the low hunk.
Parse ==
  /\ call.at = "parse"
  /\ GrowLow(call.size)
  /\ UNCHANGED <<cacheVars, prev>>

\* One turn of Cache_Alloc; a model is copied up from the low hunk then, which is given back.
Store ==
  /\ call.at = "store"
  /\ LET size == Rounded(call.size + CacheHeader) IN
     IF Fits(size, FALSE) # {}
       THEN /\ Becomes(Taken(Cache, Min(Fits(size, FALSE)), size, call.for))
            /\ Used(call.for)
            /\ low' = IF call.mark = Null THEN low ELSE call.mark
            /\ call' = Idle
       ELSE /\ UNCHANGED low
            /\ IF cache = <<>>
                 THEN Error("failed cache") /\ UNCHANGED cacheVars
                 ELSE /\ Becomes(Freed(Cache, Owner(Last(lru))))
                      /\ uses' = Remove(uses, Owner(Last(lru)))
                      /\ UNCHANGED call
  /\ UNCHANGED <<high, tempactive, tempmark, prev>>

\* Mod_FindName takes the place of a model that is not referenced.
Cache_Free(u) ==
  /\ call = Idle /\ data[u] # Null
  /\ Becomes(Freed(Cache, u)) /\ uses' = Remove(uses, u)
  /\ UNCHANGED <<hunkVars, prev, call>>

Cache_Flush ==
  /\ call = Idle
  /\ Becomes([blocks |-> <<>>, lru |-> <<>>, data |-> [u \in User |-> Null]]) /\ uses' = <<>>
  /\ UNCHANGED <<hunkVars, prev, call>>

Init ==
  /\ low = 0 /\ high = 0 /\ tempactive = FALSE /\ tempmark = 0
  /\ cache = <<>> /\ lru = <<>> /\ data = [u \in User |-> Null]
  /\ prev = Null /\ call = Idle /\ uses = <<>>

Turn == FreeLow \/ FreeHigh \/ Parse \/ Store

Next ==
  \/ Turn
  \/ \E n \in Size : AllocLow(n) \/ ScreenShot(n)
  \/ \E u \in User : Cache_Check(u) \/ Cache_Free(u)
  \/ \E u \in User, file, n \in Size, model \in BOOLEAN : Load(u, file, n, model)
  \/ ClearMemory \/ Cache_Flush

Spec == Init /\ [][Next]_vars
FairSpec == Spec /\ WF_vars(Turn)

-----------------------------------------------------------------------------
(* What holds.                                                              *)

InOrder    == \A i \in 1 .. Len(cache) - 1 : End(cache[i]) <= cache[i + 1].at
AboveLow   == cache # <<>> => Head(cache).at >= low
BelowHigh  == cache # <<>> => End(Last(cache)) <= HunkSize - high

PointersFit ==
  /\ Cardinality({b.user : b \in ToSet(cache)}) = Len(cache)
  /\ \A u \in User : data[u] # Null <=> \E b \in ToSet(cache) : b.user = u
  /\ \A b \in ToSet(cache) : data[b.user] = b.at

ListsAgree == IsInjective(lru) /\ ToSet(lru) = {b.at : b \in ToSet(cache)}

\* The hunk's two ends do not meet, the blocks of the cache lie apart, between them, except
\* those still to be pushed away; each belongs to the one user that points to it, and both
\* lists hold the same blocks (Cache_TryAlloc, Cache_Move, Cache_Free, the hunk's marks).
Sound ==
  /\ low \in Nat /\ high \in Nat /\ low + high <= HunkSize
  /\ tempmark \in 0 .. high
  /\ \A b \in ToSet(cache) : b.size > CacheHeader /\ b.user \in User
  /\ InOrder
  /\ call.at # "freelow"  => AboveLow
  /\ call.at # "freehigh" => BelowHigh
  /\ PointersFit /\ ListsAgree

\* The cache, through all its moves, is a cache that gives up the items touched longest ago
\* (Cache_Alloc), and others only to the hunk (Cache_FreeLow, Cache_FreeHigh).
Lru == INSTANCE LruCache WITH
  order <- [i \in DOMAIN lru |-> Owner(lru[i])],
  doing <- CASE call.at = "store" -> "storing"
             [] call.at \in {"freelow", "freehigh"} -> "yielding"
             [] OTHER -> "nothing"
ImplementsLru == Lru!Spec

\* Every call ends, with an error or without: the loops of Cache_FreeLow, Cache_FreeHigh and
\* Cache_Alloc do not go on for ever, whatever is moved to where.
Returned == call.at \notin {"freelow", "freehigh", "parse", "store"}
CallsReturn == []<>Returned

-----------------------------------------------------------------------------
(* A comment of the code says so, and the code does otherwise (README, Findings). *)

\* "free the least recently used cahedat" (Cache_Alloc): an item that is evicted is the one
\* whose user has not asked for it for the longest time.
EvictsLeastRecentlyUsed ==
  [][call.at = "store" => \A u \in User : data[u] # Null /\ data'[u] = Null => u = Last(uses)]_vars

=============================================================================
