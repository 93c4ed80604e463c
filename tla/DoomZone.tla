------------------------------ MODULE DoomZone ------------------------------
(***************************************************************************)
(* The zone of Doom (src/doomgeneric/z_zone.c) and its main user, the      *)
(* cache of lumps (w_wad.c).  A block may belong to a user, a pointer that *)
(* is set when the block is given out and cleared when it is freed; a      *)
(* block whose tag says that it is purgable is freed by the search for     *)
(* another one.  A search takes one turn a step here, for its local        *)
(* pointers go on while the blocks they point to are freed and joined; so  *)
(* does Z_FreeTags.                                                        *)
(***************************************************************************)
EXTENDS ZoneList

CONSTANTS
  Lump,        \* the lumps, users of their blocks by lump->cache
  LumpSize,    \* W_LumpLength
  Size         \* the sizes of blocks that have no user

LumpAssumption == LumpSize \in [Lump -> Nat] /\ Size \subseteq Nat /\ NoUser \notin Lump

VARIABLES
  zone,     \* mainzone
  cached,   \* lump->cache: the block, or Cap for NULL
  call      \* Z_Malloc or Z_FreeTags in progress

vars == <<zone, cached, call>>

\* A call: what is asked for, and the pointers base, rover and start; Z_FreeTags has its block
\* in rover.
Idle == [at |-> "idle", size |-> 0, tag |-> FreeTag, user |-> NoUser,
         base |-> Cap, rover |-> Cap, start |-> Cap]

Purgable(z, b) == z.blocks[b].tag = "cache"                     \* >= PU_PURGELEVEL
OfLevel(z, b)  == z.blocks[b].tag \in {"level", "levspec"}      \* PU_LEVEL to PU_PURGELEVEL-1

Init == zone = Cleared /\ cached = [l \in Lump |-> Cap] /\ call = Idle

\* Z_Free clears the user's mark.
Free(b) ==
  /\ zone' = Released(zone, b)
  /\ cached' = [l \in Lump |-> IF zone.blocks[b].user = l THEN Cap ELSE cached[l]]

-----------------------------------------------------------------------------
(* Z_Malloc.                                                                *)

\* The search begins at the rover, or at the free block behind it.
Malloc(size, tag, user) ==
  LET r == zone.rover
      p == zone.blocks[r].prev
      b == IF IsFree(zone, p) THEN p ELSE r
  IN  call' = [at |-> "scan", size |-> RoundUp(size) + Header, tag |-> tag, user |-> user,
               base |-> b, rover |-> b, start |-> zone.blocks[b].prev]

\* The turn that comes to where the search began fails.
Full ==
  /\ call.at = "scan" /\ call.rover = call.start
  /\ call' = [call EXCEPT !.at = "failed"]
  /\ UNCHANGED <<zone, cached>>

\* The end of a turn: base is the block that is wanted, or the search goes on.  The block's
\* user is pointed at it.
Look(z, marks, base, rover) ==
  IF IsFree(z, base) /\ z.blocks[base].size >= call.size
    THEN /\ zone' = Taken(z, base, call.size, call.tag, call.user)
         /\ cached' = [l \in Lump |-> IF l = call.user THEN base ELSE marks[l]]
         /\ call' = Idle
    ELSE /\ zone' = z /\ cached' = marks
         /\ call' = [call EXCEPT !.base = base, !.rover = rover]

PassFree ==
  /\ call.at = "scan" /\ call.rover # call.start
  /\ IsFree(zone, call.rover)
  /\ Look(zone, cached, call.base, zone.blocks[call.rover].next)

PassUsed ==
  /\ call.at = "scan" /\ call.rover # call.start
  /\ ~IsFree(zone, call.rover) /\ ~Purgable(zone, call.rover)
  /\ LET n == zone.blocks[call.rover].next IN Look(zone, cached, n, n)

\* Z_Free may join the rover's block with the ones around it: base is found again from the
\* block before it.
Purge ==
  /\ call.at = "scan" /\ call.rover # call.start
  /\ Purgable(zone, call.rover)
  /\ LET z     == Released(zone, call.rover)
         marks == [cached EXCEPT ![zone.blocks[call.rover].user] = Cap]
         base  == z.blocks[zone.blocks[call.base].prev].next
     IN  Look(z, marks, base, z.blocks[base].next)

-----------------------------------------------------------------------------
(* The callers.                                                             *)

\* Thinkers and the tables of a level, which have no user.
New(size, tag) ==
  /\ call = Idle /\ Malloc(size, tag, NoUser)
  /\ UNCHANGED <<zone, cached>>

\* Z_Free of what has been given out without a user.
Z_Free(b) ==
  /\ call = Idle
  /\ b \in DOMAIN zone.blocks \ {Cap}
  /\ ~IsFree(zone, b) /\ zone.blocks[b].user = NoUser
  /\ Free(b)
  /\ UNCHANGED call

\* W_CacheLumpNum.
W_CacheLump(l, tag) ==
  /\ call = Idle
  /\ IF cached[l] # Cap
       THEN zone' = [zone EXCEPT !.blocks[cached[l]].tag = tag] /\ UNCHANGED call
       ELSE Malloc(LumpSize[l], tag, l) /\ UNCHANGED zone
  /\ UNCHANGED cached

\* W_ReleaseLumpNum of a lump that was cached as static.
W_ReleaseLump(l) ==
  /\ call = Idle
  /\ cached[l] # Cap /\ zone.blocks[cached[l]].tag = "static"
  /\ zone' = [zone EXCEPT !.blocks[cached[l]].tag = "cache"]
  /\ UNCHANGED <<cached, call>>

\* P_SetupLevel: Z_FreeTags (PU_LEVEL, PU_PURGELEVEL-1).
Z_FreeTags ==
  /\ call = Idle
  /\ call' = [Idle EXCEPT !.at = "freetags", !.rover = zone.blocks[Cap].next]
  /\ UNCHANGED <<zone, cached>>

\* Mutant: the link is read after the block was freed and joined with the one before it.
FreeNextReadLate ==
  /\ call.at = "freetags"
  /\ LET b == call.rover
         p == zone.blocks[b].prev
     IN  IF b = Cap
           THEN call' = Idle /\ UNCHANGED <<zone, cached>>
           ELSE IF OfLevel(zone, b)
             THEN /\ Free(b)
                  /\ call' = [call EXCEPT !.rover = zone'.blocks[zone'.blocks[p].next].next]
             ELSE call' = [call EXCEPT !.rover = zone.blocks[b].next] /\ UNCHANGED <<zone, cached>>

\* The link is read before the block is freed.  If Z_Free joins the next block, a free one,
\* its header is still there to be read, and leads on.
FreeNext ==
  /\ call.at = "freetags"
  /\ LET b == call.rover
         n == zone.blocks[b].next
     IN  IF b = Cap
           THEN call' = Idle /\ UNCHANGED <<zone, cached>>
           ELSE IF OfLevel(zone, b)
             THEN /\ Free(b)
                  /\ call' = [call EXCEPT !.rover = IF IsFree(zone, n) THEN zone.blocks[n].next ELSE n]
             ELSE call' = [call EXCEPT !.rover = n] /\ UNCHANGED <<zone, cached>>

Turn == Full \/ PassFree \/ PassUsed \/ Purge \/ FreeNext

Next ==
  \/ Turn
  \/ \E n \in Size, tag \in {"static", "level"} : New(n, tag)
  \/ \E b \in ZoneHeader .. ZoneSize : Z_Free(b)
  \/ \E l \in Lump : W_ReleaseLump(l) \/ \E tag \in {"static", "cache"} : W_CacheLump(l, tag)
  \/ Z_FreeTags

Spec == Init /\ [][Next]_vars
FairSpec == Spec /\ WF_vars(Turn)

-----------------------------------------------------------------------------
(* What holds.                                                              *)

\* The blocks fill the zone, no two free ones in a row (Z_CheckHeap), the pointers of a search
\* stay on blocks of the list through all it frees and joins, and a lump points to the block
\* that has it as its user, or to none (Z_Malloc, Z_Free).
Sound ==
  /\ IsZone(zone) /\ CheckHeap(zone)
  /\ {call.base, call.rover, call.start} \subseteq DOMAIN zone.blocks
  /\ \A b \in DOMAIN zone.blocks : zone.blocks[b].user \in Lump => cached[zone.blocks[b].user] = b
  /\ \A l \in Lump : cached[l] # Cap =>
       cached[l] \in DOMAIN zone.blocks /\ zone.blocks[cached[l]].user = l

\* Whatever a search purges, and wherever Z_FreeTags is led by the links it reads, a static
\* block stays as it is until its caller frees or releases it, and a search keeps those of the
\* level, too.
StaticStays ==
  [][call.at # "idle" =>
       \A b \in DOMAIN zone.blocks :
         \/ IsFree(zone, b) \/ Purgable(zone, b)
         \/ call.at = "freetags" /\ OfLevel(zone, b)
         \/ b = Cap
         \/ /\ b \in DOMAIN zone'.blocks
            /\ \A f \in {"size", "tag", "user"} : zone'.blocks[b][f] = zone.blocks[b][f]]_vars

\* When Z_FreeTags returns, nothing of the old level is left.
LevelIsFreed ==
  [][call.at = "freetags" /\ call'.at = "idle" =>
       \A b \in DOMAIN zone'.blocks : ~OfLevel(zone', b)]_vars

\* Z_Malloc and Z_FreeTags end.
Returned == call.at \notin {"scan", "freetags"}
CallsReturn == []<>Returned

-----------------------------------------------------------------------------
(* A comment of the code says so, and the code does otherwise (README, Findings). *)

\* "throwing out any purgable blocks along the way", "scanned all the way around the list": a
\* search that gives up has left no purgable block that would have been enough.
PurgesBeforeItFails ==
  call.at = "failed" =>
    \A b \in DOMAIN zone.blocks : Purgable(zone, b) => zone.blocks[b].size < call.size

=============================================================================
