----------------------------- MODULE QuakeZone -----------------------------
(***************************************************************************)
(* The zone of Quake (src/quakegeneric/zone.c), for strings and other      *)
(* small things: Z_Malloc looks for a free block around the whole list,    *)
(* from where the last search ended, one block a step here; any block that *)
(* was given out may be freed.                                             *)
(***************************************************************************)
EXTENDS ZoneList

CONSTANTS
  Size,     \* the sizes asked for
  Trash     \* room for the marker behind a block

RequestAssumption == Size \subseteq Nat /\ Trash \in Nat

VARIABLES
  zone,     \* mainzone
  call      \* Z_TagMalloc in progress: its size, base, rover and start

vars == <<zone, call>>

Idle == [at |-> "idle", size |-> 0, base |-> Cap, rover |-> Cap, start |-> Cap]

Init == zone = Cleared /\ call = Idle

Z_Malloc(n) ==
  /\ call = Idle
  /\ IF CheckHeap(zone)
       THEN LET r == zone.rover IN
            call' = [at |-> "scan", size |-> RoundUp(n + Header + Trash),
                     base |-> r, rover |-> r, start |-> zone.blocks[r].prev]
       ELSE call' = [Idle EXCEPT !.at = "bad heap"]
  /\ UNCHANGED zone

\* Mutant: a block in use takes the base only up to itself.
ScanKeepsBase ==
  /\ call.at = "scan"
  /\ LET next == zone.blocks[call.rover].next
         base == IF IsFree(zone, call.rover) THEN call.base ELSE call.rover
     IN  IF call.rover = call.start
           THEN call' = [call EXCEPT !.at = "failed"] /\ UNCHANGED zone
           ELSE IF IsFree(zone, base) /\ zone.blocks[base].size >= call.size
             THEN call' = Idle /\ zone' = Taken(zone, base, call.size, "used", NoUser)
             ELSE call' = [call EXCEPT !.rover = next, !.base = base] /\ UNCHANGED zone

\* One turn of the loop: the rover moves on, the base with it if the block is in use; it ends
\* with a block, or where it began.
Scan ==
  /\ call.at = "scan"
  /\ LET next == zone.blocks[call.rover].next
         base == IF IsFree(zone, call.rover) THEN call.base ELSE next
     IN  IF call.rover = call.start
           THEN call' = [call EXCEPT !.at = "failed"] /\ UNCHANGED zone
           ELSE IF IsFree(zone, base) /\ zone.blocks[base].size >= call.size
             THEN call' = Idle /\ zone' = Taken(zone, base, call.size, "used", NoUser)
             ELSE call' = [call EXCEPT !.rover = next, !.base = base] /\ UNCHANGED zone

Z_Free(b) ==
  /\ call = Idle
  /\ b \in DOMAIN zone.blocks /\ zone.blocks[b].tag = "used"
  /\ zone' = Released(zone, b)
  /\ UNCHANGED call

Next ==
  \/ \E n \in Size : Z_Malloc(n)
  \/ \E b \in ZoneHeader .. ZoneSize : Z_Free(b)
  \/ Scan

Spec == Init /\ [][Next]_vars
FairSpec == Spec /\ WF_vars(Scan)

\* The blocks fill the zone, linked both ways, no two free ones in a row, and the rover is one
\* of them, so that Z_CheckHeap finds nothing (Z_TagMalloc, Z_Free).
Sound ==
  /\ IsZone(zone) /\ CheckHeap(zone)
  /\ call.at # "bad heap"
  /\ {call.base, call.rover, call.start} \subseteq DOMAIN zone.blocks

\* "scaned all the way around the list": when Z_TagMalloc gives up, no free block would do.
FailsOnlyWhenFull ==
  call.at = "failed" =>
    \A b \in DOMAIN zone.blocks : IsFree(zone, b) => zone.blocks[b].size < call.size

\* The scan ends.
Returned == call.at # "scan"
MallocReturns == []<>Returned

=============================================================================
