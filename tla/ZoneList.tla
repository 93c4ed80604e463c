------------------------------ MODULE ZoneList ------------------------------
(***************************************************************************)
(* The list of blocks that the zones of Doom (src/doomgeneric/z_zone.c)    *)
(* and of Quake (src/quakegeneric/zone.c) are: memory cut into blocks      *)
(* without a gap, doubly linked in the order of their addresses around a   *)
(* cap, and a rover, where the next search for a free block begins.  What  *)
(* both do alike: a block is freed and joined with its free neighbours,    *)
(* and a free block is taken, with what it has too much cut off.           *)
(*                                                                         *)
(* A zone is a record: the blocks in the list by address, and the rover.   *)
(***************************************************************************)
EXTENDS Integers, FiniteSets, Functions

CONSTANTS
  ZoneSize,      \* the size handed to Z_ClearZone
  ZoneHeader,    \* sizeof(memzone_t)
  Header,        \* sizeof(memblock_t)
  MinFragment,   \* MINFRAGMENT: less is not cut off
  Align

ZoneAssumption ==
  /\ {ZoneSize, ZoneHeader, Header, MinFragment, Align} \subseteq Nat \ {0}
  /\ MinFragment >= Header
  /\ ZoneSize >= ZoneHeader + Header

Cap == 0            \* &zone->blocklist
FreeTag == "free"
NoUser == "none"

Block(size, tag, user, next, prev) ==
  [size |-> size, tag |-> tag, user |-> user, next |-> next, prev |-> prev]

\* Z_ClearZone: one free block behind the zone's own header.
Cleared ==
  [blocks |-> [b \in {Cap, ZoneHeader} |->
                 IF b = Cap THEN Block(0, "cap", NoUser, ZoneHeader, ZoneHeader)
                            ELSE Block(ZoneSize - ZoneHeader, FreeTag, NoUser, Cap, Cap)],
   rover  |-> ZoneHeader]

IsFree(z, b) == z.blocks[b].tag = FreeTag
RoundUp(n) == ((n + Align - 1) \div Align) * Align

\* Mutant: the rover is left on the block that is gone.
AbsorbedUnderRover(z, a, b) ==
  LET after == z.blocks[b].next
      rest  == Restrict(z.blocks, DOMAIN z.blocks \ {b})
  IN  [z EXCEPT !.blocks = [[rest EXCEPT ![a].size = @ + z.blocks[b].size, ![a].next = after]
                              EXCEPT ![after].prev = a]]

\* b, which follows a, becomes a part of it.
Absorbed(z, a, b) ==
  LET after == z.blocks[b].next
      rest  == Restrict(z.blocks, DOMAIN z.blocks \ {b})
  IN  [blocks |-> [[rest EXCEPT ![a].size = @ + z.blocks[b].size, ![a].next = after]
                     EXCEPT ![after].prev = a],
       rover  |-> IF z.rover = b THEN a ELSE z.rover]

\* b, marked as free, is joined with the free block before it, then the one behind.
Released(z, b) ==
  LET z1 == [z EXCEPT !.blocks[b].tag = FreeTag, !.blocks[b].user = NoUser]
      p  == z.blocks[b].prev
      z2 == IF IsFree(z1, p) THEN Absorbed(z1, p, b) ELSE z1
      a  == IF IsFree(z1, p) THEN p ELSE b
      n  == z2.blocks[a].next
  IN  IF IsFree(z2, n) THEN Absorbed(z2, a, n) ELSE z2

\* The free block b is cut to size, unless the rest would be tiny, and taken; the rover is
\* left behind it.
Taken(z, b, size, tag, user) ==
  LET old   == z.blocks[b]
      extra == old.size - size
      cut   == extra > MinFragment
      rest  == b + size
      bs    == IF cut
                 THEN [x \in DOMAIN z.blocks \cup {rest} |->
                         IF x = rest THEN Block(extra, FreeTag, NoUser, old.next, b)
                                     ELSE z.blocks[x]]
                 ELSE z.blocks
      after == IF cut THEN rest ELSE old.next
  IN  [blocks |-> [bs EXCEPT ![b] = Block(IF cut THEN size ELSE old.size, tag, user, after, old.prev),
                             ![old.next].prev = IF cut THEN rest ELSE b],
       rover  |-> after]

\* Z_CheckHeap: from the first block to the last, they touch, link back, and no two in a
\* row are free.
CheckHeap(z) ==
  \A b \in DOMAIN z.blocks \ {Cap} :
    LET n == z.blocks[b].next IN
    n # Cap => /\ b + z.blocks[b].size = n
               /\ z.blocks[n].prev = b
               /\ ~(IsFree(z, b) /\ IsFree(z, n))

\* All of a zone: the blocks, from the one behind the cap, fill the memory to its end.
IsZone(z) ==
  /\ Cap \in DOMAIN z.blocks /\ ZoneHeader \in DOMAIN z.blocks
  /\ z.rover \in DOMAIN z.blocks
  /\ z.blocks[Cap].tag = "cap" /\ z.blocks[Cap].next = ZoneHeader
  /\ \A b \in DOMAIN z.blocks :
       /\ z.blocks[b].next \in DOMAIN z.blocks
       /\ z.blocks[z.blocks[b].next].prev = b
       /\ b # Cap =>
            /\ z.blocks[b].size >= Header
            /\ b + z.blocks[b].size = IF z.blocks[b].next = Cap THEN ZoneSize ELSE z.blocks[b].next

=============================================================================
