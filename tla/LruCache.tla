------------------------------ MODULE LruCache ------------------------------
(***************************************************************************)
(* What Quake's cache (src/quakegeneric/zone.c) promises its users: items  *)
(* in the order of their last touch.  Room for a new item is made by       *)
(* giving up the oldest ones; only while the hunk grows may others go.     *)
(* An item that is moved out of the way counts as touched.                 *)
(***************************************************************************)
EXTENDS Sequences, SequencesExt

CONSTANT User

VARIABLES
  order,   \* the users whose item is in memory, the last touched first
  doing    \* "nothing", "storing" an item, or "yielding" to the hunk

vars == <<order, doing>>

Init == order = <<>> /\ doing = "nothing"

\* A call begins, ends, or goes on to the next thing it does.
Switch(what) == doing # what /\ doing' = what /\ UNCHANGED order

Touch(u) ==
  /\ u \in ToSet(order)
  /\ order' = <<u>> \o Remove(order, u)

Use(u) == doing = "nothing" /\ Touch(u) /\ UNCHANGED doing

Release(u) ==
  /\ doing = "nothing" /\ u \in ToSet(order)
  /\ order' = Remove(order, u)
  /\ UNCHANGED doing

ReleaseAll == doing = "nothing" /\ order' = <<>> /\ UNCHANGED doing

\* The oldest item is given up for the new one.
Evict ==
  /\ doing = "storing" /\ order # <<>>
  /\ order' = Front(order)
  /\ UNCHANGED doing

Store(u) ==
  /\ doing = "storing" /\ u \notin ToSet(order)
  /\ order' = <<u>> \o order
  /\ doing' = "nothing"

Move(u) == doing = "yielding" /\ Touch(u) /\ UNCHANGED doing

Lose(u) ==
  /\ doing = "yielding" /\ u \in ToSet(order)
  /\ order' = Remove(order, u)
  /\ UNCHANGED doing

Next ==
  \/ \E what \in {"nothing", "storing", "yielding"} : Switch(what)
  \/ \E u \in User : Use(u) \/ Release(u) \/ Store(u) \/ Move(u) \/ Lose(u)
  \/ ReleaseAll \/ Evict

Spec == Init /\ [][Next]_vars

=============================================================================
