----------------------------- MODULE DoomMovers -----------------------------
(***************************************************************************)
(* What moves the floors and ceilings of Doom: doors (p_doors.c), lifts    *)
(* (p_plats.c) and crushers (p_ceilng.c) of src/doomgeneric.  Each is a    *)
(* thinker (p_tick.c) that moves its sector a little each tic, unless      *)
(* something is in the way (p_floor.c, p_map.c); the sector points to it   *)
(* by specialdata, lifts and crushers are also in a table of limited size, *)
(* by which they are put in stasis and taken out.  A thinker that is done  *)
(* is freed at its next turn.  A savegame keeps the movers (p_saveg.c).    *)
(*                                                                         *)
(* Speeds are one unit of height, and the order of thinkers in their list  *)
(* is left open: each may have its turn at any time.                       *)
(***************************************************************************)
EXTENDS Integers, FiniteSets

CONSTANTS
  Doors, Lifts, Crushers,   \* the sectors that lines of each kind lead to
  Levels,                   \* the levels: each is the set of those of its sectors that lines reach
  InitFloor, InitCeiling,
  LowFloor, HighFloor,      \* P_FindLowestFloorSurrounding, P_FindHighestFloorSurrounding
  DoorTop, HighCeiling,     \* P_FindLowestCeilingSurrounding, less 4; P_FindHighestCeiling...
  Thing,                    \* the height of a thing
  Reached,                  \* the sectors that a thing can get into
  ByHand,                   \* the sectors behind the lines that are used as doors by hand
  CrushGap,                 \* 8: what a crusher leaves
  WaitTime,                 \* VDOORWAIT, PLATWAIT
  MaxPlats, MaxCeilings,    \* the sizes of the tables
  Leftover,                 \* the heights that memory nobody has set may hold
  Address                   \* bound: the memory of movers

Sector == Doors \cup Lifts \cup Crushers

MoverAssumption ==
  /\ Levels \subseteq SUBSET Sector /\ Reached \subseteq Sector /\ ByHand \subseteq Doors \cup Lifts
  /\ InitFloor \in [Sector -> Nat] /\ InitCeiling \in [Sector -> Nat]
  /\ {Thing, WaitTime, MaxPlats, MaxCeilings} \subseteq Nat \ {0}
  /\ {LowFloor, HighFloor, DoorTop, HighCeiling, CrushGap} \subseteq Nat
  /\ Leftover \subseteq Int
  /\ 0 \notin Address

\* What a level is: its floors and ceilings, and those around a sector that lines lead to, leave
\* each floor below its ceiling, and lines of one kind lead to a sector.
LevelAssumption ==
  /\ Doors \cap Lifts = {} /\ Doors \cap Crushers = {} /\ Lifts \cap Crushers = {}
  /\ \A s \in Sector : InitFloor[s] <= InitCeiling[s]
  /\ \A s \in Doors : InitFloor[s] <= DoorTop
  /\ \A s \in Lifts : LowFloor <= InitCeiling[s] /\ HighFloor <= InitCeiling[s]
  /\ \A s \in Crushers : InitFloor[s] <= HighCeiling

VARIABLES
  level, floor, ceiling,
  unset,         \* history: the sectors whose lift was sent down to a low that was never set
  thing,         \* a thing is in the sector
  specialdata,
  mover,         \* the memory of the movers: Nothing, or what is there
  activeplats, activeceilings,
  failed         \* I_Error ("P_AddActivePlat: no more plats!")

heights == <<floor, ceiling, unset>>
tables  == <<activeplats, activeceilings>>
vars == <<level, heights, thing, specialdata, mover, tables, failed>>

Null == 0
Nothing == [kind |-> "none"]

\* direction or status, that of before the stasis (while it lasts), the count of tics, the heights
\* it moves between, and its thinker: "think", "none" in stasis, "removed" when it is done.
Mover(kind, type, s, status, wait, low, high) ==
  [kind |-> kind, type |-> type, sector |-> s, status |-> status, old |-> "none",
   count |-> 0, wait |-> wait, low |-> low, high |-> high, thinker |-> "think"]

Minimum(x, y) == IF x < y THEN x ELSE y
Maximum(x, y) == IF x > y THEN x ELSE y

Used == {a \in Address : mover[a] # Nothing}
Live == {a \in Used : mover[a].thinker # "removed"}

Init ==
  /\ level \in Levels
  /\ floor = InitFloor /\ ceiling = InitCeiling /\ unset = {}
  /\ thing = [s \in Sector |-> FALSE]
  /\ specialdata = [s \in Sector |-> Null]
  /\ mover = [a \in Address |-> Nothing]
  /\ activeplats = {} /\ activeceilings = {} /\ failed = FALSE

-----------------------------------------------------------------------------
(* T_MovePlane and P_ChangeSector.                                          *)

Fits(s, f, c) == thing[s] => c - f >= Thing

\* To the destination, or a step towards it: where the plane is then, and the result.  A last
\* step that does not fit is taken back, but has arrived all the same.
FloorMove(s, dest, dir) ==
  LET past == IF dir = 1 THEN floor[s] + 1 > dest ELSE floor[s] - 1 < dest
      to   == IF past THEN dest ELSE floor[s] + dir
  IN  CASE past -> [at |-> IF Fits(s, to, ceiling[s]) THEN to ELSE floor[s], res |-> "pastdest"]
        [] ~past /\ Fits(s, to, ceiling[s]) -> [at |-> to, res |-> "ok"]
        [] OTHER -> [at |-> floor[s], res |-> "crushed"]

CeilingMove(s, dest, dir, crush) ==
  LET past == IF dir = 1 THEN ceiling[s] + 1 > dest ELSE ceiling[s] - 1 < dest
      to   == IF past THEN dest ELSE ceiling[s] + dir
      fits == Fits(s, floor[s], to)
  IN  CASE past -> [at |-> IF fits THEN to ELSE ceiling[s], res |-> "pastdest"]
        [] ~past /\ (fits \/ dir = 1) -> [at |-> to, res |-> "ok"]
        [] OTHER -> [at |-> IF crush THEN to ELSE ceiling[s], res |-> "crushed"]

Sets(a, m) == mover' = [mover EXCEPT ![a] = m]
Goes(a, status) == Sets(a, [mover[a] EXCEPT !.status = status])

\* Mutant: the sector keeps its pointer.
EndsAlone(a) == Sets(a, [mover[a] EXCEPT !.thinker = "removed"]) /\ UNCHANGED specialdata

\* The sector forgets its mover, and P_RemoveThinker marks it.
Ends(a) ==
  /\ Sets(a, [mover[a] EXCEPT !.thinker = "removed"])
  /\ specialdata' = [specialdata EXCEPT ![mover[a].sector] = Null]

Turn(a) == mover[a] # Nothing /\ mover[a].thinker = "think" /\ UNCHANGED <<thing, failed>>

-----------------------------------------------------------------------------
(* The thinkers.                                                            *)

\* The waiting of doors and lifts: a count that is taken down to 0, and from there on and on
\* (bound: -2 stands for all that is below -1).
Waits(a, go) ==
  /\ mover[a].status = "wait"
  /\ IF mover[a].count = 1
       THEN Sets(a, [mover[a] EXCEPT !.count = 0, !.status = go])
       ELSE Sets(a, [mover[a] EXCEPT !.count = Maximum(@ - 1, -2)])
  /\ UNCHANGED <<heights, specialdata, tables>>

\* What a door does that has arrived: two cases, which come about when it is turned back by
\* hand, are in neither switch, and it stays as it is.
DoorArrives(m) ==
  CASE <<m.type, m.status>> \in {<<"close30ThenOpen", "down">>, <<"normal", "up">>} -> "waits"
    [] <<m.type, m.status>> \in {<<"open", "down">>, <<"close", "up">>} -> "stays"
    [] OTHER -> "ends"

T_VerticalDoor(a) ==
  LET m == mover[a]
      s == m.sector
      r == CeilingMove(s, IF m.status = "up" THEN m.high ELSE floor[s],
                       IF m.status = "up" THEN 1 ELSE -1, FALSE)
  IN  /\ Turn(a) /\ m.kind = "door"
      /\ \/ Waits(a, IF m.type = "normal" THEN "down" ELSE "up")
         \/ /\ m.status # "wait"
            /\ ceiling' = [ceiling EXCEPT ![s] = r.at]
            /\ CASE r.res = "pastdest" /\ DoorArrives(m) = "waits" ->
                      /\ Sets(a, [m EXCEPT !.status = "wait", !.count = WaitTime])
                      /\ UNCHANGED specialdata
                 [] r.res = "pastdest" /\ DoorArrives(m) = "ends" -> Ends(a)
                 [] r.res = "crushed" /\ m.type # "close" -> Goes(a, "up") /\ UNCHANGED specialdata
                 [] OTHER -> UNCHANGED <<mover, specialdata>>
            /\ UNCHANGED <<floor, unset, tables>>

T_PlatRaise(a) ==
  LET m == mover[a]
      s == m.sector
      up == m.status = "up"
      r == FloorMove(s, IF up THEN m.high ELSE m.low, IF up THEN 1 ELSE -1)
      Pause(status) == Sets(a, [m EXCEPT !.status = status, !.count = m.wait])
  IN  /\ Turn(a) /\ m.kind = "plat"
      /\ \/ Waits(a, IF floor[s] = m.low THEN "up" ELSE "down")
         \/ /\ m.status # "wait"
            /\ floor' = [floor EXCEPT ![s] = r.at]
            /\ unset' = IF m.type = "raise" /\ ~up THEN unset \cup {s} ELSE unset
            /\ CASE r.res = "pastdest" /\ up /\ m.type # "perpetual" ->     \* P_RemoveActivePlat
                      Ends(a) /\ activeplats' = activeplats \ {a}
                 [] r.res = "pastdest" /\ ~(up /\ m.type # "perpetual") ->
                      Pause("wait") /\ UNCHANGED <<specialdata, activeplats>>
                 [] r.res = "crushed" /\ up -> Pause("down") /\ UNCHANGED <<specialdata, activeplats>>
                 [] OTHER -> UNCHANGED <<mover, specialdata, activeplats>>
            /\ UNCHANGED <<ceiling, activeceilings>>

\* P_RemoveActiveCeiling does nothing for a ceiling that had no place in the table.
T_MoveCeiling(a) ==
  LET m == mover[a]
      s == m.sector
      up == m.status = "up"
      r == CeilingMove(s, IF up THEN m.high ELSE m.low, IF up THEN 1 ELSE -1,
                       m.type = "crushAndRaise" /\ ~up)
  IN  /\ Turn(a) /\ m.kind = "ceiling"
      /\ ceiling' = [ceiling EXCEPT ![s] = r.at]
      /\ CASE r.res = "pastdest" /\ m.type = "crushAndRaise" ->
                Goes(a, IF up THEN "down" ELSE "up") /\ UNCHANGED <<specialdata, activeceilings>>
           [] r.res = "pastdest" /\ m.type # "crushAndRaise" /\ a \in activeceilings ->
                Ends(a) /\ activeceilings' = activeceilings \ {a}
           [] OTHER -> UNCHANGED <<mover, specialdata, activeceilings>>
      /\ UNCHANGED <<floor, unset, activeplats>>

\* P_RunThinkers frees what was removed.
Free(a) ==
  /\ mover[a] # Nothing /\ mover[a].thinker = "removed"
  /\ Sets(a, Nothing)
  /\ UNCHANGED <<heights, thing, specialdata, tables, failed>>

-----------------------------------------------------------------------------
(* The lines.                                                               *)

\* A new thinker, which the sector points to.
New(a, m) ==
  /\ mover[a] = Nothing
  /\ Sets(a, m)
  /\ specialdata' = [specialdata EXCEPT ![m.sector] = a]

Line == ~failed /\ UNCHANGED <<heights, thing>>

EV_DoDoor(s, type) ==
  /\ Line /\ s \in Doors /\ specialdata[s] = Null
  /\ \E a \in Address :
       New(a, IF type \in {"close", "close30ThenOpen"}
                THEN Mover("door", type, s, "down", WaitTime, 0,
                           IF type = "close" THEN DoorTop ELSE ceiling[s])
                ELSE Mover("door", type, s, "up", WaitTime, 0, DoorTop))
  /\ UNCHANGED <<tables, failed>>

\* A lift that is taken for a door: in the 64-bit layout of the two structures the door's
\* direction is the lift's count.  One of -1 is a door that goes down, and is turned to 1; else
\* what is a lift by its thinker gets a wait of -1, and what has none, in stasis, a count of -1.
AsADoor(d, player) ==
  CASE mover[d].count = -1 -> Sets(d, [mover[d] EXCEPT !.count = 1])
    [] mover[d].count # -1 /\ player /\ mover[d].thinker = "think" -> Sets(d, [mover[d] EXCEPT !.wait = -1])
    [] mover[d].count # -1 /\ player /\ mover[d].thinker # "think" -> Sets(d, [mover[d] EXCEPT !.count = -1])
    [] OTHER -> UNCHANGED mover

\* A door used by hand.  What already moves the sector is turned back, if the line is not of a
\* door that stays open; it may be a lift.
EV_VerticalDoor(s, type, player) ==
  /\ Line /\ s \in ByHand
  /\ LET d == specialdata[s] IN
     IF d # Null /\ type = "normal"
       THEN /\ CASE mover[d].kind = "door" /\ mover[d].status = "down" -> Goes(d, "up")
                 [] mover[d].kind = "door" /\ mover[d].status # "down" /\ player -> Goes(d, "down")
                 [] mover[d].kind = "plat" -> AsADoor(d, player)
                 [] OTHER -> UNCHANGED mover
            /\ UNCHANGED specialdata
       ELSE /\ s \in Doors
            /\ \E a \in Address : New(a, Mover("door", type, s, "up", WaitTime, 0, DoorTop))
  /\ UNCHANGED <<tables, failed>>

\* P_ActivateInStasis comes first.
Woken(kind) ==
  [a \in Address |-> IF mover[a] # Nothing /\ mover[a].kind = kind /\ mover[a].status = "stasis"
                       THEN [mover[a] EXCEPT !.status = mover[a].old, !.old = "none", !.thinker = "think"]
                       ELSE mover[a]]

\* P_FindNextHighestFloor: of the floors around, the lowest of those above h, or h.
NextFloor(h) == IF h < LowFloor THEN LowFloor ELSE Maximum(HighFloor, h)

NewPlat(s, type, status, low) ==
  CASE type = "perpetual" ->
         Mover("plat", type, s, status, WaitTime, Minimum(LowFloor, floor[s]), Maximum(HighFloor, floor[s]))
    [] type = "downWaitUpStay" ->
         Mover("plat", type, s, "down", WaitTime, Minimum(LowFloor, floor[s]), floor[s])
    [] OTHER -> Mover("plat", type, s, "up", 0, low, NextFloor(floor[s]))    \* raiseToNearestAndChange

\* The low of a lift that is raised is never set: it is what the memory held before, and where
\* the lift goes when something is in its way.  A lift without a place in the table is an error.
EV_DoPlat(s, type) ==
  /\ Line /\ s \in Lifts
  /\ LET woken == IF type = "perpetual" THEN Woken("plat") ELSE mover IN
     IF specialdata[s] # Null
       THEN mover' = woken /\ UNCHANGED <<specialdata, activeplats, failed>>
       ELSE \E a \in Address, status \in {"up", "down"}, low \in Leftover :
              /\ mover[a] = Nothing
              /\ mover' = [woken EXCEPT ![a] = NewPlat(s, type, status, low)]
              /\ specialdata' = [specialdata EXCEPT ![s] = a]
              /\ IF Cardinality(activeplats) < MaxPlats
                   THEN activeplats' = activeplats \cup {a} /\ UNCHANGED failed
                   ELSE failed' = TRUE /\ UNCHANGED activeplats
  /\ UNCHANGED activeceilings

NewCeiling(s, type) ==
  CASE type = "crushAndRaise" -> Mover("ceiling", type, s, "down", 0, floor[s] + CrushGap, ceiling[s])
    [] type = "lowerToFloor"  -> Mover("ceiling", type, s, "down", 0, floor[s], 0)
    [] OTHER                  -> Mover("ceiling", type, s, "up", 0, 0, HighCeiling)

EV_DoCeiling(s, type) ==
  /\ Line /\ s \in Crushers
  /\ LET woken == IF type = "crushAndRaise" THEN Woken("ceiling") ELSE mover IN
     IF specialdata[s] # Null
       THEN mover' = woken /\ UNCHANGED <<specialdata, activeceilings>>
       ELSE \E a \in Address :
              /\ mover[a] = Nothing
              /\ mover' = [woken EXCEPT ![a] = NewCeiling(s, type)]
              /\ specialdata' = [specialdata EXCEPT ![s] = a]
              /\ activeceilings' = IF Cardinality(activeceilings) < MaxCeilings
                                     THEN activeceilings \cup {a} ELSE activeceilings
  /\ UNCHANGED <<activeplats, failed>>

\* EV_StopPlat and EV_CeilingCrushStop: all of the table, whose sectors have the line's tag.
Stop(table) ==
  /\ Line
  /\ mover' = [a \in Address |->
                 IF a \in table /\ mover[a].status # "stasis"
                   THEN [mover[a] EXCEPT !.old = mover[a].status, !.status = "stasis", !.thinker = "none"]
                   ELSE mover[a]]
  /\ UNCHANGED <<specialdata, tables, failed>>

-----------------------------------------------------------------------------
(* Things, and the savegame.                                                *)

\* A thing comes where there is room, goes where it is not held, or is crushed to death.
ThingMoves(s) ==
  /\ ~failed
  /\ ~thing[s] => ceiling[s] - floor[s] >= Thing
  /\ thing' = [thing EXCEPT ![s] = ~@]
  /\ UNCHANGED <<heights, specialdata, mover, tables, failed>>

\* A game is saved and loaded again: P_ArchiveSpecials writes what thinks, and what is in
\* stasis if it is in the table of the crushers; the tables are filled again.
Archived == {a \in Live : mover[a].thinker = "think" \/ a \in activeceilings}

Reload ==
  /\ ~failed
  /\ mover' = [a \in Address |-> IF a \in Archived THEN mover[a] ELSE Nothing]
  /\ specialdata' \in {f \in [Sector -> Archived \cup {Null}] :
       \A s \in Sector : IF \E a \in Archived : mover[a].sector = s
                           THEN f[s] # Null /\ mover[f[s]].sector = s
                           ELSE f[s] = Null}
  /\ activeplats' = {a \in Archived : mover[a].kind = "plat"}
  /\ activeceilings' \in
       LET all == {a \in Archived : mover[a].kind = "ceiling"}
       IN  {t \in SUBSET all : Cardinality(t) = Minimum(Cardinality(all), MaxCeilings)}
  /\ UNCHANGED <<heights, thing, failed>>

Think(a) == ~failed /\ (T_VerticalDoor(a) \/ T_PlatRaise(a) \/ T_MoveCeiling(a) \/ Free(a))

Step ==
  \/ \E a \in Address : Think(a)
  \/ \E s \in level :
       \/ \E type \in {"normal", "open", "close", "close30ThenOpen"} : EV_DoDoor(s, type)
       \/ \E type \in {"normal", "open"}, player \in BOOLEAN : EV_VerticalDoor(s, type, player)
       \/ \E type \in {"perpetual", "downWaitUpStay", "raise"} : EV_DoPlat(s, type)
       \/ \E type \in {"crushAndRaise", "lowerToFloor", "raiseToHighest"} : EV_DoCeiling(s, type)
       \/ s \in Reached /\ ThingMoves(s)
  \/ Stop(activeplats) \/ Stop(activeceilings)
  \/ Reload

Next == Step /\ UNCHANGED level

Spec == Init /\ [][Next]_vars
FairSpec == Spec /\ \A a \in Address : WF_vars(Think(a) /\ UNCHANGED level)

-----------------------------------------------------------------------------
(* What holds.                                                              *)

\* No pointer is left to what is done or freed: a sector's specialdata, which lines turn back,
\* and the tables, which they stop and start (T_..., P_RemoveActive..., P_RunThinkers); and
\* what moves a sector is known to it, but for doors opened from both sides.  No floor is above
\* its ceiling, but where a raised lift went back down to a low that nobody set (unset).
Sound ==
  /\ \A s \in Sector : specialdata[s] # Null =>
       specialdata[s] \in Live /\ mover[specialdata[s]].sector = s
  /\ activeplats \subseteq {a \in Live : mover[a].kind = "plat"}
  /\ activeceilings \subseteq {a \in Live : mover[a].kind = "ceiling"}
  /\ \A a \in Live : mover[a].sector \notin Doors => specialdata[mover[a].sector] = a
  /\ \A s \in Sector \ unset : floor[s] <= ceiling[s]

\* A door turned back by hand that has arrived, and keeps its sector for ever: opened to stay
\* and then sent down, or closed and then sent up (the default of both switches).
Hangs(m) ==
  /\ m.kind = "door" /\ DoorArrives(m) = "stays"
  /\ ceiling[m.sector] = IF m.status = "up" THEN m.high ELSE floor[m.sector]

\* Left alone, every door, lift and ceiling comes to rest, and can be used again: but for the
\* perpetual ones and those in stasis, one that something is in the way of, a lift that waits
\* for ever (its wait spoilt by EV_VerticalDoor, or none at all after something was in its
\* way), a door that hangs, a ceiling that found no place in the table, which never lets go of
\* its sector, and doors that move one sector against each other (one opened by hand while
\* another moves it).
MayStay(a) ==
  LET m == mover[a] IN
  \/ m.type \in {"perpetual", "crushAndRaise"} \/ m.status = "stasis" \/ thing[m.sector]
  \/ m.kind = "plat" /\ m.count < 0
  \/ Hangs(m)
  \/ m.kind = "ceiling" /\ a \notin activeceilings
  \/ \E b \in Live \ {a} : mover[b].sector = m.sector

LeftAlone == <>[][\E a \in Address : Think(a)]_vars

AtRest == failed \/ \A s \in Sector : specialdata[s] # Null => MayStay(specialdata[s])
ComesToRest == LeftAlone => <>[]AtRest

=============================================================================
