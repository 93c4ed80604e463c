-------------------------- MODULE GamesLiveProofs ---------------------------
(***************************************************************************)
(* What goes on in the games, for every value of the constants.            *)
(*                                                                         *)
(* The weapon of a player, for every set of weapons, every limit of        *)
(* ammunition and every clip: ammunition is checked when an attack begins  *)
(* and paid a tic or more later; in between the player may pick up,        *)
(* choose, die, and change the level (DoomWeapon).                         *)
(*                                                                         *)
(* The main loop, for every length of the ring of commands and of what may *)
(* be made ahead: a cell of the ring is written again only when its        *)
(* command was run (DoomLoop).                                             *)
(*                                                                         *)
(* Doors, lifts and crushers, for every level, memory and size of the      *)
(* tables: no pointer is left to a mover that is gone (DoomMovers).        *)
(*                                                                         *)
(* The sound of Quake, for every length of its ring, pair of rates, size   *)
(* of a write, lead of the mixer and limit of times: what is handed to the *)
(* driver was painted for that time (QuakeSound).                          *)
(***************************************************************************)
EXTENDS MCGamesLive, SequenceTheorems, WellFoundedInduction, TLAPS


Player ==
  [ready : Weapons, pending : Weapons \cup {NoChange}, owned : SUBSET Weapons, alive : BOOLEAN,
   ammo : [AmmoType -> Nat], at : {"up", "ready", "attack", "down"}, state : Nat, sy : Int,
   attackdown : BOOLEAN, fired : BOOLEAN]

\* What a player has.
Has(q) ==
  /\ q \in Player
  /\ {"fist", "pistol"} \subseteq q.owned
  /\ \A a \in AmmoType : q.ammo[a] <= Max[a]
  /\ q.ready \in q.owned /\ q.pending \in q.owned \cup {NoChange}

\* Where the weapon is.  In a state that waits for the shot, the shot can be paid.
Place(q) ==
  /\ q.at = "down" /\ q.alive => q.pending # NoChange
  /\ ~q.alive => q.at = "down"
  /\ q.at = "attack" =>
       /\ q.state \in 1 .. Len(Attack[q.ready]) - 1
       /\ Attack[q.ready][q.state] = "wait" => HasAmmo(q, q.ready)

PlayerOK(q) == Has(q) /\ Place(q)
IInv == PlayerOK(p)

-----------------------------------------------------------------------------
(* The tables.                                                              *)

\* The last state of an attack asks to fire again; a shot after the first state was waited
\* for, is looked at again, or costs nothing.
LEMMA Tables ==
  ASSUME NEW w \in Weapons
  PROVE  /\ AmmoOf[w] \in AmmoType \cup {"noammo"}
         /\ Len(Attack[w]) \in {2, 3, 5}
         /\ \A n \in 2 .. Len(Attack[w]) :
              /\ Attack[w][n] \in {"fire", "check", "refire"}
              /\ n = Len(Attack[w]) => Attack[w][n] = "refire"
              /\ Attack[w][n] = "fire" =>
                   w = "chaingun" \/ AmmoOf[w] = "noammo" \/ Attack[w][n - 1] = "wait"
         /\ w = "chaingun" => AmmoOf[w] = "clip" /\ Takes(w) = 1
<1>1. AmmoOf[w] \in AmmoType \cup {"noammo"}  BY DEF AmmoOf, AmmoType
<1>2. CASE w = "chaingun"
  <2>1. Attack[w] = <<"fire", "fire", "refire">>  BY <1>2 DEF Attack
  <2>2. AmmoOf[w] = "clip" /\ Takes(w) = 1  BY <1>2 DEF AmmoOf, Takes
  <2>3. QED  BY <1>1, <1>2, <2>1, <2>2
<1>3. CASE w = "plasma"
  <2>1. Attack[w] = <<"fire", "refire">>  BY <1>3 DEF Attack
  <2>2. QED  BY <1>1, <1>3, <2>1
<1>4. CASE w = "chainsaw"
  <2>1. Attack[w] = <<"fire", "fire", "refire">> /\ AmmoOf[w] = "noammo"
    BY <1>4 DEF Attack, AmmoOf
  <2>2. QED  BY <1>1, <1>4, <2>1
<1>5. CASE w = "supershotgun"
  <2>1. Attack[w] = <<"wait", "fire", "check", "refire", "refire">>  BY <1>5 DEF Attack
  <2>2. QED  BY <1>1, <1>5, <2>1
<1>6. CASE w \notin {"chaingun", "plasma", "chainsaw", "supershotgun"}
  <2>1. Attack[w] = <<"wait", "fire", "refire">>  BY <1>6 DEF Attack
  <2>2. QED  BY <1>1, <1>6, <2>1
<1>7. QED  BY <1>2, <1>3, <1>4, <1>5, <1>6

\* A shot costs a number of cells, shells or bullets.
LEMMA TakesNat ==
  ASSUME WeaponAssumption, NEW w \in Weapons
  PROVE  Takes(w) \in Nat
  BY DEF Takes, WeaponAssumption

-----------------------------------------------------------------------------
(* What the functions of the weapon keep.                                   *)

\* Another place changes nothing else.
LEMMA GoesKeeps ==
  ASSUME NEW q, Has(q), NEW at \in {"up", "ready", "attack", "down"}
  PROVE  /\ Has(Goes(q, at)) /\ Goes(q, at).at = at
         /\ Goes(q, at).alive = q.alive /\ Goes(q, at).pending = q.pending
  BY DEF Has, Goes, Player

\* What P_CheckAmmo prefers is owned.
LEMMA PreferredOwned ==
  ASSUME NEW q, Has(q)
  PROVE  Preferred(q) \in q.owned
  BY DEF Preferred, Has

\* Another weapon is chosen when there is not enough for this one.
LEMMA CheckAmmoKeeps ==
  ASSUME WeaponAssumption, NEW q, Has(q)
  PROVE  /\ Has(P_CheckAmmo(q))
         /\ ~HasAmmo(q, q.ready) => Place(P_CheckAmmo(q)) \/ ~q.alive
         /\ P_CheckAmmo(q).at \in {q.at, "down"}
         /\ HasAmmo(q, q.ready) => P_CheckAmmo(q) = q
<1>1. CASE HasAmmo(q, q.ready)  BY <1>1 DEF P_CheckAmmo
<1>2. CASE ~HasAmmo(q, q.ready)
  <2> DEFINE r == [q EXCEPT !.pending = Preferred(q)]
  <2>1. /\ Preferred(q) \in q.owned /\ Preferred(q) \in Weapons
        /\ Preferred(q) # NoChange
    BY PreferredOwned DEF Has, Player, WeaponAssumption
  <2>2. Has(r) /\ r.pending = Preferred(q) /\ r.alive = q.alive  BY <2>1 DEF Has, Player
  <2>3. P_CheckAmmo(q) = Goes(r, "down")  BY <1>2 DEF P_CheckAmmo
  <2> HIDE DEF r
  <2>4. /\ Has(Goes(r, "down")) /\ Goes(r, "down").at = "down"
        /\ Goes(r, "down").pending # NoChange
    BY <2>1, <2>2, GoesKeeps
  <2>5. QED  BY <1>2, <2>3, <2>4 DEF Place
<1>3. QED  BY <1>1, <1>2


\* A shot that can be paid is paid.
LEMMA FireKeeps ==
  ASSUME WeaponAssumption, NEW q, Has(q),
         HasAmmo(q, q.ready) \/ q.ready = "chaingun"
  PROVE  /\ Has(Fire(q)) /\ Fire(q).at = q.at /\ Fire(q).state = q.state
         /\ Fire(q).ready = q.ready /\ Fire(q).pending = q.pending /\ Fire(q).alive = q.alive
<1>1. q.ready \in Weapons /\ Takes(q.ready) \in Nat  BY TakesNat DEF Has, Player
<1>2. AmmoOf[q.ready] \in AmmoType \cup {"noammo"} /\ "noammo" \notin AmmoType
  BY <1>1, Tables DEF AmmoType
<1> DEFINE a == AmmoOf[q.ready]
<1>3. CASE a = "noammo"
  <2>1. Fire(q) = [q EXCEPT !.fired = TRUE]  BY <1>3 DEF Fire
  <2>2. QED  BY <2>1 DEF Has, Player
<1>4. CASE a # "noammo" /\ q.ready = "chaingun" /\ q.ammo[a] = 0
  <2>1. Fire(q) = q  BY <1>4 DEF Fire
  <2>2. QED  BY <2>1
<1>5. CASE a # "noammo" /\ ~(q.ready = "chaingun" /\ q.ammo[a] = 0)
  <2>1. a \in AmmoType /\ q.ammo[a] \in Nat  BY <1>2, <1>5 DEF Has, Player
  <2>2. q.ammo[a] >= Takes(q.ready)
    <3>1. CASE HasAmmo(q, q.ready)  BY <1>5, <3>1 DEF HasAmmo
    <3>2. CASE q.ready = "chaingun"  BY <1>1, <1>5, <2>1, <3>2, Tables
    <3>3. QED  BY <3>1, <3>2
  <2>3. Fire(q) = [q EXCEPT !.ammo[a] = q.ammo[a] - Takes(q.ready), !.fired = TRUE]
    BY <1>5 DEF Fire
  <2> DEFINE n == q.ammo[a] - Takes(q.ready)
  <2>4. n \in Nat /\ n <= q.ammo[a]  BY <1>1, <2>1, <2>2
  <2> HIDE DEF a, n
  <2>5. Fire(q) = [q EXCEPT !.ammo = [q.ammo EXCEPT ![a] = n], !.fired = TRUE]
    BY <2>3 DEF n, Has, Player
  <2>6. [q.ammo EXCEPT ![a] = n] \in [AmmoType -> Nat]  BY <2>4 DEF Has, Player
  <2>7. \A b \in AmmoType : [q.ammo EXCEPT ![a] = n][b] <= Max[b]
    BY <2>1, <2>4 DEF Has, Player, WeaponAssumption
  <2>8. QED  BY <2>5, <2>6, <2>7 DEF Has, Player
<1>6. QED  BY <1>3, <1>4, <1>5

\* An attack begins where it waits for its shot, or with it.
LEMMA FireWeaponKeeps ==
  ASSUME WeaponAssumption, NEW q, Has(q), q.alive
  PROVE  /\ PlayerOK(P_FireWeapon(q))
         /\ P_FireWeapon(q).at = "attack" => P_FireWeapon(q).state = 1 \/ P_FireWeapon(q) = P_CheckAmmo(q)
         /\ P_FireWeapon(q).at \in {"attack", "down"}
<1>1. q.ready \in Weapons  BY DEF Has, Player
<1> DEFINE first == [q EXCEPT !.at = "attack", !.state = 1]
<1>2. CASE ~HasAmmo(q, q.ready)
  <2>1. P_FireWeapon(q) = P_CheckAmmo(q)  BY <1>2 DEF P_FireWeapon
  <2>2. Has(P_CheckAmmo(q)) /\ Place(P_CheckAmmo(q)) BY <1>2, CheckAmmoKeeps
  <2>3. P_CheckAmmo(q).at = "down"  BY <1>2 DEF P_CheckAmmo, Goes, Has, Player
  <2>4. QED  BY <2>1, <2>2, <2>3 DEF PlayerOK
<1>3. CASE HasAmmo(q, q.ready)
  <2>1. /\ P_CheckAmmo(q) = q
        /\ P_FireWeapon(q) = IF Attack[q.ready][1] = "fire" THEN Fire(first) ELSE first
    BY <1>3 DEF P_FireWeapon, P_CheckAmmo
  <2>2. /\ Has(first) /\ first.at = "attack" /\ first.state = 1 /\ first.alive
        /\ first.ready = q.ready /\ HasAmmo(first, first.ready)
    BY <1>3 DEF Has, Player, HasAmmo
  <2> HIDE DEF first
  <2>3. 1 \in 1 .. Len(Attack[q.ready]) - 1
    <3>1. Len(Attack[q.ready]) \in {2, 3, 5}  BY <1>1, Tables
    <3>2. QED  BY <3>1
  <2>4. CASE Attack[q.ready][1] = "fire"
    <3>1. /\ Has(Fire(first)) /\ Fire(first).at = "attack" /\ Fire(first).state = 1
          /\ Fire(first).ready = q.ready /\ Fire(first).alive
      BY <2>2, FireKeeps
    <3>2. QED  BY <2>1, <2>3, <2>4, <3>1 DEF PlayerOK, Place
  <2>5. CASE Attack[q.ready][1] # "fire"
    BY <2>1, <2>2, <2>3, <2>5 DEF PlayerOK, Place
  <2>6. QED  BY <2>4, <2>5
<1>4. QED  BY <1>2, <1>3

\* A weapon that is ready goes down, attacks or stays.
LEMMA WeaponReadyKeeps ==
  ASSUME WeaponAssumption, NEW q, PlayerOK(q), q.at = "ready", NEW attack \in BOOLEAN
  PROVE  PlayerOK(A_WeaponReady(q, attack))
<1>1. Has(q) /\ q.alive  BY DEF PlayerOK, Place
<1>2. CASE q.pending # NoChange
  <2>1. A_WeaponReady(q, attack) = Goes(q, "down")  BY <1>2 DEF A_WeaponReady
  <2>2. QED  BY <1>1, <1>2, <2>1, GoesKeeps DEF PlayerOK, Place
<1>3. CASE q.pending = NoChange /\ attack
  <2> DEFINE r == [q EXCEPT !.attackdown = TRUE]
  <2>1. Has(r) /\ r.alive  BY <1>1 DEF Has, Player
  <2>2. A_WeaponReady(q, attack) \in {P_FireWeapon(r), q}  BY <1>1, <1>3 DEF A_WeaponReady
  <2> HIDE DEF r
  <2>3. PlayerOK(P_FireWeapon(r))  BY <2>1, FireWeaponKeeps
  <2>4. QED  BY <2>2, <2>3
<1>4. CASE q.pending = NoChange /\ ~attack
  <2>1. A_WeaponReady(q, attack) = [q EXCEPT !.attackdown = FALSE]
    BY <1>1, <1>4 DEF A_WeaponReady
  <2>2. QED  BY <1>1, <2>1 DEF PlayerOK, Place, Has, Player
<1>5. QED  BY <1>2, <1>3, <1>4

\* A state of an attack goes to the next, pays, or begins again.
LEMMA AttacksKeeps ==
  ASSUME WeaponAssumption, NEW q, PlayerOK(q), q.at = "attack", NEW attack \in BOOLEAN
  PROVE  PlayerOK(Attacks(q, attack))
<1> DEFINE n == q.state + 1
           c == [q EXCEPT !.state = n]
           r == A_ReFire(c, attack)
<1>1. /\ Has(q) /\ q.alive /\ q.ready \in Weapons
      /\ q.state \in 1 .. Len(Attack[q.ready]) - 1
      /\ Attack[q.ready][q.state] = "wait" => HasAmmo(q, q.ready)
  BY DEF PlayerOK, Place, Has, Player
<1>2. /\ Has(c) /\ c.at = "attack" /\ c.state = n /\ c.alive /\ c.ready = q.ready
      /\ HasAmmo(c, c.ready) <=> HasAmmo(q, q.ready)
  BY <1>1 DEF Has, Player, HasAmmo
<1>3. n \in 2 .. Len(Attack[q.ready]) /\ n - 1 = q.state  BY <1>1, Tables
<1>4. Attacks(q, attack) =
        CASE Attack[q.ready][n] = "wait"  -> c
          [] Attack[q.ready][n] = "fire"  -> Fire(c)
          [] Attack[q.ready][n] = "check" -> P_CheckAmmo(c)
          [] OTHER -> IF r.at = "attack" /\ r.state = n /\ n = Len(Attack[q.ready]) THEN Goes(r, "ready") ELSE r
  BY DEF Attacks
<1>5. /\ Attack[q.ready][n] \in {"fire", "check", "refire"}
      /\ n = Len(Attack[q.ready]) => Attack[q.ready][n] = "refire"
      /\ Attack[q.ready][n] = "fire" =>
           q.ready = "chaingun" \/ AmmoOf[q.ready] = "noammo" \/ Attack[q.ready][n - 1] = "wait"
  BY <1>1, <1>3, Tables
<1> HIDE DEF n, c, r
<1>6. CASE Attack[q.ready][n] = "fire"
  <2>1. HasAmmo(c, c.ready) \/ c.ready = "chaingun"
    BY <1>1, <1>2, <1>3, <1>5, <1>6 DEF HasAmmo
  <2>2. /\ Has(Fire(c)) /\ Fire(c).at = "attack" /\ Fire(c).state = n
        /\ Fire(c).ready = q.ready /\ Fire(c).alive
    BY <1>2, <2>1, FireKeeps
  <2>3. Attacks(q, attack) = Fire(c)  BY <1>4, <1>6
  <2>4. n \in 1 .. Len(Attack[q.ready]) - 1  BY <1>1, <1>3, <1>5, <1>6, Tables
  <2>5. QED  BY <1>6, <2>2, <2>3, <2>4 DEF PlayerOK, Place
<1>7. CASE Attack[q.ready][n] = "check"
  <2>1. Attacks(q, attack) = P_CheckAmmo(c)  BY <1>4, <1>7
  <2>2. n \in 1 .. Len(Attack[q.ready]) - 1  BY <1>1, <1>3, <1>5, <1>7, Tables
  <2>3. CASE HasAmmo(c, c.ready)
    <3>1. P_CheckAmmo(c) = c  BY <1>2, <2>3, CheckAmmoKeeps
    <3>2. QED  BY <1>2, <1>7, <2>1, <2>2, <3>1 DEF PlayerOK, Place
  <2>4. CASE ~HasAmmo(c, c.ready)
    BY <1>2, <2>1, <2>4, CheckAmmoKeeps DEF PlayerOK
  <2>5. QED  BY <2>3, <2>4
<1>8. CASE Attack[q.ready][n] = "refire"
  <2>1. Attacks(q, attack) =
          IF r.at = "attack" /\ r.state = n /\ n = Len(Attack[q.ready]) THEN Goes(r, "ready") ELSE r
    BY <1>4, <1>8
  <2>2. r = P_FireWeapon(c) \/ r = P_CheckAmmo(c)  BY DEF r, A_ReFire
  <2>3. CASE r = P_FireWeapon(c) /\ HasAmmo(c, c.ready)
    <3>1. PlayerOK(r)  BY <1>2, <2>3, FireWeaponKeeps
    <3>2. r.at = "attack" => r.state = 1
      <4>1. P_FireWeapon(c) \in {Fire([c EXCEPT !.at = "attack", !.state = 1]),
                                 [c EXCEPT !.at = "attack", !.state = 1]}
        <5>1. P_CheckAmmo(c) = c  BY <1>2, <2>3, CheckAmmoKeeps
        <5>2. QED  BY <2>3, <5>1 DEF P_FireWeapon
      <4>2. /\ Has([c EXCEPT !.at = "attack", !.state = 1])
            /\ [c EXCEPT !.at = "attack", !.state = 1].state = 1
            /\ [c EXCEPT !.at = "attack", !.state = 1].ready = c.ready
            /\ HasAmmo([c EXCEPT !.at = "attack", !.state = 1], c.ready)
        BY <1>2, <2>3 DEF Has, Player, HasAmmo
      <4>3. Fire([c EXCEPT !.at = "attack", !.state = 1]).state = 1
        BY <4>2, FireKeeps
      <4>4. QED  BY <2>3, <4>1, <4>2, <4>3
    <3>3. r.at = "attack" => r.state # n  BY <1>3, <3>2
    <3>4. QED  BY <2>1, <3>1, <3>3
  <2>4. CASE ~HasAmmo(c, c.ready)
    <3>1. r = P_CheckAmmo(c)  BY <2>2, <2>4 DEF P_FireWeapon
    <3>2. PlayerOK(r)  BY <1>2, <2>4, <3>1, CheckAmmoKeeps DEF PlayerOK
    <3>3. r.at = "down"  BY <1>2, <2>4, <3>1 DEF P_CheckAmmo, Goes, Has, Player
    <3>4. QED  BY <2>1, <3>2, <3>3
  <2>5. CASE r = P_CheckAmmo(c) /\ HasAmmo(c, c.ready)
    <3>1. r = c  BY <1>2, <2>5, CheckAmmoKeeps
    <3>2. CASE n = Len(Attack[q.ready])
      <4>1. Attacks(q, attack) = Goes(c, "ready")  BY <1>2, <2>1, <3>1, <3>2
      <4>2. Has(Goes(c, "ready")) /\ Goes(c, "ready").at = "ready" /\ Goes(c, "ready").alive
        BY <1>2, GoesKeeps
      <4>3. QED  BY <4>1, <4>2 DEF PlayerOK, Place
    <3>3. CASE n # Len(Attack[q.ready])
      <4>1. Attacks(q, attack) = c  BY <2>1, <3>1, <3>3
      <4>2. n \in 1 .. Len(Attack[q.ready]) - 1  BY <1>1, <1>3, <3>3, Tables
      <4>3. Attack[q.ready][n] # "wait"  BY <1>8
      <4>4. QED  BY <1>2, <4>1, <4>2, <4>3 DEF PlayerOK, Place
    <3>4. QED  BY <3>2, <3>3
  <2>6. QED  BY <2>2, <2>3, <2>4, <2>5
<1>9. QED  BY <1>5, <1>6, <1>7, <1>8


\* The pending weapon comes up.
LEMMA BringUpKeeps ==
  ASSUME WeaponAssumption, NEW q, Has(q), q.alive
  PROVE  PlayerOK(P_BringUpWeapon(q))
<1> DEFINE r == [q EXCEPT !.at = "up", !.state = 0, !.pending = NoChange, !.sy = Bottom]
<1>1. P_BringUpWeapon(q) = r  BY DEF P_BringUpWeapon, Goes, Has, Player
<1>2. Bottom \in Int  BY DEF WeaponAssumption
<1>3. Has(r)  BY <1>2 DEF Has, Player
<1>4. r.at = "up" /\ r.alive  BY DEF Has, Player
<1> HIDE DEF r
<1>5. QED  BY <1>1, <1>3, <1>4 DEF PlayerOK, Place

\* At the bottom the weapon changes, or stays down with its player.
LEMMA LowerKeeps ==
  ASSUME WeaponAssumption, NEW q, PlayerOK(q), q.at = "down"
  PROVE  PlayerOK(A_Lower(q))
<1>1. Has(q) /\ (q.alive => q.pending \in q.owned)  BY DEF PlayerOK, Place, Has
<1>2. CASE q.sy + 1 < Bottom
  <2>1. A_Lower(q) = [q EXCEPT !.sy = q.sy + 1]  BY <1>2 DEF A_Lower
  <2>2. QED  BY <2>1 DEF PlayerOK, Place, Has, Player, HasAmmo
<1>3. CASE ~(q.sy + 1 < Bottom) /\ ~q.alive
  <2>1. A_Lower(q) = [q EXCEPT !.sy = Bottom]  BY <1>3 DEF A_Lower
  <2>2. Bottom \in Int  BY DEF WeaponAssumption
  <2>3. Has([q EXCEPT !.sy = Bottom])  BY <1>1, <2>2 DEF Has, Player
  <2>4. [q EXCEPT !.sy = Bottom].at = "down" /\ ~[q EXCEPT !.sy = Bottom].alive
    BY <1>3 DEF PlayerOK, Has, Player
  <2>5. QED  BY <2>1, <2>3, <2>4 DEF PlayerOK, Place
<1>4. CASE ~(q.sy + 1 < Bottom) /\ q.alive
  <2> DEFINE r == [q EXCEPT !.ready = q.pending]
  <2>1. A_Lower(q) = P_BringUpWeapon(r)  BY <1>4 DEF A_Lower
  <2>2. Has(r) /\ r.alive  BY <1>1, <1>4 DEF Has, Player
  <2> HIDE DEF r
  <2>3. QED  BY <2>1, <2>2, BringUpKeeps
<1>5. QED  BY <1>2, <1>3, <1>4

\* At the top the weapon is ready.
LEMMA RaiseKeeps ==
  ASSUME WeaponAssumption, NEW q, PlayerOK(q), q.at = "up"
  PROVE  PlayerOK(A_Raise(q))
<1>1. Has(q) /\ q.alive  BY DEF PlayerOK, Place
<1>2. A_Raise(q) \in {[q EXCEPT !.sy = q.sy - 1], Goes([q EXCEPT !.sy = 0], "ready")}
  BY DEF A_Raise
<1>3. PlayerOK([q EXCEPT !.sy = q.sy - 1])
  BY <1>1 DEF PlayerOK, Place, Has, Player
<1>4. PlayerOK(Goes([q EXCEPT !.sy = 0], "ready"))
  <2>1. Has([q EXCEPT !.sy = 0]) /\ [q EXCEPT !.sy = 0].alive  BY <1>1 DEF Has, Player
  <2>2. QED  BY <2>1, GoesKeeps DEF PlayerOK, Place
<1>5. QED  BY <1>2, <1>3, <1>4

\* A tic of the weapon.
LEMMA MovePspritesKeeps ==
  ASSUME WeaponAssumption, NEW q, PlayerOK(q), NEW attack \in BOOLEAN
  PROVE  PlayerOK(P_MovePsprites(q, attack))
<1>1. q.at \in {"up", "ready", "attack", "down"}  BY DEF PlayerOK, Has, Player
<1>2. CASE q.at = "ready"
  <2>1. P_MovePsprites(q, attack) = A_WeaponReady(q, attack)  BY <1>2 DEF P_MovePsprites
  <2>2. QED  BY <1>2, <2>1, WeaponReadyKeeps
<1>3. CASE q.at = "attack"
  <2>1. P_MovePsprites(q, attack) = Attacks(q, attack)  BY <1>3 DEF P_MovePsprites
  <2>2. QED  BY <1>3, <2>1, AttacksKeeps
<1>4. CASE q.at = "down"
  <2>1. P_MovePsprites(q, attack) = A_Lower(q)  BY <1>4 DEF P_MovePsprites
  <2>2. QED  BY <1>4, <2>1, LowerKeeps
<1>5. CASE q.at = "up"
  <2>1. P_MovePsprites(q, attack) = A_Raise(q)  BY <1>5 DEF P_MovePsprites
  <2>2. QED  BY <1>5, <2>1, RaiseKeeps
<1>6. QED  BY <1>1, <1>2, <1>3, <1>4, <1>5

\* More ammunition, and perhaps another weapon to use, disturbs no attack.
LEMMA GiveAmmoKeeps ==
  ASSUME WeaponAssumption, NEW q, PlayerOK(q), NEW a \in AmmoType, NEW num \in {0, 1, 2}
  PROVE  /\ PlayerOK(P_GiveAmmo(q, a, num))
         /\ P_GiveAmmo(q, a, num).alive = q.alive /\ P_GiveAmmo(q, a, num).owned = q.owned
<1> DEFINE n == (IF Generous THEN 2 ELSE 1) * IF num = 0 THEN Clip[a] \div 2 ELSE num * Clip[a]
           got == IF q.ammo[a] + n > Max[a] THEN Max[a] ELSE q.ammo[a] + n
<1>1. n \in Nat
  <2>1. Clip[a] \in Nat  BY DEF WeaponAssumption
  <2>2. PICK c \in Nat : c = IF num = 0 THEN Clip[a] \div 2 ELSE num * Clip[a]
    <3>1. Clip[a] \div 2 \in Nat /\ 1 * Clip[a] \in Nat /\ 2 * Clip[a] \in Nat  BY <2>1
    <3>2. QED  BY <3>1
  <2>3. n = (IF Generous THEN 2 ELSE 1) * c  BY <2>2
  <2>4. QED  BY <2>2, <2>3
<1>2. /\ q.ammo \in [AmmoType -> Nat] /\ q.ammo[a] \in Nat /\ Max[a] \in Nat /\ q.ammo[a] <= Max[a]
  BY DEF PlayerOK, Has, Player, WeaponAssumption
<1>3. got \in Nat /\ got <= Max[a] /\ q.ammo[a] <= got  BY <1>1, <1>2
<1> HIDE DEF n
<1>4. CASE q.ammo[a] = Max[a]
  <2>1. P_GiveAmmo(q, a, num) = q  BY <1>4 DEF P_GiveAmmo
  <2>2. QED  BY <2>1
<1>5. CASE q.ammo[a] # Max[a]
  <2>1. PICK pending \in q.owned \cup {q.pending} :
          P_GiveAmmo(q, a, num) = [q EXCEPT !.ammo[a] = got, !.pending = pending]
    BY <1>5 DEF P_GiveAmmo, n
  <2> HIDE DEF got
  <2> DEFINE ammo == [q.ammo EXCEPT ![a] = got]
             r == [q EXCEPT !.ammo = ammo, !.pending = pending]
  <2>2. P_GiveAmmo(q, a, num) = r  BY <2>1 DEF PlayerOK, Has, Player
  <2>3. /\ ammo \in [AmmoType -> Nat]
        /\ \A b \in AmmoType : q.ammo[b] <= ammo[b] /\ ammo[b] <= Max[b]
    BY <1>2, <1>3 DEF PlayerOK, Has, Player
  <2> HIDE DEF ammo
  <2>4. /\ r.ammo = ammo /\ r.pending = pending /\ r.at = q.at /\ r.alive = q.alive
        /\ r.state = q.state /\ r.ready = q.ready /\ r.owned = q.owned
    BY DEF PlayerOK, Has, Player
  <2>5. Has(r)  BY <2>1, <2>3 DEF PlayerOK, Has, Player
  <2>6. HasAmmo(q, q.ready) => HasAmmo(r, r.ready)
    <3>1. q.ready \in Weapons /\ Takes(q.ready) \in Nat  BY TakesNat DEF PlayerOK, Has, Player
    <3>2. AmmoOf[q.ready] \in AmmoType \cup {"noammo"}  BY <3>1, Tables
    <3>3. AmmoOf[q.ready] \in AmmoType =>
            q.ammo[AmmoOf[q.ready]] \in Nat /\ ammo[AmmoOf[q.ready]] \in Nat
      BY <1>2, <2>3
    <3>4. QED  BY <2>3, <2>4, <3>1, <3>2, <3>3 DEF HasAmmo
  <2>7. q.at = "down" /\ q.alive => pending # NoChange
    BY <2>1 DEF PlayerOK, Place, Has, Player, WeaponAssumption
  <2>8. Place(r)  BY <2>4, <2>6, <2>7 DEF PlayerOK, Place
  <2> HIDE DEF r
  <2>9. QED  BY <2>2, <2>4, <2>5, <2>8 DEF PlayerOK
<1>6. QED  BY <1>4, <1>5

-----------------------------------------------------------------------------
(* The specification.                                                       *)

\* A step of the player clears what was history.
LEMMA FiredKeeps ==
  ASSUME NEW q, PlayerOK(q)
  PROVE  PlayerOK([q EXCEPT !.fired = FALSE]) /\ [q EXCEPT !.fired = FALSE].alive = q.alive
  BY DEF PlayerOK, Has, Place, Player, HasAmmo

\* A player begins with fist and pistol.
LEMMA RebornOK ==
  ASSUME WeaponAssumption
  PROVE  PlayerOK(Reborn)
  BY DEF PlayerOK, Has, Place, Player, Reborn, WeaponAssumption, NoChange

\* Every step of the specification.
LEMMA StepKeeps ==
  ASSUME WeaponAssumption, IInv, [Next]_vars
  PROVE  IInv'
<1>1. PlayerOK(p)  BY DEF IInv
<1>2. SUFFICES PlayerOK(p')  BY DEF IInv
<1>3. ASSUME NEW attack \in BOOLEAN, NEW change \in Weapons \cup {NoChange}, P_PlayerThink(attack, change)
      PROVE  PlayerOK(p')
  <2>1. PICK w : p' = P_MovePsprites([(IF w \in p.owned \ {p.ready} THEN [p EXCEPT !.pending = w] ELSE p)
                                        EXCEPT !.fired = FALSE], attack)
    BY <1>3 DEF P_PlayerThink
  <2>2. PlayerOK(IF w \in p.owned \ {p.ready} THEN [p EXCEPT !.pending = w] ELSE p)
    <3>1. CASE w \in p.owned \ {p.ready}
      <4>1. w \in Weapons /\ w # NoChange  BY <1>1, <3>1 DEF PlayerOK, Has, Player, WeaponAssumption
      <4>2. QED  BY <1>1, <3>1, <4>1 DEF PlayerOK, Has, Place, Player, HasAmmo
    <3>2. QED  BY <1>1, <3>1
  <2>3. QED  BY <2>1, <2>2, FiredKeeps, MovePspritesKeeps
<1>4. ASSUME NEW use \in BOOLEAN, P_DeathThink(use)
      PROVE  PlayerOK(p')
  <2>1. p' \in {Reborn, P_MovePsprites([p EXCEPT !.fired = FALSE], FALSE)}  BY <1>4 DEF P_DeathThink
  <2>2. PlayerOK(P_MovePsprites([p EXCEPT !.fired = FALSE], FALSE))
    BY <1>1, FiredKeeps, MovePspritesKeeps
  <2>3. QED  BY <2>1, <2>2, RebornOK
<1>5. CASE Killed
  <2>1. p' = [Goes(p, "down") EXCEPT !.alive = FALSE, !.fired = FALSE]  BY <1>5 DEF Killed
  <2>2. QED  BY <1>1, <2>1 DEF PlayerOK, Has, Place, Player, Goes
<1>6. CASE NewLevel
  <2>1. p' = P_BringUpWeapon([p EXCEPT !.pending = p.ready, !.fired = FALSE]) /\ p.alive
    BY <1>6 DEF NewLevel
  <2>2. /\ Has([p EXCEPT !.pending = p.ready, !.fired = FALSE])
        /\ [p EXCEPT !.pending = p.ready, !.fired = FALSE].alive
    BY <1>1, <2>1 DEF PlayerOK, Has, Player
  <2>3. QED  BY <2>1, <2>2, BringUpKeeps
<1>7. ASSUME NEW a \in AmmoType, NEW num \in {0, 1}, TouchAmmo(a, num)
      PROVE  PlayerOK(p')
  <2>1. p' = [P_GiveAmmo(p, a, num) EXCEPT !.fired = FALSE]  BY <1>7 DEF TouchAmmo
  <2>2. PlayerOK(P_GiveAmmo(p, a, num))  BY <1>1, GiveAmmoKeeps
  <2>3. QED  BY <2>1, <2>2, FiredKeeps
<1>8. ASSUME NEW w \in Weapons \ {"fist", "pistol"}, NEW dropped \in BOOLEAN, P_GiveWeapon(w, dropped)
      PROVE  PlayerOK(p')
  <2>1. PICK q : /\ q = IF AmmoOf[w] = "noammo" THEN p ELSE P_GiveAmmo(p, AmmoOf[w], IF dropped THEN 1 ELSE 2)
                 /\ p' = [q EXCEPT !.owned = q.owned \cup {w}, !.fired = FALSE,
                                   !.pending = IF w \in p.owned THEN q.pending ELSE w]
    BY <1>8 DEF P_GiveWeapon
  <2>2. AmmoOf[w] \in AmmoType \cup {"noammo"}  BY Tables
  <2>3. PlayerOK(q)  BY <1>1, <2>1, <2>2, GiveAmmoKeeps
  <2>4. w \in Weapons /\ w # NoChange  BY DEF WeaponAssumption
  <2> DEFINE owned == q.owned \cup {w}
             pending == IF w \in p.owned THEN q.pending ELSE w
             r == [q EXCEPT !.owned = owned, !.fired = FALSE, !.pending = pending]
  <2>5. p' = r  BY <2>1
  <2>6. /\ owned \in SUBSET Weapons /\ q.owned \subseteq owned
        /\ pending \in owned \cup {NoChange} /\ pending \in Weapons \cup {NoChange}
        /\ q.pending # NoChange => pending # NoChange
    BY <2>3, <2>4 DEF PlayerOK, Has, Player
  <2> HIDE DEF owned, pending
  <2>7. Has(r)  BY <2>3, <2>6 DEF PlayerOK, Has, Player
  <2>8. /\ r.at = q.at /\ r.alive = q.alive /\ r.state = q.state /\ r.ready = q.ready
        /\ r.ammo = q.ammo /\ r.pending = pending
    BY <2>3 DEF PlayerOK, Has, Player
  <2> HIDE DEF r
  <2>9. Place(r)  BY <2>3, <2>6, <2>8 DEF PlayerOK, Place, HasAmmo
  <2>10. QED  BY <2>5, <2>7, <2>9 DEF PlayerOK
<1>9. CASE UNCHANGED vars  BY <1>1, <1>9 DEF vars
<1>10. QED  BY <1>3, <1>4, <1>5, <1>6, <1>7, <1>8, <1>9 DEF Next

\* Ammunition never goes below nothing or above its limit, whatever is picked up, chosen or
\* suffered between the check of an attack and its shot; the weapon that comes up is owned
\* (P_FireWeapon, A_FirePistol and the others, A_Lower).
THEOREM WeaponIsSound ==
  ASSUME WeaponAssumption
  PROVE  Spec => []Sound
<1>1. Init => IInv  BY RebornOK DEF Init, IInv
<1>2. IInv /\ [Next]_vars => IInv'  BY StepKeeps
<1>3. IInv => Sound
  <2>1. SUFFICES ASSUME IInv PROVE Sound  OBVIOUS
  <2>2. \A a \in AmmoType : p.ammo[a] \in 0 .. Max[a]
    BY <2>1 DEF IInv, PlayerOK, Has, Player, WeaponAssumption
  <2>3. QED  BY <2>1, <2>2 DEF IInv, PlayerOK, Has, Place, Sound
<1>4. QED  BY <1>1, <1>2, <1>3, PTL DEF Spec

-----------------------------------------------------------------------------
(* The main loop: the commands between the game and what is made.           *)


LoopTypes ==
  /\ clock \in Nat /\ remainder \in Nat
  /\ maketic \in 0 .. Tics - 1 /\ gametic \in 0 .. Tics - 1 /\ lowtic \in 0 .. Tics - 1
  /\ ticdata \in [0 .. BackupTics - 1 -> 0 .. Tics - 1]
  /\ oldentertics \in Int /\ counts \in Int

\* The tics between the game and what is made.
LoopInv ==
  /\ LoopTypes
  /\ \A d \in 0 .. L!Upto(maketic) - 1 :
       LET tic == (gametic + d) % Tics IN ticdata[tic % BackupTics] = tic
  /\ L!Upto(maketic) <= MaxAhead
  /\ loopAt \in {"wait", "waited", "run"} => L!Upto(lowtic) <= L!Upto(maketic)
  /\ loopAt = "run" => counts <= L!Upto(lowtic)
-----------------------------------------------------------------------------
(* Numbers modulo a number.                                                 *)

\* Quotient and remainder.
LEMMA ModSplit ==
  ASSUME NEW T \in Nat, T > 0, NEW x \in Int
  PROVE  /\ x % T \in 0 .. T - 1 /\ x \div T \in Int
         /\ x = (x \div T) * T + (x % T)
OBVIOUS

\* The remainder of a number less than one lap away.
LEMMA ModLap ==
  ASSUME NEW T \in Nat, T > 0, NEW x \in Int, -T < x, x < 2 * T
  PROVE  x % T = IF x < 0 THEN x + T ELSE IF x < T THEN x ELSE x - T
<1>1. CASE x < 0
  BY <1>1
<1>2. CASE x >= 0 /\ x < T
  BY <1>2
<1>3. CASE x >= T
  BY <1>3
<1> QED  BY <1>1, <1>2, <1>3

\* No multiple of a number lies between it and 0.
LEMMA NoMultiple ==
  ASSUME NEW B \in Nat, NEW m \in Int, 0 < m * B, m * B < B
  PROVE  FALSE
<1>1. CASE m <= 0
  BY <1>1
<1>2. CASE m >= 1
  BY <1>2
<1> QED  BY <1>1, <1>2

\* Two tics less than a ring apart have cells of their own.
LEMMA OwnCells ==
  ASSUME NEW T \in Nat, NEW B \in Nat, B > 0, T > 0, T % B = 0,
         NEW x \in 0 .. T - 1, NEW y \in 0 .. T - 1, NEW e \in Int, 0 < e, e < B,
         y = x + e \/ y = x + e - T
  PROVE  x % B # y % B
<1> SUFFICES ASSUME x % B = y % B  PROVE FALSE
  OBVIOUS
<1>1. PICK k \in Int : T = k * B
  <2>1. T \div B \in Int /\ T = (T \div B) * B + (T % B) /\ T % B = 0
    BY ModSplit
  <2>2. T = (T \div B) * B
    BY <2>1
  <2> QED  BY <2>1, <2>2
<1>2. PICK r \in Int : r = x % B
  BY ModSplit
<1>3. PICK q \in Int : q = x \div B
  BY ModSplit
<1>6. x = q * B + r
  BY <1>2, <1>3, ModSplit
<1>7. PICK z \in Int : z = y \div B
  BY ModSplit
<1>8. y = z * B + r
  BY <1>2, <1>7, ModSplit
<1>4. CASE y = x + e
  <2>1. e = (z - q) * B
    BY <1>4, <1>6, <1>8
  <2>2. z - q \in Int
    OBVIOUS
  <2> QED  BY <2>1, <2>2, NoMultiple
<1>5. CASE y = x + e - T
  <2>1. e = (z - q + k) * B
    BY <1>1, <1>5, <1>6, <1>8
  <2>2. z - q + k \in Int
    OBVIOUS
  <2> QED  BY <2>1, <2>2, NoMultiple
<1> QED  BY <1>4, <1>5
-----------------------------------------------------------------------------
(* The loop of tics.                                                        *)

\* What the constants are.
LEMMA LoopConstants ==
  /\ TicRate \in Nat /\ TicRate > 0 /\ Second \in Nat /\ Second > 0
  /\ BackupTics \in Nat /\ BackupTics > 0 /\ MaxAhead \in Nat /\ MaxAhead > 0
  /\ Width \in Nat /\ Width > 0
  /\ Tics \in Nat /\ Tics > MaxAhead /\ Tics > 0 /\ Tics % BackupTics = 0 /\ MaxAhead <= BackupTics
BY LoopAssumed DEF L!LoopAssumption

\* The tics from the game to another, and one more.
LEMMA UptoIs ==
  ASSUME NEW g \in 0 .. Tics - 1, NEW t \in 0 .. Tics - 1
  PROVE  /\ (t - g) % Tics = IF t < g THEN t - g + Tics ELSE t - g
         /\ (t - g) % Tics \in 0 .. Tics - 1
<1>1. Tics \in Nat /\ Tics > 0
  BY LoopConstants
<1>2. t - g \in Int /\ -Tics < t - g /\ t - g < Tics /\ (t - g < 0 <=> t < g)
  BY <1>1
<1>3. (t - g) % Tics = IF t - g < 0 THEN t - g + Tics ELSE t - g
  BY <1>1, <1>2, ModLap
<1>4. (t - g) % Tics = IF t < g THEN t - g + Tics ELSE t - g
  BY <1>2, <1>3
<1> QED  BY <1>1, <1>4

\* A tic some way ahead of the game.
LEMMA TicIs ==
  ASSUME NEW g \in 0 .. Tics - 1, NEW d \in 0 .. Tics - 1
  PROVE  /\ (g + d) % Tics \in 0 .. Tics - 1
         /\ (g + d) % Tics = IF g + d < Tics THEN g + d ELSE g + d - Tics
<1>1. Tics \in Nat /\ Tics > 0
  BY LoopConstants
<1>2. g + d \in Int /\ 0 <= g + d /\ g + d < 2 * Tics
  BY <1>1
<1>3. (g + d) % Tics = IF g + d < Tics THEN g + d ELSE g + d - Tics
  <2>1. PICK x \in Int : x = g + d
    OBVIOUS
  <2>2. x % Tics = IF x < 0 THEN x + Tics ELSE IF x < Tics THEN x ELSE x - Tics
    BY <1>1, <1>2, <2>1, ModLap
  <2>3. x >= 0
    BY <1>2, <2>1
  <2>4. x % Tics = IF x < Tics THEN x ELSE x - Tics
    BY <2>2, <2>3
  <2> QED  BY <1>1, <2>1, <2>4
<1> QED  BY <1>1, <1>2, <1>3

\* Steps that leave the ring alone.
LEMMA RingStays ==
  ASSUME LoopInv, LoopTypes', UNCHANGED <<maketic, gametic, ticdata>>,
         loopAt' \in {"wait", "waited", "run"} =>
           \/ lowtic' = maketic
           \/ lowtic' = lowtic /\ loopAt \in {"wait", "waited", "run"},
         loopAt' = "run" => counts' <= L!Upto(lowtic')
  PROVE  LoopInv'
<1>1. L!Upto(maketic)' = L!Upto(maketic) /\ L!Upto(lowtic)' = L!Upto(lowtic') /\ L!Upto(maketic) \in Int
  BY UptoIs DEF L!Upto, LoopInv, LoopTypes
<1>2. loopAt' \in {"wait", "waited", "run"} => L!Upto(lowtic)' <= L!Upto(maketic)'
  <2>1. CASE lowtic' = maketic
    BY <1>1, <2>1
  <2>2. CASE lowtic' = lowtic /\ loopAt \in {"wait", "waited", "run"}
    BY <1>1, <2>2 DEF LoopInv
  <2> QED  BY <2>1, <2>2
<1>3. \A d \in 0 .. L!Upto(maketic)' - 1 :
        LET tic == (gametic' + d) % Tics IN ticdata'[tic % BackupTics] = tic
  BY <1>1 DEF LoopInv
<1>4. L!Upto(maketic)' <= MaxAhead
  BY <1>1 DEF LoopInv
<1> QED  BY <1>1, <1>2, <1>3, <1>4 DEF LoopInv

\* BuildNewTic writes a cell that no command to be run is in.
LEMMA BuildKeeps == ASSUME LoopInv, L!BuildNewTic  PROVE LoopInv'
<1>1. UNCHANGED <<clock, remainder, gametic, oldentertics, loopAt, counts, lowtic>>
  BY DEF L!BuildNewTic, L!timeVars
<1>2. CASE L!Upto(maketic) >= MaxAhead
  <2>1. UNCHANGED <<maketic, ticdata>>
    BY <1>2 DEF L!BuildNewTic
  <2>2. LoopTypes'
    BY <1>1, <2>1 DEF LoopInv, LoopTypes
  <2>3. L!Upto(lowtic') = L!Upto(lowtic)
    BY <1>1 DEF L!Upto
  <2> QED  BY <1>1, <2>1, <2>2, <2>3, RingStays DEF LoopInv
<1>3. CASE ~(L!Upto(maketic) >= MaxAhead)
  <2>1. /\ ticdata' = [ticdata EXCEPT ![maketic % BackupTics] = maketic]
        /\ maketic' = (maketic + 1) % Tics
    BY <1>3 DEF L!BuildNewTic
  <2>2. /\ Tics \in Nat /\ Tics > MaxAhead /\ BackupTics \in Nat /\ BackupTics > 0 /\ Tics % BackupTics = 0
        /\ MaxAhead \in Nat /\ MaxAhead > 0 /\ MaxAhead <= BackupTics /\ Tics > 1
    BY LoopConstants
  <2>3. PICK g \in 0 .. Tics - 1 : g = gametic
    BY DEF LoopInv, LoopTypes
  <2>4. PICK m \in 0 .. Tics - 1 : m = maketic
    BY DEF LoopInv, LoopTypes
  <2>5. PICK n \in 0 .. Tics - 1 : n = (m - g) % Tics /\ n = IF m < g THEN m - g + Tics ELSE m - g
    <3>1. (m - g) % Tics = (IF m < g THEN m - g + Tics ELSE m - g) /\ (m - g) % Tics \in 0 .. Tics - 1
      BY UptoIs
    <3> QED  BY <3>1
  <2>6. n = L!Upto(maketic) /\ n < MaxAhead
    <3>1. n = L!Upto(maketic)
      BY <2>3, <2>4, <2>5 DEF L!Upto
    <3> QED  BY <1>3, <2>2, <3>1
  <2>7. maketic' = IF m + 1 < Tics THEN m + 1 ELSE m + 1 - Tics
    <3>1. 1 \in 0 .. Tics - 1
      BY <2>2
    <3> QED  BY <2>1, <2>4, <3>1, TicIs
  <2>8. maketic' \in 0 .. Tics - 1
    BY <2>2, <2>7
  <2>9. L!Upto(maketic)' = n + 1
    <3>1. PICK k \in 0 .. Tics - 1 : k = maketic'
      BY <2>8
    <3>2. (k - g) % Tics = IF k < g THEN k - g + Tics ELSE k - g
      BY UptoIs
    <3>3. (IF k < g THEN k - g + Tics ELSE k - g) = n + 1
      <4>1. k = IF m + 1 < Tics THEN m + 1 ELSE m + 1 - Tics
        BY <2>7, <3>1
      <4>2. n + 1 < Tics
        BY <2>2, <2>6
      <4> QED  BY <2>2, <2>5, <4>1, <4>2
    <3> QED  BY <1>1, <2>3, <3>1, <3>2, <3>3 DEF L!Upto
  <2>10. (g + n) % Tics = m
    <3>1. (g + n) % Tics = IF g + n < Tics THEN g + n ELSE g + n - Tics
      BY TicIs
    <3> QED  BY <2>2, <2>5, <3>1
  <2>11. m % BackupTics \in 0 .. BackupTics - 1
    BY <2>2, ModSplit
  <2>12. ticdata \in [0 .. BackupTics - 1 -> 0 .. Tics - 1]
    BY DEF LoopInv, LoopTypes
  <2>13. LoopTypes'
    BY <1>1, <2>1, <2>4, <2>8, <2>11, <2>12 DEF LoopInv, LoopTypes
  <2>14. ASSUME NEW d \in 0 .. n
         PROVE  LET tic == (gametic' + d) % Tics IN ticdata'[tic % BackupTics] = tic
    <3>1. d \in 0 .. Tics - 1
      BY <2>2, <2>6
    <3>2. PICK t \in 0 .. Tics - 1 : t = (g + d) % Tics /\ t = IF g + d < Tics THEN g + d ELSE g + d - Tics
      <4>1. (g + d) % Tics \in 0 .. Tics - 1 /\ (g + d) % Tics = IF g + d < Tics THEN g + d ELSE g + d - Tics
        BY <3>1, TicIs
      <4> QED  BY <4>1
    <3>3. CASE d = n
      <4>1. t = m
        BY <2>10, <3>2, <3>3
      <4>2. ticdata'[m % BackupTics] = m
        BY <2>1, <2>4, <2>11, <2>12
      <4> QED  BY <1>1, <2>3, <3>2, <4>1, <4>2
    <3>4. CASE d # n
      <4>1. d \in 0 .. n - 1
        BY <2>2, <3>4
      <4>2. ticdata[t % BackupTics] = t
        BY <2>3, <2>6, <3>2, <4>1 DEF LoopInv
      <4>3. n - d \in Int /\ 0 < n - d /\ n - d < BackupTics
        BY <2>2, <2>6, <4>1
      <4>4. m = t + (n - d) \/ m = t + (n - d) - Tics
        BY <2>2, <2>5, <3>2, <4>1
      <4>5. t % BackupTics # m % BackupTics
        <5>1. PICK e \in Int : e = n - d
          BY <4>3
        <5>2. 0 < e /\ e < BackupTics /\ (m = t + e \/ m = t + e - Tics)
          BY <4>3, <4>4, <5>1
        <5>3. Tics \in Nat /\ BackupTics \in Nat /\ BackupTics > 0 /\ Tics > 0 /\ Tics % BackupTics = 0
          BY <2>2
        <5> QED  BY <5>2, <5>3, OwnCells
      <4>6. t % BackupTics \in 0 .. BackupTics - 1
        BY <2>2, ModSplit
      <4>7. ticdata'[t % BackupTics] = ticdata[t % BackupTics]
        BY <2>1, <2>4, <2>12, <4>5, <4>6
      <4> QED  BY <1>1, <2>3, <3>2, <4>2, <4>7
    <3> QED  BY <3>3, <3>4
  <2>15. L!Upto(lowtic)' = L!Upto(lowtic)
    BY <1>1 DEF L!Upto
  <2>16. \A d \in 0 .. L!Upto(maketic)' - 1 :
           LET tic == (gametic' + d) % Tics IN ticdata'[tic % BackupTics] = tic
    <3>1. L!Upto(maketic)' - 1 = n
      BY <2>9
    <3> QED  BY <2>14, <3>1
  <2>17. L!Upto(maketic)' <= MaxAhead
    BY <2>2, <2>6, <2>9
  <2>18. loopAt' \in {"wait", "waited", "run"} => L!Upto(lowtic)' <= L!Upto(maketic)'
    <3>1. L!Upto(lowtic) \in Int
      BY <2>3, UptoIs DEF L!Upto, LoopInv, LoopTypes
    <3>2. loopAt \in {"wait", "waited", "run"} => L!Upto(lowtic) <= n
      BY <2>6 DEF LoopInv
    <3> QED  BY <1>1, <2>9, <2>15, <3>1, <3>2
  <2>19. loopAt' = "run" => counts' <= L!Upto(lowtic)'
    BY <1>1, <2>15 DEF LoopInv
  <2> QED  BY <2>13, <2>16, <2>17, <2>18, <2>19 DEF LoopInv
<1> QED  BY <1>2, <1>3

\* One tic less to run, of those up to any tic that is ahead.
LEMMA UptoOneLess ==
  ASSUME NEW g \in 0 .. Tics - 1, NEW t \in 0 .. Tics - 1, (t - g) % Tics >= 1
  PROVE  /\ (g + 1) % Tics \in 0 .. Tics - 1
         /\ (t - ((g + 1) % Tics)) % Tics = ((t - g) % Tics) - 1
<1>1. Tics \in Nat /\ Tics > 1
  BY LoopConstants
<1>2. PICK f \in 0 .. Tics - 1 : f = (g + 1) % Tics /\ f = IF g + 1 < Tics THEN g + 1 ELSE g + 1 - Tics
  <2>1. 1 \in 0 .. Tics - 1
    BY <1>1
  <2>2. (g + 1) % Tics \in 0 .. Tics - 1 /\ (g + 1) % Tics = IF g + 1 < Tics THEN g + 1 ELSE g + 1 - Tics
    BY <2>1, TicIs
  <2> QED  BY <2>2
<1>3. (t - g) % Tics = IF t < g THEN t - g + Tics ELSE t - g
  BY UptoIs
<1>4. (t - f) % Tics = IF t < f THEN t - f + Tics ELSE t - f
  BY UptoIs
<1>5. (t - f) % Tics = ((t - g) % Tics) - 1
  BY <1>1, <1>2, <1>3, <1>4
<1> QED  BY <1>2, <1>5

\* RunTic runs a tic that is made.
LEMMA RunTicKeeps == ASSUME LoopInv, L!RunTic  PROVE LoopInv'
<1>1. /\ loopAt = "run" /\ counts > 0 /\ loopAt' = "run"
      /\ gametic' = (gametic + 1) % Tics /\ counts' = counts - 1
      /\ UNCHANGED <<clock, remainder, maketic, ticdata, oldentertics, lowtic>>
  BY DEF L!RunTic, L!At, L!NetUpdate, L!timeVars
<1>2. Tics \in Nat /\ Tics > 1 /\ MaxAhead \in Nat
  BY LoopConstants
<1>3. PICK g \in 0 .. Tics - 1 : g = gametic
  BY DEF LoopInv, LoopTypes
<1>4. PICK n \in 0 .. Tics - 1 : n = L!Upto(maketic)
  BY <1>3, UptoIs DEF L!Upto, LoopInv, LoopTypes
<1>5. PICK low \in 0 .. Tics - 1 : low = L!Upto(lowtic)
  BY <1>3, UptoIs DEF L!Upto, LoopInv, LoopTypes
<1>6. counts \in Int /\ counts <= low /\ low <= n /\ low >= 1 /\ n >= 1 /\ n <= MaxAhead
  <2>1. counts \in Int /\ counts <= low /\ low <= n /\ n <= MaxAhead
    BY <1>1, <1>4, <1>5 DEF LoopInv, LoopTypes
  <2> QED  BY <1>1, <2>1
<1>7. gametic' \in 0 .. Tics - 1 /\ L!Upto(maketic)' = n - 1
  <2>1. PICK t \in 0 .. Tics - 1 : t = maketic
    BY DEF LoopInv, LoopTypes
  <2>2. (t - g) % Tics = n
    BY <1>3, <1>4, <2>1 DEF L!Upto
  <2>3. (g + 1) % Tics \in 0 .. Tics - 1 /\ (t - ((g + 1) % Tics)) % Tics = n - 1
    BY <1>6, <2>2, UptoOneLess
  <2> QED  BY <1>1, <1>3, <2>1, <2>3 DEF L!Upto
<1>8. L!Upto(lowtic)' = low - 1
  <2>1. PICK t \in 0 .. Tics - 1 : t = lowtic
    BY DEF LoopInv, LoopTypes
  <2>2. (t - g) % Tics = low
    BY <1>3, <1>5, <2>1 DEF L!Upto
  <2>3. (t - ((g + 1) % Tics)) % Tics = low - 1
    BY <1>6, <2>2, UptoOneLess
  <2> QED  BY <1>1, <1>3, <2>1, <2>3 DEF L!Upto
<1>9. LoopTypes'
  BY <1>1, <1>6, <1>7 DEF LoopInv, LoopTypes
<1>10. ASSUME NEW d \in 0 .. n - 2
       PROVE  LET tic == (gametic' + d) % Tics IN ticdata'[tic % BackupTics] = tic
  <2>1. d + 1 \in 0 .. n - 1 /\ d + 1 \in 0 .. Tics - 1 /\ d \in 0 .. Tics - 1
    BY <1>2
  <2>2. (gametic' + d) % Tics = (g + (d + 1)) % Tics
    <3>1. PICK f \in 0 .. Tics - 1 : f = (g + 1) % Tics
      BY <1>1, <1>3, <1>7
    <3>2. f = IF g + 1 < Tics THEN g + 1 ELSE g + 1 - Tics
      <4>1. 1 \in 0 .. Tics - 1
        BY <1>2
      <4> QED  BY <3>1, <4>1, TicIs
    <3>3. (f + d) % Tics = IF f + d < Tics THEN f + d ELSE f + d - Tics
      BY <2>1, TicIs
    <3>4. PICK e \in 0 .. Tics - 1 : e = d + 1
      BY <2>1
    <3>5. (g + e) % Tics = IF g + e < Tics THEN g + e ELSE g + e - Tics
      BY TicIs
    <3>6. (f + d) % Tics = (g + e) % Tics
      BY <1>2, <3>2, <3>3, <3>4, <3>5
    <3> QED  BY <1>1, <1>3, <3>1, <3>4, <3>6
  <2>3. LET tic == (g + (d + 1)) % Tics IN ticdata[tic % BackupTics] = tic
    BY <1>3, <1>4, <2>1 DEF LoopInv
  <2> QED  BY <1>1, <2>2, <2>3
<1>11. \A d \in 0 .. L!Upto(maketic)' - 1 :
         LET tic == (gametic' + d) % Tics IN ticdata'[tic % BackupTics] = tic
  <2>1. L!Upto(maketic)' - 1 = n - 2
    BY <1>7
  <2> QED  BY <1>10, <2>1
<1>12. L!Upto(maketic)' <= MaxAhead /\ L!Upto(lowtic)' <= L!Upto(maketic)' /\ counts' <= L!Upto(lowtic)'
  BY <1>1, <1>2, <1>6, <1>7, <1>8
<1> QED  BY <1>9, <1>11, <1>12 DEF LoopInv

\* Steps that know no tic of the game.
LEMMA LoopStep == ASSUME LoopInv, L!Next  PROVE LoopInv'
<1>0. /\ TicRate \in Nat /\ TicRate > 0 /\ Second \in Nat /\ Second > 0 /\ Width \in Nat /\ Width > 0
      /\ Tics \in Nat /\ LoopTypes
  BY LoopConstants DEF LoopInv
<1> DEFINE same == UNCHANGED <<maketic, gametic, ticdata>>
<1>1. L!I_GetTime \in Int
  BY <1>0 DEF L!I_GetTime, LoopTypes
<1>2. CASE L!BuildNewTic
  BY <1>2, BuildKeeps
<1>3. CASE L!RunTic
  BY <1>3, RunTicKeeps
<1>4. CASE L!Enter
  <2>1. same /\ loopAt' = "decide" /\ oldentertics' = L!I_GetTime /\ counts' = L!I_GetTime - oldentertics
        /\ UNCHANGED <<clock, remainder, lowtic>>
    BY <1>4 DEF L!Enter, L!NetUpdate, L!timeVars
  <2>2. counts' \in Int
    BY <1>0, <1>1, <2>1 DEF LoopTypes
  <2>3. LoopTypes'
    BY <1>0, <1>1, <2>1, <2>2 DEF LoopTypes
  <2> QED  BY <2>1, <2>3, RingStays
<1>5. CASE L!Decide
  <2>1. same /\ loopAt' = "wait" /\ lowtic' = maketic /\ UNCHANGED <<clock, remainder, oldentertics>>
    BY <1>5 DEF L!Decide, L!timeVars
  <2>2. counts' \in Int
    <3>1. PICK a \in Int : a = L!Upto(maketic)
      BY <1>0, UptoIs DEF L!Upto, LoopTypes
    <3>2. PICK n \in Int : n = IF counts < a - 1 THEN counts + 1 ELSE L!Minimum(counts, a)
      BY <1>0 DEF L!Minimum, LoopTypes
    <3>3. counts' = IF n < 1 THEN 1 ELSE n
      BY <1>5, <3>1, <3>2 DEF L!Decide
    <3> QED  BY <3>3
  <2>3. LoopTypes'
    BY <1>0, <2>1, <2>2 DEF LoopTypes
  <2> QED  BY <2>1, <2>3, RingStays
<1>6. CASE L!Wait
  <2>1. same /\ loopAt = "wait" /\ loopAt' = "waited" /\ UNCHANGED <<clock, remainder, oldentertics, counts, lowtic>>
    BY <1>6 DEF L!Wait, L!NetUpdate, L!At, L!timeVars
  <2>2. LoopTypes'
    BY <1>0, <2>1 DEF LoopTypes
  <2> QED  BY <2>1, <2>2, RingStays
<1>7. CASE L!Waited
  <2>1. same /\ loopAt' \in {"display", "wait"} /\ lowtic' = maketic /\ UNCHANGED <<remainder, oldentertics, counts>>
    BY <1>7 DEF L!Waited
  <2>2. clock' \in Nat
    <3>1. clock' = clock \/ clock' = (clock + 1 * TicRate) % Width
      BY <1>7 DEF L!Waited, L!Sleep
    <3> QED  BY <1>0, <3>1 DEF LoopTypes
  <2>3. LoopTypes'
    BY <1>0, <2>1, <2>2 DEF LoopTypes
  <2> QED  BY <2>1, <2>3, RingStays
<1>8. CASE L!Ready
  <2>1. same /\ loopAt = "wait" /\ loopAt' = "run" /\ L!Upto(lowtic) >= counts
        /\ UNCHANGED <<clock, remainder, oldentertics, counts, lowtic>>
    BY <1>8 DEF L!Ready, L!At, L!timeVars
  <2>2. LoopTypes'
    BY <1>0, <2>1 DEF LoopTypes
  <2>3. L!Upto(lowtic) \in Int
    BY <1>0, UptoIs DEF L!Upto, LoopTypes
  <2>4. counts' <= L!Upto(lowtic')
    BY <1>0, <2>1, <2>3 DEF LoopTypes
  <2> QED  BY <2>1, <2>2, <2>4, RingStays
<1>9. CASE L!Done \/ L!D_Display
  <2>1. same /\ loopAt' \in {"display", "frame"} /\ UNCHANGED <<clock, remainder, oldentertics, counts, lowtic>>
    BY <1>9 DEF L!Done, L!D_Display, L!NetUpdate, L!timeVars
  <2>2. LoopTypes'
    BY <1>0, <2>1 DEF LoopTypes
  <2> QED  BY <2>1, <2>2, RingStays
<1>10. CASE L!WaitForNextTick
  <2>1. same /\ loopAt' = "enter" /\ remainder' = (remainder + Second) % TicRate
        /\ UNCHANGED <<oldentertics, counts, lowtic>>
    BY <1>10 DEF L!WaitForNextTick
  <2>2. remainder' \in Nat
    BY <1>0, <2>1 DEF LoopTypes
  <2>3. clock' \in Nat
    <3>1. PICK ms \in Nat : ms = (remainder + Second) \div TicRate
      BY <1>0 DEF LoopTypes
    <3>2. ms * TicRate \in Nat
      BY <1>0
    <3>3. clock' = (clock + ms * TicRate) % Width
      BY <1>10, <3>1 DEF L!WaitForNextTick, L!Sleep
    <3> QED  BY <1>0, <3>2, <3>3 DEF LoopTypes
  <2>4. LoopTypes'
    BY <1>0, <2>1, <2>2, <2>3 DEF LoopTypes
  <2> QED  BY <2>1, <2>4, RingStays
<1>11. ASSUME NEW ms \in 1 .. MaxWipe, L!Wipe(ms)  PROVE LoopInv'
  <2>1. same /\ loopAt' = "wiped" /\ UNCHANGED <<remainder, oldentertics, counts, lowtic>>
    BY <1>11 DEF L!Wipe
  <2>2. clock' \in Nat
    <3>1. ms * TicRate \in Nat
      BY <1>0
    <3>2. clock' = (clock + ms * TicRate) % Width
      BY <1>11 DEF L!Wipe, L!Sleep
    <3> QED  BY <1>0, <3>1, <3>2 DEF LoopTypes
  <2>3. LoopTypes'
    BY <1>0, <2>1, <2>2 DEF LoopTypes
  <2> QED  BY <2>1, <2>3, RingStays
<1> QED  BY <1>2, <1>3, <1>4, <1>5, <1>6, <1>7, <1>8, <1>9, <1>10, <1>11 DEF L!Next, L!Work

\* At the start no tic is made.
LEMMA LoopInit == ASSUME L!Init  PROVE LoopInv
<1>1. Tics \in Nat /\ Tics > 0 /\ BackupTics \in Nat /\ MaxAhead \in Nat
  BY LoopConstants
<1>2. LoopTypes
  BY <1>1 DEF L!Init, LoopTypes
<1>3. maketic = 0 /\ gametic = 0 /\ loopAt = "enter"
  BY DEF L!Init
<1>4. L!Upto(maketic) = 0
  <2>1. 0 \in 0 .. Tics - 1
    BY <1>1
  <2>2. (0 - 0) % Tics = IF 0 < 0 THEN 0 - 0 + Tics ELSE 0 - 0
    BY <2>1, UptoIs
  <2> QED  BY <1>3, <2>2 DEF L!Upto
<1> QED  BY <1>1, <1>2, <1>3, <1>4 DEF LoopInv

\* In every behaviour of the loop each command is run once and for the tic it was made for: none
\* of those to be run is painted over in the ring, and none is run that was not made.
THEOREM LoopRunsWhatWasMade == L!Spec => []L!RunsWhatWasMade
<1>1. LoopInv /\ [L!Next]_L!vars => LoopInv'
  <2>1. ASSUME LoopInv, UNCHANGED L!vars  PROVE LoopInv'
    <3>1. UNCHANGED <<clock, remainder, maketic, gametic, ticdata, oldentertics, loopAt, counts, lowtic>>
      BY <2>1 DEF L!vars, L!timeVars, L!callVars
    <3>2. L!Upto(maketic)' = L!Upto(maketic) /\ L!Upto(lowtic)' = L!Upto(lowtic)
      BY <3>1 DEF L!Upto
    <3> QED  BY <2>1, <3>1, <3>2 DEF LoopInv, LoopTypes
  <2> QED  BY <2>1, LoopStep
<1>2. LoopInv => L!RunsWhatWasMade
  BY DEF LoopInv, L!RunsWhatWasMade
<1> QED  BY <1>1, <1>2, LoopInit, PTL DEF L!Spec

-----------------------------------------------------------------------------
(* The movers of a level: what they are, and who points to them.            *)


MoverType ==
  {"normal", "open", "close", "close30ThenOpen", "perpetual", "downWaitUpStay", "raise",
   "crushAndRaise", "lowerToFloor", "raiseToHighest"}
MoverRecord ==
  [kind : {"door", "plat", "ceiling"}, type : MoverType, sector : M!Sector,
   status : {"up", "down", "wait", "stasis"}, old : {"none", "up", "down", "wait"}, count : Int,
   wait : Int, low : Int, high : Int, thinker : {"think", "none", "removed"}]

\* Where a mover may take its sector; doors and crushers never a ceiling below a floor.
MoverOK(m) ==
  /\ m \in MoverRecord
  /\ m.thinker = "none" <=> m.status = "stasis"
  /\ m.status = "stasis" => m.old # "none"
  /\ m.kind = "door" =>
       m.sector \in Doors /\ m.status # "stasis" /\ InitFloor[m.sector] <= m.high
  /\ m.kind = "plat" => m.sector \in Lifts
  /\ m.kind = "ceiling" =>
       /\ m.sector \in Crushers /\ m.status # "wait" /\ m.old # "wait"
       /\ m.type = "crushAndRaise" \/ "up" \in {m.status, m.old} => InitFloor[m.sector] <= m.high
       /\ m.type = "crushAndRaise" \/ "down" \in {m.status, m.old} => InitFloor[m.sector] <= m.low

\* And a lift never a floor above a ceiling, but for one that was raised and comes back down.
LiftOK(m, off) ==
  m.kind = "plat" /\ m.sector \notin off =>
    m.high <= InitCeiling[m.sector] /\ (m.type # "raise" => m.low <= InitCeiling[m.sector])

LiftsOK == \A a \in Address : mover[a] # M!Nothing => LiftOK(mover[a], unset)
MoversOK == \A a \in Address : mover[a] = M!Nothing \/ MoverOK(mover[a])

\* The pointers to movers.
Alive(mv, a) == a \in Address /\ mv[a] # M!Nothing /\ mv[a].thinker # "removed"
PointersOf(mv, data, plats, ceilings) ==
  /\ \A s \in M!Sector : data[s] # M!Null => Alive(mv, data[s]) /\ mv[data[s]].sector = s
  /\ \A a \in plats : Alive(mv, a) /\ mv[a].kind = "plat"
  /\ \A a \in ceilings : Alive(mv, a) /\ mv[a].kind = "ceiling"
  /\ \A a \in Address : Alive(mv, a) /\ mv[a].sector \notin Doors => data[mv[a].sector] = a
Pointers == PointersOf(mover, specialdata, activeplats, activeceilings)

\* Floors and ceilings; lifts move floors only, doors and crushers ceilings.
HeightsOK ==
  /\ floor \in [M!Sector -> Int] /\ ceiling \in [M!Sector -> Int]
  /\ unset \subseteq Lifts
  /\ \A s \in M!Sector \ unset : floor[s] <= ceiling[s]
  /\ \A s \in M!Sector \ Lifts : floor[s] = InitFloor[s]
  /\ \A s \in Lifts : ceiling[s] = InitCeiling[s]

MoverInv ==
  /\ level \in Levels
  /\ specialdata \in [M!Sector -> Address \cup {M!Null}] /\ mover \in [Address -> MoverRecord \cup {M!Nothing}]
  /\ MoversOK /\ LiftsOK /\ Pointers /\ HeightsOK

\* What every step leaves: the level, its heights as they should be, and what happened to them.
HeightsKept == HeightsOK' /\ level' = level /\ unset \subseteq unset'
-----------------------------------------------------------------------------
(* The movers, and the pointers to them.                                    *)

\* A mover is something.
LEMMA SomeMover ==
  ASSUME NEW m, MoverOK(m)
  PROVE  /\ m # M!Nothing /\ m \in MoverRecord /\ m.kind \in {"door", "plat", "ceiling"}
         /\ m.sector \in M!Sector /\ m.low \in Int /\ m.high \in Int
<1>1. m.kind \in {"door", "plat", "ceiling"}
  BY DEF MoverOK, MoverRecord
<1>2. M!Nothing.kind = "none"
  BY DEF M!Nothing
<1> QED  BY <1>1, <1>2 DEF MoverOK, MoverRecord

\* Which movers are alive.
LEMMA AliveIs ==
  /\ \A a : a \in M!Live <=> Alive(mover, a)
  /\ \A a : Alive(mover, a) /\ MoversOK => MoverOK(mover[a]) /\ a \in Address
BY DEF M!Live, M!Used, Alive, MoversOK

\* What moves a sector stays what it is.
SameShape(m, n) ==
  /\ m.kind = n.kind /\ m.type = n.type /\ m.sector = n.sector /\ m.low = n.low /\ m.high = n.high
  /\ (m.thinker = "removed" <=> n.thinker = "removed")

\* A lift that stays what it is may go where it might.
LEMMA LiftStays ==
  ASSUME NEW m, NEW n, SameShape(n, m), NEW off, NEW all, off \subseteq all, LiftOK(m, off)
  PROVE  LiftOK(n, all)
BY DEF SameShape, LiftOK

\* A mover is as it was, or goes on as the same mover.
GoesOn(a) ==
  \/ mover'[a] = mover[a]
  \/ mover[a] # M!Nothing /\ MoverOK(mover'[a]) /\ SameShape(mover'[a], mover[a])

\* Alive before and after.
LEMMA GoesOnAlive ==
  ASSUME MoversOK, NEW a \in Address, GoesOn(a)
  PROVE  /\ Alive(mover', a) <=> Alive(mover, a)
         /\ Alive(mover, a) => mover'[a].kind = mover[a].kind /\ mover'[a].sector = mover[a].sector
         /\ mover'[a] = M!Nothing \/ MoverOK(mover'[a])
         /\ LiftsOK /\ unset \subseteq unset' /\ mover'[a] # M!Nothing => LiftOK(mover'[a], unset')
<1>1. mover[a] = M!Nothing \/ MoverOK(mover[a])
  BY DEF MoversOK
<1>2. /\ Alive(mover', a) <=> Alive(mover, a)
      /\ Alive(mover, a) => mover'[a].kind = mover[a].kind /\ mover'[a].sector = mover[a].sector
      /\ mover'[a] = M!Nothing \/ MoverOK(mover'[a])
  <2>1. CASE mover'[a] = mover[a]
    BY <1>1, <2>1 DEF Alive
  <2>2. CASE mover[a] # M!Nothing /\ MoverOK(mover'[a]) /\ SameShape(mover'[a], mover[a])
    <3>1. mover'[a] # M!Nothing
      BY <2>2, SomeMover
    <3> QED  BY <2>2, <3>1 DEF Alive, SameShape
  <2> QED  BY <2>1, <2>2 DEF GoesOn
<1>3. ASSUME LiftsOK, unset \subseteq unset', mover'[a] # M!Nothing  PROVE LiftOK(mover'[a], unset')
  <2>1. mover[a] # M!Nothing /\ (mover'[a] = mover[a] \/ SameShape(mover'[a], mover[a]))
    BY <1>3 DEF GoesOn
  <2>2. LiftOK(mover[a], unset)
    BY <1>3, <2>1 DEF LiftsOK
  <2>3. SameShape(mover'[a], mover[a])
    BY <2>1 DEF SameShape
  <2> QED  BY <1>3, <2>2, <2>3, LiftStays
<1> QED  BY <1>2, <1>3

\* All movers go on, and no pointer changes.
LEMMA GoingOn ==
  ASSUME MoverInv, HeightsKept, mover' \in [Address -> MoverRecord \cup {M!Nothing}],
         \A a \in Address : GoesOn(a), UNCHANGED <<specialdata, activeplats, activeceilings>>
  PROVE  MoverInv'
<1>1. MoversOK /\ Pointers
  BY DEF MoverInv
<1>2. MoversOK'
  BY <1>1, GoesOnAlive DEF MoversOK
<1>3. \A a : Alive(mover', a) <=> Alive(mover, a)
  <2>1. ASSUME NEW a  PROVE Alive(mover', a) <=> Alive(mover, a)
    <3>1. CASE a \in Address
      BY <1>1, <3>1, GoesOnAlive
    <3>2. CASE a \notin Address
      BY <3>2 DEF Alive
    <3> QED  BY <3>1, <3>2
  <2> QED  BY <2>1
<1>4. \A a : Alive(mover, a) => mover'[a].kind = mover[a].kind /\ mover'[a].sector = mover[a].sector
  BY <1>1, GoesOnAlive DEF Alive
<1>5. Pointers'
  BY <1>1, <1>3, <1>4 DEF Pointers, PointersOf
<1>6. LiftsOK /\ unset \subseteq unset'
  BY DEF MoverInv, HeightsKept
<1>7. LiftsOK'
  BY <1>1, <1>6, GoesOnAlive DEF LiftsOK
<1> QED  BY <1>2, <1>5, <1>7 DEF MoverInv, HeightsKept

\* A new mover, while others go on.
LEMMA NewMover ==
  ASSUME MoverInv, HeightsKept, mover' \in [Address -> MoverRecord \cup {M!Nothing}],
         NEW a \in Address, NEW m, mover[a] = M!Nothing, mover'[a] = m, MoverOK(m), LiftOK(m, unset'), m.thinker = "think",
         \A b \in Address : b # a => GoesOn(b),
         specialdata[m.sector] = M!Null \/ m.sector \in Doors,
         specialdata' = [specialdata EXCEPT ![m.sector] = a],
         activeplats' = activeplats \/ (m.kind = "plat" /\ activeplats' = activeplats \cup {a}),
         activeceilings' = activeceilings \/ (m.kind = "ceiling" /\ activeceilings' = activeceilings \cup {a})
  PROVE  MoverInv'
<1>1. MoversOK /\ Pointers /\ specialdata \in [M!Sector -> Address \cup {M!Null}]
  BY DEF MoverInv
<1>2. m # M!Nothing /\ m.sector \in M!Sector
  BY SomeMover
<1>3. MoversOK'
  BY <1>1, GoesOnAlive DEF MoversOK
<1>4. Alive(mover', a) /\ ~Alive(mover, a)
  BY <1>2 DEF Alive
<1>5. ASSUME NEW b, b # a  PROVE /\ Alive(mover', b) <=> Alive(mover, b)
                                 /\ Alive(mover, b) => mover'[b].kind = mover[b].kind /\ mover'[b].sector = mover[b].sector
  <2>1. CASE b \in Address
    BY <1>1, <1>5, <2>1, GoesOnAlive
  <2>2. CASE b \notin Address
    BY <2>2 DEF Alive
  <2> QED  BY <2>1, <2>2
<1>6. /\ specialdata' \in [M!Sector -> Address \cup {M!Null}]
      /\ specialdata'[m.sector] = a
      /\ \A s \in M!Sector : s # m.sector => specialdata'[s] = specialdata[s]
  BY <1>1, <1>2
<1>7. Pointers'
  <2>1. ASSUME NEW s \in M!Sector, specialdata'[s] # M!Null
        PROVE  Alive(mover', specialdata'[s]) /\ mover'[specialdata'[s]].sector = s
    <3>1. CASE s = m.sector
      BY <1>4, <1>6, <3>1
    <3>2. CASE s # m.sector
      <4>1. specialdata'[s] = specialdata[s] /\ Alive(mover, specialdata[s]) /\ mover[specialdata[s]].sector = s
        BY <1>1, <1>6, <2>1, <3>2 DEF Pointers, PointersOf
      <4>2. specialdata[s] # a
        BY <1>4, <4>1
      <4> QED  BY <1>5, <4>1, <4>2
    <3> QED  BY <3>1, <3>2
  <2>2. ASSUME NEW b \in activeplats'  PROVE Alive(mover', b) /\ mover'[b].kind = "plat"
    <3>1. CASE b = a
      <4>1. ~(a \in activeplats)
        BY <1>1, <1>4 DEF Pointers, PointersOf
      <4>2. m.kind = "plat"
        BY <2>2, <3>1, <4>1
      <4> QED  BY <1>4, <3>1, <4>2
    <3>2. CASE b # a
      <4>1. Alive(mover, b) /\ mover[b].kind = "plat"
        BY <1>1, <2>2, <3>2 DEF Pointers, PointersOf
      <4> QED  BY <1>5, <3>2, <4>1
    <3> QED  BY <3>1, <3>2
  <2>3. ASSUME NEW b \in activeceilings'  PROVE Alive(mover', b) /\ mover'[b].kind = "ceiling"
    <3>1. CASE b = a
      <4>1. ~(a \in activeceilings)
        BY <1>1, <1>4 DEF Pointers, PointersOf
      <4>2. m.kind = "ceiling"
        BY <2>3, <3>1, <4>1
      <4> QED  BY <1>4, <3>1, <4>2
    <3>2. CASE b # a
      <4>1. Alive(mover, b) /\ mover[b].kind = "ceiling"
        BY <1>1, <2>3, <3>2 DEF Pointers, PointersOf
      <4> QED  BY <1>5, <3>2, <4>1
    <3> QED  BY <3>1, <3>2
  <2>4. ASSUME NEW b \in Address, Alive(mover', b), mover'[b].sector \notin Doors
        PROVE  specialdata'[mover'[b].sector] = b
    <3>1. CASE b = a
      BY <1>6, <3>1
    <3>2. CASE b # a
      <4>1. Alive(mover, b) /\ mover'[b].sector = mover[b].sector
        BY <1>5, <2>4, <3>2
      <4>2. specialdata[mover[b].sector] = b
        BY <1>1, <2>4, <4>1 DEF Pointers, PointersOf
      <4>3. mover[b].sector \in M!Sector
        BY <1>1, <4>1, AliveIs, SomeMover
      <4>4. mover[b].sector # m.sector
        <5>1. ASSUME mover[b].sector = m.sector  PROVE FALSE
          <6>1. b = M!Null
            BY <2>4, <4>1, <4>2, <5>1
          <6> QED  BY <6>1, MoversAssumed DEF M!MoverAssumption, M!Null
        <5> QED  BY <5>1
      <4> QED  BY <1>6, <4>1, <4>2, <4>3, <4>4
    <3> QED  BY <3>1, <3>2
  <2> QED  BY <2>1, <2>2, <2>3, <2>4 DEF Pointers, PointersOf
<1>8. LiftsOK /\ unset \subseteq unset'
  BY DEF MoverInv, HeightsKept
<1>9. LiftsOK'
  BY <1>1, <1>8, GoesOnAlive DEF LiftsOK
<1> QED  BY <1>3, <1>6, <1>7, <1>9 DEF MoverInv, HeightsKept

\* A mover is done: its sector and its table forget it.
LEMMA MoverEnds ==
  ASSUME MoverInv, HeightsKept, NEW a \in Address, Alive(mover, a), MoverOK(mover[a]),
         mover[a].thinker = "think", M!Ends(a),
         activeplats' = activeplats \ {a}, activeceilings' = activeceilings \ {a}
  PROVE  MoverInv'
<1>1. MoversOK /\ Pointers /\ specialdata \in [M!Sector -> Address \cup {M!Null}]
      /\ mover \in [Address -> MoverRecord \cup {M!Nothing}]
  BY DEF MoverInv
<1>2. mover[a] \in MoverRecord /\ mover[a].sector \in M!Sector
  BY SomeMover
<1>3. PICK m : m = [mover[a] EXCEPT !.thinker = "removed"]
  OBVIOUS
<1>4. /\ m \in MoverRecord /\ m.kind = mover[a].kind /\ m.sector = mover[a].sector /\ m.thinker = "removed"
      /\ m.status = mover[a].status /\ m.old = mover[a].old /\ m.low = mover[a].low /\ m.high = mover[a].high
      /\ m.type = mover[a].type
  BY <1>2, <1>3 DEF MoverRecord
<1>5. MoverOK(m)
  BY <1>4 DEF MoverOK
<1>6. /\ mover' \in [Address -> MoverRecord \cup {M!Nothing}] /\ mover'[a] = m
      /\ \A b \in Address : b # a => mover'[b] = mover[b]
      /\ specialdata' \in [M!Sector -> Address \cup {M!Null}] /\ specialdata'[mover[a].sector] = M!Null
      /\ \A s \in M!Sector : s # mover[a].sector => specialdata'[s] = specialdata[s]
  BY <1>1, <1>2, <1>3, <1>4 DEF M!Ends, M!Sets
<1>7. MoversOK'
  BY <1>1, <1>5, <1>6 DEF MoversOK
<1>8. ASSUME NEW b, b # a  PROVE (Alive(mover', b) <=> Alive(mover, b)) /\ (b \in Address => mover'[b] = mover[b])
  BY <1>6, <1>8 DEF Alive
<1>9. ~Alive(mover', a)
  BY <1>4, <1>6 DEF Alive
<1>10. Pointers'
  <2>1. ASSUME NEW s \in M!Sector, specialdata'[s] # M!Null
        PROVE  Alive(mover', specialdata'[s]) /\ mover'[specialdata'[s]].sector = s
    <3>1. s # mover[a].sector /\ specialdata'[s] = specialdata[s]
      BY <1>6, <2>1
    <3>2. Alive(mover, specialdata[s]) /\ mover[specialdata[s]].sector = s
      BY <1>1, <2>1, <3>1 DEF Pointers, PointersOf
    <3>3. specialdata[s] # a /\ specialdata[s] \in Address
      BY <3>1, <3>2 DEF Alive
    <3> QED  BY <1>8, <3>1, <3>2, <3>3
  <2>2. ASSUME NEW b \in activeplats'  PROVE Alive(mover', b) /\ mover'[b].kind = "plat"
    <3>1. b # a /\ Alive(mover, b) /\ mover[b].kind = "plat" /\ b \in Address
      BY <1>1, <2>2 DEF Pointers, PointersOf, Alive
    <3> QED  BY <1>8, <3>1
  <2>3. ASSUME NEW b \in activeceilings'  PROVE Alive(mover', b) /\ mover'[b].kind = "ceiling"
    <3>1. b # a /\ Alive(mover, b) /\ mover[b].kind = "ceiling" /\ b \in Address
      BY <1>1, <2>3 DEF Pointers, PointersOf, Alive
    <3> QED  BY <1>8, <3>1
  <2>4. ASSUME NEW b \in Address, Alive(mover', b), mover'[b].sector \notin Doors
        PROVE  specialdata'[mover'[b].sector] = b
    <3>1. b # a
      BY <1>9, <2>4
    <3>2. Alive(mover, b) /\ mover'[b] = mover[b]
      BY <1>8, <2>4, <3>1
    <3>3. specialdata[mover[b].sector] = b /\ mover[b].sector \in M!Sector
      BY <1>1, <2>4, <3>2, AliveIs, SomeMover DEF Pointers, PointersOf
    <3>4. mover[b].sector # mover[a].sector
      BY <1>1, <2>4, <3>1, <3>2, <3>3 DEF Pointers, PointersOf
    <3> QED  BY <1>6, <3>2, <3>3, <3>4
  <2> QED  BY <2>1, <2>2, <2>3, <2>4 DEF Pointers, PointersOf
<1>11. LiftsOK /\ unset \subseteq unset'
  BY DEF MoverInv, HeightsKept
<1>12. LiftsOK'
  <2>1. ASSUME NEW b \in Address, mover'[b] # M!Nothing  PROVE LiftOK(mover'[b], unset')
    <3>1. CASE b # a
      <4>1. SameShape(mover'[b], mover[b]) /\ LiftOK(mover[b], unset)
        BY <1>6, <1>11, <2>1, <3>1 DEF LiftsOK, SameShape
      <4> QED  BY <1>11, <4>1, LiftStays
    <3>2. CASE b = a
      <4>1. LiftOK(mover[a], unset)
        BY <1>11 DEF LiftsOK, Alive
      <4> QED  BY <1>4, <1>6, <1>11, <3>2, <4>1 DEF LiftOK
    <3> QED  BY <3>1, <3>2
  <2> QED  BY <2>1 DEF LiftsOK
<1> QED  BY <1>6, <1>7, <1>10, <1>12 DEF MoverInv, HeightsKept
-----------------------------------------------------------------------------
(* The heights, and the fields of movers.                                   *)

\* A ceiling that is not sent below its floor does not come there.
LEMMA CeilingMoveIs ==
  ASSUME HeightsOK, NEW s \in M!Sector, s \notin Lifts, NEW dest \in Int, floor[s] <= dest, NEW dir \in {1, -1}, NEW crush
  PROVE  /\ M!CeilingMove(s, dest, dir, crush).at \in Int
         /\ floor[s] <= M!CeilingMove(s, dest, dir, crush).at
<1>1. PICK f, c : f = floor[s] /\ c = ceiling[s] /\ f \in Int /\ c \in Int /\ f <= c
  BY DEF HeightsOK
<1>2. PICK to : to = IF IF dir = 1 THEN c + 1 > dest ELSE c - 1 < dest THEN dest ELSE c + dir
  OBVIOUS
<1>4. to \in Int /\ f <= to
  BY <1>1, <1>2
<1>5. M!CeilingMove(s, dest, dir, crush).at \in {to, c}
  BY <1>1, <1>2 DEF M!CeilingMove
<1> QED  BY <1>1, <1>4, <1>5

\* A floor that is not above its ceiling, nor sent there, does not come there.
LEMMA FloorMoveIs ==
  ASSUME HeightsOK, NEW s \in M!Sector, NEW dest \in Int, NEW dir \in {1, -1}
  PROVE  /\ M!FloorMove(s, dest, dir).at \in Int
         /\ s \notin unset /\ dest <= ceiling[s] => M!FloorMove(s, dest, dir).at <= ceiling[s]
<1>1. PICK f, c : f = floor[s] /\ c = ceiling[s] /\ f \in Int /\ c \in Int /\ (s \notin unset => f <= c)
  BY DEF HeightsOK
<1>2. PICK to : to = IF IF dir = 1 THEN f + 1 > dest ELSE f - 1 < dest THEN dest ELSE f + dir
  OBVIOUS
<1>4. to \in Int /\ (s \notin unset /\ dest <= c => to <= c)
  BY <1>1, <1>2
<1>5. M!FloorMove(s, dest, dir).at \in {to, f}
  BY <1>1, <1>2 DEF M!FloorMove
<1> QED  BY <1>1, <1>4, <1>5

\* The ceiling of a sector that is no lift's is moved.
LEMMA CeilingMoved ==
  ASSUME HeightsOK, level' = level, NEW s \in M!Sector, s \notin Lifts, NEW to \in Int, floor[s] <= to,
         ceiling' = [ceiling EXCEPT ![s] = to], floor' = floor, unset' = unset
  PROVE  HeightsKept
BY DEF HeightsOK, HeightsKept

\* The floor of a lift's sector is moved; above its ceiling only by a low that was not set.
LEMMA FloorMoved ==
  ASSUME HeightsOK, level' = level, NEW s \in M!Sector, s \in Lifts, NEW to \in Int,
         s \in unset' \/ to <= ceiling[s], unset' \in {unset, unset \cup {s}},
         floor' = [floor EXCEPT ![s] = to], ceiling' = ceiling
  PROVE  HeightsKept
BY DEF HeightsOK, HeightsKept

\* No height changes.
LEMMA NoHeightChanges ==
  ASSUME HeightsOK, level' = level, UNCHANGED M!heights
  PROVE  HeightsKept
BY DEF HeightsOK, HeightsKept, M!heights

\* A mover whose turn it is.
LEMMA TurnOf ==
  ASSUME MoverInv, NEW a \in Address, M!Turn(a)
  PROVE  /\ Alive(mover, a) /\ MoverOK(mover[a]) /\ mover[a] \in MoverRecord
         /\ mover[a].thinker = "think" /\ mover[a].status # "stasis"
BY DEF MoverInv, MoversOK, M!Turn, Alive, MoverOK

\* What a change of status, count or wait leaves.
Retimed(m, n) ==
  /\ n \in MoverRecord
  /\ n.kind = m.kind /\ n.type = m.type /\ n.sector = m.sector
  /\ n.old = m.old /\ n.low = m.low /\ n.high = m.high /\ n.thinker = m.thinker

\* Such a change of a mover that thinks, or of its status up or down.
LEMMA RetimedOK ==
  ASSUME NEW m, NEW n, MoverOK(m), Retimed(m, n),
         n.status = m.status \/ (m.thinker # "none" /\ m.kind # "ceiling" /\ n.status # "stasis")
           \/ (m.thinker # "none" /\ m.type = "crushAndRaise" /\ n.status \in {"up", "down"})
  PROVE  MoverOK(n) /\ SameShape(n, m)
<1>1. SameShape(n, m)
  BY DEF SameShape, Retimed
<1>2. CASE n.status = m.status
  BY <1>1, <1>2 DEF MoverOK, Retimed
<1>3. CASE m.thinker # "none" /\ m.kind # "ceiling" /\ n.status # "stasis"
  BY <1>1, <1>3 DEF MoverOK, Retimed
<1>4. CASE m.thinker # "none" /\ m.type = "crushAndRaise" /\ n.status \in {"up", "down"}
  <2>1. m.status # "stasis" /\ m.sector \in M!Sector
    BY <1>4 DEF MoverOK, MoverRecord
  <2>2. n \in MoverRecord /\ (n.thinker = "none" <=> n.status = "stasis")
    BY <1>4, <2>1 DEF MoverOK, Retimed
  <2>3. CASE m.kind = "ceiling"
    BY <1>1, <1>4, <2>2, <2>3 DEF MoverOK, Retimed
  <2>4. CASE m.kind # "ceiling"
    BY <1>1, <1>4, <2>2, <2>4 DEF MoverOK, Retimed
  <2> QED  BY <2>3, <2>4
<1> QED  BY <1>1, <1>2, <1>3, <1>4

\* A new status.
LEMMA NewStatus ==
  ASSUME NEW m \in MoverRecord, NEW status \in {"up", "down", "wait", "stasis"}
  PROVE  /\ Retimed(m, [m EXCEPT !.status = status])
         /\ [m EXCEPT !.status = status].status = status
BY DEF Retimed, MoverRecord

\* A new count.
LEMMA NewCount ==
  ASSUME NEW m \in MoverRecord, NEW count \in Int
  PROVE  /\ Retimed(m, [m EXCEPT !.count = count])
         /\ [m EXCEPT !.count = count].status = m.status
BY DEF Retimed, MoverRecord

\* A new wait.
LEMMA NewWait ==
  ASSUME NEW m \in MoverRecord, NEW w \in Int
  PROVE  /\ Retimed(m, [m EXCEPT !.wait = w])
         /\ [m EXCEPT !.wait = w].status = m.status
BY DEF Retimed, MoverRecord

\* One mover changes, and goes on.
LEMMA OneGoesOn ==
  ASSUME MoverInv, HeightsKept, NEW a \in Address, mover[a] # M!Nothing,
         NEW m, M!Sets(a, m), MoverOK(m), SameShape(m, mover[a]),
         UNCHANGED <<specialdata, activeplats, activeceilings>>
  PROVE  MoverInv'
<1>1. mover \in [Address -> MoverRecord \cup {M!Nothing}]
  BY DEF MoverInv
<1>2. m \in MoverRecord
  BY DEF MoverOK
<1>3. mover' \in [Address -> MoverRecord \cup {M!Nothing}]
  BY <1>1, <1>2 DEF M!Sets
<1>4. mover'[a] = m /\ \A b \in Address : b # a => mover'[b] = mover[b]
  BY <1>1 DEF M!Sets
<1>5. \A b \in Address : GoesOn(b)
  BY <1>4 DEF GoesOn
<1> QED  BY <1>3, <1>5, GoingOn

\* No mover changes, and no pointer.
LEMMA NoMoverChanges ==
  ASSUME MoverInv, HeightsKept, UNCHANGED <<mover, specialdata, activeplats, activeceilings>>
  PROVE  MoverInv'
<1>1. mover' \in [Address -> MoverRecord \cup {M!Nothing}] /\ mover' = mover
  BY DEF MoverInv
<1>2. \A b \in Address : GoesOn(b)
  BY <1>1 DEF GoesOn
<1> QED  BY <1>1, <1>2, GoingOn

\* A mover waits.
LEMMA WaitsKeeps ==
  ASSUME MoverInv, level' = level, NEW a \in Address, M!Turn(a), NEW go \in {"up", "down"}, M!Waits(a, go)
  PROVE  MoverInv'
<1>1. /\ MoverOK(mover[a]) /\ mover[a] \in MoverRecord /\ mover[a].thinker = "think" /\ mover[a] # M!Nothing
      /\ mover[a].status = "wait"
  BY TurnOf DEF M!Turn, M!Waits
<1>2. mover[a].kind # "ceiling"
  BY <1>1 DEF MoverOK
<1>3. HeightsKept /\ UNCHANGED <<specialdata, activeplats, activeceilings>>
  BY NoHeightChanges DEF MoverInv, M!Waits, M!tables
<1>4. CASE mover[a].count = 1
  <2>1. M!Sets(a, [mover[a] EXCEPT !.count = 0, !.status = go])
    BY <1>4 DEF M!Waits
  <2>2. PICK x : x = mover[a] /\ x \in MoverRecord
    BY <1>1
  <2>3. PICK m : m = [x EXCEPT !.count = 0, !.status = go]
    OBVIOUS
  <2>4. Retimed(x, m) /\ m.status = go
    <3>1. m \in MoverRecord
      <4>1. PICK n : n = [x EXCEPT !.count = 0]
        OBVIOUS
      <4>2. n \in MoverRecord
        BY <2>2, <4>1 DEF MoverRecord
      <4>3. m = [n EXCEPT !.status = go]
        BY <2>2, <2>3, <4>1, Zenon DEF MoverRecord
      <4>4. go \in {"up", "down", "wait", "stasis"}
        OBVIOUS
      <4> QED  BY <4>2, <4>3, <4>4 DEF MoverRecord
    <3>2. m.status = go
      BY <2>2, <2>3 DEF MoverRecord
    <3>3. m.kind = x.kind /\ m.type = x.type /\ m.sector = x.sector
      BY <2>2, <2>3 DEF MoverRecord
    <3>4. m.old = x.old /\ m.low = x.low /\ m.high = x.high /\ m.thinker = x.thinker
      BY <2>2, <2>3 DEF MoverRecord
    <3> QED  BY <3>1, <3>2, <3>3, <3>4 DEF Retimed
  <2>5. MoverOK(m) /\ SameShape(m, mover[a])
    BY <1>1, <1>2, <2>2, <2>4, RetimedOK
  <2> QED  BY <1>1, <1>3, <2>1, <2>2, <2>3, <2>5, OneGoesOn
<1>5. CASE mover[a].count # 1
  <2>1. PICK c : c = M!Maximum(mover[a].count - 1, -2)
    OBVIOUS
  <2>2. M!Sets(a, [mover[a] EXCEPT !.count = c])
    BY <1>5, <2>1 DEF M!Waits
  <2>3. c \in Int
    <3>1. mover[a].count \in Int
      BY <1>1 DEF MoverRecord
    <3> QED  BY <2>1, <3>1 DEF M!Maximum
  <2>4. PICK m : m = [mover[a] EXCEPT !.count = c]
    OBVIOUS
  <2>5. Retimed(mover[a], m) /\ m.status = mover[a].status
    BY <1>1, <2>3, <2>4, NewCount
  <2>6. MoverOK(m) /\ SameShape(m, mover[a])
    BY <1>1, <2>5, RetimedOK
  <2> QED  BY <1>1, <1>3, <2>2, <2>4, <2>6, OneGoesOn
<1> QED  BY <1>4, <1>5
-----------------------------------------------------------------------------
(* The thinkers.                                                            *)

\* A new status and count.
Timed(m, status, count) == [m EXCEPT !.status = status, !.count = count]

\* It leaves the rest.
LEMMA TimedIs ==
  ASSUME NEW m \in MoverRecord, NEW status \in {"up", "down", "wait", "stasis"}, NEW count \in Int
  PROVE  Retimed(m, Timed(m, status, count)) /\ Timed(m, status, count).status = status
BY DEF Timed, Retimed, MoverRecord

\* A mover whose turn it is gets a new status.
LEMMA TurnGoes ==
  ASSUME MoverInv, HeightsKept, NEW a \in Address, M!Turn(a),
         NEW status \in {"up", "down", "wait"},
         mover[a].kind # "ceiling" \/ (mover[a].type = "crushAndRaise" /\ status # "wait"),
         M!Goes(a, status) \/ \E count \in Int : M!Sets(a, Timed(mover[a], status, count)),
         UNCHANGED <<specialdata, activeplats, activeceilings>>
  PROVE  MoverInv'
<1>1. /\ MoverOK(mover[a]) /\ mover[a] \in MoverRecord /\ mover[a].thinker = "think" /\ mover[a] # M!Nothing
      /\ status \in {"up", "down", "wait", "stasis"} /\ status # "stasis"
  BY TurnOf DEF M!Turn
<1>2. PICK m : M!Sets(a, m) /\ Retimed(mover[a], m) /\ m.status = status
  <2>1. CASE M!Goes(a, status)
    <3>1. M!Sets(a, [mover[a] EXCEPT !.status = status])
      BY <2>1 DEF M!Goes
    <3>2. /\ Retimed(mover[a], [mover[a] EXCEPT !.status = status])
          /\ [mover[a] EXCEPT !.status = status].status = status
      BY <1>1, NewStatus
    <3> QED  BY <3>1, <3>2
  <2>2. CASE \E count \in Int : M!Sets(a, Timed(mover[a], status, count))
    <3>1. PICK count \in Int : M!Sets(a, Timed(mover[a], status, count))
      BY <2>2
    <3>2. Retimed(mover[a], Timed(mover[a], status, count)) /\ Timed(mover[a], status, count).status = status
      BY <1>1, TimedIs
    <3> QED  BY <3>1, <3>2
  <2> QED  BY <2>1, <2>2
<1>3. MoverOK(m) /\ SameShape(m, mover[a])
  <2>1. CASE mover[a].kind # "ceiling"
    BY <1>1, <1>2, <2>1, RetimedOK
  <2>2. CASE mover[a].type = "crushAndRaise" /\ status # "wait"
    BY <1>1, <1>2, <2>2, RetimedOK
  <2> QED  BY <2>1, <2>2
<1> QED  BY <1>1, <1>2, <1>3, OneGoesOn

\* The bounds of a mover, whose turn it is.
LEMMA BoundsOf ==
  ASSUME MoverInv, NEW a \in Address, M!Turn(a)
  PROVE  /\ mover[a].sector \in M!Sector /\ floor[mover[a].sector] \in Int /\ ceiling[mover[a].sector] \in Int
         /\ mover[a].low \in Int /\ mover[a].high \in Int
         /\ mover[a].kind = "door" => mover[a].sector \notin Lifts /\ floor[mover[a].sector] <= mover[a].high
         /\ mover[a].kind = "plat" =>
              /\ mover[a].sector \in Lifts
              /\ mover[a].sector \notin unset => mover[a].high <= ceiling[mover[a].sector]
              /\ mover[a].sector \notin unset /\ mover[a].type # "raise" => mover[a].low <= ceiling[mover[a].sector]
         /\ mover[a].kind = "ceiling" =>
              /\ mover[a].sector \notin Lifts /\ mover[a].status \in {"up", "down"}
              /\ mover[a].status = "up" => floor[mover[a].sector] <= mover[a].high
              /\ mover[a].status = "down" => floor[mover[a].sector] <= mover[a].low
<1>1. MoverOK(mover[a]) /\ mover[a] \in MoverRecord /\ mover[a].status # "stasis"
  BY TurnOf
<1>2. mover[a].sector \in M!Sector /\ mover[a].low \in Int /\ mover[a].high \in Int
  BY <1>1, SomeMover
<1>3. HeightsOK
  BY DEF MoverInv
<1>4. /\ floor[mover[a].sector] \in Int /\ ceiling[mover[a].sector] \in Int
      /\ mover[a].sector \notin Lifts => floor[mover[a].sector] = InitFloor[mover[a].sector]
      /\ mover[a].sector \in Lifts => ceiling[mover[a].sector] = InitCeiling[mover[a].sector]
  BY <1>2, <1>3 DEF HeightsOK
<1>5. Doors \cap Lifts = {} /\ Lifts \cap Crushers = {}
  BY MoversAssumed DEF M!LevelAssumption
<1>6. mover[a].kind = "door" => mover[a].sector \notin Lifts /\ floor[mover[a].sector] <= mover[a].high
  BY <1>1, <1>4, <1>5 DEF MoverOK
<1>7. mover[a].kind = "plat" =>
        /\ mover[a].sector \in Lifts
        /\ mover[a].sector \notin unset => mover[a].high <= ceiling[mover[a].sector]
        /\ mover[a].sector \notin unset /\ mover[a].type # "raise" => mover[a].low <= ceiling[mover[a].sector]
  <2>1. LiftOK(mover[a], unset)
    BY DEF MoverInv, LiftsOK, M!Turn
  <2>2. mover[a].kind = "plat" => mover[a].sector \in Lifts
    BY <1>1 DEF MoverOK
  <2> QED  BY <1>4, <2>1, <2>2 DEF LiftOK
<1>8. mover[a].kind = "ceiling" =>
        /\ mover[a].sector \notin Lifts /\ mover[a].status \in {"up", "down"}
        /\ mover[a].status = "up" => floor[mover[a].sector] <= mover[a].high
        /\ mover[a].status = "down" => floor[mover[a].sector] <= mover[a].low
  <2>1. ASSUME mover[a].kind = "ceiling"
        PROVE  /\ mover[a].sector \in Crushers /\ mover[a].status # "wait"
               /\ mover[a].status = "up" => InitFloor[mover[a].sector] <= mover[a].high
               /\ mover[a].status = "down" => InitFloor[mover[a].sector] <= mover[a].low
    BY <1>1, <2>1 DEF MoverOK
  <2>2. mover[a].status \in {"up", "down", "wait", "stasis"}
    BY <1>1 DEF MoverRecord
  <2> QED  BY <1>1, <1>4, <1>5, <2>1, <2>2
<1> QED  BY <1>2, <1>4, <1>6, <1>7, <1>8

\* A door moves.
LEMMA DoorMoves ==
  ASSUME MoverInv, level' = level, NEW a \in Address, M!T_VerticalDoor(a)
  PROVE  MoverInv'
<1>1. M!Turn(a) /\ mover[a].kind = "door"
  BY DEF M!T_VerticalDoor
<1>2. /\ Alive(mover, a) /\ MoverOK(mover[a]) /\ mover[a].thinker = "think" /\ mover[a] # M!Nothing
  BY <1>1, TurnOf DEF M!Turn
<1>3. CASE M!Waits(a, IF mover[a].type = "normal" THEN "down" ELSE "up")
  <2>1. PICK go \in {"up", "down"} : go = IF mover[a].type = "normal" THEN "down" ELSE "up"
    OBVIOUS
  <2> QED  BY <1>1, <1>3, <2>1, WaitsKeeps
<1>4. CASE ~M!Waits(a, IF mover[a].type = "normal" THEN "down" ELSE "up")
  <2>1. PICK s, dest, dir, r :
          /\ s = mover[a].sector /\ dest = (IF mover[a].status = "up" THEN mover[a].high ELSE floor[mover[a].sector])
          /\ dir = (IF mover[a].status = "up" THEN 1 ELSE -1)
          /\ r = M!CeilingMove(s, dest, dir, FALSE)
    OBVIOUS
  <2>2. ceiling' = [ceiling EXCEPT ![s] = r.at] /\ floor' = floor /\ unset' = unset /\ UNCHANGED M!tables
    BY <1>4, <2>1 DEF M!T_VerticalDoor
  <2>3. s \in M!Sector /\ s \notin Lifts /\ dest \in Int /\ floor[s] <= dest /\ dir \in {1, -1} /\ floor[s] \in Int
    <3>1. CASE mover[a].status = "up"
      <4>1. dest = mover[a].high /\ dir = 1
        BY <2>1, <3>1
      <4> QED  BY <1>1, <2>1, <4>1, BoundsOf
    <3>2. CASE mover[a].status # "up"
      <4>1. dest = floor[s] /\ dir = -1
        BY <2>1, <3>2
      <4> QED  BY <1>1, <2>1, <4>1, BoundsOf
    <3> QED  BY <3>1, <3>2
  <2>4. HeightsOK
    BY DEF MoverInv
  <2>5. r.at \in Int /\ floor[s] <= r.at
    BY <2>1, <2>3, <2>4, CeilingMoveIs
  <2>6. HeightsKept
    BY <2>2, <2>3, <2>4, <2>5, CeilingMoved
  <2>7. UNCHANGED <<activeplats, activeceilings>>
    BY <2>2 DEF M!tables
  <2>8. CASE r.res = "pastdest" /\ M!DoorArrives(mover[a]) = "waits"
    <3>1. M!Sets(a, Timed(mover[a], "wait", WaitTime)) /\ UNCHANGED specialdata
      BY <1>4, <2>1, <2>8 DEF Timed, M!T_VerticalDoor
    <3>2. WaitTime \in Int
      BY MoversAssumed DEF M!MoverAssumption
    <3> QED  BY <1>1, <2>6, <2>7, <3>1, <3>2, TurnGoes
  <2>9. CASE r.res = "pastdest" /\ M!DoorArrives(mover[a]) = "ends"
    <3>1. M!Ends(a)
      BY <1>4, <2>1, <2>9 DEF M!T_VerticalDoor
    <3>2. a \notin activeplats /\ a \notin activeceilings
      BY <1>1 DEF MoverInv, Pointers, PointersOf
    <3>3. activeplats' = activeplats \ {a} /\ activeceilings' = activeceilings \ {a}
      BY <2>7, <3>2
    <3> QED  BY <1>2, <2>6, <3>1, <3>3, MoverEnds
  <2>10. CASE r.res = "crushed" /\ mover[a].type # "close"
    <3>1. M!Goes(a, "up") /\ UNCHANGED specialdata
      BY <1>4, <2>1, <2>10 DEF M!T_VerticalDoor
    <3> QED  BY <1>1, <2>6, <2>7, <3>1, TurnGoes
  <2>11. CASE /\ ~(r.res = "pastdest" /\ M!DoorArrives(mover[a]) \in {"waits", "ends"})
              /\ ~(r.res = "crushed" /\ mover[a].type # "close")
    <3>1. UNCHANGED <<mover, specialdata>>
      BY <1>4, <2>1, <2>11 DEF M!T_VerticalDoor
    <3> QED  BY <2>6, <2>7, <3>1, NoMoverChanges
  <2> QED  BY <2>8, <2>9, <2>10, <2>11
<1> QED  BY <1>3, <1>4

\* A lift moves.
LEMMA LiftMoves ==
  ASSUME MoverInv, level' = level, NEW a \in Address, M!T_PlatRaise(a)
  PROVE  MoverInv'
<1>1. M!Turn(a) /\ mover[a].kind = "plat"
  BY DEF M!T_PlatRaise
<1>2. /\ Alive(mover, a) /\ MoverOK(mover[a]) /\ mover[a].thinker = "think" /\ mover[a] # M!Nothing
      /\ mover[a].wait \in Int
  BY <1>1, TurnOf DEF M!Turn, MoverRecord
<1>3. CASE M!Waits(a, IF floor[mover[a].sector] = mover[a].low THEN "up" ELSE "down")
  <2>1. PICK go \in {"up", "down"} : go = IF floor[mover[a].sector] = mover[a].low THEN "up" ELSE "down"
    OBVIOUS
  <2> QED  BY <1>1, <1>3, <2>1, WaitsKeeps
<1>4. CASE ~M!Waits(a, IF floor[mover[a].sector] = mover[a].low THEN "up" ELSE "down")
  <2>1. PICK s, dest, dir, r :
          /\ s = mover[a].sector /\ dest = (IF mover[a].status = "up" THEN mover[a].high ELSE mover[a].low)
          /\ dir = (IF mover[a].status = "up" THEN 1 ELSE -1)
          /\ r = M!FloorMove(s, dest, dir)
    OBVIOUS
  <2>2. floor' = [floor EXCEPT ![s] = r.at] /\ ceiling' = ceiling /\ activeceilings' = activeceilings
        /\ unset' = IF mover[a].type = "raise" /\ ~(mover[a].status = "up") THEN unset \cup {s} ELSE unset
    BY <1>4, <2>1 DEF M!T_PlatRaise
  <2>3. /\ s \in M!Sector /\ s \in Lifts /\ dest \in Int /\ dir \in {1, -1}
        /\ s \notin unset' => s \notin unset /\ dest <= ceiling[s]
    <3>1. CASE mover[a].status = "up"
      <4>1. dest = mover[a].high /\ dir = 1 /\ unset' = unset
        BY <2>1, <2>2, <3>1
      <4> QED  BY <1>1, <2>1, <4>1, BoundsOf
    <3>2. CASE mover[a].status # "up"
      <4>1. dest = mover[a].low /\ dir = -1
        BY <2>1, <3>2
      <4>2. s \notin unset' => s \notin unset /\ mover[a].type # "raise"
        BY <2>2, <3>2
      <4> QED  BY <1>1, <2>1, <4>1, <4>2, BoundsOf
    <3> QED  BY <3>1, <3>2
  <2>4. HeightsOK /\ unset' \in {unset, unset \cup {s}}
    BY <2>2 DEF MoverInv
  <2>5. r.at \in Int /\ (s \in unset' \/ r.at <= ceiling[s])
    BY <2>1, <2>3, <2>4, FloorMoveIs
  <2>6. HeightsKept
    BY <2>2, <2>3, <2>4, <2>5, FloorMoved
  <2>7. CASE r.res = "pastdest" /\ mover[a].status = "up" /\ mover[a].type # "perpetual"
    <3>1. M!Ends(a) /\ activeplats' = activeplats \ {a}
      BY <1>4, <2>1, <2>7 DEF M!T_PlatRaise
    <3>2. a \notin activeceilings
      BY <1>1 DEF MoverInv, Pointers, PointersOf
    <3>3. activeceilings' = activeceilings \ {a}
      BY <2>2, <3>2
    <3> QED  BY <1>2, <2>6, <3>1, <3>3, MoverEnds
  <2>8. CASE r.res = "pastdest" /\ ~(mover[a].status = "up" /\ mover[a].type # "perpetual")
    <3>1. M!Sets(a, Timed(mover[a], "wait", mover[a].wait)) /\ UNCHANGED <<specialdata, activeplats>>
      BY <1>4, <2>1, <2>8 DEF Timed, M!T_PlatRaise
    <3> QED  BY <1>1, <1>2, <2>2, <2>6, <3>1, TurnGoes
  <2>9. CASE r.res = "crushed" /\ mover[a].status = "up"
    <3>1. M!Sets(a, Timed(mover[a], "down", mover[a].wait)) /\ UNCHANGED <<specialdata, activeplats>>
      BY <1>4, <2>1, <2>9 DEF Timed, M!T_PlatRaise
    <3> QED  BY <1>1, <1>2, <2>2, <2>6, <3>1, TurnGoes
  <2>10. CASE r.res # "pastdest" /\ ~(r.res = "crushed" /\ mover[a].status = "up")
    <3>1. UNCHANGED <<mover, specialdata, activeplats>>
      BY <1>4, <2>1, <2>10 DEF M!T_PlatRaise
    <3> QED  BY <2>2, <2>6, <3>1, NoMoverChanges
  <2> QED  BY <2>7, <2>8, <2>9, <2>10
<1> QED  BY <1>3, <1>4

\* A crusher moves.
LEMMA CrusherMoves ==
  ASSUME MoverInv, level' = level, NEW a \in Address, M!T_MoveCeiling(a)
  PROVE  MoverInv'
<1>1. M!Turn(a) /\ mover[a].kind = "ceiling"
  BY DEF M!T_MoveCeiling
<1>2. Alive(mover, a) /\ MoverOK(mover[a]) /\ mover[a].thinker = "think" /\ mover[a] # M!Nothing
  BY <1>1, TurnOf DEF M!Turn
<1>3. PICK s, dest, dir, crush, r :
        /\ s = mover[a].sector /\ dest = (IF mover[a].status = "up" THEN mover[a].high ELSE mover[a].low)
        /\ dir = (IF mover[a].status = "up" THEN 1 ELSE -1)
        /\ crush = (mover[a].type = "crushAndRaise" /\ ~(mover[a].status = "up"))
        /\ r = M!CeilingMove(s, dest, dir, crush)
  BY Zenon
<1>4. ceiling' = [ceiling EXCEPT ![s] = r.at] /\ floor' = floor /\ unset' = unset /\ activeplats' = activeplats
  BY <1>3 DEF M!T_MoveCeiling
<1>5. s \in M!Sector /\ s \notin Lifts /\ dest \in Int /\ floor[s] <= dest /\ dir \in {1, -1}
  <2>1. CASE mover[a].status = "up"
    <3>1. dest = mover[a].high /\ dir = 1
      BY <1>3, <2>1
    <3> QED  BY <1>1, <1>3, <2>1, <3>1, BoundsOf
  <2>2. CASE mover[a].status # "up"
    <3>1. dest = mover[a].low /\ dir = -1
      BY <1>3, <2>2
    <3> QED  BY <1>1, <1>3, <2>2, <3>1, BoundsOf
  <2> QED  BY <2>1, <2>2
<1>6. HeightsOK
  BY DEF MoverInv
<1>7. r.at \in Int /\ floor[s] <= r.at
  BY <1>3, <1>5, <1>6, CeilingMoveIs
<1>8. HeightsKept
  BY <1>4, <1>5, <1>6, <1>7, CeilingMoved
<1>9. CASE r.res = "pastdest" /\ mover[a].type = "crushAndRaise"
  <2>1. PICK status \in {"up", "down"} : status = IF mover[a].status = "up" THEN "down" ELSE "up"
    OBVIOUS
  <2>2. M!Goes(a, status) /\ UNCHANGED <<specialdata, activeceilings>>
    BY <1>3, <1>9, <2>1 DEF M!T_MoveCeiling
  <2>3. UNCHANGED <<specialdata, activeplats, activeceilings>> /\ status \in {"up", "down", "wait"} /\ status # "wait"
    BY <1>4, <2>2
  <2> QED  BY <1>1, <1>8, <1>9, <2>2, <2>3, TurnGoes
<1>10. CASE r.res = "pastdest" /\ mover[a].type # "crushAndRaise" /\ a \in activeceilings
  <2>1. M!Ends(a) /\ activeceilings' = activeceilings \ {a}
    BY <1>3, <1>10 DEF M!T_MoveCeiling
  <2>2. a \notin activeplats
    BY <1>1 DEF MoverInv, Pointers, PointersOf
  <2>3. activeplats' = activeplats \ {a}
    BY <1>4, <2>2
  <2> QED  BY <1>2, <1>8, <2>1, <2>3, MoverEnds
<1>11. CASE r.res # "pastdest" \/ (mover[a].type # "crushAndRaise" /\ a \notin activeceilings)
  <2>1. UNCHANGED <<mover, specialdata, activeceilings>>
    BY <1>3, <1>11 DEF M!T_MoveCeiling
  <2> QED  BY <1>4, <1>8, <2>1, NoMoverChanges
<1> QED  BY <1>9, <1>10, <1>11

\* What was removed is freed.
LEMMA RemovedIsFreed ==
  ASSUME MoverInv, level' = level, NEW a \in Address, M!Free(a)
  PROVE  MoverInv'
<1>1. MoversOK /\ Pointers /\ HeightsOK
  BY DEF MoverInv
<1>2. /\ mover[a].thinker = "removed"
      /\ mover' \in [Address -> MoverRecord \cup {M!Nothing}] /\ mover'[a] = M!Nothing
      /\ \A b \in Address : b # a => mover'[b] = mover[b]
      /\ UNCHANGED <<specialdata, activeplats, activeceilings, M!heights>>
  BY DEF MoverInv, M!Free, M!Sets, M!tables
<1>3. HeightsKept
  BY <1>1, <1>2, NoHeightChanges
<1>4. MoversOK'
  BY <1>1, <1>2 DEF MoversOK
<1>5. ASSUME NEW b  PROVE Alive(mover', b) <=> Alive(mover, b)
  BY <1>2 DEF Alive
<1>6. ASSUME NEW b, Alive(mover, b)  PROVE mover'[b] = mover[b]
  BY <1>2, <1>6 DEF Alive
<1>7. Pointers'
  <2>1. PointersOf(mover, specialdata, activeplats, activeceilings)
    BY <1>1 DEF Pointers
  <2>2. PointersOf(mover', specialdata, activeplats, activeceilings)
    BY <1>5, <1>6, <2>1 DEF PointersOf
  <2> QED  BY <1>2, <2>2 DEF Pointers
<1>8. LiftsOK /\ unset' = unset
  BY <1>2 DEF MoverInv, M!heights
<1>9. LiftsOK'
  BY <1>2, <1>8 DEF LiftsOK
<1> QED  BY <1>2, <1>3, <1>4, <1>7, <1>9 DEF MoverInv, HeightsKept
-----------------------------------------------------------------------------
(* The lines.                                                               *)

\* The numbers of the level data.
LEMMA LevelNumbers ==
  /\ WaitTime \in Int /\ DoorTop \in Int /\ LowFloor \in Int /\ HighFloor \in Int /\ HighCeiling \in Int
  /\ Leftover \subseteq Int /\ ByHand \subseteq Doors \cup Lifts
  /\ CrushGap \in Nat /\ 0 \in Int
  /\ Doors \cap Lifts = {} /\ Doors \cap Crushers = {} /\ Lifts \cap Crushers = {}
  /\ \A s \in Doors : s \in M!Sector /\ InitFloor[s] <= DoorTop
  /\ \A s \in Lifts : s \in M!Sector /\ LowFloor <= InitCeiling[s] /\ HighFloor <= InitCeiling[s]
  /\ \A s \in Crushers : s \in M!Sector /\ InitFloor[s] <= HighCeiling
  /\ \A s \in M!Sector : InitFloor[s] \in Int /\ InitCeiling[s] \in Int
BY MoversAssumed DEF M!MoverAssumption, M!LevelAssumption, M!Sector

\* Heights stay where a line is used.
LEMMA LineLeaves ==
  ASSUME MoverInv, level' = level, M!Line
  PROVE  HeightsOK /\ HeightsKept /\ unset' = unset
<1>1. HeightsOK /\ UNCHANGED M!heights
  BY DEF MoverInv, M!Line
<1> QED  BY <1>1, NoHeightChanges DEF M!heights

\* A new door.
LEMMA NewDoor ==
  ASSUME MoverInv, HeightsKept, NEW s \in Doors, NEW type \in MoverType, NEW status \in {"up", "down"},
         NEW high \in Int, InitFloor[s] <= high,
         NEW a \in Address, M!New(a, M!Mover("door", type, s, status, WaitTime, 0, high)),
         UNCHANGED <<activeplats, activeceilings>>
  PROVE  MoverInv'
<1>1. PICK m : m = M!Mover("door", type, s, status, WaitTime, 0, high)
  OBVIOUS
<1>2. /\ m \in MoverRecord /\ m.kind = "door" /\ m.sector = s
      /\ m.status = status /\ m.thinker = "think" /\ m.high = high
  <2>1. s \in M!Sector /\ WaitTime \in Int
    BY LevelNumbers
  <2> QED  BY <1>1, <2>1 DEF M!Mover, MoverRecord
<1>3. MoverOK(m) /\ LiftOK(m, unset')
  BY <1>2 DEF MoverOK, LiftOK
<1>4. mover \in [Address -> MoverRecord \cup {M!Nothing}]
  BY DEF MoverInv
<1>5. /\ mover[a] = M!Nothing /\ mover'[a] = m /\ mover' \in [Address -> MoverRecord \cup {M!Nothing}]
      /\ \A b \in Address : b # a => mover'[b] = mover[b]
      /\ specialdata' = [specialdata EXCEPT ![m.sector] = a]
  BY <1>1, <1>2, <1>4 DEF M!New, M!Sets
<1>6. \A b \in Address : b # a => GoesOn(b)
  BY <1>5 DEF GoesOn
<1> QED  BY <1>2, <1>3, <1>5, <1>6, NewMover

\* A line opens or closes a door.
LEMMA DoDoorKeeps ==
  ASSUME MoverInv, level' = level, NEW s, NEW type \in MoverType, M!EV_DoDoor(s, type)
  PROVE  MoverInv'
<1>1. M!Line /\ s \in Doors /\ UNCHANGED <<activeplats, activeceilings>>
  BY DEF M!EV_DoDoor, M!tables
<1>2. HeightsOK /\ HeightsKept
  BY <1>1, LineLeaves
<1>3. s \in M!Sector /\ s \notin Lifts
  BY <1>1, LevelNumbers
<1>4. PICK a \in Address :
        M!New(a, IF type \in {"close", "close30ThenOpen"}
                   THEN M!Mover("door", type, s, "down", WaitTime, 0, IF type = "close" THEN DoorTop ELSE ceiling[s])
                   ELSE M!Mover("door", type, s, "up", WaitTime, 0, DoorTop))
  BY DEF M!EV_DoDoor
<1>5. PICK high : high = IF type = "close30ThenOpen" THEN ceiling[s] ELSE DoorTop
  OBVIOUS
<1>6. high \in Int /\ InitFloor[s] <= high
  <2>1. ceiling[s] \in Int /\ floor[s] <= ceiling[s] /\ floor[s] = InitFloor[s]
    BY <1>2, <1>3 DEF HeightsOK
  <2>2. DoorTop \in Int /\ InitFloor[s] <= DoorTop
    BY <1>1, LevelNumbers
  <2> QED  BY <1>5, <2>1, <2>2
<1>7. CASE type \in {"close", "close30ThenOpen"}
  <2>1. M!New(a, M!Mover("door", type, s, "down", WaitTime, 0, high))
    BY <1>4, <1>5, <1>7
  <2> QED  BY <1>1, <1>2, <1>6, <2>1, NewDoor
<1>8. CASE type \notin {"close", "close30ThenOpen"}
  <2>1. M!New(a, M!Mover("door", type, s, "up", WaitTime, 0, high))
    BY <1>4, <1>5, <1>8
  <2> QED  BY <1>1, <1>2, <1>6, <2>1, NewDoor
<1> QED  BY <1>7, <1>8

\* A door or lift that moves is turned back, or spoilt, by hand.
LEMMA TurnedBack ==
  ASSUME MoverInv, HeightsKept, NEW a \in Address, Alive(mover, a), NEW m,
         M!Sets(a, m), Retimed(mover[a], m),
         m.status = mover[a].status \/ (mover[a].kind = "door" /\ m.status # "stasis"),
         UNCHANGED <<specialdata, activeplats, activeceilings>>
  PROVE  MoverInv'
<1>1. MoverOK(mover[a]) /\ mover[a] # M!Nothing
  BY DEF MoverInv, MoversOK, Alive
<1>2. MoverOK(m) /\ SameShape(m, mover[a])
  <2>1. CASE m.status = mover[a].status
    BY <1>1, <2>1, RetimedOK
  <2>2. CASE mover[a].kind = "door" /\ m.status # "stasis"
    <3>1. mover[a].thinker # "none" /\ mover[a].kind # "ceiling"
      BY <1>1, <2>2 DEF MoverOK
    <3> QED  BY <1>1, <2>2, <3>1, RetimedOK
  <2> QED  BY <2>1, <2>2
<1> QED  BY <1>1, <1>2, OneGoesOn

\* A door is used by hand.
LEMMA ByHandKeeps ==
  ASSUME MoverInv, level' = level, NEW s, NEW type \in MoverType, NEW player, M!EV_VerticalDoor(s, type, player)
  PROVE  MoverInv'
<1>1. M!Line /\ s \in Doors \cup Lifts /\ UNCHANGED <<activeplats, activeceilings>>
  BY LevelNumbers DEF M!EV_VerticalDoor, M!tables
<1>2. HeightsKept
  BY <1>1, LineLeaves
<1>3. s \in M!Sector
  BY <1>1, LevelNumbers
<1>4. PICK d : d = specialdata[s]
  OBVIOUS
<1>5. CASE d # M!Null /\ type = "normal"
  <2>1. Alive(mover, d) /\ d \in Address
    BY <1>3, <1>4, <1>5 DEF MoverInv, Pointers, PointersOf, Alive
  <2>2. mover[d] \in MoverRecord
    BY <2>1 DEF MoverInv, MoversOK, MoverOK, Alive
  <2>3. /\ UNCHANGED specialdata
        /\ \/ mover[d].kind = "door" /\ (M!Goes(d, "up") \/ M!Goes(d, "down"))
           \/ M!AsADoor(d, player)
           \/ UNCHANGED mover
    BY <1>4, <1>5 DEF M!EV_VerticalDoor
  <2>4. CASE mover[d].kind = "door" /\ (M!Goes(d, "up") \/ M!Goes(d, "down"))
    <3>1. PICK status \in {"up", "down"} : M!Goes(d, status)
      BY <2>4
    <3>2. status \in {"up", "down", "wait", "stasis"} /\ status # "stasis"
      OBVIOUS
    <3>3. PICK m : m = [mover[d] EXCEPT !.status = status]
      OBVIOUS
    <3>4. Retimed(mover[d], m) /\ m.status = status
      BY <2>2, <3>2, <3>3, NewStatus
    <3>5. M!Sets(d, m)
      BY <3>1, <3>3 DEF M!Goes
    <3> QED  BY <1>1, <1>2, <2>1, <2>3, <2>4, <3>2, <3>4, <3>5, TurnedBack
  <2>5. CASE M!AsADoor(d, player)
    <3>1. \/ M!Sets(d, [mover[d] EXCEPT !.wait = -1])
          \/ \E c \in {1, -1} : M!Sets(d, [mover[d] EXCEPT !.count = c])
          \/ UNCHANGED mover
      BY <2>5 DEF M!AsADoor
    <3>2. CASE M!Sets(d, [mover[d] EXCEPT !.wait = -1])
      <4>1. PICK w \in Int : w = -1
        OBVIOUS
      <4>2. PICK m : m = [mover[d] EXCEPT !.wait = w]
        OBVIOUS
      <4>3. Retimed(mover[d], m) /\ m.status = mover[d].status
        BY <2>2, <4>2, NewWait
      <4>4. M!Sets(d, m)
        BY <3>2, <4>1, <4>2
      <4> QED  BY <1>1, <1>2, <2>1, <2>3, <4>3, <4>4, TurnedBack
    <3>3. CASE \E c \in {1, -1} : M!Sets(d, [mover[d] EXCEPT !.count = c])
      <4>1. PICK c \in {1, -1} : M!Sets(d, [mover[d] EXCEPT !.count = c])
        BY <3>3
      <4>2. PICK m : m = [mover[d] EXCEPT !.count = c]
        OBVIOUS
      <4>3. c \in Int
        OBVIOUS
      <4>4. Retimed(mover[d], m) /\ m.status = mover[d].status
        BY <2>2, <4>2, <4>3, NewCount
      <4>5. M!Sets(d, m)
        BY <4>1, <4>2
      <4> QED  BY <1>1, <1>2, <2>1, <2>3, <4>4, <4>5, TurnedBack
    <3> QED  BY <1>1, <1>2, <2>3, <3>1, <3>2, <3>3, NoMoverChanges
  <2>6. CASE UNCHANGED mover
    BY <1>1, <1>2, <2>3, <2>6, NoMoverChanges
  <2> QED  BY <2>3, <2>4, <2>5, <2>6
<1>6. CASE ~(d # M!Null /\ type = "normal")
  <2>1. s \in Doors /\ \E a \in Address : M!New(a, M!Mover("door", type, s, "up", WaitTime, 0, DoorTop))
    BY <1>4, <1>6 DEF M!EV_VerticalDoor
  <2>2. PICK a \in Address : M!New(a, M!Mover("door", type, s, "up", WaitTime, 0, DoorTop))
    BY <2>1
  <2>3. DoorTop \in Int /\ InitFloor[s] <= DoorTop
    BY <2>1, LevelNumbers
  <2> QED  BY <1>1, <1>2, <2>1, <2>2, <2>3, NewDoor
<1> QED  BY <1>5, <1>6

\* What was in stasis is woken, of the kind that is asked for.
LEMMA WokenIs ==
  ASSUME MoverInv, NEW kind
  PROVE  /\ M!Woken(kind) \in [Address -> MoverRecord \cup {M!Nothing}]
         /\ \A a \in Address : \/ M!Woken(kind)[a] = mover[a]
                               \/ /\ mover[a] # M!Nothing /\ MoverOK(M!Woken(kind)[a])
                                  /\ SameShape(M!Woken(kind)[a], mover[a])
<1>1. mover \in [Address -> MoverRecord \cup {M!Nothing}] /\ MoversOK
  BY DEF MoverInv
<1>2. ASSUME NEW a \in Address
      PROVE  /\ M!Woken(kind)[a] \in MoverRecord \cup {M!Nothing}
             /\ \/ M!Woken(kind)[a] = mover[a]
                \/ /\ mover[a] # M!Nothing /\ MoverOK(M!Woken(kind)[a])
                   /\ SameShape(M!Woken(kind)[a], mover[a])
  <2>1. CASE mover[a] # M!Nothing /\ mover[a].kind = kind /\ mover[a].status = "stasis"
    <3>1. PICK x : x = mover[a] /\ MoverOK(x) /\ x \in MoverRecord
      BY <1>1, <2>1 DEF MoversOK, MoverOK
    <3>2. PICK n : n = [x EXCEPT !.status = x.old, !.old = "none", !.thinker = "think"]
      OBVIOUS
    <3>3. M!Woken(kind)[a] = n
      BY <2>1, <3>1, <3>2 DEF M!Woken
    <3>4. PICK y : y = [x EXCEPT !.status = x.old]
      OBVIOUS
    <3>5. x.old \in {"up", "down", "wait"}
      BY <2>1, <3>1 DEF MoverOK, MoverRecord
    <3>6. y \in MoverRecord
      BY <3>1, <3>4, <3>5 DEF MoverRecord
    <3>7. PICK z : z = [y EXCEPT !.old = "none"]
      OBVIOUS
    <3>8. z \in MoverRecord
      BY <3>6, <3>7 DEF MoverRecord
    <3>9. n = [z EXCEPT !.thinker = "think"]
      BY <3>1, <3>2, <3>4, <3>7, Zenon DEF MoverRecord
    <3>10. n \in MoverRecord
      BY <3>8, <3>9 DEF MoverRecord
    <3>11. /\ n.kind = x.kind /\ n.type = x.type /\ n.sector = x.sector /\ n.status = x.old /\ n.old = "none"
           /\ n.low = x.low /\ n.high = x.high /\ n.thinker = "think"
      BY <3>1, <3>2 DEF MoverRecord
    <3>12. x.thinker = "none" /\ x.kind # "door"
      BY <2>1, <3>1 DEF MoverOK
    <3>13. SameShape(n, x)
      BY <3>11, <3>12 DEF SameShape
    <3>14. MoverOK(n)
      <4>1. CASE x.kind = "ceiling"
        BY <3>1, <3>5, <3>10, <3>11, <4>1 DEF MoverOK
      <4>2. CASE x.kind # "ceiling"
        BY <3>1, <3>5, <3>10, <3>11, <3>12, <4>2 DEF MoverOK
      <4> QED  BY <4>1, <4>2
    <3> QED  BY <2>1, <3>1, <3>3, <3>10, <3>13, <3>14
  <2>2. CASE ~(mover[a] # M!Nothing /\ mover[a].kind = kind /\ mover[a].status = "stasis")
    BY <1>1, <2>2 DEF M!Woken
  <2> QED  BY <2>1, <2>2
<1>3. M!Woken(kind) = [a \in Address |-> M!Woken(kind)[a]]
  BY DEF M!Woken
<1> QED  BY <1>2, <1>3

\* A mover is started in a sector that nothing moves, while others may be woken.
Starts(woken, a, m) ==
  /\ a \in Address /\ mover[a] = M!Nothing /\ m.thinker = "think"
  /\ mover' = [woken EXCEPT ![a] = m]
  /\ specialdata[m.sector] = M!Null /\ specialdata' = [specialdata EXCEPT ![m.sector] = a]
  /\ activeplats' = activeplats \/ (m.kind = "plat" /\ activeplats' = activeplats \cup {a})
  /\ activeceilings' = activeceilings \/ (m.kind = "ceiling" /\ activeceilings' = activeceilings \cup {a})

\* A new lift or crusher.
LEMMA NewLiftOrCrusher ==
  ASSUME MoverInv, HeightsKept, NEW kind, NEW woken, woken \in {mover, M!Woken(kind)},
         NEW a, NEW m, MoverOK(m), LiftOK(m, unset'), Starts(woken, a, m)
  PROVE  MoverInv'
<1> USE DEF Starts
<1>1. /\ woken \in [Address -> MoverRecord \cup {M!Nothing}]
      /\ \A b \in Address : \/ woken[b] = mover[b]
                            \/ mover[b] # M!Nothing /\ MoverOK(woken[b]) /\ SameShape(woken[b], mover[b])
  <2>1. mover \in [Address -> MoverRecord \cup {M!Nothing}]
    BY DEF MoverInv
  <2>2. CASE woken = mover
    BY <2>1, <2>2
  <2>3. CASE woken = M!Woken(kind)
    BY <2>3, WokenIs
  <2> QED  BY <2>2, <2>3
<1>2. m \in MoverRecord
  BY DEF MoverOK
<1>3. /\ mover'[a] = m /\ mover' \in [Address -> MoverRecord \cup {M!Nothing}]
      /\ \A b \in Address : b # a => mover'[b] = woken[b]
  BY <1>1, <1>2
<1>4. \A b \in Address : b # a => GoesOn(b)
  BY <1>1, <1>3 DEF GoesOn
<1> QED  BY <1>3, <1>4, NewMover

\* Movers of one kind are woken, and nothing else happens to them.
LEMMA WokenOnly ==
  ASSUME MoverInv, HeightsKept, NEW kind, NEW woken, woken \in {mover, M!Woken(kind)},
         mover' = woken, UNCHANGED <<specialdata, activeplats, activeceilings>>
  PROVE  MoverInv'
<1>1. CASE woken = mover
  BY <1>1, NoMoverChanges
<1>2. CASE woken = M!Woken(kind)
  <2>1. mover' \in [Address -> MoverRecord \cup {M!Nothing}]
    BY <1>2, WokenIs
  <2>2. \A b \in Address : GoesOn(b)
    BY <1>2, WokenIs DEF GoesOn
  <2> QED  BY <2>1, <2>2, GoingOn
<1> QED  BY <1>1, <1>2

\* Lesser and greater numbers.
LEMMA MinimumMaximum ==
  ASSUME NEW x \in Int, NEW y \in Int
  PROVE  /\ M!Minimum(x, y) \in Int /\ M!Minimum(x, y) <= x /\ M!Minimum(x, y) <= y
         /\ M!Maximum(x, y) \in {x, y} /\ M!Maximum(x, y) \in Int
BY DEF M!Minimum, M!Maximum

\* A new lift stays below the ceiling, but for a low that is not set.
LEMMA NewPlatOK ==
  ASSUME HeightsOK, NEW s \in Lifts, NEW type \in {"perpetual", "downWaitUpStay", "raise"}, NEW status \in {"up", "down"},
         NEW low \in Leftover
  PROVE  /\ MoverOK(M!NewPlat(s, type, status, low)) /\ LiftOK(M!NewPlat(s, type, status, low), unset)
         /\ M!NewPlat(s, type, status, low).kind = "plat" /\ M!NewPlat(s, type, status, low).sector = s
         /\ M!NewPlat(s, type, status, low).thinker = "think"
<1>1. /\ s \in M!Sector /\ LowFloor \in Int /\ HighFloor \in Int /\ WaitTime \in Int /\ low \in Int
      /\ LowFloor <= InitCeiling[s] /\ HighFloor <= InitCeiling[s] /\ InitCeiling[s] \in Int
  BY LevelNumbers
<1>2. PICK f, c : f = floor[s] /\ f \in Int /\ c = InitCeiling[s] /\ c \in Int /\ (s \notin unset => f <= c)
  BY <1>1 DEF HeightsOK
<1>3. PICK x : x = M!Minimum(LowFloor, f) /\ x \in Int /\ x <= c
  <2>1. M!Minimum(LowFloor, f) \in Int /\ M!Minimum(LowFloor, f) <= LowFloor
    BY <1>1, <1>2, MinimumMaximum
  <2> QED  BY <1>1, <1>2, <2>1
<1>4. PICK y : y = M!Maximum(HighFloor, f) /\ y \in Int /\ (s \notin unset => y <= c)
  <2>1. M!Maximum(HighFloor, f) \in {HighFloor, f}
    BY <1>1, <1>2, MinimumMaximum
  <2> QED  BY <1>1, <1>2, <2>1
<1>5. PICK z : z = M!NextFloor(f) /\ z \in Int /\ (s \notin unset => z <= c)
  <2>1. M!NextFloor(f) \in {LowFloor, y}
    BY <1>4 DEF M!NextFloor
  <2> QED  BY <1>1, <1>2, <1>4, <2>1
<1>6. PICK st \in {"up", "down"}, w \in Int, lo \in Int, hi \in Int :
        /\ M!NewPlat(s, type, status, low) = M!Mover("plat", type, s, st, w, lo, hi)
        /\ s \notin unset => hi <= c /\ (type # "raise" => lo <= c)
  <2>1. CASE type = "perpetual"
    <3>1. M!NewPlat(s, type, status, low) = M!Mover("plat", type, s, status, WaitTime, x, y)
      BY <1>2, <1>3, <1>4, <2>1 DEF M!NewPlat
    <3> QED  BY <1>1, <1>3, <1>4, <3>1
  <2>2. CASE type = "downWaitUpStay"
    <3>1. M!NewPlat(s, type, status, low) = M!Mover("plat", type, s, "down", WaitTime, x, f)
      BY <1>2, <1>3, <2>2 DEF M!NewPlat
    <3> QED  BY <1>1, <1>2, <1>3, <3>1
  <2>3. CASE type # "perpetual" /\ type # "downWaitUpStay"
    <3>1. M!NewPlat(s, type, status, low) = M!Mover("plat", type, s, "up", 0, low, z)
      BY <1>2, <1>5, <2>3 DEF M!NewPlat
    <3>2. low \in Int /\ 0 \in Int /\ type = "raise"
      BY <1>1, <2>3
    <3> QED  BY <1>5, <3>1, <3>2
  <2> QED  BY <2>1, <2>2, <2>3
<1>7. PICK m : m = M!NewPlat(s, type, status, low)
  OBVIOUS
<1>8. /\ m \in MoverRecord /\ m.kind = "plat" /\ m.sector = s /\ m.status = st /\ m.type = type
      /\ m.low = lo /\ m.high = hi /\ m.thinker = "think"
  BY <1>1, <1>6, <1>7 DEF M!Mover, MoverRecord, MoverType
<1>9. MoverOK(m)
  BY <1>8 DEF MoverOK
<1>10. LiftOK(m, unset)
  BY <1>2, <1>6, <1>8 DEF LiftOK
<1> QED  BY <1>7, <1>8, <1>9, <1>10

\* A new crusher stays above the floor.
LEMMA NewCeilingOK ==
  ASSUME HeightsOK, NEW s \in Crushers, NEW type \in MoverType
  PROVE  /\ MoverOK(M!NewCeiling(s, type)) /\ LiftOK(M!NewCeiling(s, type), unset)
         /\ M!NewCeiling(s, type).kind = "ceiling" /\ M!NewCeiling(s, type).sector = s
         /\ M!NewCeiling(s, type).thinker = "think"
<1>1. /\ s \in M!Sector /\ s \notin Lifts /\ HighCeiling \in Int /\ CrushGap \in Nat /\ 0 \in Int
      /\ InitFloor[s] <= HighCeiling /\ InitFloor[s] \in Int
  BY LevelNumbers
<1>2. floor[s] \in Int /\ ceiling[s] \in Int /\ floor[s] <= ceiling[s] /\ floor[s] = InitFloor[s]
  BY <1>1 DEF HeightsOK
<1>3. PICK x : x = floor[s] + CrushGap /\ x \in Int /\ InitFloor[s] <= x
  <2>1. floor[s] + CrushGap \in Int /\ InitFloor[s] <= floor[s] + CrushGap
    BY <1>1, <1>2
  <2> QED  BY <2>1
<1>4. PICK st \in {"up", "down"}, lo \in Int, hi \in Int :
        /\ M!NewCeiling(s, type) = M!Mover("ceiling", type, s, st, 0, lo, hi)
        /\ type = "crushAndRaise" \/ st = "up" => InitFloor[s] <= hi
        /\ type = "crushAndRaise" \/ st = "down" => InitFloor[s] <= lo
  <2>1. CASE type = "crushAndRaise"
    <3>1. M!NewCeiling(s, type) = M!Mover("ceiling", type, s, "down", 0, x, ceiling[s])
      BY <1>3, <2>1 DEF M!NewCeiling
    <3>2. InitFloor[s] <= ceiling[s]
      BY <1>2
    <3> QED  BY <1>2, <1>3, <3>1, <3>2
  <2>2. CASE type = "lowerToFloor"
    <3>1. M!NewCeiling(s, type) = M!Mover("ceiling", type, s, "down", 0, floor[s], 0)
      BY <2>2 DEF M!NewCeiling
    <3>2. InitFloor[s] <= floor[s] /\ type # "crushAndRaise"
      BY <1>1, <1>2, <2>2
    <3> QED  BY <1>1, <1>2, <3>1, <3>2
  <2>3. CASE type # "crushAndRaise" /\ type # "lowerToFloor"
    <3>1. M!NewCeiling(s, type) = M!Mover("ceiling", type, s, "up", 0, 0, HighCeiling)
      BY <2>3 DEF M!NewCeiling
    <3> QED  BY <1>1, <2>3, <3>1
  <2> QED  BY <2>1, <2>2, <2>3
<1>5. PICK m : m = M!NewCeiling(s, type)
  OBVIOUS
<1>6. /\ m \in MoverRecord /\ m.kind = "ceiling" /\ m.sector = s /\ m.status = st /\ m.old = "none"
      /\ m.low = lo /\ m.high = hi /\ m.thinker = "think" /\ m.type = type
  BY <1>1, <1>4, <1>5 DEF M!Mover, MoverRecord
<1>7. MoverOK(m) /\ LiftOK(m, unset)
  BY <1>1, <1>4, <1>6 DEF MoverOK, LiftOK
<1> QED  BY <1>5, <1>6, <1>7

\* A line starts a lift.
LEMMA DoPlatKeeps ==
  ASSUME MoverInv, level' = level, NEW s, NEW type \in {"perpetual", "downWaitUpStay", "raise"},
         M!EV_DoPlat(s, type)
  PROVE  MoverInv'
<1>1. M!Line /\ s \in Lifts /\ activeceilings' = activeceilings
  BY DEF M!EV_DoPlat
<1>2. HeightsOK /\ HeightsKept /\ unset' = unset
  BY <1>1, LineLeaves
<1>3. PICK woken : woken = IF type = "perpetual" THEN M!Woken("plat") ELSE mover
  OBVIOUS
<1>4. woken \in {mover, M!Woken("plat")}
  BY <1>3
<1>5. CASE specialdata[s] # M!Null
  <2>1. mover' = woken /\ UNCHANGED <<specialdata, activeplats>>
    BY <1>3, <1>5 DEF M!EV_DoPlat
  <2> QED  BY <1>1, <1>2, <1>4, <2>1, WokenOnly
<1>6. CASE specialdata[s] = M!Null
  <2>1. PICK a \in Address, status \in {"up", "down"}, low \in Leftover :
          /\ mover[a] = M!Nothing /\ mover' = [woken EXCEPT ![a] = M!NewPlat(s, type, status, low)]
          /\ specialdata' = [specialdata EXCEPT ![s] = a]
          /\ activeplats' = activeplats \/ activeplats' = activeplats \cup {a}
    BY <1>3, <1>6 DEF M!EV_DoPlat
  <2>2. PICK m : m = M!NewPlat(s, type, status, low)
    OBVIOUS
  <2>3. MoverOK(m) /\ LiftOK(m, unset') /\ m.kind = "plat" /\ m.sector = s /\ m.thinker = "think"
    BY <1>1, <1>2, <2>2, NewPlatOK
  <2>4. /\ mover' = [woken EXCEPT ![a] = m] /\ specialdata[m.sector] = M!Null
        /\ specialdata' = [specialdata EXCEPT ![m.sector] = a]
        /\ activeplats' = activeplats \/ (m.kind = "plat" /\ activeplats' = activeplats \cup {a})
    BY <1>6, <2>1, <2>2, <2>3
  <2>5. mover[a] = M!Nothing
    BY <2>1
  <2>6. /\ activeplats' = activeplats \/ (m.kind = "plat" /\ activeplats' = activeplats \cup {a})
        /\ activeceilings' = activeceilings \/ (m.kind = "ceiling" /\ activeceilings' = activeceilings \cup {a})
    BY <1>1, <2>4
  <2>7. Starts(woken, a, m)
    BY <2>3, <2>4, <2>5, <2>6 DEF Starts
  <2> QED  BY <1>2, <1>4, <2>3, <2>7, NewLiftOrCrusher
<1> QED  BY <1>5, <1>6

\* A line starts a crusher.
LEMMA DoCeilingKeeps ==
  ASSUME MoverInv, level' = level, NEW s, NEW type \in MoverType, M!EV_DoCeiling(s, type)
  PROVE  MoverInv'
<1>1. M!Line /\ s \in Crushers /\ activeplats' = activeplats
  BY DEF M!EV_DoCeiling
<1>2. HeightsOK /\ HeightsKept /\ unset' = unset
  BY <1>1, LineLeaves
<1>3. PICK woken : woken = IF type = "crushAndRaise" THEN M!Woken("ceiling") ELSE mover
  OBVIOUS
<1>4. woken \in {mover, M!Woken("ceiling")}
  BY <1>3
<1>5. CASE specialdata[s] # M!Null
  <2>1. mover' = woken /\ UNCHANGED <<specialdata, activeceilings>>
    BY <1>3, <1>5 DEF M!EV_DoCeiling
  <2> QED  BY <1>1, <1>2, <1>4, <2>1, WokenOnly
<1>6. CASE specialdata[s] = M!Null
  <2>1. PICK a \in Address :
          /\ mover[a] = M!Nothing /\ mover' = [woken EXCEPT ![a] = M!NewCeiling(s, type)]
          /\ specialdata' = [specialdata EXCEPT ![s] = a]
          /\ activeceilings' = activeceilings \/ activeceilings' = activeceilings \cup {a}
    BY <1>3, <1>6 DEF M!EV_DoCeiling
  <2>2. PICK m : m = M!NewCeiling(s, type)
    OBVIOUS
  <2>3. MoverOK(m) /\ LiftOK(m, unset') /\ m.kind = "ceiling" /\ m.sector = s /\ m.thinker = "think"
    BY <1>1, <1>2, <2>2, NewCeilingOK
  <2>4. /\ mover' = [woken EXCEPT ![a] = m] /\ specialdata[m.sector] = M!Null
        /\ specialdata' = [specialdata EXCEPT ![m.sector] = a]
        /\ activeceilings' = activeceilings \/ (m.kind = "ceiling" /\ activeceilings' = activeceilings \cup {a})
    BY <1>6, <2>1, <2>2, <2>3
  <2>5. mover[a] = M!Nothing
    BY <2>1
  <2>6. /\ activeplats' = activeplats \/ (m.kind = "plat" /\ activeplats' = activeplats \cup {a})
        /\ activeceilings' = activeceilings \/ (m.kind = "ceiling" /\ activeceilings' = activeceilings \cup {a})
    BY <1>1, <2>4
  <2>7. Starts(woken, a, m)
    BY <2>3, <2>4, <2>5, <2>6 DEF Starts
  <2> QED  BY <1>2, <1>4, <2>3, <2>7, NewLiftOrCrusher
<1> QED  BY <1>5, <1>6

\* What is in a table is put in stasis.
LEMMA StopKeeps ==
  ASSUME MoverInv, level' = level, NEW table \in {activeplats, activeceilings}, M!Stop(table)
  PROVE  MoverInv'
<1>1. /\ M!Line /\ UNCHANGED <<specialdata, activeplats, activeceilings>>
      /\ mover' = [a \in Address |->
                     IF a \in table /\ mover[a].status # "stasis"
                       THEN [mover[a] EXCEPT !.old = mover[a].status, !.status = "stasis", !.thinker = "none"]
                       ELSE mover[a]]
  BY DEF M!Stop, M!tables
<1>2. HeightsKept
  BY <1>1, LineLeaves
<1>3. MoversOK /\ Pointers /\ mover \in [Address -> MoverRecord \cup {M!Nothing}]
  BY DEF MoverInv
<1>4. ASSUME NEW a \in Address  PROVE GoesOn(a) /\ mover'[a] \in MoverRecord \cup {M!Nothing}
  <2>1. CASE a \in table /\ mover[a].status # "stasis"
    <3>1. Alive(mover, a) /\ mover[a].kind \in {"plat", "ceiling"}
      BY <1>3, <2>1 DEF Pointers, PointersOf
    <3>2. PICK x : x = mover[a] /\ MoverOK(x) /\ x \in MoverRecord
      BY <1>3, <3>1 DEF MoversOK, MoverOK, Alive
    <3>3. x.status \in {"up", "down", "wait"} /\ x.thinker # "removed"
      BY <2>1, <3>1, <3>2 DEF MoverRecord, Alive
    <3>4. PICK n : n = [x EXCEPT !.old = x.status, !.status = "stasis", !.thinker = "none"]
      OBVIOUS
    <3>5. mover'[a] = n
      BY <1>1, <2>1, <3>2, <3>4
    <3>6. PICK y : y = [x EXCEPT !.old = x.status]
      OBVIOUS
    <3>7. y \in MoverRecord
      BY <3>2, <3>3, <3>6 DEF MoverRecord
    <3>8. PICK z : z = [y EXCEPT !.status = "stasis"]
      OBVIOUS
    <3>9. z \in MoverRecord
      BY <3>7, <3>8 DEF MoverRecord
    <3>10. n = [z EXCEPT !.thinker = "none"]
      BY <3>2, <3>4, <3>6, <3>8, Zenon DEF MoverRecord
    <3>11. n \in MoverRecord
      BY <3>9, <3>10 DEF MoverRecord
    <3>12. /\ n.kind = x.kind /\ n.type = x.type /\ n.sector = x.sector /\ n.status = "stasis" /\ n.old = x.status
           /\ n.low = x.low /\ n.high = x.high /\ n.thinker = "none"
      BY <3>2, <3>4 DEF MoverRecord
    <3>13. SameShape(n, x)
      BY <3>3, <3>12 DEF SameShape
    <3>14. MoverOK(n)
      <4>1. CASE x.kind = "ceiling"
        BY <3>2, <3>3, <3>11, <3>12, <4>1 DEF MoverOK
      <4>2. CASE x.kind = "plat"
        BY <3>2, <3>3, <3>11, <3>12, <4>2 DEF MoverOK
      <4> QED  BY <3>1, <3>2, <4>1, <4>2
    <3> QED  BY <3>1, <3>2, <3>5, <3>11, <3>13, <3>14 DEF GoesOn, Alive
  <2>2. CASE ~(a \in table /\ mover[a].status # "stasis")
    <3>1. mover'[a] = mover[a]
      BY <1>1, <2>2
    <3> QED  BY <1>3, <3>1 DEF GoesOn
  <2> QED  BY <2>1, <2>2
<1>5. mover' \in [Address -> MoverRecord \cup {M!Nothing}]
  <2>1. mover' = [a \in Address |-> mover'[a]]
    BY <1>1
  <2> QED  BY <1>4, <2>1
<1> QED  BY <1>1, <1>2, <1>4, <1>5, GoingOn
-----------------------------------------------------------------------------
(* Things, the savegame, and every step.                                    *)

\* A game is saved and loaded again.
LEMMA ReloadKeeps ==
  ASSUME MoverInv, level' = level, M!Reload
  PROVE  MoverInv'
<1>1. MoversOK /\ Pointers /\ HeightsOK /\ mover \in [Address -> MoverRecord \cup {M!Nothing}]
  BY DEF MoverInv
<1>2. /\ mover' = [a \in Address |-> IF a \in M!Archived THEN mover[a] ELSE M!Nothing]
      /\ specialdata' \in [M!Sector -> M!Archived \cup {M!Null}]
      /\ \A s \in M!Sector : IF \E a \in M!Archived : mover[a].sector = s
                                THEN specialdata'[s] # M!Null /\ mover[specialdata'[s]].sector = s
                                ELSE specialdata'[s] = M!Null
      /\ \A a \in activeplats' : a \in M!Archived /\ mover[a].kind = "plat"
      /\ \A a \in activeceilings' : a \in M!Archived /\ mover[a].kind = "ceiling"
      /\ UNCHANGED M!heights
  BY DEF M!Reload
<1>3. \A a \in M!Archived : Alive(mover, a) /\ a \in Address
  BY DEF M!Archived, M!Live, M!Used, Alive
<1>4. /\ mover' \in [Address -> MoverRecord \cup {M!Nothing}]
      /\ \A a \in M!Archived : mover'[a] = mover[a]
      /\ \A a \in Address : a \notin M!Archived => mover'[a] = M!Nothing
  BY <1>1, <1>2, <1>3
<1>5. HeightsKept
  BY <1>1, <1>2, NoHeightChanges
<1>6. MoversOK'
  BY <1>1, <1>4 DEF MoversOK
<1>7. \A a : Alive(mover', a) <=> a \in M!Archived
  BY <1>3, <1>4 DEF Alive
<1>8. specialdata' \in [M!Sector -> Address \cup {M!Null}]
  BY <1>2, <1>3
<1>9. ASSUME NEW a \in M!Archived, mover[a].sector \notin Doors
      PROVE  specialdata'[mover[a].sector] = a
  <2>1. mover[a].sector \in M!Sector
    BY <1>1, <1>3, AliveIs, SomeMover
  <2>2. PICK b : b = specialdata'[mover[a].sector] /\ b # M!Null /\ b \in M!Archived
                 /\ mover[b].sector = mover[a].sector
    BY <1>2, <2>1
  <2>3. specialdata[mover[a].sector] = a /\ specialdata[mover[b].sector] = b
    BY <1>1, <1>3, <1>9, <2>2 DEF Pointers, PointersOf
  <2> QED  BY <2>2, <2>3
<1>10. PointersOf(mover', specialdata', activeplats', activeceilings')
  <2>1. ASSUME NEW s \in M!Sector, specialdata'[s] # M!Null
        PROVE  Alive(mover', specialdata'[s]) /\ mover'[specialdata'[s]].sector = s
    <3>1. specialdata'[s] \in M!Archived /\ mover[specialdata'[s]].sector = s
      BY <1>2, <2>1
    <3> QED  BY <1>4, <1>7, <3>1
  <2>2. ASSUME NEW a \in Address, Alive(mover', a), mover'[a].sector \notin Doors
        PROVE  specialdata'[mover'[a].sector] = a
    <3>1. a \in M!Archived /\ mover'[a] = mover[a]
      BY <1>4, <1>7, <2>2
    <3> QED  BY <1>9, <2>2, <3>1
  <2>3. \A a \in activeplats' : Alive(mover', a) /\ mover'[a].kind = "plat"
    BY <1>2, <1>4, <1>7
  <2>4. \A a \in activeceilings' : Alive(mover', a) /\ mover'[a].kind = "ceiling"
    BY <1>2, <1>4, <1>7
  <2> QED  BY <2>1, <2>2, <2>3, <2>4 DEF PointersOf
<1>11. Pointers'
  BY <1>10 DEF Pointers
<1>12. LiftsOK /\ unset' = unset
  BY <1>2 DEF MoverInv, M!heights
<1>13. LiftsOK'
  BY <1>4, <1>12 DEF LiftsOK
<1> QED  BY <1>4, <1>5, <1>6, <1>8, <1>11, <1>13 DEF MoverInv, HeightsKept

\* No step of the movers breaks the invariant.
LEMMA MoverStep ==
  ASSUME MoverInv, [M!Next]_M!vars
  PROVE  MoverInv'
<1>1. CASE UNCHANGED M!vars
  <2>1. UNCHANGED <<level, M!heights, specialdata, mover, activeplats, activeceilings>>
    BY <1>1 DEF M!vars, M!tables
  <2>2. HeightsKept
    BY <2>1, NoHeightChanges DEF MoverInv
  <2> QED  BY <2>1, <2>2, NoMoverChanges
<1>2. CASE M!Next
  <2>1. level' = level /\ M!Step
    BY <1>2 DEF M!Next
  <2>2. ASSUME NEW a \in Address, M!Think(a)  PROVE MoverInv'
    BY <2>1, <2>2, DoorMoves, LiftMoves, CrusherMoves, RemovedIsFreed DEF M!Think
  <2>3. ASSUME NEW s, NEW type \in {"normal", "open", "close", "close30ThenOpen"}, M!EV_DoDoor(s, type)
        PROVE  MoverInv'
    <3>1. type \in MoverType
      BY DEF MoverType
    <3> QED  BY <2>1, <2>3, <3>1, DoDoorKeeps
  <2>4. ASSUME NEW s, NEW type \in {"normal", "open"}, NEW player, M!EV_VerticalDoor(s, type, player)
        PROVE  MoverInv'
    <3>1. type \in MoverType
      BY DEF MoverType
    <3> QED  BY <2>1, <2>4, <3>1, ByHandKeeps
  <2>5. ASSUME NEW s, NEW type \in {"perpetual", "downWaitUpStay", "raise"}, M!EV_DoPlat(s, type)
        PROVE  MoverInv'
    BY <2>1, <2>5, DoPlatKeeps
  <2>6. ASSUME NEW s, NEW type \in {"crushAndRaise", "lowerToFloor", "raiseToHighest"}, M!EV_DoCeiling(s, type)
        PROVE  MoverInv'
    <3>1. type \in MoverType
      BY DEF MoverType
    <3> QED  BY <2>1, <2>6, <3>1, DoCeilingKeeps
  <2>7. ASSUME NEW s, M!ThingMoves(s)  PROVE MoverInv'
    <3>1. UNCHANGED <<M!heights, specialdata, mover, activeplats, activeceilings>>
      BY <2>7 DEF M!ThingMoves, M!tables
    <3>2. HeightsKept
      BY <2>1, <3>1, NoHeightChanges DEF MoverInv
    <3> QED  BY <2>1, <3>1, <3>2, NoMoverChanges
  <2>8. CASE M!Stop(activeplats) \/ M!Stop(activeceilings)
    BY <2>1, <2>8, StopKeeps
  <2>9. CASE M!Reload
    BY <2>1, <2>9, ReloadKeeps
  <2> QED  BY <2>1, <2>2, <2>3, <2>4, <2>5, <2>6, <2>7, <2>8, <2>9 DEF M!Step
<1> QED  BY <1>1, <1>2

\* The invariant holds at first.
LEMMA MoverInit ==
  ASSUME M!Init
  PROVE  MoverInv
<1>1. /\ mover = [a \in Address |-> M!Nothing] /\ specialdata = [s \in M!Sector |-> M!Null]
      /\ activeplats = {} /\ activeceilings = {} /\ level \in Levels
      /\ floor = InitFloor /\ ceiling = InitCeiling /\ unset = {}
  BY DEF M!Init
<1>2. HeightsOK
  BY <1>1, MoversAssumed DEF HeightsOK, M!MoverAssumption, M!LevelAssumption
<1>3. mover \in [Address -> MoverRecord \cup {M!Nothing}] /\ specialdata \in [M!Sector -> Address \cup {M!Null}]
  BY <1>1
<1>4. MoversOK /\ LiftsOK
  BY <1>1 DEF MoversOK, LiftsOK
<1>5. \A a : ~Alive(mover, a)
  BY <1>1 DEF Alive
<1>6. Pointers
  BY <1>1, <1>5 DEF Pointers, PointersOf
<1> QED  BY <1>1, <1>2, <1>3, <1>4, <1>6 DEF MoverInv

\* What the invariant says of the pointers and the heights.
LEMMA MoverInvIsSound ==
  ASSUME MoverInv
  PROVE  M!Sound
<1>1. Pointers /\ HeightsOK
  BY DEF MoverInv
<1>2. \A s \in M!Sector : specialdata[s] # M!Null =>
        specialdata[s] \in M!Live /\ mover[specialdata[s]].sector = s
  BY <1>1, AliveIs DEF Pointers, PointersOf
<1>3. activeplats \subseteq {a \in M!Live : mover[a].kind = "plat"}
  BY <1>1, AliveIs DEF Pointers, PointersOf
<1>4. activeceilings \subseteq {a \in M!Live : mover[a].kind = "ceiling"}
  BY <1>1, AliveIs DEF Pointers, PointersOf
<1>5. \A a \in M!Live : mover[a].sector \notin Doors => specialdata[mover[a].sector] = a
  BY <1>1, AliveIs DEF Pointers, PointersOf, Alive
<1>6. \A s \in M!Sector \ unset : floor[s] <= ceiling[s]
  BY <1>1 DEF HeightsOK
<1> QED  BY <1>2, <1>3, <1>4, <1>5, <1>6 DEF M!Sound

\* No pointer of a sector or of the tables is left to a mover that is done or freed, every lift
\* and crusher is known to its sector, and no floor is above its ceiling, but where a raised lift
\* went back down to the low that EV_DoPlat never sets (p_doors.c, p_plats.c, p_ceilng.c),
\* whatever the levels, what memory holds, the sizes of the tables and the order of turns.
THEOREM MoversAreSound == M!Spec => []M!Sound
<1>1. M!Init => MoverInv
  BY MoverInit
<1>2. MoverInv /\ [M!Next]_M!vars => MoverInv'
  BY MoverStep
<1>3. MoverInv => M!Sound
  BY MoverInvIsSound
<1> QED  BY <1>1, <1>2, <1>3, PTL DEF M!Spec

-----------------------------------------------------------------------------
(* Induction.                                                               *)

\* Induction, as a fact about sets: the library's theorem on the order of the numbers says that
\* a set of them has a least one.
LEMMA Least ==
  ASSUME NEW T \in SUBSET Nat, T # {}
  PROVE  \E x \in T : \A y \in T : x <= y
<1>1. IsWellFoundedOn(OpToRel(<, Nat), Nat)
  BY NatLessThanWellFounded
<1>2. PICK x \in T : \A y \in T : ~(<<y, x>> \in OpToRel(<, Nat))
  BY <1>1, WFMin
<1>3. \A m, n \in Nat : <<m, n>> \in OpToRel(<, Nat) <=> m < n
  BY DEF OpToRel
<1>4. \A y \in T : ~(y < x)
  BY <1>2, <1>3
<1> QED  BY <1>4

\* And so what holds of 0 and goes on from one to the next holds of them all.
LEMMA Induct ==
  ASSUME NEW T, 0 \in T, \A n \in Nat : n \in T => n + 1 \in T
  PROVE  Nat \subseteq T
<1> SUFFICES ASSUME Nat \ T # {} PROVE FALSE
  OBVIOUS
<1>1. PICK x \in Nat \ T : \A y \in Nat \ T : x <= y
  BY Least
<1>2. x # 0 /\ x - 1 \in Nat /\ x - 1 \in T
  BY <1>1
<1>3. x - 1 + 1 = x
  BY <1>1
<1> QED  BY <1>1, <1>2, <1>3

-----------------------------------------------------------------------------
(* The ring of Quake's sound.                                               *)

\* A number is its remainder and laps.
LEMMA ModIs ==
  ASSUME NEW T \in Nat, T > 0, NEW x \in Int, NEW q \in Int, NEW r \in 0 .. T - 1, x = q * T + r
  PROVE  x % T = r
<1>1. x % T \in 0 .. T - 1 /\ x \div T \in Int /\ x = (x \div T) * T + (x % T)
  BY ModSplit
<1>2. PICK a \in Int : a = x \div T
  BY <1>1
<1>3. PICK s \in 0 .. T - 1 : s = x % T
  BY <1>1
<1>4. x = a * T + s
  BY <1>1, <1>2, <1>3
<1>5. (a - q) * T = r - s /\ (q - a) * T = s - r
  BY <1>4
<1>6. CASE r > s
  BY <1>5, <1>6, NoMultiple
<1>7. CASE s > r
  BY <1>5, <1>7, NoMultiple
<1> QED  BY <1>3, <1>6, <1>7

\* The last time up to m of the cell of time t is some laps from it.
LEMMA LastTime ==
  ASSUME NEW T \in Nat, T > 0, NEW m \in Int, NEW t \in Int
  PROVE  LET s == m - ((m - (t % T)) % T)
         IN  s \in Int /\ s <= m /\ m < s + T /\ \E j \in Int : s = t + j * T
<1>1. PICK c \in 0 .. T - 1 : c = t % T
  BY ModSplit
<1>2. PICK k \in Int : t = k * T + c
  BY <1>1, ModSplit
<1>3. PICK r \in 0 .. T - 1 : r = (m - c) % T
  BY ModSplit
<1>4. PICK l \in Int : m - c = l * T + r
  <2>1. m - c \in Int
    OBVIOUS
  <2> QED  BY <1>3, <2>1, ModSplit
<1>5. m - r = t + (l - k) * T /\ l - k \in Int
  BY <1>2, <1>4
<1> QED  BY <1>1, <1>3, <1>5

\* What the constants are.
LEMMA SoundConstants ==
  /\ Frames \in Nat /\ Frames >= 2 /\ MixAhead \in Nat /\ MixAhead >= 1 /\ MixAhead < Frames
  /\ SubmitFrames \in Nat /\ SubmitFrames >= 1
  /\ TimeLimit \in Nat /\ TimeLimit > 2 * Frames
  /\ InRate \in Nat /\ InRate >= 1 /\ OutRate \in Nat /\ OutRate >= 1 /\ InRate <= OutRate
BY SoundAssumed DEF D!SoundAssumption

\* The sums of the transfers are what their equation says.
LEMMA SumsAre ==
  ASSUME NEW q, Len(q) \in Nat
  PROVE  D!Sums(q) =
           [n \in 0 .. Len(q) |-> IF n = 0 THEN 0 ELSE D!Sums(q)[n - 1] + q[n]]
<1> DEFINE Is(g, m) == g = [n \in 0 .. m |-> IF n = 0 THEN 0 ELSE g[n - 1] + q[n]]
           T == {m \in Nat : \E g : Is(g, m)}
<1>1. 0 \in T
  <2>1. Is([n \in 0 .. 0 |-> 0], 0)
    OBVIOUS
  <2> QED  BY <2>1
<1>2. ASSUME NEW m \in Nat, m \in T PROVE m + 1 \in T
  <2>1. PICK g : Is(g, m)
    BY <1>2
  <2> DEFINE f == [n \in 0 .. m + 1 |-> IF n = m + 1 THEN g[m] + q[m + 1] ELSE g[n]]
  <2>2. \A n \in 0 .. m + 1 : f[n] = IF n = 0 THEN 0 ELSE f[n - 1] + q[n]
    <3> SUFFICES ASSUME NEW n \in 0 .. m + 1
                 PROVE  f[n] = IF n = 0 THEN 0 ELSE f[n - 1] + q[n]
      OBVIOUS
    <3>1. CASE n = m + 1
      <4>1. n - 1 = m /\ n # 0 /\ m \in 0 .. m + 1 /\ m # m + 1
        BY <3>1
      <4>2. f[m] = g[m] /\ f[n] = g[m] + q[n]
        BY <3>1, <4>1
      <4> QED  BY <4>1, <4>2
    <3>2. CASE n \in 1 .. m
      <4>1. n - 1 \in 0 .. m + 1 /\ n - 1 # m + 1 /\ n # m + 1 /\ n # 0 /\ n \in 0 .. m
        BY <3>2
      <4>2. f[n - 1] = g[n - 1] /\ f[n] = g[n]
        BY <4>1
      <4>3. g[n] = g[n - 1] + q[n]
        BY <2>1, <4>1
      <4> QED  BY <4>1, <4>2, <4>3
    <3>3. CASE n = 0
      BY <2>1, <3>3
    <3> QED  BY <3>1, <3>2, <3>3
  <2>3. f = [n \in 0 .. m + 1 |-> f[n]]
    OBVIOUS
  <2>4. Is(f, m + 1)
    <3> HIDE DEF f
    <3> QED  BY <2>2, <2>3
  <2> HIDE DEF Is, f
  <2> QED  BY <2>4
<1>3. Nat \subseteq T
  <2> HIDE DEF T
  <2> QED  BY <1>1, <1>2, Induct
<1>4. \E g : Is(g, Len(q))
  <2>1. Len(q) \in T
    <3> HIDE DEF T
    <3> QED  BY <1>3
  <2> QED  BY <2>1
<1>5. D!Sums(q) = CHOOSE g : Is(g, Len(q))
  BY DEF D!Sums
<1>6. Is(D!Sums(q), Len(q))
  <2> HIDE DEF Is
  <2> QED  BY <1>4, <1>5
<1> QED  BY <1>6

\* The first transfers of a queue are those of another one that begins with the same.
LEMMA SumsOf ==
  ASSUME NEW q \in Seq(Nat), NEW m \in 0 .. Len(q)
  PROVE  /\ D!Sums(q)[0] = 0
         /\ m > 0 => D!Sums(q)[m] = D!Sums(q)[m - 1] + q[m]
BY SumsAre

\* The sum of some transfers is a number.
LEMMA SumsNat ==
  ASSUME NEW q \in Seq(Nat), NEW m \in 0 .. Len(q)
  PROVE  D!Sums(q)[m] \in Nat
<1> DEFINE T == {n \in Nat : n <= Len(q) => D!Sums(q)[n] \in Nat}
<1>1. 0 \in T
  BY SumsOf
<1>2. ASSUME NEW n \in Nat, n \in T PROVE n + 1 \in T
  <2> SUFFICES ASSUME n + 1 <= Len(q) PROVE D!Sums(q)[n + 1] \in Nat
    OBVIOUS
  <2>1. n + 1 \in 0 .. Len(q) /\ n + 1 > 0 /\ n + 1 - 1 = n /\ q[n + 1] \in Nat /\ n <= Len(q)
    OBVIOUS
  <2>2. D!Sums(q)[n + 1] = D!Sums(q)[n] + q[n + 1]
    BY <2>1, SumsOf
  <2> QED  BY <1>2, <2>1, <2>2
<1>3. Nat \subseteq T
  <2> HIDE DEF T
  <2> QED  BY <1>1, <1>2, Induct
<1> QED  BY <1>3

\* A transfer that comes counts.
LEMMA TotalAppended ==
  ASSUME NEW q \in Seq(Nat), NEW x \in Nat
  PROVE  D!Sums(Append(q, x))[Len(Append(q, x))] = D!Sums(q)[Len(q)] + x
<1> DEFINE r == Append(q, x)
           T == {n \in Nat : n <= Len(q) => D!Sums(r)[n] = D!Sums(q)[n]}
<1>1. r \in Seq(Nat) /\ Len(r) = Len(q) + 1 /\ r[Len(q) + 1] = x /\ Len(q) \in Nat
      /\ \A i \in 1 .. Len(q) : r[i] = q[i]
  BY AppendProperties
<1> HIDE DEF r
<1>2. 0 \in T
  <2>1. 0 \in 0 .. Len(r) /\ 0 \in 0 .. Len(q)
    BY <1>1
  <2> QED  BY <1>1, <2>1, SumsOf
<1>3. ASSUME NEW n \in Nat, n \in T PROVE n + 1 \in T
  <2> SUFFICES ASSUME n + 1 <= Len(q) PROVE D!Sums(r)[n + 1] = D!Sums(q)[n + 1]
    OBVIOUS
  <2>1. n + 1 \in 0 .. Len(q) /\ n + 1 \in 0 .. Len(r) /\ n + 1 > 0 /\ n + 1 - 1 = n
        /\ n + 1 \in 1 .. Len(q) /\ n <= Len(q)
    BY <1>1
  <2>2. D!Sums(q)[n + 1] = D!Sums(q)[n] + q[n + 1] /\ D!Sums(r)[n + 1] = D!Sums(r)[n] + r[n + 1]
    <3>1. PICK m \in 0 .. Len(q) : m = n + 1
      BY <2>1
    <3>2. D!Sums(q)[m] = D!Sums(q)[m - 1] + q[m]
      BY <2>1, <3>1, SumsOf
    <3>3. m \in 0 .. Len(r) /\ m > 0
      BY <2>1, <3>1
    <3>4. D!Sums(r)[m] = D!Sums(r)[m - 1] + r[m]
      BY <1>1, <3>3, SumsOf
    <3> QED  BY <2>1, <3>1, <3>2, <3>4
  <2> QED  BY <1>1, <1>3, <2>1, <2>2
<1>4. Nat \subseteq T
  <2> HIDE DEF T
  <2> QED  BY <1>2, <1>3, Induct
<1>5. D!Sums(r)[Len(q)] = D!Sums(q)[Len(q)]
  BY <1>1, <1>4
<1>6. D!Sums(r)[Len(q) + 1] = D!Sums(r)[Len(q)] + x
  <2>1. Len(q) + 1 \in 0 .. Len(r) /\ Len(q) + 1 > 0 /\ Len(q) + 1 - 1 = Len(q)
    BY <1>1
  <2> QED  BY <1>1, <2>1, SumsOf
<1> QED  BY <1>1, <1>5, <1>6 DEF r

\* A transfer that is over does not.
LEMMA TotalOfTail ==
  ASSUME NEW q \in Seq(Nat), q # <<>>
  PROVE  D!Sums(q)[Len(q)] = Head(q) + D!Sums(Tail(q))[Len(Tail(q))]
<1> DEFINE r == Tail(q)
           T == {n \in Nat : n <= Len(r) => D!Sums(q)[n + 1] = q[1] + D!Sums(r)[n]}
<1>1. r \in Seq(Nat) /\ Len(r) = Len(q) - 1 /\ Head(q) = q[1] /\ Len(r) \in Nat /\ q[1] \in Nat
      /\ Len(q) \in Nat /\ Len(q) > 0 /\ \A i \in 1 .. Len(r) : r[i] = q[i + 1]
  BY HeadTailProperties, EmptySeq
<1> HIDE DEF r
<1>2. 0 \in T
  <2>1. 0 \in 0 .. Len(r) /\ 1 \in 0 .. Len(q) /\ 0 \in 0 .. Len(q) /\ 0 + 1 = 1 /\ 1 - 1 = 0
    BY <1>1
  <2>2. D!Sums(r)[0] = 0 /\ D!Sums(q)[1] = D!Sums(q)[0] + q[1] /\ D!Sums(q)[0] = 0
    <3>1. D!Sums(r)[0] = 0
      BY <1>1, <2>1, SumsOf
    <3>2. D!Sums(q)[0] = 0
      BY <2>1, SumsOf
    <3>3. D!Sums(q)[1] = D!Sums(q)[1 - 1] + q[1]
      BY <2>1, SumsOf
    <3> QED  BY <2>1, <3>1, <3>2, <3>3
  <2> QED  BY <1>1, <2>1, <2>2
<1>3. ASSUME NEW n \in Nat, n \in T PROVE n + 1 \in T
  <2> SUFFICES ASSUME n + 1 <= Len(r) PROVE D!Sums(q)[n + 1 + 1] = q[1] + D!Sums(r)[n + 1]
    OBVIOUS
  <2>1. /\ n + 1 \in 0 .. Len(r) /\ n + 2 \in 0 .. Len(q) /\ n + 1 > 0 /\ n + 2 > 0
        /\ n + 1 - 1 = n /\ n + 2 - 1 = n + 1 /\ n + 1 + 1 = n + 2
        /\ n + 1 \in 1 .. Len(r) /\ n <= Len(r) /\ n \in 0 .. Len(r)
    BY <1>1
  <2>2. D!Sums(r)[n + 1] = D!Sums(r)[n] + r[n + 1] /\ D!Sums(q)[n + 2] = D!Sums(q)[n + 1] + q[n + 2]
    <3>1. PICK m \in 0 .. Len(r) : m = n + 1
      BY <2>1
    <3>2. D!Sums(r)[m] = D!Sums(r)[m - 1] + r[m]
      BY <1>1, <2>1, <3>1, SumsOf
    <3>3. PICK k \in 0 .. Len(q) : k = n + 2
      BY <2>1
    <3>4. D!Sums(q)[k] = D!Sums(q)[k - 1] + q[k]
      BY <2>1, <3>3, SumsOf
    <3> QED  BY <2>1, <3>1, <3>2, <3>3, <3>4
  <2>3. r[n + 1] = q[n + 2] /\ r[n + 1] \in Nat /\ D!Sums(r)[n] \in Nat
    <3>1. D!Sums(r)[n] \in Nat
      BY <1>1, <2>1, SumsNat
    <3>2. PICK m \in 1 .. Len(r) : m = n + 1
      BY <2>1
    <3>3. r[m] = q[m + 1] /\ m + 1 = n + 2
      BY <1>1, <3>2
    <3>4. r[m] \in Nat
      BY <1>1, ElementOfSeq
    <3> QED  BY <3>1, <3>2, <3>3, <3>4
  <2>4. D!Sums(q)[n + 1] = q[1] + D!Sums(r)[n]
    BY <1>3, <2>1
  <2>5. PICK a \in Nat : a = q[1]
    BY <1>1
  <2>6. PICK b \in Nat : b = D!Sums(r)[n]
    BY <2>3
  <2>7. PICK d \in Nat : d = r[n + 1] /\ d = q[n + 2]
    BY <2>3
  <2>8. D!Sums(q)[n + 2] = a + b + d /\ D!Sums(r)[n + 1] = b + d
    BY <2>2, <2>4, <2>5, <2>6, <2>7
  <2>9. n + 1 + 1 = n + 2
    OBVIOUS
  <2> QED  BY <2>5, <2>8, <2>9
<1>4. Nat \subseteq T
  <2> HIDE DEF T
  <2> QED  BY <1>2, <1>3, Induct
<1>5. D!Sums(q)[Len(r) + 1] = q[1] + D!Sums(r)[Len(r)] /\ Len(r) + 1 = Len(q)
  BY <1>1, <1>4
<1> QED  BY <1>1, <1>5 DEF r

-----------------------------------------------------------------------------
(* Frames of Quake and of the driver.                                       *)

\* The quotient of a number that is not below 0, and where it lies.
LEMMA DivIs ==
  ASSUME NEW d \in Nat, d > 0, NEW x \in Nat
  PROVE  x \div d \in Nat /\ d * (x \div d) <= x /\ x < d * (x \div d) + d
OBVIOUS

\* A number of which the multiple lies in the same place is the quotient.
LEMMA DivUnique ==
  ASSUME NEW d \in Nat, d > 0, NEW x \in Nat, NEW y \in Int, d * y <= x, x < d * y + d
  PROVE  x \div d = y
<1>1. PICK z \in Nat : z = x \div d
  BY DivIs
<1>2. d * z <= x /\ x < d * z + d
  BY <1>1, DivIs
<1>3. (z - y) * d < d /\ (y - z) * d < d
  BY <1>2
<1>4. CASE z > y
  BY <1>3, <1>4, NoMultiple
<1>5. CASE y > z
  BY <1>3, <1>5, NoMultiple
<1> QED  BY <1>1, <1>4, <1>5

\* What the input frames of a phase say more than the output frames made of them.
Slack(n) == n * OutRate - InRate * D!Output(n)

\* The output is a number, and the input it stands for is less than a frame off.
LEMMA OutputIs ==
  ASSUME NEW n \in Nat
  PROVE  D!Output(n) \in Nat /\ Slack(n) \in 0 .. OutRate - 1 /\ n * OutRate \in Nat
<1>0. InRate \in Nat /\ InRate >= 1 /\ OutRate \in Nat /\ OutRate >= 1 /\ InRate <= OutRate
  BY SoundConstants
<1>1. CASE n = 0
  <2>1. D!Output(n) = 0
    BY <1>1 DEF D!Output
  <2> QED  BY <1>0, <1>1, <2>1 DEF Slack
<1>2. CASE n > 0
  <2>1. PICK x \in Nat : x = (n - 1) * OutRate
    BY <1>0, <1>2
  <2>2. PICK y \in Nat : y = x \div InRate
    BY <1>0, DivIs
  <2>3. InRate * y <= x /\ x < InRate * y + InRate
    BY <1>0, <2>2, DivIs
  <2>4. D!Output(n) = y + 1
    BY <1>2, <2>1, <2>2 DEF D!Output
  <2>5. n * OutRate = x + OutRate
    BY <1>0, <1>2, <2>1
  <2>6. InRate * (y + 1) = InRate * y + InRate
    BY <1>0
  <2>7. PICK z \in Nat : z = InRate * y
    BY <1>0
  <2>8. Slack(n) = x + OutRate - (z + InRate)
    <3>1. InRate * D!Output(n) = z + InRate
      BY <2>4, <2>6, <2>7
    <3>2. Slack(n) = (n * OutRate) - (InRate * D!Output(n))
      BY DEF Slack
    <3> QED  BY <1>0, <2>1, <2>2, <2>4, <2>5, <2>7, <3>1, <3>2
  <2> QED  BY <1>0, <2>3, <2>4, <2>5, <2>7, <2>8
<1> QED  BY <1>1, <1>2

\* The output of one write is not more than that of the frames of a chunk and one.
LEMMA OutputGrows ==
  ASSUME NEW n \in Nat, NEW w \in 1 .. SubmitFrames
  PROVE  D!Output(n + w) - D!Output(n) \in 0 .. D!Output(SubmitFrames + 1)
<1>0. /\ InRate \in Nat /\ InRate >= 1 /\ OutRate \in Nat /\ OutRate >= 1 /\ InRate <= OutRate
      /\ SubmitFrames \in Nat /\ w \in Nat
  BY SoundConstants
<1>1. PICK c \in Nat : c = (SubmitFrames * OutRate) \div InRate
                       /\ SubmitFrames * OutRate < InRate * c + InRate
  <2>1. SubmitFrames * OutRate \in Nat
    BY <1>0
  <2> QED  BY <1>0, <2>1, DivIs
<1>2. D!Output(SubmitFrames + 1) = c + 1
  BY <1>0, <1>1 DEF D!Output
<1>3. PICK b \in Nat : /\ b = ((n + w - 1) * OutRate) \div InRate
                       /\ InRate * b <= (n + w - 1) * OutRate
                       /\ (n + w - 1) * OutRate < InRate * b + InRate
  <2>1. (n + w - 1) * OutRate \in Nat
    BY <1>0
  <2> QED  BY <1>0, <2>1, DivIs
<1>4. D!Output(n + w) = b + 1
  BY <1>0, <1>3 DEF D!Output
<1>5. w * OutRate <= SubmitFrames * OutRate /\ w * OutRate \in Nat
  BY <1>0
<1>6. CASE n = 0
  <2>1. D!Output(n) = 0
    BY <1>6 DEF D!Output
  <2>2. (n + w - 1) * OutRate = w * OutRate - OutRate
    BY <1>0, <1>6
  <2>3. InRate * b < InRate * c + InRate
    BY <1>0, <1>1, <1>3, <1>5, <2>2
  <2>4. b <= c
    <3>1. CASE b >= c + 1
      <4>1. InRate * b >= InRate * c + InRate
        BY <1>0, <3>1
      <4> QED  BY <1>0, <2>3, <4>1
    <3> QED  BY <3>1
  <2> QED  BY <1>2, <1>4, <2>1, <2>4
<1>7. CASE n > 0
  <2>1. PICK a \in Nat : /\ a = ((n - 1) * OutRate) \div InRate
                         /\ InRate * a <= (n - 1) * OutRate
                         /\ (n - 1) * OutRate < InRate * a + InRate
    <3>1. (n - 1) * OutRate \in Nat
      BY <1>0, <1>7
    <3> QED  BY <1>0, <3>1, DivIs
  <2>2. D!Output(n) = a + 1
    BY <1>7, <2>1 DEF D!Output
  <2>3. (n + w - 1) * OutRate = (n - 1) * OutRate + w * OutRate
    BY <1>0
  <2>4. InRate * a < InRate * b + InRate
    BY <1>0, <1>3, <1>5, <2>1, <2>3
  <2>5. InRate * b < InRate * a + InRate + (InRate * c + InRate)
    BY <1>0, <1>1, <1>3, <1>5, <2>1, <2>3
  <2>6. a <= b
    <3>1. CASE a >= b + 1
      <4>1. InRate * a >= InRate * b + InRate
        BY <1>0, <3>1
      <4> QED  BY <1>0, <2>4, <4>1
    <3> QED  BY <3>1
  <2>7. b <= a + c + 1
    <3>1. CASE b >= a + c + 2
      <4>1. InRate * b >= InRate * a + InRate + (InRate * c + InRate)
        BY <1>0, <3>1
      <4> QED  BY <1>0, <2>5, <4>1
    <3> QED  BY <3>1
  <2> QED  BY <1>2, <1>4, <2>2, <2>6, <2>7
<1> QED  BY <1>6, <1>7

\* The phase stands for the frames it is made of.
LEMMA PhaseIs ==
  ASSUME NEW n \in Nat
  PROVE  D!Phase(n) \in 0 .. InRate /\ Slack(D!Phase(n)) = Slack(n)
<1>0. /\ InRate \in Nat /\ InRate >= 1 /\ OutRate \in Nat /\ OutRate >= 1
  BY SoundConstants
<1>1. CASE n <= InRate
  BY <1>0, <1>1 DEF D!Phase
<1>2. CASE n > InRate
  <2>1. PICK r \in 0 .. InRate - 1 : r = (n - 1) % InRate
    BY <1>0, ModSplit
  <2>2. PICK k \in Int : n - 1 = k * InRate + r
    <3>1. PICK m \in Int : m = n - 1
      OBVIOUS
    <3>2. m \div InRate \in Int /\ m = (m \div InRate) * InRate + (m % InRate)
      BY <1>0, ModSplit
    <3> QED  BY <2>1, <3>1, <3>2
  <2>3. D!Phase(n) = 1 + r
    BY <1>2, <2>1 DEF D!Phase
  <2>4. PICK x \in Nat : x = r * OutRate
    BY <1>0
  <2>5. PICK y \in Nat : y = x \div InRate /\ InRate * y <= x /\ x < InRate * y + InRate
    BY <1>0, DivIs
  <2>6. D!Output(1 + r) = y + 1
    <3>1. 1 + r # 0 /\ 1 + r - 1 = r
      BY <1>0
    <3> QED  BY <2>4, <2>5, <3>1 DEF D!Output
  <2>7. PICK u \in Int : u = k * OutRate
    BY <1>0
  <2>8. (n - 1) * OutRate = InRate * u + x /\ (n - 1) * OutRate \in Nat
    <3>1. (n - 1) * OutRate = (k * InRate) * OutRate + r * OutRate
      BY <1>0, <2>2
    <3>2. (k * InRate) * OutRate = InRate * (k * OutRate)
      BY <1>0
    <3> QED  BY <1>0, <1>2, <2>4, <2>7, <3>1, <3>2
  <2>9. InRate * (u + y) = InRate * u + InRate * y /\ u + y \in Int
    BY <1>0
  <2>10. ((n - 1) * OutRate) \div InRate = u + y
    <3>1. PICK m \in Nat : m = (n - 1) * OutRate
      BY <2>8
    <3>2. InRate * (u + y) <= m /\ m < InRate * (u + y) + InRate
      BY <1>0, <2>5, <2>8, <2>9, <3>1
    <3>3. m \div InRate = u + y
      BY <1>0, <2>9, <3>2, DivUnique
    <3> QED  BY <3>1, <3>3
  <2>11. D!Output(n) = u + y + 1
    BY <1>0, <1>2, <2>10 DEF D!Output
  <2>12. Slack(n) = n * OutRate - (InRate * u + InRate * y + InRate)
    <3>1. InRate * (u + y + 1) = InRate * u + InRate * y + InRate
      BY <1>0
    <3> QED  BY <2>11, <3>1 DEF Slack
  <2>13. Slack(1 + r) = x + OutRate - (InRate * y + InRate)
    <3>1. InRate * (y + 1) = InRate * y + InRate /\ (1 + r) * OutRate = x + OutRate
      BY <1>0, <2>4
    <3>2. InRate * D!Output(1 + r) = InRate * y + InRate
      BY <2>6, <3>1
    <3>3. Slack(1 + r) = ((1 + r) * OutRate) - (InRate * D!Output(1 + r))
      BY DEF Slack
    <3> QED  BY <1>0, <2>1, <2>4, <2>5, <2>6, <3>1, <3>2, <3>3
  <2>14. n * OutRate = (n - 1) * OutRate + OutRate
    BY <1>0
  <2>15. Slack(n) = Slack(1 + r)
    BY <1>0, <2>8, <2>12, <2>13, <2>14
  <2> QED  BY <1>0, <2>3, <2>15
<1> QED  BY <1>0, <1>1, <1>2

-----------------------------------------------------------------------------
(* What is played, and what the mixer knows of it.                          *)

\* What was played, in frames of Quake of OutRate parts each.
Played == submitted * OutRate - D!Remaining * InRate

\* The time of the last update.
Counted == buffers * Frames + oldsamplepos

\* As long as the position never fell back.  What is played without what the rounding adds does
\* not fall, and the last update counted no more than a frame above it.
Tracks ==
  /\ 0 <= Played - Slack(dmaPhase)
  /\ Counted * OutRate <= Played - Slack(dmaPhase) + OutRate - 1
  /\ paintedtime <= Counted + MixAhead \/ paintedtime <= Frames
  /\ \A t \in submitted .. paintedtime - 1 : ring[t % Frames] = t

RingInv == D!Sound /\ (~miscounted => Tracks)

\* The numbers are numbers.
LEMMA RingTypes ==
  ASSUME D!Sound
  PROVE  /\ submitted \in Nat /\ paintedtime \in Nat /\ submitted <= paintedtime
         /\ buffers \in Nat /\ oldsamplepos \in 0 .. Frames - 1 /\ dmaPhase \in Nat
         /\ queue \in Seq(Nat) /\ D!Remaining \in Nat
         /\ Slack(dmaPhase) \in 0 .. OutRate - 1
         /\ Played \in Int /\ Counted \in Nat /\ Counted * OutRate \in Nat
         /\ submitted * OutRate \in Nat /\ D!Remaining * InRate \in Nat
<1>0. /\ Frames \in Nat /\ OutRate \in Nat /\ InRate \in Nat /\ SubmitFrames \in Nat
      /\ SubmitFrames + 1 \in Nat
  BY SoundConstants
<1>1. /\ submitted \in Nat /\ paintedtime \in Nat /\ submitted <= paintedtime
      /\ buffers \in Nat /\ oldsamplepos \in 0 .. Frames - 1 /\ dmaPhase \in Nat
  BY <1>0 DEF D!Sound
<1>2. queue \in Seq(Nat)
  <2>1. D!Output(SubmitFrames + 1) \in Nat
    BY <1>0, OutputIs
  <2>2. queue \in Seq(1 .. D!Output(SubmitFrames + 1))
    BY DEF D!Sound
  <2>3. 1 .. D!Output(SubmitFrames + 1) \subseteq Nat
    BY <2>1
  <2> QED  BY <2>2, <2>3, SeqMonotonic
<1>3. D!Remaining \in Nat
  <2>1. Len(queue) \in 0 .. Len(queue)
    BY <1>2, LenProperties
  <2> QED  BY <1>2, <2>1, SumsNat DEF D!Remaining
<1>4. Slack(dmaPhase) \in 0 .. OutRate - 1
  BY <1>1, OutputIs
<1>5. submitted * OutRate \in Nat /\ D!Remaining * InRate \in Nat
  BY <1>0, <1>1, <1>3
<1>6. Counted \in Nat
  <2>1. buffers * Frames \in Nat
    BY <1>0, <1>1
  <2> QED  BY <1>0, <1>1, <2>1 DEF Counted
<1>7. Counted * OutRate \in Nat
  BY <1>0, <1>6
<1>8. Played \in Int
  BY <1>5 DEF Played
<1> QED  BY <1>1, <1>2, <1>3, <1>4, <1>5, <1>6, <1>7, <1>8

\* The frames that are still to be played, rounded up.
LEMMA BufferedIs ==
  ASSUME D!Sound
  PROVE  /\ D!Buffered \in Nat
         /\ D!Remaining * InRate <= D!Buffered * OutRate
         /\ D!Buffered * OutRate <= D!Remaining * InRate + OutRate - 1
<1>0. OutRate \in Nat /\ OutRate >= 1
  BY SoundConstants
<1>1. PICK r \in Nat : r = D!Remaining * InRate
  BY RingTypes
<1>2. PICK x \in Nat : x = r + OutRate - 1
  BY <1>0, <1>1
<1>3. PICK b \in Nat : b = x \div OutRate /\ OutRate * b <= x /\ x < OutRate * b + OutRate
  BY <1>0, DivIs
<1>4. D!Buffered = b
  BY <1>1, <1>2, <1>3 DEF D!Buffered
<1>5. b * OutRate = OutRate * b /\ b * OutRate \in Nat
  BY <1>0
<1> QED  BY <1>0, <1>1, <1>2, <1>3, <1>4, <1>5

\* The position is one in the ring.
LEMMA PositionType ==
  ASSUME D!Sound
  PROVE  D!SNDDMA_GetDMAPos \in 0 .. Frames - 1
<1>1. PICK x \in Int : x = IF D!Buffered < submitted THEN submitted - D!Buffered ELSE 0
  BY RingTypes, BufferedIs
<1>2. x % Frames \in 0 .. Frames - 1
  BY SoundConstants, ModSplit
<1> QED  BY <1>1, <1>2 DEF D!SNDDMA_GetDMAPos

\* And that of the frames which were played.
LEMMA PositionIs ==
  ASSUME D!Sound, 0 <= Played
  PROVE  \E n \in Nat :
           /\ D!SNDDMA_GetDMAPos = n % Frames /\ n <= submitted
           /\ n * OutRate <= Played /\ Played < n * OutRate + OutRate
<1>0. OutRate \in Nat /\ OutRate >= 1
  BY SoundConstants
<1>1. PICK b \in Nat : b = D!Buffered
  BY BufferedIs
<1>2. PICK s \in Nat : s = submitted
  BY RingTypes
<1>3. PICK r \in Nat : r = D!Remaining * InRate
  BY RingTypes
<1>4. r <= b * OutRate /\ b * OutRate <= r + OutRate - 1 /\ b * OutRate \in Nat /\ s * OutRate \in Nat
  BY <1>0, <1>1, <1>3, BufferedIs
<1>5. Played = s * OutRate - r
  BY <1>2, <1>3 DEF Played
<1>6. (s - b) * OutRate = s * OutRate - b * OutRate
  BY <1>0
<1>7. (s - b) * OutRate <= Played /\ Played < (s - b) * OutRate + OutRate
  BY <1>0, <1>4, <1>5, <1>6
<1>8. s - b >= 0
  <2>1. CASE s - b <= -1
    <3>1. (s - b) * OutRate <= (-1) * OutRate
      BY <1>0, <2>1
    <3>2. (-1) * OutRate = -OutRate
      BY <1>0
    <3> QED  BY <1>0, <1>4, <1>5, <1>6, <1>7, <3>1, <3>2
  <2> QED  BY <2>1
<1>9. D!SNDDMA_GetDMAPos = (s - b) % Frames
  <2>1. s - b = (IF b < s THEN s - b ELSE 0)
    BY <1>8
  <2> QED  BY <1>1, <1>2, <2>1 DEF D!SNDDMA_GetDMAPos
<1>10. s - b \in Nat /\ s - b <= submitted
  BY <1>2, <1>8
<1> QED  BY <1>7, <1>9, <1>10

\* Numbers c and n in a ring of F: if n is less than a lap ahead of c, and not just before it, it
\* is in the same lap or in the next.
LEMMA Laps ==
  ASSUME NEW F \in Nat, F >= 2, NEW old \in 0 .. F - 1, NEW pos \in 0 .. F - 1,
         NEW b \in Nat, NEW k \in Int, NEW n \in Nat, NEW c \in Nat,
         n = k * F + pos, c = b * F + old, c <= n + 1, n < c + F,
         (pos - old) % F # F - 1
  PROVE  \/ pos >= old /\ n = b * F + pos /\ c <= n
         \/ pos < old /\ n = (b + 1) * F + pos /\ c < n
<1>1. PICK u \in Int : u = k * F
  OBVIOUS
<1>2. PICK v \in Int : v = b * F
  OBVIOUS
<1>3. (b - k) * F = v - u /\ b - k \in Int
  BY <1>1, <1>2
<1>4. n # c - 1
  <2> SUFFICES ASSUME n = c - 1 PROVE FALSE
    OBVIOUS
  <2>1. PICK x \in Int : x = pos - old
    OBVIOUS
  <2>2. (b - k - 1) * F = v - u - F
    BY <1>1, <1>2
  <2>3. x = (b - k - 1) * F + (F - 1)
    BY <1>1, <1>2, <2>1, <2>2
  <2>4. b - k - 1 \in Int /\ F - 1 \in 0 .. F - 1 /\ F > 0
    OBVIOUS
  <2>5. x % F = F - 1
    BY <2>3, <2>4, ModIs
  <2> QED  BY <2>1, <2>5
<1>5. c <= n
  BY <1>4
<1>6. v - u > pos - old - F /\ v - u <= pos - old
  BY <1>1, <1>2, <1>5
<1>7. b - k < 1
  <2>1. CASE b - k >= 1
    <3>1. (b - k) * F >= F
      BY <2>1
    <3> QED  BY <1>3, <1>6, <3>1
  <2> QED  BY <2>1
<1>8. b - k > -2
  <2>1. CASE b - k <= -2
    <3>1. (b - k) * F <= (-2) * F /\ (-2) * F = -(2 * F)
      BY <2>1
    <3> QED  BY <1>3, <1>6, <3>1
  <2> QED  BY <2>1
<1>9. CASE k = b
  BY <1>1, <1>2, <1>5, <1>9
<1>10. CASE k = b + 1
  <2>1. u = v + F
    BY <1>1, <1>2, <1>10
  <2> QED  BY <1>1, <1>2, <1>5, <1>10, <2>1
<1> QED  BY <1>7, <1>8, <1>9, <1>10

\* Where the position is, if it did not fall back: some frames on, in the same lap or in the
\* next, or a whole lap from the beginning, when all is played.
LEMMA WhereIs ==
  ASSUME RingInv, ~miscounted, ~D!FallsBack
  PROVE  \E n \in Nat :
           /\ n <= submitted /\ n * OutRate <= Played
           /\ \/ ~D!Wraps /\ n = buffers * Frames + D!SNDDMA_GetDMAPos /\ Counted <= n
              \/ D!Wraps /\ n = (buffers + 1) * Frames + D!SNDDMA_GetDMAPos /\ Counted < n
              \/ /\ ~D!Wraps /\ buffers = 0 /\ oldsamplepos = 0 /\ D!SNDDMA_GetDMAPos = 0
                 /\ paintedtime = Frames /\ submitted = Frames
<1> USE DEF RingInv
<1>0. /\ OutRate \in Nat /\ OutRate >= 1 /\ Frames \in Nat /\ Frames >= 2 /\ Frames > 0
      /\ MixAhead \in Nat /\ MixAhead >= 1 /\ MixAhead < Frames
  BY SoundConstants
<1>1. Tracks
  OBVIOUS
<1>2. PICK v \in Int : v = Played
  BY RingTypes
<1>3. PICK e \in 0 .. OutRate - 1 : e = Slack(dmaPhase)
  BY RingTypes
<1>4. PICK c \in Nat : c = Counted
  BY RingTypes
<1>5. 0 <= v - e /\ c * OutRate <= v - e + OutRate - 1 /\ 0 <= v
  BY <1>1, <1>2, <1>3, <1>4 DEF Tracks
<1>6. \E n \in Nat :
           /\ D!SNDDMA_GetDMAPos = n % Frames /\ n <= submitted
           /\ n * OutRate <= Played /\ Played < n * OutRate + OutRate
  BY <1>2, <1>5, PositionIs
<1>7. PICK n \in Nat : /\ D!SNDDMA_GetDMAPos = n % Frames /\ n <= submitted
                       /\ n * OutRate <= v /\ v < n * OutRate + OutRate
  BY <1>2, <1>6
<1>8. PICK old \in 0 .. Frames - 1 : old = oldsamplepos
  BY RingTypes
<1>9. PICK b \in Nat : b = buffers
  BY RingTypes
<1>10. PICK pos \in 0 .. Frames - 1 : pos = D!SNDDMA_GetDMAPos
  BY PositionType
<1>11. PICK k \in Int : n = k * Frames + pos
  <2>1. n \div Frames \in Int /\ n = (n \div Frames) * Frames + (n % Frames)
    BY <1>0, ModSplit
  <2> QED  BY <1>7, <1>10, <2>1
<1>12. c = b * Frames + old
  BY <1>4, <1>8, <1>9 DEF Counted
<1>13. c <= n + 1
  <2>1. CASE c >= n + 2
    <3>1. c * OutRate >= (n + 2) * OutRate /\ (n + 2) * OutRate = n * OutRate + OutRate + OutRate
      BY <1>0, <2>1
    <3>2. n * OutRate \in Nat /\ c * OutRate \in Nat
      BY <1>0
    <3> QED  BY <1>0, <1>5, <1>7, <3>1, <3>2
  <2> QED  BY <2>1
<1>14. PICK s \in Nat : s = submitted
  BY RingTypes
<1>15. PICK t \in Nat : t = paintedtime
  BY RingTypes
<1>16. n <= s /\ s <= t /\ (t <= c + MixAhead \/ t <= Frames)
  BY <1>1, <1>4, <1>7, <1>14, <1>15, RingTypes DEF Tracks
<1>17. (pos - old) % Frames # Frames - 1
  BY <1>8, <1>10 DEF D!FallsBack
<1>18. CASE n < c + Frames
  <2>1. \/ pos >= old /\ n = b * Frames + pos /\ c <= n
        \/ pos < old /\ n = (b + 1) * Frames + pos /\ c < n
    BY <1>0, <1>11, <1>12, <1>13, <1>17, <1>18, Laps
  <2>2. D!Wraps <=> pos < old
    BY <1>8, <1>10 DEF D!Wraps
  <2>3. ~(pos < old) <=> pos >= old
    OBVIOUS
  <2>4. n <= submitted /\ n * OutRate <= Played
    BY <1>2, <1>7
  <2> QED  BY <1>4, <1>9, <1>10, <2>1, <2>2, <2>3, <2>4
<1>19. CASE n >= c + Frames
  <2>1. t <= Frames
    BY <1>0, <1>16, <1>19
  <2>2. c = 0 /\ n = Frames /\ t = Frames /\ s = Frames
    BY <1>0, <1>16, <1>19, <2>1
  <2>3. b = 0 /\ old = 0
    <3>1. CASE b >= 1
      <4>1. b * Frames >= Frames
        BY <1>0, <3>1
      <4> QED  BY <1>0, <1>12, <2>2, <4>1
    <3>2. b = 0
      BY <3>1
    <3> QED  BY <1>0, <1>12, <2>2, <3>2
  <2>5. pos = 0
    <3>1. Frames = 1 * Frames + 0 /\ 0 \in 0 .. Frames - 1
      BY <1>0
    <3>2. Frames % Frames = 0
      BY <1>0, <3>1, ModIs
    <3> QED  BY <1>7, <1>10, <2>2, <3>2
  <2>6. ~D!Wraps
    BY <1>8, <1>10, <2>3, <2>5 DEF D!Wraps
  <2>7. n <= submitted /\ n * OutRate <= Played
    BY <1>2, <1>7
  <2> QED  BY <1>8, <1>9, <1>10, <1>14, <1>15, <2>2, <2>3, <2>5, <2>6, <2>7
<1> QED  BY <1>0, <1>18, <1>19


-----------------------------------------------------------------------------
(* The steps.                                                               *)

\* It holds at the beginning.
LEMMA RingStarts ==
  ASSUME D!Init
  PROVE  RingInv
<1>0. /\ Frames \in Nat /\ Frames >= 2 /\ OutRate \in Nat /\ OutRate >= 1 /\ InRate \in Nat
      /\ MixAhead \in Nat
  BY SoundConstants
<1>1. /\ ring = [c \in 0 .. Frames - 1 |-> D!Silence]
      /\ paintedtime = 0 /\ buffers = 0 /\ oldsamplepos = 0
      /\ submitted = 0 /\ dmaPhase = 0
      /\ queue = <<>> /\ dmaAt = "idle" /\ miscounted = FALSE
  BY DEF D!Init
<1>2. D!Sound
  <2>1. queue \in Seq(1 .. D!Output(SubmitFrames + 1))
    BY <1>1, EmptySeq
  <2>2. ring \in [0 .. Frames - 1 -> Nat \cup {D!Silence}]
    BY <1>1
  <2>3. oldsamplepos \in 0 .. Frames - 1 /\ dmaPhase \in 0 .. InRate /\ submitted \in 0 .. paintedtime
    BY <1>0, <1>1
  <2> QED  BY <1>0, <1>1, <2>1, <2>2, <2>3 DEF D!Sound
<1>3. D!Remaining = 0
  <2>1. Len(queue) = 0 /\ queue \in Seq(Nat)
    BY <1>1, EmptySeq
  <2>2. 0 \in 0 .. Len(queue)
    BY <2>1
  <2> QED  BY <2>1, <2>2, SumsOf DEF D!Remaining
<1>4. Slack(dmaPhase) = 0
  <2>1. D!Output(dmaPhase) = 0
    BY <1>1 DEF D!Output
  <2> QED  BY <1>0, <1>1, <2>1 DEF Slack
<1>5. Played = 0 /\ Counted = 0
  BY <1>0, <1>1, <1>3 DEF Played, Counted
<1>6. 0 * OutRate = 0
  BY <1>0
<1>7. Tracks
  BY <1>0, <1>1, <1>4, <1>5, <1>6 DEF Tracks
<1> QED  BY <1>2, <1>7 DEF RingInv

\* The end of a transfer.
LEMMA TransferEnds ==
  ASSUME RingInv, D!StreamingPlaybackDone
  PROVE  RingInv'
<1>0. /\ Frames \in Nat /\ OutRate \in Nat /\ OutRate >= 1 /\ InRate \in Nat
      /\ MixAhead \in Nat
  BY SoundConstants
<1>1. /\ queue # <<>> /\ queue' = Tail(queue)
      /\ UNCHANGED <<ring, paintedtime, buffers, oldsamplepos, submitted, dmaPhase, dmaAt, miscounted>>
  BY DEF D!StreamingPlaybackDone
<1>2. /\ ring' = ring /\ paintedtime' = paintedtime /\ buffers' = buffers
      /\ oldsamplepos' = oldsamplepos /\ submitted' = submitted /\ dmaPhase' = dmaPhase
      /\ dmaAt' = dmaAt /\ miscounted' = miscounted
  BY <1>1
<1>3. D!Sound
  BY DEF RingInv
<1>4. D!Sound'
  <2>1. Tail(queue) \in Seq(1 .. D!Output(SubmitFrames + 1))
    BY <1>1, <1>3, HeadTailProperties DEF D!Sound
  <2> QED  BY <1>1, <1>2, <1>3, <2>1 DEF D!Sound
<1>5. PICK r \in Nat : r = D!Remaining
  BY <1>3, RingTypes
<1>6. PICK x \in Nat : x = Head(queue)
  <2>1. queue \in Seq(Nat)
    BY <1>3, RingTypes
  <2> QED  BY <1>1, <2>1, HeadTailProperties
<1>7. PICK q \in Nat : q = D!Remaining' /\ r = x + q
  <2>1. queue \in Seq(Nat)
    BY <1>3, RingTypes
  <2>2. Tail(queue) \in Seq(Nat)
    BY <1>1, <2>1, HeadTailProperties
  <2>3. Len(Tail(queue)) \in 0 .. Len(Tail(queue))
    BY <2>2, LenProperties
  <2>4. D!Sums(Tail(queue))[Len(Tail(queue))] \in Nat
    BY <2>2, <2>3, SumsNat
  <2>5. D!Remaining = x + D!Sums(Tail(queue))[Len(Tail(queue))]
    BY <1>1, <1>6, <2>1, TotalOfTail DEF D!Remaining
  <2>6. D!Remaining' = D!Sums(Tail(queue))[Len(Tail(queue))]
    BY <1>1 DEF D!Remaining
  <2> QED  BY <1>5, <2>4, <2>5, <2>6
<1>8. Slack(dmaPhase)' = Slack(dmaPhase) /\ Counted' = Counted
  BY <1>2 DEF Counted
<1>9. PICK z \in Nat : z = submitted * OutRate
  BY <1>3, RingTypes
<1>10. PICK y \in Nat : y = x * InRate
  BY <1>0
<1>11. PICK u \in Nat : u = q * InRate
  BY <1>0
<1>12. r * InRate = y + u
  BY <1>0, <1>7, <1>10, <1>11
<1>13. Played = z - (y + u) /\ Played' = z - u
  BY <1>2, <1>5, <1>7, <1>9, <1>11, <1>12 DEF Played
<1>14. ASSUME Tracks PROVE Tracks'
  <2>1. PICK e \in Nat : e = Slack(dmaPhase)
    BY <1>3, RingTypes
  <2>2. PICK c \in Nat : c = Counted * OutRate
    BY <1>3, RingTypes
  <2>3. 0 <= z - (y + u) - e /\ c <= z - (y + u) - e + OutRate - 1
    BY <1>13, <1>14, <2>1, <2>2 DEF Tracks
  <2>4. 0 <= z - u - e /\ c <= z - u - e + OutRate - 1
    BY <1>0, <2>3
  <2>5. 0 <= Played' - Slack(dmaPhase)' /\ Counted' * OutRate <= Played' - Slack(dmaPhase)' + OutRate - 1
    BY <1>8, <1>13, <2>1, <2>2, <2>4
  <2>6. /\ paintedtime' <= Counted' + MixAhead \/ paintedtime' <= Frames
        /\ \A t \in submitted' .. paintedtime' - 1 : ring'[t % Frames] = t
    BY <1>2, <1>8, <1>14 DEF Tracks
  <2> QED  BY <2>5, <2>6 DEF Tracks
<1> QED  BY <1>2, <1>4, <1>14 DEF RingInv

\* What a write adds to both sides.
LEMMA WriteEven ==
  ASSUME NEW O \in Nat, NEW I \in Nat, NEW s \in Nat, NEW w \in Nat, NEW R \in Nat, NEW f \in Nat,
         NEW a \in Nat, NEW b \in Nat, NEW n \in Int, n = b - a
  PROVE  ((s + w) * O - (R + n) * I) - ((f + w) * O - I * b) = (s * O - R * I) - (f * O - I * a)
<1>1. (s + w) * O = s * O + w * O /\ (f + w) * O = f * O + w * O
  OBVIOUS
<1>2. n * I = I * b - I * a
  OBVIOUS
<1>3. (R + n) * I = R * I + n * I
  OBVIOUS
<1> QED  BY <1>1, <1>2, <1>3

\* A write to the driver.
LEMMA DriverGets ==
  ASSUME RingInv, D!QG_AudioWrite
  PROVE  RingInv'
<1>0. /\ Frames \in Nat /\ Frames >= 2 /\ OutRate \in Nat /\ OutRate >= 1 /\ InRate \in Nat
      /\ MixAhead \in Nat /\ SubmitFrames \in Nat /\ SubmitFrames >= 1
  BY SoundConstants
<1>1. /\ submitted < paintedtime
      /\ submitted' = submitted + D!WriteCount
      /\ dmaPhase' = D!Phase(dmaPhase + D!WriteCount)
      /\ queue' = IF D!Output(dmaPhase + D!WriteCount) - D!Output(dmaPhase) = 0 THEN queue
                  ELSE Append(queue, D!Output(dmaPhase + D!WriteCount) - D!Output(dmaPhase))
      /\ UNCHANGED <<ring, paintedtime, buffers, oldsamplepos, dmaAt, miscounted>>
  BY DEF D!QG_AudioWrite
<1>2. /\ ring' = ring /\ paintedtime' = paintedtime /\ buffers' = buffers
      /\ oldsamplepos' = oldsamplepos /\ dmaAt' = dmaAt /\ miscounted' = miscounted
  BY <1>1
<1>3. D!Sound
  BY DEF RingInv
<1>4. PICK s \in Nat : s = submitted
  BY <1>3, RingTypes
<1>5. PICK t \in Nat : t = paintedtime
  BY <1>3, RingTypes
<1>6. s < t
  BY <1>1, <1>4, <1>5
<1>7. PICK w \in 1 .. SubmitFrames : w = D!WriteCount /\ w <= t - s
  <2>1. PICK x \in 0 .. Frames - 1 : x = s % Frames
    BY <1>0, ModSplit
  <2>2. PICK l \in Nat : l = Frames - x /\ l >= 1
    BY <1>0, <2>1
  <2>3. PICK d \in Nat : d = t - s /\ d >= 1
    BY <1>6
  <2>4. PICK n \in Nat : n = (IF d > l THEN l ELSE d) /\ n >= 1 /\ n <= d
    BY <2>2, <2>3
  <2>5. D!WriteCount = IF n > SubmitFrames THEN SubmitFrames ELSE n
    BY <1>4, <1>5, <2>1, <2>2, <2>3, <2>4 DEF D!WriteCount
  <2> QED  BY <1>0, <2>3, <2>4, <2>5
<1>8. PICK f \in Nat : f = dmaPhase
  BY <1>3, RingTypes
<1>9. PICK a \in Nat : a = D!Output(f)
  BY OutputIs
<1>10. PICK b \in Nat : b = D!Output(f + w)
  <2>1. f + w \in Nat
    BY <1>0
  <2> QED  BY <2>1, OutputIs
<1>11. PICK k \in Nat : k = D!Output(SubmitFrames + 1)
  <2>1. SubmitFrames + 1 \in Nat
    BY <1>0
  <2> QED  BY <2>1, OutputIs
<1>12. PICK n \in 0 .. k : n = b - a
  BY <1>9, <1>10, <1>11, OutputGrows
<1>13. queue' = IF n = 0 THEN queue ELSE Append(queue, n)
  BY <1>1, <1>7, <1>8, <1>9, <1>10, <1>12
<1>14. PICK g \in 0 .. InRate : g = dmaPhase' /\ Slack(g) = Slack(f + w)
  <2>1. f + w \in Nat
    BY <1>0
  <2>2. D!Phase(f + w) \in 0 .. InRate /\ Slack(D!Phase(f + w)) = Slack(f + w)
    BY <2>1, PhaseIs
  <2> QED  BY <1>1, <1>7, <1>8, <2>2
<1>15. submitted' = s + w /\ s + w \in 0 .. t
  BY <1>0, <1>1, <1>4, <1>7
<1>16. D!Sound'
  <2>1. queue' \in Seq(1 .. k)
    <3>1. queue \in Seq(1 .. k)
      BY <1>3, <1>11 DEF D!Sound
    <3>2. CASE n = 0
      BY <1>13, <3>1, <3>2
    <3>3. CASE n # 0
      <4>1. n \in 1 .. k
        BY <3>3
      <4> QED  BY <1>13, <3>1, <3>3, <4>1, AppendProperties
    <3> QED  BY <3>2, <3>3
  <2>2. submitted' \in 0 .. paintedtime' /\ dmaPhase' \in 0 .. InRate
    BY <1>2, <1>5, <1>14, <1>15
  <2> QED  BY <1>2, <1>3, <1>11, <2>1, <2>2 DEF D!Sound
<1>17. PICK r \in Nat : r = D!Remaining
  BY <1>3, RingTypes
<1>18. D!Remaining' = r + n
  <2>1. queue \in Seq(Nat)
    BY <1>3, RingTypes
  <2>2. D!Remaining' = D!Sums(queue')[Len(queue')]
    BY DEF D!Remaining
  <2>3. r = D!Sums(queue)[Len(queue)]
    BY <1>17 DEF D!Remaining
  <2>4. CASE n = 0
    BY <1>13, <2>2, <2>3, <2>4
  <2>5. CASE n # 0
    <3>1. queue' = Append(queue, n) /\ n \in Nat
      BY <1>11, <1>13, <2>5
    <3> QED  BY <2>1, <2>2, <2>3, <3>1, TotalAppended
  <2> QED  BY <2>4, <2>5
<1>19. Played' - Slack(dmaPhase)' = Played - Slack(dmaPhase)
  <2>1. Played' = (s + w) * OutRate - (r + n) * InRate
    BY <1>15, <1>18 DEF Played
  <2>2. Slack(dmaPhase)' = (f + w) * OutRate - InRate * b
    BY <1>10, <1>14 DEF Slack
  <2>3. Played = s * OutRate - r * InRate
    BY <1>4, <1>17 DEF Played
  <2>4. Slack(dmaPhase) = f * OutRate - InRate * a
    BY <1>8, <1>9 DEF Slack
  <2>5. w \in Nat /\ n \in Int
    BY <1>0, <1>11
  <2>6. ((s + w) * OutRate - (r + n) * InRate) - ((f + w) * OutRate - InRate * b)
        = (s * OutRate - r * InRate) - (f * OutRate - InRate * a)
    BY <1>0, <1>12, <2>5, WriteEven
  <2> QED  BY <2>1, <2>2, <2>3, <2>4, <2>6
<1>20. Counted' = Counted
  BY <1>2 DEF Counted
<1>21. ASSUME Tracks PROVE Tracks'
  <2>1. PICK d \in Int : d = Played - Slack(dmaPhase)
    BY <1>3, RingTypes
  <2>2. 0 <= d /\ Counted * OutRate <= d + OutRate - 1
    BY <1>21, <2>1 DEF Tracks
  <2>3. 0 <= Played' - Slack(dmaPhase)' /\ Counted' * OutRate <= Played' - Slack(dmaPhase)' + OutRate - 1
    BY <1>19, <1>20, <2>1, <2>2
  <2>4. paintedtime' <= Counted' + MixAhead \/ paintedtime' <= Frames
    BY <1>2, <1>20, <1>21 DEF Tracks
  <2>5. \A i \in submitted' .. paintedtime' - 1 : ring'[i % Frames] = i
    <3>1. \A i \in s .. t - 1 : ring[i % Frames] = i
      BY <1>4, <1>5, <1>21 DEF Tracks
    <3>2. \A i \in s + w .. t - 1 : i \in s .. t - 1
      BY <1>0
    <3> QED  BY <1>2, <1>5, <1>15, <3>1, <3>2
  <2> QED  BY <2>3, <2>4, <2>5 DEF Tracks
<1> QED  BY <1>2, <1>16, <1>21 DEF RingInv

\* The times of an update are times, and the cells are painted for times.
LEMMA UpdateTypes ==
  ASSUME D!Sound, D!S_Update_
  PROVE  D!Sound' /\ D!Soundtime \in Nat /\ D!PaintFrom \in Nat /\ D!Buffers \in Nat
<1>0. /\ Frames \in Nat /\ Frames >= 2 /\ MixAhead \in Nat
  BY SoundConstants
<1>1. /\ dmaAt = "idle"
      /\ buffers' = D!Buffers /\ oldsamplepos' = D!SNDDMA_GetDMAPos
      /\ D!S_PaintChannels
      /\ paintedtime' = IF D!PaintTo > D!PaintFrom THEN D!PaintTo ELSE D!PaintFrom
      /\ submitted' = IF paintedtime' < submitted THEN paintedtime' ELSE submitted
      /\ dmaAt' = "submit" /\ dmaPhase' = dmaPhase /\ queue' = queue
  BY DEF D!S_Update_
<1>2. D!SNDDMA_GetDMAPos \in 0 .. Frames - 1
  BY PositionType
<1>3. D!Buffers \in Nat
  BY RingTypes DEF D!Buffers
<1>4. PICK s \in Nat : s = D!Soundtime
  <2>1. PICK b \in Nat : b = D!Buffers
    BY <1>3
  <2>2. b * Frames \in Nat
    BY <1>0
  <2> QED  BY <1>0, <1>2, <2>1, <2>2 DEF D!Soundtime
<1>5. PICK f \in Nat : f = D!PaintFrom
  <2>1. PICK x \in Nat : x = IF D!Chops THEN Frames ELSE paintedtime
    BY <1>0, RingTypes
  <2>2. D!PaintFrom = IF x < s THEN s ELSE x
    BY <1>4, <2>1 DEF D!PaintFrom
  <2> QED  BY <2>2
<1>6. D!PaintTo = s + MixAhead
  BY <1>4 DEF D!PaintTo
<1>7. PICK t \in Nat : t = paintedtime'
  BY <1>0, <1>1, <1>5, <1>6
<1>8. submitted' \in 0 .. t
  <2>1. PICK u \in Nat : u = submitted
    BY RingTypes
  <2>2. submitted' = IF t < u THEN t ELSE u
    BY <1>1, <1>7, <2>1
  <2> QED  BY <2>2
<1>9. ring' \in [0 .. Frames - 1 -> Nat \cup {D!Silence}]
  <2> DEFINE last(c) == (D!PaintTo - 1) - ((D!PaintTo - 1 - c) % Frames)
             cell(c) == IF miscounted' \/ (D!Chops /\ last(c) < D!PaintFrom) THEN D!Silence
                        ELSE IF last(c) >= D!PaintFrom THEN last(c) ELSE ring[c]
  <2>1. ring' = [c \in 0 .. Frames - 1 |-> cell(c)]
    BY <1>1 DEF D!S_PaintChannels
  <2>2. ASSUME NEW c \in 0 .. Frames - 1 PROVE cell(c) \in Nat \cup {D!Silence}
    <3>1. last(c) \in Int
      <4>1. PICK m \in Int : m = D!PaintTo - 1
        BY <1>0, <1>6
      <4>2. m - c \in Int
        BY <1>0, <4>1
      <4>3. PICK r \in 0 .. Frames - 1 : r = (m - c) % Frames
        BY <1>0, <4>2, ModSplit
      <4> QED  BY <1>0, <4>1, <4>3
    <3>2. ring[c] \in Nat \cup {D!Silence}
      BY DEF D!Sound
    <3> HIDE DEF last
    <3> QED  BY <1>5, <3>1, <3>2
  <2> HIDE DEF cell
  <2> QED  BY <2>1, <2>2
<1>10. D!Sound'
  <2>1. dmaAt' \in {"idle", "submit"} /\ oldsamplepos' \in 0 .. Frames - 1 /\ buffers' \in Nat
        /\ paintedtime' \in Nat /\ submitted' \in 0 .. paintedtime'
    BY <1>1, <1>2, <1>3, <1>7, <1>8
  <2>2. dmaPhase' \in 0 .. InRate /\ queue' \in Seq(1 .. D!Output(SubmitFrames + 1))
    BY <1>1 DEF D!Sound
  <2> QED  BY <1>9, <2>1, <2>2 DEF D!Sound
<1> QED  BY <1>3, <1>4, <1>5, <1>10

\* Laps apart: the last time of a cell is the time itself if that is within a lap below.
LEMMA LapsApart ==
  ASSUME NEW F \in Nat, F > 0, NEW m \in Int, NEW t \in Int, NEW s \in Int, NEW j \in Int,
         s <= m, m < s + F, s = t + j * F
  PROVE  /\ t <= m /\ m < t + F => s = t
         /\ m < t + F => s <= t
<1>1. ASSUME t <= m, m < t + F PROVE j = 0
  <2>1. CASE j >= 1
    <3>1. j * F >= F
      BY <2>1
    <3> QED  BY <1>1, <3>1
  <2>2. CASE j <= -1
    <3>1. j * F <= (-1) * F /\ (-1) * F = -F
      BY <2>2
    <3> QED  BY <1>1, <3>1
  <2> QED  BY <2>1, <2>2
<1>2. ASSUME m < t + F PROVE j <= 0
  <2>1. CASE j >= 1
    <3>1. j * F >= F
      BY <2>1
    <3> QED  BY <1>2, <3>1
  <2> QED  BY <2>1
<1>3. j = 0 => j * F = 0
  OBVIOUS
<1>4. j <= 0 => j * F <= 0
  OBVIOUS
<1> QED  BY <1>1, <1>2, <1>3, <1>4

\* The mixer is never behind what is played, but if the times are chopped off.
LEMMA Ahead ==
  ASSUME RingInv, ~miscounted, ~D!FallsBack, ~D!Chops
  PROVE  /\ D!Soundtime \in Nat /\ D!Soundtime <= submitted /\ Counted <= D!Soundtime
         /\ D!Soundtime * OutRate <= Played
<1>0. Frames \in Nat /\ Frames >= 2 /\ OutRate \in Nat /\ OutRate >= 1
  BY SoundConstants
<1>1. D!Sound
  BY DEF RingInv
<1>2. D!Soundtime = (IF D!Wraps THEN buffers + 1 ELSE buffers) * Frames + D!SNDDMA_GetDMAPos
  BY DEF D!Soundtime, D!Buffers
<1>3. PICK n \in Nat :
           /\ n <= submitted /\ n * OutRate <= Played
           /\ \/ ~D!Wraps /\ n = buffers * Frames + D!SNDDMA_GetDMAPos /\ Counted <= n
              \/ D!Wraps /\ n = (buffers + 1) * Frames + D!SNDDMA_GetDMAPos /\ Counted < n
              \/ /\ ~D!Wraps /\ buffers = 0 /\ oldsamplepos = 0 /\ D!SNDDMA_GetDMAPos = 0
                 /\ paintedtime = Frames /\ submitted = Frames
  BY WhereIs
<1>4. PICK c \in Nat : c = Counted
  BY <1>1, RingTypes
<1>5. CASE ~D!Wraps /\ n = buffers * Frames + D!SNDDMA_GetDMAPos /\ Counted <= n
  <2>1. D!Soundtime = n
    BY <1>2, <1>5
  <2> QED  BY <1>3, <1>5, <2>1
<1>6. CASE D!Wraps /\ n = (buffers + 1) * Frames + D!SNDDMA_GetDMAPos /\ Counted < n
  <2>1. D!Soundtime = n
    BY <1>2, <1>6
  <2> QED  BY <1>3, <1>4, <1>6, <2>1
<1>7. CASE /\ ~D!Wraps /\ buffers = 0 /\ oldsamplepos = 0 /\ D!SNDDMA_GetDMAPos = 0
           /\ paintedtime = Frames /\ submitted = Frames
  <2>1. D!Soundtime = 0 /\ Counted = 0
    BY <1>0, <1>2, <1>7 DEF Counted
  <2>2. 0 * OutRate = 0 /\ n * OutRate \in Nat
    BY <1>0
  <2>3. Played \in Int
    BY <1>1, RingTypes
  <2> QED  BY <1>0, <1>3, <1>7, <2>1, <2>2, <2>3
<1> QED  BY <1>3, <1>5, <1>6, <1>7

\* An update that goes on in time.
LEMMA GoesOnInTime ==
  ASSUME RingInv, D!S_Update_, ~miscounted', ~D!Chops
  PROVE  Tracks'
<1>0. /\ Frames \in Nat /\ Frames >= 2 /\ MixAhead \in Nat /\ MixAhead < Frames
      /\ OutRate \in Nat /\ OutRate >= 1
  BY SoundConstants
<1>1. /\ buffers' = D!Buffers /\ oldsamplepos' = D!SNDDMA_GetDMAPos
      /\ D!S_PaintChannels
      /\ paintedtime' = IF D!PaintTo > D!PaintFrom THEN D!PaintTo ELSE D!PaintFrom
      /\ submitted' = IF paintedtime' < submitted THEN paintedtime' ELSE submitted
      /\ dmaPhase' = dmaPhase /\ queue' = queue
      /\ miscounted' = (miscounted \/ D!FallsBack)
  BY DEF D!S_Update_
<1>2. D!Sound /\ ~miscounted /\ ~D!FallsBack /\ Tracks
  BY <1>1 DEF RingInv
<1>3. PICK u \in Nat : u = submitted
  BY <1>2, RingTypes
<1>4. PICK t \in Nat : t = paintedtime /\ u <= t
  BY <1>2, <1>3, RingTypes
<1>5. PICK s \in Nat : s = D!Soundtime /\ s <= u /\ Counted <= s /\ s * OutRate <= Played
  BY <1>2, <1>3, Ahead
<1>6. D!PaintFrom = t /\ D!PaintTo = s + MixAhead
  BY <1>3, <1>4, <1>5 DEF D!PaintFrom, D!PaintTo
<1>7. paintedtime' = (IF s + MixAhead > t THEN s + MixAhead ELSE t)
  BY <1>1, <1>6
<1>8. submitted' = u
  <2>1. PICK x \in Nat : x = paintedtime' /\ u <= x
    BY <1>0, <1>4, <1>7
  <2> QED  BY <1>1, <1>3, <2>1
<1>9. Counted' = s
  BY <1>1, <1>5 DEF Counted, D!Soundtime
<1>10. D!Remaining' = D!Remaining
  BY <1>1 DEF D!Remaining
<1>11. Played' = Played /\ Slack(dmaPhase)' = Slack(dmaPhase)
  BY <1>1, <1>3, <1>8, <1>10 DEF Played
<1>12. PICK v \in Int : v = Played
  BY <1>2, RingTypes
<1>13. PICK e \in 0 .. OutRate - 1 : e = Slack(dmaPhase)
  BY <1>2, RingTypes
<1>14. 0 <= Played' - Slack(dmaPhase)' /\ Counted' * OutRate <= Played' - Slack(dmaPhase)' + OutRate - 1
  <2>1. 0 <= v - e
    BY <1>2, <1>12, <1>13 DEF Tracks
  <2>2. PICK y \in Nat : y = s * OutRate
    BY <1>0
  <2>3. y <= v - e + OutRate - 1
    BY <1>0, <1>5, <1>12, <2>2
  <2> QED  BY <1>9, <1>11, <1>12, <1>13, <2>1, <2>2, <2>3
<1>15. paintedtime' <= Counted' + MixAhead \/ paintedtime' <= Frames
  <2>1. PICK c \in Nat : c = Counted
    BY <1>2, RingTypes
  <2>2. t <= c + MixAhead \/ t <= Frames
    BY <1>2, <1>4, <2>1 DEF Tracks
  <2> QED  BY <1>0, <1>5, <1>7, <1>9, <2>1, <2>2
<1>16. ASSUME NEW i \in u .. paintedtime' - 1
       PROVE  ring'[i % Frames] = i
  <2>1. PICK x \in Nat : x = paintedtime'
    BY <1>0, <1>7
  <2>2. i \in Int /\ u <= i /\ i < x
    <3>1. i \in u .. x - 1
      BY <1>16, <2>1
    <3> QED  BY <3>1
  <2>3. PICK m \in Int : m = D!PaintTo - 1 /\ m = s + MixAhead - 1
    BY <1>0, <1>6
  <2>4. PICK c \in 0 .. Frames - 1 : c = i % Frames
    BY <1>0, <2>2, ModSplit
  <2> DEFINE last == m - ((m - (i % Frames)) % Frames)
  <2>5. last \in Int /\ last <= m /\ m < last + Frames /\ \E j \in Int : last = i + j * Frames
    <3>1. Frames > 0
      BY <1>0
    <3> HIDE DEF last
    <3>2. LET l == m - ((m - (i % Frames)) % Frames)
          IN  l \in Int /\ l <= m /\ m < l + Frames /\ \E j \in Int : l = i + j * Frames
      BY <1>0, <2>2, <3>1, LastTime
    <3> QED  BY <3>2 DEF last
  <2>6. ring'[c] = IF last >= t THEN last ELSE ring[c]
    <3>1. ring'[c] = LET l == (D!PaintTo - 1) - ((D!PaintTo - 1 - c) % Frames)
                     IN  IF miscounted' \/ (D!Chops /\ l < D!PaintFrom) THEN D!Silence
                         ELSE IF l >= D!PaintFrom THEN l ELSE ring[c]
      BY <1>1, <2>4 DEF D!S_PaintChannels
    <3> QED  BY <1>6, <2>3, <2>4, <3>1
  <2>7. PICK l \in Int : l = last
    BY <2>5
  <2> HIDE DEF last
  <2>8. PICK j \in Int : l = i + j * Frames
    BY <2>5, <2>7
  <2>9. l <= m /\ m < l + Frames
    BY <2>5, <2>7
  <2>10. m < i + Frames
    BY <1>0, <1>5, <2>2, <2>3
  <2>11. (i <= m => l = i) /\ l <= i
    BY <1>0, <2>2, <2>8, <2>9, <2>10, LapsApart
  <2>12. CASE i >= t
    <3>1. i <= m
      BY <1>0, <1>7, <2>1, <2>2, <2>3, <2>12
    <3> QED  BY <2>2, <2>4, <2>6, <2>7, <2>11, <2>12, <3>1
  <2>13. CASE i < t
    <3>1. ~(l >= t)
      BY <2>2, <2>11, <2>13
    <3>2. i \in submitted .. paintedtime - 1
      BY <1>3, <1>4, <2>2, <2>13
    <3>3. ring[i % Frames] = i
      BY <1>2, <3>2 DEF Tracks
    <3> QED  BY <2>4, <2>6, <2>7, <3>1, <3>3
  <2> QED  BY <2>2, <2>12, <2>13
<1>17. \A i \in submitted' .. paintedtime' - 1 : ring'[i % Frames] = i
  BY <1>8, <1>16
<1> QED  BY <1>14, <1>15, <1>17 DEF Tracks

\* An update that chops the times off.
LEMMA ChopsTimes ==
  ASSUME RingInv, D!S_Update_, ~miscounted', D!Chops
  PROVE  Tracks'
<1>0. /\ Frames \in Nat /\ Frames >= 2 /\ MixAhead \in Nat /\ MixAhead < Frames
      /\ OutRate \in Nat /\ OutRate >= 1 /\ TimeLimit \in Nat /\ TimeLimit > 2 * Frames
  BY SoundConstants
<1>1. /\ buffers' = D!Buffers /\ oldsamplepos' = D!SNDDMA_GetDMAPos
      /\ paintedtime' = IF D!PaintTo > D!PaintFrom THEN D!PaintTo ELSE D!PaintFrom
      /\ submitted' = IF paintedtime' < submitted THEN paintedtime' ELSE submitted
      /\ dmaPhase' = dmaPhase /\ queue' = queue
      /\ miscounted' = (miscounted \/ D!FallsBack)
  BY DEF D!S_Update_
<1>2. D!Sound /\ ~miscounted /\ ~D!FallsBack /\ Tracks
  BY <1>1 DEF RingInv
<1>3. PICK u \in Nat : u = submitted
  BY <1>2, RingTypes
<1>4. PICK t \in Nat : t = paintedtime /\ u <= t
  BY <1>2, <1>3, RingTypes
<1>5. D!Wraps /\ t > TimeLimit
  BY <1>4 DEF D!Chops
<1>6. PICK pos \in 0 .. Frames - 1 : pos = D!SNDDMA_GetDMAPos
  BY <1>2, PositionType
<1>7. PICK b \in Nat : b = buffers
  BY <1>2, RingTypes
<1>8. PICK c \in Nat : c = Counted
  BY <1>2, RingTypes
<1>9. PICK n \in Nat : n <= u /\ n * OutRate <= Played /\ n = (b + 1) * Frames + pos /\ c < n
  BY <1>2, <1>3, <1>5, <1>6, <1>7, <1>8, WhereIs
<1>10. t <= c + MixAhead
  BY <1>0, <1>2, <1>4, <1>5, <1>8 DEF Tracks
<1>11. D!Buffers = 0 /\ D!Soundtime = pos
  BY <1>0, <1>6 DEF D!Buffers, D!Soundtime
<1>12. D!PaintFrom = Frames /\ D!PaintTo = pos + MixAhead
  BY <1>0, <1>11 DEF D!PaintFrom, D!PaintTo
<1>13. PICK x \in Nat : /\ x = paintedtime'
                        /\ x = (IF pos + MixAhead > Frames THEN pos + MixAhead ELSE Frames)
  BY <1>0, <1>1, <1>12
<1>14. n >= Frames + pos
  <2>1. (b + 1) * Frames = b * Frames + Frames /\ b * Frames \in Nat
    BY <1>0
  <2> QED  BY <1>0, <1>9, <2>1
<1>15. submitted' = x
  <2>1. x <= u
    BY <1>0, <1>9, <1>13, <1>14
  <2>2. submitted' = IF x < u THEN x ELSE u
    BY <1>1, <1>3, <1>13
  <2> QED  BY <2>1, <2>2
<1>16. Counted' = pos
  BY <1>0, <1>1, <1>6, <1>11 DEF Counted
<1>17. D!Remaining' = D!Remaining
  BY <1>1 DEF D!Remaining
<1>18. PICK r \in Nat : r = D!Remaining * InRate
  BY <1>2, RingTypes
<1>19. Played = u * OutRate - r /\ Played' = x * OutRate - r
  BY <1>3, <1>15, <1>17, <1>18 DEF Played
<1>20. n - u + x >= pos + 1
  BY <1>0, <1>4, <1>9, <1>10, <1>13
<1>21. x * OutRate - r >= pos * OutRate + OutRate
  <2>1. PICK k \in Int : k = n - u + x
    OBVIOUS
  <2>2. k * OutRate = n * OutRate - u * OutRate + x * OutRate
    BY <1>0, <2>1
  <2>3. k * OutRate >= (pos + 1) * OutRate /\ (pos + 1) * OutRate = pos * OutRate + OutRate
    BY <1>0, <1>20, <2>1
  <2>4. n * OutRate \in Nat /\ u * OutRate \in Nat /\ x * OutRate \in Nat /\ pos * OutRate \in Nat
    BY <1>0
  <2> QED  BY <1>0, <1>9, <1>19, <2>2, <2>3, <2>4
<1>22. PICK e \in 0 .. OutRate - 1 : e = Slack(dmaPhase)
  BY <1>2, RingTypes
<1>23. Slack(dmaPhase)' = e
  BY <1>1, <1>22
<1>24. 0 <= Played' - Slack(dmaPhase)' /\ Counted' * OutRate <= Played' - Slack(dmaPhase)' + OutRate - 1
  <2>1. PICK y \in Nat : y = pos * OutRate
    BY <1>0
  <2>2. PICK z \in Nat : z = x * OutRate
    BY <1>0
  <2>3. z - r >= y + OutRate
    BY <1>21, <2>1, <2>2
  <2> QED  BY <1>0, <1>16, <1>19, <1>23, <2>1, <2>2, <2>3
<1>25. paintedtime' <= Counted' + MixAhead \/ paintedtime' <= Frames
  BY <1>0, <1>13, <1>16
<1>26. \A i \in submitted' .. paintedtime' - 1 : ring'[i % Frames] = i
  BY <1>13, <1>15
<1> QED  BY <1>24, <1>25, <1>26 DEF Tracks

\* Every step of the ring keeps it.
LEMMA RingStep ==
  ASSUME RingInv, D!Next
  PROVE  RingInv'
<1>1. CASE D!StreamingPlaybackDone
  BY <1>1, TransferEnds
<1>2. CASE D!S_Update_
  <2>1. D!Sound'
    BY <1>2, UpdateTypes DEF RingInv
  <2>2. ASSUME ~miscounted' PROVE Tracks'
    BY <1>2, <2>2, GoesOnInTime, ChopsTimes
  <2> QED  BY <2>1, <2>2 DEF RingInv
<1>3. CASE D!QG_AudioWrite
  BY <1>3, DriverGets
<1>4. CASE D!WriteRefused \/ D!Submitted
  <2>1. /\ UNCHANGED <<ring, paintedtime, buffers, oldsamplepos, submitted, dmaPhase, queue, miscounted>>
        /\ dmaAt' = "idle"
    BY <1>4 DEF D!WriteRefused, D!Submitted
  <2>2. /\ ring' = ring /\ paintedtime' = paintedtime /\ buffers' = buffers
        /\ oldsamplepos' = oldsamplepos /\ submitted' = submitted /\ dmaPhase' = dmaPhase
        /\ queue' = queue /\ miscounted' = miscounted
    BY <2>1
  <2>3. D!Sound => D!Sound'
    BY <2>1, <2>2 DEF D!Sound
  <2>4. D!Remaining' = D!Remaining
    BY <2>2 DEF D!Remaining
  <2>5. Played' = Played /\ Counted' = Counted /\ Slack(dmaPhase)' = Slack(dmaPhase)
    BY <2>2, <2>4 DEF Played, Counted
  <2>6. Tracks => Tracks'
    BY <2>2, <2>5 DEF Tracks
  <2> QED  BY <2>2, <2>3, <2>6 DEF RingInv
<1> QED  BY <1>1, <1>2, <1>3, <1>4 DEF D!Next

\* And so does a step of another component.
LEMMA SoundStays ==
  ASSUME RingInv, UNCHANGED DVars
  PROVE  RingInv'
<1>1. /\ ring' = ring /\ paintedtime' = paintedtime /\ buffers' = buffers
      /\ oldsamplepos' = oldsamplepos /\ submitted' = submitted /\ dmaPhase' = dmaPhase
      /\ queue' = queue /\ miscounted' = miscounted /\ dmaAt' = dmaAt
  BY DEF DVars
<1>2. D!Sound => D!Sound'
  BY <1>1 DEF D!Sound
<1>3. D!Remaining' = D!Remaining
  BY <1>1 DEF D!Remaining
<1>4. Played' = Played /\ Counted' = Counted /\ Slack(dmaPhase)' = Slack(dmaPhase)
  BY <1>1, <1>3 DEF Played, Counted
<1>5. Tracks => Tracks'
  BY <1>1, <1>4 DEF Tracks
<1> QED  BY <1>1, <1>2, <1>5 DEF RingInv

\* What it says of the sound that is heard.
LEMMA RingSays ==
  ASSUME RingInv
  PROVE  HandsOutWhatWasPainted
<1>0. /\ Frames \in Nat
  BY SoundConstants
<1>1. D!HandsOutWhatWasPainted
  BY DEF RingInv, Tracks, D!HandsOutWhatWasPainted
<1>2. D!NeverOvershoots
  <2> SUFFICES ASSUME ~miscounted, ~D!FallsBack
               PROVE  D!Soundtime <= IF D!Chops THEN Frames ELSE paintedtime
    BY DEF D!NeverOvershoots
  <2>1. CASE D!Chops
    <3>1. PICK pos \in 0 .. Frames - 1 : pos = D!SNDDMA_GetDMAPos
      BY PositionType DEF RingInv
    <3>2. D!Soundtime = pos
      BY <1>0, <2>1, <3>1 DEF D!Soundtime, D!Buffers
    <3> QED  BY <1>0, <2>1, <3>2
  <2>2. CASE ~D!Chops
    <3>1. D!Soundtime \in Nat /\ D!Soundtime <= submitted
      BY <2>2, Ahead
    <3>2. submitted \in Nat /\ paintedtime \in Nat /\ submitted <= paintedtime
      BY RingTypes DEF RingInv
    <3> QED  BY <2>2, <3>1, <3>2
  <2> QED  BY <2>1, <2>2
<1> QED  BY <1>1, <1>2 DEF HandsOutWhatWasPainted, RingInv

\* What Quake hands to the driver was painted for that very time, and nothing is left out, as
\* long as the position did not fall back, for every length of the ring, of a chunk and of the
\* mixer's lead, every pair of rates, and every limit of times.
THEOREM RingIsSound == MCSpec => []HandsOutWhatWasPainted
<1>1. MCInit => RingInv
  BY RingStarts DEF MCInit
<1>2. RingInv /\ [MCNext]_MCVars => RingInv'
  <2> SUFFICES ASSUME RingInv, [MCNext]_MCVars PROVE RingInv'
    OBVIOUS
  <2>1. CASE D!Next
    BY <2>1, RingStep
  <2>2. CASE UNCHANGED DVars
    BY <2>2, SoundStays
  <2>3. D!Next \/ UNCHANGED DVars
    BY DEF MCNext, LOnly, MOnly, WOnly, SOnly, DOnly, MCVars
  <2> QED  BY <2>1, <2>2, <2>3
<1>3. RingInv => HandsOutWhatWasPainted
  BY RingSays
<1> QED  BY <1>1, <1>2, <1>3, PTL DEF MCSpec

-----------------------------------------------------------------------------
(* Both.                                                                    *)

\* Every command of Doom is run once, as it was made, and no pointer is left to a mover that is
\* gone (d_loop.c; p_doors.c, p_plats.c, p_ceilng.c, p_tick.c).
THEOREM MadeAndMoved == L!Spec /\ M!Spec => []RunsWhatWasMade
<1>1. L!RunsWhatWasMade /\ M!Sound => RunsWhatWasMade
  BY DEF RunsWhatWasMade
<1> QED  BY <1>1, LoopRunsWhatWasMade, MoversAreSound, PTL

=============================================================================
