----------------------------- MODULE DoomWeapon -----------------------------
(***************************************************************************)
(* The weapon in the hands of a player of Doom (src/doomgeneric/p_pspr.c,  *)
(* with p_user.c and p_inter.c): it comes up, is ready, goes through the   *)
(* states of an attack (info.c), and goes down for another.  Ammunition is *)
(* checked when an attack begins and taken when the shot is fired; when    *)
(* there is too little, another weapon is chosen.                          *)
(*                                                                         *)
(* A state of the weapon lasts one tic here.                               *)
(***************************************************************************)
EXTENDS Integers, Sequences

CONSTANTS
  Weapons,    \* of this level, with "fist" and "pistol"; the super shotgun is of Doom 2 only
  Max,        \* maxammo, of each kind
  Clip,       \* clipammo, of each kind
  BfgCells,   \* deh_bfg_cells_per_shot
  Generous,   \* gameskill is sk_baby or sk_nightmare
  Bottom      \* the tics it takes to lower or raise a weapon

NoChange == "nochange"
AmmoType == {"clip", "shell", "cell", "misl"}
WeaponAssumption ==
  /\ {"fist", "pistol"} \subseteq Weapons /\ NoChange \notin Weapons
  /\ Max \in [AmmoType -> Nat] /\ Clip \in [AmmoType -> Nat \ {0}]
  /\ BfgCells \in Nat /\ Bottom \in Nat /\ Generous \in BOOLEAN

\* weaponinfo (d_items.c), what an attack does from state to state (info.c), and what it takes.
AmmoOf == [w \in Weapons |-> CASE w \in {"pistol", "chaingun"} -> "clip"
                               [] w \in {"shotgun", "supershotgun"} -> "shell"
                               [] w \in {"plasma", "bfg"} -> "cell"
                               [] w = "missile" -> "misl"
                               [] OTHER -> "noammo"]
Attack == [w \in Weapons |-> CASE w = "chaingun" -> <<"fire", "fire", "refire">>
                               [] w = "plasma" -> <<"fire", "refire">>
                               [] w = "chainsaw" -> <<"fire", "fire", "refire">>
                               [] w = "supershotgun" -> <<"wait", "fire", "check", "refire", "refire">>
                               [] OTHER -> <<"wait", "fire", "refire">>]
Takes(w) == CASE w = "bfg" -> BfgCells [] w = "supershotgun" -> 2 [] OTHER -> 1

VARIABLE p    \* the player
vars == <<p>>

Reborn ==
  [ready |-> "pistol", pending |-> NoChange, owned |-> {"fist", "pistol"}, alive |-> TRUE,
   ammo |-> [a \in AmmoType |-> IF a = "clip" THEN Max[a] ELSE 0],
   at |-> "up", state |-> 0, sy |-> Bottom, attackdown |-> TRUE, fired |-> FALSE]

-----------------------------------------------------------------------------
HasAmmo(q, w) == AmmoOf[w] = "noammo" \/ q.ammo[AmmoOf[w]] >= Takes(w)

Goes(q, at) == [q EXCEPT !.at = at, !.state = 0]

\* P_CheckAmmo's preferences: the first that is owned and has ammunition (for the super
\* shotgun and the BFG, more than a shot).
Preferred(q) ==
  LET Own(w, a, n) == w \in q.owned /\ q.ammo[a] > n IN
  CASE Own("plasma", "cell", 0) -> "plasma"
    [] ~Own("plasma", "cell", 0) /\ Own("supershotgun", "shell", 2) -> "supershotgun"
    [] OTHER -> CASE Own("chaingun", "clip", 0) -> "chaingun"
                  [] ~Own("chaingun", "clip", 0) /\ Own("shotgun", "shell", 0) -> "shotgun"
                  [] OTHER -> IF q.ammo["clip"] > 0 THEN "pistol"
                              ELSE IF "chainsaw" \in q.owned THEN "chainsaw"
                              ELSE IF Own("missile", "misl", 0) THEN "missile"
                              ELSE IF Own("bfg", "cell", BfgCells) THEN "bfg"
                              ELSE "fist"

P_CheckAmmo(q) ==
  IF HasAmmo(q, q.ready) THEN q ELSE Goes([q EXCEPT !.pending = Preferred(q)], "down")

\* Mutant: the chaingun fires its second shot without a look.
FireBlind(q) ==
  LET a == AmmoOf[q.ready] IN
  IF a = "noammo" THEN [q EXCEPT !.fired = TRUE]
  ELSE [q EXCEPT !.ammo[a] = @ - Takes(q.ready), !.fired = TRUE]

\* A_FirePistol and the others; the chaingun looks again whether there is anything to fire.
Fire(q) ==
  LET a == AmmoOf[q.ready] IN
  IF a = "noammo" THEN [q EXCEPT !.fired = TRUE]
  ELSE IF q.ready = "chaingun" /\ q.ammo[a] = 0 THEN q
  ELSE [q EXCEPT !.ammo[a] = @ - Takes(q.ready), !.fired = TRUE]

\* P_SetPsprite to the first state of the attack, with its action.
P_FireWeapon(q) ==
  LET c == P_CheckAmmo(q)
      first == [c EXCEPT !.at = "attack", !.state = 1]
  IN  IF ~HasAmmo(q, q.ready) THEN c
      ELSE IF Attack[q.ready][1] = "fire" THEN Fire(first) ELSE first

A_WeaponReady(q, attack) ==
  CASE q.pending # NoChange \/ ~q.alive -> Goes(q, "down")
    [] q.pending = NoChange /\ q.alive /\ attack ->
         IF ~q.attackdown \/ q.ready \notin {"missile", "bfg"}
           THEN P_FireWeapon([q EXCEPT !.attackdown = TRUE]) ELSE q
    [] OTHER -> [q EXCEPT !.attackdown = FALSE]

A_ReFire(q, attack) ==
  IF attack /\ q.pending = NoChange /\ q.alive THEN P_FireWeapon(q) ELSE P_CheckAmmo(q)

\* The next state of the attack: the last leads back to ready, unless its action led elsewhere
\* (A_CloseShotgun2 of the super shotgun asks to fire again as well, and is not the last).
Attacks(q, attack) ==
  LET n == q.state + 1
      c == [q EXCEPT !.state = n]
      r == A_ReFire(c, attack)
  IN  CASE Attack[q.ready][n] = "wait"  -> c
        [] Attack[q.ready][n] = "fire"  -> Fire(c)
        [] Attack[q.ready][n] = "check" -> P_CheckAmmo(c)
        [] OTHER -> IF r.at = "attack" /\ r.state = n /\ n = Len(Attack[q.ready]) THEN Goes(r, "ready") ELSE r

P_BringUpWeapon(q) == [Goes(q, "up") EXCEPT !.pending = NoChange, !.sy = Bottom]

A_Lower(q) ==
  IF q.sy + 1 < Bottom THEN [q EXCEPT !.sy = @ + 1]
  ELSE IF ~q.alive THEN [q EXCEPT !.sy = Bottom]
  ELSE P_BringUpWeapon([q EXCEPT !.ready = q.pending])

A_Raise(q) == IF q.sy > 1 THEN [q EXCEPT !.sy = @ - 1] ELSE Goes([q EXCEPT !.sy = 0], "ready")

P_MovePsprites(q, attack) ==
  CASE q.at = "ready"  -> A_WeaponReady(q, attack)
    [] q.at = "attack" -> Attacks(q, attack)
    [] q.at = "down"   -> A_Lower(q)
    [] q.at = "up"     -> A_Raise(q)

-----------------------------------------------------------------------------
(* The actions.                                                             *)

\* The weapon a number key stands for; strength is the power of the berserk pack.
Chosen(w, strength) ==
  CASE w = "fist" /\ "chainsaw" \in p.owned /\ ~(p.ready = "chainsaw" /\ strength) -> "chainsaw"
    [] w = "shotgun" /\ "supershotgun" \in p.owned /\ p.ready # "supershotgun" -> "supershotgun"
    [] OTHER -> w

P_PlayerThink(attack, change) ==
  /\ p.alive
  /\ \E strength \in BOOLEAN :
       LET w == IF change = NoChange THEN NoChange ELSE Chosen(change, strength)
           q == IF w \in p.owned \ {p.ready} THEN [p EXCEPT !.pending = w] ELSE p
       IN  p' = P_MovePsprites([q EXCEPT !.fired = FALSE], attack)

\* The dead player's weapon, until "use" gives a new life (G_DoReborn, G_PlayerReborn,
\* P_SetupPsprites).
P_DeathThink(use) ==
  /\ ~p.alive
  /\ p' = IF use THEN Reborn ELSE P_MovePsprites([p EXCEPT !.fired = FALSE], FALSE)

\* P_KillMobj and P_DropWeapon.
Killed == p.alive /\ p' = [Goes(p, "down") EXCEPT !.alive = FALSE, !.fired = FALSE]

\* P_GiveAmmo: half a clip for 0, and double in two of the skills; to a player who had none it gives the weapon to use it with,
\* if what is held is worse.
P_GiveAmmo(q, a, num) ==
  LET n == (IF Generous THEN 2 ELSE 1) * IF num = 0 THEN Clip[a] \div 2 ELSE num * Clip[a]
      got == IF q.ammo[a] + n > Max[a] THEN Max[a] ELSE q.ammo[a] + n
      better == CASE a = "clip" /\ q.ready = "fist" ->
                       IF "chaingun" \in q.owned THEN "chaingun" ELSE "pistol"
                  [] a = "shell" /\ q.ready \in {"fist", "pistol"} -> "shotgun"
                  [] a = "cell" /\ q.ready \in {"fist", "pistol"} -> "plasma"
                  [] a = "misl" /\ q.ready = "fist" -> "missile"
                  [] OTHER -> NoChange
  IN  IF q.ammo[a] = Max[a] THEN q
      ELSE [q EXCEPT !.ammo[a] = got,
                     !.pending = IF q.ammo[a] = 0 /\ better \in q.owned THEN better ELSE @]

TouchAmmo(a, num) ==
  /\ p.alive /\ p.ammo[a] < Max[a]
  /\ p' = [P_GiveAmmo(p, a, num) EXCEPT !.fired = FALSE]

P_GiveWeapon(w, dropped) ==
  /\ p.alive
  /\ LET q == IF AmmoOf[w] = "noammo" THEN p ELSE P_GiveAmmo(p, AmmoOf[w], IF dropped THEN 1 ELSE 2)
     IN  p' = [q EXCEPT !.owned = @ \cup {w}, !.fired = FALSE,
                        !.pending = IF w \in p.owned THEN @ ELSE w]

\* A new level: P_SetupPsprites.
NewLevel == p.alive /\ p' = P_BringUpWeapon([p EXCEPT !.pending = p.ready, !.fired = FALSE])

Init == p = Reborn

Hold == P_PlayerThink(TRUE, NoChange)

Next ==
  \/ \E attack \in BOOLEAN, change \in Weapons \cup {NoChange} : P_PlayerThink(attack, change)
  \/ \E use \in BOOLEAN : P_DeathThink(use)
  \/ Killed \/ NewLevel
  \/ \E a \in AmmoType, num \in {0, 1} : TouchAmmo(a, num)
  \/ \E w \in Weapons \ {"fist", "pistol"}, dropped \in BOOLEAN : P_GiveWeapon(w, dropped)

Spec == Init /\ [][Next]_vars
FairSpec == Spec /\ WF_vars(Hold)

-----------------------------------------------------------------------------
(* What holds.                                                              *)

\* What is paid for a shot was there when the attack began, states ago: ammunition never goes
\* below nothing.  A weapon goes down for another (A_Lower takes it from pendingweapon without
\* a look), which the player has; and a dead player's weapon stays down.
Sound ==
  /\ \A a \in AmmoType : p.ammo[a] \in 0 .. Max[a]
  /\ p.ready \in p.owned /\ p.pending \in p.owned \cup {NoChange}
  /\ p.at = "down" /\ p.alive => p.pending # NoChange
  /\ ~p.alive => p.at = "down"

\* The missile launcher and the BFG, brought up with the button held, wait for its release.
NoAutoFire == p.at = "ready" /\ p.ready \in {"missile", "bfg"} /\ p.attackdown

\* With the button held, a living player's attack comes again and again, whatever there is to
\* fire: the weapon that P_CheckAmmo chooses can be used ("If everything fails", the fist).
Attacking == p.fired \/ ~p.alive \/ NoAutoFire
KeepsAttacking == <>[][Hold]_vars => []<>Attacking

=============================================================================
