----------------------------- MODULE GamesProofs ----------------------------
(***************************************************************************)
(* The games that MCGames puts together.  Quake's fire button, for any     *)
(* keys and however short the queues are; the channels of Quake's mixer,   *)
(* for any sounds and numbers of channels; and the states of Doom, for     *)
(* every number of levels and demos and however many commands are made     *)
(* ahead: the menu, the level and the title sequence each leave what is to *)
(* change to the next tic, and the states fit each other whatever they     *)
(* leave in whatever order.                                                *)
(***************************************************************************)
EXTENDS MCGames, SequenceTheorems, WellFoundedInduction, TLAPS

-----------------------------------------------------------------------------
(* Sequences.                                                               *)

\* What is left when the first is taken.
LEMMA TailOf ==
  ASSUME NEW S, NEW s \in Seq(S), s # <<>>
  PROVE  /\ Tail(s) \in Seq(S) /\ Head(s) = s[1] /\ Head(s) \in S
         /\ Len(s) \in Nat /\ Len(s) >= 1 /\ Len(Tail(s)) = Len(s) - 1
         /\ \A i \in 1 .. Len(s) - 1 : Tail(s)[i] = s[i + 1]
BY HeadTailProperties

\* Something is taken from the front if need be, and something else comes behind.
LEMMA Passed ==
  ASSUME NEW S, NEW s \in Seq(S), NEW e \in S, NEW full \in BOOLEAN, full => s # <<>>
  PROVE  LET t == Append(IF full THEN Tail(s) ELSE s, e)
             d == IF full THEN 1 ELSE 0
         IN  /\ t \in Seq(S) /\ Len(s) \in Nat /\ Len(t) = Len(s) - d + 1
             /\ \A i \in 1 .. Len(s) - d : t[i] = s[i + d]
             /\ t[Len(s) - d + 1] = e
<1>1. CASE full
  <2> DEFINE r == Tail(s)
  <2>1. r \in Seq(S) /\ Len(s) \in Nat /\ Len(r) = Len(s) - 1
        /\ \A i \in 1 .. Len(s) - 1 : r[i] = s[i + 1]
    BY <1>1, TailOf
  <2>2. /\ Append(r, e) \in Seq(S) /\ Len(Append(r, e)) = Len(r) + 1
        /\ \A i \in 1 .. Len(r) : Append(r, e)[i] = r[i]
        /\ Append(r, e)[Len(r) + 1] = e
    <3> HIDE DEF r
    <3> QED  BY <2>1, AppendProperties
  <2> HIDE DEF r
  <2>3. Append(IF full THEN Tail(s) ELSE s, e) = Append(r, e)
    BY <1>1 DEF r
  <2> QED  BY <1>1, <2>1, <2>2, <2>3
<1>2. CASE ~full
  <2>1. /\ Append(s, e) \in Seq(S) /\ Len(Append(s, e)) = Len(s) + 1 /\ Len(s) \in Nat
        /\ \A i \in 1 .. Len(s) : Append(s, e)[i] = s[i]
        /\ Append(s, e)[Len(s) + 1] = e
    BY AppendProperties
  <2> QED  BY <1>2, <2>1
<1> QED  BY <1>1, <1>2

\* A pair as a function.
LEMMA PairIn ==
  ASSUME NEW S, NEW x \in S, NEW y \in S
  PROVE  <<x, y>> \in [1 .. 2 -> S]
<1>1. <<x, y>> = [i \in 1 .. 2 |-> <<x, y>>[i]]
  OBVIOUS
<1>2. \A i \in 1 .. 2 : <<x, y>>[i] \in S
  OBVIOUS
<1>3. [i \in 1 .. 2 |-> <<x, y>>[i]] \in [1 .. 2 -> S]
  BY <1>2
<1> QED  BY <1>1, <1>3

\* And what its two members say of it.
LEMMA PairIs ==
  ASSUME NEW S, NEW f \in [1 .. 2 -> S], NEW x, NEW y
  PROVE  f = <<x, y>> <=> f[1] = x /\ f[2] = y
<1>1. ASSUME f[1] = x, f[2] = y PROVE f = <<x, y>>
  <2>1. f = [i \in 1 .. 2 |-> f[i]]
    OBVIOUS
  <2>2. <<x, y>> = [i \in 1 .. 2 |-> <<x, y>>[i]]
    OBVIOUS
  <2>3. \A i \in 1 .. 2 : f[i] = <<x, y>>[i]
    BY <1>1
  <2> QED  BY <2>1, <2>2, <2>3
<1> QED  BY <1>1

\* Induction, as a fact about sets: the library's theorem on the order of the numbers says that
\* a set of them has a least one.
LEMMA Least ==
  ASSUME NEW T \in SUBSET Nat, T # {}
  PROVE  \E x \in T : \A y \in T : x <= y
<1>1. IsWellFoundedOn(OpToRel(<, Nat), Nat)
  BY NatLessThanWellFounded
<1>2. PICK x \in T : \A y \in T : ~(<<y, x>> \in OpToRel(<, Nat))
  BY <1>1, WFMin
<1>3. \A m, n \in Nat : <<m, n>> \in OpToRel(<, Nat) <=> m < n
  BY DEF OpToRel
<1>4. \A y \in T : ~(y < x)
  BY <1>2, <1>3
<1> QED  BY <1>4

\* And so what holds of 0 and goes on from one to the next holds of them all.
LEMMA Induct ==
  ASSUME NEW T, 0 \in T, \A n \in Nat : n \in T => n + 1 \in T
  PROVE  Nat \subseteq T
<1> SUFFICES ASSUME Nat \ T # {} PROVE FALSE
  OBVIOUS
<1>1. PICK x \in Nat \ T : \A y \in Nat \ T : x <= y
  BY Least
<1>2. x # 0 /\ x - 1 \in Nat /\ x - 1 \in T
  BY <1>1
<1>3. x - 1 + 1 = x
  BY <1>1
<1> QED  BY <1>1, <1>2, <1>3

-----------------------------------------------------------------------------
(* The keys of Quake.                                                       *)

KeyEvent  == [key : FireKeys \cup Taps, down : BOOLEAN]
PlainLine == {"map", "disconnect", "wait", "plus", "minus", "toggleconsole"}
KeyLine   == {"+", "-", "unbind"}
Command   == (KeyLine \X FireKeys) \cup (PlainLine \X {"none"})
Holder    == FireKeys \cup {"none", "typed"}

Up(k) == [key |-> k, down |-> FALSE]

ButtonState == [down : [1 .. 2 -> Holder], on : BOOLEAN, pressed : BOOLEAN]

\* A finger is on the key, or that it went up has not been taken yet.
OnItsWay(k) == k \in keyHeld \/ \E i \in 1 .. Len(keyUsb) : keyUsb[i] = Up(k)
Behind(k, i) == \E j \in i + 1 .. Len(keyCbuf) : keyCbuf[j] = <<"-", k>>

KeysType ==
  /\ keyUsb \in Seq(KeyEvent) /\ Len(keyUsb) <= UsbMax
  /\ keyHeld \subseteq FireKeys
  /\ keyRepeats \in [FireKeys -> Nat]
  /\ keyCbuf \in Seq(Command)
  /\ keyGame \in BOOLEAN /\ keyOwed \in BOOLEAN
  /\ keyB \in ButtonState

\* What the button is, by itself.
ButtonOK ==
  /\ keyB.on <=> (keyB.down # <<"none", "none">>)
  /\ keyB.down[1] # keyB.down[2] \/ keyB.down[1] = "none"
  /\ keyOwed => keyB.pressed

\* After each event that a key went down there is one that it went up, or it is held.
EventsOK ==
  \A i \in 1 .. Len(keyUsb) :
    keyUsb[i].key \in FireKeys /\ keyUsb[i].down =>
      \/ keyUsb[i].key \in keyHeld
      \/ \E j \in i + 1 .. Len(keyUsb) : keyUsb[j] = Up(keyUsb[i].key)

\* After each command that it is down there is one that it is up, or that is on its way.
CommandsOK ==
  \A i \in 1 .. Len(keyCbuf), k \in FireKeys \ keyLost :
    keyCbuf[i] = <<"+", k>> => OnItsWay(k) \/ Behind(k, i)

\* And so it is with a key that holds the button.
HoldersOK ==
  \A i \in 1 .. 2 : keyB.down[i] \in FireKeys \ keyLost =>
    OnItsWay(keyB.down[i]) \/ Behind(keyB.down[i], 0)

KeysInv ==
  /\ KeysType /\ ButtonOK /\ EventsOK /\ CommandsOK /\ HoldersOK
  /\ FireKeys \ keyLost \subseteq keyBound
  /\ keyDest = "menu" => keyPage # "none"

\* What is said of the commands and of the button is kept when keys go the way of their events.
LEMMA WayKeeps ==
  ASSUME CommandsOK, HoldersOK, keyLost \subseteq keyLost',
         UNCHANGED <<keyCbuf, keyB>>,
         \A k \in FireKeys \ keyLost' : OnItsWay(k) => OnItsWay(k)'
  PROVE  CommandsOK' /\ HoldersOK'
BY DEF CommandsOK, HoldersOK, Behind

\* EnqueueUsbKey: a key that is pressed, or the one whose release comes, stays on its way.
LEMMA DeviceKeeps ==
  ASSUME KeysInv, NEW e \in KeyEvent, K!Device(e),
         keyHeld' \subseteq FireKeys,
         \A k \in keyHeld \ keyHeld' : e = Up(k),
         e.key \in FireKeys /\ e.down => e.key \in keyHeld'
  PROVE  KeysInv'
<1> DEFINE full == Len(keyUsb) = UsbMax
           d == IF full THEN 1 ELSE 0
<1>1. keyUsb' = Append(IF full THEN Tail(keyUsb) ELSE keyUsb, e)
  BY DEF K!Device, K!EnqueueUsbKey
<1>2. keyLost' = IF full /\ Head(keyUsb).key \in FireKeys /\ ~Head(keyUsb).down
                 THEN keyLost \cup {Head(keyUsb).key} ELSE keyLost
  BY DEF K!Device, K!EnqueueUsbKey
<1>3. UNCHANGED <<keyRepeats, keyDest, keyPage, keyCbuf, keyBound, keyGame, keyB, keyOwed>>
  BY DEF K!Device, K!ui
<1>4. keyUsb \in Seq(KeyEvent) /\ UsbMax \in Nat \ {0} /\ Len(keyUsb) <= UsbMax
  BY KeysAssumed DEF KeysInv, KeysType, K!KeysAssumption
<1>5. full => keyUsb # <<>>
  BY <1>4
<1>6. /\ keyUsb' \in Seq(KeyEvent) /\ Len(keyUsb) \in Nat /\ Len(keyUsb') = Len(keyUsb) - d + 1
      /\ \A i \in 1 .. Len(keyUsb) - d : keyUsb'[i] = keyUsb[i + d]
      /\ keyUsb'[Len(keyUsb) - d + 1] = e
  <2> HIDE DEF full
  <2>1. full \in BOOLEAN
    BY DEF full
  <2> QED  BY <1>1, <1>4, <1>5, <2>1, Passed
<1>7. full => Head(keyUsb) = keyUsb[1]
  BY <1>4, <1>5, TailOf
<1>8. Len(keyUsb) - d \in Nat /\ d \in Nat /\ Len(keyUsb') <= UsbMax
  BY <1>4, <1>6
<1>9. \A k \in FireKeys \ keyLost' : OnItsWay(k) => OnItsWay(k)'
  <2> SUFFICES ASSUME NEW k \in FireKeys \ keyLost', OnItsWay(k) PROVE OnItsWay(k)'
    OBVIOUS
  <2>1. CASE k \in keyHeld
    <3>1. CASE k \in keyHeld'
      BY <3>1 DEF OnItsWay
    <3>2. CASE k \notin keyHeld'
      <4>1. e = Up(k)
        BY <2>1, <3>2
      <4> QED  BY <4>1, <1>6, <1>8 DEF OnItsWay
    <3> QED  BY <3>1, <3>2
  <2>2. CASE k \notin keyHeld
    <3>1. PICK i \in 1 .. Len(keyUsb) : keyUsb[i] = Up(k)
      BY <2>2 DEF OnItsWay
    <3>2. i - d \in 1 .. Len(keyUsb) - d
      <4>1. CASE full /\ i = 1
        BY <4>1, <3>1, <1>2, <1>7 DEF Up
      <4>2. CASE ~(full /\ i = 1)
        BY <4>2, <3>1, <1>6
      <4> QED  BY <4>1, <4>2
    <3>3. keyUsb'[i - d] = Up(k)
      <4>1. keyUsb'[i - d] = keyUsb[i - d + d]
        BY <3>2, <1>6
      <4>2. i - d + d = i
        BY <3>1, <1>8
      <4> QED  BY <4>1, <4>2, <3>1
    <3>4. i - d \in 1 .. Len(keyUsb')
      BY <3>2, <1>6, <1>8
    <3> QED  BY <3>3, <3>4 DEF OnItsWay
  <2> QED  BY <2>1, <2>2
<1>10. keyLost \subseteq keyLost'
  BY <1>2
<1>11. CommandsOK' /\ HoldersOK'
  BY <1>3, <1>9, <1>10, WayKeeps DEF KeysInv
<1>12. EventsOK'
  <2> SUFFICES ASSUME NEW i \in 1 .. Len(keyUsb'), keyUsb'[i].key \in FireKeys, keyUsb'[i].down,
                      keyUsb'[i].key \notin keyHeld'
               PROVE  \E j \in i + 1 .. Len(keyUsb') : keyUsb'[j] = Up(keyUsb'[i].key)
    BY DEF EventsOK, Up
  <2>1. i \in 1 .. Len(keyUsb) - d
    <3>1. CASE i = Len(keyUsb) - d + 1
      BY <3>1, <1>6
    <3> QED  BY <3>1, <1>6, <1>8
  <2> DEFINE k == keyUsb'[i].key
             m == i + d
  <2>2. k = keyUsb[m].key /\ keyUsb[m].down /\ k \in FireKeys /\ m \in 1 .. Len(keyUsb)
    BY <2>1, <1>6, <1>8
  <2>3. CASE k \in keyHeld
    <3>1. e = Up(k)
      BY <2>3
    <3>2. i + 1 <= Len(keyUsb) - d + 1 /\ i \in Nat
      BY <2>1, <1>8
    <3> QED  BY <3>1, <3>2, <1>6, <1>8
  <2>4. CASE k \notin keyHeld
    <3>1. EventsOK
      BY DEF KeysInv
    <3>2. PICK j \in m + 1 .. Len(keyUsb) : keyUsb[j] = Up(k)
      <4> HIDE DEF k, m
      <4> QED  BY <3>1, <2>2, <2>4 DEF EventsOK
    <3>3. j - d \in i + 1 .. Len(keyUsb) - d
      BY <1>8, <2>1
    <3>4. keyUsb'[j - d] = keyUsb[j - d + d] /\ j - d + d = j
      BY <3>3, <1>6, <1>8, <2>1
    <3> QED  BY <3>2, <3>3, <3>4, <1>6, <1>8
  <2> QED  BY <2>3, <2>4
<1> QED
  <2>1. KeysType'
    BY <1>3, <1>6, <1>8 DEF KeysInv, KeysType
  <2>2. ButtonOK'
    BY <1>3 DEF KeysInv, ButtonOK
  <2>3. FireKeys \ keyLost' \subseteq keyBound' /\ (keyDest' = "menu" => keyPage' # "none")
    BY <1>3, <1>10 DEF KeysInv
  <2> QED  BY <2>1, <2>2, <2>3, <1>11, <1>12 DEF KeysInv

\* A finger goes down on a key that fires, or up.
LEMMA PressKeeps ==
  ASSUME KeysInv, NEW k \in FireKeys, K!Press(k) \/ K!Release(k)
  PROVE  KeysInv'
<1>1. CASE K!Press(k)
  <2> DEFINE e == [key |-> k, down |-> TRUE]
  <2>1. K!Device(e) /\ keyHeld' = keyHeld \cup {k} /\ keyHeld \subseteq FireKeys
    BY <1>1 DEF K!Press, KeysInv, KeysType
  <2>2. e \in KeyEvent
    BY DEF KeyEvent
  <2> QED  BY <2>1, <2>2, DeviceKeeps
<1>2. CASE K!Release(k)
  <2> DEFINE e == [key |-> k, down |-> FALSE]
  <2>1. K!Device(e) /\ keyHeld' = keyHeld \ {k} /\ keyHeld \subseteq FireKeys
    BY <1>2 DEF K!Release, KeysInv, KeysType
  <2>2. e \in KeyEvent
    BY DEF KeyEvent
  <2>3. \A l \in keyHeld \ keyHeld' : e = Up(l)
    BY <2>1 DEF Up
  <2> QED  BY <2>1, <2>2, <2>3, DeviceKeeps
<1> QED  BY <1>1, <1>2

\* And on one that is let go at once, which makes commands only.
LEMMA TapKeeps ==
  ASSUME KeysInv, NEW k \in Taps, K!Tap(k)
  PROVE  KeysInv'
<1> DEFINE e == [key |-> k, down |-> TRUE]
<1>1. K!Device(e) /\ keyHeld' = keyHeld /\ keyHeld \subseteq FireKeys
  BY DEF K!Tap, KeysInv, KeysType
<1>2. e \in KeyEvent /\ k \notin FireKeys
  BY KeysAssumed DEF KeyEvent, K!KeysAssumption
<1> QED  BY <1>1, <1>2, DeviceKeeps

\* Commands come behind, and take the place of what was on its way.
LEMMA BehindKeeps ==
  ASSUME KeysInv, keyCbuf' \in Seq(Command), Len(keyCbuf) <= Len(keyCbuf'),
         \A i \in 1 .. Len(keyCbuf) : keyCbuf'[i] = keyCbuf[i],
         UNCHANGED <<keyLost, keyB>>,
         \A k \in FireKeys \ keyLost :
           OnItsWay(k) => \/ OnItsWay(k)'
                          \/ \E j \in Len(keyCbuf) + 1 .. Len(keyCbuf') : keyCbuf'[j] = <<"-", k>>,
         \A k \in FireKeys, i \in Len(keyCbuf) + 1 .. Len(keyCbuf') :
           keyCbuf'[i] = <<"+", k>> => OnItsWay(k)'
  PROVE  CommandsOK' /\ HoldersOK'
<1>1. Len(keyCbuf) \in Nat /\ Len(keyCbuf') \in Nat
  BY LenProperties DEF KeysInv, KeysType
<1>2. ASSUME NEW k \in FireKeys \ keyLost, NEW i \in 0 .. Len(keyCbuf),
             OnItsWay(k) \/ Behind(k, i)
      PROVE  OnItsWay(k)' \/ Behind(k, i)'
  <2>1. CASE Behind(k, i)
    <3>1. PICK j \in i + 1 .. Len(keyCbuf) : keyCbuf[j] = <<"-", k>>
      BY <2>1 DEF Behind
    <3>2. j \in i + 1 .. Len(keyCbuf') /\ keyCbuf'[j] = keyCbuf[j]
      BY <1>1
    <3> QED  BY <3>1, <3>2 DEF Behind
  <2>2. CASE OnItsWay(k) /\ ~OnItsWay(k)'
    <3>1. PICK j \in Len(keyCbuf) + 1 .. Len(keyCbuf') : keyCbuf'[j] = <<"-", k>>
      BY <2>2
    <3>2. j \in i + 1 .. Len(keyCbuf')
      BY <1>1
    <3> QED  BY <3>1, <3>2 DEF Behind
  <2> QED  BY <1>2, <2>1, <2>2
<1>3. CommandsOK'
  <2> SUFFICES ASSUME NEW i \in 1 .. Len(keyCbuf'), NEW k \in FireKeys \ keyLost,
                      keyCbuf'[i] = <<"+", k>>
               PROVE  OnItsWay(k)' \/ Behind(k, i)'
    BY DEF CommandsOK, Behind
  <2>1. CASE i \in 1 .. Len(keyCbuf)
    <3>1. OnItsWay(k) \/ Behind(k, i)
      BY <2>1 DEF KeysInv, CommandsOK
    <3> QED  BY <3>1, <2>1, <1>1, <1>2
  <2>2. CASE i \notin 1 .. Len(keyCbuf)
    BY <2>2, <1>1
  <2> QED  BY <2>1, <2>2
<1>4. HoldersOK'
  <2> SUFFICES ASSUME NEW i \in 1 .. 2, keyB.down[i] \in FireKeys \ keyLost
               PROVE  OnItsWay(keyB.down[i])' \/ Behind(keyB.down[i], 0)'
    BY DEF HoldersOK, OnItsWay, Behind
  <2>1. OnItsWay(keyB.down[i]) \/ Behind(keyB.down[i], 0)
    BY DEF KeysInv, HoldersOK
  <2> DEFINE k == keyB.down[i]
  <2>2. OnItsWay(k)' \/ Behind(k, 0)'
    <3>1. k \in FireKeys \ keyLost /\ 0 \in 0 .. Len(keyCbuf) /\ (OnItsWay(k) \/ Behind(k, 0))
      BY <1>1, <2>1
    <3>2. keyB.down[i] = keyB'.down[i]
      OBVIOUS
    <3> QED  BY <3>1, <3>2, <1>2 DEF OnItsWay, Behind
  <2> QED  BY <2>2
<1> QED  BY <1>3, <1>4

\* QG_GetKey: an event is taken, and the command it makes takes its place.
LEMMA TakenKeeps ==
  ASSUME KeysInv, keyUsb # <<>>, keyUsb' = Tail(keyUsb),
         NEW c \in Command, NEW new \in BOOLEAN,
         keyCbuf' = IF new THEN Append(keyCbuf, c) ELSE keyCbuf,
         UNCHANGED <<keyHeld, keyBound, keyGame, keyB, keyLost, keyOwed>>,
         Head(keyUsb).key \in FireKeys \ keyLost /\ ~Head(keyUsb).down =>
           new /\ c = <<"-", Head(keyUsb).key>>,
         \A k \in FireKeys : new /\ c = <<"+", k>> => Head(keyUsb).key = k /\ Head(keyUsb).down,
         keyRepeats' \in [FireKeys -> Nat],
         keyDest' = "menu" => keyPage' # "none"
  PROVE  KeysInv'
<1> DEFINE e == Head(keyUsb)
<1>1. /\ keyUsb' \in Seq(KeyEvent) /\ e = keyUsb[1] /\ e \in KeyEvent
      /\ Len(keyUsb) \in Nat /\ Len(keyUsb) >= 1 /\ Len(keyUsb') = Len(keyUsb) - 1
      /\ \A i \in 1 .. Len(keyUsb) - 1 : keyUsb'[i] = keyUsb[i + 1]
  BY TailOf DEF KeysInv, KeysType
<1>2. /\ keyCbuf' \in Seq(Command) /\ Len(keyCbuf) \in Nat
      /\ Len(keyCbuf') = IF new THEN Len(keyCbuf) + 1 ELSE Len(keyCbuf)
      /\ \A i \in 1 .. Len(keyCbuf) : keyCbuf'[i] = keyCbuf[i]
      /\ new => keyCbuf'[Len(keyCbuf) + 1] = c
  <2>1. keyCbuf \in Seq(Command)
    BY DEF KeysInv, KeysType
  <2> QED  BY <2>1, AppendProperties, LenProperties
<1>3. ASSUME NEW k \in FireKeys \ keyLost, OnItsWay(k)
      PROVE  OnItsWay(k)' \/ (new /\ c = <<"-", k>>)
  <2>1. CASE k \in keyHeld
    BY <2>1 DEF OnItsWay
  <2>2. CASE k \notin keyHeld
    <3>1. PICK i \in 1 .. Len(keyUsb) : keyUsb[i] = Up(k)
      BY <2>2, <1>3 DEF OnItsWay
    <3>2. CASE i = 1
      BY <3>1, <3>2, <1>1 DEF Up
    <3>3. CASE i # 1
      <4>1. i - 1 \in 1 .. Len(keyUsb) - 1 /\ i - 1 + 1 = i
        BY <3>3, <1>1
      <4>2. keyUsb'[i - 1] = Up(k)
        BY <4>1, <3>1, <1>1
      <4> QED  BY <4>1, <4>2, <1>1 DEF OnItsWay
    <3> QED  BY <3>2, <3>3
  <2> QED  BY <2>1, <2>2
<1>4. ASSUME NEW k \in FireKeys, new, c = <<"+", k>>
      PROVE  OnItsWay(k)'
  <2>1. keyUsb[1].key = k /\ keyUsb[1].down /\ EventsOK /\ 1 \in 1 .. Len(keyUsb)
    BY <1>4, <1>1 DEF KeysInv
  <2>2. CASE k \in keyHeld
    BY <2>2 DEF OnItsWay
  <2>3. CASE k \notin keyHeld
    <3>1. PICK j \in 2 .. Len(keyUsb) : keyUsb[j] = Up(k)
      <4>1. \E j \in 1 + 1 .. Len(keyUsb) : keyUsb[j] = Up(k)
        BY <2>1, <2>3 DEF EventsOK
      <4> QED  BY <4>1
    <3>2. j - 1 \in 1 .. Len(keyUsb) - 1 /\ j - 1 + 1 = j
      BY <1>1
    <3>3. keyUsb'[j - 1] = Up(k)
      BY <3>1, <3>2, <1>1
    <3> QED  BY <3>2, <3>3, <1>1 DEF OnItsWay
  <2> QED  BY <2>2, <2>3
<1>5. CommandsOK' /\ HoldersOK'
  <2>1. \A k \in FireKeys \ keyLost :
           OnItsWay(k) => \/ OnItsWay(k)'
                          \/ \E j \in Len(keyCbuf) + 1 .. Len(keyCbuf') : keyCbuf'[j] = <<"-", k>>
    <3> SUFFICES ASSUME NEW k \in FireKeys \ keyLost, OnItsWay(k), ~OnItsWay(k)'
                 PROVE  \E j \in Len(keyCbuf) + 1 .. Len(keyCbuf') : keyCbuf'[j] = <<"-", k>>
      OBVIOUS
    <3>1. new /\ c = <<"-", k>>
      BY <1>3
    <3> QED  BY <3>1, <1>2
  <2>2. \A k \in FireKeys, i \in Len(keyCbuf) + 1 .. Len(keyCbuf') :
           keyCbuf'[i] = <<"+", k>> => OnItsWay(k)'
    <3> SUFFICES ASSUME NEW k \in FireKeys, NEW i \in Len(keyCbuf) + 1 .. Len(keyCbuf'),
                        keyCbuf'[i] = <<"+", k>>
                 PROVE  OnItsWay(k)'
      OBVIOUS
    <3>1. new /\ i = Len(keyCbuf) + 1
      BY <1>2
    <3> QED  BY <3>1, <1>2, <1>4
  <2>3. Len(keyCbuf) <= Len(keyCbuf') /\ UNCHANGED <<keyLost, keyB>>
    BY <1>2
  <2>4. keyCbuf' \in Seq(Command) /\ \A i \in 1 .. Len(keyCbuf) : keyCbuf'[i] = keyCbuf[i]
    BY <1>2
  <2> QED  BY <2>1, <2>2, <2>3, <2>4, BehindKeeps
<1>6. EventsOK'
  <2> SUFFICES ASSUME NEW i \in 1 .. Len(keyUsb'), keyUsb'[i].key \in FireKeys, keyUsb'[i].down,
                      keyUsb'[i].key \notin keyHeld
               PROVE  \E j \in i + 1 .. Len(keyUsb') : keyUsb'[j] = Up(keyUsb'[i].key)
    BY DEF EventsOK, Up
  <2> DEFINE k == keyUsb'[i].key
  <2>1. k = keyUsb[i + 1].key /\ keyUsb[i + 1].down /\ i + 1 \in 1 .. Len(keyUsb) /\ k \in FireKeys
    BY <1>1
  <2>2. PICK j \in i + 1 + 1 .. Len(keyUsb) : keyUsb[j] = Up(k)
    <3>1. EventsOK
      BY DEF KeysInv
    <3> HIDE DEF k
    <3>2. k \notin keyHeld
      BY DEF k
    <3> QED  BY <2>1, <3>1, <3>2 DEF EventsOK
  <2>3. j - 1 \in i + 1 .. Len(keyUsb') /\ j - 1 + 1 = j /\ j - 1 \in 1 .. Len(keyUsb) - 1
    BY <1>1
  <2>4. keyUsb'[j - 1] = keyUsb[j]
    BY <2>3, <1>1
  <2> QED  BY <2>2, <2>3, <2>4
<1> QED
  <2>1. KeysType'
    <3>1. UsbMax \in Nat /\ Len(keyUsb') <= UsbMax
      BY <1>1, KeysAssumed DEF K!KeysAssumption, KeysInv, KeysType
    <3> QED  BY <3>1, <1>1, <1>2 DEF KeysInv, KeysType
  <2>2. ButtonOK'
    BY DEF KeysInv, ButtonOK
  <2> QED  BY <2>1, <2>2, <1>5, <1>6 DEF KeysInv

\* Key_Event of a key of +attack: a press is a command for the game only, a release always.
LEMMA FireKeeps ==
  ASSUME KeysInv, K!GetKey, Head(keyUsb).key \in FireKeys
  PROVE  KeysInv'
<1> DEFINE e == Head(keyUsb)
           k == e.key
           n == IF keyRepeats[k] = 0 THEN 1 ELSE 2
           c == <<IF e.down THEN "+" ELSE "-", k>>
           toGame == \/ keyDest \in {"game", "console"} /\ k \notin ConsoleKeys
                     \/ keyDest = "game" /\ keyGame
           new == k \in keyBound /\ (IF e.down THEN n = 1 /\ toGame ELSE TRUE)
<1>1. K!FireEvent(e) /\ keyUsb # <<>> /\ keyUsb' = Tail(keyUsb)
      /\ UNCHANGED <<keyHeld, keyGame, keyB, keyOwed>>
  BY DEF K!GetKey
<1>2. e \in KeyEvent
  BY <1>1, TailOf DEF KeysInv, KeysType
<1>3. /\ keyRepeats' = [keyRepeats EXCEPT ![k] = IF e.down THEN n ELSE 0]
      /\ keyCbuf' = IF new THEN Append(keyCbuf, c) ELSE keyCbuf
      /\ UNCHANGED <<keyBound, keyLost, keyDest, keyPage>>
  BY <1>1 DEF K!FireEvent, K!NewUi
<1>4. c \in Command /\ new \in BOOLEAN
  BY DEF Command, KeyLine
<1>5. keyRepeats' \in [FireKeys -> Nat]
  BY <1>3 DEF KeysInv, KeysType
<1>6. k \in FireKeys \ keyLost /\ ~e.down => new /\ c = <<"-", k>>
  BY DEF KeysInv
<1>7. \A l \in FireKeys : new /\ c = <<"+", l>> => k = l /\ e.down
  BY <1>2 DEF KeyEvent
<1>8. keyDest' = "menu" => keyPage' # "none"
  BY <1>3 DEF KeysInv
<1>9. keyCbuf' = IF new THEN Append(keyCbuf, c) ELSE keyCbuf
  BY <1>3
<1>10. UNCHANGED <<keyHeld, keyBound, keyGame, keyB, keyLost, keyOwed>>
  BY <1>1, <1>3
<1> HIDE DEF c, new
<1> QED  BY <1>1, <1>4, <1>5, <1>6, <1>7, <1>8, <1>9, <1>10, TakenKeeps

\* And of the others.
LEMMA OtherKeeps ==
  ASSUME KeysInv, K!GetKey, Head(keyUsb).key \notin FireKeys
  PROVE  KeysInv'
<1> DEFINE k == Head(keyUsb).key
<1>1. K!TapEvent(k) /\ keyUsb # <<>> /\ keyUsb' = Tail(keyUsb)
      /\ UNCHANGED <<keyHeld, keyGame, keyB, keyOwed>>
  BY DEF K!GetKey
<1>2. UNCHANGED <<keyRepeats, keyBound, keyLost>>
  BY <1>1 DEF K!TapEvent
<1>3. (keyDest = "menu" => keyPage # "none") /\ keyRepeats \in [FireKeys -> Nat]
  BY DEF KeysInv, KeysType
<1>4. \E c \in Command, new \in BOOLEAN :
        /\ keyCbuf' = IF new THEN Append(keyCbuf, c) ELSE keyCbuf
        /\ c[1] # "+"
        /\ keyDest' = "menu" => keyPage' # "none"
  <2> DEFINE map == <<"map", "none">>
             toggle == <<"toggleconsole", "none">>
  <2>1. map \in Command /\ toggle \in Command /\ map[1] # "+" /\ toggle[1] # "+"
    BY DEF Command, PlainLine
  <2>2. ASSUME NEW line \in K!Lines PROVE line \in Command /\ line[1] # "+"
    BY DEF K!Lines, Command, PlainLine, KeyLine, K!None
  <2>3. CASE K!Escape
    <3>1. keyCbuf' = keyCbuf /\ (keyDest' = "menu" => keyPage' # "none")
      BY <2>3, <1>3 DEF K!Escape, K!NewUi
    <3> QED  BY <2>1, <3>1
  <2>4. CASE K!EnterConsole
    <3>1. keyDest' = keyDest /\ keyPage' = keyPage
          /\ \E line \in K!Lines : keyCbuf' = Append(keyCbuf, line)
      BY <2>4 DEF K!EnterConsole, K!NewUi
    <3> QED  BY <2>2, <3>1, <1>3
  <2>5. CASE K!EnterMenu
    <3>1. /\ keyCbuf' = keyCbuf \/ keyCbuf' = Append(keyCbuf, map)
          /\ keyDest' = "menu" => keyPage' # "none"
      BY <2>5, <1>3 DEF K!EnterMenu, K!NewUi, K!None
    <3> HIDE DEF map
    <3> QED  BY <2>1, <3>1
  <2>6. CASE K!Other(k)
    BY <2>6, <2>1, <1>3 DEF K!Other, K!NewUi
  <2>7. CASE K!Toggle
    <3>1. /\ keyCbuf' = keyCbuf \/ keyCbuf' = Append(keyCbuf, toggle)
          /\ keyDest' = "menu" => keyPage' # "none"
      BY <2>7, <1>3 DEF K!Toggle, K!NewUi, K!None
    <3> HIDE DEF toggle
    <3> QED  BY <2>1, <3>1
  <2> QED  BY <1>1, <2>3, <2>4, <2>5, <2>6, <2>7 DEF K!TapEvent
<1>5. PICK c \in Command, new \in BOOLEAN :
        /\ keyCbuf' = IF new THEN Append(keyCbuf, c) ELSE keyCbuf
        /\ c[1] # "+"
        /\ keyDest' = "menu" => keyPage' # "none"
  BY <1>4
<1>6. \A l \in FireKeys : c # <<"+", l>>
  BY <1>5
<1> QED  BY <1>1, <1>2, <1>3, <1>5, <1>6, TakenKeeps

\* SCR_ModalMessage puts two commands behind the others.
LEMMA AskKeeps ==
  ASSUME KeysInv, K!Ask
  PROVE  KeysInv'
<1> DEFINE two == <<<<"disconnect", "none">>, <<"map", "none">>>>
<1>1. UNCHANGED <<keyUsb, keyHeld, keyRepeats, keyPage, keyBound, keyGame, keyB, keyLost, keyOwed>>
  BY DEF K!Ask
<1>2. keyCbuf' \in {keyCbuf, keyCbuf \o two} /\ keyDest' \in {keyDest, "game"}
  BY DEF K!Ask, K!None
<1>3. /\ two \in Seq(Command) /\ Len(two) = 2
      /\ two[1] = <<"disconnect", "none">> /\ two[2] = <<"map", "none">>
  BY DEF Command, PlainLine
<1>4. keyCbuf \in Seq(Command) /\ Len(keyCbuf) \in Nat
  BY LenProperties DEF KeysInv, KeysType
<1>5. /\ keyCbuf' \in Seq(Command) /\ Len(keyCbuf) <= Len(keyCbuf')
      /\ \A i \in 1 .. Len(keyCbuf) : keyCbuf'[i] = keyCbuf[i]
      /\ \A i \in Len(keyCbuf) + 1 .. Len(keyCbuf') : keyCbuf'[i] \in {two[1], two[2]}
  <2> HIDE DEF two
  <2>1. CASE keyCbuf' = keyCbuf
    BY <2>1, <1>4
  <2>2. CASE keyCbuf' = keyCbuf \o two
    <3>0. /\ keyCbuf \o two \in Seq(Command) /\ Len(keyCbuf \o two) = Len(keyCbuf) + Len(two)
          /\ \A i \in 1 .. Len(keyCbuf) + Len(two) :
               (keyCbuf \o two)[i] = IF i <= Len(keyCbuf) THEN keyCbuf[i] ELSE two[i - Len(keyCbuf)]
      BY <1>3, <1>4, ConcatProperties
    <3>1. /\ keyCbuf' \in Seq(Command) /\ Len(keyCbuf') = Len(keyCbuf) + 2
          /\ \A i \in 1 .. Len(keyCbuf) + 2 :
               keyCbuf'[i] = IF i <= Len(keyCbuf) THEN keyCbuf[i] ELSE two[i - Len(keyCbuf)]
      BY <2>2, <1>3, <3>0
    <3>2. \A i \in Len(keyCbuf) + 1 .. Len(keyCbuf') : i - Len(keyCbuf) \in 1 .. 2
      BY <3>1, <1>4
    <3>3. \A i \in 1 .. 2 : two[i] \in {two[1], two[2]}
      OBVIOUS
    <3> QED  BY <3>1, <3>2, <3>3, <1>4
  <2> QED  BY <1>2, <2>1, <2>2
<1>6. CommandsOK' /\ HoldersOK'
  <2>1. \A k \in FireKeys \ keyLost : OnItsWay(k) => OnItsWay(k)'
    BY <1>1 DEF OnItsWay
  <2>2. \A k \in FireKeys, i \in Len(keyCbuf) + 1 .. Len(keyCbuf') : keyCbuf'[i] # <<"+", k>>
    BY <1>3, <1>5
  <2> HIDE DEF two
  <2> QED  BY <1>1, <1>5, <2>1, <2>2, BehindKeeps
<1> QED
  <2>1. KeysType' /\ ButtonOK' /\ EventsOK'
    BY <1>1, <1>5 DEF KeysInv, KeysType, ButtonOK, EventsOK
  <2> QED  BY <1>1, <1>2, <1>6, <2>1 DEF KeysInv

\* What a command does to the button: only a command that says so gives it another key, and one
\* that a key is up takes that.
LEMMA ButtonKeeps ==
  ASSUME KeysInv, NEW c \in Command, K!Command(c)
  PROVE  /\ ButtonOK' /\ keyB' \in ButtonState /\ keyOwed' \in BOOLEAN
         /\ \A i \in 1 .. 2 : keyB'.down[i] \in FireKeys =>
              \/ keyB'.down[i] \in {keyB.down[1], keyB.down[2]}
              \/ c = <<"+", keyB'.down[i]>>
         /\ \A k \in FireKeys : c = <<"-", k>> => k \notin {keyB'.down[1], keyB'.down[2]}
<1> DEFINE d1 == keyB.down[1]
           d2 == keyB.down[2]
<1>1. /\ keyB \in ButtonState /\ keyOwed \in BOOLEAN /\ d1 \in Holder /\ d2 \in Holder
      /\ keyB.on <=> ~(d1 = "none" /\ d2 = "none")
      /\ d1 # d2 \/ d1 = "none"
      /\ keyOwed => keyB.pressed
  BY PairIs DEF KeysInv, KeysType, ButtonOK, ButtonState
<1>2. {"none", "typed"} \cap FireKeys = {} /\ "none" # "typed"
  BY KeysAssumed DEF K!KeysAssumption, K!None, K!Typed
<1>3. \/ \E k \in FireKeys : c = <<"+", k>> /\ K!KeyDown(k)
      \/ c = <<"plus", "none">> /\ K!KeyDown("typed")
      \/ \E k \in FireKeys : c = <<"-", k>> /\ K!KeyUp(k)
      \/ c = <<"minus", "none">> /\ K!KeyUp("none")
      \/ c[1] \notin {"+", "-", "plus", "minus"} /\ UNCHANGED <<keyB, keyOwed>>
  <2>1. CASE c \in KeyLine \X FireKeys
    <3>1. PICK k \in FireKeys : c = <<c[1], k>> /\ c[1] \in KeyLine /\ c[2] = k
      BY <2>1
    <3>2. CASE c[1] = "+"
      BY <3>1, <3>2 DEF K!Command
    <3>3. CASE c[1] = "-"
      BY <3>1, <3>3 DEF K!Command
    <3>4. CASE c[1] = "unbind"
      BY <3>1, <3>4 DEF K!Command
    <3> QED  BY <3>1, <3>2, <3>3, <3>4 DEF KeyLine
  <2>2. CASE c \in PlainLine \X {"none"}
    <3>1. c = <<c[1], "none">> /\ c[1] \in PlainLine
      BY <2>2
    <3>2. CASE c[1] = "plus"
      BY <3>1, <3>2 DEF K!Command, K!Typed
    <3>3. CASE c[1] = "minus"
      BY <3>1, <3>3 DEF K!Command, K!None
    <3>4. CASE c[1] \notin {"plus", "minus"}
      BY <3>1, <3>4 DEF K!Command, PlainLine
    <3> QED  BY <3>1, <3>2, <3>3, <3>4
  <2> QED  BY <2>1, <2>2 DEF Command
<1>4. ASSUME NEW k \in FireKeys \cup {"typed"}, K!KeyDown(k)
      PROVE  \/ UNCHANGED <<keyB, keyOwed>>
             \/ /\ k \notin {d1, d2} /\ keyB' \in ButtonState
                /\ \/ d1 = "none" /\ keyB'.down[1] = k /\ keyB'.down[2] = d2
                   \/ d2 = "none" /\ keyB'.down[1] = d1 /\ keyB'.down[2] = k
                /\ keyB'.on = TRUE /\ keyB'.pressed = (keyB.pressed \/ ~keyB.on)
                /\ keyOwed' = (keyOwed \/ ~keyB.on)
  <2> DEFINE slot == IF d1 = "none" THEN 1 ELSE 2
  <2>1. CASE k \in {d1, d2} \/ "none" \notin {d1, d2}
    BY <1>4, <2>1 DEF K!KeyDown, K!None
  <2>2. CASE ~(k \in {d1, d2} \/ "none" \notin {d1, d2})
    <3>1. /\ keyB' = [keyB EXCEPT !.down[slot] = k, !.on = TRUE, !.pressed = @ \/ ~keyB.on]
          /\ keyOwed' = (keyOwed \/ ~keyB.on)
      BY <1>4, <2>2 DEF K!KeyDown, K!None
    <3>2. slot \in 1 .. 2 /\ k \in Holder
      BY DEF Holder
    <3>3. /\ keyB' \in ButtonState /\ keyB'.down[slot] = k
          /\ \A i \in 1 .. 2 : i # slot => keyB'.down[i] = keyB.down[i]
          /\ keyB'.on = TRUE /\ keyB'.pressed = (keyB.pressed \/ ~keyB.on)
      <4> HIDE DEF slot
      <4> QED  BY <1>1, <3>1, <3>2 DEF ButtonState
    <3> QED  BY <2>2, <3>1, <3>3
  <2> QED  BY <2>1, <2>2
<1>5. ASSUME NEW k \in FireKeys, K!KeyUp(k)
      PROVE  /\ \/ k \notin {d1, d2} /\ UNCHANGED keyB
                \/ /\ k = d1 /\ keyB'.down[1] = "none" /\ keyB'.down[2] = d2
                   /\ keyB' \in ButtonState /\ keyB'.pressed = keyB.pressed
                   /\ keyB'.on = (keyB.on /\ d2 # "none")
                \/ /\ k = d2 /\ keyB'.down[1] = d1 /\ keyB'.down[2] = "none"
                   /\ keyB' \in ButtonState /\ keyB'.pressed = keyB.pressed
                   /\ keyB'.on = (keyB.on /\ d1 # "none")
             /\ keyOwed' = keyOwed
  <2> DEFINE slot == IF d1 = k THEN 1 ELSE 2
             other == keyB.down[3 - slot]
  <2>1. k # "none"
    BY <1>2
  <2>2. keyOwed' = keyOwed
    BY <1>1, <1>5, <2>1 DEF K!KeyUp, K!None
  <2>3. CASE k \in {d1, d2}
    <3>1. keyB' = IF other # "none" THEN [keyB EXCEPT !.down[slot] = "none"]
                  ELSE [keyB EXCEPT !.down[slot] = "none", !.on = FALSE]
      BY <1>5, <2>1, <2>3 DEF K!KeyUp, K!None
    <3>2. slot \in 1 .. 2 /\ "none" \in Holder /\ 3 - slot \in 1 .. 2
      BY DEF Holder
    <3>3. /\ keyB' \in ButtonState /\ keyB'.down[slot] = "none"
          /\ \A i \in 1 .. 2 : i # slot => keyB'.down[i] = keyB.down[i]
          /\ keyB'.on = (keyB.on /\ other # "none") /\ keyB'.pressed = keyB.pressed
      <4> HIDE DEF slot
      <4> QED  BY <1>1, <3>1, <3>2 DEF ButtonState
    <3>4. CASE k = d1
      BY <2>2, <3>3, <3>4
    <3>5. CASE k # d1
      BY <2>2, <2>3, <3>3, <3>5
    <3> QED  BY <3>4, <3>5
  <2>4. CASE k \notin {d1, d2}
    BY <1>5, <2>1, <2>2, <2>4 DEF K!KeyUp, K!None
  <2> QED  BY <2>3, <2>4
<1>6. ASSUME K!KeyUp("none")
      PROVE  /\ keyB' \in ButtonState /\ keyB'.down[1] = "none" /\ keyB'.down[2] = "none"
             /\ keyB'.on = FALSE /\ keyB'.pressed = FALSE /\ keyOwed' = FALSE
  <2>1. keyB' = [down |-> <<"none", "none">>, on |-> FALSE, pressed |-> FALSE]
    BY <1>6 DEF K!KeyUp, K!None, K!Up
  <2>2. <<"none", "none">> \in [1 .. 2 -> Holder]
    BY PairIn DEF Holder
  <2>3. keyOwed' = FALSE
    BY <1>1, <1>6 DEF K!KeyUp, K!None
  <2> QED  BY <2>1, <2>2, <2>3 DEF ButtonState
<1>7. ButtonOK' <=>
        /\ keyB'.on <=> ~(keyB'.down[1] = "none" /\ keyB'.down[2] = "none")
        /\ keyB'.down[1] # keyB'.down[2] \/ keyB'.down[1] = "none"
        /\ keyOwed' => keyB'.pressed
  <2>1. keyB' \in ButtonState
    BY <1>1, <1>2, <1>3, <1>4, <1>5, <1>6
  <2> QED  BY <2>1, PairIs DEF ButtonOK, ButtonState
<1> DEFINE e1 == keyB'.down[1]
           e2 == keyB'.down[2]
<1>8. SUFFICES /\ ButtonOK' /\ keyB' \in ButtonState /\ keyOwed' \in BOOLEAN
               /\ e1 \in FireKeys => e1 \in {d1, d2} \/ c = <<"+", e1>>
               /\ e2 \in FireKeys => e2 \in {d1, d2} \/ c = <<"+", e2>>
               /\ \A k \in FireKeys : c = <<"-", k>> => k \notin {e1, e2}
  OBVIOUS
<1>9. CASE \E k \in FireKeys : c = <<"+", k>> /\ K!KeyDown(k)
  <2>1. PICK k \in FireKeys : c = <<"+", k>> /\ K!KeyDown(k)
    BY <1>9
  <2>2. \A l : c # <<"-", l>>
    BY <2>1
  <2>3. CASE UNCHANGED <<keyB, keyOwed>>
    BY <1>1, <1>7, <2>2, <2>3
  <2>4. CASE ~UNCHANGED <<keyB, keyOwed>>
    <3>1. /\ k \notin {d1, d2} /\ keyB' \in ButtonState
          /\ \/ d1 = "none" /\ e1 = k /\ e2 = d2
             \/ d2 = "none" /\ e1 = d1 /\ e2 = k
          /\ keyB'.on = TRUE /\ keyB'.pressed = (keyB.pressed \/ ~keyB.on)
          /\ keyOwed' = (keyOwed \/ ~keyB.on)
      BY <1>4, <2>1, <2>4
    <3>2. ButtonOK' /\ keyOwed' \in BOOLEAN
      BY <1>1, <1>2, <1>7, <3>1
    <3> QED  BY <2>1, <2>2, <3>1, <3>2
  <2> QED  BY <2>3, <2>4
<1>10. CASE c = <<"plus", "none">> /\ K!KeyDown("typed")
  <2>1. \A l : c # <<"-", l>>
    BY <1>10
  <2>2. CASE UNCHANGED <<keyB, keyOwed>>
    BY <1>1, <1>7, <2>1, <2>2
  <2>3. CASE ~UNCHANGED <<keyB, keyOwed>>
    <3>1. /\ "typed" \notin {d1, d2} /\ keyB' \in ButtonState
          /\ \/ d1 = "none" /\ e1 = "typed" /\ e2 = d2
             \/ d2 = "none" /\ e1 = d1 /\ e2 = "typed"
          /\ keyB'.on = TRUE /\ keyB'.pressed = (keyB.pressed \/ ~keyB.on)
          /\ keyOwed' = (keyOwed \/ ~keyB.on)
      BY <1>4, <1>10, <2>3
    <3>2. ButtonOK' /\ keyOwed' \in BOOLEAN
      BY <1>1, <1>2, <1>7, <3>1
    <3> QED  BY <1>2, <2>1, <3>1, <3>2
  <2> QED  BY <2>2, <2>3
<1>11. CASE \E k \in FireKeys : c = <<"-", k>> /\ K!KeyUp(k)
  <2>1. PICK k \in FireKeys : c = <<"-", k>> /\ K!KeyUp(k)
    BY <1>11
  <2>2. \A l : c = <<"-", l>> => l = k
    BY <2>1
  <2>3. /\ \/ k \notin {d1, d2} /\ UNCHANGED keyB
           \/ /\ k = d1 /\ e1 = "none" /\ e2 = d2 /\ keyB'.on = (keyB.on /\ d2 # "none")
              /\ keyB' \in ButtonState /\ keyB'.pressed = keyB.pressed
           \/ /\ k = d2 /\ e1 = d1 /\ e2 = "none" /\ keyB'.on = (keyB.on /\ d1 # "none")
              /\ keyB' \in ButtonState /\ keyB'.pressed = keyB.pressed
        /\ keyOwed' = keyOwed
    BY <1>5, <2>1
  <2>4. ButtonOK' /\ keyB' \in ButtonState /\ keyOwed' \in BOOLEAN
    BY <1>1, <1>2, <1>7, <2>3
  <2>5. k \notin {e1, e2} /\ {e1, e2} \subseteq {"none", d1, d2}
    BY <1>1, <1>2, <2>3
  <2> QED  BY <1>2, <2>2, <2>4, <2>5
<1>12. CASE c = <<"minus", "none">> /\ K!KeyUp("none")
  <2>1. \A l : c # <<"-", l>>
    BY <1>12
  <2>2. /\ keyB' \in ButtonState /\ e1 = "none" /\ e2 = "none"
        /\ keyB'.on = FALSE /\ keyB'.pressed = FALSE /\ keyOwed' = FALSE
    BY <1>6, <1>12
  <2>3. ButtonOK'
    BY <1>7, <2>2
  <2> QED  BY <1>2, <2>1, <2>2, <2>3
<1>13. CASE c[1] \notin {"+", "-", "plus", "minus"} /\ UNCHANGED <<keyB, keyOwed>>
  BY <1>1, <1>7, <1>13
<1> QED  BY <1>3, <1>9, <1>10, <1>11, <1>12, <1>13

\* Cbuf_Execute: who is down after the first command is still behind it in the buffer.
LEMMA ExecuteKeeps ==
  ASSUME KeysInv, K!Cbuf_Execute
  PROVE  KeysInv'
<1> DEFINE c == Head(keyCbuf)
<1>1. keyCbuf # <<>> /\ keyCbuf' = Tail(keyCbuf) /\ K!Command(c)
      /\ UNCHANGED <<keyUsb, keyHeld, keyRepeats>>
  BY DEF K!Cbuf_Execute
<1>2. /\ keyCbuf' \in Seq(Command) /\ c = keyCbuf[1] /\ c \in Command
      /\ Len(keyCbuf) \in Nat /\ Len(keyCbuf) >= 1 /\ Len(keyCbuf') = Len(keyCbuf) - 1
      /\ \A i \in 1 .. Len(keyCbuf) - 1 : keyCbuf'[i] = keyCbuf[i + 1]
  BY <1>1, TailOf DEF KeysInv, KeysType
<1>3. /\ ButtonOK' /\ keyB' \in ButtonState /\ keyOwed' \in BOOLEAN
      /\ \A i \in 1 .. 2 : keyB'.down[i] \in FireKeys =>
           \/ keyB'.down[i] \in {keyB.down[1], keyB.down[2]}
           \/ c = <<"+", keyB'.down[i]>>
      /\ \A k \in FireKeys : c = <<"-", k>> => k \notin {keyB'.down[1], keyB'.down[2]}
  <2> HIDE DEF c
  <2> QED  BY <1>1, <1>2, ButtonKeeps
<1>4. /\ keyLost \subseteq keyLost' /\ keyGame' \in BOOLEAN
      /\ FireKeys \ keyLost' \subseteq keyBound'
      /\ keyDest' = "menu" => keyPage' # "none"
  <2>1. (keyDest = "menu" => keyPage # "none") /\ keyGame \in BOOLEAN
        /\ FireKeys \ keyLost \subseteq keyBound
    BY DEF KeysInv, KeysType
  <2>2. keyDest' = "menu" => keyPage' # "none"
    BY <1>1, <2>1 DEF K!Command, K!Con_ToggleConsole_f
  <2>3. keyLost \subseteq keyLost' /\ FireKeys \ keyLost' \subseteq keyBound'
    BY <1>1, <2>1 DEF K!Command
  <2>4. keyGame' \in BOOLEAN
    BY <1>1, <2>1 DEF K!Command
  <2> QED  BY <2>2, <2>3, <2>4
<1>5. ASSUME NEW k \in FireKeys, NEW i \in 1 .. Len(keyCbuf), OnItsWay(k) \/ Behind(k, i)
      PROVE  OnItsWay(k)' \/ Behind(k, i - 1)'
  <2>1. CASE OnItsWay(k)
    BY <1>1, <2>1 DEF OnItsWay
  <2>2. CASE Behind(k, i)
    <3>1. PICK j \in i + 1 .. Len(keyCbuf) : keyCbuf[j] = <<"-", k>>
      BY <2>2 DEF Behind
    <3>2. j - 1 \in 1 .. Len(keyCbuf) - 1 /\ j - 1 + 1 = j
      BY <1>2
    <3>3. keyCbuf'[j - 1] = <<"-", k>>
      BY <1>2, <3>1, <3>2
    <3>4. j - 1 \in i - 1 + 1 .. Len(keyCbuf')
      BY <1>2
    <3> QED  BY <3>3, <3>4 DEF Behind
  <2> QED  BY <1>5, <2>1, <2>2
<1>6. CommandsOK'
  <2> SUFFICES ASSUME NEW i \in 1 .. Len(keyCbuf'), NEW k \in FireKeys \ keyLost',
                      keyCbuf'[i] = <<"+", k>>
               PROVE  OnItsWay(k)' \/ Behind(k, i)'
    BY DEF CommandsOK, Behind
  <2>1. i + 1 \in 1 .. Len(keyCbuf) /\ keyCbuf[i + 1] = <<"+", k>> /\ i + 1 - 1 = i
    BY <1>2
  <2>2. OnItsWay(k) \/ Behind(k, i + 1)
    BY <1>4, <2>1 DEF KeysInv, CommandsOK
  <2>3. OnItsWay(k)' \/ Behind(k, i + 1 - 1)'
    BY <1>5, <2>1, <2>2
  <2> QED  BY <2>1, <2>3
<1>7. ASSUME NEW k \in FireKeys \ keyLost', k \in {keyB'.down[1], keyB'.down[2]}
      PROVE  OnItsWay(k)' \/ Behind(k, 0)'
  <2>0. k \in FireKeys \ keyLost
    BY <1>4
  <2>1. OnItsWay(k) \/ Behind(k, 1)
    <3>1. CASE c = <<"+", k>>
      <4>1. keyCbuf[1] = <<"+", k>> /\ 1 \in 1 .. Len(keyCbuf) /\ CommandsOK
        BY <1>2, <3>1 DEF KeysInv
      <4> QED  BY <2>0, <4>1 DEF CommandsOK
    <3>2. CASE k \in {keyB.down[1], keyB.down[2]}
      <4>1. OnItsWay(k) \/ Behind(k, 0)
        BY <2>0, <3>2 DEF KeysInv, HoldersOK
      <4>2. keyCbuf[1] # <<"-", k>>
        BY <1>2, <1>3, <1>7, <2>0
      <4> QED  BY <1>2, <4>1, <4>2 DEF Behind
    <3> QED  BY <1>3, <1>7, <2>0, <3>1, <3>2
  <2>2. 1 \in 1 .. Len(keyCbuf) /\ 1 - 1 = 0
    BY <1>2
  <2>3. OnItsWay(k)' \/ Behind(k, 1 - 1)'
    BY <1>5, <2>0, <2>1, <2>2
  <2> QED  BY <2>2, <2>3
<1>8. HoldersOK'
  <2> SUFFICES ASSUME NEW i \in 1 .. 2, keyB'.down[i] \in FireKeys \ keyLost'
               PROVE  (OnItsWay(keyB.down[i]) \/ Behind(keyB.down[i], 0))'
    BY DEF HoldersOK
  <2>1. keyB'.down[i] \in {keyB'.down[1], keyB'.down[2]}
    OBVIOUS
  <2> QED  BY <1>7, <2>1 DEF OnItsWay, Behind
<1> QED
  <2>1. KeysType'
    BY <1>1, <1>2, <1>3, <1>4 DEF KeysInv, KeysType
  <2>2. EventsOK'
    BY <1>1 DEF KeysInv, EventsOK
  <2> QED  BY <1>3, <1>4, <1>6, <1>8, <2>1, <2>2 DEF KeysInv

\* Sys_SendKeyEvents takes what the queue of the device holds, one after the other.
LEMMA SendKeeps ==
  ASSUME KeysInv, K!CL_SendCmd
  PROVE  KeysInv'
<1>1. UNCHANGED <<keyUsb, keyHeld, keyRepeats, keyDest, keyPage, keyCbuf, keyBound, keyGame, keyLost>>
  BY DEF K!CL_SendCmd, K!ui
<1>2. /\ keyB' \in ButtonState /\ keyB'.down = keyB.down /\ keyB'.on = keyB.on
      /\ keyOwed' \in BOOLEAN /\ (keyOwed' => keyB'.pressed)
  <2>1. keyB \in ButtonState /\ keyOwed \in BOOLEAN /\ (keyOwed => keyB.pressed)
    BY DEF KeysInv, KeysType, ButtonOK
  <2>2. CASE keyGame
    BY <2>1, <2>2 DEF K!CL_SendCmd, ButtonState
  <2>3. CASE ~keyGame
    BY <2>1, <2>3 DEF K!CL_SendCmd
  <2> QED  BY <2>2, <2>3
<1>3. KeysType' /\ ButtonOK'
  BY <1>1, <1>2 DEF KeysInv, KeysType, ButtonOK
<1>4. EventsOK' /\ CommandsOK'
  BY <1>1 DEF KeysInv, EventsOK, CommandsOK, OnItsWay, Behind
<1>5. HoldersOK'
  <2>1. HoldersOK
    BY DEF KeysInv
  <2>2. \A k : (OnItsWay(k) \/ Behind(k, 0)) => (OnItsWay(k) \/ Behind(k, 0))'
    BY <1>1 DEF OnItsWay, Behind
  <2> QED  BY <1>1, <1>2, <2>1, <2>2 DEF HoldersOK, OnItsWay, Behind
<1> QED  BY <1>1, <1>3, <1>4, <1>5 DEF KeysInv

\* What is let alone stays as it is.
LEMMA IdleKeeps ==
  ASSUME KeysInv, UNCHANGED <<keyUsb, keyHeld, keyRepeats, keyDest, keyPage, keyCbuf, keyBound,
                              keyGame, keyB, keyLost, keyOwed>>
  PROVE  KeysInv'
BY DEF KeysInv, KeysType, ButtonOK, EventsOK, CommandsOK, HoldersOK, OnItsWay, Behind

\* At the start no key is down and nothing is on its way.
LEMMA KeysInit ==
  ASSUME K!Init
  PROVE  KeysInv
<1>1. /\ keyUsb = <<>> /\ keyHeld = {} /\ keyRepeats = [k \in FireKeys |-> 0]
      /\ keyDest = "game" /\ keyPage = "none" /\ keyCbuf = <<>> /\ keyBound = FireKeys
      /\ keyGame = TRUE /\ keyLost = {} /\ keyOwed = FALSE
      /\ keyB = [down |-> <<"none", "none">>, on |-> FALSE, pressed |-> FALSE]
  BY DEF K!Init, K!Up, K!None
<1>2. keyB \in ButtonState
  BY <1>1, PairIn DEF ButtonState, Holder
<1>3. KeysType
  <2>1. UsbMax \in Nat /\ <<>> \in Seq(KeyEvent) /\ <<>> \in Seq(Command) /\ Len(<<>>) = 0
    BY KeysAssumed, EmptySeq DEF K!KeysAssumption
  <2>2. Len(keyUsb) <= UsbMax
    BY <1>1, <2>1
  <2> QED  BY <1>1, <1>2, <2>1, <2>2 DEF KeysType
<1>4. ButtonOK
  BY <1>1 DEF ButtonOK
<1>5. EventsOK /\ CommandsOK
  BY <1>1 DEF EventsOK, CommandsOK
<1>6. HoldersOK
  <2>1. \A i \in 1 .. 2 : keyB.down[i] = "none"
    BY <1>1
  <2>2. "none" \notin FireKeys
    BY KeysAssumed DEF K!KeysAssumption, K!None
  <2> QED  BY <2>1, <2>2 DEF HoldersOK
<1> QED  BY <1>1, <1>3, <1>4, <1>5, <1>6 DEF KeysInv

\* Every step of the keys keeps all of it.
LEMMA KeysStep ==
  ASSUME KeysInv, K!Next \/ UNCHANGED KVars
  PROVE  KeysInv'
<1>1. CASE K!GetKey
  BY <1>1, FireKeeps, OtherKeeps
<1>2. CASE K!NoMoreKeys \/ K!NoMoreCommands \/ UNCHANGED KVars
  BY <1>2, IdleKeeps DEF K!NoMoreKeys, K!NoMoreCommands, K!ui, KVars
<1>3. CASE K!Ask
  BY <1>3, AskKeeps
<1>4. CASE K!Cbuf_Execute
  BY <1>4, ExecuteKeeps
<1>5. CASE K!CL_SendCmd
  BY <1>5, SendKeeps
<1>6. CASE \E k \in FireKeys : K!Press(k) \/ K!Release(k)
  BY <1>6, PressKeeps
<1>7. CASE \E k \in Taps : K!Tap(k)
  BY <1>7, TapKeeps
<1> QED  BY <1>1, <1>2, <1>3, <1>4, <1>5, <1>6, <1>7 DEF K!Next, K!Frame

\* What is not held any more is released, in the one queue or in the other.
LEMMA WayIsHeldOrReleased ==
  ASSUME NEW k, OnItsWay(k) \/ Behind(k, 0)
  PROVE  k \in keyHeld \/ K!Released(k)
<1>1. CASE \E j \in 1 .. Len(keyUsb) : keyUsb[j] = Up(k)
  BY <1>1 DEF K!Released, Up
<1>2. CASE \E j \in 1 .. Len(keyCbuf) : keyCbuf[j] = <<"-", k>>
  BY <1>2 DEF K!Released
<1>3. 0 + 1 = 1
  OBVIOUS
<1> QED  BY <1>1, <1>2, <1>3 DEF OnItsWay, Behind

\* The invariant is more than what the run checks.
LEMMA KeysSound ==
  ASSUME KeysInv
  PROVE  FiresWhileHeld
<1>1. ASSUME NEW i \in 1 .. 2, keyB.down[i] \in FireKeys \ keyLost
      PROVE  keyB.down[i] \in keyHeld \/ K!Released(keyB.down[i])
  BY <1>1, WayIsHeldOrReleased DEF KeysInv, HoldersOK
<1>2. K!ButtonFollowsKeys
  BY <1>1 DEF KeysInv, ButtonOK, K!ButtonFollowsKeys, K!None
<1> QED  BY <1>2 DEF KeysInv, ButtonOK, FiresWhileHeld, K!Sound, K!Fires

\* Quake's fire button, for every number of keys bound to it and however short the queues are:
\* it is down exactly when a key holds it; a key that holds it is held, or its release is on its
\* way, unless that was dropped or the key is no longer bound; and no press is lost.
THEOREM ButtonIsSound == MCSpec => []FiresWhileHeld
<1>1. MCInit => KeysInv
  BY KeysInit DEF MCInit
<1>2. KeysInv /\ [MCNext]_MCVars => KeysInv'
  <2> SUFFICES ASSUME KeysInv, [MCNext]_MCVars PROVE KeysInv'
    OBVIOUS
  <2>1. K!Next \/ UNCHANGED KVars
    BY DEF MCNext, GOnly, MOnly, MCVars
  <2> QED  BY <2>1, KeysStep
<1>3. KeysInv => FiresWhileHeld
  BY KeysSound
<1>4. QED  BY <1>1, <1>2, <1>3, PTL DEF MCSpec

-----------------------------------------------------------------------------
(* The channels of Quake's mixer.                                           *)

ChannelState == [sfx : Sfx \cup {NoSfx}, pos : Nat, end : Nat, ent : Entity \cup {0},
                 label : {-1, 0, 1}]

\* What a channel has to play from a time on, of a sound.
Left(ch, time) == ch.pos + (ch.end - time)

MixerType ==
  /\ paintedtime \in Nat
  /\ channels \in [M!Channel -> ChannelState]
  /\ total \in Ambients + Dynamics .. Ambients + Dynamics + Statics

\* An ambient channel that is silent keeps the place it will go on from.
AmbientsOK ==
  \A c \in M!AmbientChannel :
    /\ channels[c].sfx \in {NoSfx, AmbientSfx[c]}
    /\ Left(channels[c], paintedtime) <= Length[AmbientSfx[c]]

\* A static channel is begun at the beginning.
StaticsOK == \A c \in M!Channel : c >= total => channels[c] = M!Cleared

LabelsOK ==
  \A c, d \in M!DynamicChannel :
    channels[c].label = 1 /\ channels[d].label = 1 /\ channels[c].ent = channels[d].ent => c = d

MixerInv ==
  /\ MixerType /\ AmbientsOK /\ StaticsOK /\ LabelsOK
  /\ \A c \in M!Channel : M!Plays(c) =>
       Left(channels[c], paintedtime) <= Length[channels[c].sfx]

\* The constants, one by one.
LEMMA MixerConstants ==
  /\ Ambients \in Nat \ {0} /\ Dynamics \in Nat \ {0} /\ Statics \in Nat
  /\ MaxSkip \in Nat \ {0} /\ NoSfx \notin Sfx /\ View \in Entity /\ 0 \notin Entity
  /\ \A s \in Sfx : Length[s] \in Nat \ {0} /\ LoopStart[s] \in -1 .. Length[s] - 1
  /\ \A c \in M!AmbientChannel : AmbientSfx[c] \in Sfx
  /\ M!AmbientChannel \subseteq M!Channel /\ M!DynamicChannel \subseteq M!Channel
  /\ M!AmbientChannel \cap M!DynamicChannel = {} /\ M!Channel \subseteq Nat
<1>1. /\ Ambients \in Nat \ {0} /\ Dynamics \in Nat \ {0} /\ Statics \in Nat
      /\ MaxSkip \in Nat \ {0} /\ NoSfx \notin Sfx /\ View \in Entity /\ 0 \notin Entity
      /\ \A s \in Sfx : Length[s] \in Nat \ {0} /\ LoopStart[s] \in -1 .. Length[s] - 1
      /\ \A c \in M!AmbientChannel : AmbientSfx[c] \in Sfx
  BY MixerAssumed DEF M!MixerAssumption, M!AmbientChannel
<1> QED  BY <1>1 DEF M!AmbientChannel, M!DynamicChannel, M!Channel

\* The channels are numbers.
LEMMA MixerNumbers == M!Channel \subseteq Nat
BY MixerConstants

\* The turns of the loop are what their equation says.
LEMMA TurnsAre ==
  ASSUME NEW ch, NEW from \in Nat, NEW to \in Nat, from < to
  PROVE  M!Turns(ch, from, to) =
           [n \in 0 .. to - from + 1 |->
              IF n = 0 THEN [channel |-> ch, time |-> from]
              ELSE M!Turn(M!Turns(ch, from, to)[n - 1], to)]
<1> DEFINE start == [channel |-> ch, time |-> from]
           Is(g, m) == g = [n \in 0 .. m |-> IF n = 0 THEN start ELSE M!Turn(g[n - 1], to)]
           T == {m \in Nat : \E g : Is(g, m)}
<1> HIDE DEF start
<1>1. 0 \in T
  <2>1. Is([n \in 0 .. 0 |-> start], 0)
    OBVIOUS
  <2> QED  BY <2>1
<1>2. ASSUME NEW m \in Nat, m \in T PROVE m + 1 \in T
  <2>1. PICK g : Is(g, m)
    BY <1>2
  <2> DEFINE h == [n \in 0 .. m + 1 |-> IF n = m + 1 THEN M!Turn(g[m], to) ELSE g[n]]
  <2>2. \A n \in 0 .. m + 1 : h[n] = IF n = 0 THEN start ELSE M!Turn(h[n - 1], to)
    <3> SUFFICES ASSUME NEW n \in 0 .. m + 1
                 PROVE  h[n] = IF n = 0 THEN start ELSE M!Turn(h[n - 1], to)
      OBVIOUS
    <3>1. CASE n = m + 1
      <4>1. n - 1 = m /\ n # 0 /\ m \in 0 .. m + 1 /\ m # m + 1
        BY <3>1
      <4>2. h[m] = g[m] /\ h[n] = M!Turn(g[m], to)
        BY <3>1, <4>1
      <4> QED  BY <4>1, <4>2
    <3>2. CASE n \in 1 .. m
      <4>1. n - 1 \in 0 .. m + 1 /\ n - 1 # m + 1 /\ n # m + 1 /\ n # 0 /\ n \in 0 .. m
        BY <3>2
      <4>2. h[n - 1] = g[n - 1] /\ h[n] = g[n]
        BY <4>1
      <4>3. g[n] = M!Turn(g[n - 1], to)
        BY <2>1, <4>1
      <4> QED  BY <4>1, <4>2, <4>3
    <3>3. CASE n = 0
      BY <2>1, <3>3
    <3> QED  BY <3>1, <3>2, <3>3
  <2>3. h = [n \in 0 .. m + 1 |-> h[n]]
    OBVIOUS
  <2>4. Is(h, m + 1)
    <3> HIDE DEF h
    <3> QED  BY <2>2, <2>3
  <2> HIDE DEF Is, h
  <2> QED  BY <2>4
<1>3. Nat \subseteq T
  <2> HIDE DEF T
  <2> QED  BY <1>1, <1>2, Induct
<1>4. \E g : Is(g, to - from + 1)
  <2>1. to - from + 1 \in Nat
    OBVIOUS
  <2>2. to - from + 1 \in T
    <3> HIDE DEF T
    <3> QED  BY <1>3, <2>1
  <2> QED  BY <2>2
<1>5. M!Turns(ch, from, to) = CHOOSE g : Is(g, to - from + 1)
  BY DEF M!Turns, start
<1>6. Is(M!Turns(ch, from, to), to - from + 1)
  <2> HIDE DEF Is
  <2> QED  BY <1>4, <1>5
<1> QED  BY <1>6 DEF start

\* What a channel is while it is painted from a time up to another one.
Painting(p, ch, from, to) ==
  /\ p = [channel |-> p.channel, time |-> p.time]
  /\ p.channel \in ChannelState /\ p.time \in from .. to
  /\ p.channel.sfx \in {ch.sfx, NoSfx} /\ p.channel.ent = ch.ent /\ p.channel.label = ch.label
  /\ Left(p.channel, p.time) <= Length[ch.sfx]

PaintingOver(p, to) == p.time = to \/ p.channel.sfx = NoSfx

\* A turn goes on with it, and if the sound was not yet at its end it comes further.
LEMMA TurnPaints ==
  ASSUME NEW ch \in ChannelState, ch.sfx \in Sfx, NEW from \in Nat, NEW to \in Nat,
         NEW p, Painting(p, ch, from, to)
  PROVE  LET q == M!Turn(p, to) IN
         /\ Painting(q, ch, from, to)
         /\ PaintingOver(p, to) => PaintingOver(q, to)
         /\ PaintingOver(q, to) \/ q.channel.end > q.time
         /\ ~PaintingOver(q, to) /\ p.channel.end > p.time => q.time >= p.time + 1
<1> DEFINE c     == p.channel
           t     == p.time
           s     == ch.sfx
           count == (IF c.end < to THEN c.end ELSE to) - t
           next  == IF count > 0 THEN t + count ELSE t
           moved == [c EXCEPT !.pos = @ + (next - t)]
           loop  == LoopStart[c.sfx]
           left  == CASE next < c.end -> moved
                      [] next >= c.end /\ loop = -1 -> [moved EXCEPT !.sfx = NoSfx]
                      [] OTHER -> [moved EXCEPT !.pos = loop, !.end = next + Length[c.sfx] - loop]
           q     == M!Turn(p, to)
<1>1. q = IF t < to /\ c.sfx # NoSfx THEN [channel |-> left, time |-> next] ELSE p
  BY DEF M!Turn
<1>2. /\ c \in ChannelState /\ t \in Nat /\ from <= t /\ t <= to /\ c.sfx \in {s, NoSfx}
      /\ c.pos \in Nat /\ c.end \in Nat /\ c.pos + (c.end - t) <= Length[s]
      /\ c.ent = ch.ent /\ c.label = ch.label
  BY DEF Painting, Left, ChannelState
<1>3. /\ Length[s] \in Nat /\ Length[s] >= 1 /\ LoopStart[s] \in Int
      /\ -1 <= LoopStart[s] /\ LoopStart[s] <= Length[s] - 1 /\ NoSfx \notin Sfx
  BY MixerConstants
<1>4. CASE ~(t < to /\ c.sfx # NoSfx)
  <2>1. q = p /\ PaintingOver(p, to)
    BY <1>1, <1>2, <1>4 DEF PaintingOver
  <2> QED  BY <2>1
<1>5. CASE t < to /\ c.sfx # NoSfx
  <2>1. q = [channel |-> left, time |-> next] /\ c.sfx = s /\ loop = LoopStart[s]
    BY <1>1, <1>2, <1>5
  <2>2. /\ next \in Nat /\ t <= next /\ next <= to
        /\ c.end > t => next >= t + 1
        /\ c.end > t => next <= c.end
        /\ c.end <= t => next = t
        /\ next < c.end => next = to
    BY <1>2, <1>5
  <2> DEFINE pos == c.pos + (next - t)
  <2> HIDE DEF next
  <2>3. pos \in Nat /\ pos + (c.end - next) <= Length[s]
    <3>1. next - t \in Nat
      BY <1>2, <2>2
    <3>2. c.pos + (next - t) + (c.end - next) = c.pos + (c.end - t)
      BY <1>2, <2>2
    <3> QED  BY <1>2, <3>1, <3>2
  <2>4. moved = [c EXCEPT !.pos = pos] /\ moved \in ChannelState
    BY <1>2, <2>3 DEF ChannelState
  <2>5. /\ moved.pos = pos /\ moved.end = c.end /\ moved.sfx = s /\ moved.ent = c.ent
        /\ moved.label = c.label
    BY <1>2, <2>1, <2>4 DEF ChannelState
  <2> HIDE DEF moved, pos
  <2>6. CASE next < c.end
    <3>1. left = moved
      BY <1>2, <2>2, <2>6
    <3> QED  BY <1>2, <2>1, <2>2, <2>3, <2>4, <2>5, <2>6, <3>1 DEF Painting, PaintingOver, Left
  <2>7. CASE next >= c.end /\ loop = -1
    <3>1. left = [moved EXCEPT !.sfx = NoSfx]
      BY <1>2, <2>2, <2>7
    <3>2. /\ left \in ChannelState /\ left.sfx = NoSfx /\ left.pos = pos /\ left.end = c.end
          /\ left.ent = c.ent /\ left.label = c.label
      BY <2>4, <2>5, <3>1 DEF ChannelState
    <3> HIDE DEF left
    <3> QED  BY <1>2, <2>1, <2>2, <2>3, <3>2 DEF Painting, PaintingOver, Left
  <2>8. CASE next >= c.end /\ loop # -1
    <3> DEFINE end == next + Length[s] - loop
    <3>1. left = [moved EXCEPT !.pos = loop, !.end = end]
      BY <1>2, <2>1, <2>2, <2>8
    <3>2. loop \in Nat /\ end \in Nat /\ end > next /\ loop + (end - next) = Length[s]
      <4>1. loop \in Nat /\ loop < Length[s]
        BY <1>3, <2>1, <2>8
      <4> HIDE DEF loop
      <4> QED  BY <1>3, <2>2, <4>1
    <3> HIDE DEF loop, end
    <3>3. /\ left \in ChannelState /\ left.sfx = s /\ left.pos = loop /\ left.end = end
          /\ left.ent = c.ent /\ left.label = c.label
      BY <2>4, <2>5, <3>1, <3>2 DEF ChannelState
    <3> HIDE DEF left
    <3> QED  BY <1>2, <1>3, <2>1, <2>2, <3>2, <3>3 DEF Painting, PaintingOver, Left
  <2> QED  BY <1>2, <2>2, <2>6, <2>7, <2>8
<1> QED  BY <1>4, <1>5

\* A channel that plays is painted up to the time, or is over: the turns are enough.
LEMMA PaintedIs ==
  ASSUME NEW ch \in ChannelState, ch.sfx \in Sfx, NEW from \in Nat, NEW to \in Nat, from < to,
         Left(ch, from) <= Length[ch.sfx]
  PROVE  LET after == M!Painted(ch, from, to)
             last  == M!Turns(ch, from, to)[to - from + 1]
         IN  /\ after \in ChannelState /\ after.sfx \in {ch.sfx, NoSfx}
             /\ after.ent = ch.ent /\ after.label = ch.label
             /\ Left(after, to) <= Length[ch.sfx]
             /\ PaintingOver(last, to)
<1> DEFINE f == M!Turns(ch, from, to)
           N == to - from + 1
           T == {n \in Nat : n <= N =>
                   /\ Painting(f[n], ch, from, to)
                   /\ n >= 1 => \/ PaintingOver(f[n], to)
                                \/ f[n].channel.end > f[n].time /\ f[n].time >= from + (n - 1)}
<1>1. N \in Nat /\ N >= 2
  OBVIOUS
<1>2. /\ f[0] = [channel |-> ch, time |-> from]
      /\ \A n \in 0 .. N : n # 0 => f[n] = M!Turn(f[n - 1], to)
  <2>1. f = [n \in 0 .. N |-> IF n = 0 THEN [channel |-> ch, time |-> from]
                              ELSE M!Turn(f[n - 1], to)]
    BY TurnsAre
  <2> HIDE DEF f, N
  <2>2. \A n \in 0 .. N : f[n] = IF n = 0 THEN [channel |-> ch, time |-> from]
                                 ELSE M!Turn(f[n - 1], to)
    BY <2>1
  <2>3. 0 \in 0 .. N
    BY <1>1
  <2>4. f[0] = [channel |-> ch, time |-> from]
    BY <2>2, <2>3
  <2>5. \A n \in 0 .. N : n # 0 => f[n] = M!Turn(f[n - 1], to)
    BY <2>2
  <2> QED  BY <2>4, <2>5
<1> HIDE DEF f, N
<1>3. 0 \in T
  BY <1>2 DEF Painting
<1>4. ASSUME NEW n \in Nat, n \in T PROVE n + 1 \in T
  <2> SUFFICES ASSUME n + 1 <= N
               PROVE  /\ Painting(f[n + 1], ch, from, to)
                      /\ \/ PaintingOver(f[n + 1], to)
                         \/ /\ f[n + 1].channel.end > f[n + 1].time
                            /\ f[n + 1].time >= from + (n + 1 - 1)
    OBVIOUS
  <2>1. f[n + 1] = M!Turn(f[n], to)
    <3>1. n + 1 \in 0 .. N /\ n + 1 # 0 /\ n + 1 - 1 = n
      BY <1>1
    <3> QED  BY <1>2, <3>1
  <2>2. /\ Painting(f[n], ch, from, to)
        /\ n >= 1 => \/ PaintingOver(f[n], to)
                     \/ f[n].channel.end > f[n].time /\ f[n].time >= from + (n - 1)
    BY <1>1, <1>4
  <2>3. /\ Painting(f[n + 1], ch, from, to)
        /\ PaintingOver(f[n], to) => PaintingOver(f[n + 1], to)
        /\ PaintingOver(f[n + 1], to) \/ f[n + 1].channel.end > f[n + 1].time
        /\ ~PaintingOver(f[n + 1], to) /\ f[n].channel.end > f[n].time =>
             f[n + 1].time >= f[n].time + 1
    BY <2>1, <2>2, TurnPaints
  <2>4. f[n].time \in Nat /\ f[n + 1].time \in Nat /\ f[n + 1].time >= from
    BY <2>2, <2>3 DEF Painting
  <2>5. CASE n = 0
    <3>1. from + (n + 1 - 1) = from
      BY <2>5
    <3> QED  BY <2>3, <2>4, <3>1
  <2>6. CASE n # 0 /\ ~PaintingOver(f[n + 1], to)
    <3>1. f[n].time >= from + (n - 1) /\ f[n + 1].time >= f[n].time + 1
      BY <2>2, <2>3, <2>6
    <3>2. f[n + 1].time >= from + (n + 1 - 1)
      BY <2>4, <3>1
    <3> QED  BY <2>3, <3>2
  <2> QED  BY <2>3, <2>5, <2>6
<1>5. N \in T
  <2> HIDE DEF T
  <2> QED  BY <1>1, <1>3, <1>4, Induct
<1>6. Painting(f[N], ch, from, to)
  BY <1>1, <1>5
<1>7. PaintingOver(f[N], to)
  <2>1. from + (N - 1) = to
    BY DEF N
  <2>2. PaintingOver(f[N], to) \/ f[N].time >= to
    BY <1>1, <1>5, <2>1
  <2> QED  BY <1>6, <2>2 DEF Painting, PaintingOver
<1>8. M!Painted(ch, from, to) = f[N].channel
  BY DEF M!Painted, f, N
<1>9. M!Turns(ch, from, to)[to - from + 1] = f[N]
  BY DEF f, N
<1> DEFINE r == f[N].channel
           t == f[N].time
<1>10. /\ r \in ChannelState /\ r.sfx \in {ch.sfx, NoSfx} /\ r.ent = ch.ent
       /\ r.label = ch.label /\ t \in Nat /\ t <= to /\ r.pos + (r.end - t) <= Length[ch.sfx]
       /\ r.pos \in Nat /\ r.end \in Nat
  BY <1>6 DEF Painting, Left, ChannelState
<1>11. Left(r, to) <= Length[ch.sfx]
  <2>1. Length[ch.sfx] \in Nat
    BY MixerConstants
  <2> HIDE DEF r, t
  <2> QED  BY <1>10, <2>1 DEF Left
<1> QED  BY <1>7, <1>8, <1>9, <1>10, <1>11

\* memset leaves a channel that is free.
LEMMA ClearedIs ==
  /\ M!Cleared \in ChannelState
  /\ M!Cleared = [sfx |-> NoSfx, pos |-> 0, end |-> 0, ent |-> 0, label |-> 0]
BY DEF M!Cleared, ChannelState

\* The least of some numbers is one of them.
LEMMA MinIn ==
  ASSUME NEW S \in SUBSET Nat, S # {}
  PROVE  M!Min(S) \in S
<1>1. \E x \in S : \A y \in S : x <= y
  BY Least
<1> QED  BY <1>1 DEF M!Min

\* What is left to play does not get more as the time goes.
LEMMA LeftFalls ==
  ASSUME NEW ch \in ChannelState, NEW s \in Nat, NEW t \in Nat, s <= t
  PROVE  Left(ch, s) \in Int /\ Left(ch, t) <= Left(ch, s)
<1>1. ch.pos \in Nat /\ ch.end \in Nat
  BY DEF ChannelState
<1> QED  BY <1>1 DEF Left

\* One channel in use becomes another.
LEMMA OneKeeps ==
  ASSUME MixerInv, NEW c \in M!Channel, c < total, NEW x \in ChannelState,
         channels' = [channels EXCEPT ![c] = x], UNCHANGED <<paintedtime, total>>,
         x.sfx # NoSfx => Left(x, paintedtime) <= Length[x.sfx],
         c \in M!AmbientChannel => /\ x.sfx \in {NoSfx, AmbientSfx[c]}
                                   /\ Left(x, paintedtime) <= Length[AmbientSfx[c]],
         c \in M!DynamicChannel /\ x.label = 1 =>
           \A d \in M!DynamicChannel \ {c} : ~(channels[d].label = 1 /\ channels[d].ent = x.ent)
  PROVE  MixerInv'
<1>1. /\ channels \in [M!Channel -> ChannelState] /\ channels' \in [M!Channel -> ChannelState]
      /\ channels'[c] = x /\ \A d \in M!Channel \ {c} : channels'[d] = channels[d]
  BY DEF MixerInv, MixerType
<1>2. M!AmbientChannel \subseteq M!Channel /\ M!DynamicChannel \subseteq M!Channel
      /\ M!Channel \subseteq Nat
  BY MixerConstants
<1>3. MixerType'
  BY <1>1 DEF MixerInv, MixerType
<1>4. AmbientsOK'
  BY <1>1, <1>2 DEF MixerInv, AmbientsOK
<1>5. StaticsOK'
  <2>1. total \in Nat /\ c \in Nat
    BY <1>2, MixerConstants DEF MixerInv, MixerType
  <2> QED  BY <1>1, <2>1 DEF MixerInv, StaticsOK
<1>6. LabelsOK'
  BY <1>1, <1>2 DEF MixerInv, LabelsOK
<1>7. \A d \in M!Channel : M!Plays(d)' =>
        Left(channels[d], paintedtime)' <= Length[channels'[d].sfx]
  BY <1>1 DEF MixerInv, M!Plays, Left
<1> QED  BY <1>3, <1>4, <1>5, <1>6, <1>7 DEF MixerInv, Left

\* SND_PickChannel: the channel that the entity has for what has one place only.
LEMMA PickIs ==
  ASSUME MixerInv, NEW e \in Entity, NEW l \in M!Label, NEW c \in M!SND_PickChannel(e, l)
  PROVE  /\ c \in M!DynamicChannel
         /\ l = 1 => \A d \in M!DynamicChannel \ {c} :
                       ~(channels[d].label = 1 /\ channels[d].ent = e)
<1> DEFINE Same  == {d \in M!DynamicChannel :
                       l # 0 /\ channels[d].ent = e /\ l \in {channels[d].label, -1}}
           Other == {d \in M!DynamicChannel : ~(channels[d].ent = View /\ e # View /\ M!Plays(d))}
           Least2 == {d \in Other : \A o \in Other :
                        \/ channels[d].end < channels[o].end
                        \/ channels[d].end = channels[o].end /\ d <= o}
<1>1. M!SND_PickChannel(e, l) = IF Same # {} THEN {M!Min(Same)} ELSE Least2
  BY DEF M!SND_PickChannel
<1>2. CASE Same # {}
  <2>1. Same \subseteq Nat
    BY MixerConstants
  <2>2. M!Min(Same) \in Same
    <3> HIDE DEF Same
    <3> QED  BY <1>2, <2>1, MinIn
  <2>3. c = M!Min(Same)
    <3> HIDE DEF Same
    <3> QED  BY <1>1, <1>2
  <2>4. c \in Same
    BY <2>2, <2>3
  <2>5. l = 1 => \A d \in M!DynamicChannel :
                   channels[d].label = 1 /\ channels[d].ent = e => d = c
    BY <2>4 DEF MixerInv, LabelsOK
  <2> QED  BY <2>4, <2>5
<1>3. CASE Same = {}
  <2>1. c \in Least2
    <3> HIDE DEF Same, Least2
    <3> QED  BY <1>1, <1>3
  <2>2. l = 1 => \A d \in M!DynamicChannel : ~(channels[d].label = 1 /\ channels[d].ent = e)
    BY <1>3
  <2> QED  BY <2>1, <2>2
<1> QED  BY <1>2, <1>3

\* S_StartSound takes the channel picked for it, or does without.
LEMMA StartKeeps ==
  ASSUME MixerInv, NEW e \in Entity, NEW l \in M!Label, NEW s \in Sfx, M!S_StartSound(e, l, s)
  PROVE  MixerInv'
<1>1. PICK c \in M!SND_PickChannel(e, l) :
        LET empty  == [M!Cleared EXCEPT !.ent = e, !.label = l]
            finish == paintedtime + Length[s]
        IN  /\ \/ channels' = [channels EXCEPT ![c] = empty]
               \/ \E rand \in 0 .. MaxSkip - 1 :
                    LET skip == IF rand >= finish THEN finish - 1 ELSE rand
                    IN  channels' = [channels EXCEPT ![c] =
                                       [empty EXCEPT !.sfx = s, !.pos = skip, !.end = finish - skip]]
            /\ UNCHANGED <<paintedtime, total>>
  <2>1. 0 \in 0 .. MaxSkip - 1
    BY MixerConstants
  <2> QED  BY <2>1 DEF M!S_StartSound
<1> DEFINE empty  == [M!Cleared EXCEPT !.ent = e, !.label = l]
           finish == paintedtime + Length[s]
<1>2. /\ c \in M!DynamicChannel
      /\ l = 1 => \A d \in M!DynamicChannel \ {c} :
                    ~(channels[d].label = 1 /\ channels[d].ent = e)
  BY PickIs
<1>3. /\ c \in M!Channel /\ c < total /\ c \notin M!AmbientChannel
      /\ paintedtime \in Nat /\ Length[s] \in Nat /\ Length[s] >= 1
  <2>1. total \in Int /\ total >= Ambients + Dynamics /\ paintedtime \in Nat
    BY MixerConstants DEF MixerInv, MixerType
  <2>2. c \in Int /\ c < Ambients + Dynamics
    BY <1>2, MixerConstants DEF M!DynamicChannel
  <2>3. c < total
    BY <2>1, <2>2, MixerConstants
  <2> QED  BY <1>2, <2>1, <2>3, MixerConstants
<1>4. /\ empty \in ChannelState /\ empty.sfx = NoSfx /\ empty.pos = 0 /\ empty.end = 0
      /\ empty.ent = e /\ empty.label = l
  <2>1. l \in {-1, 0, 1}
    BY DEF M!Label
  <2>2. /\ M!Cleared \in ChannelState
        /\ M!Cleared.sfx = NoSfx /\ M!Cleared.pos = 0 /\ M!Cleared.end = 0
    BY ClearedIs
  <2> QED  BY <2>1, <2>2 DEF ChannelState
<1>5. CASE channels' = [channels EXCEPT ![c] = empty]
  <2>1. empty.sfx = NoSfx /\ empty.label = l /\ empty.ent = e
    BY <1>4
  <2> HIDE DEF empty
  <2> QED  BY <1>1, <1>2, <1>3, <1>4, <1>5, <2>1, OneKeeps
<1>6. CASE channels' # [channels EXCEPT ![c] = empty]
  <2>1. PICK rand \in 0 .. MaxSkip - 1 :
          LET skip == IF rand >= finish THEN finish - 1 ELSE rand
          IN  channels' = [channels EXCEPT ![c] =
                             [empty EXCEPT !.sfx = s, !.pos = skip, !.end = finish - skip]]
    BY <1>1, <1>6
  <2> DEFINE skip == IF rand >= finish THEN finish - 1 ELSE rand
             x == [empty EXCEPT !.sfx = s, !.pos = skip, !.end = finish - skip]
  <2>2. skip \in Nat /\ finish \in Nat /\ finish - skip \in Nat
        /\ skip + (finish - skip - paintedtime) <= Length[s]
    BY <1>3, MixerConstants
  <2> HIDE DEF skip, finish
  <2>3. /\ x \in ChannelState /\ x.sfx = s /\ x.pos = skip /\ x.end = finish - skip
        /\ x.ent = e /\ x.label = l
    <3> HIDE DEF empty
    <3> QED  BY <1>4, <2>2 DEF ChannelState
  <2>4. x.sfx = s /\ x.label = l /\ x.ent = e /\ Left(x, paintedtime) <= Length[s]
    BY <2>2, <2>3 DEF Left
  <2>5. channels' = [channels EXCEPT ![c] = x]
    BY <2>1 DEF skip
  <2> HIDE DEF x
  <2> QED  BY <1>1, <1>2, <1>3, <2>3, <2>4, <2>5, OneKeeps
<1> QED  BY <1>5, <1>6

\* S_StopSound frees the channel that has the entity's sound.
LEMMA StopKeeps ==
  ASSUME MixerInv, NEW e \in Entity, NEW l \in M!Label, M!S_StopSound(e, l)
  PROVE  MixerInv'
<1> DEFINE S == M!Stopped(e, l)
           c == M!Min(S)
           x == [channels[c] EXCEPT !.end = 0, !.sfx = NoSfx]
<1>1. S \subseteq 0 .. Dynamics - 1 /\ S # {}
  BY DEF M!Stopped, M!S_StopSound
<1>2. c \in 0 .. Dynamics - 1
  <2>1. S \subseteq Nat
    BY <1>1
  <2>2. c \in S
    <3> HIDE DEF S
    <3> QED  BY <1>1, <2>1, MinIn
  <2> QED  BY <1>1, <2>2
<1>3. channels' = [channels EXCEPT ![c] = x] /\ UNCHANGED <<paintedtime, total>>
  BY DEF M!S_StopSound
<1> HIDE DEF c
<1>4. c \in M!Channel /\ c < total
  <2>1. total \in Int /\ total >= Ambients + Dynamics
    BY MixerConstants DEF MixerInv, MixerType
  <2> QED  BY <1>2, <2>1, MixerConstants DEF M!Channel
<1>5. channels[c] \in ChannelState /\ paintedtime \in Nat
  BY <1>4 DEF MixerInv, MixerType
<1>6. /\ x \in ChannelState /\ x.sfx = NoSfx /\ x.end = 0 /\ x.pos = channels[c].pos
      /\ x.ent = channels[c].ent /\ x.label = channels[c].label
  BY <1>5 DEF ChannelState
<1>7. c \in M!AmbientChannel => Left(x, paintedtime) <= Length[AmbientSfx[c]]
  <2> SUFFICES ASSUME c \in M!AmbientChannel PROVE Left(x, paintedtime) <= Length[AmbientSfx[c]]
    OBVIOUS
  <2>1. Left(channels[c], paintedtime) <= Length[AmbientSfx[c]] /\ Length[AmbientSfx[c]] \in Nat
    BY MixerConstants DEF MixerInv, AmbientsOK
  <2>2. channels[c].pos \in Nat /\ channels[c].end \in Nat
    BY <1>5 DEF ChannelState
  <2> HIDE DEF x
  <2> QED  BY <1>5, <1>6, <2>1, <2>2 DEF Left
<1>8. c \in M!DynamicChannel /\ x.label = 1 =>
        \A d \in M!DynamicChannel \ {c} : ~(channels[d].label = 1 /\ channels[d].ent = x.ent)
  BY <1>6 DEF MixerInv, LabelsOK
<1> HIDE DEF x
<1> QED  BY <1>3, <1>4, <1>6, <1>7, <1>8, OneKeeps

\* S_StaticSound takes the next of the static channels, as long as there are any.
LEMMA StaticKeeps ==
  ASSUME MixerInv, NEW s \in Sfx, M!S_StaticSound(s)
  PROVE  MixerInv'
<1>1. total \in M!Channel /\ total' = total + 1 /\ paintedtime' = paintedtime
  BY DEF M!S_StaticSound
<1>2. channels' = channels
      \/ channels' = [channels EXCEPT ![total].sfx = s, ![total].end = paintedtime + Length[s]]
  BY DEF M!S_StaticSound
<1>3. /\ total \in Nat /\ total >= Ambients + Dynamics /\ paintedtime \in Nat
      /\ total < Ambients + Dynamics + Statics /\ Length[s] \in Nat
  BY <1>1, MixerConstants DEF MixerInv, MixerType, M!Channel
<1>4. total \notin M!AmbientChannel \cup M!DynamicChannel
  BY <1>3, MixerConstants DEF M!AmbientChannel, M!DynamicChannel
<1>5. channels[total] = M!Cleared /\ channels \in [M!Channel -> ChannelState]
  BY <1>1, <1>3 DEF MixerInv, MixerType, StaticsOK
<1>6. /\ channels' \in [M!Channel -> ChannelState]
      /\ \A d \in M!Channel \ {total} : channels'[d] = channels[d]
      /\ channels'[total].sfx # NoSfx => Left(channels'[total], paintedtime) <= Length[channels'[total].sfx]
  <2> DEFINE x == [M!Cleared EXCEPT !.sfx = s, !.end = paintedtime + Length[s]]
  <2>1. M!Cleared \in ChannelState /\ M!Cleared.pos = 0 /\ paintedtime + Length[s] \in Nat
    BY <1>3, ClearedIs
  <2>2. /\ x \in ChannelState /\ x.sfx = s /\ x.pos = 0 /\ x.end = paintedtime + Length[s]
    BY <2>1 DEF ChannelState
  <2> HIDE DEF x
  <2>5. Left(x, paintedtime) <= Length[s]
    BY <1>3, <2>2 DEF Left
  <2>3. channels' = channels \/ channels' = [channels EXCEPT ![total] = x]
    BY <1>1, <1>2, <1>5 DEF x
  <2>4. ~M!Plays(total)
    BY <1>5, ClearedIs DEF M!Plays
  <2>6. CASE channels' = channels
    BY <1>1, <1>5, <2>4, <2>6 DEF M!Plays
  <2>7. CASE channels' = [channels EXCEPT ![total] = x]
    BY <1>1, <1>5, <2>2, <2>5, <2>7 DEF M!Plays
  <2> QED  BY <2>3, <2>6, <2>7
<1>7. MixerType'
  BY <1>1, <1>3, <1>6, MixerConstants DEF MixerType, MixerInv
<1>8. AmbientsOK'
  BY <1>1, <1>4, <1>6, MixerConstants DEF MixerInv, AmbientsOK, Left
<1>9. StaticsOK'
  <2>1. \A c \in M!Channel : c >= total + 1 => c >= total /\ c # total
    BY <1>3, MixerNumbers
  <2> QED  BY <1>1, <1>6, <2>1 DEF MixerInv, StaticsOK
<1>10. LabelsOK'
  BY <1>4, <1>6, MixerConstants DEF MixerInv, LabelsOK
<1>11. \A d \in M!Channel : M!Plays(d)' =>
         Left(channels'[d], paintedtime') <= Length[channels'[d].sfx]
  <2> SUFFICES ASSUME NEW d \in M!Channel, M!Plays(d)'
               PROVE  Left(channels'[d], paintedtime) <= Length[channels'[d].sfx]
    BY <1>1
  <2>1. CASE d = total
    BY <1>6, <2>1 DEF M!Plays
  <2>2. CASE d # total
    <3>1. channels'[d] = channels[d] /\ M!Plays(d)
      BY <1>6, <2>2 DEF M!Plays
    <3> QED  BY <3>1 DEF MixerInv
  <2> QED  BY <2>1, <2>2
<1> QED  BY <1>7, <1>8, <1>9, <1>10, <1>11 DEF MixerInv, Left

\* S_StopAllSounds clears all, and no static sound is left.
LEMMA StopAllKeeps ==
  ASSUME paintedtime \in Nat, paintedtime' \in Nat, total' = Ambients + Dynamics,
         channels' = [c \in M!Channel |-> M!Cleared]
  PROVE  MixerInv'
<1>1. /\ \A c \in M!Channel : channels'[c] = M!Cleared
      /\ channels' \in [M!Channel -> ChannelState]
  BY ClearedIs
<1>2. M!Cleared.sfx = NoSfx /\ M!Cleared.label = 0 /\ M!Cleared.pos = 0 /\ M!Cleared.end = 0
  BY ClearedIs
<1>3. MixerType'
  BY <1>1, MixerConstants DEF MixerType
<1>4. AmbientsOK'
  <2> SUFFICES ASSUME NEW c \in M!AmbientChannel
               PROVE  /\ channels'[c].sfx \in {NoSfx, AmbientSfx[c]}
                      /\ Left(channels'[c], paintedtime') <= Length[AmbientSfx[c]]
    BY DEF AmbientsOK, Left
  <2>1. Length[AmbientSfx[c]] \in Nat /\ channels'[c] = M!Cleared
    BY <1>1, MixerConstants
  <2> QED  BY <1>2, <2>1 DEF Left
<1>5. StaticsOK'
  BY <1>1 DEF StaticsOK
<1>6. LabelsOK'
  BY <1>1, <1>2, MixerConstants DEF LabelsOK
<1>7. \A c \in M!Channel : ~M!Plays(c)'
  BY <1>1, <1>2 DEF M!Plays
<1> QED  BY <1>3, <1>4, <1>5, <1>6, <1>7 DEF MixerInv

\* The channels change where they play, each for itself, and the time goes on.
LEMMA AllKeep ==
  ASSUME MixerInv, paintedtime' \in Nat, paintedtime <= paintedtime', total' = total,
         channels' = [c \in M!Channel |-> channels'[c]],
         \A c \in M!Channel :
           \/ channels'[c] = channels[c]
           \/ /\ c < total /\ channels'[c] \in ChannelState
              /\ channels'[c].ent = channels[c].ent /\ channels'[c].label = channels[c].label
              /\ \/ /\ M!Plays(c) /\ channels'[c].sfx \in {channels[c].sfx, NoSfx}
                    /\ Left(channels'[c], paintedtime') <= Length[channels[c].sfx]
                 \/ /\ c \in M!AmbientChannel /\ channels'[c].sfx \in {NoSfx, AmbientSfx[c]}
                    /\ channels'[c].pos = channels[c].pos /\ channels'[c].end = channels[c].end
  PROVE  MixerInv'
<1>1. channels \in [M!Channel -> ChannelState] /\ paintedtime \in Nat /\ total \in Int
  BY MixerConstants DEF MixerInv, MixerType
<1>2. channels' \in [M!Channel -> ChannelState]
  <2>1. \A c \in M!Channel : channels'[c] \in ChannelState
    BY <1>1
  <2> QED  BY <2>1
<1>3. \A c \in M!Channel :
        /\ Left(channels[c], paintedtime') <= Left(channels[c], paintedtime)
        /\ Left(channels[c], paintedtime') \in Int /\ Left(channels[c], paintedtime) \in Int
        /\ Left(channels'[c], paintedtime') \in Int
  <2> SUFFICES ASSUME NEW c \in M!Channel
               PROVE  /\ Left(channels[c], paintedtime') <= Left(channels[c], paintedtime)
                      /\ Left(channels[c], paintedtime') \in Int
                      /\ Left(channels[c], paintedtime) \in Int
                      /\ Left(channels'[c], paintedtime') \in Int
    OBVIOUS
  <2>1. channels[c] \in ChannelState /\ channels'[c] \in ChannelState
    BY <1>1, <1>2
  <2>2. Left(channels[c], paintedtime) \in Int
        /\ Left(channels[c], paintedtime') <= Left(channels[c], paintedtime)
    BY <1>1, <2>1, LeftFalls
  <2>3. Left(channels[c], paintedtime') \in Int /\ Left(channels'[c], paintedtime') \in Int
    BY <2>1, LeftFalls
  <2> QED  BY <2>2, <2>3
<1>4. M!AmbientChannel \subseteq M!Channel /\ M!DynamicChannel \subseteq M!Channel
      /\ \A c \in M!AmbientChannel : AmbientSfx[c] \in Sfx
      /\ \A s \in Sfx : Length[s] \in Int
  BY MixerConstants
<1>5. \A c \in M!Channel : M!Plays(c) => channels[c].sfx \in Sfx
  BY <1>1 DEF M!Plays, ChannelState
<1>6. MixerType'
  BY <1>2 DEF MixerInv, MixerType
<1>7. AmbientsOK'
  <2> SUFFICES ASSUME NEW c \in M!AmbientChannel
               PROVE  /\ channels'[c].sfx \in {NoSfx, AmbientSfx[c]}
                      /\ Left(channels'[c], paintedtime') <= Length[AmbientSfx[c]]
    BY DEF AmbientsOK, Left
  <2>1. /\ channels[c].sfx \in {NoSfx, AmbientSfx[c]}
        /\ Left(channels[c], paintedtime) <= Length[AmbientSfx[c]]
    BY DEF MixerInv, AmbientsOK
  <2>2. Left(channels[c], paintedtime') <= Length[AmbientSfx[c]]
    BY <1>3, <1>4, <2>1
  <2>3. CASE channels'[c] = channels[c]
    BY <2>1, <2>2, <2>3
  <2>4. CASE /\ M!Plays(c) /\ channels'[c].sfx \in {channels[c].sfx, NoSfx}
             /\ Left(channels'[c], paintedtime') <= Length[channels[c].sfx]
    BY <2>1, <2>4 DEF M!Plays
  <2>5. CASE /\ channels'[c].sfx \in {NoSfx, AmbientSfx[c]}
             /\ channels'[c].pos = channels[c].pos /\ channels'[c].end = channels[c].end
    BY <2>2, <2>5 DEF Left
  <2> QED  BY <1>4, <2>3, <2>4, <2>5
<1>8. StaticsOK'
  <2>1. \A c \in M!Channel : c >= total => ~(c < total)
    BY <1>1, MixerConstants
  <2> QED  BY <2>1 DEF MixerInv, StaticsOK
<1>9. LabelsOK'
  <2>1. \A c \in M!DynamicChannel :
          channels'[c].label = channels[c].label /\ channels'[c].ent = channels[c].ent
    BY <1>4
  <2> QED  BY <2>1 DEF MixerInv, LabelsOK
<1>10. \A c \in M!Channel : M!Plays(c)' =>
         Left(channels'[c], paintedtime') <= Length[channels'[c].sfx]
  <2> SUFFICES ASSUME NEW c \in M!Channel, channels'[c].sfx # NoSfx
               PROVE  Left(channels'[c], paintedtime') <= Length[channels'[c].sfx]
    BY DEF M!Plays
  <2>1. CASE channels'[c] = channels[c]
    <3>1. M!Plays(c) /\ channels[c].sfx \in Sfx
          /\ Left(channels[c], paintedtime) <= Length[channels[c].sfx]
      BY <1>5, <2>1 DEF MixerInv, M!Plays
    <3>2. /\ Left(channels[c], paintedtime') <= Left(channels[c], paintedtime)
          /\ Left(channels[c], paintedtime') \in Int /\ Left(channels[c], paintedtime) \in Int
      BY <1>3
    <3>4. Length[channels[c].sfx] \in Int
      <4> DEFINE s == channels[c].sfx
      <4>1. s \in Sfx
        BY <3>1
      <4> HIDE DEF s
      <4>2. Length[s] \in Nat
        BY <4>1, MixerConstants
      <4> QED  BY <4>2 DEF s
    <3>3. Left(channels[c], paintedtime') <= Length[channels[c].sfx]
      BY <3>1, <3>2, <3>4
    <3> QED  BY <2>1, <3>3
  <2>2. CASE /\ M!Plays(c) /\ channels'[c].sfx \in {channels[c].sfx, NoSfx}
             /\ Left(channels'[c], paintedtime') <= Length[channels[c].sfx]
    BY <2>2
  <2>3. CASE c \in M!AmbientChannel
    BY <1>7, <2>3 DEF AmbientsOK, Left
  <2> QED  BY <2>1, <2>2, <2>3
<1> QED  BY <1>6, <1>7, <1>8, <1>9, <1>10 DEF MixerInv, Left

\* S_UpdateAmbientSounds gives an ambient channel its sound, or takes it away.
LEMMA AmbientsKeep ==
  ASSUME MixerInv, M!S_UpdateAmbientSounds
  PROVE  MixerInv'
<1>1. PICK on \in BOOLEAN :
        channels' = [c \in M!Channel |-> IF c \in M!AmbientChannel
                       THEN [channels[c] EXCEPT !.sfx = IF on THEN AmbientSfx[c] ELSE NoSfx]
                       ELSE channels[c]]
  BY DEF M!S_UpdateAmbientSounds
<1>2. paintedtime' = paintedtime /\ total' = total /\ paintedtime \in Nat
      /\ channels \in [M!Channel -> ChannelState]
  BY DEF M!S_UpdateAmbientSounds, MixerInv, MixerType
<1>3. channels' = [c \in M!Channel |-> channels'[c]]
  BY <1>1
<1>4. ASSUME NEW c \in M!AmbientChannel
      PROVE  /\ c < total /\ channels'[c] \in ChannelState
             /\ channels'[c].ent = channels[c].ent /\ channels'[c].label = channels[c].label
             /\ channels'[c].sfx \in {NoSfx, AmbientSfx[c]}
             /\ channels'[c].pos = channels[c].pos /\ channels'[c].end = channels[c].end
  <2> DEFINE s == IF on THEN AmbientSfx[c] ELSE NoSfx
  <2>1. c \in M!Channel /\ s \in Sfx \cup {NoSfx} /\ s \in {NoSfx, AmbientSfx[c]}
    BY MixerConstants
  <2>2. channels'[c] = [channels[c] EXCEPT !.sfx = s] /\ channels[c] \in ChannelState
    BY <1>1, <1>2, <2>1
  <2>3. c < total
    <3>1. total \in Int /\ total >= Ambients + Dynamics
      BY MixerConstants DEF MixerInv, MixerType
    <3> QED  BY <3>1, MixerConstants DEF M!AmbientChannel
  <2> HIDE DEF s
  <2> QED  BY <2>1, <2>2, <2>3 DEF ChannelState
<1>5. \A c \in M!Channel \ M!AmbientChannel : channels'[c] = channels[c]
  BY <1>1
<1> QED  BY <1>2, <1>3, <1>4, <1>5, AllKeep

\* S_PaintChannels leaves every channel as its turns leave it.
LEMMA PaintKeeps ==
  ASSUME MixerInv, NEW to, to \in paintedtime + 1 .. paintedtime + Ahead,
         NEW heard \in SUBSET M!Playing, M!S_PaintChannels(to, heard)
  PROVE  MixerInv'
<1>1. /\ channels' = [c \in M!Channel |-> IF c \in heard
                                          THEN M!Painted(channels[c], paintedtime, to)
                                          ELSE channels[c]]
      /\ paintedtime' = to /\ total' = total
  BY DEF M!S_PaintChannels
<1>2. paintedtime \in Nat /\ to \in Nat /\ paintedtime < to
  BY DEF MixerInv, MixerType
<1>3. channels' = [c \in M!Channel |-> channels'[c]]
  BY <1>1
<1>4. ASSUME NEW c \in heard
      PROVE  /\ c \in M!Channel /\ c < total /\ channels'[c] \in ChannelState
             /\ channels'[c].ent = channels[c].ent /\ channels'[c].label = channels[c].label
             /\ M!Plays(c) /\ channels'[c].sfx \in {channels[c].sfx, NoSfx}
             /\ Left(channels'[c], paintedtime') <= Length[channels[c].sfx]
  <2>1. c \in M!Channel /\ c < total /\ M!Plays(c)
    BY DEF M!Playing
  <2>2. channels[c] \in ChannelState /\ channels[c].sfx \in Sfx
        /\ Left(channels[c], paintedtime) <= Length[channels[c].sfx]
    BY <2>1 DEF MixerInv, MixerType, M!Plays, ChannelState
  <2>3. channels'[c] = M!Painted(channels[c], paintedtime, to)
    BY <1>1, <2>1
  <2> QED  BY <1>1, <1>2, <2>1, <2>2, <2>3, PaintedIs
<1>5. \A c \in M!Channel \ heard : channels'[c] = channels[c]
  BY <1>1
<1>6. paintedtime' \in Nat /\ paintedtime <= paintedtime'
  BY <1>1, <1>2
<1> QED  BY <1>1, <1>3, <1>4, <1>5, <1>6, AllKeep

\* Every step of the mixer keeps all of it.
LEMMA MixerStep ==
  ASSUME MixerInv, M!Next \/ UNCHANGED MVars
  PROVE  MixerInv'
<1>1. CASE \E e \in Entity, l \in M!Label :
             M!S_StopSound(e, l) \/ \E s \in Sfx : M!S_StartSound(e, l, s)
  BY <1>1, StopKeeps, StartKeeps
<1>2. CASE \E s \in Sfx : M!S_StaticSound(s)
  BY <1>2, StaticKeeps
<1>3. CASE M!S_StopAllSounds
  BY <1>3, StopAllKeeps DEF M!S_StopAllSounds, MixerInv, MixerType
<1>4. CASE M!S_UpdateAmbientSounds
  BY <1>4, AmbientsKeep
<1>5. CASE \E to \in paintedtime + 1 .. paintedtime + Ahead : M!Overshoot(to)
  <2>1. PICK to \in paintedtime + 1 .. paintedtime + Ahead : M!Overshoot(to)
    BY <1>5
  <2>2. paintedtime \in Nat /\ paintedtime' \in Nat /\ paintedtime <= paintedtime'
        /\ total' = total /\ channels' = channels /\ channels' = [c \in M!Channel |-> channels'[c]]
    BY <2>1 DEF M!Overshoot, MixerInv, MixerType
  <2> QED  BY <2>2, AllKeep
<1>6. CASE \E to \in paintedtime + 1 .. paintedtime + Ahead :
             \E heard \in SUBSET M!Playing : M!S_PaintChannels(to, heard)
  BY <1>6, PaintKeeps
<1>7. CASE UNCHANGED MVars
  <2>1. paintedtime \in Nat /\ paintedtime' \in Nat /\ paintedtime <= paintedtime'
        /\ total' = total /\ channels' = channels /\ channels' = [c \in M!Channel |-> channels'[c]]
    BY <1>7 DEF MVars, MixerInv, MixerType
  <2> QED  BY <2>1, AllKeep
<1> QED  BY <1>1, <1>2, <1>3, <1>4, <1>5, <1>6, <1>7 DEF M!Next

\* Quake's mixer, for any sounds and numbers of channels: what a channel has still to play lies
\* inside its sound however it is painted, looped, skipped or left unpainted, and an entity has
\* one sound on each of its channels that has one place.
THEOREM MixerIsSound == MCSpec => []ReadsInsideSound
<1>1. MCInit => MixerInv
  <2> SUFFICES ASSUME M!Init PROVE MixerInv
    BY DEF MCInit
  <2>1. /\ paintedtime = 0 /\ channels = [c \in M!Channel |-> M!Cleared]
        /\ total = Ambients + Dynamics
    BY DEF M!Init
  <2>2. M!Cleared.sfx = NoSfx /\ M!Cleared.label = 0 /\ M!Cleared.pos = 0 /\ M!Cleared.end = 0
    BY ClearedIs
  <2>3. MixerType
    BY <2>1, ClearedIs, MixerConstants DEF MixerType
  <2>4. AmbientsOK
    <3> SUFFICES ASSUME NEW c \in M!AmbientChannel
                 PROVE  /\ channels[c].sfx \in {NoSfx, AmbientSfx[c]}
                        /\ Left(channels[c], paintedtime) <= Length[AmbientSfx[c]]
      BY DEF AmbientsOK
    <3>1. Length[AmbientSfx[c]] \in Nat /\ channels[c] = M!Cleared
      BY <2>1, MixerConstants
    <3> QED  BY <2>1, <2>2, <3>1 DEF Left
  <2>5. StaticsOK
    BY <2>1 DEF StaticsOK
  <2>6. LabelsOK
    BY <2>1, <2>2, MixerConstants DEF LabelsOK
  <2>7. \A c \in M!Channel : ~M!Plays(c)
    BY <2>1, <2>2 DEF M!Plays
  <2> QED  BY <2>3, <2>4, <2>5, <2>6, <2>7 DEF MixerInv
<1>2. MixerInv /\ [MCNext]_MCVars => MixerInv'
  <2> SUFFICES ASSUME MixerInv, [MCNext]_MCVars PROVE MixerInv'
    OBVIOUS
  <2>1. M!Next \/ UNCHANGED MVars
    BY DEF MCNext, GOnly, KOnly, COnly, MCVars
  <2> QED  BY <2>1, MixerStep
<1>3. MixerInv => ReadsInsideSound
  BY DEF MixerInv, ReadsInsideSound, M!ReadsInsideSound, M!OneSoundPerLabel, LabelsOK, Left
<1>4. QED  BY <1>1, <1>2, <1>3, PTL DEF MCSpec

-----------------------------------------------------------------------------
(* The states of Doom.                                                      *)

GameState  == {"demoscreen", "level", "intermission", "finale"}
GameAction == {"nothing", "loadlevel", "newgame", "loadgame", "savegame", "playdemo",
               "completed", "victory", "worlddone"}
Button     == {"save", "pause", "plain"}

TypeOK ==
  /\ gamestate \in GameState /\ gameaction \in GameAction
  /\ oldgamestate \in GameState \cup {"none"}
  /\ advancedemo \in BOOLEAN /\ demoplayback \in BOOLEAN /\ usergame \in BOOLEAN
  /\ intermission \in BOOLEAN /\ gamekeydown \in BOOLEAN /\ held \in BOOLEAN
  /\ gamemap \in Map /\ playerstate \in {"live", "dead", "reborn"}
  /\ cmds \in Seq(Button) /\ menu \in {"none", "save", "end"}
  /\ at \in {"loop", "events", "actions"}

\* A tic that has begun has taken the title sequence's turn, and has a command.
Turns == at = "actions" => ~advancedemo /\ cmds # <<>>

\* What is to change is something the state of the game can change by.
Asked ==
  /\ gameaction \in {"completed", "worlddone", "loadlevel", "victory"} /\ ~advancedemo =>
       gamestate # "demoscreen"
  /\ gameaction = "completed" => ~intermission
  /\ gamestate = "intermission" => gamemap < LastMap
  /\ gameaction \in {"playdemo", "loadlevel", "victory"} => at = "actions"

\* A player waits to be born again in a level, and not for longer than until the next tic.
Birth ==
  playerstate = "reborn" =>
    gamestate = "level" /\ (at = "actions" => gameaction = "loadlevel")

\* An intermission is known to the tic after it.
Seen ==
  /\ gamestate = "intermission" =>
       oldgamestate = "intermission" \/ (at = "actions" /\ gameaction = "nothing")
  /\ intermission => gamestate = "intermission" \/ oldgamestate = "intermission"

\* There is something on, or a demo about to be played.
On ==
  \/ gamestate = "demoscreen" \/ demoplayback \/ usergame \/ advancedemo
  \/ gameaction = "playdemo"

IInv ==
  /\ TypeOK /\ Fits /\ Turns /\ Asked /\ Birth /\ Seen /\ On /\ NoStuckKey

USE DEF GameState, GameAction, Button, vars, titleVars, inputVars, playVars, stateVars

-----------------------------------------------------------------------------
(* Every step keeps the states fitting each other. *)

\* The constants, one by one.
LEMMA Constants ==
  ASSUME GameAssumption
  PROVE  LastMap \in Nat /\ LastMap >= 1 /\ MaxAhead \in Nat
BY DEF GameAssumption

\* The tic's events begin.
LEMMA StartTicKeeps ==
  ASSUME GameAssumption, IInv, I_StartTic
  PROVE  IInv'
<1>1. TypeOK'
  BY DEF I_StartTic, IInv, TypeOK
<1>2. Fits'
  BY DEF I_StartTic, IInv, Fits
<1>3. Turns'
  BY DEF I_StartTic, IInv, Turns
<1>4. Asked'
  BY DEF I_StartTic, IInv, Asked
<1>5. Birth'
  BY DEF I_StartTic, IInv, Birth
<1>6. Seen'
  BY DEF I_StartTic, IInv, Seen
<1>7. On'
  BY DEF I_StartTic, IInv, On
<1>8. NoStuckKey'
  BY DEF I_StartTic, IInv, NoStuckKey
<1> QED  BY <1>1, <1>2, <1>3, <1>4, <1>5, <1>6, <1>7, <1>8 DEF IInv

\* A press may be eaten; the game's key is down only for a key that is.
LEMMA KeyDownKeeps ==
  ASSUME GameAssumption, IInv, KeyDown
  PROVE  IInv'
<1>a. gamekeydown' \in BOOLEAN
  BY DEF KeyDown, IInv, TypeOK
<1>b. UNCHANGED <<titleVars, playVars, stateVars, cmds, menu, at>> /\ held' \in BOOLEAN
  BY DEF KeyDown, Event
<1>1. TypeOK'
  BY <1>a, <1>b DEF IInv, TypeOK
<1>2. Fits'
  BY DEF KeyDown, Event, InTitle, IInv, Fits
<1>3. Turns'
  BY DEF KeyDown, Event, InTitle, IInv, Turns
<1>4. Asked'
  BY DEF KeyDown, Event, InTitle, IInv, Asked
<1>5. Birth'
  BY DEF KeyDown, Event, InTitle, IInv, Birth
<1>6. Seen'
  BY DEF KeyDown, Event, InTitle, IInv, Seen
<1>7. On'
  BY DEF KeyDown, Event, InTitle, IInv, On
<1>8. NoStuckKey'
  BY DEF KeyDown, Event, InTitle, IInv, NoStuckKey
<1> QED  BY <1>1, <1>2, <1>3, <1>4, <1>5, <1>6, <1>7, <1>8 DEF IInv

\* A release that the title eats leaves the key down for a game that is not the user's.
LEMMA KeyUpKeeps ==
  ASSUME GameAssumption, IInv, KeyUp
  PROVE  IInv'
<1>a. gamekeydown' \in BOOLEAN
  BY DEF KeyUp, IInv, TypeOK
<1>b. UNCHANGED <<titleVars, playVars, stateVars, cmds, menu, at>> /\ held' \in BOOLEAN
  BY DEF KeyUp, Event
<1>1. TypeOK'
  BY <1>a, <1>b DEF IInv, TypeOK
<1>2. Fits'
  BY DEF KeyUp, Event, InTitle, IInv, Fits
<1>3. Turns'
  BY DEF KeyUp, Event, InTitle, IInv, Turns
<1>4. Asked'
  BY DEF KeyUp, Event, InTitle, IInv, Asked
<1>5. Birth'
  BY DEF KeyUp, Event, InTitle, IInv, Birth
<1>6. Seen'
  BY DEF KeyUp, Event, InTitle, IInv, Seen
<1>7. On'
  BY DEF KeyUp, Event, InTitle, IInv, On
<1>8. NoStuckKey'
  BY DEF KeyUp, Event, InTitle, IInv, Fits, NoStuckKey
<1> QED  BY <1>1, <1>2, <1>3, <1>4, <1>5, <1>6, <1>7, <1>8 DEF IInv

\* The pause key asks for a button only.
LEMMA PauseKeyKeeps ==
  ASSUME GameAssumption, IInv, PauseKey
  PROVE  IInv'
BY DEF PauseKey, Event, IInv, TypeOK, Fits, Turns, Asked, Birth, Seen, On,
  NoStuckKey

\* The menu may ask in every state.
LEMMA NewGameKeeps ==
  ASSUME GameAssumption, IInv, Ask("newgame")
  PROVE  IInv'
BY DEF Ask, Event, IInv, TypeOK, Fits, Turns, Asked, Birth, Seen, On,
  NoStuckKey

\* So may a savegame.
LEMMA LoadGameKeeps ==
  ASSUME GameAssumption, IInv, Ask("loadgame")
  PROVE  IInv'
BY DEF Ask, Event, IInv, TypeOK, Fits, Turns, Asked, Birth, Seen, On,
  NoStuckKey

\* A savegame is asked for by a button.
LEMMA SaveGameKeeps ==
  ASSUME GameAssumption, IInv, G_SaveGame
  PROVE  IInv'
BY DEF G_SaveGame, Event, IInv, TypeOK, Fits, Turns, Asked, Birth, Seen, On,
  NoStuckKey

\* The menu of the savegames is opened, or the question put, or closed: the game is as it was.
LEMMA SaveMenuKeeps ==
  ASSUME GameAssumption, IInv, M_SaveGame
  PROVE  IInv'
BY DEF M_SaveGame, Shows, Event, IInv, TypeOK, Fits, Turns, Asked, Birth, Seen, On,
  NoStuckKey

\* Likewise.
LEMMA EndMenuKeeps ==
  ASSUME GameAssumption, IInv, M_EndGame
  PROVE  IInv'
BY DEF M_EndGame, Shows, Event, IInv, TypeOK, Fits, Turns, Asked, Birth, Seen, On,
  NoStuckKey

\* Likewise.
LEMMA ClearMenusKeeps ==
  ASSUME GameAssumption, IInv, M_ClearMenus
  PROVE  IInv'
BY DEF M_ClearMenus, Shows, Event, IInv, TypeOK, Fits, Turns, Asked, Birth, Seen, On,
  NoStuckKey

\* Ending the game takes back what was asked for, and leaves the title sequence about to begin again, whatever plays.
LEMMA StartTitleKeeps ==
  ASSUME GameAssumption, IInv, D_StartTitle
  PROVE  IInv'
BY DEF D_StartTitle, Event, IInv, TypeOK, Fits, Turns, Asked, Birth, Seen, On,
  NoStuckKey

\* No more commands are made than there is room for.
LEMMA BuildTiccmdKeeps ==
  ASSUME GameAssumption, IInv, G_BuildTiccmd
  PROVE  IInv'
<1>1. TypeOK'
  BY DEF G_BuildTiccmd, IInv, TypeOK
<1>2. Fits'
  BY Constants DEF G_BuildTiccmd, IInv, Fits
<1>3. Turns'
  BY DEF G_BuildTiccmd, IInv, Turns
<1>4. Asked'
  BY DEF G_BuildTiccmd, IInv, Asked
<1>5. Birth'
  BY DEF G_BuildTiccmd, IInv, Birth
<1>6. Seen'
  BY DEF G_BuildTiccmd, IInv, Seen
<1>7. On'
  BY DEF G_BuildTiccmd, IInv, On
<1>8. NoStuckKey'
  BY DEF G_BuildTiccmd, IInv, NoStuckKey
<1> QED  BY <1>1, <1>2, <1>3, <1>4, <1>5, <1>6, <1>7, <1>8 DEF IInv

\* The title sequence's turn ends the user's game and what it asked for, and a demo that is
\* asked for waits only until the tic's actions.
LEMMA RunTicKeeps ==
  ASSUME GameAssumption, IInv, RunTic
  PROVE  IInv'
<1>1. TypeOK'
  BY DEF RunTic, IInv, TypeOK
<1>2. Fits'
  BY DEF RunTic, IInv, Fits, Turns, Asked
<1>3. Turns'
  BY DEF RunTic, IInv, Turns
<1>4. Asked'
  BY DEF RunTic, IInv, Asked, Birth
<1>5. Birth'
  BY DEF RunTic, IInv, Birth
<1>6. Seen'
  BY DEF RunTic, IInv, Seen
<1>7. On'
  BY DEF RunTic, IInv, Asked, On
<1>8. NoStuckKey'
  BY DEF RunTic, IInv, NoStuckKey
<1> QED  BY <1>1, <1>2, <1>3, <1>4, <1>5, <1>6, <1>7, <1>8 DEF IInv

\* A player born again, into the same level.
LEMMA LoadLevelKeeps ==
  ASSUME GameAssumption, IInv, LoadLevel
  PROVE  IInv'
<1>1. TypeOK'
  BY DEF LoadLevel, Acts, G_DoLoadLevel, IInv, TypeOK
<1>2. Fits'
  BY DEF LoadLevel, Acts, G_DoLoadLevel, IInv, Fits
<1>3. Turns'
  BY DEF LoadLevel, Acts, G_DoLoadLevel, IInv, Turns
<1>4. Asked'
  BY DEF LoadLevel, Acts, G_DoLoadLevel, IInv, Asked
<1>5. Birth'
  BY DEF LoadLevel, Acts, G_DoLoadLevel, IInv, Birth
<1>6. Seen'
  BY DEF LoadLevel, Acts, G_DoLoadLevel, IInv, Seen
<1>7. On'
  BY DEF LoadLevel, Acts, G_DoLoadLevel, IInv, Asked, On
<1>8. NoStuckKey'
  BY DEF LoadLevel, Acts, G_DoLoadLevel, IInv, NoStuckKey
<1> QED  BY <1>1, <1>2, <1>3, <1>4, <1>5, <1>6, <1>7, <1>8 DEF IInv

\* The first map, and no demo.
LEMMA DoNewGameKeeps ==
  ASSUME GameAssumption, IInv, G_DoNewGame
  PROVE  IInv'
<1>a. 1 \in Map
  BY Constants DEF Map
<1>1. TypeOK'
  BY <1>a DEF G_DoNewGame, Acts, G_DoLoadLevel, IInv, TypeOK
<1>2. Fits'
  BY DEF G_DoNewGame, Acts, G_DoLoadLevel, IInv, Fits
<1>3. Turns'
  BY DEF G_DoNewGame, Acts, G_DoLoadLevel, IInv, Turns
<1>4. Asked'
  BY DEF G_DoNewGame, Acts, G_DoLoadLevel, IInv, Asked
<1>5. Birth'
  BY DEF G_DoNewGame, Acts, G_DoLoadLevel, IInv, Birth
<1>6. Seen'
  BY DEF G_DoNewGame, Acts, G_DoLoadLevel, IInv, Seen
<1>7. On'
  BY DEF G_DoNewGame, Acts, G_DoLoadLevel, IInv, On
<1>8. NoStuckKey'
  BY DEF G_DoNewGame, Acts, G_DoLoadLevel, IInv, NoStuckKey
<1> QED  BY <1>1, <1>2, <1>3, <1>4, <1>5, <1>6, <1>7, <1>8 DEF IInv

\* Whether there is such a savegame or not.
LEMMA DoLoadGameKeeps ==
  ASSUME GameAssumption, IInv, G_DoLoadGame
  PROVE  IInv'
<1>1. TypeOK'
  BY DEF G_DoLoadGame, Acts, G_DoLoadLevel, IInv, TypeOK
<1>2. Fits'
  BY DEF G_DoLoadGame, Acts, G_DoLoadLevel, IInv, Fits
<1>3. Turns'
  BY DEF G_DoLoadGame, Acts, G_DoLoadLevel, IInv, Turns
<1>4. Asked'
  BY DEF G_DoLoadGame, Acts, G_DoLoadLevel, IInv, Asked
<1>5. Birth'
  BY DEF G_DoLoadGame, Acts, G_DoLoadLevel, IInv, Birth
<1>6. Seen'
  BY DEF G_DoLoadGame, Acts, G_DoLoadLevel, IInv, Seen
<1>7. On'
  BY DEF G_DoLoadGame, Acts, G_DoLoadLevel, IInv, On
<1>8. NoStuckKey'
  BY DEF G_DoLoadGame, Acts, G_DoLoadLevel, IInv, NoStuckKey
<1> QED  BY <1>1, <1>2, <1>3, <1>4, <1>5, <1>6, <1>7, <1>8 DEF IInv

\* Nothing but the action changes.
LEMMA DoSaveGameKeeps ==
  ASSUME GameAssumption, IInv, G_DoSaveGame
  PROVE  IInv'
<1>1. TypeOK'
  BY DEF G_DoSaveGame, Acts, IInv, TypeOK
<1>2. Fits'
  BY DEF G_DoSaveGame, Acts, IInv, Fits
<1>3. Turns'
  BY DEF G_DoSaveGame, Acts, IInv, Turns
<1>4. Asked'
  BY DEF G_DoSaveGame, Acts, IInv, Asked
<1>5. Birth'
  BY DEF G_DoSaveGame, Acts, IInv, Birth
<1>6. Seen'
  BY DEF G_DoSaveGame, Acts, IInv, Seen
<1>7. On'
  BY DEF G_DoSaveGame, Acts, IInv, On
<1>8. NoStuckKey'
  BY DEF G_DoSaveGame, Acts, IInv, NoStuckKey
<1> QED  BY <1>1, <1>2, <1>3, <1>4, <1>5, <1>6, <1>7, <1>8 DEF IInv

\* The demo plays, and its lump is static.
LEMMA DoPlayDemoKeeps ==
  ASSUME GameAssumption, IInv, G_DoPlayDemo
  PROVE  IInv'
<1>1. TypeOK'
  BY DEF G_DoPlayDemo, Acts, G_DoLoadLevel, IInv, TypeOK
<1>2. Fits'
  BY DEF G_DoPlayDemo, Acts, G_DoLoadLevel, IInv, Fits
<1>3. Turns'
  BY DEF G_DoPlayDemo, Acts, G_DoLoadLevel, IInv, Turns
<1>4. Asked'
  BY DEF G_DoPlayDemo, Acts, G_DoLoadLevel, IInv, Asked
<1>5. Birth'
  BY DEF G_DoPlayDemo, Acts, G_DoLoadLevel, IInv, Birth
<1>6. Seen'
  BY DEF G_DoPlayDemo, Acts, G_DoLoadLevel, IInv, Seen
<1>7. On'
  BY DEF G_DoPlayDemo, Acts, G_DoLoadLevel, IInv, On
<1>8. NoStuckKey'
  BY DEF G_DoPlayDemo, Acts, G_DoLoadLevel, IInv, NoStuckKey
<1> QED  BY <1>1, <1>2, <1>3, <1>4, <1>5, <1>6, <1>7, <1>8 DEF IInv

\* The last map goes to the finale: an intermission has a next map.
LEMMA DoCompletedKeeps ==
  ASSUME GameAssumption, IInv, G_DoCompleted
  PROVE  IInv'
<1>a. UNCHANGED <<titleVars, inputVars, playVars, oldgamestate, cmds, at>>
  BY DEF G_DoCompleted, Acts
<1>b. gamestate' \in GameState /\ gameaction' \in GameAction
  BY DEF G_DoCompleted, IInv, TypeOK
<1>c. intermission' \in BOOLEAN
  BY DEF G_DoCompleted, IInv, TypeOK
<1>1. TypeOK'
  BY <1>a, <1>b, <1>c DEF IInv, TypeOK
<1>2. Fits'
  BY DEF G_DoCompleted, Acts, IInv, Fits
<1>3. Turns'
  BY DEF G_DoCompleted, Acts, IInv, Turns
<1>4. Asked'
  BY Constants DEF Map, G_DoCompleted, Acts, IInv, TypeOK, Asked
<1>5. Birth'
  BY DEF G_DoCompleted, Acts, IInv, Birth
<1>6. Seen'
  BY DEF G_DoCompleted, Acts, IInv, Seen
<1>7. On'
  BY DEF G_DoCompleted, Acts, IInv, Asked, On
<1>8. NoStuckKey'
  BY DEF G_DoCompleted, Acts, IInv, NoStuckKey
<1> QED  BY <1>1, <1>2, <1>3, <1>4, <1>5, <1>6, <1>7, <1>8 DEF IInv

\* Nothing follows the finale by itself.
LEMMA FinaleKeeps ==
  ASSUME GameAssumption, IInv, F_StartFinale
  PROVE  IInv'
BY DEF F_StartFinale, Acts, IInv, TypeOK, Fits, Turns, Asked, Birth, Seen, On,
  NoStuckKey

\* There is a next map.
LEMMA WorldDoneKeeps ==
  ASSUME GameAssumption, IInv, G_DoWorldDone
  PROVE  IInv'
<1>a. gamemap + 1 \in Map
  BY Constants DEF G_DoWorldDone, Acts, IInv, TypeOK, Fits, Map
<1>1. TypeOK'
  BY <1>a DEF G_DoWorldDone, Acts, G_DoLoadLevel, IInv, TypeOK
<1>2. Fits'
  BY DEF G_DoWorldDone, Acts, G_DoLoadLevel, IInv, Fits
<1>3. Turns'
  BY DEF G_DoWorldDone, Acts, G_DoLoadLevel, IInv, Turns
<1>4. Asked'
  BY DEF G_DoWorldDone, Acts, G_DoLoadLevel, IInv, Asked
<1>5. Birth'
  BY DEF G_DoWorldDone, Acts, G_DoLoadLevel, IInv, Birth
<1>6. Seen'
  BY DEF G_DoWorldDone, Acts, G_DoLoadLevel, IInv, Seen
<1>7. On'
  BY DEF G_DoWorldDone, Acts, G_DoLoadLevel, IInv, Asked, On
<1>8. NoStuckKey'
  BY DEF G_DoWorldDone, Acts, G_DoLoadLevel, IInv, NoStuckKey
<1> QED  BY <1>1, <1>2, <1>3, <1>4, <1>5, <1>6, <1>7, <1>8 DEF IInv

\* What the level, the intermission and the title may ask for fits the state that asks.
LEMMA TickerKeeps ==
  ASSUME GameAssumption, IInv, G_Ticker
  PROVE  IInv'
<1>1. TypeOK'
  BY DEF G_Ticker, Tickers, Special, WI_End, IInv, TypeOK, Turns
<1>2. Fits'
  BY Constants DEF G_Ticker, Tickers, Special, WI_End, IInv, TypeOK, Fits, Asked
<1>3. Turns'
  BY DEF G_Ticker, Tickers, Special, WI_End, IInv, Turns
<1>4. Asked'
  BY DEF G_Ticker, Tickers, Special, WI_End, IInv, Asked, Seen
<1>5. Birth'
  BY DEF G_Ticker, Tickers, Special, WI_End, IInv, Birth
<1>6. Seen'
  BY DEF G_Ticker, Tickers, Special, WI_End, IInv, Seen
<1>7. On'
  BY DEF G_Ticker, Tickers, Special, WI_End, IInv, Turns, On
<1>8. NoStuckKey'
  BY DEF G_Ticker, Tickers, Special, WI_End, IInv, Turns, NoStuckKey
<1> QED  BY <1>1, <1>2, <1>3, <1>4, <1>5, <1>6, <1>7, <1>8 DEF IInv

\* Nothing happens.
LEMMA StutterKeeps ==
  ASSUME GameAssumption, IInv, UNCHANGED vars
  PROVE  IInv'
BY DEF IInv, TypeOK, Fits, Turns, Asked, Birth, Seen, On,
  NoStuckKey

-----------------------------------------------------------------------------
(* What the runs check, for every number of levels, demos and commands ahead. *)

\* The title is about to begin.
LEMMA InitKeeps ==
  ASSUME GameAssumption, Init
  PROVE  IInv
<1>1. 1 \in Map
  BY Constants DEF Map
<1>2. <<>> \in Seq(Button) /\ Len(<<>>) = 0
  OBVIOUS
<1>3. TypeOK
  BY <1>1, <1>2 DEF Init, TypeOK
<1>4. Fits
  BY Constants, <1>2 DEF Init, Fits
<1>5. Turns /\ Asked /\ Birth /\ Seen /\ On /\ NoStuckKey
  BY DEF Init, Turns, Asked, Birth, Seen, On, NoStuckKey
<1> QED
  BY <1>3, <1>4, <1>5 DEF IInv

\* Every step of the specification.
LEMMA NextKeeps ==
  ASSUME GameAssumption, IInv, [Next]_vars
  PROVE  IInv'
<1>1. CASE I_StartTic
  BY <1>1, StartTicKeeps
<1>2. CASE Events
  BY <1>2, KeyDownKeeps, KeyUpKeeps, PauseKeyKeeps, NewGameKeeps, LoadGameKeeps,
     SaveMenuKeeps, EndMenuKeeps, ClearMenusKeeps, SaveGameKeeps, StartTitleKeeps DEF Events
<1>3. CASE G_BuildTiccmd
  BY <1>3, BuildTiccmdKeeps
<1>4. CASE RunTic
  BY <1>4, RunTicKeeps
<1>5. CASE Act
  BY <1>5, LoadLevelKeeps, DoNewGameKeeps, DoLoadGameKeeps, DoSaveGameKeeps, DoPlayDemoKeeps,
     DoCompletedKeeps, FinaleKeeps, WorldDoneKeeps DEF Act
<1>6. CASE G_Ticker
  BY <1>6, TickerKeeps
<1>7. CASE UNCHANGED vars
  BY <1>7, StutterKeeps
<1> QED
  BY <1>1, <1>2, <1>3, <1>4, <1>5, <1>6, <1>7 DEF Next, Work

\* The invariant the theorems below are read from: what is asked for fits the state it is
\* asked in (Asked), a rebirth is over in a tic (Birth), an intermission is known to the tic
\* after it (Seen), and something is on (On).
THEOREM Invariance == ASSUME GameAssumption PROVE Spec => []IInv
<1>1. Init => IInv
  BY InitKeeps
<1>2. IInv /\ [Next]_vars => IInv'
  BY NextKeeps
<1> QED
  BY <1>1, <1>2, PTL DEF Spec

\* The demo that plays is not the user's game and its lump is static, the title is no game,
\* an intermission's pictures are there while it is drawn and a next map after it, and no more
\* commands are made ahead than there is room for (G_Ticker, D_DoAdvanceDemo, BuildNewTic).
\* Between tics there is a page, a demo or the user's game on, or the title goes on next
\* (D_DoAdvanceDemo, G_DoPlayDemo): the demo that is asked for is played in the same tic.
THEOREM GameIsSound == ASSUME GameAssumption PROVE Spec => []Sound
<1>1. IInv => Sound
  BY DEF IInv, Sound, SomethingIsOn, On, Asked
<1> QED
  BY <1>1, Invariance, PTL

\* A level the user plays does not miss a release (G_Responder, G_DoLoadLevel): a title that
\* eats it is left only through a level that clears the keys.
THEOREM KeysComeUp == ASSUME GameAssumption PROVE Spec => []NoStuckKey
<1>1. IInv => NoStuckKey
  BY DEF IInv
<1> QED
  BY <1>1, Invariance, PTL

\* The pictures of an intermission are given back before another one loads them
\* (G_DoCompleted, WI_End).
THEOREM IntermissionsAreEnded == ASSUME GameAssumption PROVE Spec => LoadedOnce
<1>1. IInv /\ [Next]_vars => [G_DoCompleted /\ intermission' => ~intermission]_vars
  BY DEF IInv, Asked, G_DoCompleted, Acts
<1> QED
  BY <1>1, Invariance, PTL DEF Spec, LoadedOnce

=============================================================================
