----------------------------- MODULE InputProofs -----------------------------
(***************************************************************************)
(* Proofs of the safety properties of Input for every set of clients,      *)
(* keys, symbols, scan codes, buttons and sequences, every size of         *)
(* aKeysPressed and every bound on what is under way.                      *)
(*                                                                         *)
(* KeysReleased needs what the server will take for pressed once the       *)
(* messages that are under way have arrived (After): a key that will be    *)
(* down has a slot, or the connection thread still has its release to send *)
(* (KeyFlow).  DragOwned needs what the masks that are under way have to   *)
(* do with each other and with the flags of the server (PointerFlow):      *)
(* only so is the one button _cbPtrEvent posts the only one that changed.  *)
(***************************************************************************)
EXTENDS Input, SequenceLemmas

-----------------------------------------------------------------------------
(* The inductive invariant of the keyboard. *)

\* Message i of q is about the scan code x.
Hit(q, i, x) == q[i].t = "key" /\ Scan[q[i].symbol] = x
Silent(q, x) == \A i \in DOMAIN q : ~Hit(q, i, x)
EndsDown(q, x) ==
  \E i \in DOMAIN q : Hit(q, i, x) /\ q[i].down /\ \A j \in DOMAIN q : j > i => ~Hit(q, j, x)

\* The server takes x for pressed when the messages q have arrived.
After(S, q, x) == EndsDown(q, x) \/ (x \in S /\ Silent(q, x))

Taken(pressed, x)  == \E r \in ToSet(pressed) : Scan[r.symbol] = x
ToCome(at, seq, x) == at = "next" /\ \E i \in DOMAIN seq : Scan[seq[i].symbol] = x

KeyboardInv(k, only) ==
  /\ k.active => \A r \in ToSet(k.pressed) : r.key \in k.held
  /\ IsFiniteSet(k.held) /\ Cardinality(k.held) <= Slots
  /\ k.at = "null" => k.seq = <<>>
  /\ only => k.at = "null"
  /\ Releases(k.seq)

\* What the server will take for pressed the viewer takes so too, or a key
\* sequence is under way that names it, and then releases it.
KeyFlow(S, q, k, only) ==
  \A x \in Scans : After(S, q, x) => ~only /\ (Taken(k.pressed, x) \/ ToCome(k.at, k.seq, x))

KeysInv ==
  /\ \A c \in Clients : KeyboardInv(kb[c], viewOnly[c])
  /\ \A c \in present : KeyFlow(cl[c].abState, toServer[c], kb[c], viewOnly[c])
  /\ \A c \in scene.watchers : cl[c].abState = {}
  /\ keysDown \cap Special \subseteq UNION {cl[c].abState : c \in Clients}
  /\ ~scene.driver => keysDown \subseteq ShiftKeys

-----------------------------------------------------------------------------
(* The inductive invariant of the mouse. *)

MouseInv(m, only) ==
  /\ IF m.other THEN m.lMouseButtonsDown = 0 /\ m.down # {}
     ELSE m.lMouseButtonsDown = Cardinality(m.down)
  /\ m.buttons = IF m.other \/ only THEN {} ELSE m.down
  /\ \A b \in ToSet(Buttons) :
       /\ m.last = <<b, TRUE>> => ~m.other /\ b \in m.down
       /\ m.last = <<b, FALSE>> => m.other \/ b \notin m.down

\* No two buttons change between two masks, and a turn of the wheel none.
Near(A, B) == A = B \/ \E b \in ToSet(Buttons) : A \ {b} = B \ {b}
Follows(A, B) ==
  /\ Near(A \ {Wheel}, B \ {Wheel})
  /\ Wheel \in A => B = A \ {Wheel}

\* The flags of the server are none, or one button away from what comes next;
\* after the last message they are those of the viewer.
PointerFlow(q, buttons, k) ==
  /\ \A i \in DOMAIN q : q[i].t = "pointer"
  /\ q # <<>> => q[Len(q)].mask = buttons
  /\ \A i \in DOMAIN q : i + 1 \in DOMAIN q => Follows(q[i].mask, q[i + 1].mask)
  /\ IF q = <<>> THEN k.ulBtnFlags \in {{}, buttons}
     ELSE k.ulBtnFlags = {} \/ Near(k.ulBtnFlags, q[1].mask \ {Wheel})
  /\ IF Wheel \in k.lastPtrButtons THEN q # <<>> /\ q[1].mask = k.lastPtrButtons \ {Wheel}
     ELSE k.ulBtnFlags = k.lastPtrButtons

NoButtons(k) == k.lastPtrButtons = {} /\ k.ulBtnFlags = {}

MiceInv ==
  /\ \A c \in Clients : MouseInv(ms[c], viewOnly[c])
  /\ \A c \in present :
       IF scene.hands[c] = "mouse"
       THEN kb[c].at = "null" /\ PointerFlow(toServer[c], ms[c].buttons, cl[c])
       ELSE (\A i \in DOMAIN toServer[c] : toServer[c][i].t = "key") /\ NoButtons(cl[c])
  /\ \A c \in present : pointerClient # c \/ c \in scene.watchers => NoButtons(cl[c])
  /\ buttonsDown \subseteq UNION {cl[c].ulBtnFlags : c \in Clients}

-----------------------------------------------------------------------------
(* The slots of pressed keys. *)

Presses == [key : Keys, symbol : DOMAIN Scan]
KeyOnce(p) == IsInjective(p) /\ \A r, t \in ToSet(p) : r.key = t.key => r = t

LEMMA KeyOnceKeys ==
  ASSUME NEW p \in Seq(Presses)
  PROVE  KeyOnce(p) <=> IsInjective([i \in DOMAIN p |-> p[i].key])
<1>1. ASSUME KeyOnce(p), NEW i \in DOMAIN p, NEW j \in DOMAIN p, p[i].key = p[j].key
      PROVE  i = j
  <2>1. p[i] \in ToSet(p) /\ p[j] \in ToSet(p)
    BY DEF ToSet
  <2>2. p[i] = p[j]
    BY <1>1, <2>1 DEF KeyOnce
  <2>. QED BY <1>1, <2>2 DEF KeyOnce, IsInjective
<1>2. ASSUME IsInjective([i \in DOMAIN p |-> p[i].key]) PROVE KeyOnce(p)
  <2>1. \A i, j \in DOMAIN p : p[i].key = p[j].key => i = j
    BY <1>2 DEF IsInjective
  <2>. QED BY <2>1 DEF KeyOnce, IsInjective, ToSet
<1>3. ASSUME KeyOnce(p) PROVE IsInjective([i \in DOMAIN p |-> p[i].key])
  <2>1. \A i, j \in DOMAIN p : p[i].key = p[j].key => i = j
    BY <1>1, <1>3
  <2>. QED BY <2>1 DEF IsInjective
<1>. QED BY <1>2, <1>3

LEMMA Indexes ==
  ASSUME NEW n \in Nat
  PROVE  IsFiniteSet(1 .. n) /\ Cardinality(1 .. n) = n
BY FS_Interval

\* A sequence without repetition is as long as the set of its elements.
LEMMA LenIsSize ==
  ASSUME NEW S, NEW s \in Seq(S), IsInjective(s)
  PROVE  IsFiniteSet(ToSet(s)) /\ Cardinality(ToSet(s)) = Len(s)
<1>1. Len(s) \in Nat /\ DOMAIN s = 1 .. Len(s)
  OBVIOUS
<1>2. IsFiniteSet(1 .. Len(s)) /\ Cardinality(1 .. Len(s)) = Len(s)
  BY <1>1, FS_Interval
<1>3. s \in [1 .. Len(s) -> ToSet(s)]
  BY <1>1 DEF ToSet
<1>4. s \in Surjection(1 .. Len(s), ToSet(s))
  BY <1>1, <1>3 DEF Surjection, ToSet
<1>5. s \in Injection(1 .. Len(s), ToSet(s))
  BY <1>1, <1>3 DEF Injection, IsInjective
<1>. QED BY <1>2, <1>4, <1>5, FS_Surjection

LEMMA SlotFound ==
  ASSUME NEW p \in Seq(Presses), NEW k
  PROVE  IF \E r \in ToSet(p) : r.key = k
         THEN Slot(p, k) \in DOMAIN p /\ p[Slot(p, k)].key = k /\ Slot(p, k) # 0
         ELSE Slot(p, k) = 0
<1>. DEFINE I == {i \in DOMAIN p : p[i].key = k}
<1>1. (\E r \in ToSet(p) : r.key = k) <=> I # {}
  BY DEF ToSet
<1>2. I \subseteq Nat \ {0}
  OBVIOUS
<1>3. ASSUME I # {} PROVE \E i \in I : \A j \in I : i <= j
  <2>. HIDE DEF I
  <2>. QED BY <1>2, <1>3, LeastNumber
<1>4. ASSUME I # {} PROVE Slot(p, k) \in I
  BY <1>3, <1>4 DEF Slot
<1>5. ASSUME I = {} PROVE Slot(p, k) = 0
  BY <1>5 DEF Slot
<1>. QED BY <1>1, <1>2, <1>4, <1>5

\* Putting x into the place k of a sequence without repetition.
LEMMA PutAt ==
  ASSUME NEW S, NEW s \in Seq(S), NEW k \in DOMAIN s, NEW x \in S, IsInjective(s),
         \A y \in ToSet(s) : y = x => y = s[k], NEW t \in Seq(S), DOMAIN t = DOMAIN s,
         t[k] = x, \A i \in DOMAIN s \ {k} : t[i] = s[i]
  PROVE  IsInjective(t) /\ ToSet(t) = (ToSet(s) \ {s[k]}) \cup {x}
<1>1. t \in Seq(S) /\ DOMAIN t = DOMAIN s
  OBVIOUS
<1>2. t[k] = x /\ \A i \in DOMAIN s \ {k} : t[i] = s[i]
  OBVIOUS
<1>3. \A i \in DOMAIN s \ {k} : s[i] \in ToSet(s) /\ s[i] # s[k]
  BY DEF ToSet, IsInjective
<1>4. IsInjective(t)
  BY <1>1, <1>2, <1>3 DEF IsInjective
<1>5. \A y \in ToSet(t) : y \in (ToSet(s) \ {s[k]}) \cup {x}
  BY <1>1, <1>2, <1>3 DEF ToSet
<1>6. ASSUME NEW y \in (ToSet(s) \ {s[k]}) \cup {x} PROVE y \in ToSet(t)
  <2>1. CASE y = x
    BY <1>1, <1>2, <2>1 DEF ToSet
  <2>2. CASE y # x
    <3>1. PICK i \in DOMAIN s : s[i] = y
      BY <1>6, <2>2 DEF ToSet
    <3>2. i # k
      BY <1>6, <2>2, <3>1
    <3>. QED BY <1>1, <1>2, <3>1, <3>2 DEF ToSet
  <2>. QED BY <2>1, <2>2
<1>7. ToSet(t) = (ToSet(s) \ {s[k]}) \cup {x}
  BY <1>5, <1>6
<1>. QED BY <1>1, <1>4, <1>7

\* Register leaves the other keys their slots, if there is room.
LEMMA Registers ==
  ASSUME NEW p \in Seq(Presses), NEW k \in Keys, NEW s \in DOMAIN Scan,
         KeyOnce(p), Len(p) <= Slots, Slot(p, k) # 0 \/ Len(p) < Slots
  PROVE  LET q == Register(p, k, s) IN
         /\ q \in Seq(Presses) /\ KeyOnce(q) /\ Len(q) <= Slots
         /\ ToSet(q) = {r \in ToSet(p) : r.key # k} \cup {[key |-> k, symbol |-> s]}
<1>. DEFINE q == Register(p, k, s)
            n == [key |-> k, symbol |-> s]
            i == Slot(p, k)
<1>1. n \in Presses /\ n.key = k
  BY DEF Presses
<1>2. IsInjective(p) /\ Len(p) \in Nat /\ Slots \in Nat
  BY KeysAssumption DEF KeyOnce
<1>3. CASE i # 0
  <2>1. i \in DOMAIN p /\ p[i].key = k
    BY <1>3, SlotFound
  <2>2. q = [p EXCEPT ![i] = n]
    BY <1>3 DEF Register
  <2>3. \A r \in ToSet(p) : r.key = k <=> r = p[i]
    BY <2>1 DEF KeyOnce, ToSet
  <2>4. \A y \in ToSet(p) : y = n => y = p[i]
    BY <1>1, <2>3
  <2>a. q \in Seq(Presses) /\ Len(q) = Len(p) /\ DOMAIN q = DOMAIN p
    BY <1>1, <2>1, <2>2
  <2>b. q[i] = n /\ \A j \in DOMAIN p \ {i} : q[j] = p[j]
    BY <2>1, <2>2
  <2>. HIDE DEF q, n, i
  <2>5. q \in Seq(Presses) /\ Len(q) = Len(p) /\ IsInjective(q)
        /\ ToSet(q) = (ToSet(p) \ {p[i]}) \cup {n}
    BY <1>1, <1>2, <2>1, <2>4, <2>a, <2>b, PutAt
  <2>6. ToSet(q) = {r \in ToSet(p) : r.key # k} \cup {n}
    BY <2>3, <2>5
  <2>7. KeyOnce(q)
    BY <1>1, <2>5, <2>6 DEF KeyOnce
  <2>. QED BY <2>5, <2>6, <2>7 DEF q, n
<1>4. CASE i = 0
  <2>1. \A r \in ToSet(p) : r.key # k
    BY <1>4, SlotFound
  <2>2. q = Append(p, n)
    BY <1>2, <1>4 DEF Register
  <2>3. n \notin ToSet(p)
    BY <1>1, <2>1
  <2>. HIDE DEF q, n
  <2>4. /\ q \in Seq(Presses) /\ ToSet(q) = ToSet(p) \cup {n}
        /\ IsInjective(q)
    BY <1>1, <1>2, <2>2, <2>3, ToSetAppend, InjectiveAppend
  <2>5. Len(q) = Len(p) + 1
    BY <1>1, <2>2
  <2>6. ToSet(q) = {r \in ToSet(p) : r.key # k} \cup {n}
    BY <2>1, <2>4
  <2>7. KeyOnce(q)
    BY <1>1, <2>4, <2>6 DEF KeyOnce
  <2>. QED BY <1>2, <1>4, <2>4, <2>5, <2>6, <2>7 DEF q, n
<1>. QED BY <1>3, <1>4

LEMMA Unregisters ==
  ASSUME NEW p \in Seq(Presses), NEW k, KeyOnce(p), Slot(p, k) # 0
  PROVE  LET q == RemoveAt(p, Slot(p, k)) IN
         /\ q \in Seq(Presses) /\ KeyOnce(q) /\ Len(q) <= Len(p)
         /\ ToSet(q) = {r \in ToSet(p) : r.key # k}
<1>. DEFINE i == Slot(p, k)
            q == RemoveAt(p, i)
<1>1. i \in DOMAIN p /\ p[i].key = k
  BY SlotFound
<1>2. \A r \in ToSet(p) : r.key = k <=> r = p[i]
  BY <1>1 DEF KeyOnce, ToSet
<1>3. IsInjective(p) /\ Len(p) \in Nat
  BY DEF KeyOnce
<1>. HIDE DEF i, q
<1>4. /\ q \in Seq(Presses) /\ Len(q) = Len(p) - 1 /\ IsInjective(q)
      /\ ToSet(q) = ToSet(p) \ {p[i]}
  BY <1>1, <1>3, RemoveAtSet DEF q
<1>5. ToSet(q) = {r \in ToSet(p) : r.key # k}
  BY <1>2, <1>4
<1>6. KeyOnce(q)
  BY <1>4, <1>5 DEF KeyOnce
<1>. QED BY <1>3, <1>4, <1>5, <1>6 DEF q, i

\* SlotsOf keeps exactly the slots of I.
LEMMA SlotsOfSet ==
  ASSUME NEW S, NEW p \in Seq(S), NEW I \in SUBSET DOMAIN p
  PROVE  LET q == SlotsOf(p, I) IN
         /\ q \in Seq(S) /\ Len(q) <= Len(p) /\ ToSet(q) = {p[i] : i \in I}
         /\ IsInjective(p) => IsInjective(q)
<1>. DEFINE N == Cardinality(I)
            At(n) == CHOOSE i \in I : Cardinality({j \in I : j <= i}) = n
            q == SlotsOf(p, I)
<1>1. Len(p) \in Nat /\ DOMAIN p = 1 .. Len(p) /\ I \in SUBSET (1 .. Len(p))
  OBVIOUS
<1>2. IsFiniteSet(1 .. Len(p)) /\ Cardinality(1 .. Len(p)) = Len(p)
  BY <1>1, Indexes
<1>3. IsFiniteSet(I) /\ N \in Nat /\ N <= Len(p)
  BY <1>1, <1>2, FS_Subset, FS_CardinalityType
<1>4. ASSUME NEW n \in 1 .. N
      PROVE  At(n) \in I /\ Cardinality({j \in I : j <= At(n)}) = n
  <2>1. \E i \in I : Cardinality({j \in I : j <= i}) = n
    BY <1>1, PlaceExists
  <2>. QED BY <2>1
<1>5. q = [n \in 1 .. N |-> p[At(n)]]
  BY DEF SlotsOf
<1>6. ASSUME NEW i \in I PROVE \E n \in 1 .. N : At(n) = i
  <2>. DEFINE n == Cardinality({j \in I : j <= i})
              U == {j \in I : j <= i}
  <2>1. U \in SUBSET I /\ i \in U
    BY <1>1
  <2>2. IsFiniteSet(U) /\ n \in Nat /\ n <= N
    BY <1>3, <2>1, FS_Subset, FS_CardinalityType
  <2>3. n # 0
    BY <2>1, <2>2, FS_EmptySet
  <2>4. n \in 1 .. N
    BY <1>3, <2>2, <2>3
  <2>5. At(n) \in I /\ Cardinality({j \in I : j <= At(n)}) = Cardinality({j \in I : j <= i})
    BY <1>4, <2>4
  <2>6. At(n) = i
    BY <1>1, <2>5, PlaceOnce
  <2>. QED BY <2>4, <2>6
<1>7. ASSUME NEW n \in 1 .. N, NEW m \in 1 .. N, At(n) = At(m) PROVE n = m
  BY <1>4, <1>7
<1>. HIDE DEF At, q, N
<1>8. DOMAIN q = 1 .. N /\ \A n \in 1 .. N : q[n] = p[At(n)] /\ At(n) \in DOMAIN p
  BY <1>1, <1>4, <1>5
<1>9. q \in Seq(S) /\ Len(q) = N
  BY <1>1, <1>3, <1>4, <1>5, <1>8
<1>10. ToSet(q) = {p[i] : i \in I}
  <2>1. \A y \in ToSet(q) : y \in {p[i] : i \in I}
    BY <1>4, <1>8 DEF ToSet
  <2>2. ASSUME NEW i \in I PROVE p[i] \in ToSet(q)
    <3>1. PICK n \in 1 .. N : At(n) = i
      BY <1>6
    <3>. QED BY <1>8, <3>1 DEF ToSet
  <2>. QED BY <2>1, <2>2
<1>11. ASSUME IsInjective(p) PROVE IsInjective(q)
  BY <1>7, <1>8, <1>11 DEF IsInjective
<1>. QED BY <1>3, <1>9, <1>10, <1>11 DEF q

-----------------------------------------------------------------------------
(* What messages that are under way do. *)

\* The last message about x decides.
LEMMA AfterConcat ==
  ASSUME NEW q \in Seq(Messages), NEW u \in Seq(Messages), NEW x, NEW K
  PROVE  After(K, q \o u, x) <=> EndsDown(u, x) \/ (Silent(u, x) /\ After(K, q, x))
<1>. DEFINE w == q \o u
            n == Len(q)
            m == Len(u)
<1>1. n \in Nat /\ m \in Nat /\ DOMAIN q = 1 .. n /\ DOMAIN u = 1 .. m
  OBVIOUS
<1>2. /\ w \in Seq(Messages) /\ Len(w) = n + m /\ \A i \in 1 .. n : w[i] = q[i]
      /\ \A i \in 1 .. n + m : i > n => w[i] = u[i - n]
  BY ConcatAt
<1>3. DOMAIN w = 1 .. n + m
  BY <1>1, <1>2
<1>. HIDE DEF w, n, m
<1>4. \A i \in DOMAIN q : /\ i \in DOMAIN w /\ i <= n
                          /\ (Hit(w, i, x) <=> Hit(q, i, x)) /\ w[i].down = q[i].down
  BY <1>1, <1>2, <1>3 DEF Hit
<1>5. ASSUME NEW i \in DOMAIN u
      PROVE  /\ n + i \in DOMAIN w /\ n + i > n
             /\ (Hit(w, n + i, x) <=> Hit(u, i, x)) /\ w[n + i].down = u[i].down
  <2>1. i \in Nat /\ i >= 1 /\ i <= m
    BY <1>1
  <2>2. n + i \in 1 .. n + m /\ n + i > n /\ (n + i) - n = i
    BY <1>1, <2>1
  <2>3. w[n + i] = u[i]
    BY <1>2, <2>2
  <2>. QED BY <1>3, <2>2, <2>3 DEF Hit
<1>6. ASSUME NEW j \in DOMAIN w
      PROVE  IF j <= n THEN j \in DOMAIN q ELSE j - n \in DOMAIN u /\ n + (j - n) = j
  BY <1>1, <1>3
<1>7. Silent(w, x) <=> Silent(q, x) /\ Silent(u, x)
  <2>1. ASSUME Silent(w, x) PROVE Silent(q, x) /\ Silent(u, x)
    BY <1>4, <1>5, <2>1 DEF Silent
  <2>2. ASSUME Silent(q, x), Silent(u, x), NEW j \in DOMAIN w PROVE ~Hit(w, j, x)
    BY <1>4, <1>5, <1>6, <2>2 DEF Silent
  <2>. QED BY <2>1, <2>2 DEF Silent
<1>8. ASSUME EndsDown(u, x) PROVE EndsDown(w, x)
  <2>1. PICK i \in DOMAIN u : /\ Hit(u, i, x) /\ u[i].down
                                /\ \A j \in DOMAIN u : j > i => ~Hit(u, j, x)
    BY <1>8 DEF EndsDown
  <2>2. n + i \in DOMAIN w /\ Hit(w, n + i, x) /\ w[n + i].down
    BY <1>5, <2>1
  <2>3. ASSUME NEW j \in DOMAIN w, j > n + i PROVE ~Hit(w, j, x)
    <3>1. j \in Nat /\ i \in Nat /\ ~ (j <= n) /\ j - n > i
      BY <1>1, <1>3, <2>3
    <3>2. j - n \in DOMAIN u /\ n + (j - n) = j
      BY <1>6, <3>1
    <3>3. ~Hit(u, j - n, x)
      BY <2>1, <3>1, <3>2
    <3>. QED BY <1>5, <3>2, <3>3
  <2>. QED BY <2>2, <2>3 DEF EndsDown
<1>9. ASSUME Silent(u, x), EndsDown(q, x) PROVE EndsDown(w, x)
  <2>1. PICK i \in DOMAIN q : /\ Hit(q, i, x) /\ q[i].down
                                /\ \A j \in DOMAIN q : j > i => ~Hit(q, j, x)
    BY <1>9 DEF EndsDown
  <2>2. ASSUME NEW j \in DOMAIN w, j > i PROVE ~Hit(w, j, x)
    BY <1>4, <1>5, <1>6, <1>9, <2>1, <2>2 DEF Silent
  <2>. QED BY <1>4, <2>1, <2>2 DEF EndsDown
<1>10. ASSUME EndsDown(w, x), ~EndsDown(u, x) PROVE Silent(u, x) /\ EndsDown(q, x)
  <2>1. PICK i \in DOMAIN w : /\ Hit(w, i, x) /\ w[i].down
                                /\ \A j \in DOMAIN w : j > i => ~Hit(w, j, x)
    BY <1>10 DEF EndsDown
  <2>2. i \in Nat
    BY <1>1, <1>3
  <2>3. i <= n
    <3>1. SUFFICES ASSUME ~ (i <= n) PROVE FALSE
      OBVIOUS
    <3>2. i - n \in DOMAIN u /\ n + (i - n) = i
      BY <1>6, <3>1
    <3>3. Hit(u, i - n, x) /\ u[i - n].down
      BY <1>5, <2>1, <3>2
    <3>4. ASSUME NEW j \in DOMAIN u, j > i - n PROVE ~Hit(u, j, x)
      <4>1. n + j \in DOMAIN w /\ n + j > i
        BY <1>1, <1>5, <2>2, <3>4
      <4>. QED BY <1>5, <2>1, <4>1
    <3>. QED BY <1>10, <3>2, <3>3, <3>4 DEF EndsDown
  <2>4. i \in DOMAIN q
    BY <1>6, <2>3
  <2>5. Silent(u, x)
    <3>1. ASSUME NEW j \in DOMAIN u PROVE ~Hit(u, j, x)
      <4>1. n + j \in DOMAIN w /\ n + j > i
        BY <1>1, <1>5, <2>2, <2>3
      <4>. QED BY <1>5, <2>1, <4>1
    <3>. QED BY <3>1 DEF Silent
  <2>6. EndsDown(q, x)
    BY <1>4, <2>1, <2>4 DEF EndsDown
  <2>. QED BY <2>5, <2>6
<1>11. ASSUME EndsDown(u, x), Silent(u, x) PROVE FALSE
  BY <1>11 DEF EndsDown, Silent
<1>12. After(K, w, x) <=> EndsDown(u, x) \/ (Silent(u, x) /\ After(K, q, x))
  BY <1>7, <1>8, <1>9, <1>10 DEF After
<1>. QED BY <1>12 DEF w

\* The first message is taken.
LEMMA AfterHead ==
  ASSUME NEW q \in Seq(Messages), q # <<>>, NEW x, NEW K
  PROVE  After(K, q, x) <=> IF Hit(q, 1, x) THEN After(IF q[1].down THEN {x} ELSE {}, Tail(q), x)
                            ELSE After(K, Tail(q), x)
<1>. DEFINE t == Tail(q)
<1>1. /\ Len(q) \in Nat /\ Len(q) >= 1 /\ DOMAIN q = 1 .. Len(q)
      /\ t \in Seq(Messages) /\ DOMAIN t = 1 .. Len(q) - 1
      /\ \A i \in 1 .. Len(q) - 1 : t[i] = q[i + 1]
  OBVIOUS
<1>. HIDE DEF t
<1>2. ASSUME NEW i \in DOMAIN t
      PROVE  /\ i + 1 \in DOMAIN q /\ i + 1 > 1
             /\ (Hit(t, i, x) <=> Hit(q, i + 1, x)) /\ t[i].down = q[i + 1].down
  BY <1>1 DEF Hit
<1>3. ASSUME NEW j \in DOMAIN q, j # 1 PROVE j - 1 \in DOMAIN t /\ (j - 1) + 1 = j
  BY <1>1, <1>3
<1>4. Silent(q, x) <=> ~Hit(q, 1, x) /\ Silent(t, x)
  <2>1. ASSUME Silent(q, x) PROVE ~Hit(q, 1, x) /\ Silent(t, x)
    BY <1>1, <1>2, <2>1 DEF Silent
  <2>2. ASSUME ~Hit(q, 1, x), Silent(t, x), NEW j \in DOMAIN q PROVE ~Hit(q, j, x)
    BY <1>2, <1>3, <2>2 DEF Silent
  <2>. QED BY <2>1, <2>2 DEF Silent
<1>5. ASSUME EndsDown(t, x) PROVE EndsDown(q, x)
  <2>1. PICK i \in DOMAIN t : /\ Hit(t, i, x) /\ t[i].down
                                /\ \A j \in DOMAIN t : j > i => ~Hit(t, j, x)
    BY <1>5 DEF EndsDown
  <2>2. ASSUME NEW j \in DOMAIN q, j > i + 1 PROVE ~Hit(q, j, x)
    <3>1. j # 1 /\ j - 1 > i
      BY <1>1, <2>2
    <3>. QED BY <1>2, <1>3, <2>1, <3>1
  <2>. QED BY <1>2, <2>1, <2>2 DEF EndsDown
<1>6. ASSUME EndsDown(q, x) PROVE EndsDown(t, x) \/ (Silent(t, x) /\ Hit(q, 1, x) /\ q[1].down)
  <2>1. PICK i \in DOMAIN q : /\ Hit(q, i, x) /\ q[i].down
                                /\ \A j \in DOMAIN q : j > i => ~Hit(q, j, x)
    BY <1>6 DEF EndsDown
  <2>2. CASE i = 1
    <3>1. ASSUME NEW j \in DOMAIN t PROVE ~Hit(t, j, x)
      BY <1>2, <2>1, <2>2
    <3>. QED BY <2>1, <2>2, <3>1 DEF Silent
  <2>3. CASE i # 1
    <3>1. i - 1 \in DOMAIN t /\ (i - 1) + 1 = i
      BY <1>3, <2>3
    <3>2. ASSUME NEW j \in DOMAIN t, j > i - 1 PROVE ~Hit(t, j, x)
      <4>1. j + 1 > i
        BY <1>1, <3>2
      <4>. QED BY <1>2, <2>1, <4>1
    <3>. QED BY <1>2, <2>1, <3>1, <3>2 DEF EndsDown
  <2>. QED BY <2>2, <2>3
<1>7. ASSUME Silent(t, x), Hit(q, 1, x), q[1].down PROVE EndsDown(q, x)
  <2>1. ASSUME NEW j \in DOMAIN q, j > 1 PROVE ~Hit(q, j, x)
    <3>1. j # 1
      BY <1>1, <2>1
    <3>. QED BY <1>2, <1>3, <1>7, <3>1 DEF Silent
  <2>. QED BY <1>1, <1>7, <2>1 DEF EndsDown
<1>8. After(K, q, x) <=> IF Hit(q, 1, x) THEN After(IF q[1].down THEN {x} ELSE {}, t, x)
                         ELSE After(K, t, x)
  BY <1>4, <1>5, <1>6, <1>7 DEF After
<1>. QED BY <1>8 DEF t

-----------------------------------------------------------------------------
(* Steps of the keyboard of one viewer. *)

IInv == TypeOK /\ KeysInv /\ MiceInv

LEMMA KeyboardTyped ==
  ASSUME TypeOK, NEW c \in Clients
  PROVE  /\ kb[c] \in Keyboards /\ kb[c].held \subseteq Keys
         /\ kb[c].pressed \in Seq(Presses) /\ KeyOnce(kb[c].pressed) /\ Len(kb[c].pressed) <= Slots
         /\ kb[c].seq \in Seq(Strokes) /\ toServer[c] \in Seq(Messages)
         /\ viewOnly[c] \in BOOLEAN /\ ms[c] \in Mice /\ cl[c] \in Records
<1>1. kb[c] \in Keyboards
  BY DEF TypeOK
<1>2. /\ kb[c].held \subseteq Keys /\ kb[c].pressed \in Seq(Presses)
      /\ kb[c].seq \in Seq(Strokes)
  BY <1>1 DEF Keyboards, Presses
<1>3. Len(kb[c].pressed) <= Slots
      /\ IsInjective([i \in DOMAIN kb[c].pressed |-> kb[c].pressed[i].key])
  BY DEF TypeOK
<1>4. KeyOnce(kb[c].pressed)
  BY <1>2, <1>3, KeyOnceKeys
<1>5. /\ toServer[c] \in Seq(Messages) /\ viewOnly[c] \in BOOLEAN /\ ms[c] \in Mice
      /\ cl[c] \in Records
  BY DEF TypeOK
<1>. QED BY <1>1, <1>2, <1>3, <1>4, <1>5

\* A step of the keyboard of c, and what it sends, keeps the invariant if it
\* keeps that of c.
LEMMA KeyStep ==
  ASSUME IInv, NEW c \in present,
         kb' \in [Clients -> Keyboards], toServer' \in [Clients -> Seq(Messages)],
         \A d \in Clients \ {c} : kb'[d] = kb[d] /\ toServer'[d] = toServer[d],
         KeyOnce(kb[c].pressed)', Len(kb'[c].pressed) <= Slots,
         KeyboardInv(kb'[c], viewOnly[c]),
         KeyFlow(cl[c].abState, toServer'[c], kb'[c], viewOnly[c]),
         scene.hands[c] # "mouse", \A i \in DOMAIN toServer'[c] : toServer'[c][i].t = "key",
         UNCHANGED <<scene, present, viewOnly, ms, serverVars>>
  PROVE  IInv'
<1>0. c \in Clients /\ present \subseteq Clients
  BY DEF IInv, TypeOK
<1>1. \A d \in Clients : /\ Len(kb'[d].pressed) <= Slots
                         /\ IsInjective([i \in DOMAIN kb'[d].pressed |-> kb'[d].pressed[i].key])
  <2>1. ASSUME NEW d \in Clients PROVE Len(kb'[d].pressed) <= Slots /\ KeyOnce(kb'[d].pressed)
    BY <2>1, KeyboardTyped DEF IInv
  <2>2. ASSUME NEW d \in Clients PROVE kb'[d].pressed \in Seq(Presses)
    BY DEF Keyboards, Presses
  <2>. QED BY <2>1, <2>2, KeyOnceKeys
<1>2. TypeOK'
  BY <1>1 DEF IInv, TypeOK, serverVars
<1>3. KeysInv'
  <2>1. \A d \in Clients : KeyboardInv(kb'[d], viewOnly'[d])
    BY DEF IInv, KeysInv
  <2>2. \A d \in present' : KeyFlow(cl'[d].abState, toServer'[d], kb'[d], viewOnly'[d])
    BY <1>0 DEF IInv, KeysInv, serverVars
  <2>. QED BY <2>1, <2>2 DEF IInv, KeysInv, serverVars
<1>4. MiceInv'
  <2>1. ASSUME NEW d \in present
        PROVE  IF scene.hands[d] = "mouse"
               THEN kb'[d].at = "null" /\ PointerFlow(toServer'[d], ms[d].buttons, cl[d])
               ELSE (\A i \in DOMAIN toServer'[d] : toServer'[d][i].t = "key") /\ NoButtons(cl[d])
    <3>1. CASE d = c
      BY <1>0, <3>1 DEF IInv, MiceInv
    <3>2. CASE d # c
      BY <1>0, <3>2 DEF IInv, MiceInv
    <3>. QED BY <3>1, <3>2
  <2>. QED BY <2>1 DEF IInv, MiceInv, serverVars
<1>. QED BY <1>2, <1>3, <1>4 DEF IInv

LEMMA Sent ==
  ASSUME TypeOK, NEW c \in Clients, NEW u \in Seq(Messages), Sends(c, u)
  PROVE  /\ toServer' \in [Clients -> Seq(Messages)]
         /\ toServer'[c] = IF viewOnly[c] THEN toServer[c] ELSE toServer[c] \o u
         /\ \A d \in Clients \ {c} : toServer'[d] = toServer[d]
<1>1. toServer \in [Clients -> Seq(Messages)]
  BY DEF TypeOK
<1>2. toServer[c] \o u \in Seq(Messages)
  BY <1>1
<1>. QED BY <1>1, <1>2 DEF Sends

\* All messages are of the type t.
LEMMA ConcatTypes ==
  ASSUME NEW q \in Seq(Messages), NEW u \in Seq(Messages), NEW t,
         \A i \in DOMAIN q : q[i].t = t, \A i \in DOMAIN u : u[i].t = t
  PROVE  \A i \in DOMAIN (q \o u) : (q \o u)[i].t = t
<1>1. ASSUME NEW i \in DOMAIN (q \o u) PROVE (q \o u)[i].t = t
  <2>1. /\ Len(q) \in Nat /\ Len(u) \in Nat /\ DOMAIN q = 1 .. Len(q) /\ DOMAIN u = 1 .. Len(u)
        /\ i \in 1 .. Len(q) + Len(u)
    OBVIOUS
  <2>2. CASE i <= Len(q)
    <3>1. i \in DOMAIN q /\ (q \o u)[i] = q[i]
      BY <2>1, <2>2
    <3>. QED BY <3>1
  <2>3. CASE i > Len(q)
    <3>1. i - Len(q) \in DOMAIN u /\ (q \o u)[i] = u[i - Len(q)]
      BY <2>1, <2>3
    <3>. QED BY <3>1
  <2>. QED BY <2>1, <2>2, <2>3
<1>. QED BY <1>1

LEMMA KeyMsgTyped ==
  ASSUME NEW s \in DOMAIN Scan, NEW d \in BOOLEAN
  PROVE  /\ <<KeyMsg(s, d)>> \in Seq(Messages)
         /\ \A i \in DOMAIN <<KeyMsg(s, d)>> : <<KeyMsg(s, d)>>[i].t = "key"
         /\ \A x : EndsDown(<<KeyMsg(s, d)>>, x) <=> Scan[s] = x /\ d
         /\ \A x : Silent(<<KeyMsg(s, d)>>, x) <=> Scan[s] # x
<1>. DEFINE m == KeyMsg(s, d)
            u == <<m>>
<1>1. m \in Messages /\ m.t = "key" /\ m.symbol = s /\ m.down = d
  BY DEF KeyMsg, Messages
<1>2. u \in Seq(Messages) /\ DOMAIN u = {1} /\ u[1] = m
  BY <1>1
<1>. HIDE DEF m, u
<1>3. \A i \in DOMAIN u : u[i].t = "key"
  BY <1>1, <1>2
<1>4. \A x : \A i \in DOMAIN u : Hit(u, i, x) <=> Scan[s] = x
  BY <1>1, <1>2 DEF Hit
<1>5. \A x : Silent(u, x) <=> Scan[s] # x
  BY <1>2, <1>4 DEF Silent
<1>6. \A x : EndsDown(u, x) <=> Scan[s] = x /\ d
  BY <1>1, <1>2, <1>4 DEF EndsDown
<1>. QED BY <1>2, <1>3, <1>5, <1>6 DEF u, m

\* The queue after one more key.
LEMMA AfterKey ==
  ASSUME NEW q \in Seq(Messages), NEW s \in DOMAIN Scan, NEW d \in BOOLEAN, NEW x, NEW K
  PROVE  After(K, q \o <<KeyMsg(s, d)>>, x) <=> IF Scan[s] = x THEN d ELSE After(K, q, x)
<1>1. /\ <<KeyMsg(s, d)>> \in Seq(Messages)
      /\ EndsDown(<<KeyMsg(s, d)>>, x) <=> Scan[s] = x /\ d
      /\ Silent(<<KeyMsg(s, d)>>, x) <=> Scan[s] # x
  BY KeyMsgTyped
<1>. DEFINE u == <<KeyMsg(s, d)>>
<1>. HIDE DEF u
<1>2. After(K, q \o u, x) <=> EndsDown(u, x) \/ (Silent(u, x) /\ After(K, q, x))
  BY <1>1, AfterConcat DEF u
<1>. QED BY <1>1, <1>2 DEF u

\* A press that registers a key, or repeats one on the same key of the server.
LEMMA PressFlow ==
  ASSUME NEW K, NEW q \in Seq(Messages), NEW k, NEW n, NEW key \in Keys, NEW s \in DOMAIN Scan,
         NEW only \in BOOLEAN, KeyFlow(K, q, k, only), n.at = k.at, n.seq = k.seq,
         ToSet(n.pressed) =
           {r \in ToSet(k.pressed) : r.key # key} \cup {[key |-> key, symbol |-> s]},
         \A r \in ToSet(k.pressed) : r.key = key => Scan[r.symbol] = Scan[s]
  PROVE  KeyFlow(K, IF only THEN q ELSE q \o <<KeyMsg(s, TRUE)>>, n, only)
<1>1. CASE only
  BY <1>1 DEF KeyFlow
<1>2. CASE ~only
  <2>1. ASSUME NEW x \in Scans, After(K, q \o <<KeyMsg(s, TRUE)>>, x)
        PROVE  Taken(n.pressed, x) \/ ToCome(n.at, n.seq, x)
    <3>1. CASE Scan[s] = x
      <4>1. [key |-> key, symbol |-> s] \in ToSet(n.pressed)
        OBVIOUS
      <4>2. [key |-> key, symbol |-> s].symbol = s
        OBVIOUS
      <4>. QED BY <3>1, <4>1, <4>2 DEF Taken
    <3>2. CASE Scan[s] # x
      <4>1. After(K, q, x)
        BY <2>1, <3>2, AfterKey
      <4>2. CASE ToCome(k.at, k.seq, x)
        BY <4>2
      <4>3. CASE Taken(k.pressed, x)
        BY <3>2, <4>3 DEF Taken
      <4>. QED BY <4>1, <4>2, <4>3 DEF KeyFlow
    <3>. QED BY <3>1, <3>2
  <2>. QED BY <1>2, <2>1 DEF KeyFlow
<1>. QED BY <1>1, <1>2

\* A viewer has no more slots taken than keys are held in an active window.
LEMMA FewSlots ==
  ASSUME NEW p \in Seq(Presses), KeyOnce(p), NEW H, IsFiniteSet(H), \A r \in ToSet(p) : r.key \in H
  PROVE  Len(p) <= Cardinality(H)
<1>. DEFINE f == [r \in ToSet(p) |-> r.key]
<1>1. IsFiniteSet(ToSet(p)) /\ Cardinality(ToSet(p)) = Len(p)
  BY LenIsSize DEF KeyOnce
<1>2. f \in Injection(ToSet(p), H)
  BY DEF KeyOnce, Injection, IsInjective
<1>3. Cardinality(ToSet(p)) <= Cardinality(H)
  <2>. HIDE DEF f
  <2>. QED BY <1>2, FS_Injection
<1>. QED BY <1>1, <1>3

\* What the keyboard of a viewer that uses it satisfies.
LEMMA KeyboardFacts ==
  ASSUME IInv, NEW c \in present
  PROVE  /\ c \in Clients /\ KeyboardInv(kb[c], viewOnly[c])
         /\ KeyFlow(cl[c].abState, toServer[c], kb[c], viewOnly[c])
         /\ scene.hands[c] # "mouse" => \A i \in DOMAIN toServer[c] : toServer[c][i].t = "key"
         /\ kb[c].at # "null" => scene.hands[c] # "mouse"
BY DEF IInv, TypeOK, KeysInv, MiceInv

\* The queue of c after a key, in the terms of KeyStep.
LEMMA KeySent ==
  ASSUME IInv, NEW c \in present, scene.hands[c] # "mouse",
         NEW s \in DOMAIN Scan, NEW d \in BOOLEAN, Sends(c, <<KeyMsg(s, d)>>)
  PROVE  /\ toServer' \in [Clients -> Seq(Messages)]
         /\ toServer'[c] = IF viewOnly[c] THEN toServer[c] ELSE toServer[c] \o <<KeyMsg(s, d)>>
         /\ \A e \in Clients \ {c} : toServer'[e] = toServer[e]
         /\ \A i \in DOMAIN toServer'[c] : toServer'[c][i].t = "key"
<1>1. c \in Clients /\ toServer[c] \in Seq(Messages)
      /\ \A i \in DOMAIN toServer[c] : toServer[c][i].t = "key"
  BY KeyboardFacts, KeyboardTyped DEF IInv
<1>. DEFINE u == <<KeyMsg(s, d)>>
<1>2. u \in Seq(Messages) /\ \A i \in DOMAIN u : u[i].t = "key"
  BY KeyMsgTyped
<1>. HIDE DEF u
<1>3. Sends(c, u) /\ TypeOK
  BY DEF u, IInv
<1>4. /\ toServer' \in [Clients -> Seq(Messages)]
      /\ toServer'[c] = IF viewOnly[c] THEN toServer[c] ELSE toServer[c] \o u
      /\ \A e \in Clients \ {c} : toServer'[e] = toServer[e]
  BY <1>1, <1>2, <1>3, Sent
<1>5. \A i \in DOMAIN (toServer[c] \o u) : (toServer[c] \o u)[i].t = "key"
  BY <1>1, <1>2, ConcatTypes
<1>6. \A i \in DOMAIN toServer'[c] : toServer'[c][i].t = "key"
  BY <1>1, <1>4, <1>5
<1>. QED BY <1>4, <1>6 DEF u

\* The same when nothing is sent.
LEMMA NothingSent ==
  ASSUME IInv, NEW c \in present, scene.hands[c] # "mouse", UNCHANGED toServer
  PROVE  /\ toServer' \in [Clients -> Seq(Messages)]
         /\ \A e \in Clients \ {c} : toServer'[e] = toServer[e]
         /\ \A i \in DOMAIN toServer'[c] : toServer'[c][i].t = "key"
BY KeyboardFacts DEF IInv, TypeOK

LEMMA SymbolTyped ==
  ASSUME NEW c, NEW k \in Keys
  PROVE  SymbolNow(c, k) \in DOMAIN Scan
<1>1. Symbol \in [Keys \X BOOLEAN -> DOMAIN Scan]
  BY KeysAssumption
<1>2. Symbol[k, TRUE] \in DOMAIN Scan /\ Symbol[k, FALSE] \in DOMAIN Scan
  BY <1>1
<1>. QED BY <1>2, Zenon DEF SymbolNow

\* A press or a repeat, with a slot for the key.
LEMMA KeepsPressed ==
  ASSUME IInv, NEW c \in present, scene.hands[c] # "mouse", NEW k \in Keys, kb[c].active,
         Pressed(c, k), SameKey(c, k),
         Slot(kb[c].pressed, k) # 0 \/ Len(kb[c].pressed) < Slots,
         IsFiniteSet(kb[c].held \cup {k}), Cardinality(kb[c].held \cup {k}) <= Slots,
         UNCHANGED <<scene, present, viewOnly, ms, serverVars>>
  PROVE  IInv'
<1>. DEFINE s == SymbolNow(c, k)
            p == kb[c].pressed
            n == kb'[c]
<1>1. /\ c \in Clients /\ KeyboardInv(kb[c], viewOnly[c]) /\ TypeOK /\ s \in DOMAIN Scan
      /\ KeyFlow(cl[c].abState, toServer[c], kb[c], viewOnly[c])
  BY KeyboardFacts, SymbolTyped DEF IInv
<1>2. /\ kb[c] \in Keyboards /\ kb[c].held \subseteq Keys /\ p \in Seq(Presses) /\ KeyOnce(p)
      /\ Len(p) <= Slots /\ toServer[c] \in Seq(Messages) /\ viewOnly[c] \in BOOLEAN
  BY <1>1, KeyboardTyped
<1>3. kb \in [Clients -> Keyboards]
  BY <1>1 DEF TypeOK
<1>4. /\ Register(p, k, s) \in Seq(Presses) /\ KeyOnce(Register(p, k, s))
      /\ Len(Register(p, k, s)) <= Slots
      /\ ToSet(Register(p, k, s)) = {r \in ToSet(p) : r.key # k} \cup {[key |-> k, symbol |-> s]}
  <2>. HIDE DEF s, p
  <2>. QED BY <1>1, <1>2, Registers DEF p
<1>5. /\ n.held = kb[c].held \cup {k} /\ n.active = kb[c].active /\ n.pressed = Register(p, k, s)
      /\ n.seq = kb[c].seq /\ n.at = kb[c].at /\ kb' \in [Clients -> Keyboards]
      /\ \A d \in Clients \ {c} : kb'[d] = kb[d]
  <2>1. kb' = [kb EXCEPT ![c].held = @ \cup {k}, ![c].pressed = Register(@, k, s)]
    BY DEF Pressed
  <2>. HIDE DEF s
  <2>2. n = [kb[c] EXCEPT !.held = @ \cup {k}, !.pressed = Register(@, k, s)]
    BY <1>1, <1>3, <2>1
  <2>3. n \in Keyboards
    <3>1. kb[c].held \cup {k} \in SUBSET Keys
      BY <1>2
    <3>. DEFINE h == kb[c].held \cup {k}
                r == Register(p, k, s)
    <3>2. r \in Seq(Presses)
      BY <1>4
    <3>3. n = [kb[c] EXCEPT !.held = h, !.pressed = r]
      BY <2>2
    <3>. HIDE DEF n, h, r
    <3>. QED BY <1>2, <3>1, <3>2, <3>3 DEF Keyboards, Presses, h
  <2>. QED BY <1>1, <1>2, <1>3, <2>1, <2>2, <2>3 DEF Keyboards
<1>6. Sends(c, <<KeyMsg(s, TRUE)>>)
  BY DEF Pressed
<1>. HIDE DEF s, n
<1>7. /\ toServer' \in [Clients -> Seq(Messages)]
      /\ toServer'[c] = IF viewOnly[c] THEN toServer[c] ELSE toServer[c] \o <<KeyMsg(s, TRUE)>>
      /\ \A e \in Clients \ {c} : toServer'[e] = toServer[e]
      /\ \A i \in DOMAIN toServer'[c] : toServer'[c][i].t = "key"
  BY <1>1, <1>6, KeySent
<1>8. \A r \in ToSet(p) : r.key = k => Scan[r.symbol] = Scan[s]
  <2>1. ASSUME NEW r \in ToSet(p), r.key = k PROVE Scan[r.symbol] = Scan[s]
    <3>1. Slot(p, k) \in DOMAIN p /\ p[Slot(p, k)].key = k /\ Slot(p, k) # 0
      BY <1>2, <2>1, SlotFound
    <3>2. p[Slot(p, k)] = r
      BY <1>2, <2>1, <3>1 DEF KeyOnce, ToSet
    <3>. QED BY <3>1, <3>2 DEF SameKey, s
  <2>. QED BY <2>1
<1>9. KeyFlow(cl[c].abState, toServer'[c], n, viewOnly[c])
  <2>1. ToSet(n.pressed) = {r \in ToSet(p) : r.key # k} \cup {[key |-> k, symbol |-> s]}
    BY <1>4, <1>5
  <2>. DEFINE k0 == kb[c]
              q == toServer[c]
              only == viewOnly[c]
              K == cl[c].abState
  <2>2. /\ q \in Seq(Messages) /\ only \in BOOLEAN /\ KeyFlow(K, q, k0, only)
        /\ n.at = k0.at /\ n.seq = k0.seq /\ s \in DOMAIN Scan
    BY <1>1, <1>2, <1>5
  <2>. HIDE DEF k0, q, only, K
  <2>3. KeyFlow(K, IF only THEN q ELSE q \o <<KeyMsg(s, TRUE)>>, n, only)
    BY <1>8, <2>1, <2>2, PressFlow DEF k0
  <2>. QED BY <1>7, <2>3 DEF k0, q, only, K
<1>10. KeyboardInv(n, viewOnly[c])
  <2>1. \A r \in ToSet(n.pressed) : r.key \in n.held
    BY <1>1, <1>4, <1>5 DEF KeyboardInv
  <2>. QED BY <1>1, <1>5, <2>1 DEF KeyboardInv
<1>11. KeyOnce(kb[c].pressed)' /\ Len(kb'[c].pressed) <= Slots
  BY <1>4, <1>5 DEF n
<1>. QED
  BY <1>5, <1>7, <1>9, <1>10, <1>11, KeyStep DEF n

\* A step that sends nothing and does not touch the slots.
LEMMA KeepsQuietKey ==
  ASSUME IInv, NEW c \in present, scene.hands[c] # "mouse", NEW n \in Keyboards,
         kb' \in [Clients -> Keyboards], kb'[c] = n, \A d \in Clients \ {c} : kb'[d] = kb[d],
         n.pressed = kb[c].pressed, KeyboardInv(n, viewOnly[c]),
         \A x : ToCome(kb[c].at, kb[c].seq, x) => ToCome(n.at, n.seq, x),
         UNCHANGED <<scene, present, viewOnly, ms, toServer, serverVars>>
  PROVE  IInv'
<1>1. /\ c \in Clients /\ KeyFlow(cl[c].abState, toServer[c], kb[c], viewOnly[c]) /\ TypeOK
  BY KeyboardFacts DEF IInv
<1>2. KeyOnce(kb[c].pressed) /\ Len(kb[c].pressed) <= Slots
  BY <1>1, KeyboardTyped
<1>3. KeyFlow(cl[c].abState, toServer'[c], kb'[c], viewOnly[c])
  BY <1>1 DEF KeyFlow
<1>4. KeyOnce(kb[c].pressed)' /\ Len(kb'[c].pressed) <= Slots
  BY <1>2
<1>5. /\ toServer' \in [Clients -> Seq(Messages)]
      /\ \A e \in Clients \ {c} : toServer'[e] = toServer[e]
      /\ \A i \in DOMAIN toServer'[c] : toServer'[c][i].t = "key"
  BY NothingSent
<1>. QED
  BY <1>3, <1>4, <1>5, KeyStep

LEMMA KeepsKeyPress ==
  ASSUME IInv, NEW c \in present, NEW k \in Keys, KeyPress(c, k)
  PROVE  IInv'
<1>. DEFINE n == kb'[c]
<1>1. /\ scene.hands[c] # "mouse" /\ k \notin kb[c].held
      /\ Cardinality(kb[c].held) < Slots /\ UNCHANGED <<scene, present, viewOnly, ms, serverVars>>
  BY DEF KeyPress, Acts
<1>2. c \in Clients /\ KeyboardInv(kb[c], viewOnly[c]) /\ TypeOK
  BY KeyboardFacts DEF IInv
<1>3. /\ kb[c] \in Keyboards /\ kb[c].held \subseteq Keys /\ kb \in [Clients -> Keyboards]
      /\ kb[c].pressed \in Seq(Presses) /\ KeyOnce(kb[c].pressed)
  BY <1>2, KeyboardTyped DEF TypeOK
<1>4. IsFiniteSet(kb[c].held \cup {k}) /\ Cardinality(kb[c].held \cup {k}) <= Slots
  <2>1. IsFiniteSet(kb[c].held)
    BY <1>2 DEF KeyboardInv
  <2>2. /\ IsFiniteSet(kb[c].held \cup {k}) /\ Cardinality(kb[c].held) \in Nat
        /\ Cardinality(kb[c].held \cup {k}) = Cardinality(kb[c].held) + 1
    BY <1>1, <2>1, FS_AddElement, FS_CardinalityType
  <2>. QED BY <1>1, <2>2, KeysAssumption
<1>5. CASE kb[c].active
  <2>1. \A r \in ToSet(kb[c].pressed) : r.key \in kb[c].held
    BY <1>2, <1>5 DEF KeyboardInv
  <2>2. Slot(kb[c].pressed, k) = 0
    BY <1>1, <1>3, <2>1, SlotFound
  <2>3. SameKey(c, k)
    BY <2>2 DEF SameKey
  <2>4. Len(kb[c].pressed) < Slots
    <3>1. Len(kb[c].pressed) <= Cardinality(kb[c].held) /\ Len(kb[c].pressed) \in Nat
      BY <1>2, <1>3, <2>1, FewSlots DEF KeyboardInv
    <3>2. Cardinality(kb[c].held) \in Nat
      BY <1>2, FS_CardinalityType DEF KeyboardInv
    <3>. QED BY <1>1, <3>1, <3>2, KeysAssumption
  <2>5. Pressed(c, k)
    BY <1>5 DEF KeyPress
  <2>. QED BY <1>1, <1>4, <1>5, <2>3, <2>4, <2>5, KeepsPressed
<1>6. CASE ~kb[c].active
  <2>1. kb' = [kb EXCEPT ![c].held = @ \cup {k}] /\ UNCHANGED toServer
    BY <1>6 DEF KeyPress
  <2>2. n = [kb[c] EXCEPT !.held = @ \cup {k}]
    BY <1>2, <1>3, <2>1
  <2>3. n \in Keyboards
    <3>. DEFINE h == kb[c].held \cup {k}
    <3>1. h \in SUBSET Keys
      BY <1>3
    <3>2. n = [kb[c] EXCEPT !.held = h]
      BY <2>2
    <3>. HIDE DEF n, h
    <3>. QED BY <1>3, <3>1, <3>2 DEF Keyboards
  <2>4. /\ n.held = kb[c].held \cup {k} /\ n.active = kb[c].active /\ n.pressed = kb[c].pressed
        /\ n.seq = kb[c].seq /\ n.at = kb[c].at
    BY <1>3, <2>2 DEF Keyboards
  <2>5. kb' \in [Clients -> Keyboards] /\ \A d \in Clients \ {c} : kb'[d] = kb[d]
    BY <1>2, <1>3, <2>1, <2>3
  <2>6. KeyboardInv(n, viewOnly[c])
    BY <1>2, <1>4, <1>6, <2>4 DEF KeyboardInv
  <2>. HIDE DEF n
  <2>. QED BY <1>1, <2>1, <2>3, <2>4, <2>5, <2>6, KeepsQuietKey DEF n
<1>. QED BY <1>3, <1>5, <1>6 DEF Keyboards

LEMMA KeepsKeyRepeat ==
  ASSUME IInv, NEW c \in present, NEW k \in Keys, KeyRepeat(c, k)
  PROVE  IInv'
<1>1. /\ scene.hands[c] # "mouse" /\ k \in kb[c].held /\ kb[c].active /\ SameKey(c, k)
      /\ Pressed(c, k) /\ UNCHANGED <<scene, present, viewOnly, ms, serverVars>>
  BY DEF KeyRepeat, Acts
<1>2. c \in Clients /\ KeyboardInv(kb[c], viewOnly[c]) /\ TypeOK
  BY KeyboardFacts DEF IInv
<1>3. /\ kb[c] \in Keyboards /\ kb[c].pressed \in Seq(Presses) /\ KeyOnce(kb[c].pressed)
      /\ IsFiniteSet(kb[c].held) /\ Cardinality(kb[c].held) <= Slots
  BY <1>2, KeyboardTyped DEF KeyboardInv
<1>4. kb[c].held \cup {k} = kb[c].held
  BY <1>1
<1>5. Slot(kb[c].pressed, k) # 0 \/ Len(kb[c].pressed) < Slots
  <2>1. SUFFICES ASSUME Slot(kb[c].pressed, k) = 0 PROVE Len(kb[c].pressed) < Slots
    OBVIOUS
  <2>2. \A r \in ToSet(kb[c].pressed) : r.key \in kb[c].held \ {k}
    BY <1>1, <1>2, <1>3, <2>1, SlotFound DEF KeyboardInv
  <2>3. /\ IsFiniteSet(kb[c].held \ {k}) /\ Cardinality(kb[c].held) \in Nat
        /\ Cardinality(kb[c].held \ {k}) = Cardinality(kb[c].held) - 1
    BY <1>1, <1>3, FS_RemoveElement, FS_CardinalityType
  <2>4. Len(kb[c].pressed) <= Cardinality(kb[c].held \ {k}) /\ Len(kb[c].pressed) \in Nat
    BY <1>3, <2>2, <2>3, FewSlots
  <2>. QED BY <1>3, <2>3, <2>4, KeysAssumption
<1>6. IsFiniteSet(kb[c].held \cup {k}) /\ Cardinality(kb[c].held \cup {k}) <= Slots
  BY <1>3, <1>4
<1>. QED BY <1>1, <1>5, <1>6, KeepsPressed

LEMMA KeepsKeyRelease ==
  ASSUME IInv, NEW c \in present, NEW k \in Keys, KeyRelease(c, k)
  PROVE  IInv'
<1>. DEFINE n == kb'[c]
            p == kb[c].pressed
            i == Slot(p, k)
            s == SymbolThen(c, k)
<1>1. /\ scene.hands[c] # "mouse" /\ k \in kb[c].held
      /\ UNCHANGED <<scene, present, viewOnly, ms, serverVars>>
  BY DEF KeyRelease, Acts
<1>2. /\ c \in Clients /\ KeyboardInv(kb[c], viewOnly[c]) /\ TypeOK
      /\ KeyFlow(cl[c].abState, toServer[c], kb[c], viewOnly[c])
  BY KeyboardFacts DEF IInv
<1>3. /\ kb[c] \in Keyboards /\ kb[c].held \subseteq Keys /\ kb \in [Clients -> Keyboards]
      /\ p \in Seq(Presses) /\ KeyOnce(p) /\ Len(p) <= Slots /\ Len(p) \in Nat
      /\ toServer[c] \in Seq(Messages) /\ viewOnly[c] \in BOOLEAN
  BY <1>2, KeyboardTyped DEF TypeOK
<1>4. IsFiniteSet(kb[c].held \ {k}) /\ Cardinality(kb[c].held \ {k}) <= Slots
  <2>1. IsFiniteSet(kb[c].held) /\ Cardinality(kb[c].held) <= Slots
    BY <1>2 DEF KeyboardInv
  <2>2. /\ IsFiniteSet(kb[c].held \ {k}) /\ Cardinality(kb[c].held) \in Nat
        /\ Cardinality(kb[c].held \ {k}) = Cardinality(kb[c].held) - 1
    BY <1>1, <2>1, FS_RemoveElement, FS_CardinalityType
  <2>. QED BY <2>1, <2>2, KeysAssumption
<1>5. CASE kb[c].active /\ i # 0
  <2>1. i \in DOMAIN p /\ p[i].key = k /\ p[i] \in Presses /\ s = p[i].symbol
    BY <1>3, <1>5, SlotFound DEF SymbolThen
  <2>2. s \in DOMAIN Scan
    BY <2>1 DEF Presses
  <2>3. /\ kb' = [kb EXCEPT ![c].held = @ \ {k}, ![c].pressed = RemoveAt(@, Slot(@, k))]
        /\ Sends(c, <<KeyMsg(s, FALSE)>>)
    BY <1>5 DEF KeyRelease
  <2>4. /\ RemoveAt(p, i) \in Seq(Presses) /\ KeyOnce(RemoveAt(p, i))
        /\ Len(RemoveAt(p, i)) <= Len(p)
        /\ ToSet(RemoveAt(p, i)) = {r \in ToSet(p) : r.key # k}
    BY <1>3, <1>5, Unregisters
  <2>. DEFINE h == kb[c].held \ {k}
              t == RemoveAt(p, i)
  <2>5. n = [kb[c] EXCEPT !.held = h, !.pressed = t]
    BY <1>2, <1>3, <2>3
  <2>6. h \in SUBSET Keys /\ t \in Seq(Presses) /\ KeyOnce(t) /\ Len(t) <= Slots
    <3>1. Len(t) \in Nat
      BY <2>4
    <3>. QED BY <1>3, <2>4, <3>1, KeysAssumption
  <2>7. \A r \in ToSet(t) : r \in ToSet(p) /\ r.key # k
    BY <2>4
  <2>8. \A r \in ToSet(p) : r \in ToSet(t) \/ r = p[i]
    <3>1. ASSUME NEW r \in ToSet(p), r.key = k PROVE r = p[i]
      BY <1>3, <2>1, <3>1 DEF KeyOnce, ToSet
    <3>. QED BY <2>4, <3>1
  <2>. HIDE DEF n, t, s, i
  <2>9. n \in Keyboards
    <3>. HIDE DEF h
    <3>. QED BY <1>3, <2>5, <2>6 DEF Keyboards, Presses
  <2>10. /\ n.held = h /\ n.active = kb[c].active /\ n.pressed = t
         /\ n.seq = kb[c].seq /\ n.at = kb[c].at
    BY <1>3, <2>5 DEF Keyboards
  <2>11. kb' \in [Clients -> Keyboards] /\ \A d \in Clients \ {c} : kb'[d] = kb[d]
    BY <1>2, <1>3, <2>3, <2>9 DEF n
  <2>12. /\ toServer' \in [Clients -> Seq(Messages)]
         /\ toServer'[c] = IF viewOnly[c] THEN toServer[c] ELSE toServer[c] \o <<KeyMsg(s, FALSE)>>
         /\ \A e \in Clients \ {c} : toServer'[e] = toServer[e]
         /\ \A j \in DOMAIN toServer'[c] : toServer'[c][j].t = "key"
    BY <1>1, <2>2, <2>3, KeySent
  <2>13. KeyboardInv(n, viewOnly[c])
    BY <1>2, <1>4, <2>7, <2>10 DEF KeyboardInv
  <2>14. KeyFlow(cl[c].abState, toServer'[c], n, viewOnly[c])
    <3>1. CASE viewOnly[c]
      BY <1>2, <2>12, <3>1 DEF KeyFlow
    <3>2. CASE ~viewOnly[c]
      <4>1. ASSUME NEW x \in Scans, After(cl[c].abState, toServer'[c], x)
            PROVE  Taken(n.pressed, x) \/ ToCome(n.at, n.seq, x)
        <5>. DEFINE K == cl[c].abState
                    q == toServer[c]
        <5>1. q \in Seq(Messages) /\ After(K, q \o <<KeyMsg(s, FALSE)>>, x)
          BY <1>3, <2>12, <3>2, <4>1
        <5>. HIDE DEF K, q
        <5>2. After(K, q, x) /\ Scan[s] # x
          BY <2>2, <5>1, AfterKey
        <5>3. Taken(p, x) \/ ToCome(kb[c].at, kb[c].seq, x)
          BY <1>2, <5>2 DEF KeyFlow, K, q
        <5>4. CASE ToCome(kb[c].at, kb[c].seq, x)
          BY <2>10, <5>4
        <5>5. CASE Taken(p, x)
          <6>1. PICK r \in ToSet(p) : Scan[r.symbol] = x
            BY <5>5 DEF Taken
          <6>2. r # p[i]
            BY <2>1, <5>2, <6>1
          <6>. QED BY <2>8, <2>10, <6>1, <6>2 DEF Taken
        <5>. QED BY <5>3, <5>4, <5>5
      <4>. QED BY <3>2, <4>1 DEF KeyFlow
    <3>. QED BY <1>3, <3>1, <3>2
  <2>15. KeyOnce(kb[c].pressed)' /\ Len(kb'[c].pressed) <= Slots
    BY <2>6, <2>10 DEF n
  <2>. QED
    BY <1>1, <2>11, <2>12, <2>13, <2>14, <2>15, KeyStep DEF n
<1>6. CASE ~ (kb[c].active /\ i # 0)
  <2>1. kb' = [kb EXCEPT ![c].held = @ \ {k}] /\ UNCHANGED toServer
    BY <1>6 DEF KeyRelease
  <2>2. n = [kb[c] EXCEPT !.held = @ \ {k}]
    BY <1>2, <1>3, <2>1
  <2>3. n \in Keyboards
    BY <1>3, <2>2 DEF Keyboards
  <2>4. /\ n.held = kb[c].held \ {k} /\ n.active = kb[c].active /\ n.pressed = p
        /\ n.seq = kb[c].seq /\ n.at = kb[c].at
    BY <1>3, <2>2 DEF Keyboards
  <2>5. kb' \in [Clients -> Keyboards] /\ \A d \in Clients \ {c} : kb'[d] = kb[d]
    BY <1>2, <1>3, <2>1, <2>3
  <2>6. kb[c].active => \A r \in ToSet(p) : r.key \in kb[c].held \ {k}
    BY <1>2, <1>3, <1>6, SlotFound DEF KeyboardInv
  <2>7. KeyboardInv(n, viewOnly[c])
    BY <1>2, <1>4, <2>4, <2>6 DEF KeyboardInv
  <2>. HIDE DEF n, i
  <2>. QED BY <1>1, <2>1, <2>3, <2>4, <2>5, <2>7, KeepsQuietKey DEF n
<1>. QED BY <1>5, <1>6

\* The releases of keys that are not held any more.
LEMMA KeysGone ==
  ASSUME NEW g \in Seq(Presses)
  PROVE  LET u == [i \in DOMAIN g |-> KeyMsg(g[i].symbol, FALSE)] IN
         /\ u \in Seq(Messages) /\ \A i \in DOMAIN u : u[i].t = "key"
         /\ \A x : ~EndsDown(u, x)
         /\ \A x : Silent(u, x) => \A r \in ToSet(g) : Scan[r.symbol] # x
<1>. DEFINE u == [i \in DOMAIN g |-> KeyMsg(g[i].symbol, FALSE)]
<1>1. Len(g) \in Nat /\ DOMAIN g = 1 .. Len(g)
  OBVIOUS
<1>2. \A i \in DOMAIN g : g[i].symbol \in DOMAIN Scan
  <2>1. \A i \in DOMAIN g : g[i] \in Presses
    BY <1>1
  <2>. QED BY <2>1 DEF Presses
<1>3. DOMAIN u = DOMAIN g
  OBVIOUS
<1>4. \A i \in DOMAIN g : /\ u[i] \in Messages /\ u[i].t = "key" /\ ~u[i].down
                          /\ u[i].symbol = g[i].symbol
  BY <1>2 DEF KeyMsg, Messages
<1>5. u \in Seq(Messages)
  <2>1. u \in [1 .. Len(g) -> Messages]
    BY <1>1, <1>4
  <2>. HIDE DEF u
  <2>. QED BY <1>1, <2>1
<1>. HIDE DEF u
<1>6. \A x : ~EndsDown(u, x)
  BY <1>3, <1>4 DEF EndsDown
<1>7. ASSUME NEW x, Silent(u, x), NEW r \in ToSet(g) PROVE Scan[r.symbol] # x
  <2>1. PICK i \in DOMAIN g : r = g[i]
    BY DEF ToSet
  <2>2. ~Hit(u, i, x)
    BY <1>3, <1>7 DEF Silent
  <2>. QED BY <1>4, <2>1, <2>2 DEF Hit
<1>. QED BY <1>3, <1>4, <1>5, <1>6, <1>7 DEF u

LEMMA KeepsActivate ==
  ASSUME IInv, NEW c \in present, Activate(c)
  PROVE  IInv'
<1>. DEFINE p == kb[c].pressed
            n == kb'[c]
            held == {i \in DOMAIN p : p[i].key \in kb[c].held}
            t == SlotsOf(p, held)
            g == SlotsOf(p, DOMAIN p \ held)
            u == [i \in DOMAIN g |-> KeyMsg(g[i].symbol, FALSE)]
<1>1. /\ scene.hands[c] # "mouse" /\ UNCHANGED <<scene, present, viewOnly, ms, serverVars>>
      /\ kb' = [kb EXCEPT ![c].active = TRUE, ![c].pressed = SlotsOf(@, held)]
      /\ Sends(c, u)
  BY DEF Activate, Acts
<1>2. /\ c \in Clients /\ KeyboardInv(kb[c], viewOnly[c]) /\ TypeOK
      /\ KeyFlow(cl[c].abState, toServer[c], kb[c], viewOnly[c])
      /\ \A i \in DOMAIN toServer[c] : toServer[c][i].t = "key"
  BY <1>1, KeyboardFacts DEF IInv
<1>3. /\ kb[c] \in Keyboards /\ kb[c].held \subseteq Keys /\ kb \in [Clients -> Keyboards]
      /\ p \in Seq(Presses) /\ KeyOnce(p) /\ Len(p) <= Slots /\ Len(p) \in Nat
      /\ toServer[c] \in Seq(Messages) /\ viewOnly[c] \in BOOLEAN
  BY <1>2, KeyboardTyped DEF TypeOK
<1>4. /\ t \in Seq(Presses) /\ Len(t) <= Len(p) /\ ToSet(t) = {p[i] : i \in held}
      /\ IsInjective(p) => IsInjective(t)
  <2>1. held \in SUBSET DOMAIN p
    OBVIOUS
  <2>. HIDE DEF p, held
  <2>. QED BY <1>3, <2>1, SlotsOfSet
<1>5. g \in Seq(Presses) /\ ToSet(g) = {p[i] : i \in DOMAIN p \ held}
  <2>1. DOMAIN p \ held \in SUBSET DOMAIN p
    OBVIOUS
  <2>. HIDE DEF p, held
  <2>. QED BY <1>3, <2>1, SlotsOfSet
<1>6. /\ u \in Seq(Messages) /\ \A i \in DOMAIN u : u[i].t = "key"
      /\ \A x : ~EndsDown(u, x)
      /\ \A x : Silent(u, x) => \A r \in ToSet(g) : Scan[r.symbol] # x
  <2>. HIDE DEF g
  <2>. QED BY <1>5, KeysGone
<1>7. \A r \in ToSet(t) : r \in ToSet(p) /\ r.key \in kb[c].held
  BY <1>4 DEF ToSet
<1>8. \A r \in ToSet(p) : r \in ToSet(t) \/ r \in ToSet(g)
  BY <1>4, <1>5 DEF ToSet
<1>9. KeyOnce(t) /\ Len(t) <= Slots
  <2>1. Len(t) \in Nat /\ Slots \in Nat
    BY <1>4, KeysAssumption
  <2>2. KeyOnce(t)
    BY <1>3, <1>4, <1>7 DEF KeyOnce
  <2>. QED BY <1>3, <1>4, <2>1, <2>2
<1>10. n = [kb[c] EXCEPT !.active = TRUE, !.pressed = t]
  BY <1>1, <1>2, <1>3
<1>. HIDE DEF n, t, g, u
<1>11. n \in Keyboards
  BY <1>3, <1>4, <1>10 DEF Keyboards, Presses
<1>12. /\ n.held = kb[c].held /\ n.pressed = t /\ n.seq = kb[c].seq /\ n.at = kb[c].at
  BY <1>3, <1>10 DEF Keyboards
<1>13. kb' \in [Clients -> Keyboards] /\ \A d \in Clients \ {c} : kb'[d] = kb[d]
  BY <1>1, <1>2, <1>3, <1>11 DEF n
<1>14. /\ toServer' \in [Clients -> Seq(Messages)]
       /\ toServer'[c] = IF viewOnly[c] THEN toServer[c] ELSE toServer[c] \o u
       /\ \A e \in Clients \ {c} : toServer'[e] = toServer[e]
  BY <1>1, <1>2, <1>6, Sent DEF u
<1>15. \A i \in DOMAIN toServer'[c] : toServer'[c][i].t = "key"
  <2>1. \A i \in DOMAIN (toServer[c] \o u) : (toServer[c] \o u)[i].t = "key"
    BY <1>2, <1>3, <1>6, ConcatTypes
  <2>. QED BY <1>2, <1>14, <2>1
<1>16. KeyboardInv(n, viewOnly[c])
  BY <1>2, <1>7, <1>12 DEF KeyboardInv
<1>17. KeyFlow(cl[c].abState, toServer'[c], n, viewOnly[c])
  <2>1. CASE viewOnly[c]
    BY <1>2, <1>14, <2>1 DEF KeyFlow
  <2>2. CASE ~viewOnly[c]
    <3>1. ASSUME NEW x \in Scans, After(cl[c].abState, toServer'[c], x)
          PROVE  Taken(n.pressed, x) \/ ToCome(n.at, n.seq, x)
      <4>. DEFINE K == cl[c].abState
                  q == toServer[c]
      <4>1. q \in Seq(Messages) /\ After(K, q \o u, x)
        BY <1>3, <1>14, <2>2, <3>1
      <4>. HIDE DEF K, q
      <4>2. After(K, q, x) /\ Silent(u, x)
        BY <1>6, <4>1, AfterConcat
      <4>3. Taken(p, x) \/ ToCome(kb[c].at, kb[c].seq, x)
        BY <1>2, <4>2 DEF KeyFlow, K, q
      <4>4. CASE ToCome(kb[c].at, kb[c].seq, x)
        BY <1>12, <4>4
      <4>5. CASE Taken(p, x)
        BY <1>6, <1>8, <1>12, <4>2, <4>5 DEF Taken
      <4>. QED BY <4>3, <4>4, <4>5
    <3>. QED BY <2>2, <3>1 DEF KeyFlow
  <2>. QED BY <1>3, <2>1, <2>2
<1>18. KeyOnce(kb[c].pressed)' /\ Len(kb'[c].pressed) <= Slots
  BY <1>9, <1>12 DEF n
<1>. QED
  BY <1>1, <1>13, <1>14, <1>15, <1>16, <1>17, <1>18, KeyStep DEF n

LEMMA KeepsDeactivate ==
  ASSUME IInv, NEW c \in present, Deactivate(c)
  PROVE  IInv'
<1>. DEFINE n == kb'[c]
<1>1. /\ scene.hands[c] # "mouse" /\ kb' = [kb EXCEPT ![c].active = FALSE]
      /\ UNCHANGED <<scene, present, viewOnly, ms, toServer, serverVars>>
  BY DEF Deactivate, Acts
<1>2. c \in Clients /\ KeyboardInv(kb[c], viewOnly[c]) /\ TypeOK
  BY KeyboardFacts DEF IInv
<1>3. kb[c] \in Keyboards /\ kb \in [Clients -> Keyboards]
  BY <1>2 DEF TypeOK
<1>4. n = [kb[c] EXCEPT !.active = FALSE]
  BY <1>1, <1>2, <1>3
<1>5. n \in Keyboards
  BY <1>3, <1>4 DEF Keyboards
<1>6. /\ n.held = kb[c].held /\ ~n.active /\ n.pressed = kb[c].pressed
      /\ n.seq = kb[c].seq /\ n.at = kb[c].at
  BY <1>3, <1>4 DEF Keyboards
<1>7. kb' \in [Clients -> Keyboards] /\ \A d \in Clients \ {c} : kb'[d] = kb[d]
  BY <1>1, <1>2, <1>3, <1>5
<1>8. KeyboardInv(n, viewOnly[c])
  BY <1>2, <1>6 DEF KeyboardInv
<1>. HIDE DEF n
<1>. QED BY <1>1, <1>5, <1>6, <1>7, <1>8, KeepsQuietKey DEF n

LEMMA ReleasesConcat ==
  ASSUME NEW a \in Seq(Strokes), NEW b \in Seq(Strokes), Releases(a), Releases(b)
  PROVE  /\ a \o b \in Seq(Strokes) /\ Releases(a \o b)
         /\ \A i \in DOMAIN a : i \in DOMAIN (a \o b) /\ (a \o b)[i] = a[i]
<1>. DEFINE w == a \o b
            n == Len(a)
            m == Len(b)
<1>1. /\ n \in Nat /\ m \in Nat /\ DOMAIN a = 1 .. n /\ DOMAIN b = 1 .. m
      /\ w \in Seq(Strokes) /\ DOMAIN w = 1 .. n + m
  OBVIOUS
<1>2. /\ \A i \in 1 .. n : w[i] = a[i]
      /\ \A i \in 1 .. n + m : i > n => w[i] = b[i - n]
  BY ConcatAt
<1>. HIDE DEF w, n, m
<1>3. ASSUME NEW i \in DOMAIN w, w[i].down
      PROVE  \E j \in DOMAIN w : j > i /\ ~w[j].down /\ Scan[w[j].symbol] = Scan[w[i].symbol]
  <2>1. CASE i <= n
    <3>1. i \in DOMAIN a /\ a[i] = w[i]
      BY <1>1, <1>2, <2>1
    <3>2. PICK j \in DOMAIN a : j > i /\ ~a[j].down /\ Scan[a[j].symbol] = Scan[a[i].symbol]
      BY <1>3, <3>1 DEF Releases
    <3>3. j \in DOMAIN w /\ w[j] = a[j]
      BY <1>1, <1>2
    <3>. QED BY <3>1, <3>2, <3>3
  <2>2. CASE i > n
    <3>1. i - n \in DOMAIN b /\ b[i - n] = w[i]
      BY <1>1, <1>2, <2>2
    <3>2. PICK j \in DOMAIN b : j > i - n /\ ~b[j].down /\ Scan[b[j].symbol] = Scan[b[i - n].symbol]
      BY <1>3, <3>1 DEF Releases
    <3>3. n + j \in DOMAIN w /\ n + j > i /\ n + j > n /\ (n + j) - n = j
      BY <1>1, <3>2
    <3>4. w[n + j] = b[j]
      BY <1>1, <1>2, <3>3
    <3>. QED BY <3>1, <3>2, <3>3, <3>4
  <2>. QED BY <1>1, <2>1, <2>2
<1>4. Releases(w)
  BY <1>3 DEF Releases
<1>5. \A i \in DOMAIN a : i \in DOMAIN w /\ w[i] = a[i]
  BY <1>1, <1>2
<1>. QED BY <1>1, <1>4, <1>5 DEF w

LEMMA KeepsSendKeySequence ==
  ASSUME IInv, NEW c \in present, NEW s \in Sequences, SendKeySequence(c, s)
  PROVE  IInv'
<1>. DEFINE n == kb'[c]
            t == kb[c].seq \o s
<1>1. /\ scene.hands[c] # "mouse" /\ ~viewOnly[c]
      /\ kb' = [kb EXCEPT ![c].seq = @ \o s, ![c].at = IF @ = "null" THEN "next" ELSE @]
      /\ UNCHANGED <<scene, present, viewOnly, ms, toServer, serverVars>>
  BY DEF SendKeySequence, Acts
<1>2. c \in Clients /\ KeyboardInv(kb[c], viewOnly[c]) /\ TypeOK
  BY KeyboardFacts DEF IInv
<1>3. kb[c] \in Keyboards /\ kb \in [Clients -> Keyboards] /\ kb[c].seq \in Seq(Strokes)
  BY <1>2 DEF TypeOK, Keyboards
<1>4. s \in Seq(Strokes) /\ Releases(s) /\ Releases(kb[c].seq)
  BY <1>2, SequencesAssumption DEF KeyboardInv
<1>5. /\ t \in Seq(Strokes) /\ Releases(t)
      /\ \A i \in DOMAIN kb[c].seq : i \in DOMAIN t /\ t[i] = kb[c].seq[i]
  BY <1>3, <1>4, ReleasesConcat
<1>6. n = [kb[c] EXCEPT !.seq = t, !.at = IF @ = "null" THEN "next" ELSE @]
  BY <1>1, <1>2, <1>3
<1>. HIDE DEF t
<1>7. n \in Keyboards
  BY <1>3, <1>5, <1>6 DEF Keyboards
<1>8. /\ n.held = kb[c].held /\ n.active = kb[c].active /\ n.pressed = kb[c].pressed
      /\ n.seq = t /\ n.at = IF kb[c].at = "null" THEN "next" ELSE kb[c].at
  BY <1>3, <1>6 DEF Keyboards
<1>9. kb' \in [Clients -> Keyboards] /\ \A d \in Clients \ {c} : kb'[d] = kb[d]
  BY <1>1, <1>2, <1>3, <1>7
<1>. HIDE DEF n
<1>10. KeyboardInv(n, viewOnly[c])
  <2>1. n.at # "null"
    BY <1>8
  <2>. QED BY <1>1, <1>2, <1>5, <1>8, <2>1 DEF KeyboardInv
<1>11. \A x : ToCome(kb[c].at, kb[c].seq, x) => ToCome(n.at, n.seq, x)
  BY <1>5, <1>8 DEF ToCome
<1>. QED BY <1>1, <1>7, <1>8, <1>9, <1>10, <1>11, KeepsQuietKey DEF n

LEMMA KeepsSequenceKey ==
  ASSUME IInv, NEW c \in present, SequenceKey(c)
  PROVE  IInv'
<1>. DEFINE n == kb'[c]
            a == kb[c].seq
            m == a[1]
<1>1. /\ kb[c].at = "next" /\ a # <<>> /\ Sends(c, <<KeyMsg(Head(a).symbol, Head(a).down)>>)
      /\ kb' = [kb EXCEPT ![c].seq = Tail(@)]
      /\ UNCHANGED <<scene, present, viewOnly, ms, serverVars>>
  BY DEF SequenceKey
<1>2. /\ c \in Clients /\ KeyboardInv(kb[c], viewOnly[c]) /\ TypeOK /\ scene.hands[c] # "mouse"
      /\ KeyFlow(cl[c].abState, toServer[c], kb[c], viewOnly[c])
  BY <1>1, KeyboardFacts DEF IInv
<1>3. /\ kb[c] \in Keyboards /\ kb \in [Clients -> Keyboards] /\ a \in Seq(Strokes)
      /\ toServer[c] \in Seq(Messages) /\ KeyOnce(kb[c].pressed) /\ Len(kb[c].pressed) <= Slots
  BY <1>2, KeyboardTyped DEF TypeOK
<1>4. /\ Len(a) \in Nat /\ Len(a) >= 1 /\ DOMAIN a = 1 .. Len(a) /\ Head(a) = m /\ m \in Strokes
      /\ Tail(a) \in Seq(Strokes) /\ DOMAIN Tail(a) = 1 .. Len(a) - 1
      /\ \A i \in 1 .. Len(a) - 1 : Tail(a)[i] = a[i + 1]
  BY <1>1, <1>3
<1>5. ~viewOnly[c] /\ Releases(a)
  BY <1>1, <1>2 DEF KeyboardInv
<1>6. n = [kb[c] EXCEPT !.seq = Tail(a)]
  BY <1>1, <1>2, <1>3
<1>. DEFINE t == Tail(a)
<1>. HIDE DEF t, m
<1>7. n \in Keyboards
  BY <1>3, <1>4, <1>6 DEF Keyboards, t
<1>8. /\ n.held = kb[c].held /\ n.active = kb[c].active /\ n.pressed = kb[c].pressed
      /\ n.seq = t /\ n.at = kb[c].at
  BY <1>3, <1>6 DEF Keyboards, t
<1>9. kb' \in [Clients -> Keyboards] /\ \A d \in Clients \ {c} : kb'[d] = kb[d]
  BY <1>1, <1>2, <1>3, <1>7
<1>. HIDE DEF n, a
<1>10. \A i \in DOMAIN t : i + 1 \in DOMAIN a /\ t[i] = a[i + 1]
  BY <1>4 DEF t
<1>11. \A j \in DOMAIN a : j # 1 => j - 1 \in DOMAIN t /\ t[j - 1] = a[j]
  BY <1>4 DEF t
<1>12. Releases(t)
  <2>1. ASSUME NEW i \in DOMAIN t, t[i].down
        PROVE  \E j \in DOMAIN t : j > i /\ ~t[j].down /\ Scan[t[j].symbol] = Scan[t[i].symbol]
    <3>1. PICK j \in DOMAIN a : j > i + 1 /\ ~a[j].down /\ Scan[a[j].symbol] = Scan[a[i + 1].symbol]
      BY <1>5, <1>10, <2>1 DEF Releases
    <3>2. j \in Nat /\ i \in Nat /\ i >= 1
      BY <1>4 DEF t
    <3>3. j - 1 > i /\ j # 1
      BY <3>1, <3>2
    <3>. QED BY <1>10, <1>11, <2>1, <3>1, <3>3
  <2>. QED BY <2>1 DEF Releases
<1>13. KeyboardInv(n, viewOnly[c])
  <2>1. n.at # "null"
    BY <1>1, <1>8
  <2>. QED BY <1>2, <1>5, <1>8, <1>12, <2>1 DEF KeyboardInv
<1>14. m.symbol \in DOMAIN Scan /\ m.down \in BOOLEAN /\ Sends(c, <<KeyMsg(m.symbol, m.down)>>)
  BY <1>1, <1>4 DEF Strokes
<1>15. /\ toServer' \in [Clients -> Seq(Messages)]
       /\ toServer'[c] = toServer[c] \o <<KeyMsg(m.symbol, m.down)>>
       /\ \A e \in Clients \ {c} : toServer'[e] = toServer[e]
       /\ \A i \in DOMAIN toServer'[c] : toServer'[c][i].t = "key"
  BY <1>2, <1>5, <1>14, KeySent
<1>16. ASSUME NEW x \in Scans, After(cl[c].abState, toServer'[c], x)
       PROVE  Taken(n.pressed, x) \/ ToCome(n.at, n.seq, x)
  <2>. DEFINE K == cl[c].abState
              q == toServer[c]
              s == m.symbol
              d == m.down
  <2>1. /\ q \in Seq(Messages) /\ After(K, q \o <<KeyMsg(s, d)>>, x)
        /\ s \in DOMAIN Scan /\ d \in BOOLEAN
    BY <1>3, <1>14, <1>15, <1>16
  <2>. HIDE DEF K, q, s, d
  <2>2. IF Scan[s] = x THEN d ELSE After(K, q, x)
    BY <2>1, AfterKey
  <2>3. CASE Scan[s] = x
    <3>1. PICK j \in DOMAIN a : j > 1 /\ Scan[a[j].symbol] = x
      BY <1>4, <1>5, <2>2, <2>3 DEF Releases, m, s, d
    <3>2. j # 1
      BY <1>4, <3>1
    <3>3. j - 1 \in DOMAIN t /\ Scan[t[j - 1].symbol] = x
      BY <1>11, <3>1, <3>2
    <3>. QED BY <1>1, <1>8, <3>3 DEF ToCome
  <2>4. CASE Scan[s] # x
    <3>1. Taken(kb[c].pressed, x) \/ ToCome(kb[c].at, a, x)
      BY <1>2, <2>2, <2>4 DEF KeyFlow, K, q, a
    <3>2. CASE Taken(kb[c].pressed, x)
      BY <1>8, <3>2
    <3>3. CASE ToCome(kb[c].at, a, x)
      <4>1. PICK j \in DOMAIN a : Scan[a[j].symbol] = x
        BY <3>3 DEF ToCome
      <4>2. j # 1
        BY <2>4, <4>1 DEF s, m
      <4>. QED BY <1>1, <1>8, <1>11, <4>1, <4>2 DEF ToCome
    <3>. QED BY <3>1, <3>2, <3>3
  <2>. QED BY <2>3, <2>4
<1>17. KeyFlow(cl[c].abState, toServer'[c], n, viewOnly[c])
  BY <1>5, <1>16 DEF KeyFlow
<1>18. KeyOnce(kb[c].pressed)' /\ Len(kb'[c].pressed) <= Slots
  BY <1>3, <1>8 DEF n
<1>. QED
  BY <1>1, <1>2, <1>9, <1>13, <1>15, <1>17, <1>18, KeyStep DEF n

LEMMA KeepsSequenceEnd ==
  ASSUME IInv, NEW c \in present, SequenceEnd(c)
  PROVE  IInv'
<1>. DEFINE n == kb'[c]
<1>1. /\ kb[c].at = "next" /\ kb[c].seq = <<>> /\ kb' = [kb EXCEPT ![c].at = "free"]
      /\ UNCHANGED <<scene, present, viewOnly, ms, toServer, serverVars>>
  BY DEF SequenceEnd
<1>2. /\ c \in Clients /\ KeyboardInv(kb[c], viewOnly[c]) /\ TypeOK /\ scene.hands[c] # "mouse"
  BY <1>1, KeyboardFacts DEF IInv
<1>3. kb[c] \in Keyboards /\ kb \in [Clients -> Keyboards]
  BY <1>2 DEF TypeOK
<1>4. n = [kb[c] EXCEPT !.at = "free"]
  BY <1>1, <1>2, <1>3
<1>5. n \in Keyboards
  BY <1>3, <1>4 DEF Keyboards
<1>6. /\ n.held = kb[c].held /\ n.active = kb[c].active /\ n.pressed = kb[c].pressed
      /\ n.seq = kb[c].seq /\ n.at = "free"
  BY <1>3, <1>4 DEF Keyboards
<1>7. kb' \in [Clients -> Keyboards] /\ \A d \in Clients \ {c} : kb'[d] = kb[d]
  BY <1>1, <1>2, <1>3, <1>5
<1>. HIDE DEF n
<1>8. KeyboardInv(n, viewOnly[c])
  BY <1>1, <1>2, <1>6 DEF KeyboardInv
<1>9. \A x : ~ToCome(kb[c].at, kb[c].seq, x)
  BY <1>1 DEF ToCome
<1>. QED BY <1>1, <1>2, <1>5, <1>6, <1>7, <1>8, <1>9, KeepsQuietKey DEF n

LEMMA KeepsSequenceFree ==
  ASSUME IInv, NEW c \in present, SequenceFree(c)
  PROVE  IInv'
<1>. DEFINE n == kb'[c]
<1>1. /\ kb[c].at = "free" /\ kb' = [kb EXCEPT ![c].at = "null", ![c].seq = <<>>]
      /\ UNCHANGED <<scene, present, viewOnly, ms, toServer, serverVars>>
  BY DEF SequenceFree
<1>2. /\ c \in Clients /\ KeyboardInv(kb[c], viewOnly[c]) /\ TypeOK /\ scene.hands[c] # "mouse"
  BY <1>1, KeyboardFacts DEF IInv
<1>3. kb[c] \in Keyboards /\ kb \in [Clients -> Keyboards]
  BY <1>2 DEF TypeOK
<1>4. n = [kb[c] EXCEPT !.at = "null", !.seq = <<>>]
  BY <1>1, <1>2, <1>3
<1>5. n \in Keyboards
  <2>. DEFINE e == <<>>
  <2>1. e \in Seq(Strokes) /\ n = [kb[c] EXCEPT !.at = "null", !.seq = e]
    BY <1>4
  <2>. HIDE DEF e, n
  <2>. QED BY <1>3, <2>1 DEF Keyboards
<1>6. /\ n.held = kb[c].held /\ n.active = kb[c].active /\ n.pressed = kb[c].pressed
      /\ n.seq = <<>> /\ n.at = "null"
  BY <1>3, <1>4 DEF Keyboards
<1>7. kb' \in [Clients -> Keyboards] /\ \A d \in Clients \ {c} : kb'[d] = kb[d]
  BY <1>1, <1>2, <1>3, <1>5
<1>. HIDE DEF n
<1>8. KeyboardInv(n, viewOnly[c])
  <2>1. Releases(<<>>)
    BY DEF Releases
  <2>. QED BY <1>2, <1>6, <2>1 DEF KeyboardInv
<1>9. \A x : ~ToCome(kb[c].at, kb[c].seq, x)
  BY <1>1 DEF ToCome
<1>. QED BY <1>1, <1>2, <1>5, <1>6, <1>7, <1>8, <1>9, KeepsQuietKey DEF n

-----------------------------------------------------------------------------
(* Steps of the mouse of one viewer. *)

LEMMA ButtonsFew ==
  ASSUME NEW B \in SUBSET ToSet(Buttons)
  PROVE  IsFiniteSet(B) /\ Cardinality(B) \in 0 .. Len(Buttons)
<1>1. /\ Buttons \in Seq(ToSet(Buttons)) /\ Len(Buttons) \in Nat
      /\ DOMAIN Buttons = 1 .. Len(Buttons)
  BY NamesAssumption
<1>2. IsFiniteSet(1 .. Len(Buttons)) /\ Cardinality(1 .. Len(Buttons)) = Len(Buttons)
  BY <1>1, Indexes
<1>3. Buttons \in Surjection(1 .. Len(Buttons), ToSet(Buttons))
  BY <1>1 DEF Surjection, ToSet
<1>4. IsFiniteSet(ToSet(Buttons)) /\ Cardinality(ToSet(Buttons)) <= Len(Buttons)
  BY <1>2, <1>3, FS_Surjection
<1>5. IsFiniteSet(B) /\ Cardinality(B) <= Cardinality(ToSet(Buttons))
  BY <1>4, FS_Subset
<1>. QED BY <1>1, <1>4, <1>5, FS_CardinalityType

\* A step of the mouse of c, and what it sends, keeps the invariant if it keeps
\* that of c.
LEMMA MouseStep ==
  ASSUME IInv, NEW c \in present, scene.hands[c] = "mouse",
         ms' \in [Clients -> Mice], toServer' \in [Clients -> Seq(Messages)],
         \A d \in Clients \ {c} : ms'[d] = ms[d] /\ toServer'[d] = toServer[d],
         MouseInv(ms'[c], viewOnly[c]), PointerFlow(toServer'[c], ms'[c].buttons, cl[c]),
         UNCHANGED <<scene, present, viewOnly, kb, serverVars>>
  PROVE  IInv'
<1>0. c \in Clients /\ present \subseteq Clients
  BY DEF IInv, TypeOK
<1>1. TypeOK'
  BY DEF IInv, TypeOK, serverVars
<1>2. MiceInv'
  <2>1. \A d \in Clients : MouseInv(ms'[d], viewOnly[d])
    BY DEF IInv, MiceInv
  <2>2. ASSUME NEW d \in present
        PROVE  IF scene.hands[d] = "mouse"
               THEN kb[d].at = "null" /\ PointerFlow(toServer'[d], ms'[d].buttons, cl[d])
               ELSE (\A i \in DOMAIN toServer'[d] : toServer'[d][i].t = "key") /\ NoButtons(cl[d])
    <3>1. CASE d = c
      BY <1>0, <3>1 DEF IInv, MiceInv
    <3>2. CASE d # c
      BY <1>0, <3>2 DEF IInv, MiceInv
    <3>. QED BY <3>1, <3>2
  <2>. QED BY <2>1, <2>2 DEF IInv, MiceInv, serverVars
<1>3. KeysInv'
  <2>1. KeyFlow(cl[c].abState, toServer'[c], kb[c], viewOnly[c])
    <3>1. /\ KeyFlow(cl[c].abState, toServer[c], kb[c], viewOnly[c])
          /\ PointerFlow(toServer[c], ms[c].buttons, cl[c])
      BY DEF IInv, KeysInv, MiceInv
    <3>2. /\ \A i \in DOMAIN toServer[c] : toServer[c][i].t # "key"
          /\ \A i \in DOMAIN toServer'[c] : toServer'[c][i].t # "key"
      BY <3>1 DEF PointerFlow
    <3>3. ASSUME NEW x, After(cl[c].abState, toServer'[c], x)
          PROVE  After(cl[c].abState, toServer[c], x)
      BY <3>2, <3>3 DEF After, EndsDown, Silent, Hit
    <3>. QED BY <3>1, <3>3 DEF KeyFlow
  <2>2. \A d \in present : KeyFlow(cl[d].abState, toServer'[d], kb[d], viewOnly[d])
    BY <1>0, <2>1 DEF IInv, KeysInv
  <2>. QED BY <2>2 DEF IInv, KeysInv, serverVars
<1>. QED BY <1>1, <1>2, <1>3 DEF IInv

\* What the mouse of a viewer that uses it satisfies.
LEMMA MouseFacts ==
  ASSUME IInv, NEW c \in present, scene.hands[c] = "mouse"
  PROVE  /\ c \in Clients /\ TypeOK /\ MouseInv(ms[c], viewOnly[c])
         /\ ms \in [Clients -> Mice] /\ ms[c] \in Mice /\ ms[c].buttons \subseteq ToSet(Buttons)
         /\ toServer[c] \in Seq(Messages) /\ viewOnly[c] \in BOOLEAN /\ cl[c] \in Records
         /\ PointerFlow(toServer[c], ms[c].buttons, cl[c])
<1>1. c \in Clients /\ TypeOK
  BY DEF IInv, TypeOK
<1>2. ms \in [Clients -> Mice] /\ ms[c] \in Mice
  BY <1>1 DEF TypeOK
<1>3. ms[c].buttons \subseteq ToSet(Buttons)
  BY <1>2 DEF Mice
<1>4. toServer[c] \in Seq(Messages) /\ viewOnly[c] \in BOOLEAN /\ cl[c] \in Records
  BY <1>1 DEF TypeOK
<1>5. MouseInv(ms[c], viewOnly[c]) /\ PointerFlow(toServer[c], ms[c].buttons, cl[c])
  BY <1>1 DEF IInv, MiceInv
<1>. QED BY <1>1, <1>2, <1>3, <1>4, <1>5

\* The queue of one viewer with one more mask.
LEMMA FlowAppend ==
  ASSUME NEW q \in Seq(Messages), NEW A, NEW B \in Masks, NEW k \in Records,
         PointerFlow(q, A, k), Follows(A, B),
         q = <<>> => k.ulBtnFlags = {} \/ Near(k.ulBtnFlags, B \ {Wheel})
  PROVE  q \o <<PointerMsg(B)>> \in Seq(Messages) /\ PointerFlow(q \o <<PointerMsg(B)>>, B, k)
<1>. DEFINE m == PointerMsg(B)
            w == q \o <<m>>
            n == Len(q)
<1>1. m \in Messages /\ m.t = "pointer" /\ m.mask = B
  BY DEF PointerMsg, Messages
<1>2. /\ n \in Nat /\ DOMAIN q = 1 .. n /\ w \in Seq(Messages) /\ Len(w) = n + 1
      /\ DOMAIN w = 1 .. n + 1 /\ w[n + 1] = m /\ \A i \in 1 .. n : w[i] = q[i]
      /\ w # <<>> /\ (q = <<>> <=> n = 0)
  <2>. HIDE DEF m
  <2>. QED BY <1>1
<1>. HIDE DEF w, n, m
<1>3. \A i \in DOMAIN w : i = n + 1 \/ i \in DOMAIN q
  BY <1>2
<1>4. \A i \in DOMAIN w : w[i].t = "pointer"
  BY <1>1, <1>2, <1>3 DEF PointerFlow
<1>5. w[Len(w)].mask = B
  BY <1>1, <1>2
<1>6. ASSUME NEW i \in DOMAIN w, i + 1 \in DOMAIN w PROVE Follows(w[i].mask, w[i + 1].mask)
  <2>1. i \in 1 .. n
    BY <1>2, <1>6
  <2>2. CASE i = n
    <3>1. q # <<>> /\ q[n].mask = A
      BY <1>2, <2>1, <2>2 DEF PointerFlow, n
    <3>. QED BY <1>1, <1>2, <2>1, <2>2, <3>1
  <2>3. CASE i # n
    <3>1. i \in DOMAIN q /\ i + 1 \in DOMAIN q
      BY <1>2, <2>1, <2>3
    <3>2. Follows(q[i].mask, q[i + 1].mask)
      BY <3>1 DEF PointerFlow
    <3>. QED BY <1>2, <3>1, <3>2
  <2>. QED BY <2>2, <2>3
<1>7. CASE q = <<>>
  <2>1. w[1].mask = B
    BY <1>1, <1>2, <1>7
  <2>2. k.ulBtnFlags = {} \/ Near(k.ulBtnFlags, w[1].mask \ {Wheel})
    BY <1>7, <2>1
  <2>3. Wheel \notin k.lastPtrButtons /\ k.ulBtnFlags = k.lastPtrButtons
    BY <1>7 DEF PointerFlow
  <2>4. PointerFlow(w, B, k)
    BY <1>2, <1>4, <1>5, <1>6, <2>2, <2>3 DEF PointerFlow
  <2>. QED BY <1>2, <2>4 DEF w, m
<1>8. CASE q # <<>>
  <2>1. w[1] = q[1]
    BY <1>2, <1>8
  <2>2. /\ k.ulBtnFlags = {} \/ Near(k.ulBtnFlags, w[1].mask \ {Wheel})
        /\ IF Wheel \in k.lastPtrButtons THEN w[1].mask = k.lastPtrButtons \ {Wheel}
           ELSE k.ulBtnFlags = k.lastPtrButtons
    BY <1>8, <2>1 DEF PointerFlow
  <2>3. PointerFlow(w, B, k)
    BY <1>2, <1>4, <1>5, <1>6, <2>2 DEF PointerFlow
  <2>. QED BY <1>2, <2>3 DEF w, m
<1>. QED BY <1>7, <1>8

LEMMA MouseQuiet ==
  ASSUME IInv, NEW c \in present, scene.hands[c] = "mouse", NEW n \in Mice,
         ms' = [ms EXCEPT ![c] = n], n.buttons = ms[c].buttons, MouseInv(n, viewOnly[c]),
         UNCHANGED <<scene, present, viewOnly, kb, toServer, serverVars>>
  PROVE  IInv'
<1>1. /\ c \in Clients /\ ms \in [Clients -> Mice] /\ TypeOK
      /\ PointerFlow(toServer[c], ms[c].buttons, cl[c])
  BY MouseFacts
<1>2. ms' \in [Clients -> Mice] /\ ms'[c] = n /\ \A d \in Clients \ {c} : ms'[d] = ms[d]
  BY <1>1
<1>3. /\ toServer' \in [Clients -> Seq(Messages)]
      /\ \A d \in Clients \ {c} : toServer'[d] = toServer[d]
      /\ PointerFlow(toServer'[c], ms'[c].buttons, cl[c])
  BY <1>1, <1>2 DEF TypeOK
<1>. QED BY <1>2, <1>3, MouseStep

LEMMA MouseSends ==
  ASSUME IInv, NEW c \in present, scene.hands[c] = "mouse", NEW n \in Mice,
         NEW B \in SUBSET ToSet(Buttons), ms' = [ms EXCEPT ![c] = n],
         Sends(c, <<PointerMsg(B)>>), Near(ms[c].buttons, B),
         n.buttons = (IF viewOnly[c] THEN ms[c].buttons ELSE B), MouseInv(n, viewOnly[c]),
         UNCHANGED <<scene, present, viewOnly, kb, serverVars>>
  PROVE  IInv'
<1>. DEFINE q == toServer[c]
            A == ms[c].buttons
            k == cl[c]
            u == <<PointerMsg(B)>>
<1>1. /\ c \in Clients /\ TypeOK /\ ms \in [Clients -> Mice] /\ A \subseteq ToSet(Buttons)
      /\ q \in Seq(Messages) /\ viewOnly[c] \in BOOLEAN /\ k \in Records
      /\ PointerFlow(q, A, k)
  BY MouseFacts
<1>2. ms' \in [Clients -> Mice] /\ ms'[c] = n /\ \A d \in Clients \ {c} : ms'[d] = ms[d]
  BY <1>1
<1>3. B \in Masks /\ Wheel \notin A /\ Wheel \notin B
  BY <1>1, NamesAssumption DEF Masks
<1>4. Follows(A, B)
  <2>1. A \ {Wheel} = A /\ B \ {Wheel} = B
    BY <1>3
  <2>. QED BY <1>3, <2>1 DEF Follows
<1>5. q = <<>> => k.ulBtnFlags = {} \/ Near(k.ulBtnFlags, B \ {Wheel})
  <2>1. B \ {Wheel} = B
    BY <1>3
  <2>. QED BY <1>1, <2>1 DEF PointerFlow
<1>. HIDE DEF q, A, k
<1>6. q \o u \in Seq(Messages) /\ PointerFlow(q \o u, B, k)
  BY <1>1, <1>3, <1>4, <1>5, FlowAppend
<1>7. u \in Seq(Messages)
  BY <1>3 DEF PointerMsg, Messages
<1>. HIDE DEF u
<1>8. Sends(c, u)
  BY DEF u
<1>9. /\ toServer' \in [Clients -> Seq(Messages)]
      /\ toServer'[c] = (IF viewOnly[c] THEN q ELSE q \o u)
      /\ \A d \in Clients \ {c} : toServer'[d] = toServer[d]
  BY <1>1, <1>7, <1>8, Sent DEF q
<1>10. PointerFlow(toServer'[c], ms'[c].buttons, cl[c])
  <2>1. CASE viewOnly[c]
    BY <1>1, <1>2, <1>9, <2>1 DEF A, k
  <2>2. CASE ~viewOnly[c]
    BY <1>2, <1>6, <1>9, <2>2 DEF k
  <2>. QED BY <2>1, <2>2
<1>. QED BY <1>2, <1>9, <1>10, MouseStep

\* What _wmMouse makes of a state m of the mouse that the server does not yet
\* know of, unless it drops the message.
Gives(c, m, b, B, count, n) ==
  /\ ms' = [ms EXCEPT ![c] = n] /\ Sends(c, <<PointerMsg(B)>>)
  /\ n.down = m.down /\ n.other = m.other /\ n.last = b
  /\ n.lMouseButtonsDown = m.lMouseButtonsDown + count
  /\ n.buttons = IF viewOnly[c] THEN m.buttons ELSE B

LEMMA WmMouseDoes ==
  ASSUME NEW c, NEW m \in Mice, NEW b \in (ToSet(Buttons) \X BOOLEAN) \cup {Moved},
         NEW B \in SUBSET ToSet(Buttons), NEW count \in Int,
         m.lMouseButtonsDown + count \in 0 .. Len(Buttons), WmMouse(c, m, b, B, count)
  PROVE  IF m.same /\ m.last = b THEN ms' = [ms EXCEPT ![c] = m] /\ UNCHANGED toServer
         ELSE \E n \in Mice : Gives(c, m, b, B, count, n)
<1>1. CASE m.same /\ m.last = b
  BY <1>1 DEF WmMouse
<1>2. CASE ~(m.same /\ m.last = b)
  <2>. DEFINE m1 == [m EXCEPT !.same = TRUE, !.last = b, !.lMouseButtonsDown = @ + count]
              n == [m1 EXCEPT !.buttons = IF viewOnly[c] THEN @ ELSE B]
              s == m.lMouseButtonsDown + count
  <2>1. ms' = [ms EXCEPT ![c] = n] /\ Sends(c, <<PointerMsg(B)>>)
    BY <1>2 DEF WmMouse, Mouse
  <2>2. m1 = [m EXCEPT !.same = TRUE, !.last = b, !.lMouseButtonsDown = s]
    BY DEF Mice
  <2>3. s \in 0 .. Len(Buttons)
    OBVIOUS
  <2>. HIDE DEF s, m1
  <2>4. m1 \in Mice /\ m1.down = m.down /\ m1.other = m.other /\ m1.last = b
        /\ m1.lMouseButtonsDown = s /\ m1.buttons = m.buttons
    BY <2>2, <2>3 DEF Mice
  <2>5. n \in Mice /\ n.down = m.down /\ n.other = m.other /\ n.last = b
        /\ n.lMouseButtonsDown = s /\ n.buttons = (IF viewOnly[c] THEN m.buttons ELSE B)
    <3>. DEFINE v == viewOnly[c]
    <3>. HIDE DEF v
    <3>. QED BY <2>4 DEF Mice
  <2>. HIDE DEF n
  <2>6. Gives(c, m, b, B, count, n)
    BY <2>1, <2>5 DEF s, Gives
  <2>. QED BY <1>2, <2>5, <2>6
<1>. QED BY <1>1, <1>2

LEMMA KeepsMove ==
  ASSUME IInv, NEW c \in present, NEW over \in BOOLEAN, Move(c, over)
  PROVE  IInv'
<1>1. scene.hands[c] = "mouse" /\ UNCHANGED <<scene, present, viewOnly, kb, serverVars>>
  BY DEF Move, Acts
<1>2. /\ c \in Clients /\ ms[c] \in Mice /\ MouseInv(ms[c], viewOnly[c])
      /\ ms[c].buttons \subseteq ToSet(Buttons) /\ viewOnly[c] \in BOOLEAN
  BY <1>1, MouseFacts
<1>3. PICK same \in BOOLEAN :
        LET m == [ms[c] EXCEPT !.over = over, !.same = same]
        IN IF Seen(m) THEN WmMouse(c, m, Moved, m.buttons, 0)
           ELSE ms' = [ms EXCEPT ![c] = m] /\ UNCHANGED toServer
  BY DEF Move
<1>. DEFINE m == [ms[c] EXCEPT !.over = over, !.same = same]
<1>4. /\ m \in Mice /\ m.down = ms[c].down /\ m.other = ms[c].other /\ m.last = ms[c].last
      /\ m.lMouseButtonsDown = ms[c].lMouseButtonsDown /\ m.buttons = ms[c].buttons
  BY <1>2 DEF Mice
<1>5. IF Seen(m) THEN WmMouse(c, m, Moved, m.buttons, 0)
      ELSE ms' = [ms EXCEPT ![c] = m] /\ UNCHANGED toServer
  BY <1>3
<1>. HIDE DEF m
<1>6. MouseInv(m, viewOnly[c])
  BY <1>2, <1>4 DEF MouseInv
<1>7. \A b \in ToSet(Buttons) : Moved # <<b, TRUE>> /\ Moved # <<b, FALSE>>
  <2>1. Moved[1] \notin ToSet(Buttons)
    BY NamesAssumption
  <2>. QED BY <2>1 DEF Moved
<1>8. ASSUME NEW n \in Mice, n.down = m.down, n.other = m.other, n.last = Moved,
             n.lMouseButtonsDown = m.lMouseButtonsDown + 0,
             n.buttons = (IF viewOnly[c] THEN m.buttons ELSE m.buttons)
      PROVE  MouseInv(n, viewOnly[c])
  <2>1. n.lMouseButtonsDown = m.lMouseButtonsDown /\ n.buttons = m.buttons
    BY <1>4, <1>8 DEF Mice
  <2>. QED BY <1>6, <1>7, <1>8, <2>1 DEF MouseInv
<1>9. CASE Seen(m)
  <2>1. m.lMouseButtonsDown + 0 \in 0 .. Len(Buttons) /\ Near(m.buttons, m.buttons)
    BY <1>4 DEF Mice, Near
  <2>2. CASE m.same /\ m.last = Moved
    <3>1. ms' = [ms EXCEPT ![c] = m] /\ UNCHANGED toServer
      BY <1>5, <1>9, <2>2 DEF WmMouse
    <3>. QED BY <1>1, <1>4, <1>6, <3>1, MouseQuiet
  <2>3. CASE ~(m.same /\ m.last = Moved)
    <3>. DEFINE B == m.buttons
    <3>1. B \in SUBSET ToSet(Buttons) /\ WmMouse(c, m, Moved, B, 0) /\ B = m.buttons
      BY <1>2, <1>4, <1>5, <1>9
    <3>. HIDE DEF B
    <3>. DEFINE count == 0
                b == Moved
    <3>2. /\ count \in Int /\ b \in (ToSet(Buttons) \X BOOLEAN) \cup {Moved}
          /\ ~(m.same /\ m.last = b) /\ m.lMouseButtonsDown + count \in 0 .. Len(Buttons)
          /\ WmMouse(c, m, b, B, count)
      BY <2>1, <2>3, <3>1
    <3>. HIDE DEF count, b
    <3>3. PICK n \in Mice : Gives(c, m, b, B, count, n)
      BY <1>4, <3>1, <3>2, WmMouseDoes
    <3>4. /\ MouseInv(n, viewOnly[c]) /\ Near(ms[c].buttons, B)
          /\ n.buttons = (IF viewOnly[c] THEN ms[c].buttons ELSE B)
          /\ ms' = [ms EXCEPT ![c] = n] /\ Sends(c, <<PointerMsg(B)>>)
      BY <1>4, <1>8, <2>1, <3>1, <3>3 DEF Gives, count, b
    <3>. QED BY <1>1, <3>1, <3>4, MouseSends
  <2>. QED BY <2>2, <2>3
<1>10. CASE ~Seen(m)
  BY <1>1, <1>4, <1>5, <1>6, <1>10, MouseQuiet
<1>. QED BY <1>9, <1>10

LEMMA KeepsButtonDown ==
  ASSUME IInv, NEW c \in present, NEW b \in ToSet(Buttons), ButtonDown(c, b)
  PROVE  IInv'
<1>1. /\ scene.hands[c] = "mouse" /\ UNCHANGED <<scene, present, viewOnly, kb, serverVars>>
      /\ b \notin ms[c].down
  BY DEF ButtonDown, Acts
<1>2. /\ c \in Clients /\ ms[c] \in Mice /\ MouseInv(ms[c], viewOnly[c])
      /\ ms[c].buttons \subseteq ToSet(Buttons) /\ viewOnly[c] \in BOOLEAN
  BY <1>1, MouseFacts
<1>. DEFINE m == [ms[c] EXCEPT !.down = @ \cup {b}]
<1>3. /\ m \in Mice /\ m.down = ms[c].down \cup {b} /\ m.other = ms[c].other
      /\ m.last = ms[c].last /\ m.lMouseButtonsDown = ms[c].lMouseButtonsDown
      /\ m.buttons = ms[c].buttons /\ ms[c].down \subseteq ToSet(Buttons)
      /\ m.same = ms[c].same /\ m.lMouseButtonsDown \in 0 .. Len(Buttons)
      /\ Len(Buttons) \in Nat
  <2>. DEFINE down == ms[c].down \cup {b}
  <2>1. down \in SUBSET ToSet(Buttons) /\ m = [ms[c] EXCEPT !.down = down]
    BY <1>2 DEF Mice
  <2>. HIDE DEF down, m
  <2>2. /\ m \in Mice /\ m.down = down /\ m.other = ms[c].other
        /\ m.last = ms[c].last /\ m.lMouseButtonsDown = ms[c].lMouseButtonsDown
        /\ m.buttons = ms[c].buttons /\ m.same = ms[c].same
    BY <1>2, <2>1 DEF Mice
  <2>3. ms[c].down \subseteq ToSet(Buttons) /\ ms[c].lMouseButtonsDown \in 0 .. Len(Buttons)
    BY <1>2 DEF Mice
  <2>4. Len(Buttons) \in Nat
    BY NamesAssumption
  <2>. QED BY <2>2, <2>3, <2>4 DEF down
<1>4. IF Seen(ms[c]) THEN WmMouse(c, m, <<b, TRUE>>, m.buttons \cup {b}, 1)
      ELSE ms' = [ms EXCEPT ![c] = [m EXCEPT !.other = TRUE]] /\ UNCHANGED toServer
  BY DEF ButtonDown
<1>. HIDE DEF m
<1>5. CASE Seen(ms[c])
  <2>. DEFINE l == <<b, TRUE>>
              B == m.buttons \cup {b}
              count == 1
  <2>1. ~ms[c].other
    BY <1>2, <1>3, <1>5 DEF Seen, MouseInv
  <2>2. /\ IsFiniteSet(m.down) /\ Cardinality(m.down) \in 0 .. Len(Buttons)
        /\ Cardinality(m.down) = ms[c].lMouseButtonsDown + 1
    <3>1. m.down \in SUBSET ToSet(Buttons) /\ ms[c].down \in SUBSET ToSet(Buttons)
      BY <1>3
    <3>2. IsFiniteSet(m.down) /\ Cardinality(m.down) \in 0 .. Len(Buttons)
      BY <3>1, ButtonsFew
    <3>3. IsFiniteSet(ms[c].down) /\ ms[c].lMouseButtonsDown = Cardinality(ms[c].down)
      BY <1>2, <2>1, <3>1, ButtonsFew DEF MouseInv
    <3>4. Cardinality(ms[c].down \cup {b}) = Cardinality(ms[c].down) + 1
      BY <1>1, <3>3, FS_AddElement
    <3>. QED BY <1>3, <3>2, <3>3, <3>4
  <2>3. ~(m.same /\ m.last = l)
    BY <1>1, <1>2, <1>3 DEF MouseInv
  <2>4. ASSUME NEW n \in Mice, n.down = m.down, n.other = m.other, n.last = l,
               n.lMouseButtonsDown = m.lMouseButtonsDown + count,
               n.buttons = (IF viewOnly[c] THEN m.buttons ELSE B)
        PROVE  MouseInv(n, viewOnly[c])
    <3>1. /\ ~n.other /\ n.lMouseButtonsDown = Cardinality(n.down)
      BY <1>3, <2>1, <2>2, <2>4
    <3>2. n.buttons = IF viewOnly[c] THEN {} ELSE n.down
      BY <1>2, <1>3, <2>1, <2>4 DEF MouseInv
    <3>3. \A d \in ToSet(Buttons) :
            (n.last = <<d, TRUE>> => d \in n.down) /\ n.last # <<d, FALSE>>
      BY <1>3, <2>4
    <3>. QED BY <3>1, <3>2, <3>3 DEF MouseInv
  <2>5. /\ B \in SUBSET ToSet(Buttons) /\ WmMouse(c, m, l, B, count) /\ count \in Int
        /\ l \in (ToSet(Buttons) \X BOOLEAN) \cup {Moved}
        /\ m.buttons = ms[c].buttons /\ m.lMouseButtonsDown + count \in 0 .. Len(Buttons)
    <3>1. WmMouse(c, m, l, B, count)
      BY <1>4, <1>5
    <3>2. B \in SUBSET ToSet(Buttons) /\ l \in (ToSet(Buttons) \X BOOLEAN) \cup {Moved}
      BY <1>2, <1>3
    <3>3. count \in Int /\ m.lMouseButtonsDown + count \in 0 .. Len(Buttons)
      BY <1>3, <2>2
    <3>. HIDE DEF l, B, count
    <3>. QED BY <1>3, <3>1, <3>2, <3>3
  <2>6. Near(m.buttons, B)
    <3>1. m.buttons \ {b} = B \ {b}
      OBVIOUS
    <3>. QED BY <3>1 DEF Near
  <2>. HIDE DEF B, count, l
  <2>7. PICK n \in Mice : Gives(c, m, l, B, count, n)
    BY <1>3, <2>3, <2>5, WmMouseDoes
  <2>8. MouseInv(n, viewOnly[c]) /\ Near(ms[c].buttons, B)
        /\ n.buttons = (IF viewOnly[c] THEN ms[c].buttons ELSE B)
        /\ ms' = [ms EXCEPT ![c] = n] /\ Sends(c, <<PointerMsg(B)>>)
    BY <1>3, <2>4, <2>6, <2>7 DEF Gives
  <2>. QED BY <1>1, <2>5, <2>8, MouseSends
<1>6. CASE ~Seen(ms[c])
  <2>. DEFINE n == [m EXCEPT !.other = TRUE]
  <2>1. /\ n \in Mice /\ n.down = m.down /\ n.other /\ n.last = m.last
        /\ n.lMouseButtonsDown = m.lMouseButtonsDown /\ n.buttons = m.buttons
    BY <1>3 DEF Mice
  <2>2. ms' = [ms EXCEPT ![c] = n] /\ UNCHANGED toServer
    BY <1>4, <1>6
  <2>. HIDE DEF n
  <2>3. ms[c].lMouseButtonsDown = 0
    BY <1>3, <1>6 DEF Seen
  <2>4. ms[c].other \/ ms[c].down = {}
    <3>1. SUFFICES ASSUME ~ms[c].other PROVE ms[c].down = {}
      OBVIOUS
    <3>2. ms[c].down \in SUBSET ToSet(Buttons)
      BY <1>3
    <3>3. IsFiniteSet(ms[c].down)
      BY <3>2, ButtonsFew
    <3>4. Cardinality(ms[c].down) = 0
      BY <1>2, <2>3, <3>1 DEF MouseInv
    <3>. QED BY <3>3, <3>4, FS_EmptySet
  <2>5. \A d \in ToSet(Buttons) : ms[c].last # <<d, TRUE>>
    BY <1>2, <2>4 DEF MouseInv
  <2>6. ms[c].buttons = {}
    BY <1>2, <2>4 DEF MouseInv
  <2>7. MouseInv(n, viewOnly[c])
    BY <1>3, <2>1, <2>3, <2>5, <2>6 DEF MouseInv
  <2>. QED BY <1>1, <1>3, <2>1, <2>2, <2>7, MouseQuiet
<1>. QED BY <1>5, <1>6

LEMMA KeepsButtonUp ==
  ASSUME IInv, NEW c \in present, NEW b \in ToSet(Buttons), ButtonUp(c, b)
  PROVE  IInv'
<1>1. /\ scene.hands[c] = "mouse" /\ UNCHANGED <<scene, present, viewOnly, kb, serverVars>>
      /\ b \in ms[c].down
  BY DEF ButtonUp, Acts
<1>2. /\ c \in Clients /\ ms[c] \in Mice /\ MouseInv(ms[c], viewOnly[c])
      /\ ms[c].buttons \subseteq ToSet(Buttons) /\ viewOnly[c] \in BOOLEAN
  BY <1>1, MouseFacts
<1>. DEFINE m == [ms[c] EXCEPT !.down = @ \ {b}]
<1>3. /\ m \in Mice /\ m.down = ms[c].down \ {b} /\ m.other = ms[c].other
      /\ m.last = ms[c].last /\ m.lMouseButtonsDown = ms[c].lMouseButtonsDown
      /\ m.buttons = ms[c].buttons /\ ms[c].down \subseteq ToSet(Buttons)
      /\ m.same = ms[c].same /\ m.lMouseButtonsDown \in 0 .. Len(Buttons)
      /\ Len(Buttons) \in Nat
  <2>. DEFINE down == ms[c].down \ {b}
  <2>1. down \in SUBSET ToSet(Buttons) /\ m = [ms[c] EXCEPT !.down = down]
    BY <1>2 DEF Mice
  <2>. HIDE DEF down, m
  <2>2. /\ m \in Mice /\ m.down = down /\ m.other = ms[c].other
        /\ m.last = ms[c].last /\ m.lMouseButtonsDown = ms[c].lMouseButtonsDown
        /\ m.buttons = ms[c].buttons /\ m.same = ms[c].same
    BY <1>2, <2>1 DEF Mice
  <2>3. ms[c].down \subseteq ToSet(Buttons) /\ ms[c].lMouseButtonsDown \in 0 .. Len(Buttons)
    BY <1>2 DEF Mice
  <2>4. Len(Buttons) \in Nat
    BY NamesAssumption
  <2>. QED BY <2>2, <2>3, <2>4 DEF down
<1>4. IF Seen(ms[c]) THEN WmMouse(c, m, <<b, FALSE>>, m.buttons \ {b}, -1)
      ELSE ms' = [ms EXCEPT ![c] = [m EXCEPT !.other = m.down # {}]] /\ UNCHANGED toServer
  BY DEF ButtonUp
<1>. HIDE DEF m
<1>a. /\ IsFiniteSet(ms[c].down) /\ Cardinality(ms[c].down) \in 0 .. Len(Buttons)
      /\ IsFiniteSet(m.down) /\ Cardinality(m.down) \in 0 .. Len(Buttons)
      /\ Cardinality(m.down) = Cardinality(ms[c].down) - 1
  <2>1. m.down \in SUBSET ToSet(Buttons) /\ ms[c].down \in SUBSET ToSet(Buttons)
    BY <1>3
  <2>2. IsFiniteSet(m.down) /\ Cardinality(m.down) \in 0 .. Len(Buttons)
    BY <2>1, ButtonsFew
  <2>3. IsFiniteSet(ms[c].down) /\ Cardinality(ms[c].down) \in 0 .. Len(Buttons)
    BY <2>1, ButtonsFew
  <2>4. Cardinality(ms[c].down \ {b}) = Cardinality(ms[c].down) - 1
    BY <1>1, <2>3, FS_RemoveElement
  <2>. QED BY <1>3, <2>2, <2>3, <2>4
<1>5. CASE Seen(ms[c])
  <2>. DEFINE l == <<b, FALSE>>
              B == m.buttons \ {b}
              count == -1
  <2>1. ~ms[c].other
    BY <1>2, <1>3, <1>5 DEF Seen, MouseInv
  <2>2. ms[c].lMouseButtonsDown = Cardinality(ms[c].down)
    BY <1>2, <2>1 DEF MouseInv
  <2>3. ~(m.same /\ m.last = l)
    BY <1>1, <1>2, <1>3, <2>1 DEF MouseInv
  <2>4. ASSUME NEW n \in Mice, n.down = m.down, n.other = m.other, n.last = l,
               n.lMouseButtonsDown = m.lMouseButtonsDown + count,
               n.buttons = (IF viewOnly[c] THEN m.buttons ELSE B)
        PROVE  MouseInv(n, viewOnly[c])
    <3>1. /\ ~n.other /\ n.lMouseButtonsDown = Cardinality(n.down)
      BY <1>3, <1>a, <2>1, <2>2, <2>4
    <3>2. n.buttons = IF viewOnly[c] THEN {} ELSE n.down
      BY <1>2, <1>3, <2>1, <2>4 DEF MouseInv
    <3>3. \A d \in ToSet(Buttons) :
            (n.last = <<d, FALSE>> => d \notin n.down) /\ n.last # <<d, TRUE>>
      BY <1>3, <2>4
    <3>. QED BY <3>1, <3>2, <3>3 DEF MouseInv
  <2>5. /\ B \in SUBSET ToSet(Buttons) /\ WmMouse(c, m, l, B, count) /\ count \in Int
        /\ l \in (ToSet(Buttons) \X BOOLEAN) \cup {Moved}
        /\ m.buttons = ms[c].buttons /\ m.lMouseButtonsDown + count \in 0 .. Len(Buttons)
    <3>1. WmMouse(c, m, l, B, count)
      BY <1>4, <1>5
    <3>2. B \in SUBSET ToSet(Buttons) /\ l \in (ToSet(Buttons) \X BOOLEAN) \cup {Moved}
      BY <1>2, <1>3
    <3>3. count \in Int /\ m.lMouseButtonsDown + count \in 0 .. Len(Buttons)
      BY <1>3, <1>a, <2>2
    <3>. HIDE DEF l, B, count
    <3>. QED BY <1>3, <3>1, <3>2, <3>3
  <2>6. Near(m.buttons, B)
    <3>1. m.buttons \ {b} = B \ {b}
      OBVIOUS
    <3>. QED BY <3>1 DEF Near
  <2>. HIDE DEF B, count, l
  <2>7. PICK n \in Mice : Gives(c, m, l, B, count, n)
    BY <1>3, <2>3, <2>5, WmMouseDoes
  <2>8. MouseInv(n, viewOnly[c]) /\ Near(ms[c].buttons, B)
        /\ n.buttons = (IF viewOnly[c] THEN ms[c].buttons ELSE B)
        /\ ms' = [ms EXCEPT ![c] = n] /\ Sends(c, <<PointerMsg(B)>>)
    BY <1>3, <2>4, <2>6, <2>7 DEF Gives
  <2>. QED BY <1>1, <2>5, <2>8, MouseSends
<1>6. CASE ~Seen(ms[c])
  <2>. DEFINE o == m.down # {}
              n == [m EXCEPT !.other = o]
  <2>1. /\ n \in Mice /\ n.down = m.down /\ n.other = o /\ n.last = m.last
        /\ n.lMouseButtonsDown = m.lMouseButtonsDown /\ n.buttons = m.buttons
    <3>1. o \in BOOLEAN
      OBVIOUS
    <3>. HIDE DEF o
    <3>. QED BY <1>3, <3>1 DEF Mice
  <2>2. ms' = [ms EXCEPT ![c] = n] /\ UNCHANGED toServer
    BY <1>4, <1>6
  <2>. HIDE DEF n
  <2>3. ms[c].lMouseButtonsDown = 0
    BY <1>3, <1>6 DEF Seen
  <2>4. ms[c].other
    <3>1. SUFFICES ASSUME ~ms[c].other PROVE FALSE
      BY <1>2 DEF Mice
    <3>2. Cardinality(ms[c].down) = 0
      BY <1>2, <2>3, <3>1 DEF MouseInv
    <3>3. ms[c].down = {}
      BY <1>a, <3>2, FS_EmptySet
    <3>. QED BY <1>1, <3>3
  <2>5. /\ \A d \in ToSet(Buttons) : ms[c].last # <<d, TRUE>>
        /\ ms[c].buttons = {}
    BY <1>2, <2>4 DEF MouseInv
  <2>6. Cardinality({}) = 0
    BY FS_EmptySet
  <2>7. MouseInv(n, viewOnly[c])
    <3>1. CASE m.down = {}
      BY <1>3, <2>1, <2>3, <2>5, <2>6, <3>1 DEF MouseInv
    <3>2. CASE m.down # {}
      BY <1>3, <2>1, <2>3, <2>5, <3>2 DEF MouseInv
    <3>. QED BY <3>1, <3>2
  <2>. QED BY <1>1, <1>3, <2>1, <2>2, <2>7, MouseQuiet
<1>. QED BY <1>5, <1>6

\* A turn of the wheel is two messages, as one append each.
LEMMA TwoAppends ==
  ASSUME NEW S, NEW q \in Seq(S), NEW a \in S, NEW b \in S
  PROVE  q \o <<a, b>> = (q \o <<a>>) \o <<b>>
<1>. DEFINE s == q \o <<a, b>>
            t == (q \o <<a>>) \o <<b>>
<1>1. s \in Seq(S) /\ t \in Seq(S) /\ Len(s) = Len(t)
  OBVIOUS
<1>2. ASSUME NEW i \in 1 .. Len(s) PROVE s[i] = t[i]
  OBVIOUS
<1>. HIDE DEF s, t
<1>3. s = t
  BY <1>1, <1>2
<1>. QED BY <1>3 DEF s, t

LEMMA KeepsTurnWheel ==
  ASSUME IInv, NEW c \in present, TurnWheel(c)
  PROVE  IInv'
<1>. DEFINE q == toServer[c]
            A == ms[c].buttons
            W == A \cup {Wheel}
            k == cl[c]
            m1 == [ms[c] EXCEPT !.same = TRUE, !.last = <<Wheel, TRUE>>]
            n == [m1 EXCEPT !.buttons = IF viewOnly[c] THEN @ ELSE A]
            v == viewOnly[c]
            pa == PointerMsg(W)
            pb == PointerMsg(A)
            u == <<pa, pb>>
<1>1. /\ scene.hands[c] = "mouse" /\ UNCHANGED <<scene, present, viewOnly, kb, serverVars>>
      /\ ms' = [ms EXCEPT ![c] = n] /\ Sends(c, u)
  BY DEF TurnWheel, Acts, Mouse
<1>2. /\ c \in Clients /\ TypeOK /\ ms[c] \in Mice /\ MouseInv(ms[c], v)
      /\ A \subseteq ToSet(Buttons) /\ q \in Seq(Messages) /\ v \in BOOLEAN /\ k \in Records
      /\ PointerFlow(q, A, k) /\ ms \in [Clients -> Mice]
  BY <1>1, MouseFacts
<1>3. /\ n \in Mice /\ n.down = ms[c].down /\ n.other = ms[c].other /\ n.last = <<Wheel, TRUE>>
      /\ n.lMouseButtonsDown = ms[c].lMouseButtonsDown /\ n.buttons = A
  <2>1. m1 \in Mice /\ m1.buttons = A /\ m1.down = ms[c].down /\ m1.other = ms[c].other
        /\ m1.last = <<Wheel, TRUE>> /\ m1.lMouseButtonsDown = ms[c].lMouseButtonsDown
    <3>. DEFINE l == <<Wheel, TRUE>>
    <3>1. l \in (ToSet(Buttons) \X BOOLEAN) \cup {Moved, <<Wheel, TRUE>>}
      OBVIOUS
    <3>. HIDE DEF l
    <3>2. m1 = [ms[c] EXCEPT !.same = TRUE, !.last = l]
      BY DEF l
    <3>3. m1 \in Mice /\ m1.buttons = A /\ m1.down = ms[c].down /\ m1.other = ms[c].other
          /\ m1.last = l /\ m1.lMouseButtonsDown = ms[c].lMouseButtonsDown
      BY <1>2, <3>1, <3>2 DEF Mice
    <3>. QED BY <3>3 DEF l
  <2>2. n = m1
    <3>. HIDE DEF m1
    <3>. QED BY <2>1 DEF Mice
  <2>. QED BY <2>1, <2>2
<1>4. Wheel \notin ToSet(Buttons)
  BY NamesAssumption
<1>5. MouseInv(n, v)
  <2>1. \A b \in ToSet(Buttons) : <<Wheel, TRUE>> # <<b, TRUE>> /\ <<Wheel, TRUE>> # <<b, FALSE>>
    BY <1>4
  <2>. HIDE DEF n
  <2>. QED BY <1>2, <1>3, <2>1 DEF MouseInv
<1>6. /\ A \in Masks /\ W \in Masks /\ A \ {Wheel} = A /\ W \ {Wheel} = A /\ Wheel \notin A
  BY <1>2, <1>4 DEF Masks
<1>7. Follows(A, W) /\ Follows(W, A)
  <2>. HIDE DEF W, A
  <2>. QED BY <1>6 DEF Follows, Near
<1>8. pa \in Messages /\ pb \in Messages
  <2>. HIDE DEF W, A
  <2>. QED BY <1>6 DEF PointerMsg, Messages
<1>9. u \in Seq(Messages)
  <2>. HIDE DEF pa, pb
  <2>. QED BY <1>8
<1>10. q = <<>> => k.ulBtnFlags = {} \/ Near(k.ulBtnFlags, W \ {Wheel})
  <2>. HIDE DEF W, A
  <2>. QED BY <1>2, <1>6 DEF PointerFlow, Near
<1>. HIDE DEF q, A, W, k, n, v, u, pb, pa
<1>11. q \o <<pa>> \in Seq(Messages) /\ PointerFlow(q \o <<pa>>, W, k)
  BY <1>2, <1>6, <1>7, <1>10, FlowAppend DEF pa
<1>. DEFINE w == q \o <<pa>>
<1>12. w # <<>>
  BY <1>2, <1>8
<1>13. w \o <<pb>> \in Seq(Messages) /\ PointerFlow(w \o <<pb>>, A, k)
  <2>. HIDE DEF w
  <2>. QED BY <1>2, <1>6, <1>7, <1>11, <1>12, FlowAppend DEF pb, w
<1>14. q \o u = w \o <<pb>>
  BY <1>2, <1>8, TwoAppends DEF u
<1>. HIDE DEF w
<1>15. /\ toServer' \in [Clients -> Seq(Messages)]
       /\ toServer'[c] = (IF v THEN q ELSE q \o u)
       /\ \A d \in Clients \ {c} : toServer'[d] = toServer[d]
  BY <1>1, <1>2, <1>9, Sent DEF q, v
<1>16. ms' \in [Clients -> Mice] /\ ms'[c] = n /\ \A d \in Clients \ {c} : ms'[d] = ms[d]
  BY <1>1, <1>2, <1>3
<1>17. PointerFlow(toServer'[c], ms'[c].buttons, cl[c])
  <2>1. CASE v
    BY <1>2, <1>3, <1>15, <1>16, <2>1 DEF k
  <2>2. CASE ~v
    BY <1>3, <1>13, <1>14, <1>15, <1>16, <2>2 DEF k
  <2>. QED BY <2>1, <2>2
<1>18. MouseInv(ms'[c], viewOnly[c])
  BY <1>5, <1>16 DEF v
<1>. QED BY <1>1, <1>15, <1>16, <1>17, <1>18, MouseStep

\* View-only mode is turned on and off with nothing held, so nothing is under
\* way that would leave a key or a button down.
LEMMA KeepsToggleViewOnly ==
  ASSUME IInv, NEW c \in present, ToggleViewOnly(c)
  PROVE  IInv'
<1>1. /\ kb[c].pressed = <<>> /\ kb[c].at = "null" /\ ms[c].buttons = {} /\ ms[c].down = {}
      /\ viewOnly' = [viewOnly EXCEPT ![c] = ~@]
      /\ UNCHANGED <<scene, present, kb, ms, toServer, serverVars>>
  BY DEF ToggleViewOnly
<1>2. /\ c \in Clients /\ TypeOK /\ KeyboardInv(kb[c], viewOnly[c])
      /\ KeyFlow(cl[c].abState, toServer[c], kb[c], viewOnly[c])
  BY KeyboardFacts DEF IInv
<1>3. /\ viewOnly' \in [Clients -> BOOLEAN] /\ viewOnly'[c] \in BOOLEAN
      /\ \A d \in Clients \ {c} : viewOnly'[d] = viewOnly[d]
  BY <1>1, <1>2 DEF TypeOK
<1>4. TypeOK'
  BY <1>1, <1>2, <1>3 DEF TypeOK, serverVars
<1>5. KeyboardInv(kb[c], viewOnly'[c])
  BY <1>1, <1>2 DEF KeyboardInv
<1>6. KeyFlow(cl[c].abState, toServer[c], kb[c], viewOnly'[c])
  <2>1. \A x : ~Taken(kb[c].pressed, x) /\ ~ToCome(kb[c].at, kb[c].seq, x)
    BY <1>1 DEF Taken, ToCome, ToSet
  <2>. QED BY <1>2, <2>1 DEF KeyFlow
<1>7. MouseInv(ms[c], viewOnly'[c])
  <2>1. MouseInv(ms[c], viewOnly[c])
    BY <1>2 DEF IInv, MiceInv
  <2>. QED BY <1>1, <2>1 DEF MouseInv
<1>8. KeysInv'
  <2>1. \A d \in Clients : KeyboardInv(kb[d], viewOnly'[d])
    BY <1>3, <1>5 DEF IInv, KeysInv
  <2>2. \A d \in present : KeyFlow(cl[d].abState, toServer[d], kb[d], viewOnly'[d])
    BY <1>2, <1>3, <1>6 DEF IInv, KeysInv, TypeOK
  <2>. QED BY <1>1, <2>1, <2>2 DEF IInv, KeysInv, serverVars
<1>9. MiceInv'
  <2>1. \A d \in Clients : MouseInv(ms[d], viewOnly'[d])
    BY <1>3, <1>7 DEF IInv, MiceInv
  <2>. QED BY <1>1, <2>1 DEF IInv, MiceInv, serverVars
<1>. QED BY <1>4, <1>8, <1>9 DEF IInv

-----------------------------------------------------------------------------
(* Steps of the server. *)

LEMMA AfterSame ==
  ASSUME NEW S, NEW T, NEW q, NEW x, x \in S => x \in T
  PROVE  After(S, q, x) => After(T, q, x)
BY DEF After

\* What a message that has been taken leaves under way.
LEMMA TailFacts ==
  ASSUME NEW q \in Seq(Messages), q # <<>>
  PROVE  /\ Head(q) = q[1] /\ q[1] \in Messages /\ Tail(q) \in Seq(Messages) /\ 1 \in DOMAIN q
         /\ Len(q) \in Nat /\ DOMAIN q = 1 .. Len(q) /\ Len(Tail(q)) = Len(q) - 1
         /\ DOMAIN Tail(q) = 1 .. Len(q) - 1
         /\ \A i \in DOMAIN Tail(q) : i + 1 \in DOMAIN q /\ Tail(q)[i] = q[i + 1]
<1>1. Len(q) \in Nat /\ Len(q) # 0 /\ DOMAIN q = 1 .. Len(q)
  OBVIOUS
<1>2. Head(q) = q[1] /\ 1 \in DOMAIN q /\ q[1] \in Messages
  BY <1>1
<1>3. Tail(q) \in Seq(Messages) /\ Len(Tail(q)) = Len(q) - 1
  OBVIOUS
<1>4. DOMAIN Tail(q) = 1 .. Len(q) - 1
  BY <1>1, <1>3
<1>5. \A i \in 1 .. Len(q) - 1 : i + 1 \in DOMAIN q /\ Tail(q)[i] = q[i + 1]
  BY <1>1
<1>. QED BY <1>1, <1>2, <1>3, <1>4, <1>5

\* The queue of c without its first message.
LEMMA Received ==
  ASSUME IInv, NEW c, NEW t, Receive(c, t)
  PROVE  /\ c \in present /\ c \in Clients /\ toServer[c] \in Seq(Messages) /\ toServer[c] # <<>>
         /\ toServer[c][1].t = t /\ Head(toServer[c]) = toServer[c][1]
         /\ toServer' \in [Clients -> Seq(Messages)] /\ toServer'[c] = Tail(toServer[c])
         /\ \A d \in Clients \ {c} : toServer'[d] = toServer[d]
<1>1. /\ c \in present /\ toServer[c] # <<>> /\ Head(toServer[c]).t = t
      /\ toServer' = [toServer EXCEPT ![c] = Tail(@)]
  BY DEF Receive
<1>2. c \in Clients /\ toServer \in [Clients -> Seq(Messages)]
  BY <1>1 DEF IInv, TypeOK
<1>. DEFINE q == toServer[c]
<1>3. q \in Seq(Messages) /\ q # <<>>
  BY <1>1, <1>2
<1>4. Tail(q) \in Seq(Messages) /\ Head(q) = q[1]
  <2>. HIDE DEF q
  <2>. QED BY <1>3, TailFacts
<1>. QED BY <1>1, <1>2, <1>3, <1>4

\* Who uses the keyboard has sent keys, who uses the mouse pointer messages.
LEMMA HandOf ==
  ASSUME IInv, NEW c \in present, toServer[c] \in Seq(Messages), toServer[c] # <<>>
  PROVE  IF toServer[c][1].t = "key" THEN scene.hands[c] # "mouse"
         ELSE scene.hands[c] = "mouse"
<1>1. 1 \in DOMAIN toServer[c]
  BY TailFacts
<1>. QED BY <1>1 DEF IInv, MiceInv, PointerFlow

LEMMA KeepsKeyEvent ==
  ASSUME IInv, NEW c, KeyEvent(c)
  PROVE  IInv'
<1>. DEFINE q == toServer[c]
            m == Head(q)
            scan == Scan[m.symbol]
            With(set) == IF m.down THEN set \cup {scan} ELSE set \ {scan}
            K == cl[c].abState
            state == With(K)
            n == cl'[c]
<1>1. /\ Receive(c, "key")
      /\ UNCHANGED <<scene, present, viewOnly, kb, ms, pointerClient, buttonsDown>>
      /\ IF c \in scene.watchers THEN UNCHANGED <<cl, keysDown>>
         ELSE /\ cl' = [cl EXCEPT ![c].abState = state]
              /\ keysDown' = IF Routed(scan, state) /\ ~RunsProgram(scan, m.down, state)
                             THEN With(keysDown) ELSE keysDown
  BY DEF KeyEvent
<1>2. /\ c \in present /\ c \in Clients /\ q \in Seq(Messages) /\ q # <<>> /\ m.t = "key"
      /\ toServer' \in [Clients -> Seq(Messages)] /\ toServer'[c] = Tail(q) /\ m = q[1]
      /\ \A d \in Clients \ {c} : toServer'[d] = toServer[d]
  BY <1>1, Received
<1>3. scene.hands[c] # "mouse"
  BY <1>2, HandOf
<1>4. /\ TypeOK /\ cl \in [Clients -> Records] /\ cl[c] \in Records /\ K \subseteq Scans
      /\ keysDown \subseteq Scans
  BY <1>2 DEF IInv, TypeOK, Records
<1>5. m.symbol \in DOMAIN Scan /\ m.down \in BOOLEAN /\ scan \in Scans
  <2>1. m \in Messages
    BY <1>2, TailFacts
  <2>2. m.symbol \in DOMAIN Scan /\ m.down \in BOOLEAN
    BY <1>2, <2>1 DEF Messages
  <2>. QED BY <2>2 DEF Scans, Range
<1>6. /\ n \in Records /\ n.lastPtrButtons = cl[c].lastPtrButtons
      /\ n.ulBtnFlags = cl[c].ulBtnFlags
      /\ n.abState = IF c \in scene.watchers THEN K ELSE state
      /\ cl' \in [Clients -> Records] /\ \A d \in Clients \ {c} : cl'[d] = cl[d]
  <2>1. state \in SUBSET Scans
    BY <1>4, <1>5
  <2>2. CASE c \in scene.watchers
    BY <1>1, <1>4, <2>2
  <2>3. CASE c \notin scene.watchers
    <3>. HIDE DEF state, K
    <3>1. n = [cl[c] EXCEPT !.abState = state]
      BY <1>1, <1>2, <1>4, <2>3
    <3>. HIDE DEF n
    <3>2. /\ n \in Records /\ n.lastPtrButtons = cl[c].lastPtrButtons
          /\ n.ulBtnFlags = cl[c].ulBtnFlags /\ n.abState = state
      BY <1>4, <2>1, <3>1 DEF Records
    <3>. QED BY <1>1, <1>2, <1>4, <2>3, <3>2 DEF n
  <2>. QED BY <2>2, <2>3
<1>7. \A d \in Clients : /\ cl'[d].lastPtrButtons = cl[d].lastPtrButtons
                         /\ cl'[d].ulBtnFlags = cl[d].ulBtnFlags
  BY <1>6
<1>8. keysDown' \subseteq Scans
  BY <1>1, <1>4, <1>5
<1>9. TypeOK'
  BY <1>1, <1>2, <1>6, <1>8 DEF IInv, TypeOK
<1>10. KeyFlow(n.abState, Tail(q), kb[c], viewOnly[c])
  <2>1. KeyFlow(K, q, kb[c], viewOnly[c])
    BY <1>2 DEF IInv, KeysInv
  <2>2. c \in scene.watchers => K = {}
    BY DEF IInv, KeysInv
  <2>3. ASSUME NEW x \in Scans, After(n.abState, Tail(q), x) PROVE After(K, q, x)
    <3>. DEFINE D == IF q[1].down THEN {x} ELSE {}
                t == Tail(q)
    <3>1. After(K, q, x) <=> IF Hit(q, 1, x) THEN After(D, t, x) ELSE After(K, t, x)
      <4>. HIDE DEF q, K, n
      <4>. QED BY <1>2, AfterHead
    <3>2. Hit(q, 1, x) <=> scan = x
      BY <1>2 DEF Hit
    <3>3. x \in n.abState => IF Hit(q, 1, x) THEN x \in D ELSE x \in K
      BY <1>2, <1>6, <2>2, <3>2
    <3>. HIDE DEF D, t, n, K, q
    <3>4. CASE Hit(q, 1, x)
      BY <2>3, <3>1, <3>3, <3>4, AfterSame DEF t
    <3>5. CASE ~Hit(q, 1, x)
      BY <2>3, <3>1, <3>3, <3>5, AfterSame DEF t
    <3>. QED BY <3>4, <3>5
  <2>. QED BY <2>1, <2>3 DEF KeyFlow
<1>11. keysDown' \cap Special \subseteq UNION {cl'[d].abState : d \in Clients}
  <2>1. CASE c \in scene.watchers
    BY <1>1, <2>1 DEF IInv, KeysInv
  <2>2. CASE c \notin scene.watchers
    <3>1. ASSUME NEW y \in keysDown' \cap Special PROVE \E d \in Clients : y \in cl'[d].abState
      <4>1. CASE y = scan /\ m.down
        <5>1. y \in n.abState
          BY <1>6, <2>2, <4>1
        <5>. QED BY <1>2, <5>1
      <4>2. CASE y = scan /\ ~m.down
        <5>1. y \in keysDown
          BY <1>1, <2>2, <3>1, <4>2
        <5>2. Routed(scan, state)
          BY <3>1, <4>2, <5>1 DEF Routed, IInv, KeysInv
        <5>3. ~RunsProgram(scan, m.down, state)
          BY <4>2 DEF RunsProgram
        <5>4. keysDown' = keysDown \ {scan}
          BY <1>1, <2>2, <4>2, <5>2, <5>3
        <5>. QED BY <3>1, <4>2, <5>4
      <4>3. CASE y # scan
        <5>1. y \in keysDown
          BY <1>1, <2>2, <3>1, <4>3
        <5>2. PICK d \in Clients : y \in cl[d].abState
          BY <3>1, <5>1 DEF IInv, KeysInv
        <5>3. CASE d = c
          BY <1>6, <2>2, <4>3, <5>2, <5>3
        <5>4. CASE d # c
          BY <1>6, <5>2, <5>4
        <5>. QED BY <5>3, <5>4
      <4>. QED BY <4>1, <4>2, <4>3
    <3>. QED BY <3>1
  <2>. QED BY <2>1, <2>2
<1>12. ~scene.driver => keysDown' \subseteq ShiftKeys
  <2>1. ~scene.driver => keysDown \subseteq ShiftKeys
    BY DEF IInv, KeysInv
  <2>. QED BY <1>1, <2>1 DEF Routed
<1>. HIDE DEF n
<1>13. KeysInv'
  <2>1. \A d \in Clients : KeyboardInv(kb[d], viewOnly[d])
    BY DEF IInv, KeysInv
  <2>2. ASSUME NEW d \in present
        PROVE  KeyFlow(cl'[d].abState, toServer'[d], kb[d], viewOnly[d])
    <3>1. CASE d = c
      BY <1>2, <1>10, <3>1 DEF n
    <3>2. CASE d # c
      <4>1. d \in Clients
        BY <1>4 DEF TypeOK
      <4>. QED BY <1>2, <1>6, <3>2, <4>1 DEF IInv, KeysInv
    <3>. QED BY <3>1, <3>2
  <2>3. \A d \in scene.watchers : cl'[d].abState = {}
    <3>1. scene.watchers \subseteq Clients
      BY <1>4, ScenesAssumption DEF TypeOK
    <3>2. ASSUME NEW d \in scene.watchers PROVE cl'[d].abState = {}
      <4>1. cl[d].abState = {}
        BY DEF IInv, KeysInv
      <4>2. CASE d = c
        BY <1>6, <4>1, <4>2 DEF n
      <4>3. CASE d # c
        BY <1>6, <3>1, <4>1, <4>3
      <4>. QED BY <4>2, <4>3
    <3>. QED BY <3>2
  <2>. QED BY <1>1, <1>11, <1>12, <2>1, <2>2, <2>3 DEF KeysInv
<1>14. MiceInv'
  <2>1. ASSUME NEW d \in present
        PROVE  IF scene.hands[d] = "mouse"
               THEN kb[d].at = "null" /\ PointerFlow(toServer'[d], ms[d].buttons, cl'[d])
               ELSE (\A i \in DOMAIN toServer'[d] : toServer'[d][i].t = "key") /\ NoButtons(cl'[d])
    <3>0. d \in Clients
      BY <1>4 DEF TypeOK
    <3>1. CASE d = c
      <4>1. (\A i \in DOMAIN q : q[i].t = "key") /\ NoButtons(cl[c])
        BY <1>2, <1>3 DEF IInv, MiceInv
      <4>2. \A i \in DOMAIN Tail(q) : Tail(q)[i].t = "key"
        <5>. HIDE DEF q
        <5>. QED BY <1>2, <4>1, TailFacts
      <4>. QED BY <1>2, <1>3, <1>7, <3>1, <4>1, <4>2 DEF NoButtons
    <3>2. CASE d # c
      <4>1. toServer'[d] = toServer[d] /\ cl'[d] = cl[d]
        BY <1>2, <1>6, <3>0, <3>2
      <4>2. IF scene.hands[d] = "mouse"
            THEN kb[d].at = "null" /\ PointerFlow(toServer[d], ms[d].buttons, cl[d])
            ELSE (\A i \in DOMAIN toServer[d] : toServer[d][i].t = "key") /\ NoButtons(cl[d])
        BY DEF IInv, MiceInv
      <4>. QED BY <4>1, <4>2
    <3>. QED BY <3>1, <3>2
  <2>2. \A d \in present : pointerClient # d \/ d \in scene.watchers => NoButtons(cl'[d])
    BY <1>4, <1>7 DEF IInv, MiceInv, NoButtons, TypeOK
  <2>3. buttonsDown \subseteq UNION {cl'[d].ulBtnFlags : d \in Clients}
    <3>1. buttonsDown \subseteq UNION {cl[d].ulBtnFlags : d \in Clients}
      BY DEF IInv, MiceInv
    <3>. QED BY <1>7, <3>1
  <2>. QED BY <1>1, <2>1, <2>2, <2>3 DEF IInv, MiceInv
<1>. QED BY <1>9, <1>13, <1>14 DEF IInv

\* A step of the server for a client that changes what it keeps of its pointer.
LEMMA PointerStep ==
  ASSUME IInv, NEW c \in present, NEW n \in Records,
         cl' \in [Clients -> Records], cl'[c] = n, \A d \in Clients \ {c} : cl'[d] = cl[d],
         n.abState = cl[c].abState,
         toServer' \in [Clients -> Seq(Messages)],
         \A d \in Clients \ {c} : toServer'[d] = toServer[d],
         IF scene.hands[c] = "mouse" THEN PointerFlow(toServer'[c], ms[c].buttons, n)
         ELSE toServer'[c] = toServer[c] /\ NoButtons(n),
         pointerClient' \in Clients \cup {Nobody},
         pointerClient' # c \/ c \in scene.watchers => NoButtons(n),
         pointerClient' = pointerClient \/ pointerClient \in {Nobody, c},
         buttonsDown' \subseteq ToSet(Buttons),
         \A y \in buttonsDown' : y \in n.ulBtnFlags \/ y \in buttonsDown \ cl[c].ulBtnFlags,
         UNCHANGED <<scene, present, viewOnly, kb, ms, keysDown>>
  PROVE  IInv'
<1>0. c \in Clients /\ present \subseteq Clients /\ TypeOK
  BY DEF IInv, TypeOK
<1>1. TypeOK'
  BY <1>0 DEF TypeOK
<1>2. \A d \in Clients : cl'[d].abState = cl[d].abState
  OBVIOUS
<1>3. KeyFlow(cl[c].abState, toServer'[c], kb[c], viewOnly[c])
  <2>1. KeyFlow(cl[c].abState, toServer[c], kb[c], viewOnly[c])
    BY DEF IInv, KeysInv
  <2>2. CASE scene.hands[c] = "mouse"
    <3>1. PointerFlow(toServer[c], ms[c].buttons, cl[c])
      BY <2>2 DEF IInv, MiceInv
    <3>2. /\ \A i \in DOMAIN toServer[c] : toServer[c][i].t # "key"
          /\ \A i \in DOMAIN toServer'[c] : toServer'[c][i].t # "key"
      BY <2>2, <3>1 DEF PointerFlow
    <3>3. ASSUME NEW x, After(cl[c].abState, toServer'[c], x)
          PROVE  After(cl[c].abState, toServer[c], x)
      BY <3>2, <3>3 DEF After, EndsDown, Silent, Hit
    <3>. QED BY <2>1, <3>3 DEF KeyFlow
  <2>3. CASE scene.hands[c] # "mouse"
    BY <2>1, <2>3
  <2>. QED BY <2>2, <2>3
<1>4. KeysInv'
  <2>1. ASSUME NEW d \in present
        PROVE  KeyFlow(cl'[d].abState, toServer'[d], kb[d], viewOnly[d])
    <3>1. CASE d = c
      BY <1>2, <1>0, <1>3, <3>1
    <3>2. CASE d # c
      <4>1. toServer'[d] = toServer[d] /\ cl'[d] = cl[d]
        BY <1>0, <3>2
      <4>. QED BY <4>1 DEF IInv, KeysInv
    <3>. QED BY <3>1, <3>2
  <2>2. \A d \in scene.watchers : cl'[d].abState = {}
    <3>1. scene.watchers \subseteq Clients
      BY <1>0, ScenesAssumption DEF TypeOK
    <3>. QED BY <1>2, <3>1 DEF IInv, KeysInv
  <2>3. keysDown \cap Special \subseteq UNION {cl'[d].abState : d \in Clients}
    <3>1. ASSUME NEW x \in keysDown \cap Special
          PROVE  \E d \in Clients : x \in cl'[d].abState
      <4>1. PICK d \in Clients : x \in cl[d].abState
        BY DEF IInv, KeysInv
      <4>. QED BY <1>2, <4>1, Zenon
    <3>. QED BY <3>1, Zenon
  <2>. QED BY <2>1, <2>2, <2>3 DEF IInv, KeysInv
<1>5. MiceInv'
  <2>1. ASSUME NEW d \in present
        PROVE  IF scene.hands[d] = "mouse"
               THEN kb[d].at = "null" /\ PointerFlow(toServer'[d], ms[d].buttons, cl'[d])
               ELSE (\A i \in DOMAIN toServer'[d] : toServer'[d][i].t = "key") /\ NoButtons(cl'[d])
    <3>1. IF scene.hands[d] = "mouse"
          THEN kb[d].at = "null" /\ PointerFlow(toServer[d], ms[d].buttons, cl[d])
          ELSE (\A i \in DOMAIN toServer[d] : toServer[d][i].t = "key") /\ NoButtons(cl[d])
      BY DEF IInv, MiceInv
    <3>2. CASE d = c
      BY <3>1, <3>2
    <3>3. CASE d # c
      <4>1. toServer'[d] = toServer[d] /\ cl'[d] = cl[d]
        BY <1>0, <3>3
      <4>. QED BY <3>1, <4>1
    <3>. QED BY <3>2, <3>3
  <2>2. ASSUME NEW d \in present, pointerClient' # d \/ d \in scene.watchers
        PROVE  NoButtons(cl'[d])
    <3>1. CASE d = c
      BY <2>2, <3>1
    <3>2. CASE d # c
      <4>1. d \in Clients /\ cl'[d] = cl[d] /\ d # Nobody
        BY <1>0, <3>2, NamesAssumption
      <4>2. pointerClient # d \/ d \in scene.watchers
        BY <2>2, <3>2, <4>1
      <4>. QED BY <4>1, <4>2 DEF IInv, MiceInv
    <3>. QED BY <3>1, <3>2
  <2>3. ASSUME NEW y \in buttonsDown' PROVE \E d \in Clients : y \in cl'[d].ulBtnFlags
    <3>1. CASE y \in n.ulBtnFlags
      BY <1>0, <3>1
    <3>2. CASE y \in buttonsDown \ cl[c].ulBtnFlags
      <4>1. PICK d \in Clients : y \in cl[d].ulBtnFlags
        BY <3>2 DEF IInv, MiceInv
      <4>2. d # c
        BY <3>2, <4>1
      <4>. QED BY <4>1, <4>2
    <3>. QED BY <3>1, <3>2
  <2>4. \A d \in Clients : MouseInv(ms[d], viewOnly[d])
    BY DEF IInv, MiceInv
  <2>. QED BY <2>1, <2>2, <2>3, <2>4 DEF MiceInv
<1>. QED BY <1>1, <1>4, <1>5 DEF IInv

\* The queue of a viewer without its first mask, which the server has taken.
LEMMA FlowTail ==
  ASSUME NEW q \in Seq(Messages), q # <<>>, NEW A \in SUBSET ToSet(Buttons), NEW k, NEW n,
         PointerFlow(q, A, k),
         \/ n.ulBtnFlags = {} /\ n.lastPtrButtons = {}
         \/ n.ulBtnFlags = q[1].mask /\ n.lastPtrButtons = q[1].mask /\ Wheel \notin q[1].mask
         \/ n.ulBtnFlags = k.ulBtnFlags /\ n.lastPtrButtons = q[1].mask /\ Wheel \in q[1].mask
  PROVE  PointerFlow(Tail(q), A, n)
<1>. DEFINE w == Tail(q)
            l == Len(q)
<1>1. /\ q[1] \in Messages /\ w \in Seq(Messages) /\ 1 \in DOMAIN q /\ l \in Nat
      /\ DOMAIN q = 1 .. l /\ Len(w) = l - 1 /\ DOMAIN w = 1 .. l - 1
      /\ \A i \in DOMAIN w : i + 1 \in DOMAIN q /\ w[i] = q[i + 1]
  BY TailFacts
<1>. HIDE DEF w, l
<1>2. (w = <<>>) <=> (l = 1)
  BY <1>1
<1>3. Wheel \notin A /\ Wheel \notin {}
  BY NamesAssumption
<1>4. \A i \in DOMAIN w : w[i].t = "pointer"
  BY <1>1 DEF PointerFlow
<1>5. q[l].mask = A
  BY DEF PointerFlow, l
<1>6. w # <<>> => w[Len(w)].mask = A
  <2>1. SUFFICES ASSUME w # <<>> PROVE w[Len(w)].mask = A
    OBVIOUS
  <2>2. Len(w) \in DOMAIN w /\ Len(w) + 1 = l
    BY <1>1, <1>2, <2>1
  <2>3. w[Len(w)] = q[l]
    BY <1>1, <2>2
  <2>. QED BY <1>5, <2>3
<1>7. ASSUME NEW i \in DOMAIN w, i + 1 \in DOMAIN w PROVE Follows(w[i].mask, w[i + 1].mask)
  <2>1. /\ i + 1 \in DOMAIN q /\ (i + 1) + 1 \in DOMAIN q
        /\ w[i] = q[i + 1] /\ w[i + 1] = q[(i + 1) + 1]
    BY <1>1, <1>7
  <2>2. Follows(q[i + 1].mask, q[(i + 1) + 1].mask)
    BY <2>1 DEF PointerFlow
  <2>. QED BY <2>1, <2>2
<1>8. w # <<>> => Follows(q[1].mask, w[1].mask)
  <2>1. SUFFICES ASSUME w # <<>> PROVE Follows(q[1].mask, w[1].mask)
    OBVIOUS
  <2>2. 1 \in DOMAIN w /\ 1 + 1 \in DOMAIN q /\ w[1] = q[1 + 1]
    BY <1>1, <1>2, <2>1
  <2>. QED BY <1>1, <2>2 DEF PointerFlow
<1>9. w = <<>> => q[1].mask = A
  BY <1>2, <1>5
<1>10. CASE n.ulBtnFlags = {} /\ n.lastPtrButtons = {}
  BY <1>3, <1>4, <1>6, <1>7, <1>10 DEF PointerFlow, w
<1>11. CASE /\ n.ulBtnFlags = q[1].mask /\ n.lastPtrButtons = q[1].mask
            /\ Wheel \notin q[1].mask
  <2>1. w = <<>> => n.ulBtnFlags = A
    BY <1>9, <1>11
  <2>2. w # <<>> => Near(n.ulBtnFlags, w[1].mask \ {Wheel})
    <3>1. q[1].mask \ {Wheel} = q[1].mask
      BY <1>11
    <3>. QED BY <1>8, <1>11, <3>1 DEF Follows
  <2>3. PointerFlow(w, A, n)
    BY <1>4, <1>6, <1>7, <1>11, <2>1, <2>2 DEF PointerFlow
  <2>. QED BY <2>3 DEF w
<1>12. CASE /\ n.ulBtnFlags = k.ulBtnFlags /\ n.lastPtrButtons = q[1].mask
            /\ Wheel \in q[1].mask
  <2>1. w # <<>>
    BY <1>3, <1>9, <1>12
  <2>2. w[1].mask = q[1].mask \ {Wheel}
    BY <1>8, <1>12, <2>1 DEF Follows
  <2>3. n.ulBtnFlags = {} \/ Near(n.ulBtnFlags, w[1].mask \ {Wheel})
    <3>1. w[1].mask \ {Wheel} = q[1].mask \ {Wheel}
      BY <2>2
    <3>. QED BY <1>12, <3>1 DEF PointerFlow
  <2>4. PointerFlow(w, A, n)
    BY <1>4, <1>6, <1>7, <1>12, <2>1, <2>2, <2>3 DEF PointerFlow
  <2>. QED BY <2>4 DEF w
<1>. QED BY <1>10, <1>11, <1>12

\* The button _cbPtrEvent posts a message for is the one that changed.
Differ(F, M) == {i \in DOMAIN Buttons : (Buttons[i] \in M) # (Buttons[i] \in F)}
LastOf(D) == Buttons[CHOOSE i \in D : \A j \in D : j <= i]

LEMMA OneButton ==
  ASSUME NEW F \in SUBSET ToSet(Buttons), NEW M \in SUBSET ToSet(Buttons), F # M,
         NEW b, b = LastOf(Differ(F, M))
  PROVE  /\ b \in ToSet(Buttons)
         /\ Near(F, M) => IF b \in M THEN F \subseteq M ELSE F \ {b} \subseteq M
<1>. DEFINE differ == Differ(F, M)
<1>1. Len(Buttons) \in Nat /\ DOMAIN Buttons = 1 .. Len(Buttons)
  BY NamesAssumption
<1>2. differ # {}
  <2>1. PICK y \in ToSet(Buttons) : (y \in M) # (y \in F)
    OBVIOUS
  <2>2. PICK i \in DOMAIN Buttons : Buttons[i] = y
    BY DEF ToSet
  <2>. QED BY <2>1, <2>2 DEF Differ
<1>3. \E i \in differ : \A j \in differ : j <= i
  <2>1. differ \in SUBSET (1 .. Len(Buttons))
    BY <1>1 DEF Differ
  <2>. QED BY <1>1, <1>2, <2>1, GreatestNumber
<1>4. \E i \in differ : b = Buttons[i]
  BY <1>3 DEF LastOf
<1>5. b \in ToSet(Buttons) /\ (b \in M) # (b \in F)
  BY <1>4 DEF ToSet, Differ
<1>6. ASSUME Near(F, M) PROVE IF b \in M THEN F \subseteq M ELSE F \ {b} \subseteq M
  <2>1. PICK y \in ToSet(Buttons) : F \ {y} = M \ {y}
    BY <1>6 DEF Near
  <2>2. y = b
    BY <1>5, <2>1
  <2>. QED BY <1>5, <2>1, <2>2
<1>. QED BY <1>5, <1>6

\* What _cbPtrEvent leaves of the record k and of the buttons of the system.
Posts(c, mask, k, n) ==
  /\ cl' = [cl EXCEPT ![c] = n] /\ n.abState = k.abState /\ n.lastPtrButtons = k.lastPtrButtons
  /\ n.ulBtnFlags = IF mask = k.ulBtnFlags \/ Wheel \in mask THEN k.ulBtnFlags ELSE mask
  /\ buttonsDown' \subseteq ToSet(Buttons)
  /\ k.ulBtnFlags = {} \/ Near(k.ulBtnFlags, mask \ {Wheel}) =>
       \A y \in buttonsDown' : y \in n.ulBtnFlags \/ y \in buttonsDown \ k.ulBtnFlags

LEMMA PtrEventPosts ==
  ASSUME NEW c, NEW mask \in Masks, NEW k \in Records, buttonsDown \subseteq ToSet(Buttons),
         PtrEvent(c, mask, k)
  PROVE  \E n \in Records : Posts(c, mask, k, n)
<1>1. CASE mask = k.ulBtnFlags \/ Wheel \in mask
  <2>1. cl' = [cl EXCEPT ![c] = k] /\ buttonsDown' = buttonsDown
    BY <1>1 DEF PtrEvent
  <2>2. Posts(c, mask, k, k)
    BY <1>1, <2>1 DEF Posts
  <2>. QED BY <2>2
<1>2. CASE ~(mask = k.ulBtnFlags \/ Wheel \in mask)
  <2>. DEFINE differ == {i \in DOMAIN Buttons : (Buttons[i] \in mask) # (Buttons[i] \in k.ulBtnFlags)}
              b == Buttons[CHOOSE i \in differ : \A j \in differ : j <= i]
              n == [k EXCEPT !.ulBtnFlags = mask]
  <2>1. /\ cl' = [cl EXCEPT ![c] = n]
        /\ buttonsDown' = IF b \in mask THEN buttonsDown \cup {b} ELSE buttonsDown \ {b}
    BY <1>2 DEF PtrEvent
  <2>2. /\ mask \in SUBSET ToSet(Buttons) /\ k.ulBtnFlags \in SUBSET ToSet(Buttons)
        /\ mask # k.ulBtnFlags /\ mask \ {Wheel} = mask
    BY <1>2 DEF Masks, Records
  <2>3. /\ n \in Records /\ n.abState = k.abState /\ n.lastPtrButtons = k.lastPtrButtons
        /\ n.ulBtnFlags = mask
    BY <2>2 DEF Records
  <2>. DEFINE F == k.ulBtnFlags
  <2>4. /\ b \in ToSet(Buttons)
        /\ Near(F, mask) => IF b \in mask THEN F \subseteq mask ELSE F \ {b} \subseteq mask
    <3>1. F \in SUBSET ToSet(Buttons) /\ F # mask
      BY <2>2
    <3>2. b = LastOf(Differ(F, mask))
      BY DEF LastOf, Differ
    <3>. HIDE DEF F, differ, b
    <3>. QED BY <2>2, <3>1, <3>2, OneButton
  <2>. HIDE DEF n, b
  <2>5. ASSUME F = {} \/ Near(F, mask), NEW y \in buttonsDown'
        PROVE  y \in mask \/ y \in buttonsDown \ F
    <3>1. CASE F = {}
      BY <2>1, <2>5, <3>1
    <3>2. CASE Near(F, mask)
      BY <2>1, <2>4, <2>5, <3>2
    <3>. QED BY <2>5, <3>1, <3>2
  <2>6. buttonsDown' \subseteq ToSet(Buttons)
    BY <2>1, <2>4
  <2>7. Posts(c, mask, k, n)
    BY <1>2, <2>1, <2>2, <2>3, <2>5, <2>6 DEF Posts
  <2>. QED BY <2>3, <2>7
<1>. QED BY <1>1, <1>2

\* The step when the server has taken a mask for n, the new record of c.
LEMMA MaskTaken ==
  ASSUME IInv, NEW c \in present, NEW n \in Records, Receive(c, "pointer"),
         scene.hands[c] = "mouse", cl' = [cl EXCEPT ![c] = n], n.abState = cl[c].abState,
         LET q == toServer[c] IN
           \/ n.ulBtnFlags = {} /\ n.lastPtrButtons = {}
           \/ n.ulBtnFlags = q[1].mask /\ n.lastPtrButtons = q[1].mask /\ Wheel \notin q[1].mask
           \/ n.ulBtnFlags = cl[c].ulBtnFlags /\ n.lastPtrButtons = q[1].mask /\ Wheel \in q[1].mask,
         pointerClient' \in Clients \cup {Nobody},
         pointerClient' # c \/ c \in scene.watchers => NoButtons(n),
         pointerClient' = pointerClient \/ pointerClient \in {Nobody, c},
         buttonsDown' \subseteq ToSet(Buttons),
         \A y \in buttonsDown' : y \in n.ulBtnFlags \/ y \in buttonsDown \ cl[c].ulBtnFlags,
         UNCHANGED <<scene, present, viewOnly, kb, ms, keysDown>>
  PROVE  IInv'
<1>. DEFINE q == toServer[c]
            A == ms[c].buttons
            k == cl[c]
<1>1. /\ c \in Clients /\ TypeOK /\ q \in Seq(Messages) /\ q # <<>>
      /\ toServer' \in [Clients -> Seq(Messages)] /\ toServer'[c] = Tail(q)
      /\ \A d \in Clients \ {c} : toServer'[d] = toServer[d]
  BY Received DEF IInv
<1>2. A \in SUBSET ToSet(Buttons) /\ PointerFlow(q, A, k)
  BY MouseFacts
<1>3. \/ n.ulBtnFlags = {} /\ n.lastPtrButtons = {}
      \/ n.ulBtnFlags = q[1].mask /\ n.lastPtrButtons = q[1].mask /\ Wheel \notin q[1].mask
      \/ n.ulBtnFlags = k.ulBtnFlags /\ n.lastPtrButtons = q[1].mask /\ Wheel \in q[1].mask
  OBVIOUS
<1>4. PointerFlow(Tail(q), A, n)
  <2>. HIDE DEF q, A, k
  <2>. QED BY <1>1, <1>2, <1>3, FlowTail
<1>5. cl' \in [Clients -> Records] /\ cl'[c] = n /\ \A d \in Clients \ {c} : cl'[d] = cl[d]
  BY <1>1 DEF TypeOK
<1>6. IF scene.hands[c] = "mouse" THEN PointerFlow(toServer'[c], ms[c].buttons, n)
      ELSE toServer'[c] = toServer[c] /\ NoButtons(n)
  BY <1>1, <1>4
<1>. QED BY <1>1, <1>5, <1>6, PointerStep

LEMMA KeepsPointerEvent ==
  ASSUME IInv, NEW c, PointerEvent(c)
  PROVE  IInv'
<1>. DEFINE q == toServer[c]
            mask == Head(toServer[c]).mask
            k == [cl[c] EXCEPT !.lastPtrButtons = mask]
<1>1. /\ Receive(c, "pointer") /\ UNCHANGED <<scene, present, viewOnly, kb, ms, keysDown>>
      /\ IF ~Mine(c) THEN UNCHANGED <<cl, pointerClient, buttonsDown>>
         ELSE /\ pointerClient' = IF mask = {} THEN Nobody ELSE c
              /\ IF c \in scene.watchers THEN UNCHANGED <<cl, buttonsDown>>
                 ELSE IF mask # cl[c].lastPtrButtons \/ ~scene.defer THEN PtrEvent(c, mask, k)
                 ELSE cl' = [cl EXCEPT ![c].deferred = TRUE] /\ UNCHANGED buttonsDown
  BY DEF PointerEvent
<1>2. /\ c \in present /\ c \in Clients /\ q \in Seq(Messages) /\ q # <<>>
      /\ q[1].t = "pointer" /\ Head(q) = q[1] /\ mask = q[1].mask
  BY <1>1, Received
<1>3. scene.hands[c] = "mouse"
  BY <1>2, HandOf
<1>4. mask \in Masks
  <2>1. q[1] \in Messages
    BY <1>2, TailFacts
  <2>. QED BY <1>2, <2>1 DEF Messages
<1>5. /\ TypeOK /\ cl \in [Clients -> Records] /\ cl[c] \in Records
      /\ PointerFlow(q, ms[c].buttons, cl[c])
      /\ buttonsDown \subseteq ToSet(Buttons) /\ pointerClient \in Clients \cup {Nobody}
      /\ cl[c].ulBtnFlags \subseteq ToSet(Buttons)
  BY <1>2, <1>3, MouseFacts DEF TypeOK, Records
<1>6. Wheel \notin ToSet(Buttons)
  BY NamesAssumption
<1>7. pointerClient # c \/ c \in scene.watchers => NoButtons(cl[c])
  BY <1>2 DEF IInv, MiceInv
<1>8. cl[c].ulBtnFlags = {} \/ Near(cl[c].ulBtnFlags, mask \ {Wheel})
  BY <1>2, <1>5 DEF PointerFlow
<1>9. cl = [cl EXCEPT ![c] = cl[c]]
  BY <1>5
<1>. HIDE DEF q, mask
<1>10. CASE ~Mine(c)
  <2>1. NoButtons(cl[c])
    BY <1>7, <1>10 DEF Mine
  <2>2. /\ cl' = [cl EXCEPT ![c] = cl[c]] /\ pointerClient' = pointerClient
        /\ buttonsDown' = buttonsDown
    BY <1>1, <1>9, <1>10
  <2>3. \A y \in buttonsDown' : y \in cl[c].ulBtnFlags \/ y \in buttonsDown \ cl[c].ulBtnFlags
    BY <2>2
  <2>4. cl[c].ulBtnFlags = {} /\ cl[c].lastPtrButtons = {}
    BY <2>1 DEF NoButtons
  <2>. QED BY <1>1, <1>2, <1>3, <1>5, <2>1, <2>2, <2>3, <2>4, MaskTaken
<1>11. CASE Mine(c)
  <2>1. /\ pointerClient' = (IF mask = {} THEN Nobody ELSE c)
        /\ pointerClient' \in Clients \cup {Nobody} /\ pointerClient \in {Nobody, c}
    BY <1>1, <1>2, <1>11 DEF Mine
  <2>2. CASE c \in scene.watchers
    <3>1. NoButtons(cl[c])
      BY <1>7, <2>2
    <3>2. cl' = [cl EXCEPT ![c] = cl[c]] /\ buttonsDown' = buttonsDown
      BY <1>1, <1>9, <1>11, <2>2
    <3>3. \A y \in buttonsDown' : y \in cl[c].ulBtnFlags \/ y \in buttonsDown \ cl[c].ulBtnFlags
      BY <3>2
    <3>4. cl[c].ulBtnFlags = {} /\ cl[c].lastPtrButtons = {}
      BY <3>1 DEF NoButtons
    <3>. QED BY <1>1, <1>2, <1>3, <1>5, <2>1, <3>1, <3>2, <3>3, <3>4, MaskTaken
  <2>3. CASE c \notin scene.watchers /\ (mask # cl[c].lastPtrButtons \/ ~scene.defer)
    <3>1. PtrEvent(c, mask, k)
      BY <1>1, <1>11, <2>3
    <3>2. /\ k \in Records /\ k.ulBtnFlags = cl[c].ulBtnFlags /\ k.lastPtrButtons = mask
          /\ k.abState = cl[c].abState
      BY <1>4, <1>5 DEF Records
    <3>. HIDE DEF k
    <3>3. PICK n \in Records : Posts(c, mask, k, n)
      BY <1>4, <1>5, <3>1, <3>2, PtrEventPosts
    <3>4. /\ cl' = [cl EXCEPT ![c] = n] /\ n.abState = cl[c].abState /\ n.lastPtrButtons = mask
          /\ n.ulBtnFlags = (IF mask = cl[c].ulBtnFlags \/ Wheel \in mask
                             THEN cl[c].ulBtnFlags ELSE mask)
          /\ buttonsDown' \subseteq ToSet(Buttons)
          /\ \A y \in buttonsDown' : y \in n.ulBtnFlags \/ y \in buttonsDown \ cl[c].ulBtnFlags
      BY <1>8, <3>2, <3>3 DEF Posts
    <3>5. \/ n.ulBtnFlags = {} /\ n.lastPtrButtons = {}
          \/ /\ n.ulBtnFlags = q[1].mask /\ n.lastPtrButtons = q[1].mask
             /\ Wheel \notin q[1].mask
          \/ /\ n.ulBtnFlags = cl[c].ulBtnFlags /\ n.lastPtrButtons = q[1].mask
             /\ Wheel \in q[1].mask
      BY <1>2, <3>4
    <3>6. pointerClient' # c \/ c \in scene.watchers => NoButtons(n)
      <4>1. SUFFICES ASSUME pointerClient' # c PROVE NoButtons(n)
        BY <2>3
      <4>2. mask = {}
        BY <2>1, <4>1
      <4>. QED BY <3>4, <4>2 DEF NoButtons
    <3>. QED BY <1>1, <1>2, <1>3, <2>1, <3>4, <3>5, <3>6, MaskTaken DEF q
  <2>4. CASE c \notin scene.watchers /\ ~(mask # cl[c].lastPtrButtons \/ ~scene.defer)
    <3>. DEFINE n == [cl[c] EXCEPT !.deferred = TRUE]
    <3>1. cl' = [cl EXCEPT ![c] = n] /\ buttonsDown' = buttonsDown
      BY <1>1, <1>11, <2>4
    <3>2. /\ n \in Records /\ n.ulBtnFlags = cl[c].ulBtnFlags
          /\ n.lastPtrButtons = cl[c].lastPtrButtons /\ n.abState = cl[c].abState
      BY <1>5 DEF Records
    <3>. HIDE DEF n
    <3>3. mask = cl[c].lastPtrButtons
      BY <2>4
    <3>4. Wheel \notin mask /\ cl[c].ulBtnFlags = mask
      BY <1>2, <1>5, <3>3 DEF PointerFlow
    <3>5. n.ulBtnFlags = q[1].mask /\ n.lastPtrButtons = q[1].mask /\ Wheel \notin q[1].mask
      BY <1>2, <3>2, <3>3, <3>4
    <3>6. pointerClient' # c \/ c \in scene.watchers => NoButtons(n)
      <4>1. SUFFICES ASSUME pointerClient' # c PROVE NoButtons(n)
        BY <2>4
      <4>2. mask = {}
        BY <2>1, <4>1
      <4>. QED BY <3>2, <3>3, <3>4, <4>2 DEF NoButtons
    <3>7. \A y \in buttonsDown' : y \in n.ulBtnFlags \/ y \in buttonsDown \ cl[c].ulBtnFlags
      BY <3>1, <3>2
    <3>. QED BY <1>1, <1>2, <1>3, <1>5, <2>1, <3>1, <3>2, <3>5, <3>6, <3>7, MaskTaken DEF q
  <2>. QED BY <2>2, <2>3, <2>4
<1>. QED BY <1>10, <1>11

LEMMA KeepsUpdatePointer ==
  ASSUME IInv, NEW c, UpdatePointer(c)
  PROVE  IInv'
<1>. DEFINE k == [cl[c] EXCEPT !.deferred = FALSE]
            last == cl[c].lastPtrButtons
<1>1. /\ c \in present /\ PtrEvent(c, last, k)
      /\ UNCHANGED <<scene, present, viewOnly, kb, ms, toServer, pointerClient, keysDown>>
  BY DEF UpdatePointer
<1>2. /\ c \in Clients /\ TypeOK /\ cl \in [Clients -> Records] /\ cl[c] \in Records
      /\ toServer \in [Clients -> Seq(Messages)] /\ pointerClient \in Clients \cup {Nobody}
      /\ buttonsDown \subseteq ToSet(Buttons)
  BY <1>1 DEF IInv, TypeOK
<1>3. /\ k \in Records /\ k.ulBtnFlags = cl[c].ulBtnFlags /\ k.lastPtrButtons = last
      /\ k.abState = cl[c].abState
  BY <1>2 DEF Records
<1>4. last = cl[c].ulBtnFlags \/ Wheel \in last
  BY <1>1 DEF IInv, MiceInv, PointerFlow, NoButtons
<1>. HIDE DEF k
<1>5. cl' = [cl EXCEPT ![c] = k] /\ buttonsDown' = buttonsDown
  BY <1>1, <1>3, <1>4 DEF PtrEvent
<1>6. cl' \in [Clients -> Records] /\ cl'[c] = k /\ \A d \in Clients \ {c} : cl'[d] = cl[d]
  BY <1>2, <1>3, <1>5
<1>7. IF scene.hands[c] = "mouse" THEN PointerFlow(toServer'[c], ms[c].buttons, k)
      ELSE toServer'[c] = toServer[c] /\ NoButtons(k)
  <2>1. IF scene.hands[c] = "mouse" THEN PointerFlow(toServer[c], ms[c].buttons, cl[c])
        ELSE NoButtons(cl[c])
    BY <1>1 DEF IInv, MiceInv
  <2>. QED BY <1>1, <1>3, <2>1 DEF PointerFlow, NoButtons
<1>8. pointerClient' # c \/ c \in scene.watchers => NoButtons(k)
  BY <1>1, <1>3 DEF IInv, MiceInv, NoButtons
<1>9. /\ toServer' \in [Clients -> Seq(Messages)]
      /\ \A d \in Clients \ {c} : toServer'[d] = toServer[d]
      /\ pointerClient' \in Clients \cup {Nobody} /\ pointerClient' = pointerClient
      /\ buttonsDown' \subseteq ToSet(Buttons)
      /\ \A y \in buttonsDown' : y \in k.ulBtnFlags \/ y \in buttonsDown \ cl[c].ulBtnFlags
      /\ UNCHANGED <<scene, present, viewOnly, kb, ms, keysDown>>
  BY <1>1, <1>2, <1>3, <1>5
<1>. QED BY <1>1, <1>3, <1>6, <1>7, <1>8, <1>9, PointerStep

LEMMA KeepsGone ==
  ASSUME IInv, NEW c, Gone(c)
  PROVE  IInv'
<1>1. /\ c \in present /\ present' = present \ {c}
      /\ pointerClient' = (IF pointerClient = c THEN Nobody ELSE pointerClient)
      /\ toServer' = [toServer EXCEPT ![c] = <<>>]
      /\ UNCHANGED <<scene, viewOnly, kb, ms, cl, keysDown, buttonsDown>>
  BY DEF Gone
<1>2. TypeOK /\ present \subseteq Clients /\ toServer \in [Clients -> Seq(Messages)]
  BY DEF IInv, TypeOK
<1>3. toServer' \in [Clients -> Seq(Messages)] /\ \A d \in Clients \ {c} : toServer'[d] = toServer[d]
  BY <1>1, <1>2
<1>4. TypeOK'
  BY <1>1, <1>2, <1>3 DEF TypeOK
<1>5. \A d \in present' : d \in present /\ d # c /\ toServer'[d] = toServer[d]
  BY <1>1, <1>2, <1>3
<1>6. KeysInv'
  BY <1>1, <1>5 DEF IInv, KeysInv
<1>7. MiceInv'
  <2>1. \A d \in present' : pointerClient' # d \/ d \in scene.watchers => NoButtons(cl[d])
    BY <1>1, <1>5 DEF IInv, MiceInv
  <2>2. ASSUME NEW d \in present'
        PROVE  IF scene.hands[d] = "mouse"
               THEN kb[d].at = "null" /\ PointerFlow(toServer'[d], ms[d].buttons, cl[d])
               ELSE (\A i \in DOMAIN toServer'[d] : toServer'[d][i].t = "key") /\ NoButtons(cl[d])
    BY <1>5 DEF IInv, MiceInv
  <2>. QED BY <1>1, <2>1, <2>2 DEF IInv, MiceInv
<1>. QED BY <1>4, <1>6, <1>7 DEF IInv

-----------------------------------------------------------------------------
(* The theorems. *)

LEMMA InitIInv ==
  ASSUME Init
  PROVE  IInv
<1>1. /\ scene \in Scenes /\ scene.watchers \subseteq Clients
      /\ present = Clients /\ viewOnly = [c \in Clients |-> FALSE]
      /\ kb = [c \in Clients |-> NoKeys] /\ ms = [c \in Clients |-> NoMouse]
      /\ toServer = [c \in Clients |-> <<>>] /\ cl = [c \in Clients |-> NoClient]
      /\ pointerClient = Nobody /\ keysDown = {} /\ buttonsDown = {}
  BY ScenesAssumption DEF Init
<1>2. NoKeys \in Keyboards
  <2>. DEFINE p == <<>>
  <2>1. /\ p \in Seq([key : Keys, symbol : DOMAIN Scan]) /\ p \in Seq(Strokes)
        /\ NoKeys = [held |-> {}, active |-> FALSE, pressed |-> p, seq |-> p, at |-> "null"]
    BY DEF NoKeys
  <2>. HIDE DEF p
  <2>. QED BY <2>1 DEF Keyboards
<1>3. NoMouse \in Mice
  <2>. DEFINE l == Moved
  <2>1. /\ l \in (ToSet(Buttons) \X BOOLEAN) \cup {Moved, <<Wheel, TRUE>>}
        /\ NoMouse = [down |-> {}, over |-> FALSE, other |-> FALSE, lMouseButtonsDown |-> 0,
                      last |-> l, same |-> FALSE, buttons |-> {}]
    BY DEF NoMouse
  <2>2. 0 \in 0 .. Len(Buttons)
    BY NamesAssumption
  <2>. HIDE DEF l
  <2>. QED BY <2>1, <2>2 DEF Mice
<1>4. NoClient \in Records
  BY DEF NoClient, Records, Masks
<1>5. \A c \in Clients : Len(kb[c].pressed) <= Slots
                         /\ IsInjective([i \in DOMAIN kb[c].pressed |-> kb[c].pressed[i].key])
  <2>1. Len(NoKeys.pressed) = 0 /\ NoKeys.pressed = <<>>
    BY DEF NoKeys
  <2>2. IsInjective([i \in DOMAIN NoKeys.pressed |-> NoKeys.pressed[i].key])
    BY <2>1 DEF IsInjective
  <2>. QED BY <1>1, <2>1, <2>2, KeysAssumption
<1>6. toServer \in [Clients -> Seq(Messages)]
  <2>1. <<>> \in Seq(Messages)
    OBVIOUS
  <2>. QED BY <1>1, <2>1
<1>7. TypeOK
  BY <1>1, <1>2, <1>3, <1>4, <1>5, <1>6 DEF TypeOK
<1>8. KeysInv
  <2>1. KeyboardInv(NoKeys, FALSE)
    <3>1. IsFiniteSet({}) /\ Cardinality({}) = 0
      BY FS_EmptySet
    <3>. QED BY <3>1, KeysAssumption DEF KeyboardInv, NoKeys, Releases
  <2>2. KeyFlow({}, <<>>, NoKeys, FALSE)
    BY DEF KeyFlow, After, EndsDown
  <2>3. NoClient.abState = {}
    BY DEF NoClient
  <2>. QED BY <1>1, <2>1, <2>2, <2>3 DEF KeysInv
<1>9. MiceInv
  <2>1. MouseInv(NoMouse, FALSE)
    <3>1. Cardinality({}) = 0
      BY FS_EmptySet
    <3>2. \A b \in ToSet(Buttons) : Moved # <<b, TRUE>> /\ Moved # <<b, FALSE>>
      <4>1. Moved[1] \notin ToSet(Buttons)
        BY NamesAssumption
      <4>. QED BY <4>1 DEF Moved
    <3>. QED BY <3>1, <3>2 DEF MouseInv, NoMouse
  <2>2. PointerFlow(<<>>, {}, NoClient)
    BY DEF PointerFlow, NoClient
  <2>3. NoButtons(NoClient) /\ NoMouse.buttons = {} /\ NoKeys.at = "null"
    BY DEF NoButtons, NoClient, NoMouse, NoKeys
  <2>4. ASSUME NEW c \in Clients
        PROVE  IF scene.hands[c] = "mouse"
               THEN kb[c].at = "null" /\ PointerFlow(toServer[c], ms[c].buttons, cl[c])
               ELSE (\A i \in DOMAIN toServer[c] : toServer[c][i].t = "key") /\ NoButtons(cl[c])
    <3>1. /\ kb[c] = NoKeys /\ ms[c] = NoMouse /\ toServer[c] = <<>> /\ cl[c] = NoClient
      BY <1>1
    <3>3. PointerFlow(toServer[c], ms[c].buttons, cl[c])
      BY <2>2, <2>3, <3>1
    <3>4. \A i \in DOMAIN toServer[c] : toServer[c][i].t = "key"
      BY <3>1
    <3>. QED BY <2>3, <3>1, <3>3, <3>4
  <2>. QED BY <1>1, <2>1, <2>3, <2>4 DEF MiceInv
<1>. QED BY <1>7, <1>8, <1>9 DEF IInv

LEMMA StutterIInv ==
  ASSUME IInv, UNCHANGED vars
  PROVE  IInv'
<1>1. TypeOK'
  BY DEF IInv, TypeOK, vars, serverVars
<1>2. KeysInv'
  BY DEF IInv, KeysInv, vars, serverVars
<1>3. MiceInv'
  BY DEF IInv, MiceInv, vars, serverVars
<1>. QED BY <1>1, <1>2, <1>3 DEF IInv

LEMMA NextIInv ==
  ASSUME IInv, NEW c \in Clients, UserStep(c) \/ ThreadStep(c) \/ ServerStep(c)
  PROVE  IInv'
<1>1. ASSUME NEW k \in Keys, KeyPress(c, k) \/ KeyRepeat(c, k) \/ KeyRelease(c, k) PROVE IInv'
  <2>1. c \in present
    BY <1>1 DEF KeyPress, KeyRepeat, KeyRelease, Acts
  <2>. QED BY <1>1, <2>1, KeepsKeyPress, KeepsKeyRepeat, KeepsKeyRelease
<1>2. CASE Activate(c) \/ Deactivate(c)
  <2>1. c \in present
    BY <1>2 DEF Activate, Deactivate, Acts
  <2>. QED BY <1>2, <2>1, KeepsActivate, KeepsDeactivate
<1>3. ASSUME NEW s \in Sequences, SendKeySequence(c, s) PROVE IInv'
  <2>1. c \in present
    BY <1>3 DEF SendKeySequence, Acts
  <2>. QED BY <1>3, <2>1, KeepsSendKeySequence
<1>4. ASSUME NEW b \in ToSet(Buttons), ButtonDown(c, b) \/ ButtonUp(c, b) PROVE IInv'
  <2>1. c \in present
    BY <1>4 DEF ButtonDown, ButtonUp, Acts
  <2>. QED BY <1>4, <2>1, KeepsButtonDown, KeepsButtonUp
<1>5. ASSUME NEW over \in BOOLEAN, Move(c, over) PROVE IInv'
  <2>1. c \in present
    BY <1>5 DEF Move, Acts
  <2>. QED BY <1>5, <2>1, KeepsMove
<1>6. CASE TurnWheel(c) \/ ToggleViewOnly(c)
  <2>1. c \in present
    BY <1>6 DEF TurnWheel, ToggleViewOnly, Acts
  <2>. QED BY <1>6, <2>1, KeepsTurnWheel, KeepsToggleViewOnly
<1>7. CASE ThreadStep(c)
  <2>1. c \in present
    BY <1>7 DEF ThreadStep, SequenceKey, SequenceEnd, SequenceFree
  <2>. QED BY <1>7, <2>1, KeepsSequenceKey, KeepsSequenceEnd, KeepsSequenceFree DEF ThreadStep
<1>8. CASE ServerStep(c)
  BY <1>8, KeepsKeyEvent, KeepsPointerEvent, KeepsUpdatePointer, KeepsGone DEF ServerStep
<1>. QED
  BY <1>1, <1>2, <1>3, <1>4, <1>5, <1>6, <1>7, <1>8 DEF UserStep

\* The messages under way, the slots of aKeysPressed, the flags of the mouse and
\* what the server keeps of each client agree with each other at every moment
\* (_clntwndProc, ccSendKeyEvent, ccSendMouseEvent, _cbKeyEvent, _cbPtrEvent).
THEOREM InputInvariant == Spec => []IInv
<1>1. Init => IInv
  BY InitIInv
<1>2. IInv /\ [Next]_vars => IInv'
  <2>. SUFFICES ASSUME IInv, [Next]_vars PROVE IInv'
    OBVIOUS
  <2>1. CASE Next
    <3>1. PICK c \in Clients : UserStep(c) \/ ThreadStep(c) \/ ServerStep(c)
      BY <2>1 DEF Next
    <3>. QED BY <3>1, NextIInv
  <2>2. CASE UNCHANGED vars
    BY <2>2, StutterIInv
  <2>. QED BY <2>1, <2>2
<1>. QED BY <1>1, <1>2, PTL DEF Spec

\* aKeysPressed never holds a key twice nor more keys than it has room for, and
\* lMouseButtonsDown counts no more buttons than the mouse has.
THEOREM InputTyped == Spec => []TypeOK
<1>1. IInv => TypeOK
  BY DEF IInv
<1>. QED BY <1>1, InputInvariant, PTL

LEMMA ReleasedWhenQuiet ==
  ASSUME IInv
  PROVE  KeysReleased
<1>1. ASSUME NEW c \in Clients, Quiet(c), NEW x \in cl[c].abState
      PROVE  \E r \in ToSet(kb[c].pressed) : Scan[r.symbol] = x
  <2>1. c \in present /\ toServer[c] = <<>> /\ kb[c].at = "null"
    BY <1>1 DEF Quiet
  <2>2. x \in Scans
    BY <1>1 DEF IInv, TypeOK, Records
  <2>3. After(cl[c].abState, toServer[c], x)
    BY <1>1, <2>1 DEF After, Silent
  <2>4. Taken(kb[c].pressed, x) \/ ToCome(kb[c].at, kb[c].seq, x)
    BY <2>1, <2>2, <2>3 DEF IInv, KeysInv, KeyFlow
  <2>. QED BY <2>1, <2>4 DEF Taken, ToCome
<1>2. ASSUME NEW c \in Clients, kb[c].active
      PROVE  \A r \in ToSet(kb[c].pressed) : r.key \in kb[c].held
  BY <1>2 DEF IInv, KeysInv, KeyboardInv
<1>. QED BY <1>1, <1>2 DEF IInv, KeysInv, KeysReleased

\* When all has arrived no key is down at the server, nor in its system, that
\* the viewer does not take for pressed: releases are sent for keys that came
\* up while the window was inactive (xkKeysymFromMPCheck), with the symbol the
\* key was pressed with (xkKeysymFromMP), and ccSendKeySequence leaves none.
THEOREM KeysComeUp == Spec => []KeysReleased
<1>1. IInv => KeysReleased
  BY ReleasedWhenQuiet
<1>. QED BY <1>1, InputInvariant, PTL

LEMMA OwnedByOne ==
  ASSUME IInv
  PROVE  DragOwned
<1>1. ASSUME NEW c \in present, cl[c].ulBtnFlags # {} PROVE pointerClient = c
  BY <1>1 DEF IInv, MiceInv, NoButtons
<1>2. buttonsDown \subseteq UNION {cl[c].ulBtnFlags : c \in Clients}
  BY DEF IInv, MiceInv
<1>3. ASSUME NEW c \in Clients, Quiet(c)
      PROVE  cl[c].ulBtnFlags \subseteq ms[c].buttons /\ ms[c].buttons \subseteq ms[c].down
  <2>1. c \in present /\ toServer[c] = <<>>
    BY <1>3 DEF Quiet
  <2>2. cl[c].ulBtnFlags \subseteq ms[c].buttons
    BY <2>1 DEF IInv, MiceInv, PointerFlow, NoButtons
  <2>3. ms[c].buttons \subseteq ms[c].down
    BY DEF IInv, MiceInv, MouseInv
  <2>. QED BY <2>2, <2>3
<1>. QED BY <1>1, <1>2, <1>3 DEF DragOwned

\* While a client has a button down the pointer is its own (rfbPointerEvent),
\* every button that is down in the system is down for a client (_cbPtrEvent),
\* and none stays down that the user of a viewer has let go (_wmMouse).
THEOREM DragsOwn == Spec => []DragOwned
<1>1. IInv => DragOwned
  BY OwnedByOne
<1>. QED BY <1>1, InputInvariant, PTL

==============================================================================
