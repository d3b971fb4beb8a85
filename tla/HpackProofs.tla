----------------------------- MODULE HpackProofs -----------------------------
(***************************************************************************)
(* Proofs about the HPACK tables of module Hpack.                          *)
(***************************************************************************)
EXTENDS Hpack, WellFoundedInduction, TLAPS

-----------------------------------------------------------------------------
(* Induction, and the loops that the model writes as recursive functions.  *)

\* A set of naturals that is not empty has a least element.
LEMMA LeastNat ==
  ASSUME NEW T \in SUBSET Nat, T # {}
  PROVE  \E x \in T : \A y \in T : x <= y
<1> DEFINE R == OpToRel(<, Nat)
<1>1. IsWellFoundedOn(R, Nat)
  BY NatLessThanWellFounded, Zenon
<1>2. \A x, y \in Nat : y < x => <<y, x>> \in R
  BY DEF OpToRel
<1> HIDE DEF R
<1>3. PICK x \in T : \A y \in T : ~ (<<y, x>> \in R)
  BY <1>1, WFMin
<1>4. \A y \in T : ~(y < x)
  BY <1>2, <1>3
<1>5. \A y \in T : x <= y
  BY <1>4
<1> QED
  BY <1>5

\* Induction over the turns of a loop.
LEMMA LoopInduction ==
  ASSUME NEW N \in Nat, NEW T, 0 \in T, \A n \in 0..(N - 1) : n \in T => n + 1 \in T
  PROVE  \A n \in 0..N : n \in T
<1> DEFINE U == {n \in 0..N : n \notin T}
<1> SUFFICES ASSUME U # {} PROVE FALSE
  OBVIOUS
<1>1. U \in SUBSET Nat
  OBVIOUS
<1>2. PICK x \in U : \A y \in U : x <= y
  BY <1>1, LeastNat
<1>3. x \in 0..N /\ x \notin T /\ x # 0
  BY <1>2
<1>4. x - 1 \in 0..(N - 1) /\ x - 1 \in 0..N /\ (x - 1) + 1 = x /\ ~(x <= x - 1)
  BY <1>3
<1>5. x - 1 \in T
  BY <1>2, <1>4
<1> QED
  BY <1>3, <1>4, <1>5

\* A loop of N turns from a, where F[n][x] is what turn n makes of x, stays in
\* S; f is the recursive function of its values.
LoopStays(N, S, a, F) == N \in Nat /\ a \in S /\ \A n \in 1..N : \A x \in S : F[n][x] \in S
IsLoop(f, N, S, a, F) ==
    f \in [0..N -> S] /\ f = [n \in 0..N |-> IF n = 0 THEN a ELSE F[n][f[n - 1]]]

\* The recursive function of a loop exists.
LEMMA LoopExists ==
  ASSUME NEW N, NEW S, NEW a, NEW F, LoopStays(N, S, a, F)
  PROVE  \E f : IsLoop(f, N, S, a, F)
<1> USE DEF LoopStays
<1> DEFINE Upto(g, k) == g \in [0..k -> S] /\ g[0] = a /\ \A i \in 1..k : g[i] = F[i][g[i - 1]]
           T == {k \in 0..N : \E g : Upto(g, k)}
<1>1. 0 \in T
  <2>1. Upto([i \in 0..0 |-> a], 0)
    OBVIOUS
  <2>2. \E g : Upto(g, 0)
    BY <2>1
  <2> HIDE DEF Upto
  <2> QED
    BY <2>2
<1>2. ASSUME NEW k \in 0..(N - 1), k \in T PROVE k + 1 \in T
  <2>1. k \in Nat /\ k + 1 \in 1..N /\ k + 1 \in 0..N
    OBVIOUS
  <2>2. PICK g : Upto(g, k)
    BY <1>2
  <2> DEFINE h == [i \in 0..(k + 1) |-> IF i <= k THEN g[i] ELSE F[k + 1][g[k]]]
  <2>3. F[k + 1][g[k]] \in S
    BY <2>1, <2>2
  <2>4. h \in [0..(k + 1) -> S]
    BY <2>1, <2>2, <2>3
  <2>5. h[0] = a
    BY <2>1, <2>2
  <2>6. ASSUME NEW i \in 1..(k + 1) PROVE h[i] = F[i][h[i - 1]]
    <3>1. i - 1 \in 0..k /\ i - 1 \in 0..(k + 1) /\ i - 1 <= k /\ h[i - 1] = g[i - 1]
      BY <2>1
    <3>2. CASE i <= k
      BY <2>1, <2>2, <3>1, <3>2
    <3>3. CASE i = k + 1
      <4>1. ~(k + 1 <= k) /\ k + 1 \in 0..(k + 1) /\ i - 1 = k
        BY <2>1, <3>3
      <4> QED
        BY <3>1, <3>3, <4>1
    <3> QED
      BY <2>1, <3>2, <3>3
  <2>7. Upto(h, k + 1)
    <3> HIDE DEF h
    <3> QED
      BY <2>4, <2>5, <2>6
  <2>8. \E f : Upto(f, k + 1)
    BY <2>7
  <2> HIDE DEF Upto
  <2> QED
    BY <2>1, <2>8
<1>3. N \in T
  <2> HIDE DEF T
  <2>1. \A n \in 0..N : n \in T
    BY <1>1, <1>2, LoopInduction
  <2> QED
    BY <2>1
<1>4. PICK f : Upto(f, N)
  <2> HIDE DEF Upto
  <2> QED
    BY <1>3
<1>5. f = [n \in 0..N |-> f[n]] /\ \A n \in 0..N : f[n] = IF n = 0 THEN a ELSE F[n][f[n - 1]]
  BY <1>4
<1>6. f = [n \in 0..N |-> IF n = 0 THEN a ELSE F[n][f[n - 1]]]
  BY <1>5
<1> QED
  BY <1>4, <1>6 DEF IsLoop

\* The remainder, for the numbers the ring divides.
LEMMA RingModulo ==
  ASSUME NEW c \in Nat \ {0}, NEW a \in 0..(2 * c - 1)
  PROVE  a % c = IF a < c THEN a ELSE a - c
  OBVIOUS

-----------------------------------------------------------------------------
(* The ring.                                                               *)

\* The slots of a ring, for any capacity.
Stores == UNION {[Slots(c) -> Entry \cup {NULL}] : c \in Nat}
Tables == [entries : Stores, count : Nat, capacity : Nat, start : Nat, size : Int, max : Nat]

\* The slot of entry i, without the remainder.
Place(t, i) ==
    IF t.start + i < t.capacity THEN t.start + i ELSE t.start + i - t.capacity

\* A ring of the right shape: the used slots hold entries, the others none.
Ring(t) ==
    /\ t \in Tables
    /\ t.count <= t.capacity
    /\ t.start < t.capacity \/ (t.capacity = 0 /\ t.start = 0)
    /\ t.entries \in [Slots(t.capacity) -> Entry \cup {NULL}]
    /\ \A i \in 0..(t.count - 1) : t.entries[Place(t, i)] \in Entry
    /\ \A k \in Slots(t.capacity) :
          (\A i \in 0..(t.count - 1) : Place(t, i) # k) => t.entries[k] = NULL

\* Place is what the code computes with a remainder.
LEMMA PlaceIsModulo ==
  ASSUME NEW t \in Tables, t.start < t.capacity, NEW i \in 0..(t.capacity - 1)
  PROVE  /\ (t.start + i) % t.capacity = Place(t, i)
         /\ Place(t, i) \in Slots(t.capacity)
<1>1. PICK c \in Nat, s \in Nat : c = t.capacity /\ s = t.start
  BY DEF Tables
<1>2. c \in Nat \ {0} /\ s + i \in 0..(2 * c - 1)
  BY <1>1
<1>3. PICK a \in 0..(2 * c - 1) : a = s + i
  BY <1>2
<1>4. a % c = IF a < c THEN a ELSE a - c
  BY <1>2, RingModulo
<1> QED
  BY <1>1, <1>2, <1>3, <1>4 DEF Place, Slots

LEMMA AtIsPlace ==
  ASSUME NEW t, Ring(t), NEW i \in 0..(t.count - 1)
  PROVE  At(t, i) = t.entries[Place(t, i)] /\ At(t, i) \in Entry
<1>1. t \in Tables /\ t.count \in Nat /\ t.capacity \in Nat /\ t.count <= t.capacity
  BY DEF Ring, Tables
<1>2. t.start < t.capacity /\ i \in 0..(t.capacity - 1)
  BY <1>1 DEF Ring
<1> QED
  BY <1>1, <1>2, PlaceIsModulo DEF At, Ring

LEMMA EmptyTableIsRing ==
  ASSUME NEW max \in Nat
  PROVE  /\ Ring(EmptyTable(max))
         /\ EmptyTable(max).count = 0 /\ EmptyTable(max).size = 0
         /\ EmptyTable(max).max = max
<1> DEFINE e == [i \in {} |-> NULL]
<1>1. Slots(0) = {}
  BY DEF Slots
<1>2. e \in [Slots(0) -> Entry \cup {NULL}]
  BY <1>1
<1>3. e \in Stores
  BY <1>2 DEF Stores
<1> HIDE DEF e
<1>4. EmptyTable(max) = [entries |-> e, count |-> 0, capacity |-> 0, start |-> 0,
                         size |-> 0, max |-> max]
  BY DEF EmptyTable, e
<1>5. EmptyTable(max) \in Tables
  BY <1>3, <1>4 DEF Tables
<1>6. \A i \in 0..(0 - 1) : FALSE
  OBVIOUS
<1> QED
  BY <1>1, <1>2, <1>4, <1>5, <1>6 DEF Ring

\* A ring that is full is doubled and keeps its entries in their order.
LEMMA GrowFacts ==
  ASSUME NEW t, Ring(t), t.count >= t.capacity
  PROVE  LET g == Grow(t) IN
         /\ Ring(g)
         /\ g.count = t.count /\ g.count < g.capacity
         /\ g.max = t.max /\ g.size = t.size
         /\ \A i \in 0..(t.count - 1) : At(g, i) = At(t, i)
<1> DEFINE g == Grow(t)
<1>1. PICK c \in Nat, s \in Nat, n \in Nat, z \in Int, m \in Nat :
        c = t.capacity /\ s = t.start /\ n = t.count /\ z = t.size /\ m = t.max
  BY DEF Ring, Tables
<1>2. n = c /\ (s < c \/ (c = 0 /\ s = 0))
  BY <1>1 DEF Ring
<1> DEFINE d == IF c = 0 THEN StartSize ELSE c * 2
           Old == t.entries
           New == [i \in Slots(d) |->
                      CASE i \in s..(n - 1) -> Old[i]
                        [] i \in n..(n + s - 1) -> Old[i - n]
                        [] OTHER -> NULL]
<1>3. d \in Nat /\ d > c /\ d >= 2 * c
  BY StartAssumption
<1>4. g = [t EXCEPT !.capacity = d, !.entries = New]
  BY <1>1 DEF Grow, GrowthFactor
<1>5. Old \in [Slots(c) -> Entry \cup {NULL}]
  BY <1>1 DEF Ring
<1>6. /\ DOMAIN New = Slots(d)
      /\ \A i \in s..(n - 1) : i \in Slots(d) /\ i \in Slots(c) /\ New[i] = Old[i]
      /\ \A i \in n..(n + s - 1) : i \in Slots(d) /\ i - n \in Slots(c) /\ New[i] = Old[i - n]
      /\ \A i \in Slots(d) : i \notin s..(n + s - 1) => New[i] = NULL
  <2>1. \A i \in s..(n - 1) : i \in Slots(d) /\ i \in Slots(c)
    BY <1>2, <1>3 DEF Slots
  <2>2. \A i \in n..(n + s - 1) : i \in Slots(d) /\ i - n \in Slots(c) /\ i \notin s..(n - 1)
    BY <1>2, <1>3 DEF Slots
  <2>3. \A i \in Slots(d) : i \notin s..(n + s - 1) => i \notin s..(n - 1) /\ i \notin n..(n + s - 1)
    BY <1>2, <1>3 DEF Slots
  <2> HIDE DEF d
  <2>4. \A i \in Slots(d) : i \in s..(n - 1) => New[i] = Old[i]
    OBVIOUS
  <2>5. \A i \in Slots(d) : i \in n..(n + s - 1) /\ i \notin s..(n - 1) => New[i] = Old[i - n]
    OBVIOUS
  <2>6. \A i \in Slots(d) : i \notin s..(n - 1) /\ i \notin n..(n + s - 1) => New[i] = NULL
    OBVIOUS
  <2> HIDE DEF Old
  <2>7. DOMAIN New = Slots(d)
    OBVIOUS
  <2> HIDE DEF New
  <2> QED
    BY <2>1, <2>2, <2>3, <2>4, <2>5, <2>6, <2>7
<1>7. New \in [Slots(d) -> Entry \cup {NULL}]
  <2>1. \A i \in Slots(d) : New[i] \in Entry \cup {NULL}
    <3> HIDE DEF New, d, Old
    <3>1. \A i \in Slots(d) : i \in s..(n - 1) \/ i \in n..(n + s - 1) \/ i \notin s..(n + s - 1)
      BY <1>2, <1>3 DEF Slots
    <3> QED
      BY <1>5, <1>6, <3>1
  <2>2. New = [i \in Slots(d) |-> New[i]]
    OBVIOUS
  <2> HIDE DEF New, d
  <2> QED
    BY <2>1, <2>2
<1>8. New \in Stores
  <2> HIDE DEF New, d
  <2> QED
    BY <1>3, <1>7 DEF Stores
<1> HIDE DEF New, d, Old, g
<1>9. /\ g \in Tables /\ g.capacity = d /\ g.entries = New /\ g.start = s /\ g.count = n
      /\ g.size = z /\ g.max = m
  BY <1>1, <1>3, <1>4, <1>8 DEF Ring, Tables
<1>10. ASSUME NEW i \in 0..(n - 1)
       PROVE  New[Place(g, i)] = Old[Place(t, i)] /\ Old[Place(t, i)] \in Entry
  <2>1. Place(g, i) = s + i
    BY <1>2, <1>3, <1>9 DEF Place
  <2>2. Place(t, i) = IF s + i < c THEN s + i ELSE s + i - c
    BY <1>1 DEF Place
  <2>3. Old[Place(t, i)] \in Entry
    BY <1>1 DEF Ring, Old
  <2>4. CASE s + i < c
    <3>1. s + i \in s..(n - 1)
      BY <1>2, <2>4
    <3> QED
      BY <1>6, <2>1, <2>2, <2>3, <2>4, <3>1
  <2>5. CASE ~(s + i < c)
    <3>1. s + i \in n..(n + s - 1) /\ (s + i) - n = s + i - c
      BY <1>2, <2>5
    <3> QED
      BY <1>6, <2>1, <2>2, <2>3, <2>5, <3>1
  <2> QED
    BY <2>4, <2>5
<1>11. ASSUME NEW k \in Slots(d), \A i \in 0..(n - 1) : Place(g, i) # k
       PROVE  New[k] = NULL
  <2>1. k \notin s..(n + s - 1)
    <3> SUFFICES ASSUME k \in s..(n + s - 1) PROVE FALSE
      OBVIOUS
    <3>1. k - s \in 0..(n - 1) /\ s + (k - s) = k
      BY <1>2
    <3>2. Place(g, k - s) = k
      BY <1>2, <1>3, <1>9, <3>1 DEF Place
    <3> QED
      BY <1>11, <3>1, <3>2
  <2> QED
    BY <1>6, <2>1
<1>12. Ring(g)
  BY <1>2, <1>3, <1>7, <1>9, <1>10, <1>11 DEF Ring
<1>13. ASSUME NEW i \in 0..(n - 1) PROVE At(g, i) = At(t, i)
  BY <1>1, <1>9, <1>10, <1>12, AtIsPlace DEF Old
<1> QED
  BY <1>1, <1>2, <1>3, <1>9, <1>12, <1>13 DEF g

\* The new entry goes in front of the others, which stay in their order.
LEMMA InsertAtStartFacts ==
  ASSUME NEW t, Ring(t), NEW e \in Entry
  PROVE  LET u == InsertAtStart(t, e) IN
         /\ Ring(u)
         /\ u.count = t.count + 1 /\ u.max = t.max /\ u.size = t.size
         /\ At(u, 0) = e
         /\ \A i \in 0..(t.count - 1) : At(u, i + 1) = At(t, i)
<1> DEFINE room == IF t.count >= t.capacity THEN Grow(t) ELSE t
           u == InsertAtStart(t, e)
<1>1. t.count \in Nat /\ t.capacity \in Nat
  BY DEF Ring, Tables
<1>2. /\ Ring(room)
      /\ room.count = t.count /\ room.count < room.capacity
      /\ room.max = t.max /\ room.size = t.size
      /\ \A i \in 0..(t.count - 1) : At(room, i) = At(t, i)
  <2>1. CASE t.count >= t.capacity
    BY <2>1, GrowFacts
  <2>2. CASE ~(t.count >= t.capacity)
    BY <1>1, <2>2
  <2> QED
    BY <2>1, <2>2
<1>3. u = [room EXCEPT !.start = (room.start + room.capacity - 1) % room.capacity,
                       !.entries[(room.start + room.capacity - 1) % room.capacity] = e,
                       !.count = @ + 1]
  BY DEF InsertAtStart
<1> HIDE DEF room, u
<1>4. PICK c \in Nat, s \in Nat, n \in Nat, z \in Int, m \in Nat :
        c = room.capacity /\ s = room.start /\ n = room.count /\ z = room.size /\ m = room.max
  BY <1>2 DEF Ring, Tables
<1>5. n < c /\ s < c
  BY <1>2, <1>4 DEF Ring
<1>6. PICK f \in Slots(c) : f = (s + c - 1) % c /\ f = IF s = 0 THEN c - 1 ELSE s - 1
  <2>1. PICK a \in 0..(2 * c - 1) : a = s + c - 1
    BY <1>5
  <2>2. c \in Nat \ {0}
    BY <1>5
  <2>3. a % c = IF a < c THEN a ELSE a - c
    BY <2>2, RingModulo
  <2> QED
    BY <1>5, <2>1, <2>3 DEF Slots
<1> DEFINE Old == room.entries
           New == [room.entries EXCEPT ![f] = e]
<1>7. Old \in [Slots(c) -> Entry \cup {NULL}]
  BY <1>2, <1>4 DEF Ring
<1>8. New \in [Slots(c) -> Entry \cup {NULL}] /\ New \in Stores
  <2>1. New \in [Slots(c) -> Entry \cup {NULL}]
    BY <1>6, <1>7
  <2> HIDE DEF New
  <2> QED
    BY <2>1 DEF Stores
<1>9. New[f] = e /\ \A k \in Slots(c) : k # f => New[k] = Old[k]
  BY <1>6, <1>7
<1>10. u = [room EXCEPT !.start = f, !.entries = New, !.count = n + 1]
  BY <1>2, <1>3, <1>4, <1>6 DEF Ring, Tables
<1> HIDE DEF Old, New
<1>11. /\ u \in Tables /\ u.capacity = c /\ u.start = f /\ u.count = n + 1 /\ u.entries = New
       /\ u.size = z /\ u.max = m
  <2>1. room \in Tables /\ f \in Nat /\ n + 1 \in Nat
    BY <1>2, <1>6 DEF Ring, Slots
  <2> QED
    BY <1>4, <1>8, <1>10, <2>1 DEF Tables
<1>12. Place(u, 0) = f
  BY <1>6, <1>11 DEF Place, Slots
<1>13. ASSUME NEW i \in 0..(n - 1)
       PROVE  /\ Place(u, i + 1) = Place(room, i)
              /\ Place(room, i) \in Slots(c) /\ Place(room, i) # f
  <2>1. Place(room, i) = IF s + i < c THEN s + i ELSE s + i - c
    BY <1>4 DEF Place
  <2>2. Place(u, i + 1) = IF f + (i + 1) < c THEN f + (i + 1) ELSE f + (i + 1) - c
    BY <1>11 DEF Place
  <2>3. CASE s = 0
    BY <1>5, <1>6, <2>1, <2>2, <2>3 DEF Slots
  <2>4. CASE s # 0
    BY <1>5, <1>6, <2>1, <2>2, <2>4 DEF Slots
  <2> QED
    BY <2>3, <2>4
<1>14. ASSUME NEW i \in 0..(n - 1)
       PROVE  New[Place(u, i + 1)] = Old[Place(room, i)] /\ Old[Place(room, i)] \in Entry
  <2>1. Old[Place(room, i)] \in Entry
    BY <1>2, <1>4 DEF Ring, Old
  <2> QED
    BY <1>9, <1>13, <2>1
<1>15. ASSUME NEW i \in 0..((n + 1) - 1) PROVE New[Place(u, i)] \in Entry
  <2>1. CASE i = 0
    BY <1>9, <1>12, <2>1
  <2>2. CASE i # 0
    <3>1. i - 1 \in 0..(n - 1) /\ (i - 1) + 1 = i
      BY <2>2
    <3>2. New[Place(u, (i - 1) + 1)] \in Entry
      BY <1>14, <3>1
    <3> QED
      BY <3>1, <3>2
  <2> QED
    BY <2>1, <2>2
<1>16. ASSUME NEW k \in Slots(c), \A i \in 0..((n + 1) - 1) : Place(u, i) # k
       PROVE  New[k] = NULL
  <2>1. k # f
    BY <1>12, <1>16
  <2>2. ASSUME NEW i \in 0..(n - 1) PROVE Place(room, i) # k
    <3>1. i + 1 \in 0..((n + 1) - 1)
      OBVIOUS
    <3> QED
      BY <1>13, <1>16, <3>1
  <2>3. Old[k] = NULL
    BY <1>2, <1>4, <2>2 DEF Ring, Old
  <2> QED
    BY <1>9, <2>1, <2>3
<1>17. f < c
  BY <1>6 DEF Slots
<1>18. Ring(u)
  BY <1>5, <1>8, <1>11, <1>15, <1>16, <1>17 DEF Ring
<1>19. At(u, 0) = e
  <2>1. 0 \in 0..(u.count - 1)
    BY <1>11
  <2> QED
    BY <1>9, <1>11, <1>12, <1>18, <2>1, AtIsPlace
<1>20. ASSUME NEW i \in 0..(n - 1) PROVE At(u, i + 1) = At(t, i)
  <2>1. i + 1 \in 0..(u.count - 1)
    BY <1>11
  <2>2. At(u, i + 1) = New[Place(u, i + 1)]
    BY <1>11, <1>18, <2>1, AtIsPlace
  <2>3. At(room, i) = Old[Place(room, i)]
    BY <1>2, <1>4, AtIsPlace DEF Old
  <2> QED
    BY <1>2, <1>4, <1>14, <2>2, <2>3
<1> QED
  BY <1>2, <1>4, <1>11, <1>18, <1>19, <1>20 DEF u

LEMMA MoveFacts ==
  ASSUME NEW c, NEW M \in [Slots(c) -> Entry \cup {NULL}],
         NEW from \in Slots(c), NEW to \in Slots(c), from # to
  PROVE  /\ Move(M, from, to) \in [Slots(c) -> Entry \cup {NULL}]
         /\ Move(M, from, to)[to] = M[from] /\ Move(M, from, to)[from] = NULL
         /\ \A k \in Slots(c) \ {from, to} : Move(M, from, to)[k] = M[k]
BY DEF Move

\* The last entry first: no target is a slot that is still to be moved, since
\* those in front of start are behind their targets.
LEMMA MoveFromEndFacts ==
  ASSUME NEW t, Ring(t), 0 < t.start, t.count <= t.start
  PROVE  /\ MoveFromEnd(t) \in [Slots(t.capacity) -> Entry \cup {NULL}]
         /\ \A k \in Slots(t.capacity) :
               MoveFromEnd(t)[k] = IF k < t.count THEN t.entries[Place(t, k)] ELSE NULL
<1>1. PICK c \in Nat, s \in Nat, N \in Nat : c = t.capacity /\ s = t.start /\ N = t.count
  BY DEF Ring, Tables
<1>2. 0 < s /\ N <= s /\ s < c /\ N <= c /\ t \in Tables
  BY <1>1 DEF Ring
<1> DEFINE Old == t.entries
           S == [Slots(c) -> Entry \cup {NULL}]
           P(k) == IF s + k < c THEN s + k ELSE s + k - c
           F == [n \in 1..N |-> [x \in S |->
                   Move(x, (t.start + t.count - n) % t.capacity, t.count - n)]]
<1>3. ASSUME NEW n \in 1..N
      PROVE  /\ (t.start + t.count - n) % t.capacity = P(N - n)
             /\ t.count - n = N - n
             /\ P(N - n) \in Slots(c) /\ N - n \in Slots(c) /\ P(N - n) # N - n
             /\ P(N - n) = Place(t, N - n)
  <2>1. N - n \in 0..(t.capacity - 1)
    BY <1>1, <1>2
  <2>2. Place(t, N - n) = P(N - n)
    BY <1>1 DEF Place
  <2>3. (t.start + (N - n)) % t.capacity = Place(t, N - n) /\ Place(t, N - n) \in Slots(t.capacity)
    BY <1>1, <1>2, <2>1, PlaceIsModulo
  <2>4. t.start + t.count - n = t.start + (N - n)
    BY <1>1
  <2>5. N - n \in Slots(c)
    BY <1>1, <2>1 DEF Slots
  <2>6. P(N - n) # N - n
    BY <1>2
  <2> HIDE DEF P
  <2> QED
    BY <1>1, <2>2, <2>3, <2>4, <2>5, <2>6
<1>4. Old \in S
  BY <1>1 DEF Ring
<1>5. ASSUME NEW n \in 1..N, NEW x \in S
      PROVE  /\ F[n][x] \in S
             /\ F[n][x] = Move(x, (t.start + t.count - n) % t.capacity, t.count - n)
             /\ F[n][x] = Move(x, P(N - n), N - n)
  <2>1. F[n][x] = Move(x, (t.start + t.count - n) % t.capacity, t.count - n)
    OBVIOUS
  <2> HIDE DEF F
  <2>2. F[n][x] = Move(x, P(N - n), N - n)
    <3> HIDE DEF P
    <3> QED
      BY <1>3, <2>1
  <2>3. Move(x, P(N - n), N - n) \in S
    <3> HIDE DEF P
    <3> QED
      BY <1>3, MoveFacts
  <2> QED
    BY <2>1, <2>2, <2>3
<1> HIDE DEF F
<1>6. PICK f \in [0..N -> S] : f = [n \in 0..N |-> IF n = 0 THEN Old ELSE F[n][f[n - 1]]]
  <2>1. LoopStays(N, S, Old, F)
    BY <1>4, <1>5 DEF LoopStays
  <2> HIDE DEF S, Old
  <2>2. \E f : IsLoop(f, N, S, Old, F)
    BY <2>1, LoopExists
  <2> QED
    BY <2>2 DEF IsLoop
<1> DEFINE Is(g) == g = [n \in 0..t.count |->
                          IF n = 0 THEN t.entries
                          ELSE Move(g[n - 1], (t.start + t.count - n) % t.capacity, t.count - n)]
<1>7. Is(f)
  <2>1. ASSUME NEW n \in 0..N
        PROVE  f[n] = IF n = 0 THEN t.entries
                      ELSE Move(f[n - 1], (t.start + t.count - n) % t.capacity, t.count - n)
    <3>1. CASE n = 0
      BY <1>6, <3>1
    <3>2. CASE n # 0
      <4>1. n \in 1..N /\ n - 1 \in 0..N
        BY <3>2
      <4>2. f[n] = F[n][f[n - 1]] /\ f[n - 1] \in S
        BY <1>6, <3>2, <4>1
      <4> HIDE DEF S
      <4> QED
        BY <1>5, <3>2, <4>1, <4>2
    <3> QED
      BY <3>1, <3>2
  <2>2. f = [n \in 0..N |-> f[n]]
    BY <1>6
  <2> QED
    BY <1>1, <2>1, <2>2
<1>8. PICK g : Is(g) /\ MoveFromEnd(t) = g[t.count]
  <2>1. MoveFromEnd(t) = (CHOOSE g : Is(g))[t.count]
    BY DEF MoveFromEnd
  <2> HIDE DEF Is
  <2>2. Is(CHOOSE g : Is(g))
    BY <1>7
  <2> QED
    BY <2>1, <2>2
\* What has been moved after n turns.
<1> DEFINE After(M, n) ==
             /\ M \in S
             /\ \A k \in Slots(c) :
                   /\ k >= N - n /\ k < N => M[k] = Old[P(k)]
                   /\ ~(k >= N - n /\ k < N) /\ (\E j \in 0..(N - n - 1) : k = P(j)) => M[k] = Old[k]
                   /\ ~(k >= N - n /\ k < N) /\ ~(\E j \in 0..(N - n - 1) : k = P(j)) => M[k] = NULL
           T == {n \in 0..N : After(g[n], n)}
<1>9. 0 \in T
  <2>1. g[0] = Old
    BY <1>1, <1>8
  <2>2. ASSUME NEW k \in Slots(c), ~(\E j \in 0..(N - 0 - 1) : k = P(j)) PROVE Old[k] = NULL
    <3>1. \A j \in 0..(t.count - 1) : Place(t, j) = P(j)
      BY <1>1 DEF Place
    <3>2. \A j \in 0..(t.count - 1) : Place(t, j) # k
      BY <1>1, <2>2, <3>1
    <3> QED
      BY <1>1, <3>2 DEF Ring
  <2>3. \A k \in Slots(c) : ~(k >= N - 0 /\ k < N)
    BY DEF Slots
  <2>4. After(g[0], 0)
    <3> HIDE DEF P
    <3> QED
      BY <1>4, <2>1, <2>2, <2>3
  <2> HIDE DEF After
  <2> QED
    BY <2>4
<1>10. ASSUME NEW n \in 0..(N - 1), n \in T PROVE n + 1 \in T
  <2>1. n + 1 \in 1..N /\ n + 1 \in 0..N /\ (n + 1) - 1 = n /\ n + 1 # 0
    OBVIOUS
  <2> DEFINE m == N - (n + 1)
  <2>2. m \in Nat /\ m < N /\ m + 1 = N - n /\ m \in Slots(c) /\ P(m) \in Slots(c) /\ P(m) # m
    <3>1. m \in Nat /\ m < N /\ m + 1 = N - n
      OBVIOUS
    <3> HIDE DEF P
    <3> QED
      BY <1>3, <2>1, <3>1
  <2>3. After(g[n], n)
    BY <1>10
  <2>4. g[n + 1] = Move(g[n], P(m), m)
    <3>1. g[n + 1] = Move(g[n], (t.start + t.count - (n + 1)) % t.capacity, t.count - (n + 1))
      BY <1>1, <1>8, <2>1
    <3> HIDE DEF P
    <3> QED
      BY <1>3, <2>1, <3>1
  <2> DEFINE M == g[n]
             W == g[n + 1]
  <2>5. M \in S
    BY <2>3
  <2>6. /\ W \in S /\ W[m] = M[P(m)] /\ W[P(m)] = NULL
        /\ \A k \in Slots(c) \ {P(m), m} : W[k] = M[k]
    <3>1. \A x \in S : \A from, to \in Slots(c) : from # to =>
            /\ Move(x, from, to) \in S
            /\ Move(x, from, to)[to] = x[from] /\ Move(x, from, to)[from] = NULL
            /\ \A k \in Slots(c) \ {from, to} : Move(x, from, to)[k] = x[k]
      BY MoveFacts
    <3>2. W = Move(M, P(m), m)
      BY <2>4
    <3> HIDE DEF P, m, M, W, S
    <3> QED
      BY <2>2, <2>5, <3>1, <3>2, ZenonT(40)
  <2>7. M[P(m)] = Old[P(m)]
    <3>1. m \in 0..(N - n - 1)
      BY <2>2
    <3>2. ~(P(m) >= N - n /\ P(m) < N)
      BY <1>2, <2>2
    <3> QED
      BY <2>2, <2>3, <3>1, <3>2
  <2>8. ~(P(m) >= m /\ P(m) < N)
    BY <1>2, <2>2
  <2>9. \A j \in 0..(m - 1) : P(j) # P(m) /\ P(j) # m
    BY <1>2, <2>2
  <2> HIDE DEF P, m, After
  <2>10. ASSUME NEW k \in Slots(c)
         PROVE  /\ k >= m /\ k < N => W[k] = Old[P(k)]
                /\ ~(k >= m /\ k < N) /\ (\E j \in 0..(m - 1) : k = P(j)) => W[k] = Old[k]
                /\ ~(k >= m /\ k < N) /\ ~(\E j \in 0..(m - 1) : k = P(j)) => W[k] = NULL
    <3>1. k \in Int
      BY DEF Slots
    <3>2. CASE k = m
      BY <2>2, <2>6, <2>7, <3>2
    <3>3. CASE k = P(m)
      BY <2>2, <2>6, <2>8, <2>9, <3>3
    <3>4. CASE k # m /\ k # P(m)
      <4>1. W[k] = M[k]
        BY <2>6, <3>4
      <4>2. (k >= m /\ k < N) <=> (k >= N - n /\ k < N)
        BY <2>2, <3>1, <3>4
      <4>3. (\E j \in 0..(m - 1) : k = P(j)) <=> (\E j \in 0..(N - n - 1) : k = P(j))
        <5>1. \A j : j \in 0..(N - n - 1) <=> (j \in 0..(m - 1) \/ j = m)
          BY <2>2
        <5> QED
          BY <3>4, <5>1
      <4> QED
        BY <2>3, <4>1, <4>2, <4>3 DEF After
    <3> QED
      BY <3>2, <3>3, <3>4
  <2>11. m = N - (n + 1)
    BY DEF m
  <2>12. After(W, n + 1)
    BY <2>6, <2>10, <2>11 DEF After
  <2> QED
    BY <2>1, <2>12
<1>11. After(g[N], N)
  <2> HIDE DEF T
  <2>1. \A n \in 0..N : n \in T
    BY <1>9, <1>10, LoopInduction
  <2>2. N \in T
    BY <2>1
  <2> QED
    BY <2>2 DEF T
<1>12. \A k \in Slots(c) : k < N => Place(t, k) = P(k)
  BY <1>1 DEF Place, Slots
<1>13. \A k \in Slots(c) : (k >= N - N /\ k < N <=> k < N) /\ ~(\E j \in 0..(N - N - 1) : k = P(j))
  <2> HIDE DEF P
  <2>1. \A j \in 0..(N - N - 1) : FALSE
    OBVIOUS
  <2> QED
    BY <2>1 DEF Slots
<1> HIDE DEF P
<1>14. ASSUME NEW k \in Slots(c)
       PROVE  MoveFromEnd(t)[k] = IF k < N THEN t.entries[Place(t, k)] ELSE NULL
  BY <1>1, <1>8, <1>11, <1>12, <1>13
<1> QED
  BY <1>1, <1>8, <1>11, <1>14

\* The first entry first: the entries do not wrap, and go to the left.
LEMMA MoveFromFrontFacts ==
  ASSUME NEW t, Ring(t), 0 < t.start, t.start + t.count <= t.capacity
  PROVE  /\ MoveFromFront(t) \in [Slots(t.capacity) -> Entry \cup {NULL}]
         /\ \A k \in Slots(t.capacity) :
               MoveFromFront(t)[k] = IF k < t.count THEN t.entries[Place(t, k)] ELSE NULL
<1>1. PICK c \in Nat, s \in Nat, N \in Nat : c = t.capacity /\ s = t.start /\ N = t.count
  BY DEF Ring, Tables
<1>2. 0 < s /\ s + N <= c /\ s < c /\ t \in Tables
  BY <1>1 DEF Ring
<1> DEFINE Old == t.entries
           S == [Slots(c) -> Entry \cup {NULL}]
           F == [n \in 1..N |-> [x \in S |->
                   Move(x, (t.start + n - 1) % t.capacity, n - 1)]]
<1>3. ASSUME NEW n \in 1..N
      PROVE  /\ (t.start + n - 1) % t.capacity = s + n - 1
             /\ s + n - 1 \in Slots(c) /\ n - 1 \in Slots(c) /\ s + n - 1 # n - 1
  <2>1. n - 1 \in 0..(t.capacity - 1)
    BY <1>1, <1>2
  <2>2. Place(t, n - 1) = s + n - 1
    BY <1>1, <1>2 DEF Place
  <2>3. (t.start + (n - 1)) % t.capacity = Place(t, n - 1) /\ Place(t, n - 1) \in Slots(t.capacity)
    BY <1>1, <1>2, <2>1, PlaceIsModulo
  <2>4. t.start + n - 1 = t.start + (n - 1)
    BY <1>1
  <2>5. n - 1 \in Slots(c) /\ s + n - 1 # n - 1
    BY <1>1, <1>2, <2>1 DEF Slots
  <2> QED
    BY <1>1, <2>2, <2>3, <2>4, <2>5
<1>4. Old \in S
  BY <1>1 DEF Ring
<1>5. ASSUME NEW n \in 1..N, NEW x \in S
      PROVE  /\ F[n][x] \in S
             /\ F[n][x] = Move(x, (t.start + n - 1) % t.capacity, n - 1)
  <2>1. F[n][x] = Move(x, (t.start + n - 1) % t.capacity, n - 1)
    OBVIOUS
  <2> HIDE DEF F
  <2>2. Move(x, (t.start + n - 1) % t.capacity, n - 1) \in S
    BY <1>3, MoveFacts
  <2> QED
    BY <2>1, <2>2
<1> HIDE DEF F
<1>6. PICK f \in [0..N -> S] : f = [n \in 0..N |-> IF n = 0 THEN Old ELSE F[n][f[n - 1]]]
  <2>1. LoopStays(N, S, Old, F)
    BY <1>4, <1>5 DEF LoopStays
  <2> HIDE DEF S, Old
  <2>2. \E f : IsLoop(f, N, S, Old, F)
    BY <2>1, LoopExists
  <2> QED
    BY <2>2 DEF IsLoop
<1> DEFINE Is(g) == g = [n \in 0..t.count |->
                          IF n = 0 THEN t.entries
                          ELSE Move(g[n - 1], (t.start + n - 1) % t.capacity, n - 1)]
<1>7. Is(f)
  <2>1. ASSUME NEW n \in 0..N
        PROVE  f[n] = IF n = 0 THEN t.entries
                      ELSE Move(f[n - 1], (t.start + n - 1) % t.capacity, n - 1)
    <3>1. CASE n = 0
      BY <1>6, <3>1
    <3>2. CASE n # 0
      <4>1. n \in 1..N /\ n - 1 \in 0..N
        BY <3>2
      <4>2. f[n] = F[n][f[n - 1]] /\ f[n - 1] \in S
        BY <1>6, <3>2, <4>1
      <4> HIDE DEF S
      <4> QED
        BY <1>5, <3>2, <4>1, <4>2
    <3> QED
      BY <3>1, <3>2
  <2>2. f = [n \in 0..N |-> f[n]]
    BY <1>6
  <2> QED
    BY <1>1, <2>1, <2>2
<1>8. PICK g : Is(g) /\ MoveFromFront(t) = g[t.count]
  <2>1. MoveFromFront(t) = (CHOOSE g : Is(g))[t.count]
    BY DEF MoveFromFront
  <2> HIDE DEF Is
  <2>2. Is(CHOOSE g : Is(g))
    BY <1>7
  <2> QED
    BY <2>1, <2>2
\* What has been moved after n turns.
<1> DEFINE After(M, n) ==
             /\ M \in S
             /\ \A k \in Slots(c) :
                   /\ k < n => M[k] = Old[s + k]
                   /\ k >= n /\ k \in (s + n)..(s + N - 1) => M[k] = Old[k]
                   /\ k >= n /\ k \notin (s + n)..(s + N - 1) => M[k] = NULL
           T == {n \in 0..N : After(g[n], n)}
<1>9. 0 \in T
  <2>1. g[0] = Old
    BY <1>1, <1>8
  <2>2. ASSUME NEW k \in Slots(c), k \notin (s + 0)..(s + N - 1) PROVE Old[k] = NULL
    <3>1. \A j \in 0..(t.count - 1) : Place(t, j) = s + j
      BY <1>1, <1>2, SMTT(30) DEF Place
    <3>2. \A j \in 0..(N - 1) : s + j # k
      BY <2>2
    <3>3. \A j \in 0..(t.count - 1) : Place(t, j) # k
      BY <1>1, <3>1, <3>2
    <3> QED
      BY <1>1, <3>3 DEF Ring
  <2>3. \A k \in Slots(c) : ~(k < 0)
    BY DEF Slots
  <2>4. After(g[0], 0)
    BY <1>4, <2>1, <2>2, <2>3
  <2> HIDE DEF After
  <2> QED
    BY <2>4
<1>10. ASSUME NEW n \in 0..(N - 1), n \in T PROVE n + 1 \in T
  <2>1. n + 1 \in 1..N /\ n + 1 \in 0..N /\ (n + 1) - 1 = n /\ n + 1 # 0
    OBVIOUS
  <2>2. s + n \in Slots(c) /\ n \in Slots(c) /\ s + n # n
    BY <1>2 DEF Slots
  <2>3. After(g[n], n)
    BY <1>10
  <2>4. g[n + 1] = Move(g[n], s + n, n)
    <3>1. g[n + 1] = Move(g[n], (t.start + (n + 1) - 1) % t.capacity, (n + 1) - 1)
      BY <1>1, <1>8, <2>1
    <3>2. (t.start + (n + 1) - 1) % t.capacity = s + (n + 1) - 1
      BY <1>3, <2>1
    <3>3. s + (n + 1) - 1 = s + n
      OBVIOUS
    <3> QED
      BY <2>1, <3>1, <3>2, <3>3
  <2> DEFINE M == g[n]
             W == g[n + 1]
  <2>5. M \in S
    BY <2>3
  <2>6. /\ W \in S /\ W[n] = M[s + n] /\ W[s + n] = NULL
        /\ \A k \in Slots(c) \ {s + n, n} : W[k] = M[k]
    <3>1. \A x \in S : \A from, to \in Slots(c) : from # to =>
            /\ Move(x, from, to) \in S
            /\ Move(x, from, to)[to] = x[from] /\ Move(x, from, to)[from] = NULL
            /\ \A k \in Slots(c) \ {from, to} : Move(x, from, to)[k] = x[k]
      BY MoveFacts
    <3>2. W = Move(M, s + n, n)
      BY <2>4
    <3> HIDE DEF M, W, S
    <3> QED
      BY <2>2, <2>5, <3>1, <3>2, ZenonT(40)
  <2>7. M[s + n] = Old[s + n]
    <3>1. s + n \in (s + n)..(s + N - 1) /\ s + n >= n
      OBVIOUS
    <3> QED
      BY <2>2, <2>3, <3>1
  <2> HIDE DEF After
  <2>8. ASSUME NEW k \in Slots(c)
         PROVE  /\ k < n + 1 => W[k] = Old[s + k]
                /\ k >= n + 1 /\ k \in (s + (n + 1))..(s + N - 1) => W[k] = Old[k]
                /\ k >= n + 1 /\ k \notin (s + (n + 1))..(s + N - 1) => W[k] = NULL
    <3>1. k \in Int
      BY DEF Slots
    <3>2. CASE k = n
      BY <2>2, <2>6, <2>7, <3>2
    <3>3. CASE k = s + n
      <4>1. ~(k < n + 1) /\ k \notin (s + (n + 1))..(s + N - 1)
        BY <1>2, <3>3
      <4> QED
        BY <2>6, <3>3, <4>1
    <3>4. CASE k # n /\ k # s + n
      <4>1. W[k] = M[k]
        BY <2>6, <3>4
      <4>2. /\ k < n + 1 <=> k < n
            /\ k >= n + 1 <=> k >= n
            /\ k \in (s + (n + 1))..(s + N - 1) <=> k \in (s + n)..(s + N - 1)
        BY <3>1, <3>4
      <4> QED
        BY <2>3, <4>1, <4>2 DEF After
    <3> QED
      BY <3>2, <3>3, <3>4
  <2>9. After(W, n + 1)
    BY <2>6, <2>8 DEF After
  <2> QED
    BY <2>1, <2>9
<1>11. After(g[N], N)
  <2> HIDE DEF T
  <2>1. \A n \in 0..N : n \in T
    BY <1>9, <1>10, LoopInduction
  <2>2. N \in T
    BY <2>1
  <2> QED
    BY <2>2 DEF T
<1>12. \A k \in Slots(c) : k < N => Place(t, k) = s + k
  BY <1>1, <1>2 DEF Place, Slots
<1>13. \A k \in Slots(c) : (k >= N <=> ~(k < N)) /\ k \notin (s + N)..(s + N - 1)
  BY DEF Slots
<1>14. ASSUME NEW k \in Slots(c)
       PROVE  MoveFromFront(t)[k] = IF k < N THEN t.entries[Place(t, k)] ELSE NULL
  BY <1>1, <1>8, <1>11, <1>12, <1>13
<1> QED
  BY <1>1, <1>8, <1>11, <1>14

\* The half that is kept holds the entries from its first slot on.
LEMMA ShrinkFacts ==
  ASSUME NEW t, Ring(t), NEW d \in Nat, 2 * d <= t.capacity, t.count < d
  PROVE  LET u == Shrink(t, d) IN
         /\ Ring(u)
         /\ u.count = t.count /\ u.max = t.max /\ u.size = t.size
         /\ \A i \in 0..(t.count - 1) : At(u, i) = At(t, i)
<1> DEFINE u == Shrink(t, d)
           moved == Rearranged(t, d)
<1>1. PICK c \in Nat, s \in Nat, n \in Nat, z \in Int, m \in Nat :
        c = t.capacity /\ s = t.start /\ n = t.count /\ z = t.size /\ m = t.max
  BY DEF Ring, Tables
<1>2. s < c /\ t \in Tables /\ d <= c
  BY <1>1 DEF Ring
<1>3. /\ moved \in [Slots(c) -> Entry \cup {NULL}]
      /\ \A k \in Slots(c) : moved[k] = IF k < n THEN t.entries[Place(t, k)] ELSE NULL
  <2>1. CASE s >= d
    <3>1. 0 < t.start /\ t.count <= t.start
      BY <1>1, <2>1
    <3>2. moved = MoveFromEnd(t)
      BY <1>1, <2>1 DEF Rearranged
    <3> QED
      BY <1>1, <3>1, <3>2, MoveFromEndFacts
  <2>2. CASE s = 0
    <3>1. moved = t.entries
      BY <1>1, <2>2 DEF Rearranged
    <3>2. t.entries \in [Slots(c) -> Entry \cup {NULL}]
      BY <1>1 DEF Ring
    <3>3. \A k \in 0..(t.count - 1) : Place(t, k) = k
      BY <1>1, <1>2, <2>2 DEF Place, Ring
    <3>4. \A k \in Slots(c) : k < n => k \in 0..(t.count - 1)
      BY <1>1 DEF Slots
    <3>5. \A k \in Slots(c) : ~(k < n) => \A i \in 0..(t.count - 1) : Place(t, i) # k
      BY <1>1, <3>3 DEF Slots
    <3>6. \A k \in Slots(c) : ~(k < n) => t.entries[k] = NULL
      BY <1>1, <3>5 DEF Ring
    <3> QED
      BY <3>1, <3>2, <3>3, <3>4, <3>6
  <2>3. CASE ~(s >= d) /\ s # 0
    <3>1. 0 < t.start /\ t.start + t.count <= t.capacity
      BY <1>1, <2>3
    <3>2. moved = MoveFromFront(t)
      BY <1>1, <2>3 DEF Rearranged
    <3> QED
      BY <1>1, <3>1, <3>2, MoveFromFrontFacts
  <2> QED
    BY <2>1, <2>2, <2>3
<1> HIDE DEF moved
<1> DEFINE New == [i \in Slots(d) |-> moved[i]]
<1>4. u = [t EXCEPT !.capacity = d, !.start = 0, !.entries = New]
  BY DEF Shrink, moved
<1>5. Slots(d) \subseteq Slots(c)
  BY <1>2 DEF Slots
<1>6. New \in [Slots(d) -> Entry \cup {NULL}] /\ \A k \in Slots(d) : New[k] = moved[k]
  BY <1>3, <1>5
<1> HIDE DEF New, u
<1>7. New \in Stores
  BY <1>6 DEF Stores
<1>8. /\ u \in Tables /\ u.capacity = d /\ u.start = 0 /\ u.count = n /\ u.entries = New
      /\ u.size = z /\ u.max = m
  BY <1>1, <1>2, <1>4, <1>7 DEF Tables
<1>9. \A i \in 0..(n - 1) : Place(u, i) = i /\ i \in Slots(d) /\ i < n
  BY <1>1, <1>8 DEF Place, Slots
<1>10. \A i \in 0..(n - 1) : New[Place(u, i)] = t.entries[Place(t, i)] /\ t.entries[Place(t, i)] \in Entry
  <2>1. \A i \in 0..(n - 1) : t.entries[Place(t, i)] \in Entry
    BY <1>1 DEF Ring
  <2> QED
    BY <1>3, <1>5, <1>6, <1>9, <2>1
<1>11. ASSUME NEW k \in Slots(d), \A i \in 0..(n - 1) : Place(u, i) # k
       PROVE  New[k] = NULL
  <2>1. ~(k < n)
    <3>1. k < n => k \in 0..(n - 1)
      BY DEF Slots
    <3> QED
      BY <1>9, <1>11, <3>1
  <2> QED
    BY <1>3, <1>5, <1>6, <2>1
<1>12. Ring(u)
  BY <1>1, <1>6, <1>8, <1>10, <1>11 DEF Ring
<1>13. \A i \in 0..(n - 1) : At(u, i) = At(t, i)
  BY <1>1, <1>8, <1>10, <1>12, AtIsPlace
<1> QED
  BY <1>1, <1>8, <1>12, <1>13 DEF u

\* The oldest entry goes, the others stay in their order, whether the ring
\* shrinks or not.
LEMMA PopAtEndFacts ==
  ASSUME NEW t, Ring(t), t.count # 0
  PROVE  LET u == PopAtEnd(t) IN
         /\ Ring(u)
         /\ u.count = t.count - 1 /\ u.max = t.max /\ u.size = t.size
         /\ \A i \in 0..(t.count - 2) : At(u, i) = At(t, i)
<1> DEFINE last == (t.start + t.count - 1) % t.capacity
           p == [t EXCEPT !.entries[last] = NULL, !.count = @ - 1]
           d == t.capacity \div GrowthFactor
<1>1. PICK c \in Nat, s \in Nat, n \in Nat, z \in Int, m \in Nat :
        c = t.capacity /\ s = t.start /\ n = t.count /\ z = t.size /\ m = t.max
  BY DEF Ring, Tables
<1>2. s < c /\ n <= c /\ n # 0 /\ t \in Tables
  BY <1>1 DEF Ring
<1>3. last = Place(t, n - 1) /\ last \in Slots(c)
  <2>1. n - 1 \in 0..(t.capacity - 1) /\ t.start + t.count - 1 = t.start + (n - 1)
    BY <1>1, <1>2
  <2> QED
    BY <1>1, <1>2, <2>1, PlaceIsModulo
<1> HIDE DEF last
<1> DEFINE New == [t.entries EXCEPT ![last] = NULL]
<1>4. p = [t EXCEPT !.entries = New, !.count = n - 1]
  BY <1>1, <1>2 DEF Tables
<1>5. t.entries \in [Slots(c) -> Entry \cup {NULL}]
  BY <1>1 DEF Ring
<1>6. /\ New \in [Slots(c) -> Entry \cup {NULL}]
      /\ New[last] = NULL /\ \A k \in Slots(c) : k # last => New[k] = t.entries[k]
  BY <1>3, <1>5
<1> HIDE DEF New, p
<1>7. New \in Stores
  BY <1>6 DEF Stores
<1>8. /\ p \in Tables /\ p.capacity = c /\ p.start = s /\ p.count = n - 1 /\ p.entries = New
      /\ p.size = z /\ p.max = m
  <2>1. n - 1 \in Nat
    BY <1>2
  <2> QED
    BY <1>1, <1>2, <1>4, <1>7, <2>1 DEF Tables
<1>9. ASSUME NEW i \in 0..(n - 2)
      PROVE  /\ Place(p, i) = Place(t, i) /\ Place(t, i) \in Slots(c) /\ Place(t, i) # last
             /\ New[Place(p, i)] = t.entries[Place(t, i)] /\ t.entries[Place(t, i)] \in Entry
  <2>1. Place(p, i) = Place(t, i) /\ Place(t, i) \in Slots(c) /\ Place(t, i) # Place(t, n - 1)
    BY <1>1, <1>2, <1>8 DEF Place, Slots
  <2>2. i \in 0..(t.count - 1)
    BY <1>1
  <2>3. t.entries[Place(t, i)] \in Entry
    BY <2>2 DEF Ring
  <2> QED
    BY <1>3, <1>6, <2>1, <2>3
<1>10. ASSUME NEW k \in Slots(c), \A i \in 0..((n - 1) - 1) : Place(p, i) # k
       PROVE  New[k] = NULL
  <2>1. CASE k = last
    BY <1>6, <2>1
  <2>2. CASE k # last
    <3>1. \A i \in 0..(t.count - 1) : i \in 0..(n - 2) \/ i = n - 1
      BY <1>1
    <3>2. \A i \in 0..(n - 2) : i \in 0..((n - 1) - 1)
      OBVIOUS
    <3>3. \A i \in 0..(t.count - 1) : Place(t, i) # k
      BY <1>3, <1>9, <1>10, <2>2, <3>1, <3>2
    <3>4. t.entries[k] = NULL
      BY <1>1, <3>3 DEF Ring
    <3> QED
      BY <1>6, <2>2, <3>4
  <2> QED
    BY <2>1, <2>2
<1>11. Ring(p)
  <2>1. \A i \in 0..((n - 1) - 1) : i \in 0..(n - 2)
    OBVIOUS
  <2> QED
    BY <1>2, <1>6, <1>8, <1>9, <1>10, <2>1 DEF Ring
<1>12. \A i \in 0..(n - 2) : At(p, i) = At(t, i)
  <2>1. \A i \in 0..(n - 2) : i \in 0..(t.count - 1) /\ i \in 0..(p.count - 1)
    BY <1>1, <1>8
  <2> QED
    BY <1>8, <1>9, <1>11, <2>1, AtIsPlace
<1>13. PopAtEnd(t) = IF p.count < t.capacity \div ShrinkFactor /\ d >= StartSize
                     THEN Shrink(p, d) ELSE p
  BY DEF PopAtEnd, p, last
<1>14. CASE p.count < t.capacity \div ShrinkFactor /\ d >= StartSize
  <2>1. /\ d \in Nat /\ 2 * d <= c /\ n - 1 < c \div 4 /\ d = c \div 2
    BY <1>1, <1>8, <1>14 DEF GrowthFactor, ShrinkFactor
  <2>2. 2 * d <= p.capacity /\ p.count < d
    BY <1>8, <2>1
  <2> HIDE DEF d
  <2>3. LET u == Shrink(p, d) IN
         /\ Ring(u)
         /\ u.count = p.count /\ u.max = p.max /\ u.size = p.size
         /\ \A i \in 0..(p.count - 1) : At(u, i) = At(p, i)
    BY <1>11, <2>1, <2>2, ShrinkFacts
  <2>4. \A i \in 0..(n - 2) : i \in 0..(p.count - 1)
    BY <1>8
  <2> QED
    BY <1>1, <1>8, <1>12, <1>13, <1>14, <2>3, <2>4
<1>15. CASE ~(p.count < t.capacity \div ShrinkFactor /\ d >= StartSize)
  BY <1>1, <1>8, <1>11, <1>12, <1>13, <1>15
<1> QED
  BY <1>14, <1>15

-----------------------------------------------------------------------------
(* The accounting.                                                         *)

LEMMA EntrySizeType ==
  ASSUME NEW e \in Entry
  PROVE  EntrySize(e) \in Nat /\ EntrySize(e) > 0
<1>1. PICK k \in Nat, v \in Nat : k = Len(e.key) /\ v = Len(e.value)
  BY DEF Entry
<1>2. EntrySize(e) = k + v + 32
  BY <1>1, Zenon DEF EntrySize, EntryOverhead
<1> QED
  BY <1>2

\* The size of the first n entries of a list is what is added up one by one.
LEMMA TotalFacts ==
  ASSUME NEW s \in Seq(Entry)
  PROVE  /\ List!Total(s, 0) = 0
         /\ \A n \in 0..Len(s) : List!Total(s, n) \in Nat
         /\ \A n \in 1..Len(s) : List!Total(s, n) = List!Total(s, n - 1) + EntrySize(s[n])
<1> DEFINE N == Len(s)
           F == [n \in 1..N |-> [x \in Nat |-> x + EntrySize(s[n])]]
           Is(g) == g = [i \in 0..Len(s) |-> IF i = 0 THEN 0 ELSE g[i - 1] + EntrySize(s[i])]
<1>1. N \in Nat /\ \A n \in 1..N : s[n] \in Entry
  OBVIOUS
<1>2. \A n \in 1..N : \A x \in Nat : F[n][x] = x + EntrySize(s[n]) /\ F[n][x] \in Nat
  BY <1>1, EntrySizeType
<1> HIDE DEF F
<1>3. LoopStays(N, Nat, 0, F)
  BY <1>1, <1>2 DEF LoopStays
<1>4. PICK f : IsLoop(f, N, Nat, 0, F)
  <2> HIDE DEF N
  <2> QED
    BY <1>3, LoopExists
<1>5. Is(f)
  <2>1. ASSUME NEW n \in 0..N
        PROVE  f[n] = IF n = 0 THEN 0 ELSE f[n - 1] + EntrySize(s[n])
    <3>1. CASE n = 0
      BY <1>4, <3>1 DEF IsLoop
    <3>2. CASE n # 0
      <4>1. n \in 1..N /\ n - 1 \in 0..N
        BY <1>1, <3>2
      <4>2. f[n] = F[n][f[n - 1]] /\ f[n - 1] \in Nat
        BY <1>4, <3>2, <4>1 DEF IsLoop
      <4> QED
        BY <1>2, <3>2, <4>1, <4>2
    <3> QED
      BY <3>1, <3>2
  <2>2. f = [n \in 0..N |-> f[n]]
    BY <1>4 DEF IsLoop
  <2> QED
    BY <2>1, <2>2
<1>6. PICK g : Is(g) /\ \A n : List!Total(s, n) = g[n]
  <2>1. \A n : List!Total(s, n) = (CHOOSE g : Is(g))[n]
    BY DEF List!Total
  <2> HIDE DEF Is
  <2>2. Is(CHOOSE g : Is(g))
    BY <1>5
  <2> QED
    BY <2>1, <2>2
<1>7. g[0] = 0 /\ \A n \in 1..N : n - 1 \in 0..N /\ g[n] = g[n - 1] + EntrySize(s[n])
  BY <1>1, <1>6
<1> DEFINE T == {n \in 0..N : g[n] \in Nat}
<1>8. \A n \in 0..N : n \in T
  <2>1. 0 \in T
    BY <1>1, <1>7
  <2>2. ASSUME NEW n \in 0..(N - 1), n \in T PROVE n + 1 \in T
    <3>1. n + 1 \in 1..N /\ (n + 1) - 1 = n /\ n + 1 \in 0..N
      BY <1>1
    <3>2. g[n + 1] = g[n] + EntrySize(s[n + 1]) /\ g[n] \in Nat /\ EntrySize(s[n + 1]) \in Nat
      BY <1>1, <1>7, <2>2, <3>1, EntrySizeType
    <3> QED
      BY <3>1, <3>2
  <2> HIDE DEF T
  <2> QED
    BY <1>1, <2>1, <2>2, LoopInduction
<1> QED
  BY <1>6, <1>7, <1>8, ZenonT(40)

\* Only the first n entries count.
LEMMA TotalOfPrefix ==
  ASSUME NEW s \in Seq(Entry), NEW u \in Seq(Entry), NEW m \in Nat, m <= Len(s), m <= Len(u),
         \A i \in 1..m : s[i] = u[i]
  PROVE  \A n \in 0..m : List!Total(s, n) = List!Total(u, n)
<1> DEFINE T == {n \in 0..m : List!Total(s, n) = List!Total(u, n)}
<1>1. 0 \in T
  BY TotalFacts
<1>2. ASSUME NEW n \in 0..(m - 1), n \in T PROVE n + 1 \in T
  <2>1. n + 1 \in 1..Len(s) /\ n + 1 \in 1..Len(u) /\ (n + 1) - 1 = n /\ n + 1 \in 1..m /\ n + 1 \in 0..m
    OBVIOUS
  <2>2. List!Total(s, n + 1) = List!Total(s, n) + EntrySize(s[n + 1])
    BY <2>1, TotalFacts
  <2>3. List!Total(u, n + 1) = List!Total(u, n) + EntrySize(u[n + 1])
    BY <2>1, TotalFacts
  <2> QED
    BY <1>2, <2>1, <2>2, <2>3
<1> HIDE DEF T
<1>3. \A n \in 0..m : n \in T
  BY <1>1, <1>2, LoopInduction
<1> QED
  BY <1>3 DEF T

\* One more entry in front adds its size to every sum.
LEMMA TotalOfPushed ==
  ASSUME NEW s \in Seq(Entry), NEW u \in Seq(Entry), Len(u) = Len(s) + 1,
         \A i \in 1..Len(s) : u[i + 1] = s[i]
  PROVE  \A n \in 0..Len(s) : List!Total(u, n + 1) = EntrySize(u[1]) + List!Total(s, n)
<1> DEFINE T == {n \in 0..Len(s) : List!Total(u, n + 1) = EntrySize(u[1]) + List!Total(s, n)}
<1>1. Len(s) \in Nat /\ u[1] \in Entry /\ EntrySize(u[1]) \in Nat
  BY EntrySizeType
<1>2. 0 \in T
  <2>1. 1 \in 1..Len(u)
    BY <1>1
  <2>2. List!Total(u, 1) = List!Total(u, 1 - 1) + EntrySize(u[1])
    BY <2>1, TotalFacts
  <2>3. List!Total(u, 0) = 0 /\ List!Total(s, 0) = 0
    BY TotalFacts
  <2> QED
    BY <1>1, <2>2, <2>3
<1>3. ASSUME NEW n \in 0..(Len(s) - 1), n \in T PROVE n + 1 \in T
  <2>1. /\ n + 1 \in 1..Len(s) /\ (n + 1) + 1 \in 1..Len(u) /\ (n + 1) - 1 = n /\ ((n + 1) + 1) - 1 = n + 1
        /\ n + 1 \in 0..Len(s) /\ n \in 0..Len(s) /\ n + 1 \in 0..Len(u)
    BY <1>1
  <2>2. List!Total(s, n + 1) = List!Total(s, n) + EntrySize(s[n + 1])
    BY <2>1, TotalFacts
  <2>3. List!Total(u, (n + 1) + 1) = List!Total(u, n + 1) + EntrySize(u[(n + 1) + 1])
    BY <2>1, TotalFacts
  <2>4. List!Total(s, n) \in Nat /\ EntrySize(s[n + 1]) \in Nat /\ u[(n + 1) + 1] = s[n + 1]
    BY <2>1, TotalFacts, EntrySizeType
  <2>5. List!Total(u, n + 1) = EntrySize(u[1]) + List!Total(s, n)
    BY <1>3
  <2> QED
    BY <1>1, <2>1, <2>2, <2>3, <2>4, <2>5
<1> HIDE DEF T
<1>4. \A n \in 0..Len(s) : n \in T
  BY <1>1, <1>2, <1>3, LoopInduction
<1> QED
  BY <1>4 DEF T

\* The longer the beginning, the larger its size.
LEMMA TotalGrows ==
  ASSUME NEW s \in Seq(Entry), NEW n \in 0..Len(s)
  PROVE  \A m \in 0..Len(s) : m > n => List!Total(s, m) > List!Total(s, n)
<1> DEFINE T == {m \in 0..Len(s) : m > n => List!Total(s, m) > List!Total(s, n)}
<1>1. Len(s) \in Nat /\ \A m \in 0..Len(s) : List!Total(s, m) \in Nat
  BY TotalFacts
<1>2. 0 \in T
  BY <1>1
<1>3. ASSUME NEW m \in 0..(Len(s) - 1), m \in T PROVE m + 1 \in T
  <2>1. m + 1 \in 1..Len(s) /\ (m + 1) - 1 = m /\ m + 1 \in 0..Len(s) /\ m \in 0..Len(s)
    BY <1>1
  <2>2. List!Total(s, m + 1) = List!Total(s, m) + EntrySize(s[m + 1])
    BY <2>1, TotalFacts
  <2>3. EntrySize(s[m + 1]) \in Nat /\ EntrySize(s[m + 1]) > 0
    BY <2>1, EntrySizeType
  <2>4. m > n => List!Total(s, m) > List!Total(s, n)
    BY <1>3
  <2>5. List!Total(s, m) \in Nat /\ List!Total(s, n) \in Nat
    BY <1>1, <2>1
  <2> QED
    BY <2>1, <2>2, <2>3, <2>4, <2>5
<1> HIDE DEF T
<1>4. \A m \in 0..Len(s) : m \in T
  BY <1>1, <1>2, <1>3, LoopInduction
<1> QED
  BY <1>4 DEF T

\* The entries of a ring as a list, and the size they amount to.
LEMMA ListOfRing ==
  ASSUME NEW t, Ring(t)
  PROVE  /\ AsList(t) \in Seq(Entry) /\ Len(AsList(t)) = t.count
         /\ \A i \in 1..t.count : AsList(t)[i] = At(t, i - 1)
         /\ SumOfSizes(t) = List!Total(AsList(t), t.count)
<1>1. PICK n \in Nat : n = t.count
  BY DEF Ring, Tables
<1>2. \A i \in 1..n : i - 1 \in 0..(t.count - 1)
  BY <1>1
<1>3. \A i \in 1..n : At(t, i - 1) \in Entry
  BY <1>2, AtIsPlace
<1>4. AsList(t) = [i \in 1..n |-> At(t, i - 1)]
  BY <1>1 DEF AsList
<1>5. AsList(t) \in [1..n -> Entry]
  BY <1>3, <1>4
<1>6. AsList(t) \in Seq(Entry) /\ Len(AsList(t)) = n
  BY <1>5
<1>7. \A i \in 1..n : AsList(t)[i] = At(t, i - 1)
  BY <1>4
<1> DEFINE l == AsList(t)
           Is(g) == g = [k \in 0..n |-> IF k = 0 THEN 0 ELSE g[k - 1] + EntrySize(At(t, k - 1))]
           Same(g) == g = [k \in 0..n |-> IF k = 0 THEN 0 ELSE g[k - 1] + EntrySize(l[k])]
<1>8. SumOfSizes(t) = (CHOOSE g : Is(g))[n]
  BY <1>1 DEF SumOfSizes
<1>9. List!Total(l, n) = (CHOOSE g : Same(g))[n]
  BY <1>6 DEF List!Total
<1>10. ASSUME NEW g PROVE Is(g) <=> Same(g)
  <2>1. \A k \in 0..n : k # 0 => k \in 1..n
    OBVIOUS
  <2>2. \A k \in 0..n : (IF k = 0 THEN 0 ELSE g[k - 1] + EntrySize(At(t, k - 1)))
                         = (IF k = 0 THEN 0 ELSE g[k - 1] + EntrySize(l[k]))
    BY <1>7, <2>1
  <2> HIDE DEF l
  <2> QED
    BY <2>2
<1>11. (CHOOSE g : Is(g)) = (CHOOSE g : Same(g))
  <2> HIDE DEF Is, Same
  <2> QED
    BY <1>10
<1> QED
  BY <1>1, <1>6, <1>7, <1>8, <1>9, <1>11

\* A ring whose size is the sum of the sizes of its entries.
Accounted(t) == Ring(t) /\ t.size = SumOfSizes(t)

LEMMA EmptyTableAccounted ==
  ASSUME NEW max \in Nat
  PROVE  Accounted(EmptyTable(max)) /\ AsList(EmptyTable(max)) = <<>>
<1> DEFINE t == EmptyTable(max)
<1>1. Ring(t) /\ t.count = 0 /\ t.size = 0
  BY EmptyTableIsRing
<1> HIDE DEF t
<1>2. AsList(t) \in Seq(Entry) /\ Len(AsList(t)) = 0 /\ SumOfSizes(t) = List!Total(AsList(t), 0)
  BY <1>1, ListOfRing
<1>3. List!Total(AsList(t), 0) = 0
  BY <1>2, TotalFacts
<1>4. AsList(t) = <<>>
  BY <1>2
<1> QED
  BY <1>1, <1>2, <1>3, <1>4 DEF Accounted, t

LEMMA SizeOfAccounted ==
  ASSUME NEW t, Accounted(t)
  PROVE  /\ t.size = List!Total(AsList(t), t.count) /\ t.size \in Nat
         /\ t.count \in Nat /\ Len(AsList(t)) = t.count
         /\ t.count = 0 => t.size = 0
<1>1. PICK n \in Nat : n = t.count
  BY DEF Accounted, Ring, Tables
<1>2. AsList(t) \in Seq(Entry) /\ Len(AsList(t)) = n /\ t.size = List!Total(AsList(t), n)
  BY <1>1, ListOfRing DEF Accounted
<1>3. List!Total(AsList(t), 0) = 0 /\ List!Total(AsList(t), n) \in Nat
  BY <1>2, TotalFacts
<1> QED
  BY <1>1, <1>2, <1>3

LEMMA DropOldestFacts ==
  ASSUME NEW t, Accounted(t), t.count # 0
  PROVE  LET u == DropOldest(t) IN
         /\ Accounted(u)
         /\ u.count = t.count - 1 /\ u.max = t.max
         /\ \A i \in 1..(t.count - 1) : AsList(u)[i] = AsList(t)[i]
<1> DEFINE p == PopAtEnd(t)
           u == DropOldest(t)
           l == AsList(t)
           old == At(t, t.count - 1)
<1>1. PICK n \in Nat : n = t.count /\ n # 0
  BY DEF Accounted, Ring, Tables
<1>2. /\ Ring(p) /\ p.count = n - 1 /\ p.max = t.max /\ p.size = t.size
      /\ \A i \in 0..(n - 2) : At(p, i) = At(t, i)
  BY <1>1, PopAtEndFacts DEF Accounted
<1>3. u = [p EXCEPT !.size = @ - EntrySize(old)]
  BY DEF DropOldest
<1>4. /\ l \in Seq(Entry) /\ Len(l) = n /\ \A i \in 1..n : l[i] = At(t, i - 1)
      /\ t.size = List!Total(l, n)
  BY <1>1, ListOfRing DEF Accounted
<1>5. n \in 1..Len(l) /\ l[n] = old /\ n - 1 \in 0..Len(l)
  BY <1>1, <1>4
<1>6. PICK e \in Nat, r \in Nat : e = EntrySize(l[n]) /\ r = List!Total(l, n - 1) /\ t.size = r + e
  <2>1. l[n] \in Entry
    BY <1>4, <1>5
  <2>2. EntrySize(l[n]) \in Nat
    BY <2>1, EntrySizeType
  <2>3. List!Total(l, n - 1) \in Nat /\ List!Total(l, n) = List!Total(l, n - 1) + EntrySize(l[n])
    BY <1>4, <1>5, TotalFacts
  <2> HIDE DEF l
  <2> QED
    BY <1>4, <2>2, <2>3
<1> HIDE DEF p, u, l, old
<1>7. /\ u \in Tables /\ u.size = r /\ u.count = n - 1 /\ u.capacity = p.capacity
      /\ u.start = p.start /\ u.max = p.max /\ u.entries = p.entries
  <2>1. p \in Tables /\ p.size = r + e /\ e = EntrySize(old)
    BY <1>2, <1>5, <1>6 DEF Ring
  <2>2. u = [p EXCEPT !.size = r]
    BY <1>3, <2>1 DEF Tables
  <2> QED
    BY <1>2, <2>1, <2>2 DEF Tables
<1>8. \A i : Place(u, i) = Place(p, i) /\ At(u, i) = At(p, i)
  BY <1>7 DEF Place, At
<1>9. Ring(u)
  BY <1>2, <1>7, <1>8 DEF Ring
<1>10. /\ AsList(u) \in Seq(Entry) /\ Len(AsList(u)) = n - 1
       /\ \A i \in 1..(n - 1) : AsList(u)[i] = At(u, i - 1)
       /\ SumOfSizes(u) = List!Total(AsList(u), n - 1)
  BY <1>7, <1>9, ListOfRing
<1>11. \A i \in 1..(n - 1) : i - 1 \in 0..(n - 2) /\ i \in 1..n
  OBVIOUS
<1>12. \A i \in 1..(n - 1) : AsList(u)[i] = l[i]
  BY <1>2, <1>4, <1>8, <1>10, <1>11
<1>13. List!Total(AsList(u), n - 1) = List!Total(l, n - 1)
  <2>1. n - 1 \in Nat /\ n - 1 <= Len(l) /\ n - 1 <= Len(AsList(u)) /\ n - 1 \in 0..(n - 1)
    BY <1>1, <1>4, <1>10
  <2> QED
    BY <1>4, <1>10, <1>12, <2>1, TotalOfPrefix
<1>14. Accounted(u)
  BY <1>6, <1>7, <1>9, <1>10, <1>13 DEF Accounted
<1> QED
  BY <1>1, <1>2, <1>7, <1>12, <1>14 DEF u, l

\* The loop drops entries until the rest fits, and not one more.
LEMMA EvictFacts ==
  ASSUME NEW t, Accounted(t), NEW room \in Nat
  PROVE  LET u == Evict(t, room) IN
         /\ Accounted(u) /\ u.max = t.max /\ u.size <= room
         /\ AsList(u) = List!Newest(AsList(t), room)
<1>1. PICK N \in Nat : N = t.count
  BY DEF Accounted, Ring, Tables
<1> DEFINE l == AsList(t)
           S == {x \in Tables : Accounted(x)}
           Turn(x) == IF x.size > room THEN DropOldest(x) ELSE x
           F == [n \in 1..N |-> [x \in S |-> Turn(x)]]
<1>2. ASSUME NEW x \in S PROVE Turn(x) \in S
  <2>1. CASE x.size > room
    <3>1. x.count # 0
      BY <2>1, SizeOfAccounted
    <3>2. Accounted(DropOldest(x))
      BY <3>1, DropOldestFacts
    <3> QED
      BY <2>1, <3>2 DEF Accounted, Ring
  <2>2. CASE ~(x.size > room)
    BY <2>2
  <2> QED
    BY <2>1, <2>2
<1>3. t \in S
  BY DEF Accounted, Ring
<1>4. \A n \in 1..N : \A x \in S : F[n][x] = Turn(x)
  <2> HIDE DEF S, Turn
  <2> QED
    OBVIOUS
<1> HIDE DEF F, S, Turn
<1>5. LoopStays(N, S, t, F)
  BY <1>2, <1>3, <1>4 DEF LoopStays
<1>6. PICK f : IsLoop(f, N, S, t, F)
  BY <1>5, LoopExists
<1> DEFINE Is(g) == g = [n \in 0..N |-> IF n = 0 THEN t ELSE Turn(g[n - 1])]
<1>7. Is(f)
  <2>1. ASSUME NEW n \in 0..N PROVE f[n] = IF n = 0 THEN t ELSE Turn(f[n - 1])
    <3>1. CASE n = 0
      BY <1>6, <3>1 DEF IsLoop
    <3>2. CASE n # 0
      <4>1. n \in 1..N /\ n - 1 \in 0..N
        BY <3>2
      <4>2. f[n] = F[n][f[n - 1]] /\ f[n - 1] \in S
        BY <1>6, <3>2, <4>1 DEF IsLoop
      <4> QED
        BY <1>4, <3>2, <4>1, <4>2
    <3> QED
      BY <3>1, <3>2
  <2>2. f = [n \in 0..N |-> f[n]]
    BY <1>6 DEF IsLoop
  <2> QED
    BY <2>1, <2>2
<1>8. PICK g : Is(g) /\ Evict(t, room) = g[N]
  <2>1. Evict(t, room) = (CHOOSE g : Is(g))[N]
    BY <1>1 DEF Evict, Turn
  <2> HIDE DEF Is
  <2>2. Is(CHOOSE g : Is(g))
    BY <1>7
  <2> QED
    BY <2>1, <2>2
<1>9. g[0] = t /\ \A n \in 0..(N - 1) : g[n + 1] = Turn(g[n])
  <2>1. \A n \in 0..(N - 1) : n + 1 \in 0..N /\ n + 1 # 0 /\ (n + 1) - 1 = n
    OBVIOUS
  <2> QED
    BY <1>8, <2>1
<1>10. /\ l \in Seq(Entry) /\ Len(l) = N /\ t.size = List!Total(l, N)
       /\ \A k \in 0..N : List!Total(l, k) \in Nat
  BY <1>1, ListOfRing, TotalFacts DEF Accounted
\* What is left after n turns.
<1> DEFINE After(x, n) ==
             /\ Accounted(x) /\ x.max = t.max /\ x.count \in 0..N
             /\ \A i \in 1..x.count : AsList(x)[i] = l[i]
             /\ x.size = List!Total(l, x.count)
             /\ x.size <= room \/ x.count = N - n
             /\ x.count = N \/ List!Total(l, x.count + 1) > room
           T == {n \in 0..N : After(g[n], n)}
<1>11. 0 \in T
  <2>1. After(t, 0)
    BY <1>1, <1>10
  <2> HIDE DEF After
  <2> QED
    BY <1>9, <2>1
<1>12. ASSUME NEW n \in 0..(N - 1), n \in T PROVE n + 1 \in T
  <2> DEFINE x == g[n]
             y == g[n + 1]
  <2>1. y = Turn(x) /\ n + 1 \in 0..N
    BY <1>9
  <2>2. After(x, n)
    BY <1>12
  <2> HIDE DEF x, y, l
  <2>3. CASE x.size > room
    <3>1. PICK k \in Nat : k = x.count
      BY <2>2 DEF Accounted, Ring, Tables
    <3>2. k = N - n /\ k # 0 /\ k - 1 \in 0..N /\ k - 1 = N - (n + 1) /\ k \in 0..N
      BY <2>2, <2>3, <3>1, SizeOfAccounted
    <3>3. y = DropOldest(x)
      BY <2>1, <2>3 DEF Turn
    <3>4. /\ Accounted(y) /\ y.count = k - 1 /\ y.max = t.max
          /\ \A i \in 1..(k - 1) : AsList(y)[i] = AsList(x)[i]
      BY <2>2, <3>1, <3>2, <3>3, DropOldestFacts
    <3>5. \A i \in 1..(k - 1) : AsList(y)[i] = l[i]
      <4>1. \A i \in 1..(k - 1) : i \in 1..k
        OBVIOUS
      <4> QED
        BY <2>2, <3>1, <3>4, <4>1
    <3>6. y.size = List!Total(l, k - 1)
      <4>1. /\ AsList(y) \in Seq(Entry) /\ Len(AsList(y)) = k - 1
            /\ y.size = List!Total(AsList(y), k - 1)
        BY <3>4, ListOfRing DEF Accounted
      <4>2. k - 1 \in Nat /\ k - 1 <= Len(l) /\ k - 1 <= Len(AsList(y)) /\ k - 1 \in 0..(k - 1)
        BY <1>10, <3>2, <4>1
      <4> QED
        BY <1>10, <3>5, <4>1, <4>2, TotalOfPrefix
    <3>7. List!Total(l, (k - 1) + 1) > room
      <4>1. (k - 1) + 1 = k
        OBVIOUS
      <4> QED
        BY <2>2, <2>3, <3>1, <4>1
    <3>8. After(y, n + 1)
      BY <3>2, <3>4, <3>5, <3>6, <3>7
    <3> HIDE DEF After
    <3> QED
      BY <2>1, <3>8 DEF y
  <2>4. CASE ~(x.size > room)
    <3>1. y = x
      BY <2>1, <2>4 DEF Turn
    <3>2. x.size \in Nat
      BY <2>2, SizeOfAccounted
    <3>3. x.size <= room
      BY <2>4, <3>2
    <3>4. After(y, n + 1)
      BY <2>2, <3>1, <3>3
    <3> HIDE DEF After
    <3> QED
      BY <2>1, <3>4 DEF y
  <2> QED
    BY <2>3, <2>4
<1>13. After(g[N], N)
  <2> HIDE DEF T
  <2>1. \A n \in 0..N : n \in T
    BY <1>11, <1>12, LoopInduction
  <2>2. N \in T
    BY <2>1
  <2> HIDE DEF After
  <2> QED
    BY <2>2 DEF T
<1> DEFINE u == Evict(t, room)
<1>14. After(u, N)
  <2> HIDE DEF After
  <2> QED
    BY <1>8, <1>13
<1> HIDE DEF u, l
<1>15. PICK k \in 0..N : k = u.count
  BY <1>14
<1>16. u.size <= room /\ u.size \in Nat
  <2>1. N - N = 0 /\ (u.count = 0 => u.size = 0) /\ u.size \in Nat
    BY <1>14, SizeOfAccounted
  <2> QED
    BY <1>14, <2>1
<1> DEFINE fits == {n \in 0..Len(l) : List!Total(l, n) <= room}
<1>17. k \in fits /\ \A m \in fits : m <= k
  <2>1. k \in fits
    BY <1>10, <1>14, <1>15, <1>16
  <2>2. ASSUME NEW m \in fits PROVE m <= k
    <3> SUFFICES ASSUME m > k PROVE FALSE
      BY <1>10, <1>15
    <3>1. m \in 0..N /\ k + 1 \in 0..N /\ (m = k + 1 \/ m > k + 1)
      BY <1>10
    <3>2. List!Total(l, k + 1) > room
      BY <1>14, <1>15, <3>1
    <3>3. List!Total(l, m) >= List!Total(l, k + 1)
      BY <1>10, <3>1, TotalGrows
    <3>4. List!Total(l, m) \in Nat /\ List!Total(l, k + 1) \in Nat /\ List!Total(l, m) <= room
      BY <1>10, <3>1
    <3> QED
      BY <3>2, <3>3, <3>4
  <2> QED
    BY <2>1, <2>2
<1>18. (CHOOSE n \in fits : \A m \in fits : m <= n) = k
  <2>1. \A n \in fits : n \in Int /\ k \in Int
    BY <1>10
  <2> HIDE DEF fits
  <2>2. \A n \in fits : (\A m \in fits : m <= n) => n = k
    BY <1>17, <2>1
  <2> QED
    BY <1>17, <2>2
<1>19. List!Newest(l, room) = SubSeq(l, 1, k)
  BY <1>18 DEF List!Newest
<1>20. AsList(u) = SubSeq(l, 1, k)
  <2>1. AsList(u) \in Seq(Entry) /\ Len(AsList(u)) = k
    BY <1>14, <1>15, ListOfRing DEF Accounted
  <2>2. SubSeq(l, 1, k) \in Seq(Entry) /\ Len(SubSeq(l, 1, k)) = k
    BY <1>10
  <2>3. \A i \in 1..k : SubSeq(l, 1, k)[i] = l[i] /\ AsList(u)[i] = l[i]
    BY <1>10, <1>14, <1>15
  <2> QED
    BY <2>1, <2>2, <2>3
<1> QED
  BY <1>14, <1>16, <1>19, <1>20 DEF u, l

\* A table as it is between two calls.
TableInv(t) == Accounted(t) /\ t.size <= t.max

\* An entry that is too large empties the table, any other one goes in front of
\* the newest entries that leave it the room.
LEMMA InsertEntryFacts ==
  ASSUME NEW t, TableInv(t), NEW e \in Entry
  PROVE  LET u == InsertEntry(t, e) IN
         /\ TableInv(u) /\ u.max = t.max
         /\ AsList(u) = IF EntrySize(e) > t.max THEN <<>>
                        ELSE <<e>> \o List!Newest(AsList(t), t.max - EntrySize(e))
<1> DEFINE u == InsertEntry(t, e)
<1>1. PICK m \in Nat, z \in Nat : m = t.max /\ z = EntrySize(e)
  BY EntrySizeType DEF TableInv, Accounted, Ring, Tables
<1>2. CASE z > m
  <2>1. u = EmptyTable(m)
    BY <1>1, <1>2 DEF InsertEntry
  <2>2. Accounted(u) /\ AsList(u) = <<>> /\ u.size = 0 /\ u.max = m
    BY <2>1, EmptyTableAccounted, EmptyTableIsRing
  <2> HIDE DEF u
  <2>3. TableInv(u)
    BY <2>2 DEF TableInv
  <2> QED
    BY <1>1, <1>2, <2>2, <2>3 DEF u
<1>3. CASE ~(z > m)
  <2>1. PICK left \in Nat : left = m - z
    BY <1>3
  <2> DEFINE r == Evict(t, left)
             w == InsertAtStart(r, e)
             l == AsList(r)
  <2>2. /\ Accounted(r) /\ r.max = m /\ r.size <= left
        /\ l = List!Newest(AsList(t), left)
    BY <1>1, EvictFacts DEF TableInv
  <2>3. u = [w EXCEPT !.size = @ + z]
    BY <1>1, <1>3, <2>1 DEF InsertEntry
  <2> HIDE DEF r, u
  <2>4. PICK n \in Nat, y \in Nat : n = r.count /\ y = r.size
    BY <2>2, SizeOfAccounted
  <2>5. /\ Ring(w) /\ w.count = n + 1 /\ w.max = m /\ w.size = y
        /\ At(w, 0) = e /\ \A i \in 0..(n - 1) : At(w, i + 1) = At(r, i)
    BY <2>2, <2>4, InsertAtStartFacts DEF Accounted
  <2> HIDE DEF w
  <2>6. /\ u \in Tables /\ u.size = y + z /\ u.count = n + 1 /\ u.capacity = w.capacity
        /\ u.start = w.start /\ u.max = m /\ u.entries = w.entries
    <3>1. w \in Tables
      BY <2>5 DEF Ring
    <3>2. u = [w EXCEPT !.size = y + z]
      BY <2>3, <2>5, <3>1 DEF Tables
    <3> QED
      BY <2>5, <3>1, <3>2 DEF Tables
  <2>7. \A i : Place(u, i) = Place(w, i) /\ At(u, i) = At(w, i)
    BY <2>6 DEF Place, At
  <2>8. Ring(u)
    BY <2>5, <2>6, <2>7 DEF Ring
  <2>9. /\ AsList(u) \in Seq(Entry) /\ Len(AsList(u)) = n + 1
        /\ \A i \in 1..(n + 1) : AsList(u)[i] = At(u, i - 1)
        /\ SumOfSizes(u) = List!Total(AsList(u), n + 1)
    BY <2>6, <2>8, ListOfRing
  <2>10. /\ l \in Seq(Entry) /\ Len(l) = n /\ \A i \in 1..n : l[i] = At(r, i - 1)
         /\ y = List!Total(l, n)
    BY <2>2, <2>4, ListOfRing DEF Accounted
  <2> HIDE DEF l
  <2>11. AsList(u)[1] = e
    BY <2>5, <2>7, <2>9
  <2>12. \A i \in 1..n : AsList(u)[i + 1] = l[i]
    <3> SUFFICES ASSUME NEW i \in 1..n PROVE AsList(u)[i + 1] = l[i]
      OBVIOUS
    <3>1. i + 1 \in 1..(n + 1) /\ (i + 1) - 1 = (i - 1) + 1 /\ i - 1 \in 0..(n - 1)
      OBVIOUS
    <3> QED
      BY <2>5, <2>7, <2>9, <2>10, <3>1
  <2>13. List!Total(AsList(u), n + 1) = z + y
    <3>1. n \in 0..Len(l)
      BY <2>10
    <3>2. List!Total(AsList(u), n + 1) = EntrySize(AsList(u)[1]) + List!Total(l, n)
      BY <2>9, <2>10, <2>12, <3>1, TotalOfPushed
    <3> QED
      BY <1>1, <2>10, <2>11, <3>2
  <2>14. TableInv(u)
    BY <1>1, <1>3, <2>1, <2>2, <2>4, <2>6, <2>8, <2>9, <2>13 DEF TableInv, Accounted
  <2>15. AsList(u) = <<e>> \o l
    <3>1. <<e>> \in Seq(Entry) /\ Len(<<e>>) = 1 /\ <<e>>[1] = e
      OBVIOUS
    <3> DEFINE c == <<e>> \o l
    <3>2. c \in Seq(Entry) /\ Len(c) = n + 1 /\ c[1] = e
      BY <2>10, <3>1
    <3>3. \A i \in 1..n : c[i + 1] = l[i]
      BY <2>10, <3>1
    <3>4. \A i \in 1..(n + 1) : i = 1 \/ (i - 1 \in 1..n /\ (i - 1) + 1 = i)
      OBVIOUS
    <3> HIDE DEF c
    <3>5. \A i \in 1..(n + 1) : c[i] = AsList(u)[i]
      BY <2>11, <2>12, <3>2, <3>3, <3>4
    <3>6. c = AsList(u)
      BY <2>9, <3>2, <3>5
    <3> QED
      BY <3>6 DEF c
  <2> QED
    BY <1>1, <1>3, <2>1, <2>2, <2>6, <2>14, <2>15 DEF u
<1> QED
  BY <1>1, <1>2, <1>3

\* A new maximum leaves the newest entries that fit.
LEMMA SetMaxFacts ==
  ASSUME NEW t, TableInv(t), NEW max \in Nat
  PROVE  LET u == SetMax(t, max) IN
         /\ TableInv(u) /\ u.max = max
         /\ AsList(u) = List!Newest(AsList(t), max)
<1> DEFINE u == SetMax(t, max)
           l == AsList(t)
<1>1. Ring(t) /\ t.size = SumOfSizes(t)
  BY DEF TableInv, Accounted
<1>2. CASE max = 0
  <2>1. u = EmptyTable(0)
    BY <1>2 DEF SetMax
  <2>2. Accounted(u) /\ AsList(u) = <<>> /\ u.size = 0 /\ u.max = 0
    BY <2>1, EmptyTableAccounted, EmptyTableIsRing
  <2> HIDE DEF u
  <2>3. TableInv(u)
    BY <2>2 DEF TableInv
  <2>4. l \in Seq(Entry)
    BY <1>1, ListOfRing
  <2> HIDE DEF l
  <2> DEFINE fits == {n \in 0..Len(l) : List!Total(l, n) <= 0}
  <2>5. fits = {0}
    <3>1. 0 \in 0..Len(l) /\ List!Total(l, 0) = 0
      BY <2>4, TotalFacts
    <3>2. \A n \in 0..Len(l) : n > 0 => List!Total(l, n) > 0
      BY <2>4, <3>1, TotalGrows
    <3>3. \A n \in 0..Len(l) : List!Total(l, n) \in Nat
      BY <2>4, TotalFacts
    <3> QED
      BY <2>4, <3>1, <3>2, <3>3
  <2>6. (CHOOSE n \in fits : \A m \in fits : m <= n) = 0
    <3> HIDE DEF fits
    <3> QED
      BY <2>5
  <2>7. List!Newest(l, 0) = SubSeq(l, 1, 0)
    BY <2>6 DEF List!Newest
  <2>8. SubSeq(l, 1, 0) = <<>>
    BY <2>4
  <2> QED
    BY <1>2, <2>2, <2>3, <2>7, <2>8 DEF u, l
<1>3. CASE max # 0
  <2> DEFINE w == [t EXCEPT !.max = max]
  <2>1. t \in Tables
    BY <1>1 DEF Ring
  <2>2. /\ w \in Tables /\ w.size = t.size /\ w.count = t.count /\ w.capacity = t.capacity
        /\ w.start = t.start /\ w.max = max /\ w.entries = t.entries
    BY <2>1 DEF Tables
  <2>3. u = Evict(w, max)
    BY <1>3 DEF SetMax
  <2> HIDE DEF w
  <2>4. \A i : Place(w, i) = Place(t, i) /\ At(w, i) = At(t, i)
    BY <2>2 DEF Place, At
  <2>5. Ring(w)
    BY <1>1, <2>2, <2>4 DEF Ring
  <2>6. AsList(w) = l
    BY <2>2, <2>4 DEF AsList
  <2>7. Accounted(w)
    <3>1. SumOfSizes(w) = List!Total(AsList(w), w.count) /\ SumOfSizes(t) = List!Total(l, t.count)
      BY <1>1, <2>5, ListOfRing
    <3> QED
      BY <1>1, <2>2, <2>5, <2>6, <3>1 DEF Accounted
  <2>8. Accounted(u) /\ u.max = w.max /\ u.size <= max /\ AsList(u) = List!Newest(AsList(w), max)
    BY <2>3, <2>7, EvictFacts
  <2> QED
    BY <2>2, <2>6, <2>8 DEF TableInv
<1> QED
  BY <1>2, <1>3

\* What the invariant of a table says is what the property says.
LEMMA CleanRing ==
  ASSUME NEW t, TableInv(t), NULL \notin Entry
  PROVE  RingIsClean(t)
<1>1. Ring(t) /\ t.size = SumOfSizes(t) /\ t.size <= t.max
  BY DEF TableInv, Accounted
<1>2. PICK c \in Nat, s \in Nat, n \in Nat : c = t.capacity /\ s = t.start /\ n = t.count
  BY <1>1 DEF Ring, Tables
<1>3. n <= c
  BY <1>1, <1>2 DEF Ring
<1>4. ASSUME NEW i \in Slots(c)
      PROVE  (t.entries[i] # NULL) <=> (\E k \in 0..(n - 1) : i = (s + k) % c)
  <2>1. \A k \in 0..(n - 1) : (s + k) % c = Place(t, k)
    <3>1. \A k \in 0..(n - 1) : k \in 0..(t.capacity - 1) /\ t.start < t.capacity
      BY <1>1, <1>2, <1>3 DEF Ring
    <3>2. t \in Tables
      BY <1>1 DEF Ring
    <3> QED
      BY <1>2, <3>1, <3>2, PlaceIsModulo
  <2>2. \A k \in 0..(n - 1) : t.entries[Place(t, k)] # NULL
    BY <1>1, <1>2 DEF Ring
  <2>3. (\A k \in 0..(n - 1) : Place(t, k) # i) => t.entries[i] = NULL
    BY <1>1, <1>2 DEF Ring
  <2> QED
    BY <2>1, <2>2, <2>3
<1> QED
  BY <1>1, <1>2, <1>3, <1>4 DEF RingIsClean

-----------------------------------------------------------------------------
(* What is written are octets.                                             *)

Bit == {0, 1}
Text == Seq(DOMAIN Code)

LEMMA TextIsOctets == Text \subseteq Seq(Octets)
BY StringAssumption DEF Text, Octets

LEMMA FieldIsEntry == Fields \subseteq Entry
<1> SUFFICES ASSUME NEW f \in Fields PROVE f \in Entry
  OBVIOUS
<1>1. f \in [key : Text, value : Text]
  BY StringAssumption DEF Text
<1> QED
  BY <1>1, TextIsOctets DEF Entry

\* The recursive function of a number's further octets exists.
LEMMA RestExists ==
  \E r : r = [v \in Nat |-> IF v >= 128 THEN <<128 + (v % 128)>> \o r[v \div 128] ELSE <<v>>]
<1> DEFINE G(g, v) == IF v >= 128 THEN <<128 + (v % 128)>> \o g[v \div 128] ELSE <<v>>
           Upto(g, k) == g = [v \in 0..k |-> G(g, v)]
           K(k) == CHOOSE g : Upto(g, k)
<1>1. \A v \in Nat : v >= 128 => v \div 128 \in Nat /\ v \div 128 < v
  OBVIOUS
<1>2. ASSUME NEW N \in Nat PROVE \E g : Upto(g, N)
  <2> DEFINE T == {k \in 0..N : \E g : Upto(g, k)}
  <2>1. 0 \in T
    <3>1. Upto([v \in 0..0 |-> <<v>>], 0)
      OBVIOUS
    <3>2. \E g : Upto(g, 0)
      BY <3>1
    <3> HIDE DEF Upto
    <3> QED
      BY <3>2
  <2>2. ASSUME NEW k \in 0..(N - 1), k \in T PROVE k + 1 \in T
    <3>1. k + 1 \in 0..N /\ k \in Nat
      OBVIOUS
    <3>2. PICK g : Upto(g, k)
      BY <2>2
    <3> DEFINE h == [v \in 0..(k + 1) |-> IF v <= k THEN g[v] ELSE G(g, k + 1)]
    <3>3. \A v \in 0..k : h[v] = g[v]
      BY <3>1
    <3>4. ASSUME NEW v \in 0..(k + 1) PROVE h[v] = G(g, v)
      <4>1. CASE v <= k
        <5>1. v \in 0..k
          BY <4>1
        <5>2. h[v] = g[v]
          BY <3>3, <5>1
        <5>3. g[v] = G(g, v)
          BY <3>2, <5>1
        <5> QED
          BY <5>2, <5>3
      <4>2. CASE ~(v <= k)
        <5>1. v = k + 1
          BY <3>1, <4>2
        <5> HIDE DEF G
        <5>2. h[v] = G(g, k + 1)
          BY <4>2
        <5> QED
          BY <5>1, <5>2
      <4> QED
        BY <4>1, <4>2
    <3>5. ASSUME NEW v \in 0..(k + 1) PROVE G(h, v) = G(g, v)
      <4>1. v >= 128 => v \div 128 \in 0..k
        BY <1>1, <3>1
      <4> HIDE DEF h
      <4> QED
        BY <3>3, <4>1
    <3>6. h = [v \in 0..(k + 1) |-> h[v]]
      OBVIOUS
    <3>7. Upto(h, k + 1)
      <4> HIDE DEF h, G
      <4>1. \A v \in 0..(k + 1) : h[v] = G(h, v)
        BY <3>4, <3>5
      <4> QED
        BY <3>6, <4>1
    <3>8. \E f : Upto(f, k + 1)
      BY <3>7
    <3> HIDE DEF Upto
    <3> QED
      BY <3>1, <3>8
  <2>3. N \in T
    <3> HIDE DEF T
    <3>1. \A n \in 0..N : n \in T
      BY <2>1, <2>2, LoopInduction
    <3> QED
      BY <3>1
  <2> HIDE DEF Upto
  <2> QED
    BY <2>3
<1>3. \A k \in Nat : Upto(K(k), k)
  <2> HIDE DEF Upto
  <2> QED
    BY <1>2
<1> HIDE DEF K
\* Two of these functions agree where both are defined.
<1>4. ASSUME NEW a \in Nat, NEW b \in Nat, NEW N \in Nat, N <= a, N <= b
      PROVE  \A v \in 0..N : K(a)[v] = K(b)[v]
  <2> DEFINE T == {k \in 0..N : \A v \in 0..k : K(a)[v] = K(b)[v]}
  <2>1. \A v \in 0..N : K(a)[v] = G(K(a), v) /\ K(b)[v] = G(K(b), v)
    <3>1. \A v \in 0..N : v \in 0..a /\ v \in 0..b
      BY <1>4
    <3> HIDE DEF G
    <3>2. (\A v \in 0..a : K(a)[v] = G(K(a), v)) /\ (\A v \in 0..b : K(b)[v] = G(K(b), v))
      BY <1>3
    <3> QED
      BY <3>1, <3>2
  <2>2. 0 \in T
    <3>1. \A g : G(g, 0) = <<0>>
      OBVIOUS
    <3> HIDE DEF G
    <3>2. K(a)[0] = K(b)[0]
      BY <1>4, <2>1, <3>1
    <3> QED
      BY <1>4, <3>2
  <2>3. ASSUME NEW k \in 0..(N - 1), k \in T PROVE k + 1 \in T
    <3>1. k + 1 \in 0..N /\ (k + 1 >= 128 => (k + 1) \div 128 \in 0..k)
      BY <1>1
    <3>2. G(K(a), k + 1) = G(K(b), k + 1)
      BY <2>3, <3>1
    <3> HIDE DEF G
    <3>3. K(a)[k + 1] = K(b)[k + 1]
      BY <2>1, <3>1, <3>2
    <3>4. \A v \in 0..(k + 1) : v \in 0..k \/ v = k + 1
      OBVIOUS
    <3> QED
      BY <2>3, <3>1, <3>3, <3>4
  <2> HIDE DEF T
  <2>4. \A n \in 0..N : n \in T
    BY <1>4, <2>2, <2>3, LoopInduction
  <2>5. N \in T
    BY <2>4
  <2> QED
    BY <2>5 DEF T
<1> DEFINE r == [v \in Nat |-> K(v)[v]]
<1>5. ASSUME NEW v \in Nat PROVE r[v] = G(r, v)
  <2>1. K(v)[v] = G(K(v), v)
    <3>1. v \in 0..v
      OBVIOUS
    <3> HIDE DEF G
    <3> QED
      BY <1>3, <3>1
  <2>2. v >= 128 => r[v \div 128] = K(v)[v \div 128]
    <3> SUFFICES ASSUME v >= 128 PROVE r[v \div 128] = K(v)[v \div 128]
      OBVIOUS
    <3>1. PICK w \in Nat : w = v \div 128 /\ w < v
      BY <1>1
    <3>2. w <= w /\ w <= v /\ w \in 0..w
      BY <3>1
    <3>3. K(w)[w] = K(v)[w]
      BY <1>4, <3>2
    <3> QED
      BY <3>1, <3>3
  <2>3. G(r, v) = G(K(v), v)
    <3> HIDE DEF r
    <3> QED
      BY <2>2
  <2> HIDE DEF G
  <2> QED
    BY <2>1, <2>3
<1>6. r = [v \in Nat |-> r[v]]
  OBVIOUS
<1>7. r = [v \in Nat |-> G(r, v)]
  <2> HIDE DEF r, G
  <2> QED
    BY <1>5, <1>6
<1> QED
  BY <1>7

\* The octet of the flags and the prefix, and the further ones.
LEMMA EncodeIntType ==
  ASSUME NEW flags \in Nat, NEW n \in Nat, NEW prefix, Mask(prefix) \in Nat,
         flags + Mask(prefix) <= 255
  PROVE  EncodeInt(flags, n, prefix) \in Seq(Octets)
<1> DEFINE Is(r) == r = [v \in Nat |-> IF v >= 128 THEN <<128 + (v % 128)>> \o r[v \div 128] ELSE <<v>>]
           rest == CHOOSE r : Is(r)
<1>1. PICK m \in Nat : m = Mask(prefix)
  OBVIOUS
<1>2. EncodeInt(flags, n, prefix) =
        IF n < Mask(prefix) THEN <<flags + n>> ELSE <<flags + Mask(prefix)>> \o rest[n - Mask(prefix)]
  BY DEF EncodeInt
<1>3. Is(rest)
  <2>1. \E r : Is(r)
    BY RestExists
  <2> HIDE DEF Is
  <2> QED
    BY <2>1
<1> HIDE DEF rest
<1>4. ASSUME NEW v \in Nat PROVE rest[v] \in Seq(Octets)
  <2> DEFINE T == {k \in 0..v : \A w \in 0..k : rest[w] \in Seq(Octets)}
  <2>1. \A w \in Nat : w < 128 => rest[w] \in Seq(Octets)
    <3> SUFFICES ASSUME NEW w \in Nat, w < 128 PROVE rest[w] \in Seq(Octets)
      OBVIOUS
    <3>1. rest[w] = <<w>> /\ w \in Octets
      BY <1>3 DEF Octets
    <3> QED
      BY <3>1
  <2>2. 0 \in T
    BY <2>1
  <2>3. ASSUME NEW k \in 0..(v - 1), k \in T PROVE k + 1 \in T
    <3>1. PICK w \in Nat : w = k + 1 /\ w \in 0..v
      OBVIOUS
    <3>2. CASE w < 128
      BY <2>1, <2>3, <3>1, <3>2
    <3>3. CASE ~(w < 128)
      <4>1. w >= 128 /\ w \div 128 \in 0..k /\ 128 + (w % 128) \in Octets
        BY <3>1, <3>3 DEF Octets
      <4>2. rest[w] = <<128 + (w % 128)>> \o rest[w \div 128]
        BY <1>3, <4>1
      <4>3. rest[w \div 128] \in Seq(Octets)
        BY <2>3, <4>1
      <4>4. rest[w] \in Seq(Octets)
        BY <4>1, <4>2, <4>3
      <4> QED
        BY <2>3, <3>1, <4>4
    <3> QED
      BY <3>2, <3>3
  <2> HIDE DEF T
  <2>4. \A k \in 0..v : k \in T
    BY <2>2, <2>3, LoopInduction
  <2>5. v \in T
    BY <2>4
  <2> QED
    BY <2>5 DEF T
<1>5. CASE n < m
  <2>1. flags + n \in Octets
    BY <1>1, <1>5 DEF Octets
  <2> QED
    BY <1>1, <1>2, <1>5, <2>1
<1>6. CASE ~(n < m)
  <2>1. flags + m \in Octets /\ n - m \in Nat
    BY <1>1, <1>6 DEF Octets
  <2>2. rest[n - m] \in Seq(Octets)
    BY <1>4, <2>1
  <2> QED
    BY <1>1, <1>2, <1>6, <2>1, <2>2
<1> QED
  BY <1>5, <1>6

LEMMA FlattenType ==
  ASSUME NEW N \in Nat, NEW q, DOMAIN q = 1..N, Len(q) = N, q = <<>> \/ N # 0,
         \A i \in 1..N : q[i] \in Seq(Bit)
  PROVE  FlattenSeq(q) \in Seq(Bit)
<1>1. CASE N = 0
  BY <1>1 DEF FlattenSeq
<1>2. CASE N # 0
  <2> DEFINE S == Seq(Bit)
             F == [n \in 1..(N - 1) |-> [x \in S |-> x \o q[n + 1]]]
             Is(g) == g = [i \in 1..N |-> IF i = 1 THEN q[i] ELSE g[i - 1] \o q[i]]
  <2>1. N - 1 \in Nat /\ q[1] \in S
    BY <1>2
  <2>2. \A n \in 1..(N - 1) : \A x \in S : F[n][x] = x \o q[n + 1] /\ F[n][x] \in S
    <3>1. \A n \in 1..(N - 1) : q[n + 1] \in Seq(Bit)
      OBVIOUS
    <3> QED
      BY <3>1
  <2> HIDE DEF F, S
  <2>3. LoopStays(N - 1, S, q[1], F)
    BY <2>1, <2>2 DEF LoopStays
  <2>4. PICK f : IsLoop(f, N - 1, S, q[1], F)
    BY <2>3, LoopExists
  <2>5. f[0] = q[1] /\ \A n \in 1..(N - 1) : f[n - 1] \in S /\ f[n] = f[n - 1] \o q[n + 1]
    <3>1. \A n \in 1..(N - 1) : n \in 0..(N - 1) /\ n - 1 \in 0..(N - 1) /\ n # 0
      OBVIOUS
    <3>2. 0 \in 0..(N - 1)
      BY <2>1
    <3> QED
      BY <2>2, <2>4, <3>1, <3>2 DEF IsLoop
  <2> DEFINE h == [i \in 1..N |-> f[i - 1]]
  <2>6. Is(h)
    <3>1. ASSUME NEW i \in 1..N PROVE h[i] = IF i = 1 THEN q[i] ELSE h[i - 1] \o q[i]
      <4>1. CASE i = 1
        BY <2>5, <4>1
      <4>2. CASE i # 1
        <5>1. i - 1 \in 1..(N - 1) /\ i - 1 \in 1..N /\ (i - 1) + 1 = i
          BY <4>2
        <5>2. h[i] = f[i - 1] /\ h[i - 1] = f[(i - 1) - 1]
          BY <5>1
        <5> HIDE DEF h
        <5> QED
          BY <2>5, <4>2, <5>1, <5>2
      <4> QED
        BY <4>1, <4>2
    <3>2. h = [i \in 1..N |-> h[i]]
      OBVIOUS
    <3> HIDE DEF h
    <3> QED
      BY <3>1, <3>2
  <2>7. PICK g : Is(g) /\ FlattenSeq(q) = g[N]
    <3>1. FlattenSeq(q) = (CHOOSE g : Is(g))[N]
      BY <1>2 DEF FlattenSeq
    <3> HIDE DEF Is
    <3>2. Is(CHOOSE g : Is(g))
      BY <2>6
    <3> QED
      BY <3>1, <3>2
  <2> DEFINE T == {n \in 0..(N - 1) : g[n + 1] \in Seq(Bit)}
  <2>8. 0 \in T
    BY <1>2, <2>7
  <2>9. ASSUME NEW n \in 0..((N - 1) - 1), n \in T PROVE n + 1 \in T
    <3>1. (n + 1) + 1 \in 1..N /\ (n + 1) + 1 # 1 /\ ((n + 1) + 1) - 1 = n + 1 /\ n + 1 \in 0..(N - 1)
      OBVIOUS
    <3>2. g[(n + 1) + 1] = g[n + 1] \o q[(n + 1) + 1] /\ g[n + 1] \in Seq(Bit) /\ q[(n + 1) + 1] \in Seq(Bit)
      BY <2>7, <2>9, <3>1
    <3>3. \A x, y \in Seq(Bit) : x \o y \in Seq(Bit)
      OBVIOUS
    <3>4. g[(n + 1) + 1] \in Seq(Bit)
      BY <3>2, <3>3
    <3> QED
      BY <3>1, <3>4
  <2> HIDE DEF T
  <2>10. \A n \in 0..(N - 1) : n \in T
    BY <2>1, <2>8, <2>9, LoopInduction
  <2>11. N - 1 \in T /\ (N - 1) + 1 = N
    BY <2>1, <2>10
  <2> QED
    BY <2>7, <2>11 DEF T
<1> QED
  BY <1>1, <1>2

LEMMA BitsType ==
  ASSUME NEW s \in Text
  PROVE  Bits(s) \in Seq(Bit) /\ EncodedSize(s) \in Nat
<1> DEFINE q == [i \in 1..Len(s) |-> Code[s[i]]]
<1>1. PICK N \in Nat : N = Len(s) /\ \A i \in 1..N : s[i] \in DOMAIN Code
  BY DEF Text
<1>2. DOMAIN q = 1..N /\ \A i \in 1..N : q[i] \in Seq(Bit)
  BY <1>1, StringAssumption DEF Bit
<1>3. Len(q) = N /\ (q = <<>> \/ N # 0)
  <2>1. q \in [1..N -> Seq(Bit)]
    BY <1>1, <1>2
  <2>2. q \in Seq(Seq(Bit)) /\ Len(q) = N
    BY <2>1
  <2> HIDE DEF q
  <2> QED
    BY <2>2
<1>4. Bits(s) = FlattenSeq(q)
  BY DEF Bits
<1> HIDE DEF q
<1>5. Bits(s) \in Seq(Bit)
  BY <1>2, <1>3, <1>4, FlattenType
<1>6. PICK n \in Nat : n = Len(Bits(s))
  BY <1>5
<1>7. EncodedSize(s) = (n + 7) \div 8
  BY <1>6 DEF EncodedSize
<1> QED
  BY <1>5, <1>7

LEMMA OctetType ==
  ASSUME NEW b \in [1..8 -> Bit]
  PROVE  Octet(b) \in Octets
<1> DEFINE F == [n \in 1..8 |-> [x \in Nat |-> 2 * x + b[n]]]
           Is(g) == g = [n \in 0..8 |-> IF n = 0 THEN 0 ELSE 2 * g[n - 1] + b[n]]
<1>1. \A n \in 1..8 : b[n] \in Nat
  BY DEF Bit
<1>2. ASSUME NEW n \in 1..8, NEW x \in Nat
      PROVE  F[n][x] = 2 * x + b[n] /\ F[n][x] \in Nat
  <2>1. F[n][x] = 2 * x + b[n]
    BY Zenon
  <2>2. PICK y \in Nat : y = b[n]
    BY <1>1
  <2> HIDE DEF F
  <2> QED
    BY <2>1, <2>2
<1> HIDE DEF F
<1>3. LoopStays(8, Nat, 0, F)
  BY <1>2 DEF LoopStays
<1>4. PICK f : IsLoop(f, 8, Nat, 0, F)
  BY <1>3, LoopExists
<1>5. Is(f)
  <2>1. ASSUME NEW n \in 0..8 PROVE f[n] = IF n = 0 THEN 0 ELSE 2 * f[n - 1] + b[n]
    <3>1. CASE n = 0
      BY <1>4, <3>1 DEF IsLoop
    <3>2. CASE n # 0
      <4>1. n \in 1..8 /\ n - 1 \in 0..8
        BY <3>2
      <4>2. f[n] = F[n][f[n - 1]] /\ f[n - 1] \in Nat
        BY <1>4, <3>2, <4>1 DEF IsLoop
      <4> QED
        BY <1>2, <3>2, <4>1, <4>2
    <3> QED
      BY <3>1, <3>2
  <2>2. f = [n \in 0..8 |-> f[n]]
    BY <1>4 DEF IsLoop
  <2> QED
    BY <2>1, <2>2
<1>6. PICK g : Is(g) /\ Octet(b) = g[8]
  <2>1. Octet(b) = (CHOOSE g : Is(g))[8]
    BY DEF Octet
  <2> HIDE DEF Is
  <2>2. Is(CHOOSE g : Is(g))
    BY <1>5
  <2> QED
    BY <2>1, <2>2
<1>7. b[1] \in 0..1 /\ b[2] \in 0..1 /\ b[3] \in 0..1 /\ b[4] \in 0..1
      /\ b[5] \in 0..1 /\ b[6] \in 0..1 /\ b[7] \in 0..1 /\ b[8] \in 0..1
  BY DEF Bit
<1>8. g[0] = 0 /\ \A n \in 1..8 : g[n] = 2 * g[n - 1] + b[n]
  <2>1. \A n \in 1..8 : n \in 0..8 /\ n # 0
    OBVIOUS
  <2> QED
    BY <1>6, <2>1
<1>9. /\ g[1] = 2 * g[0] + b[1] /\ g[2] = 2 * g[1] + b[2] /\ g[3] = 2 * g[2] + b[3]
      /\ g[4] = 2 * g[3] + b[4] /\ g[5] = 2 * g[4] + b[5] /\ g[6] = 2 * g[5] + b[6]
      /\ g[7] = 2 * g[6] + b[7] /\ g[8] = 2 * g[7] + b[8]
  BY <1>8
<1> HIDE DEF Is
<1>10. g[1] \in 0..1
  BY <1>7, <1>8, <1>9
<1>11. g[2] \in 0..3
  BY <1>7, <1>9, <1>10
<1>12. g[3] \in 0..7
  BY <1>7, <1>9, <1>11
<1>13. g[4] \in 0..15
  BY <1>7, <1>9, <1>12
<1>14. g[5] \in 0..31
  BY <1>7, <1>9, <1>13
<1>15. g[6] \in 0..63
  BY <1>7, <1>9, <1>14
<1>16. g[7] \in 0..127
  BY <1>7, <1>9, <1>15
<1>17. g[8] \in 0..255
  BY <1>7, <1>9, <1>16
<1> QED
  BY <1>6, <1>17 DEF Octets

LEMMA HuffmanEncodeType ==
  ASSUME NEW s \in Text
  PROVE  HuffmanEncode(s) \in Seq(Octets)
<1> DEFINE bits == Bits(s)
           B(i) == IF i <= Len(bits) THEN bits[i] ELSE 1
           O(n) == [k \in 1..8 |-> B(8 * (n - 1) + k)]
<1>1. PICK z \in Nat : z = EncodedSize(s)
  BY BitsType
<1>2. bits \in Seq(Bit)
  BY BitsType
<1> HIDE DEF bits
<1>3. \A i \in Nat \ {0} : B(i) \in Bit
  BY <1>2 DEF Bit
<1> HIDE DEF B
<1>4. ASSUME NEW n \in 1..z PROVE O(n) \in [1..8 -> Bit]
  <2>1. \A k \in 1..8 : 8 * (n - 1) + k \in Nat \ {0}
    OBVIOUS
  <2> QED
    BY <1>3, <2>1
<1> HIDE DEF O
<1>5. \A n \in 1..z : Octet(O(n)) \in Octets
  BY <1>4, OctetType
<1>6. HuffmanEncode(s) = [n \in 1..z |-> Octet(O(n))]
  BY <1>1 DEF HuffmanEncode, O, B, bits
<1>7. HuffmanEncode(s) \in [1..z -> Octets]
  BY <1>5, <1>6
<1> QED
  BY <1>7

LEMMA MaskValues == Mask(4) = 15 /\ Mask(5) = 31 /\ Mask(6) = 63 /\ Mask(7) = 127
BY DEF Mask

\* The flags and prefixes in use.
LEMMA EncodeIntTypes ==
  ASSUME NEW n \in Nat
  PROVE  /\ EncodeInt(0, n, 7) \in Seq(Octets) /\ EncodeInt(128, n, 7) \in Seq(Octets)
         /\ EncodeInt(16, n, 4) \in Seq(Octets) /\ EncodeInt(64, n, 6) \in Seq(Octets)
         /\ EncodeInt(32, n, 5) \in Seq(Octets) /\ EncodeInt(0, n, 4) \in Seq(Octets)
<1>1. /\ Mask(4) \in Nat /\ Mask(5) \in Nat /\ Mask(6) \in Nat /\ Mask(7) \in Nat
      /\ 0 + Mask(7) <= 255 /\ 128 + Mask(7) <= 255 /\ 16 + Mask(4) <= 255
      /\ 64 + Mask(6) <= 255 /\ 32 + Mask(5) <= 255 /\ 0 + Mask(4) <= 255
  BY MaskValues
<1>2. \A flags \in Nat : \A prefix :
        Mask(prefix) \in Nat /\ flags + Mask(prefix) <= 255 =>
            EncodeInt(flags, n, prefix) \in Seq(Octets)
  BY EncodeIntType
<1>3. 0 \in Nat /\ 128 \in Nat /\ 16 \in Nat /\ 64 \in Nat /\ 32 \in Nat
  OBVIOUS
<1> QED
  BY <1>1, <1>2, <1>3, Zenon

LEMMA ConcatOctets ==
  ASSUME NEW a \in Seq(Octets), NEW b \in Seq(Octets)
  PROVE  a \o b \in Seq(Octets)
OBVIOUS

LEMMA PlainType ==
  ASSUME NEW s \in Text
  PROVE  Plain(s) \in Seq(Octets)
<1>1. s \in Seq(Octets)
  BY TextIsOctets
<1>2. PICK n \in Nat : n = Len(s)
  BY <1>1
<1>3. EncodeInt(0, n, 7) \in Seq(Octets)
  BY EncodeIntTypes
<1> QED
  BY <1>1, <1>2, <1>3, ConcatOctets DEF Plain

LEMMA HuffmanType ==
  ASSUME NEW s \in Text
  PROVE  Huffman(s) \in Seq(Octets)
<1>1. PICK n \in Nat : n = EncodedSize(s)
  BY BitsType
<1>2. EncodeInt(128, n, 7) \in Seq(Octets)
  BY EncodeIntTypes
<1>3. HuffmanEncode(s) \in Seq(Octets)
  BY HuffmanEncodeType
<1> QED
  BY <1>1, <1>2, <1>3, ConcatOctets DEF Huffman

\* Each representation of a field is a sequence of octets.
LEMMA RepresentationTypes ==
  ASSUME NEW f \in Fields, NEW i \in Nat, NEW usage
  PROVE  /\ Indexed(i) \in Seq(Octets)
         /\ NeverIndexed1(i, f, usage) \in Seq(Octets)
         /\ NeverIndexed2(f, usage) \in Seq(Octets)
         /\ Incremental1(i, f, usage) \in Seq(Octets)
         /\ Incremental2(f, usage) \in Seq(Octets)
         /\ <<0>> \o Plain(f.key) \o Plain(f.value) \in Seq(Octets)
<1>1. f.key \in Text /\ f.value \in Text
  BY StringAssumption DEF Text
<1>2. /\ Plain(f.key) \in Seq(Octets) /\ Plain(f.value) \in Seq(Octets)
      /\ Huffman(f.key) \in Seq(Octets) /\ Huffman(f.value) \in Seq(Octets)
  BY <1>1, PlainType, HuffmanType
<1>3. /\ EncodeInt(128, i, 7) \in Seq(Octets) /\ EncodeInt(16, i, 4) \in Seq(Octets)
      /\ EncodeInt(64, i, 6) \in Seq(Octets)
  BY EncodeIntTypes
<1>4. <<0>> \in Seq(Octets) /\ <<16>> \in Seq(Octets) /\ <<64>> \in Seq(Octets)
  BY DEF Octets
<1>5. Indexed(i) \in Seq(Octets)
  BY <1>3 DEF Indexed
<1>6. NeverIndexed1(i, f, usage) \in Seq(Octets)
  BY <1>2, <1>3, ConcatOctets DEF NeverIndexed1, NeverIndexed1Plain, NeverIndexed1Huffman
<1>7. NeverIndexed2(f, usage) \in Seq(Octets)
  BY <1>2, <1>4, ConcatOctets DEF NeverIndexed2, NeverIndexed2Plain, NeverIndexed2Huffman
<1>8. Incremental1(i, f, usage) \in Seq(Octets)
  BY <1>2, <1>3, ConcatOctets DEF Incremental1, Incremental1Plain, Incremental1Huffman
<1>9. Incremental2(f, usage) \in Seq(Octets)
  BY <1>2, <1>4, ConcatOctets DEF Incremental2, Incremental2Plain, Incremental2Huffman
<1>10. <<0>> \o Plain(f.key) \o Plain(f.value) \in Seq(Octets)
  BY <1>2, <1>4, ConcatOctets
<1> QED
  BY <1>5, <1>6, <1>7, <1>8, <1>9, <1>10

LEMMA FirstIsIn ==
  ASSUME NEW T \in SUBSET Nat, T # {}
  PROVE  First(T) \in T
<1>1. \E x \in T : \A y \in T : x <= y
  BY LeastNat
<1> QED
  BY <1>1 DEF First

LEMMA FindInTablesType ==
  ASSUME NEW f, NEW useAll, Ring(enc)
  PROVE  FindInTables(f, useAll).index \in Nat
<1> DEFINE table == StaticTable \o (IF useAll THEN AsList(enc) ELSE <<>>)
           keys  == {i \in 1..Len(table) : table[i].key = f.key}
           all   == {i \in keys : table[i].value = f.value}
<1>1. keys \in SUBSET Nat /\ all \in SUBSET Nat
  OBVIOUS
<1>2. FindInTables(f, useAll) =
        CASE all # {}  -> [type |-> "AllFound", index |-> First(all)]
          [] all = {} /\ keys # {} -> [type |-> "KeyFound", index |-> First(keys)]
          [] OTHER     -> [type |-> "NotFound", index |-> 0]
  BY DEF FindInTables
<1> HIDE DEF all, keys
<1>3. all # {} => First(all) \in Nat
  BY <1>1, FirstIsIn
<1>4. keys # {} => First(keys) \in Nat
  BY <1>1, FirstIsIn
<1>5. CASE all # {}
  BY <1>2, <1>3, <1>5
<1>6. CASE all = {} /\ keys # {}
  BY <1>2, <1>4, <1>6
<1>7. CASE all = {} /\ keys = {}
  BY <1>2, <1>7
<1> QED
  BY <1>5, <1>6, <1>7

LEMMA EncodeFieldType ==
  ASSUME NEW f \in Fields, NEW options, Ring(enc)
  PROVE  EncodeField(f, options).data \in Seq(Octets)
<1> DEFINE found == FindInTables(f, options.type = "AllTables")
           add == ShouldAdd(f, options.add)
           x == EncodeExtended(f, options)
<1>1. PICK i \in Nat : i = found.index
  BY FindInTablesType
<1>2. /\ Indexed(i) \in Seq(Octets)
      /\ NeverIndexed1(i, f, options.huffman) \in Seq(Octets)
      /\ NeverIndexed2(f, options.huffman) \in Seq(Octets)
      /\ Incremental1(i, f, options.huffman) \in Seq(Octets)
      /\ Incremental2(f, options.huffman) \in Seq(Octets)
  BY RepresentationTypes
<1>3. x = CASE found.type = "AllFound" -> [data |-> Indexed(found.index), add |-> FALSE]
            [] found.type = "KeyFound" ->
                  [add |-> add,
                   data |-> IF add THEN Incremental1(found.index, f, options.huffman)
                            ELSE NeverIndexed1(found.index, f, options.huffman)]
            [] OTHER ->
                  [add |-> add,
                   data |-> IF add THEN Incremental2(f, options.huffman)
                            ELSE NeverIndexed2(f, options.huffman)]
  BY DEF EncodeExtended
<1> HIDE DEF found, add, x
<1>4. x.data \in Seq(Octets)
  <2>1. CASE found.type = "AllFound"
    BY <1>1, <1>2, <1>3, <2>1
  <2>2. CASE found.type = "KeyFound"
    <3>1. found.type # "AllFound"
      BY <2>2
    <3> QED
      BY <1>1, <1>2, <1>3, <2>2, <3>1
  <2>3. CASE found.type # "AllFound" /\ found.type # "KeyFound"
    BY <1>1, <1>2, <1>3, <2>3
  <2> QED
    BY <2>1, <2>2, <2>3
<1>5. EncodeField(f, options) = IF options.type = "NoTable"
        THEN [data |-> NeverIndexed2(f, options.huffman), add |-> FALSE] ELSE x
  BY DEF EncodeField, x
<1> QED
  BY <1>2, <1>4, <1>5

-----------------------------------------------------------------------------
(* What is read.                                                           *)

LEMMA TwoToType ==
  ASSUME NEW m \in Nat
  PROVE  TwoTo(m) \in Nat
<1> DEFINE F == [n \in 1..m |-> [x \in Nat |-> 2 * x]]
           Is(g) == g = [i \in 0..m |-> IF i = 0 THEN 1 ELSE 2 * g[i - 1]]
<1>1. \A n \in 1..m : \A x \in Nat : F[n][x] = 2 * x
  OBVIOUS
<1> HIDE DEF F
<1>2. LoopStays(m, Nat, 1, F)
  BY <1>1 DEF LoopStays
<1>3. PICK f : IsLoop(f, m, Nat, 1, F)
  BY <1>2, LoopExists
<1>4. Is(f)
  <2>1. ASSUME NEW n \in 0..m PROVE f[n] = IF n = 0 THEN 1 ELSE 2 * f[n - 1]
    <3>1. CASE n = 0
      BY <1>3, <3>1 DEF IsLoop
    <3>2. CASE n # 0
      <4>1. n \in 1..m /\ n - 1 \in 0..m
        BY <3>2
      <4>2. f[n] = F[n][f[n - 1]] /\ f[n - 1] \in Nat
        BY <1>3, <3>2, <4>1 DEF IsLoop
      <4> QED
        BY <1>1, <3>2, <4>1, <4>2
    <3> QED
      BY <3>1, <3>2
  <2>2. f = [n \in 0..m |-> f[n]]
    BY <1>3 DEF IsLoop
  <2> QED
    BY <2>1, <2>2
<1>5. PICK g : Is(g) /\ TwoTo(m) = g[m]
  <2>1. TwoTo(m) = (CHOOSE g : Is(g))[m]
    BY DEF TwoTo
  <2> HIDE DEF Is
  <2>2. Is(CHOOSE g : Is(g))
    BY <1>4
  <2> QED
    BY <2>1, <2>2
<1> DEFINE T == {n \in 0..m : g[n] \in Nat}
<1>6. 0 \in T
  BY <1>5
<1>7. ASSUME NEW n \in 0..(m - 1), n \in T PROVE n + 1 \in T
  <2>1. n + 1 \in 0..m /\ n + 1 # 0 /\ (n + 1) - 1 = n
    OBVIOUS
  <2>2. g[n + 1] = 2 * g[n] /\ g[n] \in Nat
    BY <1>5, <1>7, <2>1
  <2> QED
    BY <2>1, <2>2
<1> HIDE DEF T
<1>8. \A n \in 0..m : n \in T
  BY <1>6, <1>7, LoopInduction
<1>9. m \in T
  BY <1>8
<1> QED
  BY <1>5, <1>9 DEF T

\* A number that is read is a natural number, and the position moves on.
LEMMA DecodeIntType ==
  ASSUME NEW data \in Seq(Octets), NEW pos \in Nat, pos < Len(data), NEW prefix \in {4, 5, 6, 7}
  PROVE  LET d == DecodeInt(data, pos, prefix) IN d.value \in Nat /\ d.pos \in Nat
<1> DEFINE first == data[pos + 1] % 2^prefix
           ends  == {n \in 1..8 : pos + 1 + n <= Len(data) /\ data[pos + 1 + n] < 128}
           last  == First(ends)
           Is(g) == g = [n \in 0..last |->
                          IF n = 0 THEN first
                          ELSE g[n - 1] + (data[pos + 1 + n] % 128) * TwoTo(7 * (n - 1))]
<1>1. first \in Nat
  <2>1. PICK o \in Nat : o = data[pos + 1]
    BY DEF Octets
  <2>2. 2^4 = 16 /\ 2^5 = 32 /\ 2^6 = 64 /\ 2^7 = 128
    OBVIOUS
  <2>3. o % 16 \in Nat /\ o % 32 \in Nat /\ o % 64 \in Nat /\ o % 128 \in Nat
    OBVIOUS
  <2> QED
    BY <2>1, <2>2, <2>3, ZenonT(40)
<1>2. DecodeInt(data, pos, prefix) =
        IF first < Mask(prefix) THEN [ok |-> TRUE, value |-> first, pos |-> pos + 1]
        ELSE IF ends = {} THEN [ok |-> FALSE, value |-> 0, pos |-> pos]
        ELSE [ok |-> TRUE, value |-> (CHOOSE g : Is(g))[last], pos |-> pos + 1 + last]
  BY DEF DecodeInt
<1> HIDE DEF first
<1>3. CASE ends # {}
  <2>1. last \in ends
    <3>1. ends \in SUBSET Nat
      OBVIOUS
    <3> HIDE DEF ends
    <3> QED
      BY <1>3, <3>1, FirstIsIn
  <2> HIDE DEF last
  <2>2. PICK N \in Nat : N = last /\ pos + 1 + N <= Len(data)
    BY <2>1
  <2> HIDE DEF ends
  <2> DEFINE W(n) == (data[pos + 1 + n] % 128) * TwoTo(7 * (n - 1))
             F == [n \in 1..N |-> [x \in Nat |-> x + W(n)]]
  <2>3. ASSUME NEW n \in 1..N PROVE W(n) \in Nat
    <3>1. data[pos + 1 + n] \in Octets
      BY <2>2
    <3>2. PICK o \in Nat : o = data[pos + 1 + n] % 128
      <4>1. PICK y \in Octets : y = data[pos + 1 + n]
        BY <3>1
      <4>2. y % 128 \in Nat
        BY DEF Octets
      <4> QED
        BY <4>1, <4>2
    <3>3. PICK w \in Nat : w = TwoTo(7 * (n - 1))
      <4>1. 7 * (n - 1) \in Nat
        OBVIOUS
      <4> QED
        BY <4>1, TwoToType
    <3>4. W(n) = o * w
      BY <3>2, <3>3
    <3>5. o * w \in Nat
      OBVIOUS
    <3> QED
      BY <3>4, <3>5
  <2> HIDE DEF W
  <2>4. ASSUME NEW n \in 1..N, NEW x \in Nat PROVE F[n][x] = x + W(n) /\ F[n][x] \in Nat
    BY <2>3
  <2> HIDE DEF F
  <2>5. LoopStays(N, Nat, first, F)
    BY <1>1, <2>4 DEF LoopStays
  <2>6. PICK f : IsLoop(f, N, Nat, first, F)
    BY <2>5, LoopExists
  <2> DEFINE Ws(g) == g = [n \in 0..N |-> IF n = 0 THEN first ELSE g[n - 1] + W(n)]
  <2>7. ASSUME NEW g PROVE Is(g) <=> Ws(g)
    BY <2>2 DEF W
  <2>8. Ws(f)
    <3>1. ASSUME NEW n \in 0..N PROVE f[n] = IF n = 0 THEN first ELSE f[n - 1] + W(n)
      <4>1. CASE n = 0
        BY <2>6, <4>1 DEF IsLoop
      <4>2. CASE n # 0
        <5>1. n \in 1..N /\ n - 1 \in 0..N
          BY <4>2
        <5>2. f[n] = F[n][f[n - 1]] /\ f[n - 1] \in Nat
          BY <2>6, <4>2, <5>1 DEF IsLoop
        <5> QED
          BY <2>4, <4>2, <5>1, <5>2
      <4> QED
        BY <4>1, <4>2
    <3>2. f = [n \in 0..N |-> f[n]]
      BY <2>6 DEF IsLoop
    <3> QED
      BY <3>1, <3>2
  <2>9. PICK g : Ws(g) /\ g = CHOOSE h : Is(h)
    <3> HIDE DEF Is, Ws
    <3>1. Is(CHOOSE h : Is(h))
      BY <2>7, <2>8
    <3> QED
      BY <2>7, <3>1
  <2> DEFINE T == {n \in 0..N : g[n] \in Nat}
  <2>10. 0 \in T
    BY <1>1, <2>9
  <2>11. ASSUME NEW n \in 0..(N - 1), n \in T PROVE n + 1 \in T
    <3>1. n + 1 \in 0..N /\ n + 1 \in 1..N /\ n + 1 # 0 /\ (n + 1) - 1 = n
      OBVIOUS
    <3>2. g[n + 1] = g[n] + W(n + 1) /\ g[n] \in Nat /\ W(n + 1) \in Nat
      BY <2>3, <2>9, <2>11, <3>1
    <3> QED
      BY <3>1, <3>2
  <2> HIDE DEF T, Is, Ws
  <2>12. \A n \in 0..N : n \in T
    BY <2>10, <2>11, LoopInduction
  <2>13. N \in T
    BY <2>12
  <2>14. g[N] \in Nat
    BY <2>13 DEF T
  <2>15. pos + 1 + N \in Nat
    OBVIOUS
  <2> QED
    BY <1>1, <1>2, <1>3, <2>2, <2>9, <2>14, <2>15
<1>4. CASE ends = {}
  <2> HIDE DEF ends, last, Is
  <2> QED
    BY <1>1, <1>2, <1>4
<1> QED
  BY <1>3, <1>4

\* A Huffman coded string is read as a string of characters.
LEMMA HuffmanDecodeType ==
  ASSUME NEW octets \in Seq(Octets)
  PROVE  HuffmanDecode(octets).value \in Text /\ HuffmanDecode(octets).ok \in BOOLEAN
<1>1. CASE octets = <<>>
  <2>1. <<>> \in Text
    BY DEF Text
  <2> QED
    BY <1>1, <2>1 DEF HuffmanDecode
<1>2. CASE octets # <<>>
  <2>1. PICK N \in Nat : N = 8 * Len(octets)
    OBVIOUS
  <2> DEFINE B == {BitAt(octets, n) : n \in 1..N}
             S == [ok : BOOLEAN, node : Seq(B), value : Text]
             start == [ok |-> TRUE, node |-> <<>>, value |-> <<>>]
             F == [n \in 1..N |-> [x \in S |-> Walk(x, BitAt(octets, n), Len(octets))]]
  <2>2. ASSUME NEW x \in S, NEW b \in B PROVE Walk(x, b, Len(octets)) \in S
    <3> DEFINE node == Append(x.node, b)
               ends == {c \in DOMAIN Code : Code[c] = node}
    <3> HIDE DEF B
    <3>1. x.node \in Seq(B) /\ x.value \in Text /\ x.ok \in BOOLEAN
      OBVIOUS
    <3>2. node \in Seq(B) /\ <<>> \in Seq(B)
      BY <3>1
    <3>3. CASE ~x.ok
      <4>1. Walk(x, b, Len(octets)) = x
        BY <3>3 DEF Walk
      <4> QED
        BY <4>1
    <3>4. CASE x.ok /\ ends # {}
      <4> DEFINE c == CHOOSE c \in ends : TRUE
                 fits == Len(x.value) + 1 < MemorySize(Len(octets))
      <4>1. c \in DOMAIN Code
        BY <3>4
      <4>2. Walk(x, b, Len(octets)) = [ok |-> fits, node |-> <<>>, value |-> Append(x.value, c)]
        BY <3>4 DEF Walk
      <4>3. Append(x.value, c) \in Text
        <5> HIDE DEF c
        <5> QED
          BY <3>1, <4>1 DEF Text
      <4>4. fits \in BOOLEAN
        OBVIOUS
      <4> HIDE DEF c, fits
      <4> QED
        BY <3>2, <4>2, <4>3, <4>4
    <3>5. CASE x.ok /\ ends = {}
      <4> DEFINE short == Len(node) < EosBits
      <4>1. Walk(x, b, Len(octets)) = [x EXCEPT !.ok = short, !.node = node]
        BY <3>5 DEF Walk
      <4>2. short \in BOOLEAN
        OBVIOUS
      <4> HIDE DEF short, node
      <4> QED
        BY <3>2, <4>1, <4>2
    <3> QED
      BY <3>1, <3>3, <3>4, <3>5
  <2>3. \A n \in 1..N : BitAt(octets, n) \in B
    OBVIOUS
  <2>4. start \in S
    <3>1. <<>> \in Seq(B) /\ <<>> \in Text /\ TRUE \in BOOLEAN
      BY DEF Text
    <3> HIDE DEF B
    <3> QED
      BY <3>1
  <2> HIDE DEF B, S, start
  <2>5. \A n \in 1..N : \A x \in S : F[n][x] = Walk(x, BitAt(octets, n), Len(octets)) /\ F[n][x] \in S
    BY <2>2, <2>3
  <2> HIDE DEF F
  <2>6. LoopStays(N, S, start, F)
    BY <2>4, <2>5 DEF LoopStays
  <2>7. PICK f : IsLoop(f, N, S, start, F)
    BY <2>6, LoopExists
  <2> DEFINE Is(g) == g = [n \in 0..N |->
                            IF n = 0 THEN start ELSE Walk(g[n - 1], BitAt(octets, n), Len(octets))]
  <2>8. Is(f)
    <3>1. ASSUME NEW n \in 0..N
          PROVE  f[n] = IF n = 0 THEN start ELSE Walk(f[n - 1], BitAt(octets, n), Len(octets))
      <4>1. CASE n = 0
        BY <2>7, <4>1 DEF IsLoop
      <4>2. CASE n # 0
        <5>1. n \in 1..N /\ n - 1 \in 0..N
          BY <4>2
        <5>2. f[n] = F[n][f[n - 1]] /\ f[n - 1] \in S
          BY <2>7, <4>2, <5>1 DEF IsLoop
        <5> QED
          BY <2>5, <4>2, <5>1, <5>2
      <4> QED
        BY <4>1, <4>2
    <3>2. f = [n \in 0..N |-> f[n]]
      BY <2>7 DEF IsLoop
    <3> QED
      BY <3>1, <3>2
  <2>9. PICK g : Is(g) /\ HuffmanDecode(octets) = g[N]
    <3>1. HuffmanDecode(octets) = (CHOOSE g : Is(g))[N]
      BY <1>2, <2>1 DEF HuffmanDecode, start
    <3> HIDE DEF Is
    <3>2. Is(CHOOSE g : Is(g))
      BY <2>8
    <3> QED
      BY <3>1, <3>2
  <2> DEFINE T == {n \in 0..N : g[n] \in S}
  <2>10. 0 \in T
    BY <2>4, <2>9
  <2>11. ASSUME NEW n \in 0..(N - 1), n \in T PROVE n + 1 \in T
    <3>1. n + 1 \in 0..N /\ n + 1 \in 1..N /\ n + 1 # 0 /\ (n + 1) - 1 = n
      OBVIOUS
    <3>2. g[n + 1] = Walk(g[n], BitAt(octets, n + 1), Len(octets)) /\ g[n] \in S
      BY <2>9, <2>11, <3>1
    <3> QED
      BY <2>2, <2>3, <3>1, <3>2
  <2> HIDE DEF T, Is
  <2>12. \A n \in 0..N : n \in T
    BY <2>10, <2>11, LoopInduction
  <2>13. N \in T
    BY <2>12
  <2>14. g[N] \in S
    BY <2>13 DEF T
  <2> QED
    BY <2>9, <2>14 DEF S
<1> QED
  BY <1>1, <1>2

LEMMA DecodeStringType ==
  ASSUME NEW data \in Seq(Octets), NEW pos \in Nat
  PROVE  LET d == DecodeString(data, pos) IN d.value \in Seq(Octets) /\ d.pos \in Nat
<1> DEFINE d      == DecodeString(data, pos)
           length == DecodeInt(data, pos, 7)
           end    == length.pos + length.value
           raw    == SubSeq(data, length.pos + 1, end)
           text   == HuffmanDecode(raw)
           valid  == /\ pos < Len(data) /\ length.ok
                     /\ length.pos < Len(data) /\ end <= Len(data)
<1>1. d = CASE ~valid -> [ok |-> FALSE, value |-> <<>>, pos |-> pos]
            [] valid /\ length.value = 0 -> [ok |-> TRUE, value |-> <<>>, pos |-> end]
            [] valid /\ length.value # 0 /\ data[pos + 1] >= 128 ->
                  [ok |-> text.ok, value |-> text.value, pos |-> IF text.ok THEN end ELSE pos]
            [] OTHER -> [ok |-> TRUE, value |-> raw, pos |-> end]
  BY DEF DecodeString
<1>2. <<>> \in Seq(Octets)
  OBVIOUS
<1>3. CASE ~valid
  <2> HIDE DEF valid, text, raw, end, length, d
  <2> QED
    BY <1>1, <1>2, <1>3 DEF d
<1>4. CASE valid
  <2>1. PICK n \in Nat, p \in Nat : n = length.value /\ p = length.pos
    <3>1. 7 \in {4, 5, 6, 7} /\ pos < Len(data)
      BY <1>4
    <3> HIDE DEF length
    <3>2. length.value \in Nat /\ length.pos \in Nat
      BY <3>1, DecodeIntType DEF length
    <3> QED
      BY <3>2
  <2> HIDE DEF length
  <2>2. end \in Nat /\ end = p + n /\ end <= Len(data)
    BY <1>4, <2>1
  <2>3. raw \in Seq(Octets)
    <3>1. p + 1 \in Nat /\ p + 1 >= 1 /\ p + n <= Len(data) /\ p + n \in Nat
      BY <2>2
    <3>2. SubSeq(data, p + 1, p + n) \in Seq(Octets)
      BY <3>1
    <3> QED
      BY <2>1, <2>2, <3>2
  <2> HIDE DEF raw, end
  <2>4. text.value \in Seq(Octets)
    BY <2>3, HuffmanDecodeType, TextIsOctets
  <2> HIDE DEF valid, text, d
  <2>5. CASE length.value = 0
    <3>1. d = [ok |-> TRUE, value |-> <<>>, pos |-> end]
      BY <1>1, <1>4, <2>5
    <3> QED
      BY <1>2, <2>2, <3>1 DEF d
  <2>6. CASE length.value # 0 /\ data[pos + 1] >= 128
    BY <1>1, <1>4, <2>2, <2>4, <2>6 DEF d
  <2>7. CASE length.value # 0 /\ ~(data[pos + 1] >= 128)
    BY <1>1, <1>4, <2>2, <2>3, <2>7 DEF d
  <2> QED
    BY <2>5, <2>6, <2>7
<1> QED
  BY <1>3, <1>4

\* What an index stands for has a key, and is an entry if it has a value.
LEMMA GetTableEntryAtType ==
  ASSUME NEW i \in Nat, Ring(dec), GetTableEntryAt(i) # NULL
  PROVE  LET e == GetTableEntryAt(i) IN
         /\ e.key \in Seq(Octets)
         /\ e.value # NULL => e \in Entry
<1> DEFINE e == GetTableEntryAt(i)
<1>1. PICK z \in Nat : z = StaticSize
  BY StringAssumption DEF StaticSize
<1>2. i # 0
  <2>1. i = 0 => e = NULL
    BY DEF GetTableEntryAt
  <2> QED
    BY <2>1
<1>3. CASE i \in 1..z
  <2>1. e = StaticTable[i]
    BY <1>1, <1>2, <1>3 DEF GetTableEntryAt
  <2>2. StaticTable[i] \in [key : Seq(Octets), value : {NULL} \cup Seq(Octets)]
    <3> DEFINE R == [key : Seq(Octets), value : {NULL} \cup Seq(Octets)]
    <3>1. StaticTable \in Seq(R)
      BY StringAssumption DEF Octets
    <3> HIDE DEF R
    <3>2. StaticTable[i] \in R
      BY <1>1, <1>3, <3>1 DEF StaticSize
    <3> QED
      BY <3>2 DEF R
  <2> HIDE DEF e
  <2>3. e.key \in Seq(Octets) /\ (e.value # NULL => e.value \in Seq(Octets))
    BY <2>1, <2>2
  <2>4. e.value \in Seq(Octets) => e \in Entry
    BY <2>1, <2>2 DEF Entry
  <2> QED
    BY <2>3, <2>4 DEF e
<1>4. CASE i \notin 1..z
  <2>1. i > z
    BY <1>2, <1>4
  <2>2. PICK k \in Nat : k = i - z - 1
    BY <2>1
  <2>3. PICK n \in Nat : n = dec.count
    BY DEF Ring, Tables
  <2>4. k < n
    <3> SUFFICES ASSUME n <= k PROVE FALSE
      OBVIOUS
    <3>1. e = NULL
      BY <1>1, <1>2, <1>4, <2>1, <2>2, <2>3 DEF GetTableEntryAt
    <3> QED
      BY <3>1
  <2>5. e = At(dec, k)
    BY <1>1, <1>2, <1>4, <2>1, <2>2, <2>3, <2>4 DEF GetTableEntryAt
  <2>6. At(dec, k) \in Entry
    <3>1. k \in 0..(dec.count - 1)
      BY <2>3, <2>4
    <3> QED
      BY <3>1, AtIsPlace
  <2> HIDE DEF e
  <2>7. e.key \in Seq(Octets)
    BY <2>5, <2>6 DEF Entry
  <2> QED
    BY <2>5, <2>6, <2>7 DEF e
<1> QED
  BY <1>3, <1>4

\* The key of a literal is a string.
LEMMA LiteralKeyType ==
  ASSUME block.data \in Seq(Octets), block.pos \in Nat, block.pos < Len(block.data),
         NEW prefix \in {4, 5, 6, 7}, Ring(dec)
  PROVE  LET k == LiteralKey(prefix) IN
         /\ k.value \in Seq(Octets)
         /\ k.pos \in Nat \/ k.pos = NULL
         /\ k.ok => k.pos \in Nat
<1> DEFINE index == DecodeInt(block.data, block.pos, prefix)
           entry == GetTableEntryAt(index.value)
           k == LiteralKey(prefix)
<1>1. PICK n \in Nat, p \in Nat : n = index.value /\ p = index.pos
  BY DecodeIntType
<1>2. k = CASE ~index.ok -> [ok |-> FALSE, value |-> <<>>, pos |-> NULL]
            [] index.ok /\ index.value = 0 -> DecodeString(block.data, index.pos)
            [] index.ok /\ index.value # 0 /\ entry = NULL ->
                  [ok |-> FALSE, value |-> <<>>, pos |-> NULL]
            [] OTHER -> [ok |-> TRUE, value |-> entry.key, pos |-> index.pos]
  BY DEF LiteralKey
<1>3. <<>> \in Seq(Octets)
  OBVIOUS
<1>4. entry # NULL => entry.key \in Seq(Octets)
  BY <1>1, GetTableEntryAtType
<1>5. DecodeString(block.data, p).value \in Seq(Octets) /\ DecodeString(block.data, p).pos \in Nat
  BY <1>1, DecodeStringType
<1> HIDE DEF index, entry, k
<1>6. CASE ~index.ok
  BY <1>2, <1>3, <1>6 DEF k
<1>7. CASE index.ok /\ index.value = 0
  <2>1. k = DecodeString(block.data, index.pos)
    BY <1>2, <1>7
  <2> QED
    BY <1>1, <1>5, <2>1 DEF k
<1>8. CASE index.ok /\ index.value # 0 /\ entry = NULL
  <2>1. k = [ok |-> FALSE, value |-> <<>>, pos |-> NULL]
    BY <1>2, <1>8
  <2> QED
    BY <1>3, <2>1 DEF k
<1>9. CASE index.ok /\ index.value # 0 /\ entry # NULL
  BY <1>1, <1>2, <1>4, <1>9 DEF k
<1>10. /\ k.value \in Seq(Octets)
       /\ k.pos \in Nat \/ k.pos = NULL
       /\ k.ok => k.pos \in Nat
  BY <1>6, <1>7, <1>8, <1>9 DEF k
<1> QED
  BY <1>10 DEF k

-----------------------------------------------------------------------------
(* The invariant.                                                          *)

\* A block carries octets, and what has been read of it are strings of octets.
BlockInv == block # NULL => block \in Blocks

\* Both tables as they are between two calls.
HpackInv == TableInv(enc) /\ TableInv(dec) /\ BlockInv

LEMMA InitInv == Init => HpackInv
<1> SUFFICES ASSUME Init PROVE HpackInv
  OBVIOUS
<1>1. PICK size \in TableSizes : enc = EmptyTable(size) /\ dec = EmptyTable(size)
  BY DEF Init
<1>2. size \in Nat
  BY StringAssumption
<1>3. TableInv(EmptyTable(size))
  <2>1. Accounted(EmptyTable(size)) /\ EmptyTable(size).size = 0 /\ EmptyTable(size).max = size
    BY <1>2, EmptyTableAccounted, EmptyTableIsRing
  <2> QED
    BY <1>2, <2>1 DEF TableInv
<1> QED
  BY <1>1, <1>3 DEF Init, HpackInv, BlockInv

\* What a step of each table may be, and that a block stays well formed.
EncStep ==
    \/ UNCHANGED enc
    \/ \E f \in Fields : enc' = InsertEntry(enc, f)
    \/ \E size \in TableSizes \cup UpdateSizes : enc' = SetMax(enc, size)
DecStep ==
    \/ UNCHANGED dec
    \/ \E e \in Entry : dec' = InsertEntry(dec, e)
    \/ \E size \in Nat : dec' = SetMax(dec, size)

LEMMA WriteFacts ==
  ASSUME BlockInv, Writing, NEW data \in Seq(Octets), NEW sent \in Seq(Fields), Write(data, sent)
  PROVE  block' \in Blocks /\ BlockInv'
<1>1. block \in Blocks
  BY DEF BlockInv, Writing
<1>2. block.data \in Seq(Octets) /\ block.sent \in Seq(Fields)
  BY <1>1 DEF Blocks
<1>3. PICK d \in Seq(Octets), s \in Seq(Fields) : d = block.data \o data /\ s = block.sent \o sent
  <2>1. block.data \o data \in Seq(Octets) /\ block.sent \o sent \in Seq(Fields)
    BY <1>2
  <2> QED
    BY <2>1, Zenon
<1>4. block' = [block EXCEPT !.data = d, !.sent = s]
  BY <1>3 DEF Write
<1>5. block' \in Blocks
  BY <1>1, <1>4 DEF Blocks
<1> QED
  BY <1>5 DEF BlockInv

LEMMA RefuseFacts ==
  ASSUME BlockInv, Reading, NEW at \in Nat \cup {NULL}, Refuse(at)
  PROVE  block' \in Blocks /\ BlockInv' /\ DecStep
<1>1. block \in Blocks
  BY DEF BlockInv, Reading
<1>2. block' \in Blocks
  BY <1>1 DEF Blocks, Refuse
<1> QED
  BY <1>2 DEF BlockInv, DecStep, Refuse

LEMMA GotFacts ==
  ASSUME BlockInv, Reading, NEW e \in Entry, NEW pos \in Nat, Got(e, pos)
  PROVE  block' \in Blocks /\ BlockInv'
<1>1. block \in Blocks
  BY DEF BlockInv, Reading
<1>2. block.got \in Seq(Entry)
  BY <1>1 DEF Blocks
<1>3. PICK g \in Seq(Entry) : g = Append(block.got, e)
  <2>1. Append(block.got, e) \in Seq(Entry)
    BY <1>2
  <2> QED
    BY <2>1, Zenon
<1>4. block' = [block EXCEPT !.got = g, !.pos = pos]
  BY <1>3 DEF Got
<1>5. block' \in Blocks
  BY <1>1, <1>4 DEF Blocks
<1> QED
  BY <1>5 DEF BlockInv

LEMMA ParseLiteralFacts ==
  ASSUME HpackInv, NEW low \in Nat, NEW high \in Nat, NextIn(low, high),
         NEW prefix \in {4, 5, 6, 7}, NEW indexing \in BOOLEAN, ParseLiteral(prefix, indexing)
  PROVE  block' \in Blocks /\ BlockInv' /\ DecStep
<1> DEFINE key   == LiteralKey(prefix)
           value == DecodeString(block.data, key.pos)
           field == [key |-> key.value, value |-> value.value]
<1>1. Reading /\ block.pos < Len(block.data) /\ BlockInv /\ Ring(dec)
  BY DEF NextIn, HpackInv, TableInv, Accounted
<1>2. block.data \in Seq(Octets) /\ block.pos \in Nat
  BY <1>1 DEF BlockInv, Reading, Blocks
<1>3. /\ key.value \in Seq(Octets)
      /\ key.pos \in Nat \cup {NULL}
      /\ key.ok => key.pos \in Nat
  BY <1>1, <1>2, LiteralKeyType
<1>4. key.ok => value.value \in Seq(Octets) /\ value.pos \in Nat
  BY <1>2, <1>3, DecodeStringType
<1>5. IF ~key.ok THEN Refuse(key.pos)
      ELSE IF ~value.ok THEN Refuse(value.pos)
      ELSE Got(field, value.pos) /\ dec' = IF indexing THEN InsertEntry(dec, field) ELSE dec
  BY DEF ParseLiteral
<1>6. key.ok => field \in Entry
  BY <1>3, <1>4 DEF Entry
<1> HIDE DEF key, value, field
<1>7. CASE ~key.ok
  BY <1>1, <1>3, <1>5, <1>7, RefuseFacts
<1>8. CASE key.ok /\ ~value.ok
  BY <1>1, <1>4, <1>5, <1>8, RefuseFacts
<1>9. CASE key.ok /\ value.ok
  <2>1. block' \in Blocks /\ BlockInv'
    BY <1>1, <1>4, <1>5, <1>6, <1>9, GotFacts
  <2>2. dec' = InsertEntry(dec, field) \/ dec' = dec
    BY <1>5, <1>9
  <2> QED
    BY <1>6, <1>9, <2>1, <2>2 DEF DecStep
<1> QED
  BY <1>7, <1>8, <1>9

LEMMA StepFacts ==
  ASSUME HpackInv, Next
  PROVE  EncStep /\ DecStep /\ BlockInv'
<1>0. BlockInv /\ Ring(enc) /\ Ring(dec)
  BY DEF HpackInv, TableInv, Accounted
<1>1. ASSUME NEW size \in TableSizes, Announce(size)
      PROVE  EncStep /\ DecStep /\ BlockInv'
  <2>1. size \in Nat
    BY StringAssumption
  <2> QED
    BY <1>0, <1>1, <2>1 DEF Announce, EncStep, DecStep, BlockInv
<1>2. ASSUME NEW options \in Options \cup PeerOptions, NEW peer \in BOOLEAN,
             StartBlock(options, peer)
      PROVE  EncStep /\ DecStep /\ BlockInv'
  <2>1. <<>> \in Seq(Octets) /\ <<>> \in Seq(Fields) /\ <<>> \in Seq(Entry)
    OBVIOUS
  <2>2. NewBlock(options, peer) \in Blocks
    BY <2>1 DEF NewBlock, Blocks
  <2> QED
    BY <1>2, <2>2 DEF StartBlock, EncStep, DecStep, BlockInv
<1>3. ASSUME NEW f \in Fields, CompressField(f)
      PROVE  EncStep /\ DecStep /\ BlockInv'
  <2> DEFINE code == EncodeField(f, block.options)
  <2>1. code.data \in Seq(Octets)
    BY <1>0, EncodeFieldType
  <2>2. <<f>> \in Seq(Fields)
    OBVIOUS
  <2>3. /\ Writing /\ Write(code.data, <<f>>)
        /\ enc' = IF code.add THEN InsertEntry(enc, f) ELSE enc
        /\ UNCHANGED dec
    BY <1>3 DEF CompressField
  <2> HIDE DEF code
  <2>4. BlockInv'
    BY <1>0, <2>1, <2>2, <2>3, WriteFacts
  <2> QED
    BY <2>3, <2>4 DEF EncStep, DecStep
<1>4. ASSUME EndBlock
      PROVE  EncStep /\ DecStep /\ BlockInv'
  BY <1>0, <1>4 DEF EndBlock, EncStep, DecStep, BlockInv, Blocks
<1>5. ASSUME NEW size \in UpdateSizes, UpdateSize(size)
      PROVE  EncStep /\ DecStep /\ BlockInv'
  <2>1. size \in Nat
    BY StringAssumption
  <2>2. EncodeInt(32, size, 5) \in Seq(Octets)
    BY <2>1, EncodeIntTypes
  <2>3. <<>> \in Seq(Fields)
    OBVIOUS
  <2>4. BlockInv'
    BY <1>0, <1>5, <2>2, <2>3, WriteFacts DEF UpdateSize
  <2> QED
    BY <1>5, <2>4 DEF UpdateSize, EncStep, DecStep
<1>6. ASSUME NEW f \in Fields, PeerLiteral(f)
      PROVE  EncStep /\ DecStep /\ BlockInv'
  <2>1. f.key \in Text /\ f.value \in Text
    BY StringAssumption DEF Text
  <2>2. Plain(f.key) \in Seq(Octets) /\ Plain(f.value) \in Seq(Octets)
    BY <2>1, PlainType
  <2>3. <<0>> \in Seq(Octets)
    BY DEF Octets
  <2>4. <<0>> \o Plain(f.key) \o Plain(f.value) \in Seq(Octets)
    BY <2>2, <2>3
  <2>5. <<f>> \in Seq(Fields)
    OBVIOUS
  <2>6. BlockInv'
    BY <1>0, <1>6, <2>4, <2>5, WriteFacts DEF PeerLiteral
  <2> QED
    BY <1>6, <2>6 DEF PeerLiteral, EncStep, DecStep
<1>7. ASSUME NEW octets \in Malformed, PeerMalformed(octets)
      PROVE  EncStep /\ DecStep /\ BlockInv'
  <2>1. octets \in Seq(Octets)
    BY StringAssumption DEF Octets
  <2>2. block \in Blocks
    BY <1>0, <1>7 DEF PeerMalformed, Writing, BlockInv
  <2>3. block.data \in Seq(Octets)
    BY <2>2 DEF Blocks
  <2>4. PICK d \in Seq(Octets) : d = block.data \o octets
    <3>1. block.data \o octets \in Seq(Octets)
      BY <2>1, <2>3
    <3> QED
      BY <3>1, Zenon
  <2>5. block' = [block EXCEPT !.data = d, !.malformed = TRUE]
    BY <1>7, <2>4 DEF PeerMalformed
  <2>6. block' \in Blocks
    BY <2>2, <2>5 DEF Blocks
  <2> QED
    BY <1>7, <2>6 DEF PeerMalformed, EncStep, DecStep, BlockInv
<1>8. ASSUME ParseIndexed
      PROVE  EncStep /\ DecStep /\ BlockInv'
  <2> DEFINE index == DecodeInt(block.data, block.pos, 7)
             entry == IF index.ok THEN GetTableEntryAt(index.value) ELSE NULL
  <2>1. Reading /\ block.pos < Len(block.data)
    BY <1>8 DEF ParseIndexed, NextIn
  <2>2. block.data \in Seq(Octets) /\ block.pos \in Nat
    BY <1>0, <2>1 DEF BlockInv, Reading, Blocks
  <2>3. PICK n \in Nat, p \in Nat : n = index.value /\ p = index.pos
    BY <2>1, <2>2, DecodeIntType
  <2>4. /\ IF entry = NULL THEN Refuse(NULL)
           ELSE IF entry.value = NULL THEN Refuse(NULL)
           ELSE Got(entry, index.pos) /\ UNCHANGED dec
        /\ UNCHANGED enc
    BY <1>8 DEF ParseIndexed
  <2>5. entry # NULL => index.ok /\ entry = GetTableEntryAt(n)
    BY <2>3
  <2> HIDE DEF index, entry
  <2>6. entry # NULL /\ entry.value # NULL => entry \in Entry
    BY <1>0, <2>5, GetTableEntryAtType
  <2>7. CASE entry = NULL \/ entry.value = NULL
    BY <1>0, <2>1, <2>4, <2>7, RefuseFacts DEF EncStep
  <2>8. CASE entry # NULL /\ entry.value # NULL
    <3>1. BlockInv'
      BY <1>0, <2>1, <2>3, <2>4, <2>6, <2>8, GotFacts
    <3> QED
      BY <2>4, <2>8, <3>1 DEF EncStep, DecStep
  <2> QED
    BY <2>7, <2>8
<1>9. ASSUME ParseIncremental
      PROVE  EncStep /\ DecStep /\ BlockInv'
  BY <1>9, ParseLiteralFacts DEF ParseIncremental, EncStep
<1>10. ASSUME ParseNeverIndexed
       PROVE  EncStep /\ DecStep /\ BlockInv'
  BY <1>10, ParseLiteralFacts DEF ParseNeverIndexed, EncStep
<1>11. ASSUME ParseWithoutIndexing
       PROVE  EncStep /\ DecStep /\ BlockInv'
  BY <1>11, ParseLiteralFacts DEF ParseWithoutIndexing, EncStep
<1>12. ASSUME ParseSizeUpdate
       PROVE  EncStep /\ DecStep /\ BlockInv'
  <2> DEFINE size == DecodeInt(block.data, block.pos, 5)
  <2>1. Reading /\ block.pos < Len(block.data)
    BY <1>12 DEF ParseSizeUpdate, NextIn
  <2>2. block \in Blocks /\ block.data \in Seq(Octets) /\ block.pos \in Nat
    BY <1>0, <2>1 DEF BlockInv, Reading, Blocks
  <2>3. PICK n \in Nat, p \in Nat : n = size.value /\ p = size.pos
    BY <2>1, <2>2, DecodeIntType
  <2>4. /\ IF ~size.ok THEN Refuse(NULL)
           ELSE block' = [block EXCEPT !.pos = p] /\ dec' = SetMax(dec, n)
        /\ UNCHANGED enc
    BY <1>12, <2>3 DEF ParseSizeUpdate
  <2> HIDE DEF size
  <2>5. CASE ~size.ok
    BY <1>0, <2>1, <2>4, <2>5, RefuseFacts DEF EncStep
  <2>6. CASE size.ok
    <3>1. block' \in Blocks
      BY <2>2, <2>4, <2>6 DEF Blocks
    <3> QED
      BY <2>4, <2>6, <3>1 DEF EncStep, DecStep, BlockInv
  <2> QED
    BY <2>5, <2>6
<1>13. ASSUME Decompressed
       PROVE  EncStep /\ DecStep /\ BlockInv'
  BY <1>0, <1>13 DEF Decompressed, Reading, EncStep, DecStep, BlockInv, Blocks
<1>14. ASSUME Deliver
       PROVE  EncStep /\ DecStep /\ BlockInv'
  BY <1>14 DEF Deliver, EncStep, DecStep, BlockInv
<1> QED
  BY <1>1, <1>2, <1>3, <1>4, <1>5, <1>6, <1>7, <1>8, <1>9, <1>10, <1>11, <1>12, <1>13, <1>14
  DEF Next, Compress, Peer, Decompress

LEMMA NextInv == HpackInv /\ [Next]_vars => HpackInv'
<1> SUFFICES ASSUME HpackInv, [Next]_vars PROVE HpackInv'
  OBVIOUS
<1>1. CASE Next
  <2>1. EncStep /\ DecStep /\ BlockInv' /\ TableInv(enc) /\ TableInv(dec)
    BY <1>1, StepFacts DEF HpackInv
  <2>2. TableInv(enc')
    <3>1. \A f \in Fields : TableInv(InsertEntry(enc, f))
      BY <2>1, FieldIsEntry, InsertEntryFacts
    <3>2. \A size \in TableSizes \cup UpdateSizes : TableInv(SetMax(enc, size))
      BY <2>1, StringAssumption, SetMaxFacts
    <3> QED
      BY <2>1, <3>1, <3>2 DEF EncStep
  <2>3. TableInv(dec')
    <3>1. \A e \in Entry : TableInv(InsertEntry(dec, e))
      BY <2>1, InsertEntryFacts
    <3>2. \A size \in Nat : TableInv(SetMax(dec, size))
      BY <2>1, SetMaxFacts
    <3> QED
      BY <2>1, <3>1, <3>2 DEF DecStep
  <2>4. TableInv(enc)' /\ TableInv(dec)'
    BY <2>2, <2>3 DEF TableInv, Accounted, Ring, Tables, SumOfSizes, Place, At
  <2> QED
    BY <2>1, <2>4 DEF HpackInv
<1>2. CASE UNCHANGED vars
  <2>1. TableInv(enc') /\ TableInv(dec')
    BY <1>2 DEF vars, HpackInv
  <2>2. TableInv(enc)' /\ TableInv(dec)'
    BY <2>1 DEF TableInv, Accounted, Ring, Tables, SumOfSizes, Place, At
  <2>3. BlockInv'
    BY <1>2 DEF vars, HpackInv, BlockInv
  <2> QED
    BY <2>2, <2>3 DEF HpackInv
<1> QED
  BY <1>1, <1>2

LEMMA InvHolds == Spec => []HpackInv
BY InitInv, NextInv, PTL DEF Spec

\* Through every sequence of blocks, whatever a peer puts into them, a block
\* holds octets, and what the parsers take out of it are strings of octets that
\* end within the numbers the positions can take.
THEOREM BlocksCorrect == Spec => []BlockInv
<1>1. HpackInv => BlockInv
  BY DEF HpackInv
<1> QED
  BY <1>1, InvHolds, PTL

\* Both rings stay clean: growing, shrinking, wrapping and evicting leave every
\* used slot an entry and every other one none, and the accounted size is the
\* sum of the sizes of the entries and within the maximum, for any start size,
\* any table sizes and any fields, and for what a peer makes up too.
THEOREM RingsStayClean == Spec => []RingsAreClean
<1>1. NULL \notin Entry
  BY StringAssumption DEF Entry, Octets
<1>2. HpackInv => RingsAreClean
  BY <1>1, CleanRing DEF HpackInv, RingsAreClean
<1> QED
  BY <1>2, InvHolds, PTL

-----------------------------------------------------------------------------
(* The rings are the bounded lists of RFC 7541.                            *)

EncList == INSTANCE HpackList WITH
    Entries <- Fields, Bounds <- TableSizes \cup UpdateSizes, SizeOf <- EntrySize,
    list <- AsList(enc), bound <- enc.max

DecList == INSTANCE HpackList WITH
    Entries <- Entry, Bounds <- Nat, SizeOf <- EntrySize,
    list <- AsList(dec), bound <- dec.max

\* The three instances mean the same by what fits.
LEMMA SameNewest ==
  ASSUME NEW s, NEW room
  PROVE  EncList!Newest(s, room) = List!Newest(s, room)
         /\ DecList!Newest(s, room) = List!Newest(s, room)
BY DEF EncList!Newest, DecList!Newest, List!Newest, EncList!Total, DecList!Total, List!Total

\* The compressor's table is a bounded list of the fields it was given: an
\* insertion pushes out the oldest entries and no others, a field that is too
\* large empties it, and a new size keeps the newest entries that fit.
THEOREM CompressorImplementsList == Spec => EncList!Spec
<1>1. Init => EncList!Init
  <2> SUFFICES ASSUME Init PROVE EncList!Init
    OBVIOUS
  <2>1. PICK size \in TableSizes : enc = EmptyTable(size)
    BY DEF Init
  <2>2. size \in Nat
    BY StringAssumption
  <2>3. AsList(enc) = <<>> /\ enc.max = size
    BY <2>1, <2>2, EmptyTableAccounted, EmptyTableIsRing
  <2> QED
    BY <2>3 DEF EncList!Init
<1>2. HpackInv /\ [Next]_vars => [EncList!Next]_<<AsList(enc), enc.max>>
  <2> SUFFICES ASSUME HpackInv, [Next]_vars
               PROVE  EncList!Next \/ UNCHANGED <<AsList(enc), enc.max>>
    OBVIOUS
  <2>1. TableInv(enc)
    BY DEF HpackInv
  <2>2. AsList(enc)' = AsList(enc')
    BY DEF AsList, At
  <2>3. EncStep
    BY StepFacts DEF vars, EncStep
  <2>4. CASE UNCHANGED enc
    BY <2>2, <2>4
  <2>5. ASSUME NEW f \in Fields, enc' = InsertEntry(enc, f)
        PROVE  EncList!Next
    <3>1. /\ AsList(enc') = IF EntrySize(f) > enc.max THEN <<>>
                            ELSE <<f>> \o List!Newest(AsList(enc), enc.max - EntrySize(f))
          /\ (enc').max = enc.max
      BY <2>1, <2>5, FieldIsEntry, InsertEntryFacts
    <3>2. EncList!Add(f)
      BY <2>2, <3>1, SameNewest DEF EncList!Add
    <3> QED
      BY <3>2 DEF EncList!Next
  <2>6. ASSUME NEW size \in TableSizes \cup UpdateSizes, enc' = SetMax(enc, size)
        PROVE  EncList!Next
    <3>1. AsList(enc') = List!Newest(AsList(enc), size) /\ (enc').max = size
      BY <2>1, <2>6, StringAssumption, SetMaxFacts
    <3>2. EncList!SetBound(size)
      BY <2>2, <3>1, SameNewest DEF EncList!SetBound
    <3> QED
      BY <3>2 DEF EncList!Next
  <2> QED
    BY <2>3, <2>4, <2>5, <2>6 DEF EncStep
<1> QED
  BY <1>1, <1>2, InvHolds, PTL DEF Spec, EncList!Spec

\* So is the decompressor's, whatever the octets it reads stand for.
THEOREM DecompressorImplementsList == Spec => DecList!Spec
<1>1. Init => DecList!Init
  <2> SUFFICES ASSUME Init PROVE DecList!Init
    OBVIOUS
  <2>1. PICK size \in TableSizes : dec = EmptyTable(size)
    BY DEF Init
  <2>2. size \in Nat
    BY StringAssumption
  <2>3. AsList(dec) = <<>> /\ dec.max = size
    BY <2>1, <2>2, EmptyTableAccounted, EmptyTableIsRing
  <2> QED
    BY <2>2, <2>3 DEF DecList!Init
<1>2. HpackInv /\ [Next]_vars => [DecList!Next]_<<AsList(dec), dec.max>>
  <2> SUFFICES ASSUME HpackInv, [Next]_vars
               PROVE  DecList!Next \/ UNCHANGED <<AsList(dec), dec.max>>
    OBVIOUS
  <2>1. TableInv(dec)
    BY DEF HpackInv
  <2>2. AsList(dec)' = AsList(dec')
    BY DEF AsList, At
  <2>3. DecStep
    BY StepFacts DEF vars, DecStep
  <2>4. CASE UNCHANGED dec
    BY <2>2, <2>4
  <2>5. ASSUME NEW e \in Entry, dec' = InsertEntry(dec, e)
        PROVE  DecList!Next
    <3>1. /\ AsList(dec') = IF EntrySize(e) > dec.max THEN <<>>
                            ELSE <<e>> \o List!Newest(AsList(dec), dec.max - EntrySize(e))
          /\ (dec').max = dec.max
      BY <2>1, <2>5, InsertEntryFacts
    <3>2. DecList!Add(e)
      BY <2>2, <3>1, SameNewest DEF DecList!Add
    <3> QED
      BY <3>2 DEF DecList!Next
  <2>6. ASSUME NEW size \in Nat, dec' = SetMax(dec, size)
        PROVE  DecList!Next
    <3>1. AsList(dec') = List!Newest(AsList(dec), size) /\ (dec').max = size
      BY <2>1, <2>6, SetMaxFacts
    <3>2. DecList!SetBound(size)
      BY <2>2, <3>1, SameNewest DEF DecList!SetBound
    <3> QED
      BY <3>2 DEF DecList!Next
  <2> QED
    BY <2>3, <2>4, <2>5, <2>6 DEF DecStep
<1> QED
  BY <1>1, <1>2, InvHolds, PTL DEF Spec, DecList!Spec

-----------------------------------------------------------------------------
(* Where a code lies in a block.                                           *)

\* The elements of `code` are those of `data` after the position.
Lies(code, data, pos) ==
    /\ pos + Len(code) <= Len(data)
    /\ \A i \in 1..Len(code) : data[pos + i] = code[i]

LEMMA LiesConcat ==
  ASSUME NEW S, NEW a \in Seq(S), NEW b \in Seq(S), NEW data \in Seq(S), NEW pos \in Nat
  PROVE  Lies(a \o b, data, pos) <=> Lies(a, data, pos) /\ Lies(b, data, pos + Len(a))
<1>1. PICK m \in Nat, n \in Nat, z \in Nat : m = Len(a) /\ n = Len(b) /\ z = Len(data)
  OBVIOUS
<1>2. PICK c \in Seq(S) : /\ c = a \o b /\ Len(c) = m + n
                          /\ \A i \in 1..m : c[i] = a[i]
                          /\ \A i \in 1..n : c[m + i] = b[i]
  <2>1. /\ a \o b \in Seq(S) /\ Len(a \o b) = m + n
        /\ \A i \in 1..m : (a \o b)[i] = a[i]
        /\ \A i \in 1..n : (a \o b)[m + i] = b[i]
    BY <1>1
  <2> QED
    BY <2>1, Zenon
<1>3. ASSUME Lies(c, data, pos) PROVE Lies(a, data, pos) /\ Lies(b, data, pos + m)
  <2>1. pos + (m + n) <= z /\ \A i \in 1..(m + n) : data[pos + i] = c[i]
    BY <1>1, <1>2, <1>3 DEF Lies
  <2>2. ASSUME NEW i \in 1..m PROVE data[pos + i] = a[i]
    <3>1. i \in 1..(m + n)
      OBVIOUS
    <3> QED
      BY <1>2, <2>1, <3>1
  <2>3. ASSUME NEW i \in 1..n PROVE data[(pos + m) + i] = b[i]
    <3>1. m + i \in 1..(m + n) /\ pos + (m + i) = (pos + m) + i
      OBVIOUS
    <3> QED
      BY <1>2, <2>1, <3>1
  <2> QED
    BY <1>1, <2>1, <2>2, <2>3 DEF Lies
<1>4. ASSUME Lies(a, data, pos), Lies(b, data, pos + m) PROVE Lies(c, data, pos)
  <2>1. pos + m <= z /\ (pos + m) + n <= z
    BY <1>1, <1>4 DEF Lies
  <2>2. ASSUME NEW i \in 1..(m + n) PROVE data[pos + i] = c[i]
    <3>1. CASE i <= m
      <4>1. i \in 1..m
        BY <3>1
      <4> QED
        BY <1>1, <1>2, <1>4, <4>1 DEF Lies
    <3>2. CASE ~(i <= m)
      <4>1. PICK k \in 1..n : i = m + k
        <5>1. i - m \in 1..n /\ i = m + (i - m)
          BY <3>2
        <5> QED
          BY <5>1
      <4>2. data[(pos + m) + k] = b[k] /\ (pos + m) + k = pos + i
        BY <1>1, <1>4, <4>1 DEF Lies
      <4> QED
        BY <1>2, <4>1, <4>2
    <3> QED
      BY <3>1, <3>2
  <2> QED
    BY <1>1, <1>2, <2>1, <2>2 DEF Lies
<1> QED
  BY <1>1, <1>2, <1>3, <1>4

\* What is written stays where it is, and is written at the end.
LEMMA LiesOn ==
  ASSUME NEW S, NEW code \in Seq(S), NEW data \in Seq(S), NEW more \in Seq(S), NEW pos \in Nat,
         Lies(code, data, pos)
  PROVE  Lies(code, data \o more, pos)
<1>1. PICK m \in Nat, n \in Nat, z \in Nat : m = Len(code) /\ n = Len(more) /\ z = Len(data)
  OBVIOUS
<1>2. Len(data \o more) = z + n /\ \A i \in 1..z : (data \o more)[i] = data[i]
  BY <1>1
<1>3. pos + m <= z /\ \A i \in 1..m : data[pos + i] = code[i] /\ pos + i \in 1..z
  BY <1>1 DEF Lies
<1> QED
  BY <1>1, <1>2, <1>3 DEF Lies

LEMMA LiesAtEnd ==
  ASSUME NEW S, NEW data \in Seq(S), NEW more \in Seq(S)
  PROVE  Lies(more, data \o more, Len(data))
BY DEF Lies

-----------------------------------------------------------------------------
(* Numbers.                                                                *)

\* The octets of a number of at most four octets after the prefix.
Digit == 0..127
IsNumber(c, flags, n, m) ==
    \/ n < m /\ Len(c) = 1 /\ c[1] = flags + n
    \/ \E d1 \in Digit :
          n = m + d1 /\ Len(c) = 2 /\ c[1] = flags + m /\ c[2] = d1
    \/ \E d1, d2 \in Digit :
          /\ n = m + d1 + 128 * d2
          /\ Len(c) = 3 /\ c[1] = flags + m /\ c[2] = 128 + d1 /\ c[3] = d2
    \/ \E d1, d2, d3 \in Digit :
          /\ n = m + d1 + 128 * (d2 + 128 * d3)
          /\ Len(c) = 4 /\ c[1] = flags + m /\ c[2] = 128 + d1 /\ c[3] = 128 + d2 /\ c[4] = d3
    \/ \E d1, d2, d3, d4 \in Digit :
          /\ n = m + d1 + 128 * (d2 + 128 * (d3 + 128 * d4))
          /\ Len(c) = 5 /\ c[1] = flags + m /\ c[2] = 128 + d1 /\ c[3] = 128 + d2
          /\ c[4] = 128 + d3 /\ c[5] = d4

LEMMA EncodeIntDigits ==
  ASSUME NEW flags \in Nat, NEW n \in Nat, n < NumberLimit, NEW prefix, Mask(prefix) \in Nat
  PROVE  IsNumber(EncodeInt(flags, n, prefix), flags, n, Mask(prefix))
<1> DEFINE Is(r) == r = [v \in Nat |-> IF v >= 128 THEN <<128 + (v % 128)>> \o r[v \div 128] ELSE <<v>>]
           rest == CHOOSE r : Is(r)
           c == EncodeInt(flags, n, prefix)
           First1(v, r) == r \in Seq(Nat) /\ Len(r) = 1 /\ r[1] = v
           More(d, q, r) == /\ q \in Seq(Nat) /\ r \in Seq(Nat) /\ Len(r) = Len(q) + 1 /\ r[1] = d
                            /\ \A i \in 1..Len(q) : r[i + 1] = q[i]
<1>1. PICK m \in Nat : m = Mask(prefix)
  OBVIOUS
<1>2. c = IF n < m THEN <<flags + n>> ELSE <<flags + m>> \o rest[n - m]
  BY <1>1 DEF EncodeInt
<1>3. Is(rest)
  <2>1. \E r : Is(r)
    BY RestExists
  <2> HIDE DEF Is
  <2> QED
    BY <2>1
<1> HIDE DEF rest, c
<1>4. ASSUME NEW v \in Nat, v < 128 PROVE First1(v, rest[v])
  <2>1. rest[v] = <<v>>
    BY <1>3, <1>4
  <2> QED
    BY <2>1
<1>5. ASSUME NEW v \in Nat, v >= 128, NEW d \in Digit, NEW w \in Nat, v = d + 128 * w, rest[w] \in Seq(Nat)
      PROVE  More(128 + d, rest[w], rest[v])
  <2>1. v % 128 = d /\ v \div 128 = w
    BY <1>5 DEF Digit
  <2>2. rest[v] = <<128 + (v % 128)>> \o rest[v \div 128]
    BY <1>3, <1>5
  <2>3. rest[v] = <<128 + d>> \o rest[w]
    BY <2>1, <2>2
  <2> QED
    BY <1>5, <2>3 DEF Digit
<1> HIDE DEF Is
<1>6. \A v \in Nat : \E d \in Digit, w \in Nat : v = d + 128 * w
  <2> SUFFICES ASSUME NEW v \in Nat PROVE \E d \in Digit, w \in Nat : v = d + 128 * w
    OBVIOUS
  <2>1. v % 128 \in Digit /\ v \div 128 \in Nat /\ v = (v % 128) + 128 * (v \div 128)
    BY DEF Digit
  <2> QED
    BY <2>1
<1>9. ASSUME NEW v \in Nat, ~(v < 128), NEW d \in Digit, NEW w \in Nat, v = d + 128 * w,
             NEW q \in Seq(Nat), q = rest[w]
      PROVE  \E r \in Seq(Nat) : r = rest[v] /\ More(128 + d, q, r)
  <2>1. More(128 + d, rest[w], rest[v])
    <3> HIDE DEF More
    <3> QED
      BY <1>5, <1>9
  <2> QED
    BY <1>9, <2>1
<1> SUFFICES IsNumber(c, flags, n, m)
  BY <1>1 DEF c
<1>7. CASE n < m
  <2>1. c = <<flags + n>>
    BY <1>2, <1>7
  <2>2. Len(c) = 1 /\ c[1] = flags + n
    BY <2>1
  <2> QED
    BY <1>7, <2>2 DEF IsNumber
<1>8. CASE ~(n < m)
  <2>1. PICK v1 \in Nat : v1 = n - m /\ v1 < 128 * 128 * 128 * 128
    BY <1>8 DEF NumberLimit
  <2>2. ASSUME NEW q \in Seq(Nat), q = rest[v1] PROVE More(flags + m, q, c)
    <3>1. c = <<flags + m>> \o q
      BY <1>2, <1>8, <2>1, <2>2
    <3> QED
      BY <3>1
  <2>3. CASE v1 < 128
    <3>1. PICK r1 : r1 = rest[v1] /\ First1(v1, r1)
      BY <1>4, <2>3, Zenon
    <3>2. More(flags + m, r1, c)
      BY <2>2, <3>1
    <3>3. v1 \in Digit /\ n = m + v1
      BY <2>1, <2>3 DEF Digit
    <3>4. Len(c) = 2 /\ c[1] = flags + m /\ c[2] = v1
      BY <3>1, <3>2
    <3> QED
      BY <3>3, <3>4 DEF IsNumber
  <2>4. CASE ~(v1 < 128)
    <3>1. PICK d1 \in Digit, v2 \in Nat : v1 = d1 + 128 * v2
      BY <1>6
    <3>2. CASE v2 < 128
      <4>1. PICK r2 : r2 = rest[v2] /\ First1(v2, r2)
        BY <1>4, <3>2, Zenon
      <4>2. PICK r1 \in Seq(Nat) : r1 = rest[v1] /\ More(128 + d1, r2, r1)
        <5> HIDE DEF More
        <5> QED
          BY <1>9, <2>4, <3>1, <4>1
      <4>6. Len(r1) = 2 /\ r1[1] = 128 + d1 /\ r1[2] = v2
        BY <4>1, <4>2
      <4>3. More(flags + m, r1, c)
        BY <2>2, <4>2
      <4>4. v2 \in Digit /\ n = m + d1 + 128 * v2
        BY <2>1, <3>1, <3>2 DEF Digit
      <4>5. Len(c) = 3 /\ c[1] = flags + m /\ c[2] = 128 + d1 /\ c[3] = v2
        BY <4>3, <4>6
      <4> QED
        BY <4>4, <4>5 DEF IsNumber
    <3>3. CASE ~(v2 < 128)
      <4>1. PICK d2 \in Digit, v3 \in Nat : v2 = d2 + 128 * v3
        BY <1>6
      <4>2. CASE v3 < 128
        <5>1. PICK r3 : r3 = rest[v3] /\ First1(v3, r3)
          BY <1>4, <4>2, Zenon
        <5>2. PICK r2 \in Seq(Nat) : r2 = rest[v2] /\ More(128 + d2, r3, r2)
          <6> HIDE DEF More
          <6> QED
            BY <1>9, <3>3, <4>1, <5>1
        <5>3. PICK r1 \in Seq(Nat) : r1 = rest[v1] /\ More(128 + d1, r2, r1)
          <6> HIDE DEF More
          <6> QED
            BY <1>9, <2>4, <3>1, <5>2
        <5>7. Len(r2) = 2 /\ r2[1] = 128 + d2 /\ r2[2] = v3
          BY <5>1, <5>2
        <5>8. Len(r1) = 3 /\ r1[1] = 128 + d1 /\ r1[2] = 128 + d2 /\ r1[3] = v3
          BY <5>3, <5>7
        <5>4. More(flags + m, r1, c)
          BY <2>2, <5>3
        <5>5. v3 \in Digit /\ n = m + d1 + 128 * (d2 + 128 * v3)
          BY <2>1, <3>1, <4>1, <4>2 DEF Digit
        <5>6. Len(c) = 4 /\ c[1] = flags + m /\ c[2] = 128 + d1 /\ c[3] = 128 + d2 /\ c[4] = v3
          BY <5>4, <5>8
        <5> QED
          BY <5>5, <5>6 DEF IsNumber
      <4>3. CASE ~(v3 < 128)
        <5>1. PICK d3 \in Digit, v4 \in Nat : v3 = d3 + 128 * v4
          BY <1>6
        <5>2. v4 < 128
          BY <2>1, <3>1, <4>1, <5>1 DEF Digit
        <5>3. PICK r4 : r4 = rest[v4] /\ First1(v4, r4)
          BY <1>4, <5>2, Zenon
        <5>4. PICK r3 \in Seq(Nat) : r3 = rest[v3] /\ More(128 + d3, r4, r3)
          <6> HIDE DEF More
          <6> QED
            BY <1>9, <4>3, <5>1, <5>3
        <5>5. PICK r2 \in Seq(Nat) : r2 = rest[v2] /\ More(128 + d2, r3, r2)
          <6> HIDE DEF More
          <6> QED
            BY <1>9, <3>3, <4>1, <5>4
        <5>6. PICK r1 \in Seq(Nat) : r1 = rest[v1] /\ More(128 + d1, r2, r1)
          <6> HIDE DEF More
          <6> QED
            BY <1>9, <2>4, <3>1, <5>5
        <5>10. Len(r3) = 2 /\ r3[1] = 128 + d3 /\ r3[2] = v4
          BY <5>3, <5>4
        <5>11. Len(r2) = 3 /\ r2[1] = 128 + d2 /\ r2[2] = 128 + d3 /\ r2[3] = v4
          BY <5>5, <5>10
        <5>12. Len(r1) = 4 /\ r1[1] = 128 + d1 /\ r1[2] = 128 + d2 /\ r1[3] = 128 + d3 /\ r1[4] = v4
          BY <5>6, <5>11
        <5>7. More(flags + m, r1, c)
          BY <2>2, <5>6
        <5>8. v4 \in Digit /\ n = m + d1 + 128 * (d2 + 128 * (d3 + 128 * v4))
          BY <2>1, <3>1, <4>1, <5>1, <5>2 DEF Digit
        <5>9. /\ Len(c) = 5 /\ c[1] = flags + m /\ c[2] = 128 + d1 /\ c[3] = 128 + d2
              /\ c[4] = 128 + d3 /\ c[5] = v4
          BY <5>7, <5>12
        <5> QED
          BY <5>8, <5>9 DEF IsNumber
      <4> QED
        BY <4>2, <4>3
    <3> QED
      BY <3>2, <3>3
  <2> QED
    BY <2>3, <2>4
<1> QED
  BY <1>7, <1>8

\* The powers of two that four octets are multiplied with.
LEMMA TwoToNext ==
  ASSUME NEW m \in Nat
  PROVE  \E g : g[0] = 1 /\ (\A i \in 1..m : g[i] = 2 * g[i - 1]) /\ TwoTo(m) = g[m]
<1> DEFINE F == [n \in 1..m |-> [x \in Nat |-> 2 * x]]
           Is(g) == g = [i \in 0..m |-> IF i = 0 THEN 1 ELSE 2 * g[i - 1]]
<1>1. \A n \in 1..m : \A x \in Nat : F[n][x] = 2 * x
  OBVIOUS
<1> HIDE DEF F
<1>2. LoopStays(m, Nat, 1, F)
  BY <1>1 DEF LoopStays
<1>3. PICK f : IsLoop(f, m, Nat, 1, F)
  BY <1>2, LoopExists
<1>4. Is(f)
  <2>1. ASSUME NEW n \in 0..m PROVE f[n] = IF n = 0 THEN 1 ELSE 2 * f[n - 1]
    <3>1. CASE n = 0
      BY <1>3, <3>1 DEF IsLoop
    <3>2. CASE n # 0
      <4>1. n \in 1..m /\ n - 1 \in 0..m
        BY <3>2
      <4>2. f[n] = F[n][f[n - 1]] /\ f[n - 1] \in Nat
        BY <1>3, <3>2, <4>1 DEF IsLoop
      <4> QED
        BY <1>1, <3>2, <4>1, <4>2
    <3> QED
      BY <3>1, <3>2
  <2>2. f = [n \in 0..m |-> f[n]]
    BY <1>3 DEF IsLoop
  <2> QED
    BY <2>1, <2>2
<1>5. PICK g : Is(g) /\ TwoTo(m) = g[m]
  <2>1. TwoTo(m) = (CHOOSE g : Is(g))[m]
    BY DEF TwoTo
  <2> HIDE DEF Is
  <2>2. Is(CHOOSE g : Is(g))
    BY <1>4
  <2> QED
    BY <2>1, <2>2
<1>6. g[0] = 1 /\ \A i \in 1..m : g[i] = 2 * g[i - 1]
  <2>1. \A i \in 1..m : i \in 0..m /\ i # 0
    OBVIOUS
  <2> QED
    BY <1>5, <2>1
<1> QED
  BY <1>5, <1>6, Zenon

LEMMA TwoToValues ==
  TwoTo(0) = 1 /\ TwoTo(7) = 128 /\ TwoTo(14) = 128 * 128 /\ TwoTo(21) = 128 * 128 * 128
<1>1. TwoTo(0) = 1
  <2>1. PICK g : g[0] = 1 /\ TwoTo(0) = g[0]
    BY TwoToNext
  <2> QED
    BY <2>1
<1>2. ASSUME NEW g, NEW k \in Nat, \A i \in (k + 1)..(k + 7) : g[i] = 2 * g[i - 1], g[k] \in Nat
      PROVE  g[k + 7] = 128 * g[k] /\ g[k + 7] \in Nat
  <2>1. /\ g[k + 1] = 2 * g[k] /\ g[k + 2] = 2 * g[k + 1] /\ g[k + 3] = 2 * g[k + 2]
        /\ g[k + 4] = 2 * g[k + 3] /\ g[k + 5] = 2 * g[k + 4] /\ g[k + 6] = 2 * g[k + 5]
        /\ g[k + 7] = 2 * g[k + 6]
    BY <1>2
  <2>2. PICK x \in Nat : x = g[k]
    BY <1>2
  <2>3. g[k + 1] = 2 * x
    BY <2>1, <2>2
  <2>4. g[k + 2] = 4 * x
    BY <2>1, <2>3
  <2>5. g[k + 3] = 8 * x
    BY <2>1, <2>4
  <2>6. g[k + 4] = 16 * x
    BY <2>1, <2>5
  <2>7. g[k + 5] = 32 * x
    BY <2>1, <2>6
  <2>8. g[k + 6] = 64 * x
    BY <2>1, <2>7
  <2>9. g[k + 7] = 128 * x
    BY <2>1, <2>8
  <2> QED
    BY <2>2, <2>9
<1>3. ASSUME NEW g, g[0] = 1, \A i \in 1..7 : g[i] = 2 * g[i - 1]
      PROVE  g[7] = 128 /\ g[7] \in Nat
  <2>1. \A i \in (0 + 1)..(0 + 7) : g[i] = 2 * g[i - 1]
    BY <1>3
  <2>2. g[0 + 7] = 128 * g[0] /\ g[0 + 7] \in Nat
    BY <1>2, <1>3, <2>1
  <2> QED
    BY <1>3, <2>2
<1>4. ASSUME NEW g, g[0] = 1, \A i \in 1..14 : g[i] = 2 * g[i - 1]
      PROVE  g[14] = 128 * 128 /\ g[14] \in Nat
  <2>1. g[7] = 128 /\ g[7] \in Nat
    BY <1>3, <1>4
  <2>2. \A i \in (7 + 1)..(7 + 7) : g[i] = 2 * g[i - 1]
    BY <1>4
  <2>3. g[7 + 7] = 128 * g[7] /\ g[7 + 7] \in Nat
    BY <1>2, <2>1, <2>2
  <2> QED
    BY <2>1, <2>3
<1>5. ASSUME NEW g, g[0] = 1, \A i \in 1..21 : g[i] = 2 * g[i - 1]
      PROVE  g[21] = 128 * 128 * 128
  <2>1. g[14] = 128 * 128 /\ g[14] \in Nat
    BY <1>4, <1>5
  <2>2. \A i \in (14 + 1)..(14 + 7) : g[i] = 2 * g[i - 1]
    BY <1>5
  <2>3. g[14 + 7] = 128 * g[14]
    BY <1>2, <2>1, <2>2
  <2> QED
    BY <2>1, <2>3
<1>6. TwoTo(7) = 128
  <2>1. PICK g : g[0] = 1 /\ (\A i \in 1..7 : g[i] = 2 * g[i - 1]) /\ TwoTo(7) = g[7]
    BY TwoToNext
  <2> QED
    BY <1>3, <2>1
<1>7. TwoTo(14) = 128 * 128
  <2>1. PICK g : g[0] = 1 /\ (\A i \in 1..14 : g[i] = 2 * g[i - 1]) /\ TwoTo(14) = g[14]
    BY TwoToNext
  <2> QED
    BY <1>4, <2>1
<1>8. TwoTo(21) = 128 * 128 * 128
  <2>1. PICK g : g[0] = 1 /\ (\A i \in 1..21 : g[i] = 2 * g[i - 1]) /\ TwoTo(21) = g[21]
    BY TwoToNext
  <2> QED
    BY <1>5, <2>1
<1> QED
  BY <1>1, <1>6, <1>7, <1>8

\* The value of a number that ends with the k-th octet after its prefix.
EndsAt(data, pos, k) ==
    /\ k \in 1..8 /\ pos + 1 + k <= Len(data) /\ data[pos + 1 + k] < 128
    /\ \A j \in 1..(k - 1) : ~(data[pos + 1 + j] < 128)
IsSum(g, data, pos, prefix, k) ==
    /\ g[0] = data[pos + 1] % 2^prefix
    /\ \A n \in 1..k : g[n] = g[n - 1] + (data[pos + 1 + n] % 128) * TwoTo(7 * (n - 1))

IsSummedUp(data, pos, prefix, k) ==
    \E g : /\ IsSum(g, data, pos, prefix, k)
           /\ DecodeInt(data, pos, prefix) = [ok |-> TRUE, value |-> g[k], pos |-> pos + 1 + k]

LEMMA PrefixValue ==
  ASSUME NEW data \in Seq(Octets), NEW pos \in Nat, pos < Len(data), NEW prefix \in {4, 5, 6, 7}
  PROVE  data[pos + 1] % 2^prefix \in Nat
<1>1. PICK o \in Nat : o = data[pos + 1]
  BY DEF Octets
<1>2. 2^4 = 16 /\ 2^5 = 32 /\ 2^6 = 64 /\ 2^7 = 128
  OBVIOUS
<1>3. o % 16 \in Nat /\ o % 32 \in Nat /\ o % 64 \in Nat /\ o % 128 \in Nat
  OBVIOUS
<1> QED
  BY <1>1, <1>2, <1>3, ZenonT(40)

LEMMA DecodeIntSum ==
  ASSUME NEW data \in Seq(Octets), NEW pos \in Nat, pos < Len(data), NEW prefix \in {4, 5, 6, 7},
         ~(data[pos + 1] % 2^prefix < Mask(prefix)), NEW k, EndsAt(data, pos, k)
  PROVE  IsSummedUp(data, pos, prefix, k)
<1> DEFINE first == data[pos + 1] % 2^prefix
           ends  == {n \in 1..8 : pos + 1 + n <= Len(data) /\ data[pos + 1 + n] < 128}
           last  == First(ends)
           Is(g) == g = [n \in 0..last |->
                          IF n = 0 THEN first
                          ELSE g[n - 1] + (data[pos + 1 + n] % 128) * TwoTo(7 * (n - 1))]
<1>1. first \in Nat
  BY PrefixValue
<1>2. DecodeInt(data, pos, prefix) =
        IF first < Mask(prefix) THEN [ok |-> TRUE, value |-> first, pos |-> pos + 1]
        ELSE IF ends = {} THEN [ok |-> FALSE, value |-> 0, pos |-> pos]
        ELSE [ok |-> TRUE, value |-> (CHOOSE g : Is(g))[last], pos |-> pos + 1 + last]
  BY DEF DecodeInt
<1>3. ~(first < Mask(prefix))
  OBVIOUS
<1> HIDE DEF first
<1>4. k \in ends /\ k \in 1..8
  BY DEF EndsAt
<1>5. last = k
  <2>1. ends \in SUBSET Nat
    OBVIOUS
  <2>2. \A j \in ends : k <= j
    <3> SUFFICES ASSUME NEW j \in ends, ~(k <= j) PROVE FALSE
      OBVIOUS
    <3>1. j \in 1..(k - 1)
      BY <1>4
    <3> QED
      BY <3>1 DEF EndsAt
  <2> HIDE DEF ends
  <2>3. \A x \in ends : (\A j \in ends : x <= j) => x = k
    BY <1>4, <2>1, <2>2
  <2>4. last \in ends /\ \A j \in ends : last <= j
    BY <1>4, <2>2 DEF First
  <2> HIDE DEF last
  <2> QED
    BY <2>3, <2>4
<1> HIDE DEF last
<1>6. PICK N \in Nat : N = k /\ N \in 1..8 /\ pos + 1 + N <= Len(data)
  BY <1>4
<1> HIDE DEF ends
<1> DEFINE W(n) == (data[pos + 1 + n] % 128) * TwoTo(7 * (n - 1))
           F == [n \in 1..N |-> [x \in Nat |-> x + W(n)]]
<1>7. ASSUME NEW n \in 1..N PROVE W(n) \in Nat
  <2>1. data[pos + 1 + n] \in Octets
    BY <1>6
  <2>2. PICK o \in Nat : o = data[pos + 1 + n] % 128
    <3>1. PICK y \in Octets : y = data[pos + 1 + n]
      BY <2>1
    <3>2. y % 128 \in Nat
      BY DEF Octets
    <3> QED
      BY <3>1, <3>2
  <2>3. PICK w \in Nat : w = TwoTo(7 * (n - 1))
    <3>1. 7 * (n - 1) \in Nat
      OBVIOUS
    <3> QED
      BY <3>1, TwoToType
  <2>4. W(n) = o * w
    BY <2>2, <2>3
  <2>5. o * w \in Nat
    OBVIOUS
  <2> QED
    BY <2>4, <2>5
<1> HIDE DEF W
<1>8. ASSUME NEW n \in 1..N, NEW x \in Nat PROVE F[n][x] = x + W(n) /\ F[n][x] \in Nat
  BY <1>7
<1> HIDE DEF F
<1>9. LoopStays(N, Nat, first, F)
  BY <1>1, <1>8 DEF LoopStays
<1>10. PICK f : IsLoop(f, N, Nat, first, F)
  BY <1>9, LoopExists
<1> DEFINE Ws(g) == g = [n \in 0..N |-> IF n = 0 THEN first ELSE g[n - 1] + W(n)]
<1>11. ASSUME NEW g PROVE Is(g) <=> Ws(g)
  BY <1>5, <1>6 DEF W
<1>12. Ws(f)
  <2>1. ASSUME NEW n \in 0..N PROVE f[n] = IF n = 0 THEN first ELSE f[n - 1] + W(n)
    <3>1. CASE n = 0
      BY <1>10, <3>1 DEF IsLoop
    <3>2. CASE n # 0
      <4>1. n \in 1..N /\ n - 1 \in 0..N
        BY <3>2
      <4>2. f[n] = F[n][f[n - 1]] /\ f[n - 1] \in Nat
        BY <1>10, <3>2, <4>1 DEF IsLoop
      <4> QED
        BY <1>8, <3>2, <4>1, <4>2
    <3> QED
      BY <3>1, <3>2
  <2>2. f = [n \in 0..N |-> f[n]]
    BY <1>10 DEF IsLoop
  <2> QED
    BY <2>1, <2>2
<1>13. PICK g : Ws(g) /\ g = CHOOSE h : Is(h)
  <2> HIDE DEF Is, Ws
  <2>1. Is(CHOOSE h : Is(h))
    BY <1>11, <1>12
  <2> QED
    BY <1>11, <2>1
<1>14. g[0] = first /\ \A n \in 1..N : g[n] = g[n - 1] + W(n)
  <2>1. 0 \in 0..N /\ \A n \in 1..N : n \in 0..N /\ n # 0
    OBVIOUS
  <2> QED
    BY <1>13, <2>1
<1>15. IsSum(g, data, pos, prefix, k)
  BY <1>6, <1>14 DEF IsSum, W, first
<1>16. DecodeInt(data, pos, prefix) = [ok |-> TRUE, value |-> g[k], pos |-> pos + 1 + k]
  <2> HIDE DEF Is
  <2> QED
    BY <1>2, <1>3, <1>4, <1>5, <1>13
<1> QED
  BY <1>15, <1>16 DEF IsSummedUp

LEMMA DecodeIntShort ==
  ASSUME NEW data, NEW pos, NEW prefix, data[pos + 1] % 2^prefix < Mask(prefix)
  PROVE  DecodeInt(data, pos, prefix) =
            [ok |-> TRUE, value |-> data[pos + 1] % 2^prefix, pos |-> pos + 1]
BY DEF DecodeInt

\* The flags do not touch the prefix.
LEMMA PrefixOfFlags ==
  ASSUME NEW prefix \in {4, 5, 6, 7}, NEW flags \in {0, 2^prefix}
  PROVE  /\ Mask(prefix) \in Nat /\ flags \in Nat /\ flags + Mask(prefix) <= 255
         /\ \A x \in 0..Mask(prefix) : (flags + x) % 2^prefix = x
<1>1. 2^4 = 16 /\ 2^5 = 32 /\ 2^6 = 64 /\ 2^7 = 128
  OBVIOUS
<1>2. CASE prefix = 4
  <2>1. Mask(prefix) = 15 /\ 2^prefix = 16 /\ flags \in {0, 16}
    BY <1>1, <1>2, MaskValues
  <2> QED
    BY <2>1
<1>3. CASE prefix = 5
  <2>1. Mask(prefix) = 31 /\ 2^prefix = 32 /\ flags \in {0, 32}
    BY <1>1, <1>3, MaskValues
  <2> QED
    BY <2>1
<1>4. CASE prefix = 6
  <2>1. Mask(prefix) = 63 /\ 2^prefix = 64 /\ flags \in {0, 64}
    BY <1>1, <1>4, MaskValues
  <2> QED
    BY <2>1
<1>5. CASE prefix = 7
  <2>1. Mask(prefix) = 127 /\ 2^prefix = 128 /\ flags \in {0, 128}
    BY <1>1, <1>5, MaskValues
  <2> QED
    BY <2>1
<1> QED
  BY <1>2, <1>3, <1>4, <1>5

\* What is known of a number that is read.
NumberIsRead(data, pos, flags, n, prefix) ==
    LET c == EncodeInt(flags, n, prefix)
    IN  /\ DecodeInt(data, pos, prefix) = [ok |-> TRUE, value |-> n, pos |-> pos + Len(c)]
        /\ c \in Seq(Octets) /\ Len(c) \in Nat \ {0} /\ pos + Len(c) <= Len(data)
        /\ data[pos + 1] \in flags..(flags + Mask(prefix))

\* A number is read as it was written, from where it lies.
LEMMA NumberRead ==
  ASSUME NEW data \in Seq(Octets), NEW pos \in Nat, NEW prefix \in {4, 5, 6, 7},
         NEW flags \in {0, 2^prefix}, NEW n \in Nat, n < NumberLimit,
         Lies(EncodeInt(flags, n, prefix), data, pos)
  PROVE  NumberIsRead(data, pos, flags, n, prefix)
<1>1. PICK m \in Nat, fl \in Nat : m = Mask(prefix) /\ fl = flags
  <2>1. Mask(prefix) \in Nat /\ flags \in Nat
    BY PrefixOfFlags
  <2> QED
    BY <2>1
<1>2. fl + m <= 255 /\ \A x \in 0..m : (fl + x) % 2^prefix = x
  <2>1. flags + Mask(prefix) <= 255
    BY PrefixOfFlags, Zenon
  <2>2. \A x \in 0..Mask(prefix) : (flags + x) % 2^prefix = x
    BY PrefixOfFlags, Zenon
  <2> QED
    BY <1>1, <2>1, <2>2, Zenon
<1>3. PICK c \in Seq(Octets) :
         c = EncodeInt(flags, n, prefix) /\ IsNumber(c, fl, n, m) /\ Lies(c, data, pos)
  <2>1. EncodeInt(flags, n, prefix) \in Seq(Octets)
    BY <1>1, <1>2, EncodeIntType
  <2>2. IsNumber(EncodeInt(flags, n, prefix), fl, n, m)
    BY <1>1, EncodeIntDigits
  <2> QED
    BY <2>1, <2>2, Zenon
<1>4. PICK z \in Nat : z = Len(data)
  OBVIOUS
<1> DEFINE d == DecodeInt(data, pos, prefix)
           Is(k) == /\ d = [ok |-> TRUE, value |-> n, pos |-> pos + k]
                    /\ k >= 1 /\ pos < z /\ data[pos + 1] \in fl..(fl + m)
<1> SUFFICES Is(Len(c))
  <2>1. Len(c) \in Nat /\ pos + Len(c) <= z
    BY <1>3, <1>4 DEF Lies
  <2> QED
    BY <1>1, <1>3, <1>4, <2>1 DEF NumberIsRead
<1>5. CASE n < m /\ Len(c) = 1 /\ c[1] = fl + n
  <2>1. pos < z /\ data[pos + 1] = fl + n
    BY <1>3, <1>4, <1>5 DEF Lies
  <2>2. n \in 0..m
    BY <1>5
  <2>3. data[pos + 1] % 2^prefix = n
    BY <1>2, <2>1, <2>2
  <2>4. d = [ok |-> TRUE, value |-> n, pos |-> pos + 1]
    BY <1>1, <1>5, <2>3, DecodeIntShort
  <2> HIDE DEF d
  <2> QED
    BY <1>5, <2>1, <2>2, <2>4
<1>6. ASSUME data[pos + 1] = fl + m, pos < z, NEW k \in 1..4, EndsAt(data, pos, k)
      PROVE  \E g : /\ IsSum(g, data, pos, prefix, k) /\ g[0] = m
                    /\ d = [ok |-> TRUE, value |-> g[k], pos |-> pos + 1 + k]
  <2>1. m \in 0..m
    OBVIOUS
  <2>2. data[pos + 1] % 2^prefix = m
    BY <1>2, <1>6, <2>1
  <2>3. ~(data[pos + 1] % 2^prefix < Mask(prefix))
    <3>1. ~(m < m)
      OBVIOUS
    <3> QED
      BY <1>1, <2>2, <3>1, Zenon
  <2>4. PICK g : IsSum(g, data, pos, prefix, k) /\ d = [ok |-> TRUE, value |-> g[k], pos |-> pos + 1 + k]
    <3>1. pos < Len(data) /\ EndsAt(data, pos, k)
      BY <1>4, <1>6
    <3>2. IsSummedUp(data, pos, prefix, k)
      BY <2>3, <3>1, DecodeIntSum, Zenon
    <3> QED
      BY <3>2 DEF IsSummedUp
  <2>5. g[0] = m
    BY <2>2, <2>4 DEF IsSum
  <2> QED
    BY <2>4, <2>5
<1>7. \A x \in Digit : x \in Nat /\ x < 128 /\ x % 128 = x /\ ~(128 + x < 128) /\ (128 + x) % 128 = x
  BY DEF Digit
<1> HIDE DEF d
<1>8. ASSUME NEW d1 \in Digit, n = m + d1, Len(c) = 2, c[1] = fl + m, c[2] = d1
      PROVE  Is(Len(c))
  <2>1. pos + 2 <= z /\ data[pos + 1] = fl + m /\ data[pos + 1 + 1] = d1
    <3>1. pos + 2 <= z /\ \A i \in 1..2 : data[pos + i] = c[i]
      BY <1>3, <1>4, <1>8 DEF Lies
    <3>2. pos + 1 + 1 = pos + 2
      OBVIOUS
    <3>3. data[pos + 1] = c[1] /\ data[pos + 2] = c[2]
      BY <3>1
    <3> QED
      BY <1>8, <3>1, <3>2, <3>3
  <2>2. EndsAt(data, pos, 1)
    BY <1>4, <1>7, <2>1 DEF EndsAt
  <2>3. PICK g : IsSum(g, data, pos, prefix, 1) /\ g[0] = m
                 /\ d = [ok |-> TRUE, value |-> g[1], pos |-> pos + 1 + 1]
    BY <1>6, <2>1, <2>2
  <2>4. g[1] = g[0] + (data[pos + 1 + 1] % 128) * TwoTo(7 * (1 - 1))
    BY <2>3 DEF IsSum
  <2>5. TwoTo(7 * (1 - 1)) = 1
    BY TwoToValues
  <2>6. g[1] = m + d1
    <3>1. data[pos + 1 + 1] % 128 = d1 /\ d1 \in Nat
      BY <1>7, <2>1
    <3>2. g[1] = g[0] + d1 * 1
      BY <2>4, <2>5, <3>1, Zenon
    <3> QED
      BY <1>7, <2>3, <3>1, <3>2
  <2> QED
    <3>1. pos + 1 + 1 = pos + Len(c) /\ Len(c) >= 1 /\ pos < z /\ data[pos + 1] \in fl..(fl + m)
      BY <1>8, <2>1
    <3> QED
      BY <1>8, <2>3, <2>6, <3>1
<1>9. ASSUME NEW d1 \in Digit, NEW d2 \in Digit, n = m + d1 + 128 * d2, Len(c) = 3,
             c[1] = fl + m, c[2] = 128 + d1, c[3] = d2
      PROVE  Is(Len(c))
  <2>1. pos + 3 <= z /\ data[pos + 1] = fl + m /\ data[pos + 1 + 1] = 128 + d1 /\ data[pos + 1 + 2] = d2
    <3>1. pos + 3 <= z /\ \A i \in 1..3 : data[pos + i] = c[i]
      BY <1>3, <1>4, <1>9 DEF Lies
    <3>2. pos + 1 + 1 = pos + 2 /\ pos + 1 + 2 = pos + 3
      OBVIOUS
    <3>3. data[pos + 1] = c[1] /\ data[pos + 2] = c[2] /\ data[pos + 3] = c[3]
      BY <3>1
    <3> QED
      BY <1>9, <3>1, <3>2, <3>3
  <2>2. EndsAt(data, pos, 2)
    <3>1. \A j \in 1..(2 - 1) : j = 1
      OBVIOUS
    <3> QED
      BY <1>4, <1>7, <2>1, <3>1 DEF EndsAt
  <2>3. PICK g : IsSum(g, data, pos, prefix, 2) /\ g[0] = m
                 /\ d = [ok |-> TRUE, value |-> g[2], pos |-> pos + 1 + 2]
    BY <1>6, <2>1, <2>2
  <2>4. /\ g[1] = g[0] + (data[pos + 1 + 1] % 128) * TwoTo(7 * (1 - 1))
        /\ g[2] = g[1] + (data[pos + 1 + 2] % 128) * TwoTo(7 * (2 - 1))
    BY <2>3 DEF IsSum
  <2>5. TwoTo(7 * (1 - 1)) = 1 /\ TwoTo(7 * (2 - 1)) = 128
    BY TwoToValues
  <2>6. g[1] = m + d1
    <3>1. data[pos + 1 + 1] % 128 = d1 /\ d1 \in Nat
      BY <1>7, <2>1
    <3>2. g[1] = g[0] + d1 * 1
      BY <2>4, <2>5, <3>1, Zenon
    <3> QED
      BY <1>7, <2>3, <3>1, <3>2
  <2>7. g[2] = m + d1 + 128 * d2
    <3>1. data[pos + 1 + 2] % 128 = d2 /\ d2 \in Nat
      BY <1>7, <2>1
    <3>2. g[2] = g[1] + d2 * 128
      BY <2>4, <2>5, <3>1, Zenon
    <3> QED
      BY <1>7, <2>6, <3>1, <3>2
  <2> QED
    <3>1. pos + 1 + 2 = pos + Len(c) /\ Len(c) >= 1 /\ pos < z /\ data[pos + 1] \in fl..(fl + m)
      BY <1>9, <2>1
    <3> QED
      BY <1>9, <2>3, <2>7, <3>1
<1>10. ASSUME NEW d1 \in Digit, NEW d2 \in Digit, NEW d3 \in Digit, n = m + d1 + 128 * (d2 + 128 * d3),
              Len(c) = 4, c[1] = fl + m, c[2] = 128 + d1, c[3] = 128 + d2, c[4] = d3
       PROVE  Is(Len(c))
  <2>1. /\ pos + 4 <= z /\ data[pos + 1] = fl + m /\ data[pos + 1 + 1] = 128 + d1
        /\ data[pos + 1 + 2] = 128 + d2 /\ data[pos + 1 + 3] = d3
    <3>1. pos + 4 <= z /\ \A i \in 1..4 : data[pos + i] = c[i]
      BY <1>3, <1>4, <1>10 DEF Lies
    <3>2. pos + 1 + 1 = pos + 2 /\ pos + 1 + 2 = pos + 3 /\ pos + 1 + 3 = pos + 4
      OBVIOUS
    <3>3. data[pos + 1] = c[1] /\ data[pos + 2] = c[2] /\ data[pos + 3] = c[3] /\ data[pos + 4] = c[4]
      BY <3>1
    <3> QED
      BY <1>10, <3>1, <3>2, <3>3
  <2>2. EndsAt(data, pos, 3)
    <3>1. \A j \in 1..(3 - 1) : j = 1 \/ j = 2
      OBVIOUS
    <3> QED
      BY <1>4, <1>7, <2>1, <3>1 DEF EndsAt
  <2>3. PICK g : IsSum(g, data, pos, prefix, 3) /\ g[0] = m
                 /\ d = [ok |-> TRUE, value |-> g[3], pos |-> pos + 1 + 3]
    BY <1>6, <2>1, <2>2
  <2>4. /\ g[1] = g[0] + (data[pos + 1 + 1] % 128) * TwoTo(7 * (1 - 1))
        /\ g[2] = g[1] + (data[pos + 1 + 2] % 128) * TwoTo(7 * (2 - 1))
        /\ g[3] = g[2] + (data[pos + 1 + 3] % 128) * TwoTo(7 * (3 - 1))
    BY <2>3 DEF IsSum
  <2>5. TwoTo(7 * (1 - 1)) = 1 /\ TwoTo(7 * (2 - 1)) = 128 /\ TwoTo(7 * (3 - 1)) = 128 * 128
    BY TwoToValues
  <2>6. g[1] = m + d1
    <3>1. data[pos + 1 + 1] % 128 = d1 /\ d1 \in Nat
      BY <1>7, <2>1
    <3>2. g[1] = g[0] + d1 * 1
      BY <2>4, <2>5, <3>1, Zenon
    <3> QED
      BY <1>7, <2>3, <3>1, <3>2
  <2>7. g[2] = m + d1 + 128 * d2
    <3>1. data[pos + 1 + 2] % 128 = d2 /\ d2 \in Nat
      BY <1>7, <2>1
    <3>2. g[2] = g[1] + d2 * 128
      BY <2>4, <2>5, <3>1, Zenon
    <3> QED
      BY <1>7, <2>6, <3>1, <3>2
  <2>8. g[3] = m + d1 + 128 * (d2 + 128 * d3)
    <3>1. data[pos + 1 + 3] % 128 = d3 /\ d3 \in Nat
      BY <1>7, <2>1
    <3>2. g[3] = g[2] + d3 * (128 * 128)
      BY <2>4, <2>5, <3>1, Zenon
    <3> QED
      BY <1>7, <2>7, <3>1, <3>2
  <2> QED
    <3>1. pos + 1 + 3 = pos + Len(c) /\ Len(c) >= 1 /\ pos < z /\ data[pos + 1] \in fl..(fl + m)
      BY <1>10, <2>1
    <3> QED
      BY <1>10, <2>3, <2>8, <3>1
<1>11. ASSUME NEW d1 \in Digit, NEW d2 \in Digit, NEW d3 \in Digit, NEW d4 \in Digit,
              n = m + d1 + 128 * (d2 + 128 * (d3 + 128 * d4)), Len(c) = 5, c[1] = fl + m,
              c[2] = 128 + d1, c[3] = 128 + d2, c[4] = 128 + d3, c[5] = d4
       PROVE  Is(Len(c))
  <2>1. /\ pos + 5 <= z /\ data[pos + 1] = fl + m /\ data[pos + 1 + 1] = 128 + d1
        /\ data[pos + 1 + 2] = 128 + d2 /\ data[pos + 1 + 3] = 128 + d3 /\ data[pos + 1 + 4] = d4
    <3>1. pos + 5 <= z /\ \A i \in 1..5 : data[pos + i] = c[i]
      BY <1>3, <1>4, <1>11 DEF Lies
    <3>2. pos + 1 + 1 = pos + 2 /\ pos + 1 + 2 = pos + 3 /\ pos + 1 + 3 = pos + 4 /\ pos + 1 + 4 = pos + 5
      OBVIOUS
    <3>3. data[pos + 1] = c[1] /\ data[pos + 2] = c[2] /\ data[pos + 3] = c[3] /\ data[pos + 4] = c[4] /\ data[pos + 5] = c[5]
      BY <3>1
    <3> QED
      BY <1>11, <3>1, <3>2, <3>3
  <2>2. EndsAt(data, pos, 4)
    <3>1. \A j \in 1..(4 - 1) : j = 1 \/ j = 2 \/ j = 3
      OBVIOUS
    <3> QED
      BY <1>4, <1>7, <2>1, <3>1 DEF EndsAt
  <2>3. PICK g : IsSum(g, data, pos, prefix, 4) /\ g[0] = m
                 /\ d = [ok |-> TRUE, value |-> g[4], pos |-> pos + 1 + 4]
    BY <1>6, <2>1, <2>2
  <2>4. /\ g[1] = g[0] + (data[pos + 1 + 1] % 128) * TwoTo(7 * (1 - 1))
        /\ g[2] = g[1] + (data[pos + 1 + 2] % 128) * TwoTo(7 * (2 - 1))
        /\ g[3] = g[2] + (data[pos + 1 + 3] % 128) * TwoTo(7 * (3 - 1))
        /\ g[4] = g[3] + (data[pos + 1 + 4] % 128) * TwoTo(7 * (4 - 1))
    BY <2>3 DEF IsSum
  <2>5. /\ TwoTo(7 * (1 - 1)) = 1 /\ TwoTo(7 * (2 - 1)) = 128
        /\ TwoTo(7 * (3 - 1)) = 128 * 128 /\ TwoTo(7 * (4 - 1)) = 128 * 128 * 128
    BY TwoToValues
  <2>6. g[1] = m + d1
    <3>1. data[pos + 1 + 1] % 128 = d1 /\ d1 \in Nat
      BY <1>7, <2>1
    <3>2. g[1] = g[0] + d1 * 1
      BY <2>4, <2>5, <3>1, Zenon
    <3> QED
      BY <1>7, <2>3, <3>1, <3>2
  <2>7. g[2] = m + d1 + 128 * d2
    <3>1. data[pos + 1 + 2] % 128 = d2 /\ d2 \in Nat
      BY <1>7, <2>1
    <3>2. g[2] = g[1] + d2 * 128
      BY <2>4, <2>5, <3>1, Zenon
    <3> QED
      BY <1>7, <2>6, <3>1, <3>2
  <2>8. g[3] = m + d1 + 128 * (d2 + 128 * d3)
    <3>1. data[pos + 1 + 3] % 128 = d3 /\ d3 \in Nat
      BY <1>7, <2>1
    <3>2. g[3] = g[2] + d3 * (128 * 128)
      BY <2>4, <2>5, <3>1, Zenon
    <3> QED
      BY <1>7, <2>7, <3>1, <3>2
  <2>9. g[4] = m + d1 + 128 * (d2 + 128 * (d3 + 128 * d4))
    <3>1. data[pos + 1 + 4] % 128 = d4 /\ d4 \in Nat
      BY <1>7, <2>1
    <3>2. g[4] = g[3] + d4 * (128 * 128 * 128)
      BY <2>4, <2>5, <3>1, Zenon
    <3> QED
      BY <1>7, <2>8, <3>1, <3>2
  <2> QED
    <3>1. pos + 1 + 4 = pos + Len(c) /\ Len(c) >= 1 /\ pos < z /\ data[pos + 1] \in fl..(fl + m)
      BY <1>11, <2>1
    <3> QED
      BY <1>11, <2>3, <2>9, <3>1
<1> HIDE DEF Is
<1> QED
  BY <1>3, <1>5, <1>8, <1>9, <1>10, <1>11 DEF IsNumber

-----------------------------------------------------------------------------
(* The Huffman coding is read as it was written.                           *)

\* The sequences one after the other, up to each of them.
IsFlattening(g, q, N) ==
    /\ g[1] = q[1] /\ \A i \in 2..N : g[i] = g[i - 1] \o q[i]
    /\ \A i \in 1..N : g[i] \in Seq(Bit)
    /\ FlattenSeq(q) = g[N]

LEMMA FlattenParts ==
  ASSUME NEW N \in Nat \ {0}, NEW q, DOMAIN q = 1..N, Len(q) = N, \A i \in 1..N : q[i] \in Seq(Bit)
  PROVE  \E g : IsFlattening(g, q, N)
<1> DEFINE S == Seq(Bit)
           F == [n \in 1..(N - 1) |-> [x \in S |-> x \o q[n + 1]]]
           Is(g) == g = [i \in 1..N |-> IF i = 1 THEN q[i] ELSE g[i - 1] \o q[i]]
<1>1. N - 1 \in Nat /\ q[1] \in S
  OBVIOUS
<1>2. \A n \in 1..(N - 1) : \A x \in S : F[n][x] = x \o q[n + 1] /\ F[n][x] \in S
  <2>1. \A n \in 1..(N - 1) : q[n + 1] \in Seq(Bit)
    OBVIOUS
  <2> QED
    BY <2>1
<1> HIDE DEF F, S
<1>3. LoopStays(N - 1, S, q[1], F)
  BY <1>1, <1>2 DEF LoopStays
<1>4. PICK f : IsLoop(f, N - 1, S, q[1], F)
  BY <1>3, LoopExists
<1>5. f[0] = q[1] /\ \A n \in 1..(N - 1) : f[n - 1] \in S /\ f[n] = f[n - 1] \o q[n + 1]
  <2>1. \A n \in 1..(N - 1) : n \in 0..(N - 1) /\ n - 1 \in 0..(N - 1) /\ n # 0
    OBVIOUS
  <2>2. 0 \in 0..(N - 1)
    BY <1>1
  <2> QED
    BY <1>2, <1>4, <2>1, <2>2 DEF IsLoop
<1> DEFINE h == [i \in 1..N |-> f[i - 1]]
<1>6. Is(h)
  <2>1. ASSUME NEW i \in 1..N PROVE h[i] = IF i = 1 THEN q[i] ELSE h[i - 1] \o q[i]
    <3>1. CASE i = 1
      BY <1>5, <3>1
    <3>2. CASE i # 1
      <4>1. i - 1 \in 1..(N - 1) /\ i - 1 \in 1..N /\ (i - 1) + 1 = i
        BY <3>2
      <4>2. h[i] = f[i - 1] /\ h[i - 1] = f[(i - 1) - 1]
        BY <4>1
      <4> HIDE DEF h
      <4> QED
        BY <1>5, <3>2, <4>1, <4>2
    <3> QED
      BY <3>1, <3>2
  <2>2. h = [i \in 1..N |-> h[i]]
    OBVIOUS
  <2> HIDE DEF h
  <2> QED
    BY <2>1, <2>2
<1>7. PICK g : Is(g) /\ FlattenSeq(q) = g[N]
  <2>1. FlattenSeq(q) = (CHOOSE g : Is(g))[N]
    BY DEF FlattenSeq
  <2> HIDE DEF Is
  <2>2. Is(CHOOSE g : Is(g))
    BY <1>6
  <2> QED
    BY <2>1, <2>2
<1>8. g[1] = q[1] /\ \A i \in 2..N : g[i] = g[i - 1] \o q[i]
  <2>1. 1 \in 1..N /\ \A i \in 2..N : i \in 1..N /\ i # 1
    OBVIOUS
  <2> QED
    BY <1>7, <2>1
<1> DEFINE T == {n \in 0..(N - 1) : g[n + 1] \in Seq(Bit)}
<1>9. 0 \in T
  BY <1>8
<1>10. ASSUME NEW n \in 0..((N - 1) - 1), n \in T PROVE n + 1 \in T
  <2>1. (n + 1) + 1 \in 2..N /\ (n + 1) + 1 \in 1..N /\ ((n + 1) + 1) - 1 = n + 1 /\ n + 1 \in 0..(N - 1)
    OBVIOUS
  <2>2. g[(n + 1) + 1] = g[n + 1] \o q[(n + 1) + 1] /\ g[n + 1] \in Seq(Bit) /\ q[(n + 1) + 1] \in Seq(Bit)
    BY <1>8, <1>10, <2>1
  <2>3. \A x, y \in Seq(Bit) : x \o y \in Seq(Bit)
    OBVIOUS
  <2>4. g[(n + 1) + 1] \in Seq(Bit)
    BY <2>2, <2>3
  <2> QED
    BY <2>1, <2>4
<1> HIDE DEF T
<1>11. \A n \in 0..(N - 1) : n \in T
  BY <1>1, <1>9, <1>10, LoopInduction
<1>12. ASSUME NEW i \in 1..N PROVE g[i] \in Seq(Bit)
  <2>1. i - 1 \in 0..(N - 1) /\ (i - 1) + 1 = i
    OBVIOUS
  <2>2. i - 1 \in T
    BY <1>11, <2>1
  <2> QED
    BY <2>1, <2>2 DEF T
<1> QED
  BY <1>7, <1>8, <1>12 DEF IsFlattening

\* Where the code of each character ends in the bits of a string.
AreOffsets(off, s) ==
    /\ off[0] = 0 /\ off[Len(s)] = Len(Bits(s))
    /\ \A i \in 0..Len(s) : off[i] \in Nat
    /\ \A i \in 1..Len(s) :
          /\ off[i] = off[i - 1] + Len(Code[s[i]]) /\ off[i] <= Len(Bits(s))
          /\ \A k \in 1..Len(Code[s[i]]) : Bits(s)[off[i - 1] + k] = Code[s[i]][k]

LEMMA OffsetsExist ==
  ASSUME NEW s \in Text
  PROVE  \E off : AreOffsets(off, s)
<1> DEFINE q == [i \in 1..Len(s) |-> Code[s[i]]]
<1>1. PICK N \in Nat : N = Len(s) /\ \A i \in 1..N : s[i] \in DOMAIN Code
  BY DEF Text
<1>2. DOMAIN q = 1..N /\ \A i \in 1..N : q[i] \in Seq(Bit) /\ q[i] = Code[s[i]]
  BY <1>1, StringAssumption DEF Bit
<1>3. Len(q) = N /\ (q = <<>> \/ N # 0)
  <2>1. q \in [1..N -> Seq(Bit)]
    BY <1>1, <1>2
  <2>2. q \in Seq(Seq(Bit)) /\ Len(q) = N
    BY <2>1
  <2> HIDE DEF q
  <2> QED
    BY <2>2
<1>4. Bits(s) = FlattenSeq(q)
  BY DEF Bits
<1> HIDE DEF q
<1>5. CASE N = 0
  <2>1. Bits(s) = <<>>
    <3>1. q = <<>> /\ Len(q) = 0
      BY <1>3, <1>5
    <3>2. FlattenSeq(q) = q
      BY <3>1, Zenon DEF FlattenSeq
    <3> QED
      BY <1>4, <3>1, <3>2
  <2> DEFINE off == [i \in 0..0 |-> 0]
  <2>2. off[0] = 0 /\ Len(Bits(s)) = 0 /\ Len(s) = 0
    BY <1>1, <1>5, <2>1
  <2>3. (\A i \in 0..0 : off[i] \in Nat) /\ 1..0 = {}
    BY <2>2
  <2> HIDE DEF off
  <2>4. AreOffsets(off, s)
    BY <2>2, <2>3 DEF AreOffsets
  <2> QED
    BY <2>4
<1>6. CASE N # 0
  <2>1. PICK g : IsFlattening(g, q, N)
    <3>1. N \in Nat \ {0}
      BY <1>6
    <3> QED
      BY <1>2, <1>3, <3>1, FlattenParts
  <2>2. /\ g[1] = q[1] /\ \A i \in 2..N : g[i] = g[i - 1] \o q[i]
        /\ \A i \in 1..N : g[i] \in Seq(Bit) /\ Len(g[i]) \in Nat
        /\ Bits(s) = g[N]
    <3>1. /\ g[1] = q[1] /\ \A i \in 2..N : g[i] = g[i - 1] \o q[i]
          /\ \A i \in 1..N : g[i] \in Seq(Bit)
          /\ Bits(s) = g[N]
      BY <1>4, <2>1, Zenon DEF IsFlattening
    <3>2. \A x \in Seq(Bit) : Len(x) \in Nat
      OBVIOUS
    <3> QED
      BY <3>1, <3>2
  <2> DEFINE Begins(a, b) == Len(a) <= Len(b) /\ \A k \in 1..Len(a) : b[k] = a[k]
             T == {n \in 0..(N - 1) : \A i \in 1..(n + 1) : Begins(g[i], g[n + 1])}
  <2>3. ASSUME NEW a \in Seq(Bit), NEW b \in Seq(Bit), NEW c \in Seq(Bit), Begins(a, b)
        PROVE  Begins(a, b \o c)
    BY <2>3
  <2>4. 0 \in T
    <3>1. 0 \in 0..(N - 1) /\ \A i \in 1..(0 + 1) : i = 1 /\ i = 0 + 1
      BY <1>6
    <3>2. Begins(g[1], g[1])
      BY <1>6, <2>2
    <3> HIDE DEF Begins
    <3> QED
      BY <3>1, <3>2
  <2>5. ASSUME NEW n \in 0..((N - 1) - 1), n \in T PROVE n + 1 \in T
    <3>1. /\ (n + 1) + 1 \in 2..N /\ ((n + 1) + 1) - 1 = n + 1 /\ n + 1 \in 0..(N - 1)
          /\ n + 1 \in 1..N /\ (n + 1) + 1 \in 1..N
      OBVIOUS
    <3>2. g[(n + 1) + 1] = g[n + 1] \o q[(n + 1) + 1]
      BY <2>2, <3>1
    <3>3. ASSUME NEW i \in 1..((n + 1) + 1) PROVE Begins(g[i], g[(n + 1) + 1])
      <4>1. CASE i = (n + 1) + 1
        BY <2>2, <3>1, <4>1
      <4>2. CASE i # (n + 1) + 1
        <5>1. i \in 1..(n + 1) /\ i \in 1..N
          BY <4>2
        <5> HIDE DEF Begins
        <5>2. Begins(g[i], g[n + 1])
          BY <2>5, <5>1
        <5> QED
          BY <1>2, <2>2, <2>3, <3>1, <3>2, <5>1, <5>2
      <4> QED
        BY <4>1, <4>2
    <3> HIDE DEF Begins
    <3> QED
      BY <3>1, <3>3
  <2> HIDE DEF T
  <2>6. \A n \in 0..(N - 1) : n \in T
    <3>1. N - 1 \in Nat
      BY <1>6
    <3> QED
      BY <2>4, <2>5, <3>1, LoopInduction
  <2>7. \A i \in 1..N : Begins(g[i], Bits(s))
    <3>1. N - 1 \in 0..(N - 1) /\ (N - 1) + 1 = N
      BY <1>6
    <3>2. N - 1 \in T
      BY <2>6, <3>1
    <3> HIDE DEF Begins
    <3> QED
      BY <2>2, <3>1, <3>2 DEF T
  <2> DEFINE off == [i \in 0..N |-> IF i = 0 THEN 0 ELSE Len(g[i])]
  <2>8. off[0] = 0 /\ \A i \in 1..N : off[i] = Len(g[i]) /\ off[i] \in Nat
    <3>1. 0 \in 0..N /\ \A i \in 1..N : i \in 0..N /\ i # 0
      OBVIOUS
    <3> QED
      BY <2>2, <3>1
  <2> HIDE DEF off
  <2>9. off[N] = Len(Bits(s)) /\ \A i \in 0..N : off[i] \in Nat
    <3>1. N \in 1..N /\ \A i \in 0..N : i = 0 \/ i \in 1..N
      BY <1>6
    <3> QED
      BY <2>2, <2>8, <3>1
  <2>10. ASSUME NEW i \in 1..N
         PROVE  /\ off[i] = off[i - 1] + Len(Code[s[i]]) /\ off[i] <= Len(Bits(s))
                /\ \A k \in 1..Len(Code[s[i]]) : Bits(s)[off[i - 1] + k] = Code[s[i]][k]
    <3>1. PICK b \in Seq(Bit) : b = Bits(s) /\ Begins(g[i], b)
      <4>1. Bits(s) \in Seq(Bit)
        BY BitsType
      <4> HIDE DEF Begins
      <4> QED
        BY <2>7, <4>1
    <3>2. PICK c \in Seq(Bit) : c = Code[s[i]] /\ c = q[i]
      BY <1>2
    <3>3. CASE i = 1
      <4>1. g[i] = c /\ off[i - 1] = 0
        BY <2>2, <2>8, <3>2, <3>3
      <4>2. off[i] = Len(c) /\ Len(c) <= Len(b) /\ \A k \in 1..Len(c) : b[0 + k] = c[k]
        BY <2>8, <3>1, <4>1
      <4> QED
        BY <2>8, <3>1, <3>2, <4>1, <4>2
    <3>4. CASE i # 1
      <4>1. i \in 2..N /\ i - 1 \in 1..N
        BY <3>4
      <4>2. PICK p \in Seq(Bit) : p = g[i - 1] /\ off[i - 1] = Len(p)
        BY <2>2, <2>8, <4>1
      <4>3. g[i] = p \o c
        BY <2>2, <3>2, <4>1, <4>2
      <4>4. Len(p \o c) = Len(p) + Len(c) /\ \A k \in 1..Len(c) : (p \o c)[Len(p) + k] = c[k]
                                                                /\ Len(p) + k \in 1..Len(p \o c)
        OBVIOUS
      <4>5. off[i] = Len(p) + Len(c) /\ off[i] <= Len(b)
        BY <2>8, <3>1, <4>3, <4>4
      <4>6. \A k \in 1..Len(c) : b[Len(p) + k] = c[k]
        BY <3>1, <4>3, <4>4
      <4> QED
        BY <3>1, <3>2, <4>2, <4>5, <4>6
    <3> QED
      BY <3>3, <3>4
  <2>11. AreOffsets(off, s)
    BY <1>1, <2>8, <2>9, <2>10 DEF AreOffsets
  <2> QED
    BY <2>11
<1> QED
  BY <1>5, <1>6

\* An octet is what its bits add up to, from the first one on.
IsOctetSum(g, b) == g[0] = 0 /\ (\A n \in 1..8 : g[n] = 2 * g[n - 1] + b[n]) /\ Octet(b) = g[8]

LEMMA OctetSum ==
  ASSUME NEW b \in [1..8 -> Bit]
  PROVE  \E g : IsOctetSum(g, b)
<1> DEFINE F == [n \in 1..8 |-> [x \in Nat |-> 2 * x + b[n]]]
           Is(g) == g = [n \in 0..8 |-> IF n = 0 THEN 0 ELSE 2 * g[n - 1] + b[n]]
<1>1. \A n \in 1..8 : b[n] \in Nat
  BY DEF Bit
<1>2. ASSUME NEW n \in 1..8, NEW x \in Nat
      PROVE  F[n][x] = 2 * x + b[n] /\ F[n][x] \in Nat
  <2>1. F[n][x] = 2 * x + b[n]
    BY Zenon
  <2>2. PICK y \in Nat : y = b[n]
    BY <1>1
  <2> HIDE DEF F
  <2> QED
    BY <2>1, <2>2
<1> HIDE DEF F
<1>3. LoopStays(8, Nat, 0, F)
  BY <1>2 DEF LoopStays
<1>4. PICK f : IsLoop(f, 8, Nat, 0, F)
  BY <1>3, LoopExists
<1>5. Is(f)
  <2>1. ASSUME NEW n \in 0..8 PROVE f[n] = IF n = 0 THEN 0 ELSE 2 * f[n - 1] + b[n]
    <3>1. CASE n = 0
      BY <1>4, <3>1 DEF IsLoop
    <3>2. CASE n # 0
      <4>1. n \in 1..8 /\ n - 1 \in 0..8
        BY <3>2
      <4>2. f[n] = F[n][f[n - 1]] /\ f[n - 1] \in Nat
        BY <1>4, <3>2, <4>1 DEF IsLoop
      <4> QED
        BY <1>2, <3>2, <4>1, <4>2
    <3> QED
      BY <3>1, <3>2
  <2>2. f = [n \in 0..8 |-> f[n]]
    BY <1>4 DEF IsLoop
  <2> QED
    BY <2>1, <2>2
<1>6. PICK g : Is(g) /\ Octet(b) = g[8]
  <2>1. Octet(b) = (CHOOSE g : Is(g))[8]
    BY DEF Octet
  <2> HIDE DEF Is
  <2>2. Is(CHOOSE g : Is(g))
    BY <1>5
  <2> QED
    BY <2>1, <2>2
<1>8. g[0] = 0 /\ \A n \in 1..8 : g[n] = 2 * g[n - 1] + b[n]
  <2>1. \A n \in 1..8 : n \in 0..8 /\ n # 0
    OBVIOUS
  <2> QED
    BY <1>6, <2>1
<1> QED
  BY <1>6, <1>8 DEF IsOctetSum

\* Each bit can be taken out of the octet again.
LEMMA OctetBit ==
  ASSUME NEW b \in [1..8 -> Bit], NEW j \in 0..7
  PROVE  (Octet(b) \div 2^(7 - j)) % 2 = b[j + 1]
<1>1. PICK g : IsOctetSum(g, b)
  BY OctetSum
<1>2. PICK b1 \in 0..1, b2 \in 0..1, b3 \in 0..1, b4 \in 0..1, b5 \in 0..1, b6 \in 0..1, b7 \in 0..1,
           b8 \in 0..1 : b1 = b[1] /\ b2 = b[2] /\ b3 = b[3] /\ b4 = b[4]
                         /\ b5 = b[5] /\ b6 = b[6] /\ b7 = b[7] /\ b8 = b[8]
  <2>1. b[1] \in 0..1 /\ b[2] \in 0..1 /\ b[3] \in 0..1 /\ b[4] \in 0..1
        /\ b[5] \in 0..1 /\ b[6] \in 0..1 /\ b[7] \in 0..1 /\ b[8] \in 0..1
    BY DEF Bit
  <2> QED
    BY <2>1, Zenon
<1>3. /\ g[1] = 2 * g[0] + b[1] /\ g[2] = 2 * g[1] + b[2] /\ g[3] = 2 * g[2] + b[3]
      /\ g[4] = 2 * g[3] + b[4] /\ g[5] = 2 * g[4] + b[5] /\ g[6] = 2 * g[5] + b[6]
      /\ g[7] = 2 * g[6] + b[7] /\ g[8] = 2 * g[7] + b[8] /\ g[0] = 0
  BY <1>1 DEF IsOctetSum
<1>4. PICK x \in Nat : x = Octet(b) /\
        x = 128 * b1 + 64 * b2 + 32 * b3 + 16 * b4 + 8 * b5 + 4 * b6 + 2 * b7 + b8
  <2>1. g[1] = b1
    BY <1>2, <1>3
  <2>2. g[2] = 2 * b1 + b2
    BY <1>2, <1>3, <2>1
  <2>3. g[3] = 4 * b1 + 2 * b2 + b3
    BY <1>2, <1>3, <2>2
  <2>4. g[4] = 8 * b1 + 4 * b2 + 2 * b3 + b4
    BY <1>2, <1>3, <2>3
  <2>5. g[5] = 16 * b1 + 8 * b2 + 4 * b3 + 2 * b4 + b5
    BY <1>2, <1>3, <2>4
  <2>6. g[6] = 32 * b1 + 16 * b2 + 8 * b3 + 4 * b4 + 2 * b5 + b6
    BY <1>2, <1>3, <2>5
  <2>7. g[7] = 64 * b1 + 32 * b2 + 16 * b3 + 8 * b4 + 4 * b5 + 2 * b6 + b7
    BY <1>2, <1>3, <2>6
  <2>8. g[8] = 128 * b1 + 64 * b2 + 32 * b3 + 16 * b4 + 8 * b5 + 4 * b6 + 2 * b7 + b8
    BY <1>2, <1>3, <2>7
  <2>9. Octet(b) = g[8]
    BY <1>1 DEF IsOctetSum
  <2> QED
    BY <2>8, <2>9
<1>5. /\ (x \div 128) % 2 = b1 /\ (x \div 64) % 2 = b2 /\ (x \div 32) % 2 = b3
      /\ (x \div 16) % 2 = b4 /\ (x \div 8) % 2 = b5 /\ (x \div 4) % 2 = b6
      /\ (x \div 2) % 2 = b7 /\ (x \div 1) % 2 = b8
  BY <1>4
<1>6. /\ 2^7 = 128 /\ 2^6 = 64 /\ 2^5 = 32 /\ 2^4 = 16 /\ 2^3 = 8 /\ 2^2 = 4 /\ 2^1 = 2 /\ 2^0 = 1
  OBVIOUS
<1>7. CASE j = 0
  <2>1. 7 - j = 7 /\ j + 1 = 1
    BY <1>7
  <2>2. 2^(7 - j) = 128 /\ b[j + 1] = b1
    BY <1>2, <1>6, <2>1, Zenon
  <2>3. (x \div 128) % 2 = b1
    BY <1>5
  <2> QED
    BY <1>4, <2>2, <2>3, Zenon
<1>8. CASE j = 1
  <2>1. 7 - j = 6 /\ j + 1 = 2
    BY <1>8
  <2>2. 2^(7 - j) = 64 /\ b[j + 1] = b2
    BY <1>2, <1>6, <2>1, Zenon
  <2>3. (x \div 64) % 2 = b2
    BY <1>5
  <2> QED
    BY <1>4, <2>2, <2>3, Zenon
<1>9. CASE j = 2
  <2>1. 7 - j = 5 /\ j + 1 = 3
    BY <1>9
  <2>2. 2^(7 - j) = 32 /\ b[j + 1] = b3
    BY <1>2, <1>6, <2>1, Zenon
  <2>3. (x \div 32) % 2 = b3
    BY <1>5
  <2> QED
    BY <1>4, <2>2, <2>3, Zenon
<1>10. CASE j = 3
  <2>1. 7 - j = 4 /\ j + 1 = 4
    BY <1>10
  <2>2. 2^(7 - j) = 16 /\ b[j + 1] = b4
    BY <1>2, <1>6, <2>1, Zenon
  <2>3. (x \div 16) % 2 = b4
    BY <1>5
  <2> QED
    BY <1>4, <2>2, <2>3, Zenon
<1>11. CASE j = 4
  <2>1. 7 - j = 3 /\ j + 1 = 5
    BY <1>11
  <2>2. 2^(7 - j) = 8 /\ b[j + 1] = b5
    BY <1>2, <1>6, <2>1, Zenon
  <2>3. (x \div 8) % 2 = b5
    BY <1>5
  <2> QED
    BY <1>4, <2>2, <2>3, Zenon
<1>12. CASE j = 5
  <2>1. 7 - j = 2 /\ j + 1 = 6
    BY <1>12
  <2>2. 2^(7 - j) = 4 /\ b[j + 1] = b6
    BY <1>2, <1>6, <2>1, Zenon
  <2>3. (x \div 4) % 2 = b6
    BY <1>5
  <2> QED
    BY <1>4, <2>2, <2>3, Zenon
<1>13. CASE j = 6
  <2>1. 7 - j = 1 /\ j + 1 = 7
    BY <1>13
  <2>2. 2^(7 - j) = 2 /\ b[j + 1] = b7
    BY <1>2, <1>6, <2>1, Zenon
  <2>3. (x \div 2) % 2 = b7
    BY <1>5
  <2> QED
    BY <1>4, <2>2, <2>3, Zenon
<1>14. CASE j = 7
  <2>1. 7 - j = 0 /\ j + 1 = 8
    BY <1>14
  <2>2. 2^(7 - j) = 1 /\ b[j + 1] = b8
    BY <1>2, <1>6, <2>1, Zenon
  <2>3. (x \div 1) % 2 = b8
    BY <1>5
  <2> QED
    BY <1>4, <2>2, <2>3, Zenon
<1> QED
  BY <1>7, <1>8, <1>9, <1>10, <1>11, <1>12, <1>13, <1>14

\* The bits of an encoded string: its own, then ones.
SentBit(s, n) == IF n <= Len(Bits(s)) THEN Bits(s)[n] ELSE 1

LEMMA SentBitType ==
  ASSUME NEW s \in Text, NEW n \in Nat \ {0}
  PROVE  SentBit(s, n) \in Bit
<1>1. PICK b \in Seq(Bit) : b = Bits(s)
  BY BitsType
<1>2. (IF n <= Len(b) THEN b[n] ELSE 1) \in Bit
  BY DEF Bit
<1> QED
  BY <1>1, <1>2 DEF SentBit

LEMMA EncodedBits ==
  ASSUME NEW s \in Text
  PROVE  /\ Len(HuffmanEncode(s)) = EncodedSize(s)
         /\ \A n \in 1..(8 * EncodedSize(s)) : BitAt(HuffmanEncode(s), n) = SentBit(s, n)
<1> DEFINE O(n) == [k \in 1..8 |-> SentBit(s, 8 * (n - 1) + k)]
<1>1. PICK z \in Nat : z = EncodedSize(s)
  BY BitsType
<1>2. ASSUME NEW n \in 1..z PROVE O(n) \in [1..8 -> Bit]
  <2>1. \A k \in 1..8 : 8 * (n - 1) + k \in Nat \ {0}
    OBVIOUS
  <2> QED
    BY <2>1, SentBitType
<1>3. HuffmanEncode(s) = [n \in 1..z |-> Octet(O(n))]
  BY <1>1 DEF HuffmanEncode, SentBit
<1> HIDE DEF O
<1>4. PICK h \in Seq(Octets) : h = HuffmanEncode(s) /\ Len(h) = z /\ \A n \in 1..z : h[n] = Octet(O(n))
  <2>1. \A n \in 1..z : Octet(O(n)) \in Octets
    BY <1>2, OctetType
  <2>2. HuffmanEncode(s) \in [1..z -> Octets]
    BY <1>3, <2>1
  <2> QED
    BY <1>3, <2>2
<1>5. ASSUME NEW n \in 1..(8 * z) PROVE BitAt(h, n) = SentBit(s, n)
  <2>1. PICK a \in 0..(z - 1), j \in 0..7 : a = (n - 1) \div 8 /\ j = (n - 1) % 8 /\ n = 8 * a + (j + 1)
    <3>1. /\ (n - 1) \div 8 \in 0..(z - 1) /\ (n - 1) % 8 \in 0..7
          /\ n = 8 * ((n - 1) \div 8) + (((n - 1) % 8) + 1)
      OBVIOUS
    <3> QED
      BY <3>1
  <2>2. a + 1 \in 1..z /\ (a + 1) - 1 = a /\ j + 1 \in 1..8
    OBVIOUS
  <2>3. h[a + 1] = Octet(O(a + 1)) /\ O(a + 1) \in [1..8 -> Bit]
    BY <1>2, <1>4, <2>2
  <2>4. (Octet(O(a + 1)) \div 2^(7 - j)) % 2 = O(a + 1)[j + 1]
    BY <2>3, OctetBit
  <2>5. O(a + 1)[j + 1] = SentBit(s, 8 * ((a + 1) - 1) + (j + 1))
    BY <2>2 DEF O
  <2>6. BitAt(h, n) = (h[a + 1] \div 2^(7 - j)) % 2
    BY <2>1, Zenon DEF BitAt
  <2> QED
    BY <2>1, <2>2, <2>3, <2>4, <2>5, <2>6, Zenon
<1> QED
  BY <1>1, <1>4, <1>5, Zenon

\* The places in the tree, and the way through it.
Nodes == [ok : BOOLEAN, node : Seq(Bit), value : Text]
Root == [ok |-> TRUE, node |-> <<>>, value |-> <<>>]
IsWay(g, octets) ==
    /\ g[0] = Root
    /\ \A n \in 1..(8 * Len(octets)) : g[n] = Walk(g[n - 1], BitAt(octets, n), Len(octets))
    /\ HuffmanDecode(octets) = g[8 * Len(octets)]

LEMMA WalkType ==
  ASSUME NEW x \in Nodes, NEW b \in Bit, NEW size
  PROVE  /\ Walk(x, b, size) \in Nodes
         /\ ~x.ok => Walk(x, b, size) = x
<1> DEFINE node == Append(x.node, b)
           ends == {c \in DOMAIN Code : Code[c] = node}
<1>1. x.node \in Seq(Bit) /\ x.value \in Text /\ x.ok \in BOOLEAN
  BY DEF Nodes
<1>2. node \in Seq(Bit) /\ <<>> \in Seq(Bit)
  BY <1>1
<1>3. CASE ~x.ok
  <2>1. Walk(x, b, size) = x
    BY <1>3 DEF Walk
  <2> QED
    BY <2>1
<1>4. CASE x.ok /\ ends # {}
  <2> DEFINE c == CHOOSE c \in ends : TRUE
             fits == Len(x.value) + 1 < MemorySize(size)
  <2>1. c \in DOMAIN Code
    BY <1>4
  <2>2. Walk(x, b, size) = [ok |-> fits, node |-> <<>>, value |-> Append(x.value, c)]
    BY <1>4 DEF Walk
  <2>3. Append(x.value, c) \in Text
    <3> HIDE DEF c
    <3> QED
      BY <1>1, <2>1 DEF Text
  <2>4. fits \in BOOLEAN
    OBVIOUS
  <2> HIDE DEF c, fits
  <2> QED
    BY <1>2, <1>4, <2>2, <2>3, <2>4 DEF Nodes
<1>5. CASE x.ok /\ ends = {}
  <2> DEFINE short == Len(node) < EosBits
  <2>1. Walk(x, b, size) = [x EXCEPT !.ok = short, !.node = node]
    BY <1>5 DEF Walk
  <2>2. short \in BOOLEAN
    OBVIOUS
  <2> HIDE DEF short, node
  <2> QED
    BY <1>2, <1>5, <2>1, <2>2 DEF Nodes
<1> QED
  BY <1>1, <1>3, <1>4, <1>5

LEMMA WayExists ==
  ASSUME NEW octets \in Seq(Octets), octets # <<>>,
         \A n \in 1..(8 * Len(octets)) : BitAt(octets, n) \in Bit
  PROVE  \E g : IsWay(g, octets)
<1>1. PICK N \in Nat : N = 8 * Len(octets)
  OBVIOUS
<1> DEFINE F == [n \in 1..N |-> [x \in Nodes |-> Walk(x, BitAt(octets, n), Len(octets))]]
<1>2. \A n \in 1..N : BitAt(octets, n) \in Bit
  BY <1>1
<1>3. Root \in Nodes
  <2>1. <<>> \in Seq(Bit) /\ <<>> \in Text /\ TRUE \in BOOLEAN
    BY DEF Text
  <2> QED
    BY <2>1 DEF Nodes, Root
<1>4. \A n \in 1..N : \A x \in Nodes :
        F[n][x] = Walk(x, BitAt(octets, n), Len(octets)) /\ F[n][x] \in Nodes
  BY <1>2, WalkType
<1> HIDE DEF F
<1>5. LoopStays(N, Nodes, Root, F)
  BY <1>3, <1>4 DEF LoopStays
<1>6. PICK f : IsLoop(f, N, Nodes, Root, F)
  BY <1>5, LoopExists
<1> DEFINE Is(g) == g = [n \in 0..N |->
                          IF n = 0 THEN Root ELSE Walk(g[n - 1], BitAt(octets, n), Len(octets))]
<1>7. Is(f)
  <2>1. ASSUME NEW n \in 0..N
        PROVE  f[n] = IF n = 0 THEN Root ELSE Walk(f[n - 1], BitAt(octets, n), Len(octets))
    <3>1. CASE n = 0
      BY <1>6, <3>1 DEF IsLoop
    <3>2. CASE n # 0
      <4>1. n \in 1..N /\ n - 1 \in 0..N
        BY <3>2
      <4>2. f[n] = F[n][f[n - 1]] /\ f[n - 1] \in Nodes
        BY <1>6, <3>2, <4>1 DEF IsLoop
      <4> QED
        BY <1>4, <3>2, <4>1, <4>2
    <3> QED
      BY <3>1, <3>2
  <2>2. f = [n \in 0..N |-> f[n]]
    BY <1>6 DEF IsLoop
  <2> QED
    BY <2>1, <2>2
<1>8. PICK g : Is(g) /\ HuffmanDecode(octets) = g[N]
  <2>1. HuffmanDecode(octets) = (CHOOSE g : Is(g))[N]
    BY <1>1 DEF HuffmanDecode, Root
  <2> HIDE DEF Is
  <2>2. Is(CHOOSE g : Is(g))
    BY <1>7
  <2> QED
    BY <2>1, <2>2
<1>9. g[0] = Root /\ \A n \in 1..N : g[n] = Walk(g[n - 1], BitAt(octets, n), Len(octets))
  <2>1. 0 \in 0..N /\ \A n \in 1..N : n \in 0..N /\ n # 0
    OBVIOUS
  <2> QED
    BY <1>8, <2>1
<1>10. IsWay(g, octets)
  BY <1>1, <1>8, <1>9, Zenon DEF IsWay
<1> QED
  BY <1>10

\* After n bits the first i characters have been read, and part of the next one.
Between(r, s, off, n, i) ==
    /\ off[i] <= n /\ (i < Len(s) => n < off[i + 1])
    /\ r.value = SubSeq(s, 1, i)
    /\ Len(r.node) = n - off[i]
    /\ \A k \in 1..Len(r.node) : r.node[k] = SentBit(s, off[i] + k)

LEMMA WalkLeaf ==
  ASSUME NEW r \in Nodes, r.ok, NEW b \in Bit, NEW c \in DOMAIN Code, Append(r.node, b) = Code[c],
         NEW size
  PROVE  Walk(r, b, size) = [ok |-> Len(r.value) + 1 < MemorySize(size), node |-> <<>>,
                             value |-> Append(r.value, c)]
<1> DEFINE node == Append(r.node, b)
           ends == {d \in DOMAIN Code : Code[d] = node}
<1>1. ends = {c}
  <2>1. c \in ends
    OBVIOUS
  <2>2. ASSUME NEW d \in ends PROVE d = c
    <3>1. d \in DOMAIN Code /\ Code[d] = Code[c] /\ Code[c] \in Seq({0, 1})
      BY StringAssumption
    <3>2. IsPrefix(Code[d], Code[c])
      BY <3>1 DEF IsPrefix
    <3> QED
      BY <3>1, <3>2, CodeAssumption
  <2> QED
    BY <2>1, <2>2
<1>2. (CHOOSE d \in ends : TRUE) = c
  <2> HIDE DEF ends
  <2> QED
    BY <1>1
<1>3. Walk(r, b, size) = [ok |-> Len(r.value) + 1 < MemorySize(size), node |-> <<>>,
                          value |-> Append(r.value, CHOOSE d \in ends : TRUE)]
  BY <1>1 DEF Walk
<1> HIDE DEF ends
<1> QED
  BY <1>2, <1>3

LEMMA WalkInner ==
  ASSUME NEW r \in Nodes, r.ok, NEW b \in Bit, \A c \in DOMAIN Code : Code[c] # Append(r.node, b),
         Len(r.node) + 1 < EosBits, NEW size
  PROVE  LET w == Walk(r, b, size) IN w.ok /\ w.node = Append(r.node, b) /\ w.value = r.value
<1> DEFINE node == Append(r.node, b)
           ends == {d \in DOMAIN Code : Code[d] = node}
<1>1. ends = {}
  OBVIOUS
<1>2. Walk(r, b, size) = [r EXCEPT !.ok = Len(node) < EosBits, !.node = node]
  BY <1>1 DEF Walk
<1>3. Len(node) < EosBits
  <2>1. r.node \in Seq(Bit)
    BY DEF Nodes
  <2>2. Len(node) = Len(r.node) + 1
    BY <2>1
  <2> QED
    BY <2>2
<1>4. PICK m : m = node
  OBVIOUS
<1>5. Walk(r, b, size) = [r EXCEPT !.ok = TRUE, !.node = m]
  BY <1>2, <1>3, <1>4
<1> HIDE DEF node
<1> QED
  BY <1>4, <1>5 DEF Nodes, node

\* A part of a code is no code.
LEMMA PartOfCode ==
  ASSUME NEW c \in DOMAIN Code, NEW node \in Seq(Bit), Len(node) < Len(Code[c]),
         \A k \in 1..Len(node) : node[k] = Code[c][k]
  PROVE  \A d \in DOMAIN Code : Code[d] # node
<1> SUFFICES ASSUME NEW d \in DOMAIN Code, Code[d] = node PROVE FALSE
  OBVIOUS
<1>1. PICK code \in Seq(Bit) : code = Code[c]
  BY StringAssumption DEF Bit
<1>2. SubSeq(node, 1, Len(node)) = SubSeq(code, 1, Len(node))
  BY <1>1
<1>3. IsPrefix(Code[d], Code[c]) /\ d # c
  BY <1>1, <1>2 DEF IsPrefix
<1> QED
  BY <1>3, CodeAssumption

\* The ones that fill the last octet are no code.
LEMMA FillIsNoCode ==
  ASSUME NEW node, Len(node) < 8, \A k \in 1..Len(node) : node[k] = 1
  PROVE  \A d \in DOMAIN Code : Code[d] # node
<1> SUFFICES ASSUME NEW d \in DOMAIN Code, Code[d] = node PROVE FALSE
  OBVIOUS
<1>1. \E i \in 1..Len(node) : node[i] # 1
  BY CodeAssumption
<1> QED
  BY <1>1

LEMMA WalkStep ==
  ASSUME NEW s \in Text, NEW off, AreOffsets(off, s), NEW n \in 0..(8 * EncodedSize(s) - 1),
         NEW r \in Nodes, r.ok, NEW i \in 0..Len(s), Between(r, s, off, n, i)
  PROVE  LET w == Walk(r, SentBit(s, n + 1), EncodedSize(s)) IN
         /\ \E k \in 0..Len(s) : Between(w, s, off, n + 1, k)
         /\ Len(s) < MemorySize(EncodedSize(s)) => w.ok
<1>1. PICK N \in Nat : N = Len(s) /\ \A k \in 1..N : s[k] \in DOMAIN Code
  BY DEF Text
<1>2. PICK bits \in Seq(Bit), z \in Nat : bits = Bits(s) /\ z = EncodedSize(s) /\ z = (Len(bits) + 7) \div 8
  BY BitsType DEF EncodedSize
<1>3. PICK b \in Bit : b = SentBit(s, n + 1)
  <2>1. n + 1 \in Nat \ {0}
    BY <1>2
  <2> QED
    BY <2>1, SentBitType
<1>4. PICK w : w = Walk(r, b, z)
  OBVIOUS
<1>5. PICK node \in Seq(Bit) : node = Append(r.node, b) /\ Len(node) = Len(r.node) + 1
                               /\ Len(r.node) \in Nat
                               /\ node[Len(node)] = b /\ \A k \in 1..Len(r.node) : node[k] = r.node[k]
  <2>1. r.node \in Seq(Bit)
    BY DEF Nodes
  <2>2. /\ Append(r.node, b) \in Seq(Bit) /\ Len(Append(r.node, b)) = Len(r.node) + 1
        /\ Len(r.node) \in Nat /\ Append(r.node, b)[Len(r.node) + 1] = b
        /\ \A k \in 1..Len(r.node) : Append(r.node, b)[k] = r.node[k]
    BY <2>1
  <2> QED
    BY <2>2, Zenon
<1>20. n \in Nat /\ Len(node) \in Nat /\ Len(r.node) \in Nat /\ Len(node) = Len(r.node) + 1
  BY <1>2, <1>5
<1>6. PICK o \in Nat : o = off[i] /\ o <= n /\ Len(r.node) = n - o /\ Len(node) = (n + 1) - o
  BY <1>1, <1>2, <1>5 DEF Between, AreOffsets
<1>7. \A k \in 1..Len(node) : node[k] = SentBit(s, o + k)
  <2>1. \A k \in 1..Len(node) : k \in 1..Len(r.node) \/ (k = Len(node) /\ o + k = n + 1)
    BY <1>6, <1>20
  <2> QED
    BY <1>3, <1>5, <1>6, <2>1 DEF Between
<1>8. r.value = SubSeq(s, 1, i) /\ i \in 0..N
  BY <1>1 DEF Between
<1> SUFFICES /\ \E k \in 0..N : Between(w, s, off, n + 1, k)
             /\ N < MemorySize(z) => w.ok
  BY <1>1, <1>2, <1>3, <1>4
<1>9. CASE i < N
  <2>1. i + 1 \in 1..N /\ (i + 1) - 1 = i
    BY <1>8, <1>9
  <2>2. PICK c \in DOMAIN Code, code \in Seq(Bit) : c = s[i + 1] /\ code = Code[c]
    <3>1. s[i + 1] \in DOMAIN Code
      BY <1>1, <2>1
    <3>2. Code[s[i + 1]] \in Seq(Bit)
      BY <3>1, StringAssumption DEF Bit
    <3> QED
      BY <3>1, <3>2
  <2>3. Len(code) \in 5..30
    BY <2>2, CodeAssumption DEF MinBitsPerChar, EosBits
  <2>4. off[i + 1] = o + Len(code) /\ o + Len(code) <= Len(bits) /\ \A k \in 1..Len(code) : bits[o + k] = code[k]
    <3>1. /\ off[i + 1] = off[(i + 1) - 1] + Len(Code[s[i + 1]]) /\ off[i + 1] <= Len(Bits(s))
          /\ \A k \in 1..Len(Code[s[i + 1]]) : Bits(s)[off[(i + 1) - 1] + k] = Code[s[i + 1]][k]
      BY <1>1, <2>1 DEF AreOffsets
    <3> QED
      BY <1>2, <1>6, <2>1, <2>2, <3>1, Zenon
  <2>5. n < o + Len(code)
    BY <1>1, <1>9, <2>4 DEF Between
  <2>6. Len(node) <= Len(code) /\ \A k \in 1..Len(node) : node[k] = code[k]
    <3>1. Len(node) <= Len(code)
      BY <1>2, <1>6, <2>3, <2>5
    <3>2. ASSUME NEW k \in 1..Len(node) PROVE node[k] = code[k]
      <4>1. k \in 1..Len(code) /\ o + k <= Len(bits)
        BY <1>5, <2>3, <2>4, <3>1
      <4>2. SentBit(s, o + k) = bits[o + k]
        BY <1>2, <4>1 DEF SentBit
      <4> QED
        BY <1>7, <2>4, <4>1, <4>2
    <3> QED
      BY <3>1, <3>2
  <2>7. CASE Len(node) = Len(code)
    <3>1. node = code
      BY <2>6, <2>7
    <3>2. w = [ok |-> Len(r.value) + 1 < MemorySize(z), node |-> <<>>, value |-> Append(r.value, c)]
      BY <1>4, <1>5, <2>2, <3>1, WalkLeaf
    <3>3. Len(r.value) = i /\ Append(r.value, c) = SubSeq(s, 1, i + 1)
      <4>1. s \in Seq(DOMAIN Code)
        BY DEF Text
      <4> QED
        BY <1>1, <1>8, <2>1, <2>2, <4>1
    <3>4. N < MemorySize(z) => w.ok
      <4>1. MemorySize(z) \in Int
        BY DEF MemorySize, MinBitsPerChar
      <4>2. N < MemorySize(z) => Len(r.value) + 1 < MemorySize(z)
        BY <1>8, <1>9, <3>3, <4>1
      <4> QED
        BY <3>2, <4>2
    <3>5. off[i + 1] = n + 1
      BY <1>2, <1>6, <2>3, <2>4, <2>7
    <3>6. i + 1 < N => n + 1 < off[(i + 1) + 1]
      <4> SUFFICES ASSUME i + 1 < N PROVE n + 1 < off[(i + 1) + 1]
        OBVIOUS
      <4>1. (i + 1) + 1 \in 1..N /\ ((i + 1) + 1) - 1 = i + 1
        BY <1>8
      <4>2. PICK l \in 5..30 : l = Len(Code[s[(i + 1) + 1]])
        BY <1>1, <4>1, CodeAssumption DEF MinBitsPerChar, EosBits
      <4>3. off[(i + 1) + 1] = off[((i + 1) + 1) - 1] + Len(Code[s[(i + 1) + 1]])
        BY <1>1, <4>1 DEF AreOffsets
      <4>4. off[(i + 1) + 1] = (n + 1) + l
        BY <3>5, <4>1, <4>2, <4>3, Zenon
      <4>5. n + 1 < (n + 1) + l
        BY <1>20
      <4> QED
        BY <4>4, <4>5, Zenon
    <3>7. w.value = SubSeq(s, 1, i + 1) /\ Len(w.node) = 0 /\ n + 1 <= n + 1 /\ (n + 1) - (n + 1) = 0 /\ 1..0 = {}
      BY <1>2, <3>2, <3>3
    <3>8. Between(w, s, off, n + 1, i + 1)
      BY <1>1, <1>2, <3>5, <3>6, <3>7 DEF Between
    <3> QED
      BY <2>1, <3>4, <3>8
  <2>8. CASE Len(node) # Len(code)
    <3>1. Len(node) < Len(code)
      BY <2>3, <2>6, <2>8
    <3>2. \A d \in DOMAIN Code : Code[d] # node
      BY <2>2, <2>6, <3>1, PartOfCode
    <3>3. Len(r.node) + 1 < EosBits
      <4>1. \A x \in 5..30, y \in Nat : y < x => y < 30
        OBVIOUS
      <4>2. Len(node) < 30
        BY <1>20, <2>3, <3>1, <4>1, Zenon
      <4> QED
        BY <1>20, <4>2, Zenon DEF EosBits
    <3>4. w.ok /\ w.node = node /\ w.value = r.value
      BY <1>4, <1>5, <3>2, <3>3, WalkInner
    <3>5. n + 1 < off[i + 1] /\ o <= n + 1
      BY <1>2, <1>6, <2>3, <2>4, <3>1
    <3>6. Between(w, s, off, n + 1, i)
      BY <1>6, <1>7, <1>8, <3>4, <3>5 DEF Between
    <3> QED
      BY <1>8, <3>4, <3>6
  <2> QED
    BY <2>7, <2>8
<1>10. CASE ~(i < N)
  <2>1. i = N
    BY <1>8, <1>10
  <2>2. o = Len(bits)
    BY <1>1, <1>2, <1>6, <2>1 DEF AreOffsets
  <2>3. Len(node) < 8
    BY <1>2, <1>6, <2>2
  <2>4. \A k \in 1..Len(node) : node[k] = 1
    <3> SUFFICES ASSUME NEW k \in 1..Len(node) PROVE node[k] = 1
      OBVIOUS
    <3>1. ~(o + k <= Len(bits))
      BY <2>2
    <3>2. SentBit(s, o + k) = 1
      BY <1>2, <3>1 DEF SentBit
    <3> QED
      BY <1>7, <3>2
  <2>5. \A d \in DOMAIN Code : Code[d] # node
    BY <2>3, <2>4, FillIsNoCode
  <2>6. Len(r.node) + 1 < EosBits
    BY <1>20, <2>3 DEF EosBits
  <2>7. w.ok /\ w.node = node /\ w.value = r.value
    BY <1>4, <1>5, <2>5, <2>6, WalkInner
  <2>8. Between(w, s, off, n + 1, i)
    <3>1. o <= n + 1 /\ ~(i < Len(s))
      BY <1>1, <1>2, <1>6, <1>10
    <3> QED
      BY <1>6, <1>7, <1>8, <2>7, <3>1 DEF Between
  <2> QED
    BY <1>8, <2>7, <2>8
<1> QED
  BY <1>9, <1>10

\* A Huffman coded string is read as it was, or its characters do not fit into
\* the memory for them.
LEMMA HuffmanRead ==
  ASSUME NEW s \in Text, s # <<>>
  PROVE  LET d == HuffmanDecode(HuffmanEncode(s)) IN
         /\ EncodedSize(s) # 0 /\ d.ok \in BOOLEAN
         /\ d.ok => d.value = s
         /\ Len(s) < MemorySize(EncodedSize(s)) => d.ok
<1>1. PICK N \in Nat : N = Len(s) /\ N # 0 /\ \A k \in 1..N : s[k] \in DOMAIN Code
  BY DEF Text
<1>2. PICK bits \in Seq(Bit), z \in Nat : bits = Bits(s) /\ z = EncodedSize(s) /\ z = (Len(bits) + 7) \div 8
  BY BitsType DEF EncodedSize
<1>3. PICK off : AreOffsets(off, s)
  BY OffsetsExist
<1>4. 8 * z >= Len(bits) /\ z # 0
  <2>1. Len(Code[s[1]]) \in 5..30 /\ off[1] = off[1 - 1] + Len(Code[s[1]]) /\ off[1] <= Len(bits) /\ off[0] = 0
    <3>1. 1 \in 1..N /\ s[1] \in DOMAIN Code
      BY <1>1
    <3>2. Len(Code[s[1]]) \in 5..30
      BY <3>1, CodeAssumption DEF MinBitsPerChar, EosBits
    <3>3. off[1] = off[1 - 1] + Len(Code[s[1]]) /\ off[1] <= Len(Bits(s)) /\ off[0] = 0
      BY <1>1, <1>3, <3>1 DEF AreOffsets
    <3> QED
      BY <1>2, <3>2, <3>3
  <2>2. Len(bits) >= 5
    <3>1. PICK l \in 5..30, b \in Nat : l = Len(Code[s[1]]) /\ b = Len(bits)
      BY <2>1
    <3>2. 1 - 1 = 0 /\ 0 + l = l
      OBVIOUS
    <3>3. l <= b
      BY <2>1, <3>1, <3>2, Zenon
    <3>4. b >= 5
      BY <3>3
    <3> QED
      BY <3>1, <3>4, Zenon
  <2> QED
    BY <1>2, <2>2
<1>5. PICK h \in Seq(Octets) : h = HuffmanEncode(s) /\ Len(h) = z /\ h # <<>>
                               /\ \A n \in 1..(8 * z) : BitAt(h, n) = SentBit(s, n)
  <2>1. HuffmanEncode(s) \in Seq(Octets) /\ Len(HuffmanEncode(s)) = z
        /\ \A n \in 1..(8 * z) : BitAt(HuffmanEncode(s), n) = SentBit(s, n)
    BY <1>2, HuffmanEncodeType, EncodedBits
  <2> QED
    BY <1>4, <2>1
<1>6. \A n \in 1..(8 * z) : SentBit(s, n) \in Bit
  <2>1. \A n \in 1..(8 * z) : n \in Nat \ {0}
    OBVIOUS
  <2> QED
    BY <2>1, SentBitType
<1>7. PICK g : IsWay(g, h)
  BY <1>5, <1>6, WayExists
<1>8. PICK M \in Nat : M = 8 * z
  OBVIOUS
<1>9. /\ g[0] = Root /\ \A n \in 1..M : g[n] = Walk(g[n - 1], SentBit(s, n), z)
      /\ HuffmanDecode(h) = g[M]
  BY <1>5, <1>7, <1>8 DEF IsWay
<1> DEFINE Good(x, n) == /\ x \in Nodes
                         /\ x.ok => \E k \in 0..N : Between(x, s, off, n, k)
                         /\ N < MemorySize(z) => x.ok
           T == {n \in 0..M : Good(g[n], n)}
<1>10. 0 \in T
  <2>1. Root \in Nodes /\ Root.ok /\ Root.value = <<>> /\ Root.node = <<>>
    <3>1. <<>> \in Seq(Bit) /\ <<>> \in Text /\ TRUE \in BOOLEAN
      BY DEF Text
    <3> QED
      BY <3>1 DEF Nodes, Root
  <2>2. off[0] = 0 /\ off[0 + 1] = off[0] + Len(Code[s[0 + 1]]) /\ Len(Code[s[0 + 1]]) \in 5..30
    BY <1>1, <1>3, CodeAssumption DEF AreOffsets, MinBitsPerChar, EosBits
  <2>3. SubSeq(s, 1, 0) = <<>>
    BY DEF Text
  <2>4. PICK x : x = Root
    OBVIOUS
  <2>5. Between(x, s, off, 0, 0)
    <3>1. x.value = SubSeq(s, 1, 0) /\ x.node = <<>>
      BY <2>1, <2>3, <2>4, Zenon
    <3>2. Len(x.node) = 0
      BY <3>1
    <3>4. PICK l \in 5..30 : l = Len(Code[s[0 + 1]])
      BY <2>2
    <3>5. 0 + l = l /\ 0 < l /\ 0 <= 0 /\ 0 - 0 = 0 /\ 1..0 = {}
      OBVIOUS
    <3>6. off[0 + 1] = l /\ off[0] = 0
      BY <2>2, <3>4, <3>5, Zenon
    <3>3. off[0] <= 0 /\ 0 < off[0 + 1] /\ off[0] = 0 /\ 0 - 0 = 0 /\ 1..0 = {}
      BY <3>5, <3>6, Zenon
    <3> QED
      BY <3>1, <3>2, <3>3 DEF Between
  <2> QED
    BY <1>9, <2>1, <2>4, <2>5
<1>11. ASSUME NEW n \in 0..(M - 1), n \in T PROVE n + 1 \in T
  <2>1. n + 1 \in 1..M /\ (n + 1) - 1 = n /\ n + 1 \in 0..M /\ n \in 0..(8 * EncodedSize(s) - 1)
    BY <1>2, <1>8
  <2>2. PICK x : x = g[n] /\ Good(x, n)
    BY <1>11
  <2>3. PICK w : w = Walk(x, SentBit(s, n + 1), z) /\ w = g[n + 1]
    BY <1>9, <2>1, <2>2
  <2>4. w \in Nodes /\ (~x.ok => w = x)
    BY <1>6, <1>8, <2>1, <2>2, <2>3, WalkType
  <2>5. CASE x.ok
    <3>1. PICK k \in 0..Len(s) : Between(x, s, off, n, k)
      BY <1>1, <2>2, <2>5
    <3>2. /\ \E j \in 0..Len(s) : Between(w, s, off, n + 1, j)
          /\ Len(s) < MemorySize(z) => w.ok
      BY <1>2, <1>3, <2>1, <2>2, <2>3, <2>5, <3>1, WalkStep
    <3>3. Good(w, n + 1)
      BY <1>1, <2>4, <3>2
    <3> HIDE DEF Good
    <3> QED
      BY <2>1, <2>3, <3>3
  <2>6. CASE ~x.ok
    <3>1. Good(w, n + 1)
      BY <2>2, <2>4, <2>6
    <3> HIDE DEF Good
    <3> QED
      BY <2>1, <2>3, <3>1
  <2> QED
    BY <2>5, <2>6
<1> HIDE DEF T
<1>12. \A n \in 0..M : n \in T
  BY <1>10, <1>11, LoopInduction
<1>13. PICK d : d = HuffmanDecode(h) /\ Good(d, M)
  <2>1. M \in T
    BY <1>12
  <2> HIDE DEF Good
  <2>2. Good(g[M], M)
    BY <2>1 DEF T
  <2> QED
    BY <1>9, <2>2
<1>14. ASSUME d.ok PROVE d.value = s
  <2>1. PICK k \in 0..N : Between(d, s, off, M, k)
    BY <1>13, <1>14
  <2>2. k = N
    <3> SUFFICES ASSUME k < N PROVE FALSE
      OBVIOUS
    <3>1. M < off[k + 1] /\ off[k + 1] <= Len(bits)
      BY <1>1, <1>2, <1>3, <2>1 DEF Between, AreOffsets
    <3>2. off[k + 1] \in Nat
      BY <1>1, <1>3 DEF AreOffsets
    <3> QED
      BY <1>4, <1>8, <3>1, <3>2
  <2>3. d.value = SubSeq(s, 1, N)
    BY <2>1, <2>2 DEF Between
  <2> QED
    BY <1>1, <2>3 DEF Text
<1>15. d.ok \in BOOLEAN
  BY <1>13 DEF Nodes
<1> QED
  BY <1>1, <1>2, <1>4, <1>5, <1>13, <1>14, <1>15

\* The numbers that occur.
Prefixed(flags, prefix) ==
    \/ prefix = 7 /\ flags \in {0, 128}
    \/ prefix = 6 /\ flags = 64
    \/ prefix = 5 /\ flags = 32
    \/ prefix = 4 /\ flags \in {0, 16}

LEMMA NumberReads ==
  ASSUME NEW data \in Seq(Octets), NEW pos \in Nat, NEW flags, NEW prefix, Prefixed(flags, prefix),
         NEW n \in Nat, n < NumberLimit, Lies(EncodeInt(flags, n, prefix), data, pos)
  PROVE  NumberIsRead(data, pos, flags, n, prefix)
<1>1. prefix \in {4, 5, 6, 7} /\ flags \in {0, 2^prefix}
  <2>1. 2^4 = 16 /\ 2^5 = 32 /\ 2^6 = 64 /\ 2^7 = 128
    OBVIOUS
  <2> QED
    BY <2>1, Zenon DEF Prefixed
<1> QED
  BY <1>1, NumberRead, Zenon

-----------------------------------------------------------------------------
(* Strings.                                                                *)

\* The four ways a string is read, its length being v with the flag l.
StringIs(data, pos, l, v, p) ==
    LET d     == DecodeString(data, pos)
        raw   == SubSeq(data, p + 1, p + v)
        text  == HuffmanDecode(raw)
        valid == pos < Len(data) /\ l /\ p < Len(data) /\ p + v <= Len(data)
    IN  /\ ~valid => d = [ok |-> FALSE, value |-> <<>>, pos |-> pos]
        /\ valid /\ v = 0 => d = [ok |-> TRUE, value |-> <<>>, pos |-> p + v]
        /\ valid /\ v # 0 /\ data[pos + 1] >= 128 =>
              d = [ok |-> text.ok, value |-> text.value, pos |-> IF text.ok THEN p + v ELSE pos]
        /\ valid /\ v # 0 /\ ~(data[pos + 1] >= 128) =>
              d = [ok |-> TRUE, value |-> raw, pos |-> p + v]

LEMMA DecodeStringCases ==
  ASSUME NEW data, NEW pos, NEW l, NEW v, NEW p,
         DecodeInt(data, pos, 7) = [ok |-> l, value |-> v, pos |-> p]
  PROVE  StringIs(data, pos, l, v, p)
<1>1. PICK i : i = DecodeInt(data, pos, 7) /\ i.ok = l /\ i.value = v /\ i.pos = p
  OBVIOUS
<1> DEFINE raw   == SubSeq(data, i.pos + 1, i.pos + i.value)
           text  == HuffmanDecode(raw)
           valid == pos < Len(data) /\ i.ok /\ i.pos < Len(data) /\ i.pos + i.value <= Len(data)
           d     == DecodeString(data, pos)
<1>2. d = CASE ~valid -> [ok |-> FALSE, value |-> <<>>, pos |-> pos]
            [] valid /\ i.value = 0 -> [ok |-> TRUE, value |-> <<>>, pos |-> i.pos + i.value]
            [] valid /\ i.value # 0 /\ data[pos + 1] >= 128 ->
                  [ok |-> text.ok, value |-> text.value,
                   pos |-> IF text.ok THEN i.pos + i.value ELSE pos]
            [] OTHER -> [ok |-> TRUE, value |-> raw, pos |-> i.pos + i.value]
  BY <1>1, Zenon DEF DecodeString
<1> HIDE DEF d
<1>3. ~valid => d = [ok |-> FALSE, value |-> <<>>, pos |-> pos]
  BY <1>2, Zenon
<1>4. valid /\ i.value = 0 => d = [ok |-> TRUE, value |-> <<>>, pos |-> i.pos + i.value]
  BY <1>2, Zenon
<1>5. valid /\ i.value # 0 /\ data[pos + 1] >= 128 =>
         d = [ok |-> text.ok, value |-> text.value, pos |-> IF text.ok THEN i.pos + i.value ELSE pos]
  BY <1>2, Zenon
<1>6. valid /\ i.value # 0 /\ ~(data[pos + 1] >= 128) =>
         d = [ok |-> TRUE, value |-> raw, pos |-> i.pos + i.value]
  BY <1>2, Zenon
<1> QED
  BY <1>1, <1>3, <1>4, <1>5, <1>6, Zenon DEF d, StringIs

\* A string that has been found, and one that must be.
ReadsString(d, s, pos, must) ==
    /\ d.ok \in BOOLEAN
    /\ d.ok => d.value = s /\ d.pos = pos
    /\ must => d.ok

LEMMA SubSeqLies ==
  ASSUME NEW S, NEW data \in Seq(S), NEW pos \in Nat, NEW s \in Seq(S), Lies(s, data, pos)
  PROVE  SubSeq(data, pos + 1, pos + Len(s)) = s
<1>1. PICK n \in Nat, z \in Nat : n = Len(s) /\ z = Len(data)
  OBVIOUS
<1>2. pos + n <= z /\ \A i \in 1..n : data[pos + i] = s[i]
  BY <1>1 DEF Lies
<1>3. PICK r \in Seq(S) : /\ r = SubSeq(data, pos + 1, pos + n) /\ Len(r) = n
                          /\ \A i \in 1..n : r[i] = data[pos + i]
  <2>1. /\ SubSeq(data, pos + 1, pos + n) \in Seq(S)
        /\ Len(SubSeq(data, pos + 1, pos + n)) = n
        /\ \A i \in 1..n : SubSeq(data, pos + 1, pos + n)[i] = data[pos + i]
    BY <1>1, <1>2
  <2> QED
    BY <2>1
<1>4. r = s
  <2>1. Len(r) = Len(s) /\ \A i \in 1..Len(r) : r[i] = s[i]
    BY <1>1, <1>2, <1>3
  <2> QED
    BY <2>1
<1> QED
  BY <1>1, <1>3, <1>4, Zenon

LEMMA PlainRead ==
  ASSUME NEW data \in Seq(Octets), NEW pos \in Nat, NEW s \in Text, Len(s) < NumberLimit,
         Lies(Plain(s), data, pos)
  PROVE  /\ Plain(s) \in Seq(Octets) /\ Len(Plain(s)) >= 1
         /\ ReadsString(DecodeString(data, pos), s, pos + Len(Plain(s)),
                        s # <<>> \/ pos + Len(Plain(s)) < Len(data))
<1>1. s \in Seq(Octets)
  BY StringAssumption DEF Text, Octets
<1>2. PICK n \in Nat, z \in Nat : n = Len(s) /\ z = Len(data) /\ n < NumberLimit /\ (n = 0 <=> s = <<>>)
  BY <1>1
<1>3. PICK e \in Seq(Octets) : e = EncodeInt(0, n, 7)
  BY <1>2, EncodeIntTypes
<1>4. PICK m \in Nat : m = Len(e)
  BY <1>3
<1>5. PICK c \in Seq(Octets) : c = Plain(s) /\ c = e \o s /\ Len(c) = m + n
  <2>1. e \o s \in Seq(Octets) /\ Len(e \o s) = m + n
    BY <1>1, <1>2, <1>4
  <2>2. Plain(s) = e \o s
    BY <1>2, <1>3 DEF Plain
  <2> QED
    BY <2>1, <2>2
<1>6. Lies(e, data, pos) /\ Lies(s, data, pos + m)
  <2>1. Lies(e \o s, data, pos)
    BY <1>5, Zenon
  <2>2. Lies(e \o s, data, pos) <=> Lies(e, data, pos) /\ Lies(s, data, pos + Len(e))
    BY <1>1, LiesConcat
  <2> QED
    BY <1>4, <2>1, <2>2, Zenon
<1>7. /\ DecodeInt(data, pos, 7) = [ok |-> TRUE, value |-> n, pos |-> pos + m]
      /\ m >= 1 /\ pos < z /\ data[pos + 1] \in 0..(0 + Mask(7))
  <2>1. Lies(EncodeInt(0, n, 7), data, pos)
    BY <1>3, <1>6, Zenon
  <2>2. Prefixed(0, 7) /\ n < NumberLimit
    BY <1>2 DEF Prefixed
  <2>3. NumberIsRead(data, pos, 0, n, 7)
    BY <2>1, <2>2, NumberReads, Zenon
  <2>4. /\ DecodeInt(data, pos, 7) = [ok |-> TRUE, value |-> n, pos |-> pos + m]
        /\ m \in Nat \ {0} /\ pos + m <= z /\ data[pos + 1] \in 0..(0 + Mask(7))
    BY <1>2, <1>3, <1>4, <2>3, Zenon DEF NumberIsRead
  <2> QED
    BY <2>4
<1>8. ~(data[pos + 1] >= 128)
  BY <1>7, MaskValues
<1>9. PICK p \in Nat : p = pos + m /\ p + n = pos + Len(c) /\ p + n <= z
  <2>1. (pos + m) + n <= z
    BY <1>2, <1>6 DEF Lies
  <2> QED
    BY <1>5, <2>1
<1>10. SubSeq(data, p + 1, p + n) = s
  BY <1>1, <1>2, <1>6, <1>9, SubSeqLies
<1>11. PICK d : d = DecodeString(data, pos)
  OBVIOUS
<1>12. /\ ~(p < z) => d = [ok |-> FALSE, value |-> <<>>, pos |-> pos]
       /\ p < z /\ n = 0 => d = [ok |-> TRUE, value |-> <<>>, pos |-> p + n]
       /\ p < z /\ n # 0 => d = [ok |-> TRUE, value |-> s, pos |-> p + n]
  <2>1. StringIs(data, pos, TRUE, n, p)
    <3>1. DecodeInt(data, pos, 7) = [ok |-> TRUE, value |-> n, pos |-> p]
      BY <1>7, <1>9
    <3> QED
      BY <3>1, DecodeStringCases, Zenon
  <2>2. pos < Len(data) /\ z = Len(data) /\ p + n <= Len(data)
    BY <1>2, <1>7, <1>9
  <2> QED
    BY <1>8, <1>10, <1>11, <2>1, <2>2, Zenon DEF StringIs
<1>13. s # <<>> \/ pos + Len(c) < z => p < z
  BY <1>2, <1>9
<1>14. ReadsString(d, s, p + n, s # <<>> \/ pos + Len(c) < z)
  <2>1. CASE ~(p < z)
    <3>2. d = [ok |-> FALSE, value |-> <<>>, pos |-> pos]
      BY <1>12, <2>1, Zenon
    <3>1. ~d.ok /\ d.ok \in BOOLEAN
      BY <3>2
    <3> QED
      BY <1>13, <2>1, <3>1, Zenon DEF ReadsString
  <2>2. CASE p < z /\ n = 0
    <3>2. d = [ok |-> TRUE, value |-> <<>>, pos |-> p + n]
      BY <1>12, <2>2, Zenon
    <3>1. d.ok /\ d.ok \in BOOLEAN /\ d.value = <<>> /\ d.pos = p + n
      BY <3>2
    <3> QED
      BY <1>2, <2>2, <3>1, Zenon DEF ReadsString
  <2>3. CASE p < z /\ n # 0
    <3>2. d = [ok |-> TRUE, value |-> s, pos |-> p + n]
      BY <1>12, <2>3, Zenon
    <3>1. d.ok /\ d.ok \in BOOLEAN /\ d.value = s /\ d.pos = p + n
      BY <3>2
    <3> QED
      BY <3>1, Zenon DEF ReadsString
  <2> QED
    BY <2>1, <2>2, <2>3
<1>15. Len(c) >= 1
  BY <1>5, <1>7
<1> QED
  BY <1>2, <1>5, <1>9, <1>11, <1>14, <1>15, Zenon

LEMMA HuffmanOfNothing ==
  EncodedSize(<<>>) = 0 /\ HuffmanEncode(<<>>) = <<>>
<1>1. <<>> \in Text
  BY DEF Text
<1>2. PICK off : AreOffsets(off, <<>>)
  BY <1>1, OffsetsExist
<1>3. Len(Bits(<<>>)) = 0
  <2>1. Len(<<>>) = 0
    OBVIOUS
  <2> QED
    BY <1>2, <2>1, Zenon DEF AreOffsets
<1>4. EncodedSize(<<>>) = 0
  <2>1. (0 + 7) \div 8 = 0
    OBVIOUS
  <2> QED
    BY <1>3, <2>1 DEF EncodedSize
<1>5. HuffmanEncode(<<>>) \in Seq(Octets) /\ Len(HuffmanEncode(<<>>)) = 0
  BY <1>1, <1>4, HuffmanEncodeType, EncodedBits
<1> QED
  BY <1>4, <1>5

LEMMA HuffmanStringRead ==
  ASSUME NEW data \in Seq(Octets), NEW pos \in Nat, NEW s \in Text, EncodedSize(s) < NumberLimit,
         Lies(Huffman(s), data, pos)
  PROVE  /\ Huffman(s) \in Seq(Octets) /\ Len(Huffman(s)) >= 1
         /\ ReadsString(DecodeString(data, pos), s, pos + Len(Huffman(s)),
                        (s # <<>> \/ pos + Len(Huffman(s)) < Len(data)) /\ Fits(s))
<1>1. PICK h \in Seq(Octets) : h = HuffmanEncode(s)
  BY HuffmanEncodeType
<1>2. PICK n \in Nat, z \in Nat : n = Len(h) /\ n = EncodedSize(s) /\ z = Len(data) /\ n < NumberLimit
  BY <1>1, EncodedBits
<1>3. PICK e \in Seq(Octets) : e = EncodeInt(128, n, 7)
  BY <1>2, EncodeIntTypes
<1>4. PICK m \in Nat : m = Len(e)
  BY <1>3
<1>5. PICK c \in Seq(Octets) : c = Huffman(s) /\ c = e \o h /\ Len(c) = m + n
  <2>1. e \o h \in Seq(Octets) /\ Len(e \o h) = m + n
    <3>1. e \o h \in Seq(Octets) /\ Len(e \o h) = Len(e) + Len(h)
      OBVIOUS
    <3> QED
      BY <1>2, <1>4, <3>1, Zenon
  <2>2. Huffman(s) = e \o h
    BY <1>1, <1>2, <1>3 DEF Huffman
  <2> QED
    BY <2>1, <2>2
<1>6. Lies(e, data, pos) /\ Lies(h, data, pos + m)
  <2>1. Lies(e \o h, data, pos)
    BY <1>5, Zenon
  <2>2. Lies(e \o h, data, pos) <=> Lies(e, data, pos) /\ Lies(h, data, pos + Len(e))
    BY <1>1, LiesConcat
  <2> QED
    BY <1>4, <2>1, <2>2, Zenon
<1>7. /\ DecodeInt(data, pos, 7) = [ok |-> TRUE, value |-> n, pos |-> pos + m]
      /\ m >= 1 /\ pos < z /\ data[pos + 1] \in 128..(128 + Mask(7))
  <2>1. Lies(EncodeInt(128, n, 7), data, pos) 
    BY <1>3, <1>6
  <2>2. Prefixed(128, 7) /\ n < NumberLimit
    BY <1>2 DEF Prefixed
  <2>3. NumberIsRead(data, pos, 128, n, 7)
    BY <2>1, <2>2, NumberReads, Zenon
  <2>4. /\ DecodeInt(data, pos, 7) = [ok |-> TRUE, value |-> n, pos |-> pos + m]
        /\ m \in Nat \ {0} /\ pos + m <= z /\ data[pos + 1] \in 128..(128 + Mask(7))
    BY <1>2, <1>3, <1>4, <2>3, Zenon DEF NumberIsRead
  <2> QED
    BY <2>4
<1>8. data[pos + 1] >= 128
  BY <1>7, MaskValues
<1>9. PICK p \in Nat : p = pos + m /\ p + n = pos + Len(c) /\ p + n <= z
  <2>1. (pos + m) + n <= z
    BY <1>2, <1>6 DEF Lies
  <2> QED
    BY <1>5, <2>1
<1>10. SubSeq(data, p + 1, p + n) = h
  BY <1>1, <1>2, <1>6, <1>9, SubSeqLies
<1>11. PICK d : d = DecodeString(data, pos)
  OBVIOUS
<1>16. PICK t : t = HuffmanDecode(h)
  OBVIOUS
<1>12. /\ ~(p < z) => d = [ok |-> FALSE, value |-> <<>>, pos |-> pos]
       /\ p < z /\ n = 0 => d = [ok |-> TRUE, value |-> <<>>, pos |-> p + n]
       /\ p < z /\ n # 0 => d = [ok |-> t.ok, value |-> t.value, pos |-> IF t.ok THEN p + n ELSE pos]
  <2>1. StringIs(data, pos, TRUE, n, p)
    <3>1. DecodeInt(data, pos, 7) = [ok |-> TRUE, value |-> n, pos |-> p]
      BY <1>7, <1>9
    <3> QED
      BY <3>1, DecodeStringCases, Zenon
  <2>2. pos < Len(data) /\ z = Len(data) /\ p + n <= Len(data)
    BY <1>2, <1>7, <1>9
  <2> QED
    BY <1>8, <1>10, <1>11, <1>16, <2>1, <2>2, Zenon DEF StringIs
<1> SUFFICES ReadsString(d, s, p + n, (s # <<>> \/ p + n < z) /\ Fits(s))
  <2>1. Len(c) >= 1
    BY <1>5, <1>7
  <2> QED
    BY <1>2, <1>5, <1>9, <1>11, <2>1, Zenon
<1>13. CASE s = <<>>
  <2>1. n = 0
    BY <1>2, <1>13, HuffmanOfNothing
  <2>2. p + n = p
    BY <2>1
  <2>3. CASE ~(p < z)
    <3>2. d = [ok |-> FALSE, value |-> <<>>, pos |-> pos]
      BY <1>12, <2>3, Zenon
    <3>1. ~d.ok /\ d.ok \in BOOLEAN
      BY <3>2
    <3> QED
      BY <1>13, <2>2, <2>3, <3>1, Zenon DEF ReadsString
  <2>4. CASE p < z
    <3>2. d = [ok |-> TRUE, value |-> <<>>, pos |-> p + n]
      BY <1>12, <2>1, <2>4, Zenon
    <3>1. d.ok /\ d.ok \in BOOLEAN /\ d.value = <<>> /\ d.pos = p + n
      BY <3>2
    <3> QED
      BY <1>13, <3>1, Zenon DEF ReadsString
  <2> QED
    BY <2>3, <2>4
<1>14. CASE s # <<>>
  <2>1. /\ EncodedSize(s) # 0 /\ t.ok \in BOOLEAN /\ (t.ok => t.value = s)
        /\ (Len(s) < MemorySize(EncodedSize(s)) => t.ok)
    <3>1. LET x == HuffmanDecode(HuffmanEncode(s)) IN
          /\ EncodedSize(s) # 0 /\ x.ok \in BOOLEAN /\ (x.ok => x.value = s)
          /\ (Len(s) < MemorySize(EncodedSize(s)) => x.ok)
      BY <1>14, HuffmanRead, Zenon
    <3> QED
      BY <1>1, <1>16, <3>1, Zenon
  <2>2. n # 0
    BY <1>2, <2>1
  <2>3. p < z
    BY <1>2, <1>9, <2>2
  <2>4. d = [ok |-> t.ok, value |-> t.value, pos |-> IF t.ok THEN p + n ELSE pos]
    BY <1>12, <2>2, <2>3
  <2>5. d.ok = t.ok /\ d.value = t.value /\ (t.ok => d.pos = p + n)
    BY <2>4, Zenon
  <2> QED
    BY <1>14, <2>1, <2>5, Zenon DEF ReadsString, Fits
<1> QED
  BY <1>13, <1>14

-----------------------------------------------------------------------------
(* The end of a block is read as it is read alone.                         *)

\* The data end with the octets, which begin after q.
EndsWith(octets, data, q) ==
    Len(data) = q + Len(octets) /\ \A i \in 1..Len(octets) : data[q + i] = octets[i]

\* The same was found, q octets later.
Shifted(a, b, q) ==
    \E l \in BOOLEAN, p \in Nat : \E v :
        a = [ok |-> l, value |-> v, pos |-> p] /\ b = [ok |-> l, value |-> v, pos |-> q + p]

LEMMA SumsAgree ==
  ASSUME NEW octets \in Seq(Octets), NEW data \in Seq(Octets), NEW q \in Nat, EndsWith(octets, data, q),
         NEW pos \in Nat, NEW k \in 1..8, pos + 1 + k <= Len(octets), NEW prefix,
         NEW g, IsSum(g, octets, pos, prefix, k), NEW h, IsSum(h, data, q + pos, prefix, k)
  PROVE  g[k] = h[k]
<1>1. \A i \in 0..k : data[(q + pos) + 1 + i] = octets[pos + 1 + i]
  <2>1. ASSUME NEW i \in 0..k PROVE data[(q + pos) + 1 + i] = octets[pos + 1 + i]
    <3>1. pos + 1 + i \in 1..Len(octets) /\ q + (pos + 1 + i) = (q + pos) + 1 + i
      OBVIOUS
    <3> QED
      BY <3>1 DEF EndsWith
  <2> QED
    BY <2>1
<1>2. data[(q + pos) + 1] = octets[pos + 1]
  <2>1. 0 \in 0..k /\ (q + pos) + 1 + 0 = (q + pos) + 1 /\ pos + 1 + 0 = pos + 1
    OBVIOUS
  <2> QED
    BY <1>1, <2>1
<1> DEFINE T == {n \in 0..k : g[n] = h[n]}
<1>3. 0 \in T
  BY <1>2 DEF IsSum
<1>4. ASSUME NEW n \in 0..(k - 1), n \in T PROVE n + 1 \in T
  <2>1. n + 1 \in 1..k /\ (n + 1) - 1 = n /\ n + 1 \in 0..k
    OBVIOUS
  <2>2. /\ g[n + 1] = g[(n + 1) - 1] + (octets[pos + 1 + (n + 1)] % 128) * TwoTo(7 * ((n + 1) - 1))
        /\ h[n + 1] = h[(n + 1) - 1] + (data[(q + pos) + 1 + (n + 1)] % 128) * TwoTo(7 * ((n + 1) - 1))
    BY <2>1 DEF IsSum
  <2>3. data[(q + pos) + 1 + (n + 1)] = octets[pos + 1 + (n + 1)]
    BY <1>1, <2>1
  <2>4. g[n] = h[n]
    BY <1>4
  <2>5. g[n + 1] = h[n + 1]
    BY <2>1, <2>2, <2>3, <2>4, Zenon
  <2> QED
    BY <2>1, <2>5
<1> HIDE DEF T
<1>5. \A n \in 0..k : n \in T
  BY <1>3, <1>4, LoopInduction
<1> QED
  BY <1>5 DEF T

LEMMA DecodeIntShift ==
  ASSUME NEW octets \in Seq(Octets), NEW data \in Seq(Octets), NEW q \in Nat, EndsWith(octets, data, q),
         NEW pos \in Nat, pos < Len(octets), NEW prefix \in {4, 5, 6, 7}
  PROVE  Shifted(DecodeInt(octets, pos, prefix), DecodeInt(data, q + pos, prefix), q)
<1>1. PICK m \in Nat, z \in Nat : m = Len(octets) /\ z = Len(data) /\ z = q + m
  BY DEF EndsWith
<1>2. PICK r \in Nat : r = q + pos
  OBVIOUS
<1>3. \A i \in 0..8 : pos + 1 + i <= m => data[r + 1 + i] = octets[pos + 1 + i]
  <2>1. ASSUME NEW i \in 0..8, pos + 1 + i <= m PROVE data[r + 1 + i] = octets[pos + 1 + i]
    <3>1. pos + 1 + i \in 1..m /\ q + (pos + 1 + i) = r + 1 + i
      BY <1>1, <1>2, <2>1
    <3> QED
      BY <1>1, <3>1 DEF EndsWith
  <2> QED
    BY <2>1
<1>4. data[r + 1] = octets[pos + 1] /\ r < z
  <2>1. 0 \in 0..8 /\ r + 1 + 0 = r + 1 /\ pos + 1 + 0 = pos + 1 /\ pos + 1 + 0 <= m /\ r < z
    BY <1>1, <1>2
  <2> QED
    BY <1>3, <2>1
<1>5. CASE octets[pos + 1] % 2^prefix < Mask(prefix)
  <2>1. PICK v : v = octets[pos + 1] % 2^prefix
    OBVIOUS
  <2>2. DecodeInt(octets, pos, prefix) = [ok |-> TRUE, value |-> v, pos |-> pos + 1]
    BY <1>5, <2>1, DecodeIntShort
  <2>3. DecodeInt(data, r, prefix) = [ok |-> TRUE, value |-> v, pos |-> r + 1]
    BY <1>4, <1>5, <2>1, DecodeIntShort
  <2>4. r + 1 = q + (pos + 1) /\ pos + 1 \in Nat /\ TRUE \in BOOLEAN
    BY <1>2
  <2> QED
    BY <1>2, <2>2, <2>3, <2>4 DEF Shifted
<1> DEFINE ends(d, p) == {n \in 1..8 : p + 1 + n <= Len(d) /\ d[p + 1 + n] < 128}
<1>6. ends(octets, pos) = ends(data, r)
  <2>1. ASSUME NEW n \in 1..8 PROVE pos + 1 + n <= m <=> r + 1 + n <= z
    BY <1>1, <1>2
  <2>2. \A n \in 1..8 : n \in 0..8
    OBVIOUS
  <2> QED
    BY <1>1, <1>3, <2>1, <2>2
<1>7. CASE ~(octets[pos + 1] % 2^prefix < Mask(prefix)) /\ ends(octets, pos) = {}
  <2>1. DecodeInt(octets, pos, prefix) = [ok |-> FALSE, value |-> 0, pos |-> pos]
    BY <1>7 DEF DecodeInt
  <2>2. ~(data[r + 1] % 2^prefix < Mask(prefix)) /\ ends(data, r) = {}
    BY <1>4, <1>6, <1>7, Zenon
  <2>3. DecodeInt(data, r, prefix) = [ok |-> FALSE, value |-> 0, pos |-> r]
    BY <2>2 DEF DecodeInt
  <2> QED
    BY <1>2, <2>1, <2>3 DEF Shifted
<1>8. CASE ~(octets[pos + 1] % 2^prefix < Mask(prefix)) /\ ends(octets, pos) # {}
  <2>1. ends(octets, pos) \in SUBSET Nat
    OBVIOUS
  <2>2. PICK k \in ends(octets, pos) : \A j \in ends(octets, pos) : k <= j
    <3> HIDE DEF ends
    <3> QED
      BY <1>8, <2>1, LeastNat
  <2>3. k \in 1..8 /\ pos + 1 + k <= m /\ r + 1 + k <= z /\ octets[pos + 1 + k] < 128 /\ data[r + 1 + k] < 128
    <3>1. k \in ends(data, r)
      BY <1>6
    <3> QED
      BY <1>1, <3>1
  <2>4. \A j \in 1..(k - 1) : j \in 1..8 /\ ~(k <= j)
    BY <2>3
  <2>5. ASSUME NEW j \in 1..(k - 1)
        PROVE  ~(octets[pos + 1 + j] < 128) /\ ~(data[r + 1 + j] < 128)
    <3>1. j \in 1..8 /\ pos + 1 + j <= Len(octets) /\ r + 1 + j <= Len(data)
      BY <1>1, <2>3
    <3>2. j \notin ends(octets, pos) /\ j \notin ends(data, r)
      <4> HIDE DEF ends
      <4> QED
        BY <1>6, <2>2, <2>4
    <3> QED
      BY <3>1, <3>2
  <2>6. EndsAt(octets, pos, k) /\ EndsAt(data, r, k)
    BY <1>1, <2>3, <2>5 DEF EndsAt
  <2>7. IsSummedUp(octets, pos, prefix, k)
    BY <1>8, <2>6, DecodeIntSum
  <2>8. IsSummedUp(data, r, prefix, k)
    <3>1. ~(data[r + 1] % 2^prefix < Mask(prefix)) /\ r < Len(data)
      BY <1>1, <1>4, <1>8, Zenon
    <3> QED
      BY <2>6, <3>1, DecodeIntSum
  <2>9. PICK g : IsSum(g, octets, pos, prefix, k)
                 /\ DecodeInt(octets, pos, prefix) = [ok |-> TRUE, value |-> g[k], pos |-> pos + 1 + k]
    BY <2>7 DEF IsSummedUp
  <2>10. PICK h : IsSum(h, data, r, prefix, k)
                  /\ DecodeInt(data, r, prefix) = [ok |-> TRUE, value |-> h[k], pos |-> r + 1 + k]
    BY <2>8 DEF IsSummedUp
  <2>11. g[k] = h[k]
    <3>1. IsSum(h, data, q + pos, prefix, k) /\ pos + 1 + k <= Len(octets)
      BY <1>1, <1>2, <2>3, <2>10
    <3> QED
      <4> HIDE DEF ends
      <4> QED
        BY <2>3, <2>9, <3>1, SumsAgree
  <2>12. r + 1 + k = q + (pos + 1 + k) /\ pos + 1 + k \in Nat /\ TRUE \in BOOLEAN
    BY <1>2, <2>3
  <2> QED
    BY <1>2, <2>9, <2>10, <2>11, <2>12, Zenon DEF Shifted
<1> QED
  BY <1>5, <1>7, <1>8

LEMMA DecodeStringShift ==
  ASSUME NEW octets \in Seq(Octets), NEW data \in Seq(Octets), NEW q \in Nat, EndsWith(octets, data, q),
         NEW pos \in Nat
  PROVE  Shifted(DecodeString(octets, pos), DecodeString(data, q + pos), q)
<1>1. PICK m \in Nat, z \in Nat : m = Len(octets) /\ z = Len(data) /\ z = q + m
  BY DEF EndsWith
<1>2. PICK r \in Nat : r = q + pos
  OBVIOUS
<1>3. CASE ~(pos < m)
  <2>1. ~(pos < Len(octets)) /\ ~(r < Len(data))
    BY <1>1, <1>2, <1>3
  <2>2. \A d, p : ~(p < Len(d)) => DecodeString(d, p) = [ok |-> FALSE, value |-> <<>>, pos |-> p]
    <3> SUFFICES ASSUME NEW d, NEW p, ~(p < Len(d))
                 PROVE  DecodeString(d, p) = [ok |-> FALSE, value |-> <<>>, pos |-> p]
      OBVIOUS
    <3>1. PICK i : i = DecodeInt(d, p, 7)
      OBVIOUS
    <3> DEFINE raw   == SubSeq(d, i.pos + 1, i.pos + i.value)
               text  == HuffmanDecode(raw)
               valid == p < Len(d) /\ i.ok /\ i.pos < Len(d) /\ i.pos + i.value <= Len(d)
    <3>2. DecodeString(d, p) =
            CASE ~valid -> [ok |-> FALSE, value |-> <<>>, pos |-> p]
              [] valid /\ i.value = 0 -> [ok |-> TRUE, value |-> <<>>, pos |-> i.pos + i.value]
              [] valid /\ i.value # 0 /\ d[p + 1] >= 128 ->
                    [ok |-> text.ok, value |-> text.value,
                     pos |-> IF text.ok THEN i.pos + i.value ELSE p]
              [] OTHER -> [ok |-> TRUE, value |-> raw, pos |-> i.pos + i.value]
      BY <3>1, Zenon DEF DecodeString
    <3>3. ~valid
      OBVIOUS
    <3> HIDE DEF valid
    <3> QED
      BY <3>2, <3>3, Zenon
  <2>3. /\ DecodeString(octets, pos) = [ok |-> FALSE, value |-> <<>>, pos |-> pos]
        /\ DecodeString(data, r) = [ok |-> FALSE, value |-> <<>>, pos |-> r]
    BY <2>1, <2>2, Zenon
  <2> QED
    BY <1>2, <2>3 DEF Shifted
<1>4. CASE pos < m
  <2>1. Shifted(DecodeInt(octets, pos, 7), DecodeInt(data, r, 7), q)
    BY <1>1, <1>2, <1>4, DecodeIntShift
  <2>2. PICK l \in BOOLEAN, p \in Nat : \E v :
           /\ DecodeInt(octets, pos, 7) = [ok |-> l, value |-> v, pos |-> p]
           /\ DecodeInt(data, r, 7) = [ok |-> l, value |-> v, pos |-> q + p]
    BY <2>1, Zenon DEF Shifted
  <2>3. PICK v : /\ DecodeInt(octets, pos, 7) = [ok |-> l, value |-> v, pos |-> p]
                 /\ DecodeInt(data, r, 7) = [ok |-> l, value |-> v, pos |-> q + p]
    BY <2>2, Zenon
  <2>4. v \in Nat
    <3>1. DecodeInt(octets, pos, 7).value \in Nat
      BY <1>1, <1>4, DecodeIntType
    <3>2. DecodeInt(octets, pos, 7).value = v
      BY <2>3
    <3> QED
      BY <3>1, <3>2
  <2>5. PICK s \in Nat : s = q + p
    OBVIOUS
  <2>6. StringIs(octets, pos, l, v, p) /\ StringIs(data, r, l, v, s)
    BY <2>3, <2>5, DecodeStringCases, Zenon
  <2> DEFINE raw  == SubSeq(octets, p + 1, p + v)
             text == HuffmanDecode(raw)
             a    == DecodeString(octets, pos)
             b    == DecodeString(data, r)
  <2>7. /\ pos < Len(octets) /\ r < Len(data) /\ (p < Len(octets) <=> s < Len(data))
        /\ (p + v <= Len(octets) <=> s + v <= Len(data))
        /\ s + v = q + (p + v) /\ p + v \in Nat
    BY <1>1, <1>2, <1>4, <2>4, <2>5
  <2>8. data[r + 1] = octets[pos + 1]
    <3>1. pos + 1 \in 1..m /\ q + (pos + 1) = r + 1
      BY <1>1, <1>2, <1>4
    <3> QED
      BY <1>1, <3>1 DEF EndsWith
  <2>9. ASSUME p + v <= Len(octets) PROVE SubSeq(data, s + 1, s + v) = raw
    <3>1. raw \in Seq(Octets) /\ Len(raw) = v /\ \A i \in 1..v : raw[i] = octets[p + i] /\ p + i \in 1..m
      BY <1>1, <2>4, <2>9
    <3>2. Lies(raw, data, s)
      <4>1. s + v <= z
        BY <1>1, <2>4, <2>5, <2>9
      <4>2. ASSUME NEW i \in 1..v PROVE data[s + i] = raw[i]
        <5>1. q + (p + i) = s + i /\ p + i \in 1..m
          BY <2>5, <3>1
        <5>2. data[q + (p + i)] = octets[p + i]
          BY <1>1, <5>1 DEF EndsWith
        <5> QED
          BY <3>1, <5>1, <5>2
      <4> QED
        BY <1>1, <3>1, <4>1, <4>2 DEF Lies
    <3> HIDE DEF raw
    <3> QED
      BY <3>1, <3>2, SubSeqLies
  <2>10. CASE ~(l /\ p < Len(octets) /\ p + v <= Len(octets))
    <3>1. a = [ok |-> FALSE, value |-> <<>>, pos |-> pos] /\ b = [ok |-> FALSE, value |-> <<>>, pos |-> r]
      BY <2>6, <2>7, <2>10, Zenon DEF StringIs
    <3> QED
      BY <1>2, <3>1 DEF Shifted
  <2>11. CASE l /\ p < Len(octets) /\ p + v <= Len(octets) /\ v = 0
    <3>1. a = [ok |-> TRUE, value |-> <<>>, pos |-> p + v] /\ b = [ok |-> TRUE, value |-> <<>>, pos |-> s + v]
      BY <2>6, <2>7, <2>11, Zenon DEF StringIs
    <3> QED
      BY <1>2, <2>7, <3>1 DEF Shifted
  <2>12. CASE l /\ p < Len(octets) /\ p + v <= Len(octets) /\ v # 0 /\ octets[pos + 1] >= 128
    <3>1. /\ a = [ok |-> text.ok, value |-> text.value, pos |-> IF text.ok THEN p + v ELSE pos]
          /\ b = [ok |-> text.ok, value |-> text.value, pos |-> IF text.ok THEN s + v ELSE r]
      <4> HIDE DEF raw
      <4>1. SubSeq(data, s + 1, s + v) = raw
        BY <2>9, <2>12
      <4> QED
        BY <2>6, <2>7, <2>8, <2>12, <4>1, Zenon DEF StringIs, raw
    <3>2. text.ok \in BOOLEAN
      <4>1. raw \in Seq(Octets)
        BY <1>1, <2>4, <2>12
      <4> HIDE DEF raw
      <4> QED
        BY <4>1, HuffmanDecodeType
    <3> HIDE DEF text, a, b
    <3>3. CASE text.ok
      <4>1. a = [ok |-> TRUE, value |-> text.value, pos |-> p + v] /\ b = [ok |-> TRUE, value |-> text.value, pos |-> s + v]
        BY <3>1, <3>2, <3>3
      <4> QED
        BY <1>2, <2>7, <4>1 DEF Shifted, a, b
    <3>4. CASE ~text.ok
      <4>1. a = [ok |-> FALSE, value |-> text.value, pos |-> pos] /\ b = [ok |-> FALSE, value |-> text.value, pos |-> r]
        BY <3>1, <3>2, <3>4
      <4> QED
        BY <1>2, <4>1 DEF Shifted, a, b
    <3> QED
      BY <3>3, <3>4
  <2>13. CASE l /\ p < Len(octets) /\ p + v <= Len(octets) /\ v # 0 /\ ~(octets[pos + 1] >= 128)
    <3>1. /\ a = [ok |-> TRUE, value |-> raw, pos |-> p + v]
          /\ b = [ok |-> TRUE, value |-> raw, pos |-> s + v]
      <4> HIDE DEF raw
      <4>1. SubSeq(data, s + 1, s + v) = raw
        BY <2>9, <2>13
      <4> QED
        BY <2>6, <2>7, <2>8, <2>13, <4>1, Zenon DEF StringIs, raw
    <3> HIDE DEF raw
    <3> QED
      BY <1>2, <2>7, <3>1 DEF Shifted
  <2> QED
    BY <2>10, <2>11, <2>12, <2>13
<1> QED
  BY <1>3, <1>4

-----------------------------------------------------------------------------
(* What is written, as the field that it stands for.                       *)

\* hpack_get_table_entry_at, in any table.
EntryIn(t, i) ==
    CASE i = 0 -> NULL
      [] i \in 1..StaticSize -> StaticTable[i]
      [] i > StaticSize /\ t.count <= i - StaticSize - 1 -> NULL
      [] OTHER -> At(t, i - StaticSize - 1)

\* No entry is smaller than its overhead.
LEMMA TotalOverhead ==
  ASSUME NEW s \in Seq(Entry)
  PROVE  \A m \in 0..Len(s) : 32 * m <= List!Total(s, m)
<1> DEFINE T == {m \in 0..Len(s) : 32 * m <= List!Total(s, m)}
<1>1. Len(s) \in Nat /\ \A m \in 0..Len(s) : List!Total(s, m) \in Nat
  BY TotalFacts
<1>2. 0 \in T
  BY <1>1
<1>3. ASSUME NEW m \in 0..(Len(s) - 1), m \in T PROVE m + 1 \in T
  <2>1. m + 1 \in 1..Len(s) /\ (m + 1) - 1 = m /\ m + 1 \in 0..Len(s) /\ m \in 0..Len(s)
    BY <1>1
  <2>2. List!Total(s, m + 1) = List!Total(s, m) + EntrySize(s[m + 1])
    BY <2>1, TotalFacts
  <2>3. PICK x \in Nat : x = EntrySize(s[m + 1]) /\ 32 <= x
    <3>1. PICK e \in Entry : e = s[m + 1]
      BY <2>1
    <3>2. PICK k \in Nat, v \in Nat : k = Len(e.key) /\ v = Len(e.value)
      BY DEF Entry
    <3>4. EntrySize(e) = k + v + 32
      BY <3>2 DEF EntrySize, EntryOverhead
    <3>3. EntrySize(e) \in Nat /\ 32 <= EntrySize(e)
      BY <3>4
    <3> QED
      BY <3>1, <3>3
  <2>4. PICK y \in Nat : y = List!Total(s, m) /\ 32 * m <= y
    BY <1>1, <1>3, <2>1
  <2>5. 32 * (m + 1) <= y + x
    BY <2>3, <2>4
  <2> QED
    BY <2>1, <2>2, <2>3, <2>4, <2>5
<1> HIDE DEF T
<1>4. \A m \in 0..Len(s) : m \in T
  BY <1>1, <1>2, <1>3, LoopInduction
<1> QED
  BY <1>4 DEF T

LEMMA CountIsSmall ==
  ASSUME NEW t, TableInv(t)
  PROVE  t.count \in Nat /\ t.max \in Nat /\ 32 * t.count <= t.max
<1>1. Accounted(t) /\ Ring(t) /\ t.size <= t.max
  BY DEF TableInv, Accounted
<1>2. PICK n \in Nat, max \in Nat : n = t.count /\ max = t.max
  BY <1>1 DEF Ring, Tables
<1>3. PICK s \in Seq(Entry), size \in Nat : s = AsList(t) /\ Len(s) = n /\ size = t.size /\ size = List!Total(s, n)
  BY <1>1, <1>2, ListOfRing, SizeOfAccounted
<1>4. 32 * n <= size
  <2>1. n \in 0..Len(s)
    BY <1>3
  <2> QED
    BY <1>3, <2>1, TotalOverhead
<1> QED
  BY <1>1, <1>2, <1>3, <1>4

Bounds == TableSizes \cup UpdateSizes
AnyEntry == [key : Seq(Octets), value : {NULL} \cup Seq(Octets)]

LEMMA FieldFacts ==
  ASSUME NEW f \in Fields
  PROVE  /\ f \in Entry /\ f # NULL /\ f.value # NULL /\ f.key \in Text /\ f.value \in Text
         /\ Len(f.key) < NumberLimit /\ EncodedSize(f.key) < NumberLimit
         /\ Len(f.value) < NumberLimit /\ EncodedSize(f.value) < NumberLimit
<1>1. f \in Entry
  BY FieldIsEntry
<1>2. f # NULL /\ f.value # NULL
  BY <1>1, StringAssumption DEF Entry, Octets
<1>3. f.key \in Text /\ f.value \in Text
  BY StringAssumption DEF Text
<1>4. \A s \in {f.key, f.value} : Len(s) < NumberLimit /\ EncodedSize(s) < NumberLimit
  BY NumberAssumption, Zenon
<1>5. f.key \in {f.key, f.value} /\ f.value \in {f.key, f.value}
  OBVIOUS
<1> QED
  BY <1>1, <1>2, <1>3, <1>4, <1>5, Zenon

LEMMA EntriesOfTable ==
  ASSUME NEW t, TableInv(t), t.max \in Bounds, NEW useAll
  PROVE  LET table == StaticTable \o (IF useAll THEN AsList(t) ELSE <<>>) IN
         /\ Len(table) \in Nat
         /\ \A i \in 1..Len(table) : /\ table[i] = EntryIn(t, i) /\ table[i] \in AnyEntry
                                     /\ i \in Nat /\ i # 0 /\ i < NumberLimit
<1>1. PICK st \in Seq(AnyEntry), z \in Nat : st = StaticTable /\ z = StaticSize /\ z = Len(st)
  <2>1. StaticTable \in Seq(AnyEntry)
    BY StringAssumption DEF AnyEntry, Octets
  <2> QED
    BY <2>1 DEF StaticSize
<1>2. Ring(t)
  BY DEF TableInv, Accounted
<1>3. PICK n \in Nat, max \in Nat : n = t.count /\ max = t.max /\ 32 * n <= max /\ z + max < NumberLimit
  BY <1>1, CountIsSmall, NumberAssumption DEF Bounds
<1>4. PICK s \in Seq(AnyEntry) : /\ s = (IF useAll THEN AsList(t) ELSE <<>>) /\ Len(s) \in 0..n
                                 /\ \A i \in 1..Len(s) : s[i] = At(t, i - 1)
  <2>1. CASE useAll
    <3>1. PICK l \in Seq(Entry) : l = AsList(t) /\ Len(l) = n /\ \A i \in 1..n : l[i] = At(t, i - 1)
      BY <1>2, <1>3, ListOfRing
    <3>2. l \in Seq(AnyEntry)
      <4>1. Entry \subseteq AnyEntry
        BY DEF Entry, AnyEntry
      <4> QED
        BY <4>1
    <3> QED
      BY <2>1, <3>1, <3>2
  <2>2. CASE ~useAll
    <3>1. <<>> \in Seq(AnyEntry) /\ Len(<<>>) = 0 /\ 1..0 = {} /\ 0 \in 0..n
      OBVIOUS
    <3> QED
      BY <2>2, <3>1
  <2> QED
    BY <2>1, <2>2
<1>5. PICK m \in Nat : m = Len(s) /\ m <= n
  BY <1>4
<1>6. PICK u \in Seq(AnyEntry) : /\ u = st \o s /\ Len(u) = z + m
                                 /\ \A i \in 1..z : u[i] = st[i]
                                 /\ \A i \in 1..m : u[z + i] = s[i]
  <2>1. /\ st \o s \in Seq(AnyEntry) /\ Len(st \o s) = Len(st) + Len(s)
        /\ \A i \in 1..Len(st) : (st \o s)[i] = st[i]
        /\ \A i \in 1..Len(s) : (st \o s)[Len(st) + i] = s[i]
    OBVIOUS
  <2> QED
    <3>1. PICK u \in Seq(AnyEntry) : u = st \o s
      BY <2>1, Zenon
    <3>2. /\ Len(u) = Len(st) + Len(s) /\ \A i \in 1..Len(st) : u[i] = st[i]
          /\ \A i \in 1..Len(s) : u[Len(st) + i] = s[i]
      BY <2>1, <3>1, Zenon
    <3>3. /\ Len(u) = z + m /\ \A i \in 1..z : u[i] = st[i]
          /\ \A i \in 1..m : u[z + i] = s[i]
      BY <1>1, <1>5, <3>2
    <3> QED
      BY <3>1, <3>3, Zenon
<1>7. ASSUME NEW i \in 1..(z + m)
      PROVE  u[i] = EntryIn(t, i) /\ u[i] \in AnyEntry /\ i \in Nat /\ i # 0 /\ i < NumberLimit
  <2>1. i \in Nat /\ i # 0 /\ i < NumberLimit
    BY <1>3, <1>5, StringAssumption DEF NumberLimit
  <2>2. u[i] \in AnyEntry
    BY <1>6
  <2>3. CASE i \in 1..z
    <3>1. EntryIn(t, i) = StaticTable[i]
      BY <1>1, <2>1, <2>3 DEF EntryIn
    <3> QED
      BY <1>1, <1>6, <2>1, <2>2, <2>3, <3>1
  <2>4. CASE i \notin 1..z
    <3>1. PICK k \in 1..m : i = z + k /\ i - z - 1 = k - 1
      <4>1. i - z \in 1..m /\ i = z + (i - z) /\ i - z - 1 = (i - z) - 1
        BY <2>4
      <4> QED
        BY <4>1
    <3>2. i > z /\ ~(n <= k - 1)
      BY <1>5, <3>1
    <3>3. EntryIn(t, i) = At(t, k - 1)
      <4>1. /\ i # 0 /\ i \notin 1..StaticSize /\ i - StaticSize - 1 = k - 1
            /\ ~(t.count <= i - StaticSize - 1)
        BY <1>1, <1>3, <2>1, <2>4, <3>1, <3>2, Zenon
      <4>2. EntryIn(t, i) = At(t, i - StaticSize - 1)
        BY <4>1 DEF EntryIn
      <4> QED
        BY <4>1, <4>2, Zenon
    <3>4. u[i] = s[k] /\ s[k] = At(t, k - 1)
      BY <1>4, <1>5, <1>6, <3>1
    <3> QED
      BY <2>1, <2>2, <3>3, <3>4
  <2> QED
    BY <2>3, <2>4
<1> QED
  BY <1>1, <1>4, <1>6, <1>7

LEMMA FoundEntry ==
  ASSUME NEW f \in Fields, NEW useAll, TableInv(enc), enc.max \in Bounds
  PROVE  LET x == FindInTables(f, useAll) IN
         /\ x.type \in {"AllFound", "KeyFound"} =>
               /\ x.index \in Nat /\ x.index # 0 /\ x.index < NumberLimit
               /\ EntryIn(enc, x.index) # NULL /\ EntryIn(enc, x.index).key = f.key
         /\ x.type = "AllFound" => EntryIn(enc, x.index) = f
<1> DEFINE table == StaticTable \o (IF useAll THEN AsList(enc) ELSE <<>>)
           keys  == {i \in 1..Len(table) : table[i].key = f.key}
           all   == {i \in keys : table[i].value = f.value}
           x     == FindInTables(f, useAll)
           Good(i) == /\ i \in Nat /\ i # 0 /\ i < NumberLimit
                      /\ EntryIn(enc, i) # NULL /\ EntryIn(enc, i).key = f.key
<1>1. /\ Len(table) \in Nat
      /\ \A i \in 1..Len(table) : /\ table[i] = EntryIn(enc, i) /\ table[i] \in AnyEntry
                                  /\ i \in Nat /\ i # 0 /\ i < NumberLimit
  BY EntriesOfTable
<1>2. x = CASE all # {}  -> [type |-> "AllFound", index |-> First(all)]
            [] all = {} /\ keys # {} -> [type |-> "KeyFound", index |-> First(keys)]
            [] OTHER     -> [type |-> "NotFound", index |-> 0]
  BY DEF FindInTables
<1> HIDE DEF x, table
<1>3. NULL \notin AnyEntry
  BY StringAssumption DEF AnyEntry, Octets
<1>4. ASSUME NEW i \in keys PROVE Good(i)
  <2>1. i \in 1..Len(table) /\ table[i].key = f.key
    OBVIOUS
  <2> HIDE DEF keys
  <2> QED
    BY <1>1, <1>3, <2>1
<1>5. ASSUME NEW i \in all PROVE EntryIn(enc, i) = f
  <2>1. i \in 1..Len(table) /\ table[i].key = f.key /\ table[i].value = f.value
    OBVIOUS
  <2>2. PICK e \in AnyEntry : e = EntryIn(enc, i) /\ e.key = f.key /\ e.value = f.value
    BY <1>1, <2>1
  <2>3. f \in AnyEntry
    BY FieldIsEntry DEF Entry, AnyEntry
  <2>4. e = f
    BY <2>2, <2>3 DEF AnyEntry
  <2> QED
    BY <2>2, <2>4
<1>6. keys \in SUBSET Nat /\ all \in SUBSET Nat /\ all \subseteq keys
  BY <1>1
<1> HIDE DEF all, keys, Good
<1>7. CASE all # {}
  <2>1. x = [type |-> "AllFound", index |-> First(all)]
    BY <1>2, <1>7, Zenon
  <2>2. First(all) \in all
    BY <1>6, <1>7, FirstIsIn
  <2>3. PICK i : i = First(all) /\ Good(i) /\ EntryIn(enc, i) = f
    BY <1>4, <1>5, <1>6, <2>2
  <2> QED
    BY <2>1, <2>3 DEF Good, x
<1>8. CASE all = {} /\ keys # {}
  <2>1. x = [type |-> "KeyFound", index |-> First(keys)]
    BY <1>2, <1>8, Zenon
  <2>2. First(keys) \in keys
    BY <1>6, <1>8, FirstIsIn
  <2>3. PICK i : i = First(keys) /\ Good(i)
    BY <1>4, <2>2
  <2> QED
    BY <2>1, <2>3 DEF Good, x
<1>9. CASE all = {} /\ keys = {}
  <2>1. x = [type |-> "NotFound", index |-> 0]
    BY <1>2, <1>9, Zenon
  <2> QED
    BY <2>1 DEF x
<1> QED
  BY <1>7, <1>8, <1>9

-----------------------------------------------------------------------------
(* A table that has been given other sizes.                                *)

\* One list is the beginning of the other.
Starts(s, u) == Len(s) <= Len(u) /\ \A i \in 1..Len(s) : u[i] = s[i]

LEMMA StartsIsPrefix ==
  ASSUME NEW s \in Seq(Entry), NEW u \in Seq(Entry), Starts(s, u)
  PROVE  IsPrefix(s, u)
<1>1. PICK n \in Nat, m \in Nat : n = Len(s) /\ m = Len(u)
  OBVIOUS
<1>2. n <= m /\ \A i \in 1..n : u[i] = s[i]
  BY <1>1 DEF Starts
<1> QED
  BY <1>1, <1>2 DEF IsPrefix

LEMMA StartsTransitive ==
  ASSUME NEW s \in Seq(Entry), NEW u \in Seq(Entry), NEW w \in Seq(Entry), Starts(s, u), Starts(u, w)
  PROVE  Starts(s, w)
<1>1. PICK l \in Nat, m \in Nat, n \in Nat : l = Len(s) /\ m = Len(u) /\ n = Len(w)
  OBVIOUS
<1> QED
  BY <1>1 DEF Starts

\* Two beginnings of one list.
LEMMA StartsCompare ==
  ASSUME NEW s \in Seq(Entry), NEW u \in Seq(Entry), NEW w \in Seq(Entry), Starts(s, w), Starts(u, w)
  PROVE  Starts(s, u) \/ Starts(u, s)
<1>1. PICK l \in Nat, m \in Nat, n \in Nat : l = Len(s) /\ m = Len(u) /\ n = Len(w)
  OBVIOUS
<1>2. CASE l <= m
  BY <1>1, <1>2 DEF Starts
<1>3. CASE m <= l
  BY <1>1, <1>3 DEF Starts
<1> QED
  BY <1>2, <1>3

LEMMA StartsPushed ==
  ASSUME NEW s \in Seq(Entry), NEW u \in Seq(Entry), NEW e \in Entry, Starts(s, u)
  PROVE  /\ <<e>> \o s \in Seq(Entry) /\ <<e>> \o u \in Seq(Entry)
         /\ Starts(<<e>> \o s, <<e>> \o u)
<1>1. PICK l \in Nat, m \in Nat : l = Len(s) /\ m = Len(u)
  OBVIOUS
<1>2. ASSUME NEW q \in Seq(Entry)
      PROVE  /\ <<e>> \o q \in Seq(Entry) /\ Len(<<e>> \o q) = Len(q) + 1
             /\ (<<e>> \o q)[1] = e /\ \A i \in 1..Len(q) : (<<e>> \o q)[i + 1] = q[i]
  <2>1. <<e>> \in Seq(Entry) /\ Len(<<e>>) = 1 /\ <<e>>[1] = e
    OBVIOUS
  <2> QED
    BY <2>1
<1>3. PICK a, b : a = <<e>> \o s /\ b = <<e>> \o u
  OBVIOUS
<1>4. /\ a \in Seq(Entry) /\ Len(a) = l + 1 /\ a[1] = e /\ \A i \in 1..l : a[i + 1] = s[i]
      /\ b \in Seq(Entry) /\ Len(b) = m + 1 /\ b[1] = e /\ \A i \in 1..m : b[i + 1] = u[i]
  BY <1>1, <1>2, <1>3
<1>5. l <= m /\ \A i \in 1..l : u[i] = s[i]
  BY <1>1 DEF Starts
<1>6. ASSUME NEW i \in 1..(l + 1) PROVE b[i] = a[i]
  <2>1. CASE i = 1
    BY <1>4, <2>1
  <2>2. CASE i # 1
    <3>1. PICK k \in 1..l : i = k + 1
      <4>1. i - 1 \in 1..l /\ i = (i - 1) + 1
        BY <2>2
      <4> QED
        BY <4>1
    <3>2. k \in 1..m
      BY <1>5, <3>1
    <3> QED
      BY <1>4, <1>5, <3>1, <3>2
  <2> QED
    BY <2>1, <2>2
<1>7. Starts(a, b)
  BY <1>4, <1>5, <1>6 DEF Starts
<1> QED
  BY <1>3, <1>4, <1>7

\* The newest entries that fit are as many as can be.
LEMMA NewestFacts ==
  ASSUME NEW l \in Seq(Entry), NEW room \in Nat
  PROVE  LET w == List!Newest(l, room) IN
         /\ w \in Seq(Entry) /\ Starts(w, l) /\ List!Total(l, Len(w)) <= room
         /\ \A n \in 0..Len(l) : List!Total(l, n) <= room => n <= Len(w)
<1>1. PICK N \in Nat : N = Len(l)
  OBVIOUS
<1>2. List!Total(l, 0) = 0 /\ \A n \in 0..N : List!Total(l, n) \in Nat
  BY <1>1, TotalFacts
<1> DEFINE fits == {n \in 0..N : List!Total(l, n) <= room}
           above == {k \in 0..N : \A n \in fits : n <= k}
           top == CHOOSE n \in fits : \A m \in fits : m <= n
<1>3. 0 \in fits
  BY <1>2
<1>4. fits \in SUBSET (0..N)
  OBVIOUS
<1>5. PICK k \in above : \A j \in above : k <= j
  <2>1. above \in SUBSET Nat /\ N \in above
    BY <1>4
  <2> HIDE DEF above
  <2> QED
    BY <2>1, LeastNat
<1>6. k \in 0..N /\ \A n \in fits : n <= k
  BY <1>5
<1>7. k \in fits
  <2> SUFFICES ASSUME k \notin fits PROVE FALSE
    OBVIOUS
  <2> HIDE DEF fits
  <2>1. k # 0
    BY <1>3
  <2>2. k - 1 \in 0..N /\ \A n \in fits : n <= k - 1
    BY <1>4, <1>6, <2>1
  <2>3. k - 1 \in above
    BY <2>2
  <2> QED
    BY <1>5, <1>6, <2>3
<1>8. top \in fits /\ \A m \in fits : m <= top
  <2> HIDE DEF fits
  <2> QED
    BY <1>6, <1>7
<1>9. List!Newest(l, room) = SubSeq(l, 1, top)
  BY <1>1 DEF List!Newest
<1>10. PICK t \in 0..N : t = top /\ t \in fits /\ \A m \in fits : m <= t
  <2> HIDE DEF fits, top
  <2> QED
    BY <1>4, <1>8
<1>11. List!Total(l, t) <= room /\ \A n \in 0..N : List!Total(l, n) <= room => n <= t
  BY <1>10
<1> HIDE DEF fits, above, top
<1>12. PICK w : w = SubSeq(l, 1, t) /\ w \in Seq(Entry) /\ Len(w) = t /\ \A i \in 1..t : w[i] = l[i]
  <2>1. SubSeq(l, 1, t) \in Seq(Entry) /\ Len(SubSeq(l, 1, t)) = t /\ \A i \in 1..t : SubSeq(l, 1, t)[i] = l[i]
    BY <1>1
  <2> QED
    BY <2>1, Zenon
<1>13. Starts(w, l)
  BY <1>1, <1>12 DEF Starts
<1>14. w = List!Newest(l, room)
  BY <1>9, <1>10, <1>12, Zenon
<1> QED
  BY <1>1, <1>11, <1>12, <1>13, <1>14

\* What fits of two lists, one the beginning of the other.
LEMMA NewestStarts ==
  ASSUME NEW s \in Seq(Entry), NEW u \in Seq(Entry), Starts(s, u), NEW a \in Nat, NEW b \in Nat
  PROVE  LET x == List!Newest(s, a)
             y == List!Newest(u, b)
         IN  /\ x \in Seq(Entry) /\ y \in Seq(Entry)
             /\ Starts(x, y) \/ Starts(y, x)
             /\ a <= b => Starts(x, y)
<1>1. PICK x \in Seq(Entry) : /\ x = List!Newest(s, a) /\ Starts(x, s) /\ List!Total(s, Len(x)) <= a
  BY NewestFacts
<1>2. PICK y \in Seq(Entry) : /\ y = List!Newest(u, b) /\ Starts(y, u)
                              /\ \A n \in 0..Len(u) : List!Total(u, n) <= b => n <= Len(y)
  BY NewestFacts
<1>3. Starts(x, u)
  BY <1>1, StartsTransitive
<1>4. Starts(x, y) \/ Starts(y, x)
  BY <1>2, <1>3, StartsCompare
<1>5. ASSUME a <= b PROVE Starts(x, y)
  <2>1. PICK n \in Nat, m \in Nat, k \in Nat, j \in Nat : n = Len(x) /\ m = Len(s) /\ k = Len(u) /\ j = Len(y)
    OBVIOUS
  <2>2. n <= m /\ m <= k /\ \A i \in 1..m : s[i] = u[i]
    BY <1>1, <2>1 DEF Starts
  <2>3. List!Total(s, n) = List!Total(u, n)
    <3>0. m <= Len(s) /\ m <= Len(u) /\ \A i \in 1..m : s[i] = u[i]
      BY <2>1, <2>2
    <3>1. \A i \in 0..m : List!Total(s, i) = List!Total(u, i)
      BY <3>0, TotalOfPrefix, Zenon
    <3> QED
      BY <2>2, <3>1
  <2>4. List!Total(s, n) \in Nat
    <3>1. n \in 0..Len(s)
      BY <2>1, <2>2
    <3> QED
      BY <3>1, TotalFacts
  <2>5. List!Total(u, n) <= b /\ n \in 0..Len(u)
    BY <1>1, <1>5, <2>1, <2>2, <2>3, <2>4
  <2>6. n <= j
    BY <1>2, <2>1, <2>5
  <2>7. \A i \in 1..n : y[i] = x[i]
    BY <1>2, <1>3, <2>1, <2>6 DEF Starts
  <2> QED
    BY <2>1, <2>6, <2>7 DEF Starts
<1> QED
  BY <1>1, <1>2, <1>4, <1>5

\* The table t of the one side and d of the other agree: one holds what the
\* other does, newest first, and perhaps more.  Unless d was given a smaller
\* size it is the one with more, and unless it was given any they are the same.
Agrees(t, d, r) ==
    /\ TableInv(t) /\ t.max \in Bounds
    /\ Starts(AsList(t), AsList(d)) \/ Starts(AsList(d), AsList(t))
    /\ r # "shrunk" => Starts(AsList(t), AsList(d)) /\ t.max <= d.max
    /\ r = "no" => t = d

LEMMA AgreesWithItself ==
  ASSUME NEW t, TableInv(t), t.max \in Bounds, NEW r
  PROVE  Agrees(t, t, r)
<1>1. AsList(t) \in Seq(Entry)
  BY ListOfRing DEF TableInv, Accounted
<1>2. PICK l \in Seq(Entry) : l = AsList(t)
  BY <1>1
<1>3. Starts(l, l)
  BY DEF Starts
<1>4. t.max \in Nat
  BY CountIsSmall
<1>5. t.max <= t.max
  BY <1>4
<1> QED
  BY <1>2, <1>3, <1>5, Zenon DEF Agrees

LEMMA AgreesInsert ==
  ASSUME NEW t, NEW d, NEW r, Agrees(t, d, r), TableInv(d), NEW f \in Fields
  PROVE  Agrees(InsertEntry(t, f), InsertEntry(d, f), r)
<1>1. PICK x, y : x = InsertEntry(t, f) /\ y = InsertEntry(d, f)
  OBVIOUS
<1>2. PICK e \in Entry, z \in Nat : e = f /\ z = EntrySize(f)
  BY FieldIsEntry, EntrySizeType
<1>3. TableInv(t) /\ t.max \in Bounds
  BY DEF Agrees
<1>4. PICK a \in Nat, b \in Nat : a = t.max /\ b = d.max
  BY <1>3, CountIsSmall
<1>5. PICK s \in Seq(Entry), u \in Seq(Entry) : s = AsList(t) /\ u = AsList(d)
  BY <1>3, ListOfRing DEF TableInv, Accounted
<1>6. /\ TableInv(x) /\ x.max = a
      /\ AsList(x) = IF z > a THEN <<>> ELSE <<e>> \o List!Newest(s, a - z)
  BY <1>1, <1>2, <1>3, <1>4, <1>5, InsertEntryFacts, Zenon
<1>7. /\ TableInv(y) /\ y.max = b
      /\ AsList(y) = IF z > b THEN <<>> ELSE <<e>> \o List!Newest(u, b - z)
  BY <1>1, <1>2, <1>4, <1>5, InsertEntryFacts, Zenon
<1>8. /\ Starts(s, u) \/ Starts(u, s)
      /\ r # "shrunk" => Starts(s, u) /\ a <= b
      /\ r = "no" => t = d
  BY <1>4, <1>5, Zenon DEF Agrees
<1>9. PICK v \in Seq(Entry), w \in Seq(Entry) : v = AsList(x) /\ w = AsList(y)
  BY <1>6, <1>7, ListOfRing DEF TableInv, Accounted
<1>10. \A q \in Seq(Entry) : Starts(<<>>, q)
  BY DEF Starts
<1>11. CASE z > a
  <2>1. v = <<>>
    BY <1>6, <1>9, <1>11, Zenon
  <2>2. Starts(v, w)
    BY <1>10, <2>1
  <2> QED
    BY <1>1, <1>3, <1>4, <1>6, <1>7, <1>8, <1>9, <2>2, Zenon DEF Agrees
<1>12. CASE ~(z > a) /\ z > b
  <2>1. w = <<>> /\ ~(a <= b)
    BY <1>7, <1>9, <1>12
  <2>2. Starts(w, v)
    BY <1>10, <2>1
  <2> QED
    BY <1>1, <1>3, <1>4, <1>6, <1>7, <1>8, <1>9, <2>1, <2>2, Zenon DEF Agrees
<1>13. CASE ~(z > a) /\ ~(z > b)
  <2>1. PICK g \in Nat, h \in Nat : g = a - z /\ h = b - z /\ (a <= b => g <= h)
    <3>1. a - z \in Nat /\ b - z \in Nat /\ (a <= b => a - z <= b - z)
      BY <1>13
    <3> QED
      BY <3>1
  <2>2. PICK k, l : k = List!Newest(s, g) /\ l = List!Newest(u, h)
    OBVIOUS
  <2>3. v = <<e>> \o k /\ w = <<e>> \o l
    BY <1>6, <1>7, <1>9, <1>13, <2>1, <2>2, Zenon
  <2>4. /\ k \in Seq(Entry) /\ l \in Seq(Entry)
        /\ Starts(k, l) \/ Starts(l, k)
        /\ Starts(s, u) /\ a <= b => Starts(k, l)
    <3>1. CASE Starts(s, u)
      BY <2>1, <2>2, <3>1, NewestStarts
    <3>2. CASE Starts(u, s) /\ ~Starts(s, u)
      BY <2>1, <2>2, <3>2, NewestStarts
    <3> QED
      BY <1>8, <3>1, <3>2
  <2>5. /\ Starts(k, l) => Starts(v, w)
        /\ Starts(l, k) => Starts(w, v)
    BY <2>3, <2>4, StartsPushed
  <2>6. Starts(v, w) \/ Starts(w, v)
    BY <2>4, <2>5, Zenon
  <2>7. r # "shrunk" => Starts(v, w)
    BY <1>8, <2>4, <2>5, Zenon
  <2> QED
    BY <1>1, <1>3, <1>4, <1>6, <1>7, <1>8, <1>9, <2>6, <2>7, Zenon DEF Agrees
<1> QED
  BY <1>11, <1>12, <1>13

LEMMA AgreesSize ==
  ASSUME NEW t, NEW d, NEW r, Agrees(t, d, r), TableInv(d), NEW size \in Bounds
  PROVE  Agrees(SetMax(t, size), SetMax(d, size), r)
<1>1. PICK x, y : x = SetMax(t, size) /\ y = SetMax(d, size)
  OBVIOUS
<1>2. size \in Nat
  BY StringAssumption DEF Bounds
<1>3. TableInv(t)
  BY DEF Agrees
<1>4. PICK s \in Seq(Entry), u \in Seq(Entry) : s = AsList(t) /\ u = AsList(d)
  BY <1>3, ListOfRing DEF TableInv, Accounted
<1>5. PICK k, l : k = List!Newest(s, size) /\ l = List!Newest(u, size)
  OBVIOUS
<1>6. TableInv(x) /\ x.max = size /\ AsList(x) = k
  BY <1>1, <1>2, <1>3, <1>4, <1>5, SetMaxFacts, Zenon
<1>7. y.max = size /\ AsList(y) = l
  BY <1>1, <1>2, <1>4, <1>5, SetMaxFacts, Zenon
<1>8. /\ Starts(s, u) \/ Starts(u, s)
      /\ r # "shrunk" => Starts(s, u)
      /\ r = "no" => t = d
  BY <1>4, Zenon DEF Agrees
<1>9. size <= size
  BY <1>2
<1>10. /\ Starts(s, u) => Starts(k, l)
       /\ Starts(u, s) => Starts(l, k)
  BY <1>2, <1>5, <1>9, NewestStarts
<1> QED
  BY <1>1, <1>6, <1>7, <1>8, <1>9, <1>10, Zenon DEF Agrees

\* A size for one of them, as Announce has it.
Sized(e, size, r) ==
    CASE size < e.max -> "shrunk"
      [] size >= e.max /\ r = "no" -> "grown"
      [] OTHER -> r

LEMMA AgreesAnnounced ==
  ASSUME NEW e, NEW d, NEW r, Agrees(e, d, r), TableInv(d), NEW size \in Bounds
  PROVE  Agrees(e, SetMax(d, size), Sized(e, size, r))
<1>1. PICK y, q : y = SetMax(d, size) /\ q = Sized(e, size, r)
  OBVIOUS
<1>2. size \in Nat
  BY StringAssumption DEF Bounds
<1>3. TableInv(e) /\ e.max \in Bounds
  BY DEF Agrees
<1>4. PICK s \in Seq(Entry), u \in Seq(Entry) : s = AsList(e) /\ u = AsList(d)
  BY <1>3, ListOfRing DEF TableInv, Accounted
<1>5. PICK a \in Nat : a = e.max
  BY <1>3, CountIsSmall
<1>6. PICK l \in Seq(Entry) :
         /\ l = List!Newest(u, size) /\ Starts(l, u)
         /\ \A n \in 0..Len(u) : List!Total(u, n) <= size => n <= Len(l)
  BY <1>2, NewestFacts
<1>7. y.max = size /\ AsList(y) = l
  BY <1>1, <1>2, <1>4, <1>6, SetMaxFacts, Zenon
<1>8. /\ Starts(s, u) \/ Starts(u, s)
      /\ r # "shrunk" => Starts(s, u)
  BY <1>4, Zenon DEF Agrees
<1>9. Starts(s, l) \/ Starts(l, s)
  <2>1. CASE Starts(s, u)
    BY <1>6, <2>1, StartsCompare
  <2>2. CASE Starts(u, s)
    BY <1>6, <2>2, StartsTransitive
  <2> QED
    BY <1>8, <2>1, <2>2
<1>10. q = CASE size < a -> "shrunk"
             [] size >= a /\ r = "no" -> "grown"
             [] OTHER -> r
  BY <1>1, <1>5, Zenon DEF Sized
<1>11. CASE size < a
  <2>0. ~(size >= a)
    BY <1>2, <1>11
  <2>1. q = "shrunk"
    BY <1>10, <1>11, <2>0, Zenon
  <2>2. "shrunk" # "no"
    OBVIOUS
  <2> QED
    BY <1>1, <1>3, <1>4, <1>7, <1>9, <2>1, <2>2, Zenon DEF Agrees
<1>12. CASE ~(size < a)
  <2>1. a <= size /\ size >= a
    BY <1>2, <1>12
  <2>2. q # "no" /\ (q # "shrunk" => r # "shrunk")
    <3>1. CASE r = "no"
      <4>1. q = "grown"
        BY <1>10, <1>12, <2>1, <3>1, Zenon
      <4> QED
        BY <3>1, <4>1
    <3>2. CASE r # "no"
      <4>1. q = r
        BY <1>10, <1>12, <3>2, Zenon
      <4> QED
        BY <3>2, <4>1
    <3> QED
      BY <3>1, <3>2
  <2>3. ASSUME Starts(s, u) PROVE Starts(s, l)
    <3>1. PICK n \in Nat, k \in Nat, j \in Nat : n = Len(s) /\ k = Len(u) /\ j = Len(l)
      OBVIOUS
    <3>2. n <= k /\ \A i \in 1..n : s[i] = u[i]
      BY <2>3, <3>1 DEF Starts
    <3>3. PICK z \in Nat : z = List!Total(s, n) /\ z <= a
      <4>1. Accounted(e) /\ e.size <= e.max
        BY <1>3 DEF TableInv
      <4>2. e.size = List!Total(s, n) /\ e.size \in Nat
        BY <1>4, <3>1, <4>1, ListOfRing, SizeOfAccounted DEF Accounted
      <4> QED
        BY <1>5, <4>1, <4>2
    <3>4. List!Total(u, n) = z
      <4>0. n <= Len(s) /\ n <= Len(u) /\ \A i \in 1..n : s[i] = u[i]
        BY <3>1, <3>2
      <4>1. \A i \in 0..n : List!Total(s, i) = List!Total(u, i)
        BY <4>0, TotalOfPrefix, Zenon
      <4>2. n \in 0..n
        OBVIOUS
      <4> QED
        BY <3>3, <4>1, <4>2
    <3>5. List!Total(u, n) <= size /\ n \in 0..Len(u)
      BY <1>2, <2>1, <3>1, <3>2, <3>3, <3>4
    <3>6. n <= j
      BY <1>6, <3>1, <3>5
    <3>7. \A i \in 1..n : l[i] = s[i]
      BY <1>6, <3>1, <3>2, <3>6 DEF Starts
    <3> QED
      BY <3>1, <3>6, <3>7 DEF Starts
  <2>4. q # "shrunk" => Starts(s, l)
    BY <1>8, <2>2, <2>3, Zenon
  <2> QED
    BY <1>1, <1>3, <1>4, <1>5, <1>7, <1>9, <2>1, <2>2, <2>4, Zenon DEF Agrees
<1> QED
  BY <1>11, <1>12

\* An index of the table t, read in d: the same entry, or none if d was given a
\* smaller size.
Sees(t, d, r) ==
    \A i \in Nat : EntryIn(t, i) # NULL =>
        EntryIn(d, i) = EntryIn(t, i) \/ (EntryIn(d, i) = NULL /\ r = "shrunk")

LEMMA EntryOfList ==
  ASSUME NEW t, TableInv(t), NEW i \in Nat, i > StaticSize
  PROVE  LET k == i - StaticSize IN
         /\ Len(AsList(t)) < k => EntryIn(t, i) = NULL
         /\ k <= Len(AsList(t)) => EntryIn(t, i) = AsList(t)[k]
<1>1. PICK z \in Nat : z = StaticSize
  BY StringAssumption DEF StaticSize
<1>2. PICK n \in Nat : n = t.count
  BY CountIsSmall
<1>3. /\ Len(AsList(t)) = n /\ \A j \in 1..n : AsList(t)[j] = At(t, j - 1)
  BY <1>2, ListOfRing DEF TableInv, Accounted
<1>4. PICK k \in Nat : k = i - z /\ k >= 1 /\ i - z - 1 = k - 1
  <2>1. i - z \in Nat /\ i - z >= 1 /\ i - z - 1 = (i - z) - 1
    BY <1>1
  <2> QED
    BY <2>1
<1>5. i # 0 /\ i \notin 1..z /\ i > z
  BY <1>1
<1>6. ASSUME n < k PROVE EntryIn(t, i) = NULL
  <2>1. n <= k - 1
    BY <1>6
  <2>2. t.count <= i - StaticSize - 1 /\ i # 0 /\ i \notin 1..StaticSize /\ i > StaticSize
    BY <1>1, <1>2, <1>4, <1>5, <2>1, Zenon
  <2> QED
    BY <2>2, Zenon DEF EntryIn
<1>7. ASSUME k <= n PROVE EntryIn(t, i) = AsList(t)[k]
  <2>1. ~(n <= k - 1) /\ k \in 1..n
    BY <1>4, <1>7
  <2>2. ~(t.count <= i - StaticSize - 1) /\ i # 0 /\ i \notin 1..StaticSize /\ i - StaticSize - 1 = k - 1
    BY <1>1, <1>2, <1>4, <1>5, <2>1, Zenon
  <2>3. EntryIn(t, i) = At(t, i - StaticSize - 1)
    BY <2>2, Zenon DEF EntryIn
  <2> QED
    BY <1>3, <2>1, <2>2, <2>3, Zenon
<1> QED
  BY <1>1, <1>3, <1>4, <1>6, <1>7

LEMMA AgreesSees ==
  ASSUME NEW t, NEW d, NEW r, Agrees(t, d, r), TableInv(d)
  PROVE  Sees(t, d, r)
<1> SUFFICES ASSUME NEW i \in Nat, EntryIn(t, i) # NULL
             PROVE  EntryIn(d, i) = EntryIn(t, i) \/ (EntryIn(d, i) = NULL /\ r = "shrunk")
  BY DEF Sees
<1>1. PICK z \in Nat : z = StaticSize
  BY StringAssumption DEF StaticSize
<1>2. TableInv(t)
  BY DEF Agrees
<1>3. CASE ~(i > z)
  <2>1. i \in 1..z /\ i # 0
    <3>1. 0 \notin 1..StaticSize /\ ~(0 > StaticSize)
      BY <1>1
    <3>2. i # 0
      BY <3>1, Zenon DEF EntryIn
    <3> QED
      BY <1>3, <3>2
  <2>2. EntryIn(t, i) = StaticTable[i] /\ EntryIn(d, i) = StaticTable[i]
    BY <1>1, <2>1 DEF EntryIn
  <2> QED
    BY <2>2
<1>4. CASE i > z
  <2>1. PICK s \in Seq(Entry), u \in Seq(Entry) : s = AsList(t) /\ u = AsList(d)
    BY <1>2, ListOfRing DEF TableInv, Accounted
  <2>2. PICK n \in Nat, m \in Nat, k \in Nat : n = Len(s) /\ m = Len(u) /\ k = i - z /\ k >= 1
    <3>1. i - z \in Nat /\ i - z >= 1
      BY <1>4
    <3> QED
      BY <3>1
  <2>3. (n < k => EntryIn(t, i) = NULL) /\ (k <= n => EntryIn(t, i) = s[k])
    BY <1>1, <1>2, <1>4, <2>1, <2>2, EntryOfList
  <2>4. (m < k => EntryIn(d, i) = NULL) /\ (k <= m => EntryIn(d, i) = u[k])
    BY <1>1, <1>4, <2>1, <2>2, EntryOfList
  <2>5. k <= n
    BY <2>2, <2>3
  <2>6. CASE k <= m
    <3>1. u[k] = s[k]
      <4>1. Starts(s, u) \/ Starts(u, s)
        BY <2>1, Zenon DEF Agrees
      <4> QED
        BY <2>2, <2>5, <2>6, <4>1 DEF Starts
    <3> QED
      BY <2>3, <2>4, <2>5, <2>6, <3>1
  <2>7. CASE ~(k <= m)
    <3>1. m < k
      BY <2>7
    <3>2. ~Starts(s, u)
      BY <2>2, <2>5, <3>1 DEF Starts
    <3>3. r = "shrunk"
      BY <2>1, <3>2, Zenon DEF Agrees
    <3> QED
      BY <2>4, <3>1, <3>3
  <2> QED
    BY <2>6, <2>7
<1> QED
  BY <1>1, <1>3, <1>4

-----------------------------------------------------------------------------
(* What a representation stands for.                                       *)

\* A string as it is or Huffman coded.
Codes(s) == {Plain(s), Huffman(s)}

\* A literal, with its key or with the index of one.
Literal(code, flags, prefix, t, f) ==
    \/ \E ks \in Codes(f.key), vs \in Codes(f.value) : code = EncodeInt(flags, 0, prefix) \o ks \o vs
    \/ \E i \in Nat, vs \in Codes(f.value) :
          /\ i # 0 /\ i < NumberLimit /\ EntryIn(t, i) # NULL /\ EntryIn(t, i).key = f.key
          /\ code = EncodeInt(flags, i, prefix) \o vs

\* The code stands for the fields, under the table t, and makes the table u of it.
Stands(code, t, u, fields) ==
    \/ \E f \in Fields, i \in Nat :
          /\ fields = <<f>> /\ u = t
          /\ i < NumberLimit /\ EntryIn(t, i) = f /\ code = EncodeInt(128, i, 7)
    \/ \E f \in Fields : fields = <<f>> /\ u = InsertEntry(t, f) /\ Literal(code, 64, 6, t, f)
    \/ \E f \in Fields, flags \in {0, 16} : fields = <<f>> /\ u = t /\ Literal(code, flags, 4, t, f)
    \/ \E size \in UpdateSizes : fields = <<>> /\ u = SetMax(t, size) /\ code = EncodeInt(32, size, 5)

LEMMA ZeroIndex ==
  EncodeInt(64, 0, 6) = <<64>> /\ EncodeInt(16, 0, 4) = <<16>> /\ EncodeInt(0, 0, 4) = <<0>>
<1>1. 0 < Mask(6) /\ 0 < Mask(4) /\ 64 + 0 = 64 /\ 16 + 0 = 16 /\ 0 + 0 = 0
  BY MaskValues
<1>2. ASSUME NEW flags, NEW prefix, 0 < Mask(prefix)
      PROVE  EncodeInt(flags, 0, prefix) = <<flags + 0>>
  <2> DEFINE Is(r) == r = [v \in Nat |-> IF v >= 128 THEN <<128 + (v % 128)>> \o r[v \div 128] ELSE <<v>>]
             rest == CHOOSE r : Is(r)
  <2>1. EncodeInt(flags, 0, prefix) = IF 0 < Mask(prefix) THEN <<flags + 0>>
                                      ELSE <<flags + Mask(prefix)>> \o rest[0 - Mask(prefix)]
    BY DEF EncodeInt
  <2> HIDE DEF rest
  <2> QED
    BY <1>2, <2>1, Zenon
<1>3. /\ EncodeInt(64, 0, 6) = <<64 + 0>> /\ EncodeInt(16, 0, 4) = <<16 + 0>>
      /\ EncodeInt(0, 0, 4) = <<0 + 0>>
  BY <1>1, <1>2, Zenon
<1> QED
  BY <1>3

\* Both variants, whatever the use of the Huffman coding.
LEMMA LiteralWritten ==
  ASSUME NEW f \in Fields, NEW t, NEW i \in Nat, i # 0, i < NumberLimit, EntryIn(t, i) # NULL,
         EntryIn(t, i).key = f.key, NEW usage
  PROVE  /\ Literal(Incremental1(i, f, usage), 64, 6, t, f)
         /\ Literal(NeverIndexed1(i, f, usage), 16, 4, t, f)
<1>1. \A flags, prefix : \A vs \in Codes(f.value) :
         Literal(EncodeInt(flags, i, prefix) \o vs, flags, prefix, t, f)
  BY Zenon DEF Literal
<1>2. Plain(f.value) \in Codes(f.value) /\ Huffman(f.value) \in Codes(f.value)
  BY DEF Codes
<1>3. /\ Literal(Incremental1Plain(i, f), 64, 6, t, f) /\ Literal(Incremental1Huffman(i, f), 64, 6, t, f)
      /\ Literal(NeverIndexed1Plain(i, f), 16, 4, t, f) /\ Literal(NeverIndexed1Huffman(i, f), 16, 4, t, f)
  BY <1>1, <1>2, Zenon DEF Incremental1Plain, Incremental1Huffman, NeverIndexed1Plain, NeverIndexed1Huffman
<1> QED
  BY <1>3, Zenon DEF Incremental1, NeverIndexed1

LEMMA LiteralKeyWritten ==
  ASSUME NEW f \in Fields, NEW t, NEW usage
  PROVE  /\ Literal(Incremental2(f, usage), 64, 6, t, f)
         /\ Literal(NeverIndexed2(f, usage), 16, 4, t, f)
         /\ Literal(<<0>> \o Plain(f.key) \o Plain(f.value), 0, 4, t, f)
<1>1. \A flags, prefix : \A ks \in Codes(f.key), vs \in Codes(f.value) :
         Literal(EncodeInt(flags, 0, prefix) \o ks \o vs, flags, prefix, t, f)
  BY Zenon DEF Literal
<1>2. /\ Plain(f.value) \in Codes(f.value) /\ Huffman(f.value) \in Codes(f.value)
      /\ Plain(f.key) \in Codes(f.key) /\ Huffman(f.key) \in Codes(f.key)
  BY DEF Codes
<1>3. /\ Literal(Incremental2Plain(f), 64, 6, t, f) /\ Literal(Incremental2Huffman(f), 64, 6, t, f)
      /\ Literal(NeverIndexed2Plain(f), 16, 4, t, f) /\ Literal(NeverIndexed2Huffman(f), 16, 4, t, f)
      /\ Literal(<<0>> \o Plain(f.key) \o Plain(f.value), 0, 4, t, f)
  BY <1>1, <1>2, ZeroIndex, Zenon DEF Incremental2Plain, Incremental2Huffman, NeverIndexed2Plain, NeverIndexed2Huffman
<1> QED
  BY <1>3, Zenon DEF Incremental2, NeverIndexed2

LEMMA FieldWritten ==
  ASSUME NEW f \in Fields, NEW options, TableInv(enc), enc.max \in Bounds
  PROVE  LET code == EncodeField(f, options) IN
         Stands(code.data, enc, IF code.add THEN InsertEntry(enc, f) ELSE enc, <<f>>)
<1> DEFINE found == FindInTables(f, options.type = "AllTables")
           add == ShouldAdd(f, options.add)
           x == EncodeExtended(f, options)
           code == EncodeField(f, options)
           Fine(c) == Stands(c.data, enc, IF c.add THEN InsertEntry(enc, f) ELSE enc, <<f>>)
<1>1. /\ found.type \in {"AllFound", "KeyFound"} =>
            /\ found.index \in Nat /\ found.index # 0 /\ found.index < NumberLimit
            /\ EntryIn(enc, found.index) # NULL /\ EntryIn(enc, found.index).key = f.key
      /\ found.type = "AllFound" => EntryIn(enc, found.index) = f
  BY FoundEntry
<1>2. x = CASE found.type = "AllFound" -> [data |-> Indexed(found.index), add |-> FALSE]
            [] found.type = "KeyFound" ->
                  [add |-> add,
                   data |-> IF add THEN Incremental1(found.index, f, options.huffman)
                            ELSE NeverIndexed1(found.index, f, options.huffman)]
            [] OTHER ->
                  [add |-> add,
                   data |-> IF add THEN Incremental2(f, options.huffman)
                            ELSE NeverIndexed2(f, options.huffman)]
  BY DEF EncodeExtended
<1>3. code = IF options.type = "NoTable"
        THEN [data |-> NeverIndexed2(f, options.huffman), add |-> FALSE] ELSE x
  BY DEF EncodeField
<1>4. add \in BOOLEAN
  BY DEF ShouldAdd
<1> HIDE DEF found, add, x, code
<1>5. \A c, d : c = [data |-> d, add |-> FALSE] /\ Stands(d, enc, enc, <<f>>) => Fine(c)
  <2> SUFFICES ASSUME NEW c, NEW d, c = [data |-> d, add |-> FALSE], Stands(d, enc, enc, <<f>>)
               PROVE  Fine(c)
    OBVIOUS
  <2>1. c.data = d /\ ~c.add
    OBVIOUS
  <2> QED
    BY <2>1, Zenon
<1>6. \A c, d : c = [add |-> TRUE, data |-> d] /\ Stands(d, enc, InsertEntry(enc, f), <<f>>) => Fine(c)
  <2> SUFFICES ASSUME NEW c, NEW d, c = [add |-> TRUE, data |-> d],
                      Stands(d, enc, InsertEntry(enc, f), <<f>>)
               PROVE  Fine(c)
    OBVIOUS
  <2>1. c.data = d /\ c.add
    OBVIOUS
  <2> QED
    BY <2>1, Zenon
<1>7. \A c, d : c = [add |-> FALSE, data |-> d] /\ Stands(d, enc, enc, <<f>>) => Fine(c)
  <2> SUFFICES ASSUME NEW c, NEW d, c = [add |-> FALSE, data |-> d], Stands(d, enc, enc, <<f>>)
               PROVE  Fine(c)
    OBVIOUS
  <2>1. c.data = d /\ ~c.add
    OBVIOUS
  <2> QED
    BY <2>1, Zenon
<1> HIDE DEF Fine
<1>8. /\ \A d : Literal(d, 64, 6, enc, f) => Stands(d, enc, InsertEntry(enc, f), <<f>>)
      /\ \A d : Literal(d, 16, 4, enc, f) => Stands(d, enc, enc, <<f>>)
  <2>1. 16 \in {0, 16}
    OBVIOUS
  <2> QED
    BY <2>1, Zenon DEF Stands
<1>9. /\ Stands(Incremental2(f, options.huffman), enc, InsertEntry(enc, f), <<f>>)
      /\ Stands(NeverIndexed2(f, options.huffman), enc, enc, <<f>>)
  BY <1>8, LiteralKeyWritten, Zenon
<1>10. Fine(x)
  <2>1. CASE found.type = "AllFound"
    <3>1. x = [data |-> Indexed(found.index), add |-> FALSE]
      BY <1>2, <2>1, Zenon
    <3>2. Stands(Indexed(found.index), enc, enc, <<f>>)
      BY <1>1, <2>1, Zenon DEF Stands, Indexed
    <3> QED
      BY <1>5, <3>1, <3>2, Zenon
  <2>2. CASE found.type = "KeyFound"
    <3>1. found.type # "AllFound"
      BY <2>2
    <3>2. x = [add |-> add,
               data |-> IF add THEN Incremental1(found.index, f, options.huffman)
                        ELSE NeverIndexed1(found.index, f, options.huffman)]
      BY <1>2, <2>2, <3>1, Zenon
    <3>3. /\ Stands(Incremental1(found.index, f, options.huffman), enc, InsertEntry(enc, f), <<f>>)
          /\ Stands(NeverIndexed1(found.index, f, options.huffman), enc, enc, <<f>>)
      BY <1>1, <1>8, <2>2, LiteralWritten, Zenon
    <3>4. CASE add
      <4>1. x = [add |-> TRUE, data |-> Incremental1(found.index, f, options.huffman)]
        BY <1>4, <3>2, <3>4
      <4> QED
        BY <1>6, <3>3, <4>1, Zenon
    <3>5. CASE ~add
      <4>1. x = [add |-> FALSE, data |-> NeverIndexed1(found.index, f, options.huffman)]
        BY <1>4, <3>2, <3>5
      <4> QED
        BY <1>7, <3>3, <4>1, Zenon
    <3> QED
      BY <3>4, <3>5
  <2>3. CASE found.type # "AllFound" /\ found.type # "KeyFound"
    <3>2. x = [add |-> add,
               data |-> IF add THEN Incremental2(f, options.huffman)
                        ELSE NeverIndexed2(f, options.huffman)]
      BY <1>2, <2>3, Zenon
    <3>4. CASE add
      <4>1. x = [add |-> TRUE, data |-> Incremental2(f, options.huffman)]
        BY <1>4, <3>2, <3>4
      <4> QED
        BY <1>6, <1>9, <4>1, Zenon
    <3>5. CASE ~add
      <4>1. x = [add |-> FALSE, data |-> NeverIndexed2(f, options.huffman)]
        BY <1>4, <3>2, <3>5
      <4> QED
        BY <1>7, <1>9, <4>1, Zenon
    <3> QED
      BY <3>4, <3>5
  <2> QED
    BY <2>1, <2>2, <2>3
<1>11. Fine(code)
  <2>1. CASE options.type = "NoTable"
    BY <1>3, <1>5, <1>9, <2>1, Zenon
  <2>2. CASE options.type # "NoTable"
    BY <1>3, <1>10, <2>2, Zenon
  <2> QED
    BY <2>1, <2>2
<1> QED
  BY <1>11, Zenon DEF Fine, code

-----------------------------------------------------------------------------
(* From the place that has been read to the end of what has been written.  *)

\* A place: the table there, the position in the block, the fields before it.
Mark(t, p, n) == [table |-> t, pos |-> p, count |-> n]

\* One representation leads from a to b.
Follows(data, sent, a, b) ==
    /\ a.pos \in Nat /\ a.count \in Nat
    /\ \E code \in Seq(Octets), fields \in Seq(Fields) :
          /\ Stands(code, a.table, b.table, fields)
          /\ Lies(code, data, a.pos) /\ Lies(fields, sent, a.count)
          /\ b = Mark(b.table, a.pos + Len(code), a.count + Len(fields))

\* Any number of them do.
Path(data, sent, a, b) ==
    \E n \in Nat : \E M : /\ M[0] = a /\ M[n] = b
                          /\ \A i \in 0..(n - 1) : Follows(data, sent, M[i], M[i + 1])

LEMMA PathStays ==
  ASSUME NEW data, NEW sent, NEW a
  PROVE  Path(data, sent, a, a)
<1> DEFINE M == [i \in 0..0 |-> a]
<1>1. M[0] = a
  OBVIOUS
<1>2. 0 \in Nat /\ \A i \in 0..(0 - 1) : FALSE
  OBVIOUS
<1> HIDE DEF M
<1> QED
  BY <1>1, <1>2, Zenon DEF Path

\* More that is written does not touch the path.
LEMMA PathOn ==
  ASSUME NEW data \in Seq(Octets), NEW sent \in Seq(Fields), NEW d \in Seq(Octets), NEW s \in Seq(Fields),
         NEW a, NEW b, Path(data, sent, a, b)
  PROVE  Path(data \o d, sent \o s, a, b)
<1>1. ASSUME NEW x, NEW y, Follows(data, sent, x, y) PROVE Follows(data \o d, sent \o s, x, y)
  <2>1. x.pos \in Nat /\ x.count \in Nat
    BY <1>1 DEF Follows
  <2>2. PICK code \in Seq(Octets), fields \in Seq(Fields) :
          /\ Stands(code, x.table, y.table, fields)
          /\ Lies(code, data, x.pos) /\ Lies(fields, sent, x.count)
          /\ y = Mark(y.table, x.pos + Len(code), x.count + Len(fields))
    BY <1>1, Zenon DEF Follows
  <2>3. Lies(code, data \o d, x.pos)
    BY <2>1, <2>2, LiesOn, Zenon
  <2>4. Lies(fields, sent \o s, x.count)
    BY <2>1, <2>2, LiesOn, Zenon
  <2> QED
    BY <2>1, <2>2, <2>3, <2>4, Zenon DEF Follows
<1>2. PICK n \in Nat : \E M : /\ M[0] = a /\ M[n] = b
                              /\ \A i \in 0..(n - 1) : Follows(data, sent, M[i], M[i + 1])
  BY Zenon DEF Path
<1> QED
  BY <1>1, <1>2, Zenon DEF Path

LEMMA PathThen ==
  ASSUME NEW data, NEW sent, NEW a, NEW b, NEW c, Path(data, sent, a, b), Follows(data, sent, b, c)
  PROVE  Path(data, sent, a, c)
<1>1. PICK n \in Nat : \E M : /\ M[0] = a /\ M[n] = b
                              /\ \A i \in 0..(n - 1) : Follows(data, sent, M[i], M[i + 1])
  BY Zenon DEF Path
<1>2. PICK M : /\ M[0] = a /\ M[n] = b
               /\ \A i \in 0..(n - 1) : Follows(data, sent, M[i], M[i + 1])
  BY <1>1, Zenon
<1> DEFINE N == [i \in 0..(n + 1) |-> IF i <= n THEN M[i] ELSE c]
<1>3. n + 1 \in Nat /\ N[0] = a /\ N[n + 1] = c
  BY <1>2
<1>4. ASSUME NEW i \in 0..((n + 1) - 1) PROVE Follows(data, sent, N[i], N[i + 1])
  <2>1. CASE i < n
    <3>1. i \in 0..(n - 1) /\ N[i] = M[i] /\ N[i + 1] = M[i + 1]
      BY <2>1
    <3> HIDE DEF N
    <3> QED
      BY <1>2, <3>1
  <2>2. CASE ~(i < n)
    <3>1. i = n /\ N[i] = M[n] /\ N[i + 1] = c
      BY <2>2
    <3> HIDE DEF N
    <3> QED
      BY <1>2, <3>1
  <2> QED
    BY <2>1, <2>2
<1> HIDE DEF N
<1> QED
  BY <1>3, <1>4, Zenon DEF Path

LEMMA PathSplit ==
  ASSUME NEW data, NEW sent, NEW a, NEW b, Path(data, sent, a, b)
  PROVE  a = b \/ \E c : Follows(data, sent, a, c) /\ Path(data, sent, c, b)
<1>1. PICK n \in Nat : \E M : /\ M[0] = a /\ M[n] = b
                              /\ \A i \in 0..(n - 1) : Follows(data, sent, M[i], M[i + 1])
  BY Zenon DEF Path
<1>2. PICK M : /\ M[0] = a /\ M[n] = b
               /\ \A i \in 0..(n - 1) : Follows(data, sent, M[i], M[i + 1])
  BY <1>1, Zenon
<1>3. CASE n = 0
  BY <1>2, <1>3
<1>4. CASE n # 0
  <2>1. PICK m \in Nat : m = n - 1 /\ n = m + 1
    <3>1. n - 1 \in Nat /\ n = (n - 1) + 1
      BY <1>4
    <3> QED
      BY <3>1
  <2>2. Follows(data, sent, a, M[1])
    <3>1. 0 \in 0..(n - 1) /\ 0 + 1 = 1
      BY <1>4
    <3> QED
      BY <1>2, <3>1
  <2> DEFINE N == [i \in 0..m |-> M[i + 1]]
  <2>3. N[0] = M[1] /\ N[m] = b
    BY <1>2, <2>1
  <2>4. ASSUME NEW i \in 0..(m - 1) PROVE Follows(data, sent, N[i], N[i + 1])
    <3>1. i + 1 \in 0..(n - 1) /\ N[i] = M[i + 1] /\ N[i + 1] = M[(i + 1) + 1]
      BY <2>1
    <3> HIDE DEF N
    <3> QED
      BY <1>2, <3>1
  <2> HIDE DEF N
  <2>5. Path(data, sent, M[1], b)
    BY <2>3, <2>4, Zenon DEF Path
  <2> QED
    BY <2>2, <2>5
<1> QED
  BY <1>3, <1>4

-----------------------------------------------------------------------------
(* What stands for a field is read as it.                                  *)

\* A field that has to be read: its strings fit into the memory for them, its
\* value is not an empty one at the end of a block, and no entry can be missing.
Must(f, open, h) ==
    h # "shrunk" /\ Fits(f.key) /\ Fits(f.value) /\ (f.value # <<>> \/ open)

LEMMA StringRead ==
  ASSUME NEW data \in Seq(Octets), NEW pos \in Nat, NEW s \in Text, Len(s) < NumberLimit,
         EncodedSize(s) < NumberLimit, NEW c \in Codes(s), Lies(c, data, pos)
  PROVE  /\ c \in Seq(Octets) /\ Len(c) >= 1
         /\ ReadsString(DecodeString(data, pos), s, pos + Len(c),
                        (s # <<>> \/ pos + Len(c) < Len(data)) /\ Fits(s))
<1>1. CASE c = Plain(s)
  <2>1. /\ c \in Seq(Octets) /\ Len(c) >= 1
        /\ ReadsString(DecodeString(data, pos), s, pos + Len(c), s # <<>> \/ pos + Len(c) < Len(data))
    BY <1>1, PlainRead, Zenon
  <2> QED
    BY <2>1, Zenon DEF ReadsString
<1>2. CASE c = Huffman(s)
  BY <1>2, HuffmanStringRead, Zenon
<1> QED
  BY <1>1, <1>2 DEF Codes

\* LiteralKey, of any block and table.
KeyAt(data, pos, t, prefix) ==
    LET index == DecodeInt(data, pos, prefix)
        entry == EntryIn(t, index.value)
    IN  CASE ~index.ok -> [ok |-> FALSE, value |-> <<>>, pos |-> NULL]
          [] index.ok /\ index.value = 0 -> DecodeString(data, index.pos)
          [] index.ok /\ index.value # 0 /\ entry = NULL ->
                [ok |-> FALSE, value |-> <<>>, pos |-> NULL]
          [] OTHER -> [ok |-> TRUE, value |-> entry.key, pos |-> index.pos]

KeyIs(data, pos, t, prefix, l, v, p) ==
    LET k == KeyAt(data, pos, t, prefix)
    IN  /\ ~l => k = [ok |-> FALSE, value |-> <<>>, pos |-> NULL]
        /\ l /\ v = 0 => k = DecodeString(data, p)
        /\ l /\ v # 0 /\ EntryIn(t, v) = NULL => k = [ok |-> FALSE, value |-> <<>>, pos |-> NULL]
        /\ l /\ v # 0 /\ EntryIn(t, v) # NULL => k = [ok |-> TRUE, value |-> EntryIn(t, v).key, pos |-> p]

LEMMA KeyCases ==
  ASSUME NEW data, NEW pos, NEW t, NEW prefix, NEW l, NEW v, NEW p,
         DecodeInt(data, pos, prefix) = [ok |-> l, value |-> v, pos |-> p]
  PROVE  KeyIs(data, pos, t, prefix, l, v, p)
<1>1. PICK i : i = DecodeInt(data, pos, prefix) /\ i.ok = l /\ i.value = v /\ i.pos = p
  OBVIOUS
<1> DEFINE k == KeyAt(data, pos, t, prefix)
           entry == EntryIn(t, i.value)
<1>2. k = CASE ~i.ok -> [ok |-> FALSE, value |-> <<>>, pos |-> NULL]
            [] i.ok /\ i.value = 0 -> DecodeString(data, i.pos)
            [] i.ok /\ i.value # 0 /\ entry = NULL -> [ok |-> FALSE, value |-> <<>>, pos |-> NULL]
            [] OTHER -> [ok |-> TRUE, value |-> entry.key, pos |-> i.pos]
  BY <1>1, Zenon DEF KeyAt
<1> HIDE DEF k
<1>3. ~i.ok => k = [ok |-> FALSE, value |-> <<>>, pos |-> NULL]
  BY <1>2, Zenon
<1>4. i.ok /\ i.value = 0 => k = DecodeString(data, i.pos)
  BY <1>2, Zenon
<1>5. i.ok /\ i.value # 0 /\ entry = NULL => k = [ok |-> FALSE, value |-> <<>>, pos |-> NULL]
  BY <1>2, Zenon
<1>6. i.ok /\ i.value # 0 /\ entry # NULL => k = [ok |-> TRUE, value |-> entry.key, pos |-> i.pos]
  BY <1>2, Zenon
<1> QED
  BY <1>1, <1>3, <1>4, <1>5, <1>6, Zenon DEF KeyIs, k

\* The field comes out, or it is refused where it need not be read.
LiteralIsRead(key, value, f, pos, must) ==
    /\ key.ok \in BOOLEAN /\ (key.ok => value.ok \in BOOLEAN)
    /\ key.ok => key.value = f.key
    /\ key.ok /\ value.ok => value.value = f.value /\ value.pos = pos
    /\ must => key.ok /\ value.ok

LEMMA LiteralRead ==
  ASSUME NEW data \in Seq(Octets), NEW pos \in Nat, NEW t, NEW d, NEW h, Sees(t, d, h), NEW flags, NEW prefix, Prefixed(flags, prefix),
         NEW f \in Fields, NEW code \in Seq(Octets), Literal(code, flags, prefix, t, f), Lies(code, data, pos)
  PROVE  LET key == KeyAt(data, pos, d, prefix) IN
         /\ pos < Len(data) /\ data[pos + 1] \in flags..(flags + Mask(prefix))
         /\ LiteralIsRead(key, DecodeString(data, key.pos), f, pos + Len(code),
                          Must(f, pos + Len(code) < Len(data), h))
<1> DEFINE key == KeyAt(data, pos, d, prefix)
           must == Must(f, pos + Len(code) < Len(data), h)
<1>1. /\ f.key \in Text /\ f.value \in Text
      /\ Len(f.key) < NumberLimit /\ EncodedSize(f.key) < NumberLimit
      /\ Len(f.value) < NumberLimit /\ EncodedSize(f.value) < NumberLimit
  BY FieldFacts
<1>2. \A s \in Text : \A c \in Codes(s) : c \in Seq(Octets)
  BY PlainType, HuffmanType DEF Codes
<1>3. \A n \in Nat : EncodeInt(flags, n, prefix) \in Seq(Octets)
  BY EncodeIntTypes, Zenon DEF Prefixed
<1>4. must => /\ h # "shrunk" /\ Fits(f.key) /\ Fits(f.value)
              /\ f.value # <<>> \/ pos + Len(code) < Len(data)
  BY DEF Must
<1> HIDE DEF must
<1>5. ASSUME NEW i \in Nat, i < NumberLimit, NEW rest \in Seq(Octets),
             Lies(EncodeInt(flags, i, prefix) \o rest, data, pos)
      PROVE  \E p \in Nat :
               /\ p = pos + Len(EncodeInt(flags, i, prefix)) /\ Lies(rest, data, p)
               /\ pos < Len(data) /\ data[pos + 1] \in flags..(flags + Mask(prefix))
               /\ DecodeInt(data, pos, prefix) = [ok |-> TRUE, value |-> i, pos |-> p]
  <2>1. PICK e \in Seq(Octets) : e = EncodeInt(flags, i, prefix)
    BY <1>3
  <2>2. Lies(e, data, pos) /\ Lies(rest, data, pos + Len(e))
    <3>1. Lies(e \o rest, data, pos)
      BY <1>5, <2>1, Zenon
    <3>2. Lies(e \o rest, data, pos) <=> Lies(e, data, pos) /\ Lies(rest, data, pos + Len(e))
      BY LiesConcat
    <3> QED
      BY <3>1, <3>2, Zenon
  <2>3. NumberIsRead(data, pos, flags, i, prefix)
    BY <1>5, <2>1, <2>2, NumberReads, Zenon
  <2>4. /\ DecodeInt(data, pos, prefix) = [ok |-> TRUE, value |-> i, pos |-> pos + Len(e)]
        /\ Len(e) \in Nat \ {0} /\ pos + Len(e) <= Len(data) /\ data[pos + 1] \in flags..(flags + Mask(prefix))
    BY <2>1, <2>3, Zenon DEF NumberIsRead
  <2>5. pos + Len(e) \in Nat /\ pos < Len(data)
    BY <2>4
  <2> QED
    BY <2>1, <2>2, <2>4, <2>5, Zenon
<1>6. CASE \E ks \in Codes(f.key), vs \in Codes(f.value) : code = EncodeInt(flags, 0, prefix) \o ks \o vs
  <2>1. PICK ks \in Codes(f.key), vs \in Codes(f.value) : code = EncodeInt(flags, 0, prefix) \o ks \o vs
    BY <1>6
  <2>2. PICK e \in Seq(Octets), m \in Nat : e = EncodeInt(flags, 0, prefix) /\ m = Len(e)
    <3>1. 0 \in Nat /\ \A x \in Seq(Octets) : Len(x) \in Nat
      OBVIOUS
    <3> QED
      BY <1>3, <3>1, Zenon
  <2>3. ks \in Seq(Octets) /\ vs \in Seq(Octets)
    BY <1>1, <1>2, Zenon
  <2>4. PICK k \in Nat, v \in Nat : k = Len(ks) /\ v = Len(vs)
    BY <2>3
  <2>5. Lies(e \o ks, data, pos) /\ Lies(vs, data, (pos + m) + k) /\ Len(code) = m + k + v
    <3>1. e \o ks \in Seq(Octets) /\ Len(e \o ks) = Len(e) + Len(ks)
      BY <2>3
    <3>2. Lies((e \o ks) \o vs, data, pos)
      BY <2>1, <2>2, Zenon
    <3>3. Lies((e \o ks) \o vs, data, pos) <=> Lies(e \o ks, data, pos) /\ Lies(vs, data, pos + Len(e \o ks))
      BY <2>3, <3>1, LiesConcat
    <3>4. pos + Len(e \o ks) = (pos + m) + k
      BY <2>2, <2>4, <3>1
    <3>5. Len((e \o ks) \o vs) = Len(e \o ks) + Len(vs)
      BY <2>3, <3>1
    <3>6. Len(code) = Len(e \o ks) + Len(vs)
      BY <2>1, <2>2, <3>5, Zenon
    <3> QED
      BY <2>2, <2>4, <3>1, <3>2, <3>3, <3>4, <3>6
  <2>6. PICK p \in Nat :
           /\ p = pos + m /\ Lies(ks, data, p)
           /\ pos < Len(data) /\ data[pos + 1] \in flags..(flags + Mask(prefix))
           /\ DecodeInt(data, pos, prefix) = [ok |-> TRUE, value |-> 0, pos |-> p]
    <3>1. 0 < NumberLimit /\ 0 \in Nat
      BY DEF NumberLimit
    <3> QED
      BY <1>5, <2>2, <2>3, <2>5, <3>1, Zenon
  <2>7. key = DecodeString(data, p)
    <3>1. KeyIs(data, pos, d, prefix, TRUE, 0, p)
      BY <2>6, KeyCases, Zenon
    <3> QED
      BY <3>1, Zenon DEF KeyIs
  <2>8. ReadsString(key, f.key, p + k, (f.key # <<>> \/ p + k < Len(data)) /\ Fits(f.key))
    BY <1>1, <2>4, <2>6, <2>7, StringRead, Zenon
  <2>9. PICK r \in Nat : r = p + k /\ Lies(vs, data, r) /\ r + v = pos + Len(code)
    <3>1. p + k \in Nat /\ p + k = (pos + m) + k /\ (p + k) + v = pos + Len(code)
      BY <2>4, <2>5, <2>6
    <3> QED
      BY <2>5, <3>1, Zenon
  <2>10. /\ v >= 1
         /\ ReadsString(DecodeString(data, r), f.value, r + v, (f.value # <<>> \/ r + v < Len(data)) /\ Fits(f.value))
    BY <1>1, <2>4, <2>9, StringRead, Zenon
  <2>11. p + k < Len(data)
    <3>1. r + v <= Len(data)
      BY <2>4, <2>9 DEF Lies
    <3> QED
      BY <2>9, <2>10, <3>1
  <2> DEFINE value == DecodeString(data, key.pos)
  <2>12. key.ok => key.pos = r /\ key.value = f.key
    BY <2>8, <2>9, Zenon DEF ReadsString
  <2>13. key.ok \in BOOLEAN /\ (Fits(f.key) => key.ok)
    BY <2>8, <2>11, Zenon DEF ReadsString
  <2>14. key.ok => /\ value.ok \in BOOLEAN
                   /\ value.ok => value.value = f.value /\ value.pos = pos + Len(code)
                   /\ (f.value # <<>> \/ pos + Len(code) < Len(data)) /\ Fits(f.value) => value.ok
    BY <2>9, <2>10, <2>12, Zenon DEF ReadsString
  <2>15. LiteralIsRead(key, value, f, pos + Len(code), must)
    BY <1>4, <2>12, <2>13, <2>14, Zenon DEF LiteralIsRead
  <2> QED
    BY <2>6, <2>15, Zenon DEF must
<1>7. CASE \E i \in Nat, vs \in Codes(f.value) :
          /\ i # 0 /\ i < NumberLimit /\ EntryIn(t, i) # NULL /\ EntryIn(t, i).key = f.key
          /\ code = EncodeInt(flags, i, prefix) \o vs
  <2>1. PICK i \in Nat, vs \in Codes(f.value) :
          /\ i # 0 /\ i < NumberLimit /\ EntryIn(t, i) # NULL /\ EntryIn(t, i).key = f.key
          /\ code = EncodeInt(flags, i, prefix) \o vs
    BY <1>7
  <2>2. PICK e \in Seq(Octets), m \in Nat : e = EncodeInt(flags, i, prefix) /\ m = Len(e)
    <3>1. \A x \in Seq(Octets) : Len(x) \in Nat
      OBVIOUS
    <3> QED
      BY <1>3, <3>1, Zenon
  <2>3. vs \in Seq(Octets)
    BY <1>1, <1>2, Zenon
  <2>4. PICK v \in Nat : v = Len(vs)
    BY <2>3
  <2>5. Lies(e \o vs, data, pos) /\ Len(code) = m + v
    <3>1. Len(e \o vs) = Len(e) + Len(vs)
      BY <2>3
    <3> QED
      BY <2>1, <2>2, <2>4, <3>1, Zenon
  <2>6. PICK p \in Nat :
           /\ p = pos + m /\ Lies(vs, data, p)
           /\ pos < Len(data) /\ data[pos + 1] \in flags..(flags + Mask(prefix))
           /\ DecodeInt(data, pos, prefix) = [ok |-> TRUE, value |-> i, pos |-> p]
    BY <1>5, <2>1, <2>2, <2>3, <2>5, Zenon
  <2>7. KeyIs(data, pos, d, prefix, TRUE, i, p)
    BY <2>6, KeyCases, Zenon
  <2> DEFINE value == DecodeString(data, key.pos)
  <2>8. CASE EntryIn(d, i) = EntryIn(t, i)
    <3>1. key = [ok |-> TRUE, value |-> EntryIn(t, i).key, pos |-> p]
      BY <2>1, <2>7, <2>8, Zenon DEF KeyIs
    <3>2. key.ok /\ key.ok \in BOOLEAN /\ key.value = f.key /\ key.pos = p
      BY <2>1, <3>1
    <3>3. ReadsString(DecodeString(data, p), f.value, p + v, (f.value # <<>> \/ p + v < Len(data)) /\ Fits(f.value))
      BY <1>1, <2>4, <2>6, StringRead, Zenon
    <3>4. p + v = pos + Len(code)
      BY <2>5, <2>6
    <3>5. /\ value.ok \in BOOLEAN
          /\ value.ok => value.value = f.value /\ value.pos = pos + Len(code)
          /\ (f.value # <<>> \/ pos + Len(code) < Len(data)) /\ Fits(f.value) => value.ok
      BY <3>2, <3>3, <3>4, Zenon DEF ReadsString
    <3>6. LiteralIsRead(key, value, f, pos + Len(code), must)
      BY <1>4, <3>2, <3>5, Zenon DEF LiteralIsRead
    <3> QED
      BY <2>6, <3>6, Zenon DEF must
  <2>9. CASE EntryIn(d, i) = NULL /\ h = "shrunk"
    <3>1. key = [ok |-> FALSE, value |-> <<>>, pos |-> NULL]
      BY <2>1, <2>7, <2>9, Zenon DEF KeyIs
    <3>2. key.ok = FALSE
      BY <3>1
    <3>3. LiteralIsRead(key, value, f, pos + Len(code), must)
      BY <1>4, <2>9, <3>2, Zenon DEF LiteralIsRead
    <3> QED
      BY <2>6, <3>3, Zenon DEF must
  <2>10. EntryIn(d, i) = EntryIn(t, i) \/ (EntryIn(d, i) = NULL /\ h = "shrunk")
    BY <2>1, Zenon DEF Sees
  <2> QED
    BY <2>8, <2>9, <2>10
<1> QED
  BY <1>6, <1>7, Zenon DEF Literal

-----------------------------------------------------------------------------
(* Each parser, where a representation lies.                               *)

\* The first octets of each representation.
IndexedOctets == 128..255
IncrementalOctets == 64..127
UpdateOctets == 32..63
OtherOctets == 0..31

LEMMA OctetsApart ==
  \A x : /\ x \in IndexedOctets => x \notin IncrementalOctets /\ x \notin UpdateOctets /\ x \notin OtherOctets
         /\ x \in IncrementalOctets => x \notin IndexedOctets /\ x \notin UpdateOctets /\ x \notin OtherOctets
         /\ x \in UpdateOctets => x \notin IndexedOctets /\ x \notin IncrementalOctets /\ x \notin OtherOctets
         /\ x \in OtherOctets => x \notin IndexedOctets /\ x \notin IncrementalOctets /\ x \notin UpdateOctets
BY DEF IndexedOctets, IncrementalOctets, UpdateOctets, OtherOctets

\* What the parser that the first octet chooses makes of it with the table d,
\* where the table t was written with and u came of it: the fields and the
\* position after it.
Reads(data, pos, t, d, h, u, fields, next) ==
    \/ /\ data[pos + 1] \in IndexedOctets
       /\ \E f \in Fields, i \in Nat :
             /\ fields = <<f>> /\ u = t
             /\ EntryIn(d, i) = f \/ (EntryIn(d, i) = NULL /\ h = "shrunk")
             /\ DecodeInt(data, pos, 7) = [ok |-> TRUE, value |-> i, pos |-> next]
    \/ /\ data[pos + 1] \in IncrementalOctets
       /\ \E f \in Fields :
             /\ fields = <<f>> /\ u = InsertEntry(t, f)
             /\ LiteralIsRead(KeyAt(data, pos, d, 6), DecodeString(data, KeyAt(data, pos, d, 6).pos), f, next,
                              Must(f, next < Len(data), h))
    \/ /\ data[pos + 1] \in OtherOctets
       /\ \E f \in Fields :
             /\ fields = <<f>> /\ u = t
             /\ LiteralIsRead(KeyAt(data, pos, d, 4), DecodeString(data, KeyAt(data, pos, d, 4).pos), f, next,
                              Must(f, next < Len(data), h))
    \/ /\ data[pos + 1] \in UpdateOctets
       /\ \E size \in UpdateSizes :
             /\ fields = <<>> /\ u = SetMax(t, size)
             /\ DecodeInt(data, pos, 5) = [ok |-> TRUE, value |-> size, pos |-> next]

LEMMA FirstOctets ==
  /\ \A x \in 128..(128 + Mask(7)) : x \in IndexedOctets
  /\ \A x \in 64..(64 + Mask(6)) : x \in IncrementalOctets
  /\ \A x \in 32..(32 + Mask(5)) : x \in UpdateOctets
  /\ \A flags \in {0, 16} : \A x \in flags..(flags + Mask(4)) : x \in OtherOctets
BY MaskValues DEF IndexedOctets, IncrementalOctets, UpdateOctets, OtherOctets

LEMMA StandsRead ==
  ASSUME NEW data \in Seq(Octets), NEW pos \in Nat, NEW t, NEW d, NEW h, Sees(t, d, h), NEW u, NEW code \in Seq(Octets), NEW fields,
         Stands(code, t, u, fields), Lies(code, data, pos)
  PROVE  pos < Len(data) /\ Reads(data, pos, t, d, h, u, fields, pos + Len(code))
<1>1. CASE \E f \in Fields, i \in Nat :
          /\ fields = <<f>> /\ u = t
          /\ i < NumberLimit /\ EntryIn(t, i) = f /\ code = EncodeInt(128, i, 7)
  <2>1. PICK f \in Fields, i \in Nat :
          /\ fields = <<f>> /\ u = t
          /\ i < NumberLimit /\ EntryIn(t, i) = f /\ code = EncodeInt(128, i, 7)
    BY <1>1
  <2>2. NumberIsRead(data, pos, 128, i, 7)
    <3>1. Prefixed(128, 7)
      BY DEF Prefixed
    <3> QED
      BY <2>1, <3>1, NumberReads, Zenon
  <2>3. /\ DecodeInt(data, pos, 7) = [ok |-> TRUE, value |-> i, pos |-> pos + Len(code)]
        /\ Len(code) \in Nat \ {0} /\ pos + Len(code) <= Len(data) /\ data[pos + 1] \in 128..(128 + Mask(7))
    BY <2>1, <2>2, Zenon DEF NumberIsRead
  <2>4. data[pos + 1] \in IndexedOctets /\ pos < Len(data)
    <3>0. \A x \in 128..(128 + Mask(7)) : x \in IndexedOctets
      BY FirstOctets
    <3>1. data[pos + 1] \in IndexedOctets
      BY <2>3, <3>0, Zenon
    <3>2. Len(code) \in Nat \ {0} /\ pos + Len(code) <= Len(data)
      BY <2>3
    <3> QED
      BY <3>1, <3>2
  <2>5. EntryIn(d, i) = f \/ (EntryIn(d, i) = NULL /\ h = "shrunk")
    <3>1. f # NULL
      BY FieldFacts
    <3> QED
      BY <2>1, <3>1, Zenon DEF Sees
  <2> QED
    BY <2>1, <2>3, <2>4, <2>5, Zenon DEF Reads
<1>2. CASE \E f \in Fields : fields = <<f>> /\ u = InsertEntry(t, f) /\ Literal(code, 64, 6, t, f)
  <2>1. PICK f \in Fields : fields = <<f>> /\ u = InsertEntry(t, f) /\ Literal(code, 64, 6, t, f)
    BY <1>2
  <2>2. Prefixed(64, 6)
    BY DEF Prefixed
  <2>3. /\ pos < Len(data) /\ data[pos + 1] \in 64..(64 + Mask(6))
        /\ LiteralIsRead(KeyAt(data, pos, d, 6), DecodeString(data, KeyAt(data, pos, d, 6).pos), f, pos + Len(code),
                         Must(f, pos + Len(code) < Len(data), h))
    BY <2>1, <2>2, LiteralRead, Zenon
  <2>4. data[pos + 1] \in IncrementalOctets
    BY <2>3, FirstOctets, Zenon
  <2> QED
    BY <2>1, <2>3, <2>4, Zenon DEF Reads
<1>3. CASE \E f \in Fields, flags \in {0, 16} : fields = <<f>> /\ u = t /\ Literal(code, flags, 4, t, f)
  <2>1. PICK f \in Fields, flags \in {0, 16} : fields = <<f>> /\ u = t /\ Literal(code, flags, 4, t, f)
    BY <1>3
  <2>2. Prefixed(flags, 4)
    BY DEF Prefixed
  <2>3. /\ pos < Len(data) /\ data[pos + 1] \in flags..(flags + Mask(4))
        /\ LiteralIsRead(KeyAt(data, pos, d, 4), DecodeString(data, KeyAt(data, pos, d, 4).pos), f, pos + Len(code),
                         Must(f, pos + Len(code) < Len(data), h))
    BY <2>1, <2>2, LiteralRead, Zenon
  <2>4. data[pos + 1] \in OtherOctets
    <3>1. \A x \in flags..(flags + Mask(4)) : x \in OtherOctets
      BY FirstOctets
    <3> QED
      BY <2>3, <3>1, Zenon
  <2> QED
    BY <2>1, <2>3, <2>4, Zenon DEF Reads
<1>4. CASE \E size \in UpdateSizes : fields = <<>> /\ u = SetMax(t, size) /\ code = EncodeInt(32, size, 5)
  <2>1. PICK size \in UpdateSizes : fields = <<>> /\ u = SetMax(t, size) /\ code = EncodeInt(32, size, 5)
    BY <1>4
  <2>2. size \in Nat /\ size < NumberLimit
    <3>1. StaticSize \in Nat /\ size \in Nat
      BY StringAssumption DEF StaticSize
    <3>2. PICK z \in Nat : z = StaticSize
      BY <3>1
    <3>3. z + size < NumberLimit
      BY <3>2, NumberAssumption
    <3>4. NumberLimit \in Nat
      BY DEF NumberLimit
    <3> QED
      BY <3>1, <3>3, <3>4
  <2>3. NumberIsRead(data, pos, 32, size, 5)
    <3>1. Prefixed(32, 5)
      BY DEF Prefixed
    <3> QED
      BY <2>1, <2>2, <3>1, NumberReads, Zenon
  <2>4. /\ DecodeInt(data, pos, 5) = [ok |-> TRUE, value |-> size, pos |-> pos + Len(code)]
        /\ Len(code) \in Nat \ {0} /\ pos + Len(code) <= Len(data) /\ data[pos + 1] \in 32..(32 + Mask(5))
    BY <2>1, <2>3, Zenon DEF NumberIsRead
  <2>5. data[pos + 1] \in UpdateOctets /\ pos < Len(data)
    <3>1. data[pos + 1] \in UpdateOctets
      BY <2>4, FirstOctets, Zenon
    <3>2. Len(code) \in Nat \ {0} /\ pos + Len(code) <= Len(data)
      BY <2>4
    <3> QED
      BY <3>1, <3>2
  <2> QED
    BY <2>1, <2>4, <2>5, Zenon DEF Reads
<1> QED
  BY <1>1, <1>2, <1>3, <1>4, Zenon DEF Stands

\* A literal of which a part is missing.
Missing(key, value) == ~key.ok \/ ~value.ok

\* The parser refuses what lies there.
Refuses(data, pos, t) ==
    \/ /\ data[pos + 1] \in IndexedOctets
       /\ LET index == DecodeInt(data, pos, 7)
          IN  index.ok => EntryIn(t, index.value) = NULL \/ EntryIn(t, index.value).value = NULL
    \/ /\ data[pos + 1] \in IncrementalOctets
       /\ Missing(KeyAt(data, pos, t, 6), DecodeString(data, KeyAt(data, pos, t, 6).pos))
    \/ /\ data[pos + 1] \in OtherOctets
       /\ Missing(KeyAt(data, pos, t, 4), DecodeString(data, KeyAt(data, pos, t, 4).pos))

\* An index beyond what any table can hold.
LEMMA NoFieldIn ==
  ASSUME NEW t, TableInv(t), t.max \in Bounds, NEW i \in Nat, NoField(i)
  PROVE  EntryIn(t, i) = NULL \/ EntryIn(t, i).value = NULL
<1>0. StaticSize \in Nat
  BY StringAssumption DEF StaticSize
<1>1. CASE i = 0
  <2>0. i \notin 1..StaticSize /\ ~(i > StaticSize)
    BY <1>0, <1>1
  <2>1. EntryIn(t, i) = NULL
    BY <1>1, <2>0, Zenon DEF EntryIn
  <2> QED
    BY <2>1
<1>2. CASE i # 0 /\ i \in 1..StaticSize /\ StaticTable[i].value = NULL
  <2>0. i # 0 /\ ~(i > StaticSize)
    BY <1>0, <1>2
  <2>1. EntryIn(t, i) = StaticTable[i]
    BY <1>2, <2>0, Zenon DEF EntryIn
  <2> QED
    BY <1>2, <2>1
<1>3. CASE i # 0 /\ \A size \in TableSizes \cup UpdateSizes : i > StaticSize + size \div EntryOverhead
  <2>1. PICK n \in Nat, m \in Nat, z \in Nat : n = t.count /\ m = t.max /\ z = StaticSize /\ 32 * n <= m
    <3>1. t.count \in Nat /\ t.max \in Nat /\ 32 * t.count <= t.max
      BY CountIsSmall
    <3>2. StaticSize \in Nat
      BY StringAssumption DEF StaticSize
    <3> QED
      BY <3>1, <3>2
  <2>2. i > z + m \div 32
    BY <1>3, <2>1 DEF Bounds, EntryOverhead
  <2>3. n <= m \div 32
    BY <2>1
  <2>4. m \div 32 \in Nat
    BY <2>1
  <2>5. i > z /\ n <= i - z - 1 /\ i \notin 1..z
    BY <2>2, <2>3, <2>4
  <2>6. EntryIn(t, i) = NULL
    BY <1>3, <2>1, <2>5, Zenon DEF EntryIn
  <2> QED
    BY <2>6
<1> QED
  BY <1>1, <1>2, <1>3 DEF NoField

LEMMA StopsEarlyIn ==
  ASSUME NEW octets \in Seq(Octets), octets # <<>>, NEW data \in Seq(Octets), NEW q \in Nat,
         EndsWith(octets, data, q), NEW t, NEW prefix \in {4, 5, 6, 7}, StopsEarly(octets, prefix)
  PROVE  Missing(KeyAt(data, q, t, prefix), DecodeString(data, KeyAt(data, q, t, prefix).pos))
<1> DEFINE key == KeyAt(data, q, t, prefix)
           x == DecodeInt(octets, 0, prefix)
<1>1. 0 < Len(octets) /\ 0 \in Nat /\ q + 0 = q
  OBVIOUS
<1>2. Shifted(x, DecodeInt(data, q, prefix), q)
  <2>1. Shifted(x, DecodeInt(data, q + 0, prefix), q)
    BY <1>1, DecodeIntShift
  <2> QED
    BY <1>1, <2>1
<1>3. PICK l \in BOOLEAN, p \in Nat : \E v :
        x = [ok |-> l, value |-> v, pos |-> p] /\ DecodeInt(data, q, prefix) = [ok |-> l, value |-> v, pos |-> q + p]
  BY <1>2, Zenon DEF Shifted
<1>4. PICK v :
        x = [ok |-> l, value |-> v, pos |-> p] /\ DecodeInt(data, q, prefix) = [ok |-> l, value |-> v, pos |-> q + p]
  BY <1>3, Zenon
<1>5. x.ok = l /\ x.value = v /\ x.pos = p
  BY <1>4
<1>6. KeyIs(data, q, t, prefix, l, v, q + p)
  BY <1>4, KeyCases, Zenon
<1>7. (l => v = 0) /\ (l /\ DecodeString(octets, p).ok => ~DecodeString(octets, DecodeString(octets, p).pos).ok)
  BY <1>5, Zenon DEF StopsEarly
<1>8. CASE ~l
  <2>1. key = [ok |-> FALSE, value |-> <<>>, pos |-> NULL]
    BY <1>6, <1>8, Zenon DEF KeyIs
  <2>2. ~key.ok
    BY <2>1
  <2> QED
    BY <2>2, Zenon DEF Missing
<1>9. CASE l
  <2>1. key = DecodeString(data, q + p)
    BY <1>6, <1>7, <1>9, Zenon DEF KeyIs
  <2> DEFINE k == DecodeString(octets, p)
  <2>2. Shifted(k, key, q)
    BY <2>1, DecodeStringShift, Zenon
  <2>3. PICK m \in BOOLEAN, r \in Nat : \E w : k = [ok |-> m, value |-> w, pos |-> r] /\ key = [ok |-> m, value |-> w, pos |-> q + r]
    BY <2>2, Zenon DEF Shifted
  <2> HIDE DEF k, key
  <2>4. k.ok = m /\ k.pos = r /\ key.ok = m /\ key.pos = q + r
    BY <2>3
  <2>5. CASE ~m
    BY <2>4, <2>5, Zenon DEF Missing, key
  <2>6. CASE m
    <3>1. ~DecodeString(octets, r).ok
      BY <1>7, <1>9, <2>4, <2>6, Zenon DEF k
    <3>2. Shifted(DecodeString(octets, r), DecodeString(data, q + r), q)
      BY DecodeStringShift, Zenon
    <3>3. PICK a, b : a = DecodeString(octets, r) /\ b = DecodeString(data, q + r)
      OBVIOUS
    <3>4. a.ok = b.ok
      <4>1. Shifted(a, b, q)
        BY <3>2, <3>3, Zenon
      <4> QED
        BY <4>1 DEF Shifted
    <3>5. ~DecodeString(data, key.pos).ok
      BY <2>4, <3>1, <3>3, <3>4, Zenon
    <3> QED
      BY <3>5, Zenon DEF Missing, key
  <2> QED
    BY <2>5, <2>6
<1> QED
  BY <1>8, <1>9

LEMMA MalformedRefused ==
  ASSUME NEW octets \in Malformed, NEW data \in Seq(Octets), NEW q \in Nat, EndsWith(octets, data, q),
         NEW t, TableInv(t), t.max \in Bounds
  PROVE  q < Len(data) /\ Refuses(data, q, t)
<1>1. octets \in Seq(Octets) /\ octets # <<>>
  BY StringAssumption, MalformedAssumption DEF Octets
<1>2. PICK n \in Nat : n = Len(octets) /\ n > 0
  BY <1>1
<1>3. q < Len(data) /\ data[q + 1] = octets[1] /\ octets[1] \in Octets /\ 0 < Len(octets) /\ 0 \in Nat /\ q + 0 = q
  BY <1>1, <1>2 DEF EndsWith
<1>4. CASE /\ octets[1] >= 128
           /\ LET index == DecodeInt(octets, 0, 7) IN index.ok => NoField(index.value)
  <2> DEFINE x == DecodeInt(octets, 0, 7)
             y == DecodeInt(data, q, 7)
  <2>0. 7 \in {4, 5, 6, 7}
    OBVIOUS
  <2>1. Shifted(x, y, q)
    <3>1. Shifted(x, DecodeInt(data, q + 0, 7), q)
      BY <1>1, <1>3, <2>0, DecodeIntShift
    <3> QED
      BY <1>3, <3>1
  <2>2. x.value \in Nat
    BY <1>1, <1>3, <2>0, DecodeIntType
  <2>3. x.ok => NoField(x.value)
    BY <1>4
  <2> HIDE DEF x, y
  <2>4. y.ok = x.ok /\ y.value = x.value
    BY <2>1 DEF Shifted
  <2>5. y.ok => EntryIn(t, y.value) = NULL \/ EntryIn(t, y.value).value = NULL
    BY <2>2, <2>3, <2>4, NoFieldIn, Zenon
  <2>6. data[q + 1] \in IndexedOctets
    <3>1. \A b \in Octets : b >= 128 => b \in IndexedOctets
      BY DEF Octets, IndexedOctets
    <3> QED
      BY <1>3, <1>4, <3>1, Zenon
  <2>7. Refuses(data, q, t)
    BY <2>5, <2>6, Zenon DEF Refuses, y
  <2> QED
    BY <1>3, <2>7
<1>5. CASE octets[1] \in 64..127 /\ StopsEarly(octets, 6)
  <2>1. Missing(KeyAt(data, q, t, 6), DecodeString(data, KeyAt(data, q, t, 6).pos))
    <3>1. 6 \in {4, 5, 6, 7}
      OBVIOUS
    <3> QED
      BY <1>1, <1>5, <3>1, StopsEarlyIn, Zenon
  <2>2. data[q + 1] \in IncrementalOctets
    BY <1>3, <1>5, Zenon DEF IncrementalOctets
  <2>3. Refuses(data, q, t)
    BY <2>1, <2>2, Zenon DEF Refuses
  <2> QED
    BY <1>3, <2>3
<1>6. CASE octets[1] < 32 /\ StopsEarly(octets, 4)
  <2>1. Missing(KeyAt(data, q, t, 4), DecodeString(data, KeyAt(data, q, t, 4).pos))
    <3>1. 4 \in {4, 5, 6, 7}
      OBVIOUS
    <3> QED
      BY <1>1, <1>6, <3>1, StopsEarlyIn, Zenon
  <2>2. data[q + 1] \in OtherOctets
    <3>1. \A b \in Octets : b < 32 => b \in OtherOctets
      BY DEF Octets, OtherOctets
    <3> QED
      BY <1>3, <1>6, <3>1, Zenon
  <2>3. Refuses(data, q, t)
    BY <2>1, <2>2, Zenon DEF Refuses
  <2> QED
    BY <1>3, <2>3
<1> QED
  BY <1>4, <1>5, <1>6, MalformedAssumption, Zenon

-----------------------------------------------------------------------------
(* What lies ahead of the decompressor.                                    *)

\* From the mark a, one representation after the other leads to where the
\* compressor is, with its table e; behind that are the malformed octets, or
\* nothing.
Ahead(data, sent, malformed, a, e) ==
    \E p \in Nat : /\ Path(data, sent, a, Mark(e, p, Len(sent)))
                   /\ malformed => \E octets \in Malformed : EndsWith(octets, data, p)
                   /\ ~malformed => p = Len(data)

LEMMA AheadOfNothing ==
  ASSUME NEW t
  PROVE  Ahead(<<>>, <<>>, FALSE, Mark(t, 0, 0), t)
<1>1. Len(<<>>) = 0 /\ 0 \in Nat
  OBVIOUS
<1>2. Path(<<>>, <<>>, Mark(t, 0, 0), Mark(t, 0, 0))
  BY PathStays
<1> QED
  BY <1>1, <1>2, Zenon DEF Ahead

LEMMA AheadWritten ==
  ASSUME NEW data \in Seq(Octets), NEW sent \in Seq(Fields), NEW a, NEW e, Ahead(data, sent, FALSE, a, e),
         NEW d \in Seq(Octets), NEW s \in Seq(Fields), NEW u, Stands(d, e, u, s)
  PROVE  Ahead(data \o d, sent \o s, FALSE, a, u)
<1>1. PICK m \in Nat, n \in Nat : m = Len(data) /\ n = Len(sent)
  OBVIOUS
<1>2. Path(data, sent, a, Mark(e, m, n))
  BY <1>1, Zenon DEF Ahead
<1>3. Path(data \o d, sent \o s, a, Mark(e, m, n))
  BY <1>2, PathOn, Zenon
<1>4. Lies(d, data \o d, m) /\ Lies(s, sent \o s, n)
  BY <1>1, LiesAtEnd, Zenon
<1>5. /\ Len(data \o d) = m + Len(d) /\ Len(sent \o s) = n + Len(s)
      /\ Len(data \o d) \in Nat
  BY <1>1
<1>6. PICK x, y : x = Mark(e, m, n) /\ y = Mark(u, m + Len(d), n + Len(s))
  OBVIOUS
<1>7. x.table = e /\ x.pos = m /\ x.count = n /\ y.table = u
  BY <1>6 DEF Mark
<1>8. Follows(data \o d, sent \o s, x, y)
  BY <1>1, <1>4, <1>6, <1>7, Zenon DEF Follows
<1>9. Path(data \o d, sent \o s, a, y)
  BY <1>3, <1>6, <1>8, PathThen, Zenon
<1>10. Path(data \o d, sent \o s, a, Mark(u, Len(data \o d), Len(sent \o s)))
  BY <1>5, <1>6, <1>9, Zenon
<1> QED
  BY <1>5, <1>10, Zenon DEF Ahead

LEMMA AheadMalformed ==
  ASSUME NEW data \in Seq(Octets), NEW sent \in Seq(Fields), NEW a, NEW e, Ahead(data, sent, FALSE, a, e),
         NEW octets \in Malformed
  PROVE  Ahead(data \o octets, sent, TRUE, a, e)
<1>1. PICK m \in Nat : m = Len(data)
  OBVIOUS
<1>2. octets \in Seq(Octets) /\ <<>> \in Seq(Fields)
  BY StringAssumption DEF Octets
<1>3. Path(data, sent, a, Mark(e, m, Len(sent)))
  BY <1>1, Zenon DEF Ahead
<1>4. Path(data \o octets, sent \o <<>>, a, Mark(e, m, Len(sent)))
  BY <1>2, <1>3, PathOn, Zenon
<1>5. sent \o <<>> = sent
  OBVIOUS
<1>6. EndsWith(octets, data \o octets, m)
  BY <1>1, <1>2 DEF EndsWith
<1>7. Path(data \o octets, sent, a, Mark(e, m, Len(sent)))
  BY <1>4, <1>5, Zenon
<1> QED
  BY <1>6, <1>7, Zenon DEF Ahead

LEMMA AheadSplit ==
  ASSUME NEW data, NEW sent, NEW malformed \in BOOLEAN, NEW t, NEW pos, NEW n, NEW e,
         Ahead(data, sent, malformed, Mark(t, pos, n), e)
  PROVE  \/ \E u : \E code \in Seq(Octets), fields \in Seq(Fields) :
               /\ Stands(code, t, u, fields) /\ Lies(code, data, pos) /\ Lies(fields, sent, n)
               /\ Ahead(data, sent, malformed, Mark(u, pos + Len(code), n + Len(fields)), e)
         \/ /\ t = e /\ n = Len(sent)
            /\ malformed => pos \in Nat /\ \E octets \in Malformed : EndsWith(octets, data, pos)
            /\ ~malformed => pos = Len(data)
<1>1. PICK p \in Nat : /\ Path(data, sent, Mark(t, pos, n), Mark(e, p, Len(sent)))
                       /\ malformed => \E octets \in Malformed : EndsWith(octets, data, p)
                       /\ ~malformed => p = Len(data)
  BY Zenon DEF Ahead
<1>2. PICK a, b : a = Mark(t, pos, n) /\ b = Mark(e, p, Len(sent))
  OBVIOUS
<1>3. /\ a.table = t /\ a.pos = pos /\ a.count = n
      /\ b.table = e /\ b.pos = p /\ b.count = Len(sent)
  BY <1>2 DEF Mark
<1>4. CASE a = b
  <2>1. t = e /\ pos = p /\ n = Len(sent)
    BY <1>3, <1>4
  <2> QED
    BY <1>1, <2>1, Zenon
<1>5. CASE \E c : Follows(data, sent, a, c) /\ Path(data, sent, c, b)
  <2>1. PICK c : Follows(data, sent, a, c) /\ Path(data, sent, c, b)
    BY <1>5
  <2>2. PICK code \in Seq(Octets), fields \in Seq(Fields) :
          /\ Stands(code, t, c.table, fields)
          /\ Lies(code, data, pos) /\ Lies(fields, sent, n)
          /\ c = Mark(c.table, pos + Len(code), n + Len(fields))
    BY <1>3, <2>1, Zenon DEF Follows
  <2>3. Path(data, sent, Mark(c.table, pos + Len(code), n + Len(fields)), Mark(e, p, Len(sent)))
    BY <1>2, <2>1, <2>2, Zenon
  <2>4. Ahead(data, sent, malformed, Mark(c.table, pos + Len(code), n + Len(fields)), e)
    BY <1>1, <2>3, Zenon DEF Ahead
  <2> QED
    BY <2>2, <2>4, Zenon
<1> QED
  BY <1>1, <1>2, <1>4, <1>5, PathSplit, Zenon

-----------------------------------------------------------------------------
(* The compressor and the decompressor together.                           *)

\* The field after the ones that have been read need not be.
MayRefuse(B, h) ==
    /\ Len(B.got) < Len(B.sent)
    /\ ~Must(B.sent[Len(B.got) + 1], Len(B.got) + 1 < Len(B.sent), h)

\* What is still to be read leads from a table that agrees with the
\* decompressor's to the compressor's, what has been read is the beginning of
\* what was sent, a block that has been read was well formed and has been read
\* in full, and a well-formed block is refused only where it may be.
Together(B, d, e, h) ==
    /\ \E t : Agrees(t, d, h) /\ Ahead(B.data, B.sent, B.malformed, Mark(t, B.pos, Len(B.got)), e)
    /\ Lies(B.got, B.sent, 0)
    /\ B.phase = "read" => ~B.malformed /\ Agrees(e, d, h) /\ Len(B.got) = Len(B.sent)
    /\ B.phase = "refused" => B.malformed \/ MayRefuse(B, h)

InStep ==
    /\ enc.max \in Bounds /\ dec.max \in Bounds
    /\ block = NULL => Agrees(enc, dec, resized)
    /\ block # NULL => Together(block, dec, enc, resized)

LEMMA BlockFacts ==
  ASSUME NEW B \in Blocks
  PROVE  /\ B.data \in Seq(Octets) /\ B.sent \in Seq(Fields) /\ B.sent \in Seq(Entry) /\ B.got \in Seq(Entry)
         /\ B.pos \in Nat /\ B.malformed \in BOOLEAN /\ Len(B.got) \in Nat /\ Len(B.sent) \in Nat
<1>1. /\ B.data \in Seq(Octets) /\ B.sent \in Seq(Fields) /\ B.got \in Seq(Entry)
      /\ B.pos \in Nat /\ B.malformed \in BOOLEAN
  BY DEF Blocks
<1>2. B.sent \in Seq(Entry)
  BY <1>1, FieldIsEntry
<1> QED
  BY <1>1, <1>2

LEMMA StartTogether ==
  ASSUME NEW options, NEW peer, NEW d, NEW e, NEW h, Agrees(e, d, h)
  PROVE  Together(NewBlock(options, peer), d, e, h)
<1>1. PICK B : B = NewBlock(options, peer)
  OBVIOUS
<1>2. /\ B.data = <<>> /\ B.sent = <<>> /\ B.got = <<>> /\ B.pos = 0 /\ B.malformed = FALSE
      /\ B.phase = "writing"
  BY <1>1 DEF NewBlock
<1>3. Ahead(<<>>, <<>>, FALSE, Mark(e, 0, 0), e)
  BY AheadOfNothing
<1>4. Len(<<>>) = 0 /\ Lies(<<>>, <<>>, 0) /\ "writing" # "read" /\ "writing" # "refused"
  BY DEF Lies
<1>5. Together(B, d, e, h)
  BY <1>2, <1>3, <1>4, Zenon DEF Together
<1> QED
  BY <1>1, <1>5

LEMMA WriteTogether ==
  ASSUME NEW B \in Blocks, NEW d, NEW e, NEW h, Together(B, d, e, h), B.phase = "writing", ~B.malformed,
         NEW c \in Seq(Octets), NEW s \in Seq(Fields), NEW u, Stands(c, e, u, s)
  PROVE  Together([B EXCEPT !.data = @ \o c, !.sent = @ \o s], d, u, h)
<1>1. PICK C : C = [B EXCEPT !.data = @ \o c, !.sent = @ \o s]
  OBVIOUS
<1>2. /\ C.data = B.data \o c /\ C.sent = B.sent \o s /\ C.got = B.got /\ C.pos = B.pos
      /\ C.malformed = B.malformed /\ C.phase = "writing"
  BY <1>1 DEF Blocks
<1>3. /\ B.data \in Seq(Octets) /\ B.sent \in Seq(Fields) /\ B.sent \in Seq(Entry) /\ B.got \in Seq(Entry)
      /\ B.malformed = FALSE /\ s \in Seq(Entry) /\ 0 \in Nat
  BY BlockFacts, FieldIsEntry
<1>4. PICK t : Agrees(t, d, h) /\ Ahead(B.data, B.sent, FALSE, Mark(t, B.pos, Len(B.got)), e)
  BY <1>3, Zenon DEF Together
<1>5. Ahead(C.data, C.sent, FALSE, Mark(t, C.pos, Len(C.got)), u)
  BY <1>2, <1>3, <1>4, AheadWritten, Zenon
<1>6. Lies(C.got, C.sent, 0)
  <2>1. Lies(B.got, B.sent, 0)
    BY Zenon DEF Together
  <2> QED
    BY <1>2, <1>3, <2>1, LiesOn, Zenon
<1>7. "writing" # "read" /\ "writing" # "refused"
  OBVIOUS
<1>8. Together(C, d, u, h)
  BY <1>2, <1>3, <1>4, <1>5, <1>6, <1>7, Zenon DEF Together
<1> QED
  BY <1>1, <1>8

LEMMA MalformedTogether ==
  ASSUME NEW B \in Blocks, NEW d, NEW e, NEW h, Together(B, d, e, h), B.phase = "writing", ~B.malformed,
         NEW octets \in Malformed
  PROVE  Together([B EXCEPT !.data = @ \o octets, !.malformed = TRUE], d, e, h)
<1>1. PICK C : C = [B EXCEPT !.data = @ \o octets, !.malformed = TRUE]
  OBVIOUS
<1>2. /\ C.data = B.data \o octets /\ C.sent = B.sent /\ C.got = B.got /\ C.pos = B.pos
      /\ C.malformed = TRUE /\ C.phase = "writing"
  BY <1>1 DEF Blocks
<1>3. B.data \in Seq(Octets) /\ B.sent \in Seq(Fields) /\ B.malformed = FALSE
  BY BlockFacts
<1>4. PICK t : Agrees(t, d, h) /\ Ahead(B.data, B.sent, FALSE, Mark(t, B.pos, Len(B.got)), e)
  BY <1>3, Zenon DEF Together
<1>5. Ahead(C.data, C.sent, TRUE, Mark(t, C.pos, Len(C.got)), e)
  BY <1>2, <1>3, <1>4, AheadMalformed, Zenon
<1>6. "writing" # "read" /\ "writing" # "refused" /\ Lies(C.got, C.sent, 0)
  BY <1>2, Zenon DEF Together
<1>7. Together(C, d, e, h)
  BY <1>2, <1>4, <1>5, <1>6, Zenon DEF Together
<1> QED
  BY <1>1, <1>7

\* What comes next: the representation in front of the decompressor, or nothing
\* but malformed octets, which it refuses.
Comes(B, u, fields, next, e) ==
    /\ next \in Nat /\ fields \in Seq(Fields) /\ Lies(fields, B.sent, Len(B.got))
    /\ Ahead(B.data, B.sent, B.malformed, Mark(u, next, Len(B.got) + Len(fields)), e)

LEMMA WhatComes ==
  ASSUME NEW B \in Blocks, NEW d, NEW e, NEW h, Together(B, d, e, h), TableInv(d), d.max \in Bounds
  PROVE  \/ /\ B.pos < Len(B.data)
            /\ \E t, u, fields, next : /\ Agrees(t, d, h) /\ Reads(B.data, B.pos, t, d, h, u, fields, next)
                                       /\ Comes(B, u, fields, next, e)
         \/ B.pos < Len(B.data) /\ B.malformed /\ Refuses(B.data, B.pos, d)
         \/ B.pos = Len(B.data) /\ ~B.malformed /\ Agrees(e, d, h) /\ Len(B.got) = Len(B.sent)
<1>1. PICK data \in Seq(Octets), pos \in Nat, malformed \in BOOLEAN, n \in Nat :
        data = B.data /\ pos = B.pos /\ malformed = B.malformed /\ n = Len(B.got)
  BY BlockFacts, Zenon
<1>2. PICK t : Agrees(t, d, h) /\ Ahead(data, B.sent, malformed, Mark(t, pos, n), e)
  BY <1>1, Zenon DEF Together
<1>0. Sees(t, d, h)
  BY <1>2, AgreesSees, Zenon
<1>3. CASE \E u : \E code \in Seq(Octets), fields \in Seq(Fields) :
               /\ Stands(code, t, u, fields) /\ Lies(code, data, pos) /\ Lies(fields, B.sent, n)
               /\ Ahead(data, B.sent, malformed, Mark(u, pos + Len(code), n + Len(fields)), e)
  <2>1. PICK u : \E code \in Seq(Octets), fields \in Seq(Fields) :
               /\ Stands(code, t, u, fields) /\ Lies(code, data, pos) /\ Lies(fields, B.sent, n)
               /\ Ahead(data, B.sent, malformed, Mark(u, pos + Len(code), n + Len(fields)), e)
    BY <1>3
  <2>2. PICK code \in Seq(Octets), fields \in Seq(Fields) :
               /\ Stands(code, t, u, fields) /\ Lies(code, data, pos) /\ Lies(fields, B.sent, n)
               /\ Ahead(data, B.sent, malformed, Mark(u, pos + Len(code), n + Len(fields)), e)
    BY <2>1
  <2>3. pos < Len(data) /\ Reads(data, pos, t, d, h, u, fields, pos + Len(code))
    BY <1>0, <2>2, StandsRead, Zenon
  <2>4. pos + Len(code) \in Nat
    OBVIOUS
  <2>5. Comes(B, u, fields, pos + Len(code), e)
    BY <1>1, <2>2, <2>4, Zenon DEF Comes
  <2> QED
    BY <1>1, <1>2, <2>3, <2>5, Zenon
<1>4. CASE /\ t = e /\ n = Len(B.sent)
           /\ malformed => pos \in Nat /\ \E octets \in Malformed : EndsWith(octets, data, pos)
           /\ ~malformed => pos = Len(data)
  <2>1. CASE malformed
    <3>1. PICK octets \in Malformed : EndsWith(octets, data, pos)
      BY <1>4, <2>1
    <3>2. pos < Len(data) /\ Refuses(data, pos, d)
      BY <3>1, MalformedRefused, Zenon
    <3> QED
      BY <1>1, <2>1, <3>2, Zenon
  <2>2. CASE ~malformed
    BY <1>1, <1>2, <1>4, <2>2, Zenon
  <2> QED
    BY <2>1, <2>2
<1>5. \/ \E u : \E code \in Seq(Octets), fields \in Seq(Fields) :
               /\ Stands(code, t, u, fields) /\ Lies(code, data, pos) /\ Lies(fields, B.sent, n)
               /\ Ahead(data, B.sent, malformed, Mark(u, pos + Len(code), n + Len(fields)), e)
      \/ /\ t = e /\ n = Len(B.sent)
         /\ malformed => pos \in Nat /\ \E octets \in Malformed : EndsWith(octets, data, pos)
         /\ ~malformed => pos = Len(data)
  BY <1>2, AheadSplit
<1> QED
  BY <1>3, <1>4, <1>5, Zenon

\* A field that comes next and need not be read.
LEMMA MayBeRefused ==
  ASSUME NEW B \in Blocks, NEW f \in Fields, NEW u, NEW next, NEW e, NEW h, Comes(B, u, <<f>>, next, e),
         ~B.malformed, ~Must(f, next < Len(B.data), h)
  PROVE  MayRefuse(B, h)
<1>1. PICK data \in Seq(Octets), sent \in Seq(Fields), n \in Nat, m \in Nat :
        data = B.data /\ sent = B.sent /\ n = Len(B.got) /\ m = Len(sent)
  BY BlockFacts, Zenon
<1>2. n + 1 <= m /\ sent[n + 1] = f
  <2>1. Lies(<<f>>, sent, n)
    BY <1>1, Zenon DEF Comes
  <2>2. Len(<<f>>) = 1 /\ <<f>>[1] = f /\ 1 \in 1..1
    OBVIOUS
  <2> QED
    BY <1>1, <2>1, <2>2 DEF Lies
<1>3. next \in Nat /\ Ahead(data, sent, FALSE, Mark(u, next, n + 1), e)
  <2>1. Len(<<f>>) = 1 /\ B.malformed = FALSE
    BY BlockFacts
  <2> QED
    BY <1>1, <2>1, Zenon DEF Comes
<1>4. ASSUME n + 1 < m PROVE next < Len(data)
  <2>0. PICK k \in Nat, malformed \in BOOLEAN : k = n + 1 /\ malformed = FALSE
    <3>1. n + 1 \in Nat /\ FALSE \in BOOLEAN
      OBVIOUS
    <3> QED
      BY <3>1, Zenon
  <2>1. k # Len(sent)
    BY <1>1, <1>4, <2>0
  <2>4. Ahead(data, sent, malformed, Mark(u, next, k), e)
    BY <1>3, <2>0, Zenon
  <2>2. PICK w : \E code \in Seq(Octets), fields \in Seq(Fields) :
               /\ Stands(code, u, w, fields) /\ Lies(code, data, next) /\ Lies(fields, sent, k)
    <3>1. \/ \E w : \E code \in Seq(Octets), fields \in Seq(Fields) :
                /\ Stands(code, u, w, fields) /\ Lies(code, data, next) /\ Lies(fields, sent, k)
                /\ Ahead(data, sent, malformed, Mark(w, next + Len(code), k + Len(fields)), e)
          \/ /\ u = e /\ k = Len(sent)
             /\ malformed => next \in Nat /\ \E octets \in Malformed : EndsWith(octets, data, next)
             /\ ~malformed => next = Len(data)
      BY <2>4, AheadSplit
    <3> QED
      BY <2>1, <3>1, Zenon
  <2>3. Sees(u, u, h)
    BY DEF Sees
  <2> QED
    BY <1>3, <2>2, <2>3, StandsRead
<1>5. ~Must(f, n + 1 < m, h)
  BY <1>1, <1>4, Zenon DEF Must
<1>6. n < m
  BY <1>2
<1> QED
  BY <1>1, <1>2, <1>5, <1>6, Zenon DEF MayRefuse

LEMMA GotTogether ==
  ASSUME NEW B \in Blocks, NEW d, NEW e, NEW h, Together(B, d, e, h), B.phase = "reading",
         NEW u, NEW f \in Fields, NEW next, Comes(B, u, <<f>>, next, e), NEW w, Agrees(u, w, h)
  PROVE  Together([B EXCEPT !.got = Append(@, f), !.pos = next], w, e, h)
<1>1. PICK C : C = [B EXCEPT !.got = Append(@, f), !.pos = next]
  OBVIOUS
<1>2. /\ C.data = B.data /\ C.sent = B.sent /\ C.got = Append(B.got, f) /\ C.pos = next
      /\ C.malformed = B.malformed /\ C.phase = "reading"
  BY <1>1 DEF Blocks
<1>3. PICK got \in Seq(Entry), sent \in Seq(Entry), n \in Nat : got = B.got /\ sent = B.sent /\ n = Len(got)
  BY BlockFacts, Zenon
<1>4. PICK g : g = Append(got, f) /\ Len(g) = n + 1 /\ g[n + 1] = f /\ \A i \in 1..n : g[i] = got[i]
  <2>1. f \in Entry
    BY FieldIsEntry
  <2>2. Len(Append(got, f)) = n + 1 /\ Append(got, f)[n + 1] = f /\ \A i \in 1..n : Append(got, f)[i] = got[i]
    BY <1>3, <2>1
  <2> QED
    BY <2>2, Zenon
<1>5. PICK z \in Nat : z = Len(sent)
  BY <1>3
<1>6. n + 1 <= z /\ sent[n + 1] = f
  <2>1. Lies(<<f>>, sent, n)
    BY <1>3, Zenon DEF Comes
  <2>2. Len(<<f>>) = 1 /\ <<f>>[1] = f
    OBVIOUS
  <2>3. 1 \in 1..1
    OBVIOUS
  <2> QED
    BY <1>5, <2>1, <2>2, <2>3 DEF Lies
<1>7. \A i \in 1..n : sent[0 + i] = got[i]
  BY <1>3, Zenon DEF Together, Lies
<1>8. Lies(g, sent, 0)
  BY <1>4, <1>5, <1>6, <1>7 DEF Lies
<1>9. Ahead(C.data, C.sent, C.malformed, Mark(u, C.pos, Len(C.got)), e)
  <2>1. Len(<<f>>) = 1
    OBVIOUS
  <2> QED
    BY <1>2, <1>3, <1>4, <2>1, Zenon DEF Comes
<1>10. "reading" # "read" /\ "reading" # "refused"
  OBVIOUS
<1>11. Together(C, w, e, h)
  BY <1>2, <1>3, <1>4, <1>8, <1>9, <1>10, Zenon DEF Together
<1> QED
  BY <1>1, <1>11

LEMMA SizeTogether ==
  ASSUME NEW B \in Blocks, NEW d, NEW e, NEW h, Together(B, d, e, h), B.phase = "reading",
         NEW u, NEW next, Comes(B, u, <<>>, next, e), NEW w, Agrees(u, w, h)
  PROVE  Together([B EXCEPT !.pos = next], w, e, h)
<1>1. PICK C : C = [B EXCEPT !.pos = next]
  OBVIOUS
<1>2. /\ C.data = B.data /\ C.sent = B.sent /\ C.got = B.got /\ C.pos = next
      /\ C.malformed = B.malformed /\ C.phase = "reading"
  BY <1>1 DEF Blocks
<1>3. Len(B.got) + Len(<<>>) = Len(B.got)
  BY BlockFacts
<1>4. Ahead(C.data, C.sent, C.malformed, Mark(u, C.pos, Len(C.got)), e)
  BY <1>2, <1>3, Zenon DEF Comes
<1>5. Lies(C.got, C.sent, 0)
  BY <1>2, Zenon DEF Together
<1>6. "reading" # "read" /\ "reading" # "refused"
  OBVIOUS
<1>7. Together(C, w, e, h)
  BY <1>2, <1>4, <1>5, <1>6, Zenon DEF Together
<1> QED
  BY <1>1, <1>7

LEMMA RefusedTogether ==
  ASSUME NEW B \in Blocks, NEW d, NEW e, NEW h, Together(B, d, e, h), B.malformed \/ MayRefuse(B, h), NEW at
  PROVE  Together([B EXCEPT !.phase = "refused", !.at = at], d, e, h)
<1>1. PICK C : C = [B EXCEPT !.phase = "refused", !.at = at]
  OBVIOUS
<1>2. /\ C.data = B.data /\ C.sent = B.sent /\ C.got = B.got /\ C.pos = B.pos
      /\ C.malformed = B.malformed /\ C.phase = "refused"
  BY <1>1 DEF Blocks
<1>3. "refused" # "read"
  OBVIOUS
<1>4. C.malformed \/ MayRefuse(C, h)
  BY <1>2, Zenon DEF MayRefuse
<1>5. Together(C, d, e, h)
  BY <1>2, <1>3, <1>4, Zenon DEF Together
<1> QED
  BY <1>1, <1>5

\* A literal is refused only if it may be, and read as the field that was sent.
LiteralComes(B, d, e, h, key, value, indexing) ==
    /\ ~key.ok \/ ~value.ok => B.malformed \/ MayRefuse(B, h)
    /\ key.ok /\ value.ok =>
          \E f \in Fields : \E u :
             /\ key.value = f.key /\ value.value = f.value
             /\ Agrees(u, IF indexing THEN InsertEntry(d, f) ELSE d, h)
             /\ Comes(B, u, <<f>>, value.pos, e)

LEMMA LiteralIsNext ==
  ASSUME NEW B \in Blocks, NEW d, NEW e, NEW h, Together(B, d, e, h), TableInv(d), d.max \in Bounds,
         B.pos < Len(B.data), NEW prefix, NEW indexing,
         \/ prefix = 6 /\ indexing = TRUE /\ B.data[B.pos + 1] \in IncrementalOctets
         \/ prefix = 4 /\ indexing = FALSE /\ B.data[B.pos + 1] \in OtherOctets
  PROVE  LET key == KeyAt(B.data, B.pos, d, prefix)
         IN  LiteralComes(B, d, e, h, key, DecodeString(B.data, key.pos), indexing)
<1> DEFINE key == KeyAt(B.data, B.pos, d, prefix)
           value == DecodeString(B.data, key.pos)
<1>0. ~(B.pos = Len(B.data))
  BY BlockFacts
<1>1. CASE \E t, u, fields, next : /\ Agrees(t, d, h) /\ Reads(B.data, B.pos, t, d, h, u, fields, next)
                                    /\ Comes(B, u, fields, next, e)
  <2>1. PICK t, u, fields, next : /\ Agrees(t, d, h) /\ Reads(B.data, B.pos, t, d, h, u, fields, next)
                                  /\ Comes(B, u, fields, next, e)
    BY <1>1
  <2>2. \E f \in Fields :
          /\ fields = <<f>> /\ u = IF indexing THEN InsertEntry(t, f) ELSE t
          /\ LiteralIsRead(key, value, f, next, Must(f, next < Len(B.data), h))
    <3>1. CASE prefix = 6 /\ indexing = TRUE /\ B.data[B.pos + 1] \in IncrementalOctets
      <4>1. B.data[B.pos + 1] \notin OtherOctets /\ B.data[B.pos + 1] \notin UpdateOctets /\ B.data[B.pos + 1] \notin IndexedOctets
        BY <3>1, OctetsApart, Zenon
      <4>2. PICK f \in Fields :
              /\ fields = <<f>> /\ u = InsertEntry(t, f)
              /\ LiteralIsRead(KeyAt(B.data, B.pos, d, 6), DecodeString(B.data, KeyAt(B.data, B.pos, d, 6).pos), f, next,
                               Must(f, next < Len(B.data), h))
        BY <2>1, <4>1, Zenon DEF Reads
      <4> QED
        BY <3>1, <4>2, Zenon
    <3>2. CASE prefix = 4 /\ indexing = FALSE /\ B.data[B.pos + 1] \in OtherOctets
      <4>1. B.data[B.pos + 1] \notin IncrementalOctets /\ B.data[B.pos + 1] \notin UpdateOctets /\ B.data[B.pos + 1] \notin IndexedOctets
        BY <3>2, OctetsApart, Zenon
      <4>2. PICK f \in Fields :
              /\ fields = <<f>> /\ u = t
              /\ LiteralIsRead(KeyAt(B.data, B.pos, d, 4), DecodeString(B.data, KeyAt(B.data, B.pos, d, 4).pos), f, next,
                               Must(f, next < Len(B.data), h))
        BY <2>1, <4>1, Zenon DEF Reads
      <4> QED
        BY <3>2, <4>2, Zenon
    <3> QED
      BY <3>1, <3>2, Zenon
  <2>3. PICK f \in Fields :
          /\ fields = <<f>> /\ u = IF indexing THEN InsertEntry(t, f) ELSE t
          /\ LiteralIsRead(key, value, f, next, Must(f, next < Len(B.data), h))
    BY <2>2
  <2> HIDE DEF key, value
  <2>4. /\ key.ok /\ value.ok => key.value = f.key /\ value.value = f.value /\ value.pos = next
        /\ Must(f, next < Len(B.data), h) => key.ok /\ value.ok
    BY <2>3, Zenon DEF LiteralIsRead
  <2>5. Comes(B, u, <<f>>, next, e)
    BY <2>1, <2>3, Zenon
  <2>7. Agrees(u, IF indexing THEN InsertEntry(d, f) ELSE d, h)
    <3>1. CASE indexing
      BY <2>1, <2>3, <3>1, AgreesInsert, Zenon
    <3>2. CASE ~indexing
      BY <2>1, <2>3, <3>2, Zenon
    <3> QED
      BY <3>1, <3>2
  <2>8. ~key.ok \/ ~value.ok => B.malformed \/ MayRefuse(B, h)
    BY <2>4, <2>5, MayBeRefused, Zenon
  <2>6. LiteralComes(B, d, e, h, key, value, indexing)
    BY <2>4, <2>5, <2>7, <2>8, Zenon DEF LiteralComes
  <2> QED
    BY <2>6 DEF key, value
<1>2. CASE B.malformed /\ Refuses(B.data, B.pos, d)
  <2>1. Missing(key, value)
    <3>1. CASE prefix = 6 /\ indexing = TRUE /\ B.data[B.pos + 1] \in IncrementalOctets
      <4>1. B.data[B.pos + 1] \notin OtherOctets /\ B.data[B.pos + 1] \notin UpdateOctets /\ B.data[B.pos + 1] \notin IndexedOctets
        BY <3>1, OctetsApart, Zenon
      <4> QED
        BY <1>2, <3>1, <4>1, Zenon DEF Refuses
    <3>2. CASE prefix = 4 /\ indexing = FALSE /\ B.data[B.pos + 1] \in OtherOctets
      <4>1. B.data[B.pos + 1] \notin IncrementalOctets /\ B.data[B.pos + 1] \notin UpdateOctets /\ B.data[B.pos + 1] \notin IndexedOctets
        BY <3>2, OctetsApart, Zenon
      <4> QED
        BY <1>2, <3>2, <4>1, Zenon DEF Refuses
    <3> QED
      BY <3>1, <3>2, Zenon
  <2> HIDE DEF key, value
  <2>2. LiteralComes(B, d, e, h, key, value, indexing)
    BY <1>2, <2>1, Zenon DEF LiteralComes, Missing
  <2> QED
    BY <2>2 DEF key, value
<1>3. \/ \E t, u, fields, next : /\ Agrees(t, d, h) /\ Reads(B.data, B.pos, t, d, h, u, fields, next)
                                 /\ Comes(B, u, fields, next, e)
      \/ B.malformed /\ Refuses(B.data, B.pos, d)
  BY <1>0, WhatComes, Zenon
<1> QED
  BY <1>1, <1>2, <1>3, Zenon

LEMMA IndexedIsNext ==
  ASSUME NEW B \in Blocks, NEW d, NEW e, NEW h, Together(B, d, e, h), TableInv(d), d.max \in Bounds,
         B.pos < Len(B.data), B.data[B.pos + 1] \in IndexedOctets
  PROVE  LET index == DecodeInt(B.data, B.pos, 7)
             entry == IF index.ok THEN EntryIn(d, index.value) ELSE NULL
         IN  IF entry = NULL THEN B.malformed \/ MayRefuse(B, h)
             ELSE IF entry.value = NULL THEN B.malformed
             ELSE entry \in Fields /\ \E u : Agrees(u, d, h) /\ Comes(B, u, <<entry>>, index.pos, e)
<1> DEFINE index == DecodeInt(B.data, B.pos, 7)
           entry == IF index.ok THEN EntryIn(d, index.value) ELSE NULL
<1>0. ~(B.pos = Len(B.data))
  BY BlockFacts
<1>1. B.data[B.pos + 1] \notin IncrementalOctets /\ B.data[B.pos + 1] \notin OtherOctets /\ B.data[B.pos + 1] \notin UpdateOctets
  BY OctetsApart, Zenon
<1>2. CASE \E t, u, fields, next : /\ Agrees(t, d, h) /\ Reads(B.data, B.pos, t, d, h, u, fields, next)
                                    /\ Comes(B, u, fields, next, e)
  <2>1. PICK t, u, fields, next : /\ Agrees(t, d, h) /\ Reads(B.data, B.pos, t, d, h, u, fields, next)
                                  /\ Comes(B, u, fields, next, e)
    BY <1>2
  <2>2. PICK f \in Fields, i \in Nat :
             /\ fields = <<f>> /\ u = t
             /\ EntryIn(d, i) = f \/ (EntryIn(d, i) = NULL /\ h = "shrunk")
             /\ DecodeInt(B.data, B.pos, 7) = [ok |-> TRUE, value |-> i, pos |-> next]
    BY <1>1, <2>1, Zenon DEF Reads
  <2>3. index.ok /\ index.value = i /\ index.pos = next
    BY <2>2
  <2>4. f # NULL /\ f.value # NULL
    BY FieldFacts, Zenon
  <2>5. Comes(B, t, <<f>>, next, e)
    BY <2>1, <2>2, Zenon
  <2>6. CASE EntryIn(d, i) = f
    <3>1. entry = f
      BY <2>3, <2>6, Zenon
    <3> QED
      BY <2>1, <2>3, <2>4, <2>5, <3>1, Zenon
  <2>7. CASE EntryIn(d, i) = NULL /\ h = "shrunk"
    <3>1. entry = NULL
      BY <2>3, <2>7, Zenon
    <3>2. ~Must(f, next < Len(B.data), h)
      BY <2>7, Zenon DEF Must
    <3>3. B.malformed \/ MayRefuse(B, h)
      BY <2>5, <3>2, MayBeRefused, Zenon
    <3> QED
      BY <3>1, <3>3, Zenon
  <2> QED
    BY <2>2, <2>6, <2>7
<1>3. CASE B.malformed /\ Refuses(B.data, B.pos, d)
  <2>1. index.ok => EntryIn(d, index.value) = NULL \/ EntryIn(d, index.value).value = NULL
    BY <1>1, <1>3, Zenon DEF Refuses
  <2> QED
    BY <1>3, <2>1, Zenon
<1>4. \/ \E t, u, fields, next : /\ Agrees(t, d, h) /\ Reads(B.data, B.pos, t, d, h, u, fields, next)
                                 /\ Comes(B, u, fields, next, e)
      \/ B.malformed /\ Refuses(B.data, B.pos, d)
  BY <1>0, WhatComes, Zenon
<1> QED
  BY <1>2, <1>3, <1>4, Zenon

LEMMA SizeIsNext ==
  ASSUME NEW B \in Blocks, NEW d, NEW e, NEW h, Together(B, d, e, h), TableInv(d), d.max \in Bounds,
         B.pos < Len(B.data), B.data[B.pos + 1] \in UpdateOctets
  PROVE  LET size == DecodeInt(B.data, B.pos, 5)
         IN  /\ size.ok /\ size.value \in UpdateSizes
             /\ \E u : Agrees(u, SetMax(d, size.value), h) /\ Comes(B, u, <<>>, size.pos, e)
<1> DEFINE size == DecodeInt(B.data, B.pos, 5)
<1>0. ~(B.pos = Len(B.data))
  BY BlockFacts
<1>1. B.data[B.pos + 1] \notin IncrementalOctets /\ B.data[B.pos + 1] \notin OtherOctets /\ B.data[B.pos + 1] \notin IndexedOctets
  BY OctetsApart, Zenon
<1>2. ~Refuses(B.data, B.pos, d)
  BY <1>1, Zenon DEF Refuses
<1>3. PICK t, u, fields, next : /\ Agrees(t, d, h) /\ Reads(B.data, B.pos, t, d, h, u, fields, next)
                                  /\ Comes(B, u, fields, next, e)
  BY <1>0, <1>2, WhatComes, Zenon
<1>4. PICK s \in UpdateSizes :
             /\ fields = <<>> /\ u = SetMax(t, s)
             /\ DecodeInt(B.data, B.pos, 5) = [ok |-> TRUE, value |-> s, pos |-> next]
  BY <1>1, <1>3, Zenon DEF Reads
<1>5. size.ok /\ size.value = s /\ size.pos = next
  BY <1>4
<1>6. Agrees(SetMax(t, s), SetMax(d, s), h)
  BY <1>3, AgreesSize, Zenon DEF Bounds
<1> QED
  BY <1>3, <1>4, <1>5, <1>6, Zenon

-----------------------------------------------------------------------------
(* The steps.                                                              *)

LEMMA EncBound ==
  ASSUME HpackInv, InStep, Next
  PROVE  enc'.max \in Bounds
<1>1. EncStep /\ TableInv(enc) /\ enc.max \in Bounds
  BY StepFacts DEF HpackInv, InStep
<1>2. \A f \in Fields : InsertEntry(enc, f).max = enc.max
  BY <1>1, FieldIsEntry, InsertEntryFacts
<1>3. \A size \in TableSizes \cup UpdateSizes : SetMax(enc, size).max = size
  BY <1>1, StringAssumption, SetMaxFacts
<1> QED
  BY <1>1, <1>2, <1>3 DEF EncStep, Bounds

\* A literal, whichever parser takes it.
IsLiteral(low, high, prefix, indexing) ==
    \/ prefix = 6 /\ indexing = TRUE /\ low = 64 /\ high = 127
    \/ prefix = 4 /\ indexing = FALSE /\ low = 16 /\ high = 31
    \/ prefix = 4 /\ indexing = FALSE /\ low = 0 /\ high = 15

LEMMA ParseLiteralTogether ==
  ASSUME HpackInv, InStep, NEW low, NEW high, NextIn(low, high), NEW prefix, NEW indexing,
         ParseLiteral(prefix, indexing), IsLiteral(low, high, prefix, indexing)
  PROVE  /\ block' # NULL /\ Together(block', dec', enc, resized)
         /\ dec' = dec \/ \E f \in Fields : dec' = InsertEntry(dec, f)
<1> DEFINE key   == LiteralKey(prefix)
           value == DecodeString(block.data, key.pos)
           field == [key |-> key.value, value |-> value.value]
<1>1. /\ block # NULL /\ block.phase = "reading" /\ block.pos < Len(block.data)
      /\ block.data[block.pos + 1] \in low..high
  BY DEF NextIn, Reading
<1>2. block \in Blocks /\ TableInv(dec) /\ dec.max \in Bounds /\ Together(block, dec, enc, resized)
  BY <1>1 DEF HpackInv, BlockInv, InStep
<1>0. block' # NULL
  <2>1. prefix \in {4, 5, 6, 7} /\ low \in Nat /\ high \in Nat
    BY DEF IsLiteral
  <2>2. indexing \in BOOLEAN
    BY Zenon DEF IsLiteral
  <2>3. block' \in Blocks
    BY <2>1, <2>2, ParseLiteralFacts, Zenon
  <2> QED
    BY <2>3, BlockAssumption
<1>3. \/ prefix = 6 /\ indexing = TRUE /\ block.data[block.pos + 1] \in IncrementalOctets
      \/ prefix = 4 /\ indexing = FALSE /\ block.data[block.pos + 1] \in OtherOctets
  <2>1. \A x : /\ x \in 64..127 => x \in IncrementalOctets
               /\ x \in 16..31 \/ x \in 0..15 => x \in OtherOctets
    BY DEF IncrementalOctets, OtherOctets
  <2> QED
    BY <1>1, <2>1, Zenon DEF IsLiteral
<1>4. key = KeyAt(block.data, block.pos, dec, prefix)
  BY Zenon DEF LiteralKey, KeyAt, GetTableEntryAt, EntryIn
<1>5. LiteralComes(block, dec, enc, resized, key, value, indexing)
  BY <1>1, <1>2, <1>3, <1>4, LiteralIsNext, Zenon
<1>6. IF ~key.ok THEN Refuse(key.pos)
      ELSE IF ~value.ok THEN Refuse(value.pos)
      ELSE Got(field, value.pos) /\ dec' = IF indexing THEN InsertEntry(dec, field) ELSE dec
  BY DEF ParseLiteral
<1>7. PICK k, v, w : k = key /\ v = value /\ w = field
  OBVIOUS
<1>8. w = [key |-> k.value, value |-> v.value]
  BY <1>7, Zenon
<1> HIDE DEF key, value, field
<1>9. CASE ~k.ok \/ ~v.ok
  <2>1. \E at : Refuse(at)
    BY <1>6, <1>7, <1>9, Zenon
  <2>2. PICK at : block' = [block EXCEPT !.phase = "refused", !.at = at] /\ dec' = dec
    BY <2>1, Zenon DEF Refuse
  <2>3. block.malformed \/ MayRefuse(block, resized)
    BY <1>5, <1>7, <1>9, Zenon DEF LiteralComes
  <2>4. Together([block EXCEPT !.phase = "refused", !.at = at], dec, enc, resized)
    BY <1>2, <2>3, RefusedTogether, Zenon
  <2> QED
    BY <1>0, <2>2, <2>4, Zenon
<1>10. CASE k.ok /\ v.ok
  <2>0. PICK f \in Fields : \E u :
             /\ k.value = f.key /\ v.value = f.value
             /\ Agrees(u, IF indexing THEN InsertEntry(dec, f) ELSE dec, resized)
             /\ Comes(block, u, <<f>>, v.pos, enc)
    BY <1>5, <1>7, <1>10, Zenon DEF LiteralComes
  <2>1. PICK u : /\ k.value = f.key /\ v.value = f.value
                 /\ Agrees(u, IF indexing THEN InsertEntry(dec, f) ELSE dec, resized)
                 /\ Comes(block, u, <<f>>, v.pos, enc)
    BY <2>0, Zenon
  <2>2. w = f
    <3>1. f \in [key : Text, value : Text]
      BY StringAssumption DEF Text
    <3> QED
      BY <1>8, <2>1, <3>1
  <2>3. Got(f, v.pos) /\ dec' = IF indexing THEN InsertEntry(dec, f) ELSE dec
    BY <1>6, <1>7, <1>10, <2>2, Zenon
  <2>4. Together([block EXCEPT !.got = Append(@, f), !.pos = v.pos],
                 IF indexing THEN InsertEntry(dec, f) ELSE dec, enc, resized)
    BY <1>1, <1>2, <2>1, GotTogether, Zenon
  <2> QED
    BY <1>0, <2>3, <2>4, Zenon DEF Got
<1> QED
  BY <1>9, <1>10, Zenon

\* What a step of the decompressor's table may be.
DecFieldStep ==
    \/ UNCHANGED dec
    \/ \E f \in Fields : dec' = InsertEntry(dec, f)
    \/ \E size \in TableSizes \cup UpdateSizes : dec' = SetMax(dec, size)

LEMMA DecFieldSteps ==
  ASSUME HpackInv, InStep, Next
  PROVE  DecFieldStep
<1>1. ASSUME NEW size \in TableSizes, Announce(size)
      PROVE  DecFieldStep
  BY <1>1 DEF Announce, DecFieldStep
<1>2. ASSUME NEW low, NEW high, NextIn(low, high), NEW prefix, NEW indexing,
             ParseLiteral(prefix, indexing), IsLiteral(low, high, prefix, indexing)
      PROVE  DecFieldStep
  <2>1. dec' = dec \/ \E f \in Fields : dec' = InsertEntry(dec, f)
    BY <1>2, ParseLiteralTogether, Zenon
  <2> QED
    BY <2>1, Zenon DEF DecFieldStep
<1>3. ASSUME ParseIncremental \/ ParseNeverIndexed \/ ParseWithoutIndexing
      PROVE  DecFieldStep
  <2>1. IsLiteral(64, 127, 6, TRUE) /\ IsLiteral(16, 31, 4, FALSE) /\ IsLiteral(0, 15, 4, FALSE)
    BY DEF IsLiteral
  <2>2. CASE ParseIncremental
    BY <1>2, <2>1, <2>2, Zenon DEF ParseIncremental
  <2>3. CASE ParseNeverIndexed
    BY <1>2, <2>1, <2>3, Zenon DEF ParseNeverIndexed
  <2>4. CASE ParseWithoutIndexing
    BY <1>2, <2>1, <2>4, Zenon DEF ParseWithoutIndexing
  <2> QED
    BY <1>3, <2>2, <2>3, <2>4
<1>4. ASSUME ParseSizeUpdate
      PROVE  DecFieldStep
  <2> DEFINE size == DecodeInt(block.data, block.pos, 5)
  <2>1. /\ block # NULL /\ block.phase = "reading" /\ block.pos < Len(block.data)
        /\ block.data[block.pos + 1] \in UpdateOctets
    BY <1>4 DEF ParseSizeUpdate, NextIn, Reading, UpdateOctets
  <2>2. block \in Blocks /\ Together(block, dec, enc, resized) /\ TableInv(dec) /\ dec.max \in Bounds
    BY <2>1 DEF HpackInv, BlockInv, InStep
  <2>3. size.ok /\ size.value \in UpdateSizes
    BY <2>1, <2>2, SizeIsNext, Zenon
  <2>4. dec' = SetMax(dec, size.value)
    BY <1>4, <2>3, Zenon DEF ParseSizeUpdate
  <2> HIDE DEF size
  <2> QED
    BY <2>3, <2>4 DEF DecFieldStep
<1>5. ASSUME ParseIndexed
      PROVE  DecFieldStep
  BY <1>5 DEF ParseIndexed, Refuse, DecFieldStep
<1>6. ASSUME UNCHANGED dec
      PROVE  DecFieldStep
  BY <1>6 DEF DecFieldStep
<1>7. ASSUME NEW options, NEW peer, StartBlock(options, peer)
      PROVE  UNCHANGED dec
  BY <1>7 DEF StartBlock
<1>8. ASSUME NEW f, CompressField(f) \/ PeerLiteral(f) \/ UpdateSize(f) \/ PeerMalformed(f)
      PROVE  UNCHANGED dec
  BY <1>8 DEF CompressField, PeerLiteral, UpdateSize, PeerMalformed
<1>9. ASSUME EndBlock \/ Decompressed \/ Deliver
      PROVE  UNCHANGED dec
  BY <1>9 DEF EndBlock, Decompressed, Deliver
<1> QED
  BY <1>1, <1>3, <1>4, <1>5, <1>6, <1>7, <1>8, <1>9, Zenon DEF Next, Compress, Peer, Decompress

LEMMA DecBound ==
  ASSUME HpackInv, InStep, Next
  PROVE  dec'.max \in Bounds
<1>1. DecFieldStep /\ TableInv(dec) /\ dec.max \in Bounds
  BY DecFieldSteps DEF HpackInv, InStep
<1>2. \A f \in Fields : InsertEntry(dec, f).max = dec.max
  BY <1>1, FieldIsEntry, InsertEntryFacts
<1>3. \A size \in TableSizes \cup UpdateSizes : SetMax(dec, size).max = size
  BY <1>1, StringAssumption, SetMaxFacts
<1> QED
  BY <1>1, <1>2, <1>3 DEF DecFieldStep, Bounds

\* What a step has to leave.
StaysInStep ==
    /\ block' = NULL => Agrees(enc', dec', resized')
    /\ block' # NULL => Together(block', dec', enc', resized')

LEMMA InStepStep ==
  ASSUME HpackInv, InStep, Next
  PROVE  StaysInStep
<1>0. /\ TableInv(enc) /\ enc.max \in Bounds /\ TableInv(dec) /\ dec.max \in Bounds
      /\ BlockInv /\ BlockInv'
  BY StepFacts DEF HpackInv, InStep
<1>00. block # NULL => block \in Blocks /\ Together(block, dec, enc, resized)
  BY <1>0 DEF BlockInv, InStep
<1>1. ASSUME NEW size \in TableSizes, Announce(size)
      PROVE  StaysInStep
  <2>1. block' = NULL /\ enc' = enc /\ Agrees(enc, dec, resized)
    BY <1>1 DEF Announce, InStep
  <2>2. dec' = SetMax(dec, size) /\ resized' = Sized(enc, size, resized)
    BY <1>1, Zenon DEF Announce, Sized
  <2>3. size \in Bounds
    BY DEF Bounds
  <2>4. Agrees(enc, SetMax(dec, size), Sized(enc, size, resized))
    BY <1>0, <2>1, <2>3, AgreesAnnounced, Zenon
  <2> QED
    BY <2>1, <2>2, <2>4, Zenon DEF StaysInStep
<1>2. ASSUME NEW options \in Options \cup PeerOptions, NEW peer \in BOOLEAN,
             StartBlock(options, peer)
      PROVE  StaysInStep
  <2>1. /\ block' = NewBlock(options, peer) /\ enc' = enc /\ dec' = dec /\ resized' = resized
        /\ Agrees(enc, dec, resized)
    BY <1>2 DEF StartBlock, InStep
  <2>2. Together(NewBlock(options, peer), dec, enc, resized)
    BY <2>1, StartTogether, Zenon
  <2>3. NewBlock(options, peer) # NULL
    <3>1. block' \in Blocks
      BY <2>1 DEF NewBlock, Blocks
    <3> QED
      BY <2>1, <3>1, BlockAssumption, Zenon
  <2> QED
    BY <2>1, <2>2, <2>3, Zenon DEF StaysInStep
<1>3. ASSUME NEW d \in Seq(Octets), NEW s \in Seq(Fields), NEW u, Writing, Write(d, s), enc' = u,
             Stands(d, enc, u, s), UNCHANGED <<dec, resized>>
      PROVE  StaysInStep
  <2>1. block # NULL /\ block.phase = "writing" /\ ~block.malformed
    BY <1>3 DEF Writing
  <2>2. Together([block EXCEPT !.data = @ \o d, !.sent = @ \o s], dec, u, resized)
    BY <1>00, <1>3, <2>1, WriteTogether, Zenon
  <2>3. block' = [block EXCEPT !.data = @ \o d, !.sent = @ \o s]
    BY <1>3, Zenon DEF Write
  <2>4. Together(block', dec', enc', resized')
    BY <1>3, <2>2, <2>3, Zenon
  <2>5. block' # NULL
    <3>1. block' \in Blocks
      BY <1>0, <1>3, WriteFacts, Zenon
    <3> QED
      BY <3>1, BlockAssumption, Zenon
  <2> QED
    BY <2>4, <2>5, Zenon DEF StaysInStep
<1>4. ASSUME NEW f \in Fields, CompressField(f)
      PROVE  StaysInStep
  <2> DEFINE code == EncodeField(f, block.options)
             u == IF code.add THEN InsertEntry(enc, f) ELSE enc
  <2>1. code.data \in Seq(Octets)
    BY <1>0, EncodeFieldType DEF TableInv, Accounted
  <2>2. <<f>> \in Seq(Fields)
    OBVIOUS
  <2>3. Writing /\ Write(code.data, <<f>>) /\ enc' = u /\ UNCHANGED <<dec, resized>>
    BY <1>4, Zenon DEF CompressField
  <2>4. Stands(code.data, enc, u, <<f>>)
    BY <1>0, FieldWritten, Zenon
  <2> HIDE DEF code, u
  <2> QED
    BY <1>3, <2>1, <2>2, <2>3, <2>4, Zenon
<1>5. ASSUME NEW size \in UpdateSizes, UpdateSize(size)
      PROVE  StaysInStep
  <2>1. size \in Nat
    BY StringAssumption
  <2>2. EncodeInt(32, size, 5) \in Seq(Octets)
    BY <2>1, EncodeIntTypes
  <2>3. <<>> \in Seq(Fields)
    OBVIOUS
  <2>4. Stands(EncodeInt(32, size, 5), enc, SetMax(enc, size), <<>>)
    BY Zenon DEF Stands
  <2>5. Writing /\ Write(EncodeInt(32, size, 5), <<>>) /\ enc' = SetMax(enc, size) /\ UNCHANGED <<dec, resized>>
    BY <1>5, Zenon DEF UpdateSize
  <2> QED
    BY <1>3, <2>2, <2>3, <2>4, <2>5, Zenon
<1>6. ASSUME NEW f \in Fields, PeerLiteral(f)
      PROVE  StaysInStep
  <2> DEFINE d == <<0>> \o Plain(f.key) \o Plain(f.value)
  <2>1. d \in Seq(Octets)
    BY RepresentationTypes, Zenon
  <2>2. <<f>> \in Seq(Fields)
    OBVIOUS
  <2>3. Stands(d, enc, enc, <<f>>)
    <3>1. Literal(d, 0, 4, enc, f)
      BY LiteralKeyWritten, Zenon
    <3>2. 0 \in {0, 16}
      OBVIOUS
    <3> HIDE DEF d
    <3> QED
      BY <3>1, <3>2, Zenon DEF Stands
  <2>4. Writing /\ Write(d, <<f>>) /\ enc' = enc /\ UNCHANGED <<dec, resized>>
    BY <1>6, Zenon DEF PeerLiteral
  <2> HIDE DEF d
  <2> QED
    BY <1>3, <2>1, <2>2, <2>3, <2>4, Zenon
<1>7. ASSUME NEW octets \in Malformed, PeerMalformed(octets)
      PROVE  StaysInStep
  <2>1. /\ block # NULL /\ block.phase = "writing" /\ ~block.malformed
        /\ enc' = enc /\ dec' = dec /\ resized' = resized
    BY <1>7 DEF PeerMalformed, Writing
  <2>2. block' = [block EXCEPT !.data = @ \o octets, !.malformed = TRUE]
    BY <1>7, Zenon DEF PeerMalformed
  <2>3. block' \in Blocks
    <3>1. octets \in Seq(Octets) /\ block.data \in Seq(Octets) /\ block \in Blocks
      BY <1>00, <2>1, StringAssumption, BlockFacts DEF Octets
    <3>2. PICK d \in Seq(Octets) : d = block.data \o octets
      <4>1. block.data \o octets \in Seq(Octets)
        BY <3>1
      <4> QED
        BY <4>1, Zenon
    <3>3. block' = [block EXCEPT !.data = d, !.malformed = TRUE]
      BY <2>2, <3>2
    <3> QED
      BY <3>1, <3>3 DEF Blocks
  <2>4. Together([block EXCEPT !.data = @ \o octets, !.malformed = TRUE], dec, enc, resized)
    BY <1>00, <2>1, MalformedTogether, Zenon
  <2>5. Together(block', dec', enc', resized') /\ block' # NULL
    BY <2>1, <2>2, <2>3, <2>4, BlockAssumption, Zenon
  <2> QED
    BY <2>5, Zenon DEF StaysInStep
<1>8. ASSUME EndBlock
      PROVE  StaysInStep
  <2>1. block # NULL /\ block.phase = "writing" /\ enc' = enc /\ dec' = dec /\ resized' = resized
    BY <1>8 DEF EndBlock
  <2>2. block' = [block EXCEPT !.phase = "reading"] /\ block \in Blocks /\ Together(block, dec, enc, resized)
    BY <1>8, <1>00, <2>1, Zenon DEF EndBlock
  <2>3. block' \in Blocks
    BY <2>2 DEF Blocks
  <2>4. PICK B, C : B = block /\ C = block'
    OBVIOUS
  <2>5. /\ C.data = B.data /\ C.sent = B.sent /\ C.got = B.got /\ C.pos = B.pos
        /\ C.malformed = B.malformed /\ C.phase = "reading"
    BY <2>2, <2>4 DEF Blocks
  <2>6. "reading" # "read" /\ "reading" # "refused"
    OBVIOUS
  <2>7. Together(C, dec, enc, resized)
    BY <2>2, <2>4, <2>5, <2>6, Zenon DEF Together
  <2>8. Together(block', dec', enc', resized') /\ block' # NULL
    BY <2>1, <2>3, <2>4, <2>7, BlockAssumption, Zenon
  <2> QED
    BY <2>8, Zenon DEF StaysInStep
<1>9. ASSUME ParseIndexed
      PROVE  StaysInStep
  <2> DEFINE index == DecodeInt(block.data, block.pos, 7)
             entry == IF index.ok THEN GetTableEntryAt(index.value) ELSE NULL
  <2>1. /\ Reading /\ block # NULL /\ block.phase = "reading" /\ block.pos < Len(block.data)
        /\ block.data[block.pos + 1] \in IndexedOctets
    BY <1>9 DEF ParseIndexed, NextIn, Reading, IndexedOctets
  <2>2. block \in Blocks /\ Together(block, dec, enc, resized)
    BY <1>00, <2>1
  <2>3. entry = IF index.ok THEN EntryIn(dec, index.value) ELSE NULL
    BY Zenon DEF GetTableEntryAt, EntryIn
  <2>4. /\ IF entry = NULL THEN Refuse(NULL)
           ELSE IF entry.value = NULL THEN Refuse(NULL)
           ELSE Got(entry, index.pos) /\ UNCHANGED dec
        /\ enc' = enc /\ resized' = resized
    BY <1>9, Zenon DEF ParseIndexed
  <2>5. IF entry = NULL THEN block.malformed \/ MayRefuse(block, resized)
        ELSE IF entry.value = NULL THEN block.malformed
        ELSE entry \in Fields /\ \E u : Agrees(u, dec, resized) /\ Comes(block, u, <<entry>>, index.pos, enc)
    BY <1>0, <2>1, <2>2, <2>3, IndexedIsNext, Zenon
  <2>6. PICK x, p : x = entry /\ p = index.pos
    OBVIOUS
  <2> HIDE DEF index, entry
  <2>7. CASE x = NULL \/ x.value = NULL
    <3>1. Refuse(NULL) /\ (block.malformed \/ MayRefuse(block, resized))
      BY <2>4, <2>5, <2>6, <2>7, Zenon
    <3>2. block' = [block EXCEPT !.phase = "refused", !.at = NULL] /\ dec' = dec
      BY <3>1, Zenon DEF Refuse
    <3>3. Together([block EXCEPT !.phase = "refused", !.at = NULL], dec, enc, resized)
      BY <2>2, <3>1, RefusedTogether, Zenon
    <3>4. block' \in Blocks
      <4>1. NULL \in Nat \cup {NULL}
        OBVIOUS
      <4> QED
        BY <1>0, <2>1, <3>1, <4>1, RefuseFacts, Zenon
    <3>5. Together(block', dec', enc', resized') /\ block' # NULL
      BY <2>4, <3>2, <3>3, <3>4, BlockAssumption, Zenon
    <3> QED
      BY <3>5, Zenon DEF StaysInStep
  <2>8. CASE ~(x = NULL \/ x.value = NULL)
    <3>0. x \in Fields /\ Got(x, p) /\ dec' = dec
      BY <2>4, <2>5, <2>6, <2>8, Zenon
    <3>1. PICK u : x \in Fields /\ Agrees(u, dec, resized) /\ Comes(block, u, <<x>>, p, enc)
      BY <2>5, <2>6, <2>8, <3>0, Zenon
    <3>2. Together([block EXCEPT !.got = Append(@, x), !.pos = p], dec, enc, resized)
      BY <2>1, <2>2, <3>1, GotTogether, Zenon
    <3>3. block' \in Blocks
      <4>1. x \in Entry /\ p \in Nat
        BY <3>1, FieldIsEntry, Zenon DEF Comes
      <4> QED
        BY <1>0, <2>1, <3>0, <4>1, GotFacts, Zenon
    <3>4. Together(block', dec', enc', resized') /\ block' # NULL
      BY <2>4, <3>0, <3>2, <3>3, BlockAssumption, Zenon DEF Got
    <3> QED
      BY <3>4, Zenon DEF StaysInStep
  <2> QED
    BY <2>7, <2>8
<1>10. ASSUME NEW low, NEW high, NextIn(low, high), NEW prefix, NEW indexing,
              ParseLiteral(prefix, indexing), IsLiteral(low, high, prefix, indexing), UNCHANGED <<enc, resized>>
       PROVE  StaysInStep
  <2>1. block' # NULL /\ Together(block', dec', enc, resized)
    BY <1>10, ParseLiteralTogether, Zenon
  <2> QED
    BY <1>10, <2>1, Zenon DEF StaysInStep
<1>11. ASSUME ParseIncremental \/ ParseNeverIndexed \/ ParseWithoutIndexing
       PROVE  StaysInStep
  <2>1. CASE ParseIncremental
    <3>1. IsLiteral(64, 127, 6, TRUE)
      BY DEF IsLiteral
    <3> QED
      BY <1>10, <2>1, <3>1, Zenon DEF ParseIncremental
  <2>2. CASE ParseNeverIndexed
    <3>1. IsLiteral(16, 31, 4, FALSE)
      BY DEF IsLiteral
    <3> QED
      BY <1>10, <2>2, <3>1, Zenon DEF ParseNeverIndexed
  <2>3. CASE ParseWithoutIndexing
    <3>1. IsLiteral(0, 15, 4, FALSE)
      BY DEF IsLiteral
    <3> QED
      BY <1>10, <2>3, <3>1, Zenon DEF ParseWithoutIndexing
  <2> QED
    BY <1>11, <2>1, <2>2, <2>3
<1>12. ASSUME ParseSizeUpdate
       PROVE  StaysInStep
  <2> DEFINE size == DecodeInt(block.data, block.pos, 5)
  <2>1. /\ block # NULL /\ block.phase = "reading" /\ block.pos < Len(block.data)
        /\ block.data[block.pos + 1] \in UpdateOctets
    BY <1>12 DEF ParseSizeUpdate, NextIn, Reading, UpdateOctets
  <2>2. block \in Blocks /\ Together(block, dec, enc, resized)
    BY <1>00, <2>1
  <2>3. size.ok /\ \E u : Agrees(u, SetMax(dec, size.value), resized) /\ Comes(block, u, <<>>, size.pos, enc)
    BY <1>0, <2>1, <2>2, SizeIsNext, Zenon
  <2>4. /\ block' = [block EXCEPT !.pos = size.pos] /\ dec' = SetMax(dec, size.value)
        /\ enc' = enc /\ resized' = resized
    BY <1>12, <2>3, Zenon DEF ParseSizeUpdate
  <2>5. PICK n, p : n = size.value /\ p = size.pos
    OBVIOUS
  <2> HIDE DEF size
  <2>30. PICK u : Agrees(u, SetMax(dec, n), resized) /\ Comes(block, u, <<>>, p, enc)
    BY <2>3, <2>5, Zenon
  <2>6. Together([block EXCEPT !.pos = p], SetMax(dec, n), enc, resized)
    BY <2>1, <2>2, <2>30, SizeTogether, Zenon
  <2>7. block' \in Blocks
    <3>1. p \in Nat
      BY <2>30, Zenon DEF Comes
    <3>2. block' = [block EXCEPT !.pos = p]
      BY <2>4, <2>5, Zenon
    <3> QED
      BY <2>2, <3>1, <3>2 DEF Blocks
  <2>8. Together(block', dec', enc', resized') /\ block' # NULL
    BY <2>4, <2>5, <2>6, <2>7, BlockAssumption, Zenon
  <2> QED
    BY <2>8, Zenon DEF StaysInStep
<1>13. ASSUME Decompressed
       PROVE  StaysInStep
  <2>1. /\ block # NULL /\ block.phase = "reading" /\ block.pos >= Len(block.data)
        /\ enc' = enc /\ dec' = dec /\ resized' = resized
    BY <1>13 DEF Decompressed, Reading
  <2>2. block \in Blocks /\ Together(block, dec, enc, resized) /\ block' = [block EXCEPT !.phase = "read"]
    BY <1>13, <1>00, <2>1, Zenon DEF Decompressed
  <2>3. ~(block.pos < Len(block.data))
    <3>1. block.data \in Seq(Octets) /\ block.pos \in Nat
      BY <2>2, BlockFacts, Zenon
    <3>2. PICK p \in Nat, m \in Nat : p = block.pos /\ m = Len(block.data)
      BY <3>1
    <3> QED
      BY <2>1, <3>2
  <2>4. ~block.malformed /\ Agrees(enc, dec, resized) /\ Len(block.got) = Len(block.sent)
    BY <1>0, <2>2, <2>3, WhatComes, Zenon
  <2>5. block' \in Blocks
    BY <2>2 DEF Blocks
  <2>6. PICK B, C : B = block /\ C = block'
    OBVIOUS
  <2>7. /\ C.data = B.data /\ C.sent = B.sent /\ C.got = B.got /\ C.pos = B.pos
        /\ C.malformed = B.malformed /\ C.phase = "read"
    BY <2>2, <2>6 DEF Blocks
  <2>8. "read" # "refused"
    OBVIOUS
  <2>9. Together(C, dec, enc, resized)
    BY <2>2, <2>4, <2>6, <2>7, <2>8, Zenon DEF Together
  <2>10. Together(block', dec', enc', resized') /\ block' # NULL
    BY <2>1, <2>5, <2>6, <2>9, BlockAssumption, Zenon
  <2> QED
    BY <2>10, Zenon DEF StaysInStep
<1>14. ASSUME Deliver
       PROVE  StaysInStep
  <2>1. /\ block # NULL /\ block.phase = "read" /\ block' = NULL
        /\ enc' = enc /\ dec' = dec /\ resized' = resized
    BY <1>14 DEF Deliver
  <2>2. Agrees(enc, dec, resized)
    BY <1>00, <2>1, Zenon DEF Together
  <2> QED
    BY <2>1, <2>2, Zenon DEF StaysInStep
<1> QED
  BY <1>1, <1>2, <1>4, <1>5, <1>6, <1>7, <1>8, <1>9, <1>11, <1>12, <1>13, <1>14
  DEF Next, Compress, Peer, Decompress

LEMMA InitInStep == Init => InStep
<1> SUFFICES ASSUME Init PROVE InStep
  OBVIOUS
<1>1. PICK size \in TableSizes : enc = EmptyTable(size) /\ dec = EmptyTable(size)
  BY DEF Init
<1>2. enc.max = size
  <2>1. size \in Nat
    BY StringAssumption
  <2> QED
    BY <1>1, <2>1, EmptyTableIsRing
<1>3. enc.max \in Bounds
  BY <1>2 DEF Bounds
<1>4. Agrees(enc, enc, resized)
  <2>1. TableInv(enc)
    BY InitInv DEF HpackInv
  <2> QED
    BY <1>3, <2>1, AgreesWithItself, Zenon
<1>5. dec = enc /\ block = NULL
  BY <1>1 DEF Init
<1> QED
  BY <1>3, <1>4, <1>5, Zenon DEF InStep

LEMMA NextInStep == HpackInv /\ InStep /\ [Next]_vars => InStep'
<1> SUFFICES ASSUME HpackInv, InStep, [Next]_vars PROVE InStep'
  OBVIOUS
<1>1. CASE Next
  <2>1. StaysInStep /\ enc'.max \in Bounds /\ dec'.max \in Bounds
    BY <1>1, InStepStep, EncBound, DecBound
  <2> QED
    BY <2>1 DEF StaysInStep, InStep
<1>2. CASE UNCHANGED vars
  BY <1>2 DEF vars, InStep
<1> QED
  BY <1>1, <1>2

LEMMA InStepHolds == Spec => [](HpackInv /\ InStep)
<1>1. Init => HpackInv /\ InStep
  BY InitInv, InitInStep
<1>2. (HpackInv /\ InStep) /\ [Next]_vars => (HpackInv /\ InStep)'
  BY NextInv, NextInStep
<1> QED
  BY <1>1, <1>2, PTL DEF Spec

\* After any blocks with any fields, options, size changes, evictions and
\* announced sizes, those of a peer that sends more than this compressor does
\* too, the tables never name different fields by one index whenever no block is
\* under way; the decompressor misses none of the compressor's entries unless a
\* smaller size was announced, and without any both are the same.
THEOREM TablesStayInStep == Spec => []TablesInStep
<1>1. HpackInv /\ InStep => TablesInStep
  <2> SUFFICES ASSUME HpackInv, InStep, block = NULL
               PROVE  /\ \/ IsPrefix(AsList(enc), AsList(dec))
                         \/ IsPrefix(AsList(dec), AsList(enc))
                      /\ resized # "shrunk" => IsPrefix(AsList(enc), AsList(dec))
                      /\ resized = "no" => enc = dec
    BY DEF TablesInStep
  <2>1. PICK s \in Seq(Entry), u \in Seq(Entry) : s = AsList(enc) /\ u = AsList(dec)
    BY ListOfRing DEF HpackInv, TableInv, Accounted
  <2>2. Agrees(enc, dec, resized)
    BY DEF InStep
  <2>3. /\ Starts(s, u) \/ Starts(u, s)
        /\ resized # "shrunk" => Starts(s, u)
        /\ resized = "no" => enc = dec
    BY <2>1, <2>2, Zenon DEF Agrees
  <2>4. /\ Starts(s, u) => IsPrefix(s, u)
        /\ Starts(u, s) => IsPrefix(u, s)
    BY StartsIsPrefix, Zenon
  <2> QED
    BY <2>1, <2>3, <2>4, Zenon
<1> QED
  BY <1>1, InStepHolds, PTL

\* What is read is what was sent: the fields come out in order and in full, and
\* nothing that was not sent is taken for a field, whatever the fields, the
\* options and the announced sizes, of a malformed block neither.  A well-formed
\* block is refused at nothing but an empty value at its end, a string that
\* exactly fills the memory of the Huffman decoder, or after an announced size
\* below the compressor's.
THEOREM FieldsRoundTrip == Spec => []RoundTrip
<1>1. HpackInv /\ InStep => RoundTrip
  <2> SUFFICES ASSUME HpackInv, InStep, block # NULL
               PROVE  RoundTrip
    BY DEF RoundTrip
  <2>1. block \in Blocks /\ Together(block, dec, enc, resized)
    BY DEF HpackInv, BlockInv, InStep
  <2>2. PICK got \in Seq(Entry), sent \in Seq(Entry), n \in Nat, m \in Nat :
          got = block.got /\ sent = block.sent /\ n = Len(got) /\ m = Len(sent)
    BY <2>1, BlockFacts, Zenon
  <2>3. /\ Lies(got, sent, 0)
        /\ block.phase = "read" => ~block.malformed /\ n = m
        /\ block.phase = "refused" /\ ~block.malformed => MayRefuse(block, resized)
    BY <2>1, <2>2, Zenon DEF Together
  <2>4. n <= m /\ \A i \in 1..n : sent[i] = got[i]
    BY <2>2, <2>3 DEF Lies
  <2>5. IsPrefix(got, sent)
    BY <2>2, <2>4 DEF IsPrefix
  <2>6. n = m => got = sent
    <3>1. got \in [1..n -> Entry] /\ sent \in [1..m -> Entry]
      BY <2>2
    <3> QED
      BY <2>4, <3>1
  <2>7. ~(n + 1 < m) /\ n < m => n + 1 = m
    OBVIOUS
  <2>8. ASSUME block.phase = "refused", ~block.malformed
        PROVE  /\ n < m
               /\ LET f == sent[n + 1]
                  IN  \/ f.value = <<>> /\ n + 1 = m
                      \/ ~Fits(f.key) \/ ~Fits(f.value) \/ resized = "shrunk"
    <3>1. n < m /\ ~Must(sent[n + 1], n + 1 < m, resized)
      BY <2>2, <2>3, <2>8, Zenon DEF MayRefuse
    <3> QED
      BY <2>7, <3>1, Zenon DEF Must
  <2> QED
    BY <2>2, <2>3, <2>5, <2>6, <2>8, Zenon DEF RoundTrip
<1> QED
  BY <1>1, InStepHolds, PTL

-----------------------------------------------------------------------------
(* The decompressor's list holds what was sent.                            *)

\* The decompressor's table is the list of RFC 7541 that holds nothing but
\* fields that were sent, under none but the sizes that were announced or sent,
\* although all it sees are octets: an index, a length or a Huffman code that
\* was read wrongly would add another entry or set another size.
THEOREM DecompressorKeepsToTheFields == Spec => ImplementsHpackList
<1>1. Init => List!Init
  <2> SUFFICES ASSUME Init PROVE List!Init
    OBVIOUS
  <2>1. PICK size \in TableSizes : dec = EmptyTable(size)
    BY DEF Init
  <2>2. size \in Nat
    BY StringAssumption
  <2>3. AsList(dec) = <<>> /\ dec.max = size
    BY <2>1, <2>2, EmptyTableAccounted, EmptyTableIsRing
  <2> QED
    BY <2>3 DEF List!Init
<1>2. (HpackInv /\ InStep) /\ [Next]_vars => [List!Next]_<<AsList(dec), dec.max>>
  <2> SUFFICES ASSUME HpackInv, InStep, [Next]_vars
               PROVE  List!Next \/ UNCHANGED <<AsList(dec), dec.max>>
    OBVIOUS
  <2>1. TableInv(dec)
    BY DEF HpackInv
  <2>2. AsList(dec)' = AsList(dec')
    BY DEF AsList, At
  <2>3. DecFieldStep
    BY DecFieldSteps DEF vars, DecFieldStep
  <2>4. CASE UNCHANGED dec
    BY <2>2, <2>4
  <2>5. ASSUME NEW f \in Fields, dec' = InsertEntry(dec, f)
        PROVE  List!Next
    <3>1. /\ AsList(dec') = IF EntrySize(f) > dec.max THEN <<>>
                            ELSE <<f>> \o List!Newest(AsList(dec), dec.max - EntrySize(f))
          /\ (dec').max = dec.max
      BY <2>1, <2>5, FieldIsEntry, InsertEntryFacts
    <3>2. List!Add(f)
      BY <2>2, <3>1 DEF List!Add
    <3> QED
      BY <3>2 DEF List!Next
  <2>6. ASSUME NEW size \in TableSizes \cup UpdateSizes, dec' = SetMax(dec, size)
        PROVE  List!Next
    <3>1. AsList(dec') = List!Newest(AsList(dec), size) /\ (dec').max = size
      BY <2>1, <2>6, StringAssumption, SetMaxFacts
    <3>2. List!SetBound(size)
      BY <2>2, <3>1 DEF List!SetBound
    <3> QED
      BY <3>2 DEF List!Next
  <2> QED
    BY <2>3, <2>4, <2>5, <2>6 DEF DecFieldStep
<1> QED
  BY <1>1, <1>2, InStepHolds, PTL DEF Spec, ImplementsHpackList, List!Spec
=============================================================================
