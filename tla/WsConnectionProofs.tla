-------------------------- MODULE WsConnectionProofs --------------------------
(***************************************************************************)
(* Proofs about WsConnection, for any frames in any order, any arguments   *)
(* of the handshake and any number of frames.                              *)
(***************************************************************************)
EXTENDS WsConnection, WellFoundedInduction, SequenceTheorems, TLAPS

-----------------------------------------------------------------------------
(* Induction, and the loops that the model writes as recursive functions.  *)

\* A set of naturals that is not empty has a least element.
LEMMA LeastNat ==
  ASSUME NEW T \in SUBSET Nat, T # {}
  PROVE  \E x \in T : \A y \in T : x <= y
<1> DEFINE R == OpToRel(<, Nat)
<1>1. IsWellFoundedOn(R, Nat)
  BY NatLessThanWellFounded, Zenon
<1>2. \A x, y \in Nat : y < x => <<y, x>> \in R
  BY DEF OpToRel
<1> HIDE DEF R
<1>3. PICK x \in T : \A y \in T : ~ (<<y, x>> \in R)
  BY <1>1, WFMin
<1>4. \A y \in T : ~(y < x)
  BY <1>2, <1>3
<1>5. \A y \in T : x <= y
  BY <1>4
<1> QED
  BY <1>5

\* A set of numbers up to n has a greatest element, which is its Max.
LEMMA GreatestNat ==
  ASSUME NEW n \in Nat, NEW T \in SUBSET (1..n), T # {}
  PROVE  Max(T) \in T /\ \A y \in T : Max(T) >= y
<1> DEFINE U == {n - x : x \in T}
<1>1. U \in SUBSET Nat /\ U # {}
  <2>1. \A x \in T : n - x \in Nat
    OBVIOUS
  <2>2. PICK x \in T : TRUE
    OBVIOUS
  <2>3. n - x \in U
    BY <2>2
  <2> QED
    BY <2>1, <2>3
<1>2. PICK u \in U : \A y \in U : u <= y
  BY <1>1, LeastNat
<1>3. PICK x \in T : u = n - x
  BY <1>2
<1>4. \A y \in T : x >= y
  <2> SUFFICES ASSUME NEW y \in T PROVE x >= y
    OBVIOUS
  <2>1. n - y \in U
    OBVIOUS
  <2>2. u <= n - y
    BY <1>2, <2>1
  <2> QED
    BY <1>3, <2>2
<1>5. \E z \in T : \A y \in T : z >= y
  BY <1>4
<1> QED
  BY <1>5 DEF Max

\* Induction over the turns of a loop.
LEMMA LoopInduction ==
  ASSUME NEW N \in Nat, NEW T, 0 \in T, \A n \in 0..(N - 1) : n \in T => n + 1 \in T
  PROVE  \A n \in 0..N : n \in T
<1> DEFINE U == {n \in 0..N : n \notin T}
<1> SUFFICES ASSUME U # {} PROVE FALSE
  OBVIOUS
<1>1. U \in SUBSET Nat
  OBVIOUS
<1>2. PICK x \in U : \A y \in U : x <= y
  BY <1>1, LeastNat
<1>3. x \in 0..N /\ x \notin T /\ x # 0
  BY <1>2
<1>4. x - 1 \in 0..(N - 1) /\ x - 1 \in 0..N /\ (x - 1) + 1 = x /\ ~(x <= x - 1)
  BY <1>3
<1>5. x - 1 \in T
  BY <1>2, <1>4
<1> QED
  BY <1>3, <1>4, <1>5

\* A loop of N turns from a, where F[n][x] is what turn n makes of x, stays in
\* S; f is the recursive function of its values.
LoopStays(N, S, a, F) == N \in Nat /\ a \in S /\ \A n \in 1..N : \A x \in S : F[n][x] \in S
IsLoop(f, N, S, a, F) ==
    f \in [0..N -> S] /\ f = [n \in 0..N |-> IF n = 0 THEN a ELSE F[n][f[n - 1]]]

\* The recursive function of a loop exists.
LEMMA LoopExists ==
  ASSUME NEW N, NEW S, NEW a, NEW F, LoopStays(N, S, a, F)
  PROVE  \E f : IsLoop(f, N, S, a, F)
<1> USE DEF LoopStays
<1> DEFINE Upto(g, k) == g \in [0..k -> S] /\ g[0] = a /\ \A i \in 1..k : g[i] = F[i][g[i - 1]]
           T == {k \in 0..N : \E g : Upto(g, k)}
<1>1. 0 \in T
  <2>1. Upto([i \in 0..0 |-> a], 0)
    OBVIOUS
  <2>2. \E g : Upto(g, 0)
    BY <2>1
  <2> HIDE DEF Upto
  <2> QED
    BY <2>2
<1>2. ASSUME NEW k \in 0..(N - 1), k \in T PROVE k + 1 \in T
  <2>1. k \in Nat /\ k + 1 \in 1..N /\ k + 1 \in 0..N
    OBVIOUS
  <2>2. PICK g : Upto(g, k)
    BY <1>2
  <2> DEFINE h == [i \in 0..(k + 1) |-> IF i <= k THEN g[i] ELSE F[k + 1][g[k]]]
  <2>3. F[k + 1][g[k]] \in S
    BY <2>1, <2>2
  <2>4. h \in [0..(k + 1) -> S]
    BY <2>1, <2>2, <2>3
  <2>5. h[0] = a
    BY <2>1, <2>2
  <2>6. ASSUME NEW i \in 1..(k + 1) PROVE h[i] = F[i][h[i - 1]]
    <3>1. i - 1 \in 0..k /\ i - 1 \in 0..(k + 1) /\ i - 1 <= k /\ h[i - 1] = g[i - 1]
      BY <2>1
    <3>2. CASE i <= k
      BY <2>1, <2>2, <3>1, <3>2
    <3>3. CASE i = k + 1
      <4>1. ~(k + 1 <= k) /\ k + 1 \in 0..(k + 1) /\ i - 1 = k
        BY <2>1, <3>3
      <4> QED
        BY <3>1, <3>3, <4>1
    <3> QED
      BY <2>1, <3>2, <3>3
  <2>7. Upto(h, k + 1)
    <3> HIDE DEF h
    <3> QED
      BY <2>4, <2>5, <2>6
  <2>8. \E f : Upto(f, k + 1)
    BY <2>7
  <2> HIDE DEF Upto
  <2> QED
    BY <2>1, <2>8
<1>3. N \in T
  <2> HIDE DEF T
  <2>1. \A n \in 0..N : n \in T
    BY <1>1, <1>2, LoopInduction
  <2> QED
    BY <2>1
<1>4. PICK f : Upto(f, N)
  <2> HIDE DEF Upto
  <2> QED
    BY <1>3
<1>5. f = [n \in 0..N |-> f[n]] /\ \A n \in 0..N : f[n] = IF n = 0 THEN a ELSE F[n][f[n - 1]]
  BY <1>4
<1>6. f = [n \in 0..N |-> IF n = 0 THEN a ELSE F[n][f[n - 1]]]
  BY <1>5
<1> QED
  BY <1>4, <1>6 DEF IsLoop

-----------------------------------------------------------------------------
(* Selections.                                                             *)

\* The parts are sequences of elements of T, and f[k] is what the first k places
\* amount to.
PartsIn(N, P, s, T) == \A k \in 1..N : k \in P => s[k] \in Seq(T)
JoinsBy(f, N, P, s, T) ==
    /\ f \in [0..N -> Seq(T)] /\ f[0] = <<>>
    /\ \A k \in 1..N : f[k] = IF k \in P THEN f[k - 1] \o s[k] ELSE f[k - 1]

\* What Joined computes, place by place.
LEMMA JoinedLoop ==
  ASSUME NEW N \in Nat, NEW P, NEW s, NEW T, PartsIn(N, P, s, T)
  PROVE  \E f : JoinsBy(f, N, P, s, T) /\ Joined(N, P, s) = f[N]
<1> USE DEF PartsIn
<1> DEFINE S == Seq(T)
           F == [n \in 1..N |-> [x \in S |-> IF n \in P THEN x \o s[n] ELSE x]]
           Is(g) == g = [k \in 0..N |-> IF k = 0 THEN <<>>
                           ELSE IF k \in P THEN g[k - 1] \o s[k] ELSE g[k - 1]]
<1>1. <<>> \in S
  OBVIOUS
<1>2. \A n \in 1..N : \A x \in S :
         F[n][x] = (IF n \in P THEN x \o s[n] ELSE x) /\ F[n][x] \in S
  OBVIOUS
<1> HIDE DEF F, S
<1>3. LoopStays(N, S, <<>>, F)
  BY <1>1, <1>2 DEF LoopStays
<1>4. PICK f : IsLoop(f, N, S, <<>>, F)
  BY <1>3, LoopExists
<1>5. f \in [0..N -> S] /\ f[0] = <<>>
  BY <1>4 DEF IsLoop
<1>6. \A n \in 1..N : n \in 0..N /\ n - 1 \in 0..N /\ n # 0
  OBVIOUS
<1>7. \A n \in 1..N : f[n] = IF n \in P THEN f[n - 1] \o s[n] ELSE f[n - 1]
  BY <1>2, <1>4, <1>5, <1>6 DEF IsLoop
<1>8. Is(f)
  <2>1. \A k \in 0..N : k = 0 \/ k \in 1..N
    OBVIOUS
  <2>2. f = [k \in 0..N |-> f[k]]
    BY <1>5
  <2> QED
    BY <1>5, <1>7, <2>1, <2>2
<1>9. Joined(N, P, s) = (CHOOSE g : Is(g))[N]
  BY DEF Joined
<1>10. PICK g : Is(g) /\ Joined(N, P, s) = g[N]
  <2> HIDE DEF Is
  <2> QED
    BY <1>8, <1>9
<1> DEFINE A == {n \in 0..N : g[n] = f[n]}
<1>11. 0 \in A
  BY <1>5, <1>10
<1>12. ASSUME NEW n \in 0..(N - 1), n \in A PROVE n + 1 \in A
  <2>1. n + 1 \in 1..N /\ n + 1 \in 0..N /\ n + 1 # 0 /\ (n + 1) - 1 = n
    OBVIOUS
  <2>2. g[n + 1] = IF n + 1 \in P THEN g[n] \o s[n + 1] ELSE g[n]
    BY <1>10, <2>1
  <2>3. f[n + 1] = IF n + 1 \in P THEN f[n] \o s[n + 1] ELSE f[n]
    BY <1>7, <2>1
  <2> QED
    BY <1>12, <2>1, <2>2, <2>3
<1> HIDE DEF A
<1>13. N \in A
  <2>1. \A n \in 0..N : n \in A
    BY <1>11, <1>12, LoopInduction
  <2> QED
    BY <2>1
<1>14. Joined(N, P, s) = f[N]
  BY <1>10, <1>13 DEF A
<1>15. JoinsBy(f, N, P, s, T)
  BY <1>5, <1>7 DEF S, JoinsBy
<1> QED
  BY <1>14, <1>15

\* Two loops that make the same turns end the same.
LEMMA JoinedAgree ==
  ASSUME NEW N \in Nat, NEW P, NEW Q, NEW s, NEW t, NEW T,
         PartsIn(N, P, s, T),
         \A k \in 1..N : (k \in P <=> k \in Q) /\ (k \in P => s[k] = t[k])
  PROVE  Joined(N, P, s) = Joined(N, Q, t)
<1>1. PICK f : JoinsBy(f, N, P, s, T) /\ Joined(N, P, s) = f[N]
  BY JoinedLoop
<1>2. PICK g : JoinsBy(g, N, Q, t, T) /\ Joined(N, Q, t) = g[N]
  <2>1. PartsIn(N, Q, t, T)
    BY DEF PartsIn
  <2> QED
    BY <2>1, JoinedLoop
<1> USE DEF JoinsBy
<1> DEFINE A == {n \in 0..N : g[n] = f[n]}
<1>3. 0 \in A
  BY <1>1, <1>2
<1>4. ASSUME NEW n \in 0..(N - 1), n \in A PROVE n + 1 \in A
  <2>1. n + 1 \in 1..N /\ n + 1 \in 0..N /\ (n + 1) - 1 = n
    OBVIOUS
  <2>2. f[n + 1] = IF n + 1 \in P THEN f[n] \o s[n + 1] ELSE f[n]
    BY <1>1, <2>1
  <2>3. g[n + 1] = IF n + 1 \in Q THEN g[n] \o t[n + 1] ELSE g[n]
    BY <1>2, <2>1
  <2> QED
    BY <1>4, <2>1, <2>2, <2>3
<1> HIDE DEF A
<1>5. \A n \in 0..N : n \in A
  BY <1>3, <1>4, LoopInduction
<1>6. N \in A
  BY <1>5
<1> QED
  BY <1>1, <1>2, <1>6 DEF A

LEMMA JoinedZero ==
  ASSUME NEW P, NEW s
  PROVE  Joined(0, P, s) = <<>>
<1>1. PartsIn(0, P, s, {})
  BY DEF PartsIn
<1> QED
  BY <1>1, JoinedLoop DEF JoinsBy

\* One more place.
LEMMA JoinedNext ==
  ASSUME NEW n \in Nat, NEW P, NEW s, NEW T, PartsIn(n + 1, P, s, T)
  PROVE  /\ Joined(n, P, s) \in Seq(T)
         /\ Joined(n + 1, P, s) = IF n + 1 \in P THEN Joined(n, P, s) \o s[n + 1]
                                  ELSE Joined(n, P, s)
<1> DEFINE N == n + 1
<1>0. N \in Nat /\ N \in 1..N /\ N - 1 = n /\ n \in 0..N
  OBVIOUS
<1> HIDE DEF N
<1>1. PICK f : JoinsBy(f, N, P, s, T) /\ Joined(N, P, s) = f[N]
  <2>1. PartsIn(N, P, s, T)
    BY DEF N, PartsIn
  <2> QED
    BY <1>0, <2>1, JoinedLoop
<1>2. PartsIn(n, P, s, T)
  BY <1>0 DEF N, PartsIn
<1>3. PICK g : JoinsBy(g, n, P, s, T) /\ Joined(n, P, s) = g[n]
  BY <1>2, JoinedLoop
<1> USE DEF JoinsBy
<1> DEFINE A == {k \in 0..n : g[k] = f[k]}
<1>4. 0 \in A
  BY <1>1, <1>3
<1>5. ASSUME NEW k \in 0..(n - 1), k \in A PROVE k + 1 \in A
  <2>1. k + 1 \in 1..N /\ k + 1 \in 1..n /\ k + 1 \in 0..n /\ (k + 1) - 1 = k
    BY DEF N
  <2>2. f[k + 1] = IF k + 1 \in P THEN f[k] \o s[k + 1] ELSE f[k]
    BY <1>1, <2>1
  <2>3. g[k + 1] = IF k + 1 \in P THEN g[k] \o s[k + 1] ELSE g[k]
    BY <1>3, <2>1
  <2> QED
    BY <1>5, <2>1, <2>2, <2>3
<1> HIDE DEF A
<1>6. \A k \in 0..n : k \in A
  BY <1>4, <1>5, LoopInduction
<1>7. g[n] = f[n]
  BY <1>6 DEF A
<1>8. f[N] = IF N \in P THEN f[n] \o s[N] ELSE f[n]
  BY <1>0, <1>1
<1> QED
  BY <1>0, <1>1, <1>3, <1>7, <1>8 DEF N

\* Places beyond the end do not count.
LEMMA JoinedNone ==
  ASSUME NEW n \in Nat, NEW P, NEW s, \A k \in 1..n : k \notin P
  PROVE  Joined(n, P, s) = <<>>
<1>1. PartsIn(n, P, s, {})
  BY DEF PartsIn
<1>2. Joined(n, P, s) \in Seq({})
  <2>1. PICK f : JoinsBy(f, n, P, s, {}) /\ Joined(n, P, s) = f[n]
    BY <1>1, JoinedLoop, Zenon
  <2> QED
    BY <2>1 DEF JoinsBy
<1> QED
  BY <1>2

\* The same for elements.
LEMMA SelectedAgree ==
  ASSUME NEW n \in Nat, NEW P, NEW Q, NEW v, NEW w,
         \A k \in 1..n : (k \in P <=> k \in Q) /\ (k \in P => v[k] = w[k])
  PROVE  Selected(n, P, v) = Selected(n, Q, w)
<1> DEFINE s == [k \in P |-> <<v[k]>>]
           t == [k \in Q |-> <<w[k]>>]
           T == {v[k] : k \in 1..n}
<1>1. PartsIn(n, P, s, T)
  <2>1. \A k \in 1..n : v[k] \in T
    OBVIOUS
  <2>2. \A x \in T : <<x>> \in Seq(T)
    OBVIOUS
  <2>3. \A k \in P : s[k] = <<v[k]>>
    OBVIOUS
  <2> HIDE DEF T, s
  <2> QED
    BY <2>1, <2>2, <2>3 DEF PartsIn
<1>2. \A k \in 1..n : (k \in P <=> k \in Q) /\ (k \in P => s[k] = t[k])
  OBVIOUS
<1>3. Joined(n, P, s) = Joined(n, Q, t)
  <2> HIDE DEF s, t, T
  <2> QED
    BY <1>1, <1>2, JoinedAgree
<1> QED
  BY <1>3 DEF Selected

LEMMA SelectedZero ==
  ASSUME NEW P, NEW v
  PROVE  Selected(0, P, v) = <<>>
BY JoinedZero DEF Selected

LEMMA SelectedNext ==
  ASSUME NEW n \in Nat, NEW P, NEW v
  PROVE  /\ Selected(n, P, v) \in Seq({v[k] : k \in 1..(n + 1)})
         /\ Selected(n + 1, P, v) = IF n + 1 \in P THEN Append(Selected(n, P, v), v[n + 1])
                                    ELSE Selected(n, P, v)
<1> DEFINE s == [k \in P |-> <<v[k]>>]
           T == {v[k] : k \in 1..(n + 1)}
<1>1. PartsIn(n + 1, P, s, T)
  <2>1. \A k \in 1..(n + 1) : v[k] \in T
    OBVIOUS
  <2>2. \A x \in T : <<x>> \in Seq(T)
    OBVIOUS
  <2>3. \A k \in P : s[k] = <<v[k]>>
    OBVIOUS
  <2> HIDE DEF T, s
  <2> QED
    BY <2>1, <2>2, <2>3 DEF PartsIn
<1>2. n + 1 \in P => s[n + 1] = <<v[n + 1]>>
  OBVIOUS
<1>3. \A x \in Seq(T), y \in T : x \o <<y>> = Append(x, y)
  OBVIOUS
<1>4. v[n + 1] \in T
  OBVIOUS
<1>5. Selected(n, P, v) = Joined(n, P, s) /\ Selected(n + 1, P, v) = Joined(n + 1, P, s)
  BY DEF Selected
<1> HIDE DEF s, T
<1>6. /\ Joined(n, P, s) \in Seq(T)
      /\ Joined(n + 1, P, s) = IF n + 1 \in P THEN Joined(n, P, s) \o s[n + 1]
                               ELSE Joined(n, P, s)
  BY <1>1, JoinedNext
<1>7. Selected(n, P, v) \in Seq(T)
  BY <1>5, <1>6
<1>8. Selected(n + 1, P, v) = IF n + 1 \in P THEN Append(Selected(n, P, v), v[n + 1])
                              ELSE Selected(n, P, v)
  BY <1>2, <1>3, <1>4, <1>5, <1>6
<1> QED
  BY <1>7, <1>8 DEF T

-----------------------------------------------------------------------------
(* What a stream means depends only on the frames so far.                  *)

Byte == 0..255
Frame == [op : 0..15, fin : BOOLEAN, rsv : 0..7, payload : Seq(Byte)]
Starts(h, k) == {i \in 1..k : h[i].op \in {Text, Bin}}

\* Two streams begin with the same k frames.
Agree(g, h, k) ==
    /\ g \in Seq(Frame) /\ h \in Seq(Frame) /\ k \in 0..Len(g) /\ k \in 0..Len(h)
    /\ \A i \in 1..k : g[i] = h[i]

LEMMA OpenHasStart ==
  ASSUME NEW h, NEW k \in Nat
  PROVE  /\ MessageOpen(h, k) => Starts(h, k) # {}
         /\ MessageOpen(h, k + 1) => Starts(h, k) # {}
<1>1. ASSUME MessageOpen(h, k) PROVE Starts(h, k) # {}
  <2>1. PICK j \in 1..(k - 1) : h[j].op \in {Text, Bin}
    BY <1>1 DEF MessageOpen
  <2>2. j \in 1..k
    OBVIOUS
  <2> QED
    BY <2>1, <2>2 DEF Starts
<1>2. ASSUME MessageOpen(h, k + 1) PROVE Starts(h, k) # {}
  <2>1. PICK j \in 1..((k + 1) - 1) : h[j].op \in {Text, Bin}
    BY <1>2 DEF MessageOpen
  <2>2. j \in 1..k
    OBVIOUS
  <2> QED
    BY <2>1, <2>2 DEF Starts
<1> QED
  BY <1>1, <1>2

LEMMA OpenAgree ==
  ASSUME NEW g, NEW h, NEW k \in Nat, Agree(g, h, k), NEW m \in 1..(k + 1)
  PROVE  MessageOpen(g, m) <=> MessageOpen(h, m)
<1>1. \A j \in 1..(m - 1) : g[j] = h[j]
  BY DEF Agree
<1>2. \A j \in 1..(m - 1) : \A i \in (j + 1)..(m - 1) : g[i] = h[i]
  BY <1>1
<1> QED
  BY <1>1, <1>2 DEF MessageOpen

LEMMA MaxOfStarts ==
  ASSUME NEW h, NEW k \in Nat, Starts(h, k) # {}
  PROVE  Max(Starts(h, k)) \in 1..k /\ h[Max(Starts(h, k))].op \in {Text, Bin}
<1>1. Starts(h, k) \in SUBSET (1..k)
  BY DEF Starts
<1>2. Max(Starts(h, k)) \in Starts(h, k)
  BY <1>1, GreatestNat
<1> QED
  BY <1>2 DEF Starts

LEMMA MessageAgree ==
  ASSUME NEW g, NEW h, NEW k \in Nat, Agree(g, h, k), Starts(h, k) # {}
  PROVE  /\ FirstFrame(g, k) = FirstFrame(h, k)
         /\ WholePayload(g, k) = WholePayload(h, k)
         /\ MessageAt(g, k) = MessageAt(h, k)
<1>1. Starts(g, k) = Starts(h, k)
  BY DEF Starts, Agree
<1>2. PICK j \in 1..k : j = Max(Starts(h, k))
  BY MaxOfStarts
<1>3. FirstFrame(g, k) = g[j] /\ FirstFrame(h, k) = h[j] /\ g[j] = h[j]
  BY <1>1, <1>2 DEF FirstFrame, Starts, Agree
<1>4. {i \in 1..k : i >= j /\ IsData(g[i])} = {i \in 1..k : i >= j /\ IsData(h[i])}
  BY DEF Agree, IsData
<1>5. [i \in 1..k |-> g[i].payload] = [i \in 1..k |-> h[i].payload]
  BY DEF Agree
<1>6. WholePayload(g, k) = WholePayload(h, k)
  BY <1>1, <1>2, <1>4, <1>5, Zenon DEF WholePayload, Starts
<1> QED
  BY <1>3, <1>6 DEF MessageAt

LEMMA ViolationAgree ==
  ASSUME NEW g, NEW h, NEW k \in Nat \ {0}, Agree(g, h, k)
  PROVE  /\ ProtocolViolation(g, k) <=> ProtocolViolation(h, k)
         /\ Completes(g, k) <=> Completes(h, k)
         /\ g[k] = h[k]
<1>1. g[k] = h[k]
  BY DEF Agree
<1>2. MessageOpen(g, k) <=> MessageOpen(h, k)
  BY OpenAgree
<1> QED
  BY <1>1, <1>2 DEF ProtocolViolation, Completes

\* A data frame that is no violation belongs to a message.
LEMMA DataHasStart ==
  ASSUME NEW h, NEW k \in Nat \ {0}, ~ProtocolViolation(h, k), IsData(h[k])
  PROVE  Starts(h, k) # {}
<1>1. CASE h[k].op \in {Text, Bin}
  BY <1>1 DEF Starts
<1>2. CASE h[k].op = Cont
  BY <1>2, OpenHasStart DEF ProtocolViolation
<1> QED
  BY <1>1, <1>2 DEF IsData

LEMMA CodeAgree ==
  ASSUME NEW g, NEW h, NEW k \in Nat \ {0}, Agree(g, h, k)
  PROVE  /\ CodeFor(g, k) = CodeFor(h, k)
         /\ CodeFor(h, k) = 0 /\ Completes(h, k) => MessageAt(g, k) = MessageAt(h, k)
<1>1. /\ ProtocolViolation(g, k) <=> ProtocolViolation(h, k)
      /\ Completes(g, k) <=> Completes(h, k)
      /\ g[k] = h[k]
  BY ViolationAgree
<1>2. CASE ProtocolViolation(h, k)
  BY <1>1, <1>2 DEF CodeFor, CloseCodeProtocolError
<1>3. CASE ~ProtocolViolation(h, k)
  <2>1. Completes(h, k) => /\ FirstFrame(g, k) = FirstFrame(h, k)
                           /\ WholePayload(g, k) = WholePayload(h, k)
                           /\ MessageAt(g, k) = MessageAt(h, k)
    BY <1>3, DataHasStart, MessageAgree DEF Completes
  <2>2. BadPayload(g, k) <=> BadPayload(h, k)
    BY <1>1, <2>1 DEF BadPayload
  <2> QED
    BY <1>1, <1>3, <2>1, <2>2 DEF CodeFor
<1> QED
  BY <1>2, <1>3

-----------------------------------------------------------------------------
(* One more frame.                                                         *)

LEMMA AppendAgrees ==
  ASSUME NEW h \in Seq(Frame), NEW f \in Frame
  PROVE  LET g == Append(h, f)  n == Len(h) IN
         /\ n \in Nat /\ g \in Seq(Frame) /\ Len(g) = n + 1 /\ g[n + 1] = f
         /\ DOMAIN h = 1..n /\ DOMAIN g = 1..(n + 1)
         /\ \A k \in 0..n : Agree(g, h, k)
<1> DEFINE g == Append(h, f)
           n == Len(h)
<1>1. n \in Nat /\ g \in Seq(Frame) /\ Len(g) = n + 1 /\ g[n + 1] = f
  OBVIOUS
<1>2. \A i \in 1..n : g[i] = h[i]
  OBVIOUS
<1>3. DOMAIN h = 1..n /\ DOMAIN g = 1..(n + 1)
  OBVIOUS
<1>4. \A k \in 0..n : k \in 0..Len(g) /\ \A i \in 1..k : i \in 1..n
  BY <1>1
<1>5. \A k \in 0..n : Agree(g, h, k)
  <2> HIDE DEF g, n
  <2> QED
    BY <1>1, <1>2, <1>4 DEF Agree, n
<1> QED
  BY <1>1, <1>3, <1>5

LEMMA OpenNext ==
  ASSUME NEW h \in Seq(Frame), NEW f \in Frame
  PROVE  LET g == Append(h, f)  n == Len(h) IN
         MessageOpen(g, n + 2) <=>
            \/ f.op \in {Text, Bin} /\ ~f.fin
            \/ MessageOpen(h, n + 1) /\ (f.op = Cont => ~f.fin)
<1> DEFINE g == Append(h, f)
           n == Len(h)
<1>1. n \in Nat /\ g[n + 1] = f /\ \A i \in 1..n : g[i] = h[i]
  OBVIOUS
<1> HIDE DEF g, n
<1>2. MessageOpen(g, n + 2) <=> \E j \in 1..(n + 1) :
        /\ g[j].op \in {Text, Bin} /\ ~g[j].fin
        /\ \A i \in (j + 1)..(n + 1) : g[i].op = Cont => ~g[i].fin
  BY <1>1 DEF MessageOpen
<1>3. MessageOpen(h, n + 1) <=> \E j \in 1..n :
        /\ g[j].op \in {Text, Bin} /\ ~g[j].fin
        /\ \A i \in (j + 1)..n : g[i].op = Cont => ~g[i].fin
  <2>1. (n + 1) - 1 = n /\ \A j \in 1..n : \A i \in (j + 1)..n : g[i] = h[i]
    BY <1>1
  <2> QED
    BY <1>1, <2>1 DEF MessageOpen
<1>4. \A j \in 1..n : (\A i \in (j + 1)..(n + 1) : g[i].op = Cont => ~g[i].fin) <=>
         /\ \A i \in (j + 1)..n : g[i].op = Cont => ~g[i].fin
         /\ f.op = Cont => ~f.fin
  <2>1. \A j \in 1..n : (j + 1)..(n + 1) = (j + 1)..n \cup {n + 1}
    BY <1>1
  <2> QED
    BY <1>1, <2>1
<1>5. MessageOpen(g, n + 2) <=>
        \/ /\ g[n + 1].op \in {Text, Bin} /\ ~g[n + 1].fin
           /\ \A i \in ((n + 1) + 1)..(n + 1) : g[i].op = Cont => ~g[i].fin
        \/ \E j \in 1..n :
             /\ g[j].op \in {Text, Bin} /\ ~g[j].fin
             /\ \A i \in (j + 1)..(n + 1) : g[i].op = Cont => ~g[i].fin
  <2>1. 1..(n + 1) = 1..n \cup {n + 1}
    BY <1>1
  <2> QED
    BY <1>2, <2>1
<1>6. ((n + 1) + 1)..(n + 1) = {}
  BY <1>1
<1> QED
  BY <1>1, <1>3, <1>4, <1>5, <1>6 DEF g, n

\* A frame that begins a message.
LEMMA FirstNext ==
  ASSUME NEW h \in Seq(Frame), NEW f \in Frame, f.op \in {Text, Bin}
  PROVE  LET g == Append(h, f)  n == Len(h) IN
         FirstFrame(g, n + 1) = f /\ WholePayload(g, n + 1) = f.payload
<1> DEFINE g == Append(h, f)
           n == Len(h)
           S == Starts(g, n + 1)
           P == {i \in 1..(n + 1) : i >= n + 1 /\ IsData(g[i])}
           v == [i \in 1..(n + 1) |-> g[i].payload]
<1>1. n \in Nat /\ g[n + 1] = f /\ g \in Seq(Frame) /\ Len(g) = n + 1
  OBVIOUS
<1> HIDE DEF g, n
<1>2. Max(S) = n + 1
  <2>1. S \in SUBSET (1..(n + 1)) /\ n + 1 \in S /\ n + 1 \in Nat
    BY <1>1 DEF Starts
  <2> HIDE DEF S
  <2>2. Max(S) \in S /\ \A y \in S : Max(S) >= y
    BY <2>1, GreatestNat
  <2>3. PICK m \in 1..(n + 1) : m = Max(S)
    BY <2>1, <2>2
  <2>4. m >= n + 1
    BY <2>1, <2>2, <2>3
  <2> QED
    BY <1>1, <2>3, <2>4
<1>3. FirstFrame(g, n + 1) = f
  BY <1>1, <1>2 DEF FirstFrame, Starts
<1>4. WholePayload(g, n + 1) = Joined(n + 1, P, v)
  BY <1>2 DEF WholePayload, Starts
<1>5. PartsIn(n + 1, P, v, Byte)
  <2>1. \A k \in 1..(n + 1) : g[k] \in Frame
    BY <1>1
  <2> QED
    BY <2>1 DEF PartsIn, Frame
<1>6. n + 1 \in P /\ v[n + 1] = f.payload /\ \A k \in 1..n : k \notin P
  BY <1>1 DEF IsData
<1>7. f.payload \in Seq(Byte)
  BY DEF Frame
<1> HIDE DEF P, v
<1>8. Joined(n, P, v) = <<>>
  BY <1>1, <1>6, JoinedNone
<1>9. Joined(n + 1, P, v) = Joined(n, P, v) \o v[n + 1]
  BY <1>1, <1>5, <1>6, JoinedNext
<1>10. <<>> \o f.payload = f.payload
  BY <1>7
<1> QED
  BY <1>3, <1>4, <1>6, <1>8, <1>9, <1>10 DEF g, n

\* Any other one.
LEMMA FurtherNext ==
  ASSUME NEW h \in Seq(Frame), NEW f \in Frame, f.op \notin {Text, Bin},
         Starts(h, Len(h)) # {}
  PROVE  LET g == Append(h, f)  n == Len(h) IN
         /\ Starts(g, n + 1) # {}
         /\ FirstFrame(g, n + 1) = FirstFrame(h, n)
         /\ WholePayload(h, n) \in Seq(Byte)
         /\ WholePayload(g, n + 1) = IF f.op = Cont THEN WholePayload(h, n) \o f.payload
                                     ELSE WholePayload(h, n)
<1> DEFINE g == Append(h, f)
           n == Len(h)
<1>1. /\ n \in Nat /\ g[n + 1] = f /\ g \in Seq(Frame) /\ Len(g) = n + 1
      /\ \A i \in 1..n : g[i] = h[i]
  OBVIOUS
<1> HIDE DEF g, n
<1>2. Starts(g, n + 1) = Starts(h, n)
  <2>1. 1..(n + 1) = 1..n \cup {n + 1}
    BY <1>1
  <2> QED
    BY <1>1, <2>1 DEF Starts
<1>3. PICK j \in 1..n : j = Max(Starts(h, n))
  BY <1>1, MaxOfStarts DEF n
<1>4. FirstFrame(g, n + 1) = FirstFrame(h, n)
  BY <1>1, <1>2, <1>3 DEF FirstFrame, Starts
<1> DEFINE P == {i \in 1..(n + 1) : i >= j /\ IsData(g[i])}
           v == [i \in 1..(n + 1) |-> g[i].payload]
           Q == {i \in 1..n : i >= j /\ IsData(h[i])}
           w == [i \in 1..n |-> h[i].payload]
<1>5. WholePayload(g, n + 1) = Joined(n + 1, P, v) /\ WholePayload(h, n) = Joined(n, Q, w)
  BY <1>2, <1>3, Zenon DEF WholePayload, Starts
<1>6. PartsIn(n + 1, P, v, Byte) /\ PartsIn(n, Q, w, Byte)
  <2>1. \A k \in 1..(n + 1) : g[k] \in Frame
    BY <1>1
  <2>2. \A k \in 1..n : h[k] \in Frame
    BY <1>1 DEF n
  <2> QED
    BY <2>1, <2>2 DEF PartsIn, Frame
<1>7. (n + 1 \in P <=> f.op = Cont) /\ v[n + 1] = f.payload
  BY <1>1, <1>3 DEF IsData
<1>8. \A k \in 1..n : (k \in Q <=> k \in P) /\ (k \in Q => w[k] = v[k])
  BY <1>1
<1> HIDE DEF P, v, Q, w
<1>9. Joined(n, Q, w) = Joined(n, P, v)
  BY <1>1, <1>6, <1>8, JoinedAgree
<1>10. /\ Joined(n, P, v) \in Seq(Byte)
       /\ Joined(n + 1, P, v) = IF n + 1 \in P THEN Joined(n, P, v) \o v[n + 1]
                                ELSE Joined(n, P, v)
  BY <1>1, <1>6, JoinedNext
<1> QED
  BY <1>2, <1>4, <1>5, <1>7, <1>9, <1>10 DEF g, n

\* What the frame adds to the messages and to the payloads of an opcode.
LEMMA MessagesNext ==
  ASSUME NEW h \in Seq(Frame), NEW f \in Frame
  PROVE  LET g == Append(h, f)  n == Len(h) IN
         Messages(g) = IF CodeFor(g, n + 1) = 0 /\ Completes(g, n + 1)
                       THEN Append(Messages(h), MessageAt(g, n + 1)) ELSE Messages(h)
<1> DEFINE g == Append(h, f)
           n == Len(h)
           P == {k \in DOMAIN g : CodeFor(g, k) = 0 /\ Completes(g, k)}
           v == [k \in P |-> MessageAt(g, k)]
           Q == {k \in DOMAIN h : CodeFor(h, k) = 0 /\ Completes(h, k)}
           w == [k \in Q |-> MessageAt(h, k)]
<1>1. /\ n \in Nat /\ g \in Seq(Frame) /\ Len(g) = n + 1
      /\ DOMAIN h = 1..n /\ DOMAIN g = 1..(n + 1)
      /\ \A k \in 0..n : Agree(g, h, k)
  BY AppendAgrees
<1>2. Messages(g) = Selected(n + 1, P, v) /\ Messages(h) = Selected(n, Q, w)
  BY <1>1, Zenon DEF Messages
<1> HIDE DEF g, n
<1>3. ASSUME NEW k \in 1..n PROVE (k \in P <=> k \in Q) /\ (k \in P => v[k] = w[k])
  <2>1. k \in Nat \ {0} /\ Agree(g, h, k) /\ k \in DOMAIN g /\ k \in DOMAIN h
    BY <1>1
  <2>2. CodeFor(g, k) = CodeFor(h, k) /\ (Completes(g, k) <=> Completes(h, k))
    BY <2>1, CodeAgree, ViolationAgree
  <2>3. CodeFor(h, k) = 0 /\ Completes(h, k) => MessageAt(g, k) = MessageAt(h, k)
    BY <2>1, CodeAgree
  <2> QED
    BY <2>1, <2>2, <2>3
<1>4. n + 1 \in P <=> CodeFor(g, n + 1) = 0 /\ Completes(g, n + 1)
  BY <1>1
<1>5. n + 1 \in P => v[n + 1] = MessageAt(g, n + 1)
  OBVIOUS
<1> HIDE DEF P, v, Q, w
<1>6. Selected(n, P, v) = Selected(n, Q, w)
  BY <1>1, <1>3, SelectedAgree
<1>7. Selected(n + 1, P, v) = IF n + 1 \in P THEN Append(Selected(n, P, v), v[n + 1])
                              ELSE Selected(n, P, v)
  <2>1. n \in Nat
    BY <1>1
  <2> QED
    BY <2>1, SelectedNext, Zenon
<1> QED
  BY <1>2, <1>4, <1>5, <1>6, <1>7 DEF g, n

LEMMA PayloadsNext ==
  ASSUME NEW h \in Seq(Frame), NEW f \in Frame, NEW op
  PROVE  Payloads(Append(h, f), op) =
            IF f.op = op THEN Append(Payloads(h, op), f.payload) ELSE Payloads(h, op)
<1> DEFINE g == Append(h, f)
           n == Len(h)
           P == {k \in DOMAIN g : g[k].op = op}
           v == [k \in DOMAIN g |-> g[k].payload]
           Q == {k \in DOMAIN h : h[k].op = op}
           w == [k \in DOMAIN h |-> h[k].payload]
<1>1. /\ n \in Nat /\ g \in Seq(Frame) /\ Len(g) = n + 1 /\ g[n + 1] = f
      /\ DOMAIN h = 1..n /\ DOMAIN g = 1..(n + 1)
      /\ \A k \in 0..n : Agree(g, h, k)
  BY AppendAgrees
<1>2. Payloads(g, op) = Selected(n + 1, P, v) /\ Payloads(h, op) = Selected(n, Q, w)
  BY <1>1, Zenon DEF Payloads
<1> HIDE DEF g, n
<1>3. \A k \in 1..n : g[k] = h[k]
  BY <1>1 DEF Agree
<1>4. \A k \in 1..n : (k \in P <=> k \in Q) /\ (k \in P => v[k] = w[k])
  BY <1>1, <1>3
<1>5. (n + 1 \in P <=> f.op = op) /\ v[n + 1] = f.payload
  BY <1>1
<1> HIDE DEF P, v, Q, w
<1>6. Selected(n, P, v) = Selected(n, Q, w)
  BY <1>1, <1>4, SelectedAgree
<1>7. Selected(n + 1, P, v) = IF n + 1 \in P THEN Append(Selected(n, P, v), v[n + 1])
                              ELSE Selected(n, P, v)
  <2>1. n \in Nat
    BY <1>1
  <2> QED
    BY <2>1, SelectedNext, Zenon
<1> QED
  BY <1>2, <1>5, <1>6, <1>7 DEF g, n

-----------------------------------------------------------------------------
(* The invariant.                                                          *)

Msg == [is_text : BOOLEAN, buffer : Seq(Byte)]
Codes == 1000..4999

TypeInv ==
    /\ args \in Args /\ pc \in {"start", "read", "handle", "ended"}
    /\ has_message \in BOOLEAN /\ compressed \in BOOLEAN /\ message \in Msg
    /\ peer \in {"up", "fin", "gone"}
    /\ received \in Seq(Frames) /\ sent \in Seq(Frame) /\ delivered \in Seq(Msg)
    /\ closed_with \in {0} \cup Codes
    /\ ~has_message => message = NoMessage /\ ~compressed

\* No frame so far had to end the connection.
AllGood(h, n) == \A k \in 1..n : CodeFor(h, k) = 0

\* While it reads, the listener's variables are what the stream so far means.
ReadInv ==
    pc \in {"start", "read"} =>
        LET n == Len(received)
        IN  /\ closed_with = 0 /\ AllGood(received, n)
            /\ Messages(received) = delivered
            /\ has_message <=> MessageOpen(received, n + 1)
            /\ has_message =>
                  /\ message.is_text <=> FirstFrame(received, n).op = Text
                  /\ message.buffer = WholePayload(received, n)
                  /\ compressed <=> FirstFrame(received, n).rsv = Rsv1

\* A message that is handled has just been completed.
HandleInv ==
    pc = "handle" =>
        LET n == Len(received)
        IN  /\ closed_with = 0 /\ AllGood(received, n)
            /\ Messages(received) = Append(delivered, message)
            /\ ~MessageOpen(received, n + 1)
            /\ message.is_text => Utf8Valid(message.buffer)
            /\ n # 0 /\ Completes(received, n) /\ message = MessageAt(received, n)
            /\ compressed <=> FirstFrame(received, n).rsv = Rsv1

\* An ended connection was ended by its last frame, or by the peer.
EndInv ==
    pc = "ended" =>
        LET n == Len(received)
        IN  /\ Messages(received) = delivered
            /\ closed_with # 0 /\ AllGood(received, n - 1)
            /\ IF n > 0 /\ CodeFor(received, n) # 0
               THEN closed_with = CodeFor(received, n) ELSE peer # "up"

\* Nothing follows a close frame, which ends the connection.
SentInv ==
    /\ \A i \in 1..Len(sent) : sent[i].op = Close => i = Len(sent) /\ pc = "ended"
    /\ pc = "ended" /\ peer # "gone" => sent # <<>> /\ Last(sent).op = Close

\* No ping is left unanswered as long as the connection has not ended.
PongInv ==
    IF pc = "ended" THEN PingsAreAnswered
    ELSE Payloads(sent, Pong) = Payloads(received, Ping)

ListenerInv == TypeInv /\ ReadInv /\ HandleInv /\ EndInv /\ SentInv /\ PongInv

LEMMA FramesAreFrames == Frames \subseteq Frame
BY FramesAssumption DEF Frame, Byte

\* Of the state, the meaning of a stream depends on the arguments only.
LEMMA MeaningKept ==
  ASSUME args' = args, NEW k
  PROVE  /\ CodeFor(received, k)' = CodeFor(received', k)
         /\ CodeFor(received, Len(received))' = CodeFor(received', Len(received'))
         /\ AllGood(received, Len(received))' <=> AllGood(received', Len(received'))
         /\ AllGood(received, Len(received) - 1)' <=> AllGood(received', Len(received') - 1)
         /\ Messages(received)' = Messages(received')
BY DEF CodeFor, ProtocolViolation, Deflate, BadPayload, Messages, AllGood

-----------------------------------------------------------------------------
(* What one more frame means, in terms of the listener's variables.        *)

Stream(f) == Append(received, f)
Last1 == Len(received) + 1

Violates(f) ==
    \/ f.rsv \notin allowed_rsv_bytes
    \/ f.op \notin {Cont, Text, Bin, Close, Ping, Pong}
    \/ f.op = Cont /\ (f.rsv # 0 \/ ~has_message)
    \/ f.op \in {Text, Bin} /\ has_message
    \/ f.op >= Close /\ (~f.fin \/ Len(f.payload) > 125)
    \/ f.op = Close /\ Len(f.payload) = 1

LEMMA ReadingFacts ==
  ASSUME TypeInv, ReadInv, pc = "read", NEW f \in Frames
  PROVE  /\ received \in Seq(Frame) /\ f \in Frame /\ Len(received) \in Nat
         /\ Stream(f) \in Seq(Frame) /\ Len(Stream(f)) = Last1 /\ Stream(f)[Last1] = f
         /\ ProtocolViolation(Stream(f), Last1) <=> Violates(f)
         /\ \A k \in 1..Len(received) : CodeFor(Stream(f), k) = 0
<1>1. received \in Seq(Frame) /\ f \in Frame
  BY FramesAreFrames DEF TypeInv
<1> DEFINE g == Stream(f)
           n == Len(received)
<1>2. n \in Nat /\ g \in Seq(Frame) /\ Len(g) = n + 1 /\ g[n + 1] = f
  BY <1>1, AppendAgrees DEF Stream
<1>3. \A k \in 0..n : Agree(g, received, k)
  BY <1>1, AppendAgrees DEF Stream
<1>4. MessageOpen(g, n + 1) <=> has_message
  <2>1. n + 1 \in 1..(n + 1) /\ Agree(g, received, n)
    BY <1>2, <1>3
  <2>2. MessageOpen(g, n + 1) <=> MessageOpen(received, n + 1)
    BY <1>2, <2>1, OpenAgree
  <2> QED
    BY <2>2 DEF ReadInv
<1>5. f.rsv \notin allowed_rsv_bytes <=> f.rsv # 0 /\ (Deflate => f.rsv # Rsv1)
  BY DEF allowed_rsv_bytes
<1> HIDE DEF g, n
<1>6. ProtocolViolation(g, n + 1) <=> Violates(f)
  BY <1>2, <1>4, <1>5 DEF ProtocolViolation, Violates
<1>7. \A k \in 1..n : CodeFor(g, k) = 0
  <2>1. \A k \in 1..n : k \in Nat \ {0} /\ k \in 0..n
    BY <1>2
  <2> QED
    BY <1>3, <2>1, CodeAgree DEF ReadInv, AllGood, n
<1> QED
  BY <1>1, <1>2, <1>6, <1>7 DEF g, n, Last1

\* The checks, in the order in which they are made.
Malformed(f) ==
    f.op >= 8 /\ (~f.fin \/ Len(f.payload) > 125 \/ (f.op = 8 /\ Len(f.payload) = 1))
BadReason(f) ==
    /\ f.op = 8 /\ Len(f.payload) >= 2
    /\ ~Utf8Valid(SubSeq(f.payload, 3, Len(f.payload)))

LEMMA FrameErrorIs ==
  ASSUME NEW f \in Frame
  PROVE  FrameError(f) = IF f.rsv \notin allowed_rsv_bytes \/ Malformed(f) THEN 1002
                         ELSE IF BadReason(f) THEN 1007 ELSE 0
<1> DEFINE A == f.rsv \notin allowed_rsv_bytes
           U == Utf8Valid(SubSeq(f.payload, 3, Len(f.payload)))
           C == f.op = 8 /\ f.fin /\ Len(f.payload) \in 2..125 /\ ~U
<1>1. f.op \in Nat /\ Len(f.payload) \in Nat
  BY DEF Frame
<1>2. FrameError(f) = CASE A -> 1002 [] ~A /\ Malformed(f) -> 1002 [] ~A /\ C -> 1007
                        [] OTHER -> 0
  BY Zenon DEF FrameError, is_control_op_code, MAX_CONTROL_FRAME_PAYLOAD, Close,
         CloseCodeProtocolError, CloseCodeInvalidFramePayloadData, Malformed
<1>3. C <=> ~Malformed(f) /\ BadReason(f)
  <2>1. PICK z \in Nat : z = Len(f.payload)
    BY <1>1
  <2> HIDE DEF U
  <2>2. \A y \in Nat : y \in 2..125 <=> y >= 2 /\ ~(y > 125)
    OBVIOUS
  <2>3. \A y \in Nat : y >= 2 => y # 1
    OBVIOUS
  <2>4. f.op = 8 => f.op >= 8
    BY <1>1
  <2> QED
    BY <2>1, <2>2, <2>3, <2>4, Zenon DEF Malformed, BadReason, U
<1> HIDE DEF A, C
<1>4. FrameError(f) = IF A \/ Malformed(f) THEN 1002 ELSE IF BadReason(f) THEN 1007 ELSE 0
  BY <1>2, <1>3
<1> QED
  BY <1>4 DEF A

\* A frame that the checks before the switch refuse.
LEMMA RefusedMeaning ==
  ASSUME TypeInv, ReadInv, pc = "read", NEW f \in Frames, FrameError(f) # 0
  PROVE  CodeFor(Stream(f), Last1) = FrameError(f) /\ FrameError(f) \in Codes
<1>1. f \in Frame /\ Stream(f)[Last1] = f /\ (ProtocolViolation(Stream(f), Last1) <=> Violates(f))
  BY ReadingFacts
<1>2. FrameError(f) = IF f.rsv \notin allowed_rsv_bytes \/ Malformed(f) THEN 1002
                      ELSE IF BadReason(f) THEN 1007 ELSE 0
  BY <1>1, FrameErrorIs
<1>3. CASE f.rsv \notin allowed_rsv_bytes \/ Malformed(f)
  <2>1. FrameError(f) = 1002
    BY <1>2, <1>3
  <2>2. Violates(f)
    BY <1>3, Zenon DEF Malformed, Violates, Close
  <2> QED
    BY <1>1, <2>1, <2>2 DEF CodeFor, CloseCodeProtocolError, Codes
<1>4. CASE ~(f.rsv \notin allowed_rsv_bytes \/ Malformed(f))
  <2>1. BadReason(f) /\ FrameError(f) = 1007
    BY <1>2, <1>4
  <2>2. f.op = 8 /\ ~Utf8Valid(SubSeq(f.payload, 3, Len(f.payload)))
    BY <2>1 DEF BadReason
  <2>3. ~Violates(f)
    <3>1. f.op # 0 /\ f.op # 1 /\ f.op # 2 /\ f.op >= 8
      BY <2>2
    <3> QED
      BY <1>4, <2>2, <3>1, Zenon DEF Violates, Malformed, Close, Cont, Text, Bin
  <2>4. BadPayload(Stream(f), Last1)
    BY <1>1, <2>2 DEF BadPayload, Close
  <2> QED
    BY <1>1, <2>1, <2>3, <2>4 DEF CodeFor, CloseCodeInvalidFramePayloadData, Codes
<1> QED
  BY <1>3, <1>4

\* A frame that is no violation and not refused has no bad close payload.
LEMMA PassedFacts ==
  ASSUME TypeInv, ReadInv, pc = "read", NEW f \in Frames, FrameError(f) = 0
  PROVE  /\ f.rsv \in allowed_rsv_bytes
         /\ f.op >= Close => f.fin /\ Len(f.payload) <= 125
         /\ f.op = Close => /\ Len(f.payload) # 1
                            /\ Utf8Valid(SubSeq(f.payload, 3, Len(f.payload)))
<1>1. f \in Frame
  BY ReadingFacts
<1>2. PICK z \in Nat : z = Len(f.payload)
  BY <1>1 DEF Frame
<1>3. f.rsv \in allowed_rsv_bytes /\ ~Malformed(f) /\ ~BadReason(f)
  <2>1. FrameError(f) = IF f.rsv \notin allowed_rsv_bytes \/ Malformed(f) THEN 1002
                        ELSE IF BadReason(f) THEN 1007 ELSE 0
    BY <1>1, FrameErrorIs
  <2> QED
    BY <2>1
<1>6. f.op >= Close => f.fin /\ z <= 125
  <2>1. ~(z > 125) <=> z <= 125
    OBVIOUS
  <2>2. f.op >= 8 => f.fin /\ ~(z > 125)
    BY <1>2, <1>3, Zenon DEF Malformed
  <2> QED
    BY <2>1, <2>2 DEF Close
<1>7. f.op = Close => z # 1
  BY <1>2, <1>3 DEF Close, Malformed
<1>8. z = 0 => Utf8Valid(SubSeq(f.payload, 3, Len(f.payload)))
  <2> SUFFICES ASSUME z = 0 PROVE Utf8Valid(SubSeq(f.payload, 3, 0))
    BY <1>2
  <2>1. f.payload \in Seq(Byte)
    BY <1>1 DEF Frame
  <2>2. DOMAIN SubSeq(f.payload, 3, 0) = {}
    BY <2>1
  <2> QED
    BY <2>2 DEF Utf8Valid
<1>9. f.op = Close => Utf8Valid(SubSeq(f.payload, 3, Len(f.payload)))
  <2>1. z = 0 \/ z = 1 \/ z >= 2
    OBVIOUS
  <2> QED
    BY <1>2, <1>3, <1>7, <1>8, <2>1, Zenon DEF Close, BadReason
<1> QED
  BY <1>2, <1>3, <1>6, <1>7, <1>9

\* A control frame that is not refused.
LEMMA ControlMeaning ==
  ASSUME TypeInv, ReadInv, pc = "read", NEW f \in Frames, FrameError(f) = 0
  PROVE  /\ f.op \in {Ping, Pong} => CodeFor(Stream(f), Last1) = 0
         /\ f.op = Close => CodeFor(Stream(f), Last1) =
               IF f.payload = <<>> THEN CloseCodeNormalClosure
               ELSE IF is_valid_close_code(CodeOf(f.payload)) THEN CodeOf(f.payload)
               ELSE CloseCodeProtocolError
         /\ f.op \notin {Cont, Text, Bin, Close, Ping, Pong} =>
               CodeFor(Stream(f), Last1) = CloseCodeProtocolError
<1>1. f \in Frame /\ Stream(f)[Last1] = f /\ (ProtocolViolation(Stream(f), Last1) <=> Violates(f))
  BY ReadingFacts
<1>2. PICK z \in Nat : z = Len(f.payload)
  BY <1>1 DEF Frame
<1>3. /\ f.rsv \in allowed_rsv_bytes
      /\ f.op >= Close => f.fin /\ z <= 125
      /\ f.op = Close => z # 1 /\ Utf8Valid(SubSeq(f.payload, 3, Len(f.payload)))
  BY <1>2, PassedFacts
<1>4. f.op \in {Close, Ping, Pong} => ~Violates(f)
  BY <1>2, <1>3 DEF Violates, Close, Ping, Pong, Cont, Text, Bin
<1>5. f.op \in {Close, Ping, Pong} => ~BadPayload(Stream(f), Last1)
  BY <1>1, <1>3 DEF BadPayload, Completes, IsData, Close, Ping, Pong, Cont, Text, Bin
<1>6. f.op \in {Ping, Pong} => CodeFor(Stream(f), Last1) = 0
  BY <1>1, <1>4, <1>5 DEF CodeFor, Close, Ping, Pong
<1>7. f.op = Close => CodeFor(Stream(f), Last1) =
               IF f.payload = <<>> THEN CloseCodeNormalClosure
               ELSE IF is_valid_close_code(CodeOf(f.payload)) THEN CodeOf(f.payload)
               ELSE CloseCodeProtocolError
  BY <1>1, <1>4, <1>5 DEF CodeFor
<1>8. f.op \notin {Cont, Text, Bin, Close, Ping, Pong} =>
               CodeFor(Stream(f), Last1) = CloseCodeProtocolError
  BY <1>1 DEF CodeFor, Violates
<1> QED
  BY <1>6, <1>7, <1>8

\* A data frame that is not acceptable where it is.
LEMMA MisplacedMeaning ==
  ASSUME TypeInv, ReadInv, pc = "read", NEW f \in Frames,
         \/ f.op = Cont /\ (~has_message \/ ~is_valid_cont_frame(f))
         \/ f.op \in {Text, Bin} /\ has_message
  PROVE  CodeFor(Stream(f), Last1) = CloseCodeProtocolError
<1>1. f \in Frame /\ Stream(f)[Last1] = f /\ (ProtocolViolation(Stream(f), Last1) <=> Violates(f))
  BY ReadingFacts
<1>2. Violates(f)
  BY DEF Violates, is_valid_cont_frame, Rsv1
<1> QED
  BY <1>1, <1>2 DEF CodeFor

\* The frame and the message it belongs to, once it has been accepted.
Holds(f, is_text, buffer, zipped) ==
    /\ is_text <=> FirstFrame(Stream(f), Last1).op = Text
    /\ buffer = WholePayload(Stream(f), Last1)
    /\ zipped <=> FirstFrame(Stream(f), Last1).rsv = Rsv1

LEMMA ContHolds ==
  ASSUME TypeInv, ReadInv, pc = "read", NEW f \in Frames,
         f.op = Cont, has_message
  PROVE  Holds(f, message.is_text, message.buffer \o f.payload, compressed)
<1>1. received \in Seq(Frame) /\ f \in Frame /\ Len(received) \in Nat
  BY ReadingFacts
<1>2. Starts(received, Len(received)) # {}
  BY <1>1, OpenHasStart DEF ReadInv
<1>3. f.op \notin {Text, Bin}
  BY DEF Cont, Text, Bin
<1>4. /\ FirstFrame(Stream(f), Last1) = FirstFrame(received, Len(received))
      /\ WholePayload(Stream(f), Last1) = WholePayload(received, Len(received)) \o f.payload
  BY <1>1, <1>2, <1>3, FurtherNext DEF Stream, Last1
<1> QED
  BY <1>4 DEF Holds, ReadInv

LEMMA StartHolds ==
  ASSUME TypeInv, ReadInv, pc = "read", NEW f \in Frames,
         FrameError(f) = 0, f.op \in {Text, Bin}
  PROVE  Holds(f, f.op = Text, f.payload, Deflate /\ f.rsv = Rsv1)
<1>1. received \in Seq(Frame) /\ f \in Frame
  BY ReadingFacts
<1>2. FirstFrame(Stream(f), Last1) = f /\ WholePayload(Stream(f), Last1) = f.payload
  BY <1>1, FirstNext DEF Stream, Last1
<1>3. f.rsv = Rsv1 => Deflate
  BY PassedFacts DEF allowed_rsv_bytes, Rsv1
<1> QED
  BY <1>2, <1>3 DEF Holds

Whole(is_text, buffer, zipped) ==
    LET plain == IF zipped THEN Inflated(buffer) ELSE buffer
    IN  (zipped => Inflatable(buffer)) /\ (is_text => Utf8Valid(plain))

LEMMA DataMeaning ==
  ASSUME TypeInv, ReadInv, pc = "read", NEW f \in Frames, FrameError(f) = 0,
         \/ f.op = Cont /\ has_message /\ is_valid_cont_frame(f)
         \/ f.op \in {Text, Bin} /\ ~has_message,
         NEW is_text \in BOOLEAN, NEW buffer \in Seq(Byte), NEW zipped \in BOOLEAN,
         Holds(f, is_text, buffer, zipped)
  PROVE  /\ ~f.fin => CodeFor(Stream(f), Last1) = 0 /\ ~Completes(Stream(f), Last1)
         /\ f.fin /\ Whole(is_text, buffer, zipped) =>
               /\ CodeFor(Stream(f), Last1) = 0 /\ Completes(Stream(f), Last1)
               /\ MessageAt(Stream(f), Last1) =
                     [is_text |-> is_text, buffer |-> IF zipped THEN Inflated(buffer) ELSE buffer]
         /\ f.fin /\ ~Whole(is_text, buffer, zipped) =>
               CodeFor(Stream(f), Last1) = CloseCodeInvalidFramePayloadData
<1> DEFINE g == Stream(f)
           k == Last1
           plain == IF zipped THEN Inflated(buffer) ELSE buffer
<1>1. f \in Frame /\ g[k] = f /\ (ProtocolViolation(g, k) <=> Violates(f))
  BY ReadingFacts
<1>2. f.rsv \in allowed_rsv_bytes
  BY PassedFacts
<1>3. IsData(g[k]) /\ g[k].op # Close /\ ~(f.op >= Close)
  BY <1>1 DEF IsData, Cont, Text, Bin, Close
<1>4. ~Violates(f)
  <2>1. f.op = Cont => f.rsv = 0 /\ has_message
    BY <1>2 DEF allowed_rsv_bytes, is_valid_cont_frame, Cont, Text, Bin
  <2> QED
    BY <1>1, <1>2, <1>3, <2>1 DEF Violates, Cont, Text, Bin, Close
<1>5. Completes(g, k) <=> f.fin
  BY <1>1, <1>3 DEF Completes
<1>6. MessageAt(g, k) = [is_text |-> is_text, buffer |-> plain]
  <2>1. (FirstFrame(g, k).op = Text) = is_text
    BY DEF Holds
  <2>2. WholePayload(g, k) = buffer /\ (zipped <=> FirstFrame(g, k).rsv = Rsv1)
    BY DEF Holds
  <2> HIDE DEF g, k
  <2>3. (IF FirstFrame(g, k).rsv = Rsv1 THEN Inflated(WholePayload(g, k)) ELSE WholePayload(g, k))
        = plain
    BY <2>2
  <2> QED
    BY <2>1, <2>3, Zenon DEF MessageAt
<1>7. BadPayload(g, k) <=> f.fin /\ ~Whole(is_text, buffer, zipped)
  <2>1. MessageAt(g, k).is_text = is_text /\ MessageAt(g, k).buffer = plain
    BY <1>6
  <2>2. WholePayload(g, k) = buffer /\ (zipped <=> FirstFrame(g, k).rsv = Rsv1)
    BY DEF Holds
  <2> HIDE DEF g, k, plain
  <2>3. BadPayload(g, k) <=> f.fin /\ ((zipped /\ ~Inflatable(buffer)) \/ (is_text /\ ~Utf8Valid(plain)))
    BY <1>3, <1>5, <2>1, <2>2 DEF BadPayload
  <2> QED
    BY <2>3 DEF Whole, plain
<1> HIDE DEF g, k
<1>8. CodeFor(g, k) = IF BadPayload(g, k) THEN CloseCodeInvalidFramePayloadData ELSE 0
  BY <1>1, <1>3, <1>4 DEF CodeFor
<1> QED
  BY <1>5, <1>6, <1>7, <1>8 DEF g, k

-----------------------------------------------------------------------------
(* Sending.                                                                *)

LEMMA PayloadsType ==
  ASSUME NEW h \in Seq(Frame), NEW op
  PROVE  Payloads(h, op) \in Seq(Seq(Byte))
<1> DEFINE n == Len(h)
           P == {k \in DOMAIN h : h[k].op = op}
           v == [k \in DOMAIN h |-> h[k].payload]
           s == [k \in P |-> <<v[k]>>]
<1>1. n \in Nat /\ DOMAIN h = 1..n /\ \A k \in 1..n : h[k] \in Frame
  OBVIOUS
<1>2. \A k \in 1..n : v[k] \in Seq(Byte)
  BY <1>1 DEF Frame
<1>3. PartsIn(n, P, s, Seq(Byte))
  <2>1. \A x \in Seq(Byte) : <<x>> \in Seq(Seq(Byte))
    OBVIOUS
  <2>2. \A k \in P : s[k] = <<v[k]>>
    OBVIOUS
  <2> HIDE DEF v, s, P
  <2> QED
    BY <1>2, <2>1, <2>2 DEF PartsIn
<1>4. Payloads(h, op) = Joined(n, P, s)
  BY Zenon DEF Payloads, Selected
<1> HIDE DEF n, P, s
<1>5. PICK f : JoinsBy(f, n, P, s, Seq(Byte)) /\ Joined(n, P, s) = f[n]
  BY <1>1, <1>3, JoinedLoop
<1> QED
  BY <1>1, <1>4, <1>5 DEF JoinsBy

\* Frames of other opcodes add nothing to the payloads of an opcode.
LEMMA PayloadsSame ==
  ASSUME NEW h \in Seq(Frame), NEW fs \in Seq(Frame), NEW op,
         \A i \in 1..Len(fs) : fs[i].op # op
  PROVE  Payloads(h \o fs, op) = Payloads(h, op)
<1> DEFINE g == h \o fs
           n == Len(h)
           m == Len(fs)
           P == {k \in DOMAIN g : g[k].op = op}
           v == [k \in DOMAIN g |-> g[k].payload]
           Q == {k \in DOMAIN h : h[k].op = op}
           w == [k \in DOMAIN h |-> h[k].payload]
<1>1. /\ n \in Nat /\ m \in Nat /\ Len(g) = n + m
      /\ DOMAIN g = 1..(n + m) /\ DOMAIN h = 1..n
      /\ \A k \in 1..n : g[k] = h[k]
      /\ \A k \in 1..m : g[n + k] = fs[k]
  OBVIOUS
<1>2. Payloads(g, op) = Selected(n + m, P, v) /\ Payloads(h, op) = Selected(n, Q, w)
  BY <1>1, Zenon DEF Payloads
<1> HIDE DEF g, n, m
<1>3. \A k \in 1..n : (k \in P <=> k \in Q) /\ (k \in P => v[k] = w[k])
  BY <1>1
<1>4. \A k \in 1..m : n + k \notin P
  BY <1>1 DEF m
<1> HIDE DEF P, v, Q, w
<1>5. Selected(n, P, v) = Selected(n, Q, w)
  BY <1>1, <1>3, SelectedAgree
<1> DEFINE T == {k \in 0..m : Selected(n + k, P, v) = Selected(n, P, v)}
<1>6. 0 \in T
  BY <1>1
<1>7. ASSUME NEW k \in 0..(m - 1), k \in T PROVE k + 1 \in T
  <2>1. n + k \in Nat /\ k + 1 \in 1..m /\ k + 1 \in 0..m /\ (n + k) + 1 = n + (k + 1)
    BY <1>1
  <2>2. PICK j \in Nat : j = n + k
    BY <2>1
  <2>3. Selected(j + 1, P, v) = IF j + 1 \in P THEN Append(Selected(j, P, v), v[j + 1])
                                ELSE Selected(j, P, v)
    BY SelectedNext
  <2>4. j + 1 \notin P
    BY <1>4, <2>1, <2>2
  <2>5. j + 1 = n + (k + 1) /\ Selected(j, P, v) = Selected(n, P, v)
    BY <1>7, <2>1, <2>2
  <2>6. Selected(n + (k + 1), P, v) = Selected(n, P, v)
    BY <2>3, <2>4, <2>5
  <2> QED
    BY <2>1, <2>6
<1> HIDE DEF T
<1>8. m \in T
  <2>1. \A k \in 0..m : k \in T
    BY <1>1, <1>6, <1>7, LoopInduction
  <2> QED
    BY <1>1, <2>1
<1> QED
  BY <1>2, <1>5, <1>8 DEF T, g

\* Frames of messages.
IsData3(fs) == fs \in Seq(Frame) /\ \A i \in 1..Len(fs) : fs[i].op \in {Cont, Text, Bin}

LEMMA StartRsvType ==
  ASSUME NEW zipped
  PROVE  StartRsv(zipped) \in 0..7 /\ ContRsv(zipped) \in 0..7
BY DEF StartRsv, ContRsv, Rsv1

LEMMA NormalType ==
  ASSUME NEW m \in Msg, NEW zipped
  PROVE  IsData3(Normal(m, zipped))
<1> DEFINE o == IF m.is_text THEN Text ELSE Bin
           f == [op |-> o, fin |-> TRUE, rsv |-> StartRsv(zipped), payload |-> m.buffer]
<1>1. o \in 0..15 /\ o \in {Cont, Text, Bin}
  BY DEF Text, Bin, Cont
<1>2. StartRsv(zipped) \in 0..7 /\ m.buffer \in Seq(Byte)
  BY StartRsvType DEF Msg
<1> HIDE DEF o
<1>3. f \in Frame /\ f.op = o
  BY <1>1, <1>2 DEF Frame
<1>4. Normal(m, zipped) = <<f>>
  BY DEF Normal, o
<1> HIDE DEF f
<1>5. <<f>> \in Seq(Frame) /\ Len(<<f>>) = 1 /\ <<f>>[1] = f
  BY <1>3
<1> QED
  BY <1>1, <1>3, <1>4, <1>5 DEF IsData3

LEMMA DivFacts ==
  ASSUME NEW a \in Nat, NEW b \in Nat \ {0}
  PROVE  a \div b \in Nat /\ b * (a \div b) <= a /\ a < b * (a \div b) + b
<1>1. a \div b \in Nat
  OBVIOUS
<1>2. b * (a \div b) <= a
  OBVIOUS
<1>3. a < b * (a \div b) + b
  OBVIOUS
<1> QED
  BY <1>1, <1>2, <1>3

LEMMA MulFacts ==
  ASSUME NEW i \in Nat, NEW j \in Nat, NEW size \in Nat
  PROVE  i * size \in Nat /\ (i + 1) * size = i * size + size /\ (i <= j => i * size <= j * size)
<1>1. i * size \in Nat
  OBVIOUS
<1>2. (i + 1) * size = i * size + size
  OBVIOUS
<1>3. i <= j => i * size <= j * size
  OBVIOUS
<1> QED
  BY <1>1, <1>2, <1>3

\* How many fragments of this size a message of this length is cut into.
LEMMA CountFacts ==
  ASSUME NEW size \in Nat \ {0}, NEW len \in Nat, size <= len,
         NEW count, count = (len + size - 1) \div size
  PROVE  /\ count \in Nat \ {0} /\ len <= count * size
         /\ \A i \in Nat : i < count => i * size \in Nat /\ i * size < len
<1>1. len + size - 1 \in Nat
  OBVIOUS
<1>2. PICK a \in Nat : a = len + size - 1
  BY <1>1
<1>3. count \in Nat /\ size * count <= a /\ a < size * count + size
  BY <1>2, DivFacts
<1>4. PICK t \in Nat : t = size * count
  BY <1>3
<1>5. len <= t /\ t <= len + size - 1
  BY <1>2, <1>3, <1>4
<1>6. count # 0
  BY <1>4, <1>5
<1>7. count * size = t
  BY <1>3, <1>4
<1>8. ASSUME NEW i \in Nat, i < count PROVE i * size \in Nat /\ i * size < len
  <2>1. i + 1 <= count /\ i + 1 \in Nat
    BY <1>3, <1>8
  <2>2. (i + 1) * size <= count * size /\ i * size \in Nat /\ (i + 1) * size = i * size + size
    BY <1>3, <2>1, MulFacts
  <2>3. PICK u \in Nat : u = i * size
    BY <2>2
  <2>4. u + size <= t
    BY <1>7, <2>2, <2>3
  <2> QED
    BY <1>5, <2>3, <2>4
<1> QED
  BY <1>3, <1>5, <1>6, <1>7, <1>8

\* A fragment, and the fragments of a message that is not shorter than one.
FragmentAt(m, zipped, size, start) ==
    [op |-> CASE start # 0 -> Cont
              [] start = 0 /\ m.is_text -> Text
              [] OTHER -> Bin,
     fin |-> LastFragment(start, size, Len(m.buffer)),
     rsv |-> FragmentRsv(start, zipped),
     payload |-> SubSeq(m.buffer, start + 1, Min({start + size, Len(m.buffer)}))]

CutUp(m, zipped, size) ==
    [i \in 1..((Len(m.buffer) + size - 1) \div size) |->
        FragmentAt(m, zipped, size, (i - 1) * size)]

LEMMA FragmentFacts ==
  ASSUME NEW m \in Msg, NEW zipped, NEW size \in Nat, NEW start \in Nat
  PROVE  LET f == FragmentAt(m, zipped, size, start)
             last == start + size >= Len(m.buffer)
         IN  /\ f \in Frame /\ f.op \in {Cont, Text, Bin}
             /\ start # 0 => f.op = Cont
             /\ start = 0 => f.op \in {Text, Bin} /\ (f.op = Text <=> m.is_text)
             /\ f.fin <=> last
             /\ f.rsv = FragmentRsv(start, zipped)
             /\ f.payload = SubSeq(m.buffer, start + 1,
                                   IF last THEN Len(m.buffer) ELSE start + size)
<1> DEFINE len == Len(m.buffer)
           o == CASE start # 0 -> Cont
                  [] start = 0 /\ m.is_text -> Text
                  [] OTHER -> Bin
           part == SubSeq(m.buffer, start + 1, Min({start + size, len}))
           last == LastFragment(start, size, len)
           rsv == FragmentRsv(start, zipped)
           f == [op |-> o, fin |-> last, rsv |-> rsv, payload |-> part]
<1>0. len \in Nat /\ m.buffer \in Seq(Byte) /\ m.is_text \in BOOLEAN
  BY DEF Msg
<1>1. FragmentAt(m, zipped, size, start) = f
  BY Zenon DEF FragmentAt
<1>2. /\ o \in 0..15 /\ o \in {Cont, Text, Bin}
      /\ start # 0 => o = Cont
      /\ start = 0 => o \in {Text, Bin} /\ (o = Text <=> m.is_text)
  BY <1>0 DEF Cont, Text, Bin
<1>3. last \in BOOLEAN /\ (last <=> start + size >= len)
  BY DEF LastFragment
<1>4. rsv \in 0..7
  BY StartRsvType DEF FragmentRsv
<1>5. PICK u \in Nat : u = (IF start + size >= len THEN len ELSE start + size)
                       /\ u <= len /\ Min({start + size, len}) = u
  <2> HIDE DEF len
  <2>1. PICK v \in Nat : v = start + size
    OBVIOUS
  <2>2. PICK u \in Nat : u = (IF v >= len THEN len ELSE v) /\ u <= len /\ u <= v /\ u \in {v, len}
    BY <1>0
  <2>3. \E x \in {v, len} : \A y \in {v, len} : x <= y
    BY <1>0, <2>2
  <2>4. Min({v, len}) \in {v, len} /\ \A y \in {v, len} : Min({v, len}) <= y
    BY <2>3 DEF Min
  <2>5. Min({v, len}) = u
    <3>1. PICK x \in Nat : x = Min({v, len})
      BY <1>0, <2>4
    <3>2. x <= u /\ u <= x
      BY <1>0, <2>2, <2>4, <3>1
    <3> QED
      BY <3>1, <3>2
  <2> QED
    BY <2>1, <2>2, <2>5
<1>6. part = SubSeq(m.buffer, start + 1, u) /\ part \in Seq(Byte)
  <2>1. \A i \in (start + 1)..u : m.buffer[i] \in Byte
    BY <1>0, <1>5
  <2>2. start + 1 \in Int /\ u \in Int
    BY <1>5
  <2>3. SubSeq(m.buffer, start + 1, u) \in Seq(Byte)
    BY <2>1, <2>2, SubSeqProperties
  <2> QED
    BY <1>5, <2>3
<1> HIDE DEF o, part, last, rsv
<1>7. f \in Frame /\ f.op = o /\ f.fin = last /\ f.rsv = rsv /\ f.payload = part
  BY <1>2, <1>3, <1>4, <1>6 DEF Frame
<1>8. f.fin <=> start + size >= len
  BY <1>3, <1>7
<1> HIDE DEF f
<1> QED
  BY <1>1, <1>2, <1>5, <1>6, <1>7, <1>8 DEF rsv

LEMMA CutUpFacts ==
  ASSUME NEW m \in Msg, NEW zipped, NEW size \in Nat \ {0}, size <= Len(m.buffer)
  PROVE  /\ IsData3(CutUp(m, zipped, size))
         /\ Len(CutUp(m, zipped, size)) = (Len(m.buffer) + size - 1) \div size
         /\ \A i \in 1..Len(CutUp(m, zipped, size)) :
               CutUp(m, zipped, size)[i] = FragmentAt(m, zipped, size, (i - 1) * size)
<1> DEFINE count == (Len(m.buffer) + size - 1) \div size
           fs == [i \in 1..count |-> FragmentAt(m, zipped, size, (i - 1) * size)]
<1>1. Len(m.buffer) \in Nat
  BY DEF Msg
<1>2. count \in Nat
  BY <1>1, CountFacts
<1> HIDE DEF count
<1>3. ASSUME NEW i \in 1..count
      PROVE  /\ FragmentAt(m, zipped, size, (i - 1) * size) \in Frame
             /\ FragmentAt(m, zipped, size, (i - 1) * size).op \in {Cont, Text, Bin}
  <2>1. i - 1 \in Nat
    BY <1>2
  <2>2. PICK start \in Nat : start = (i - 1) * size
    BY <2>1, MulFacts
  <2>3. /\ FragmentAt(m, zipped, size, start) \in Frame
        /\ FragmentAt(m, zipped, size, start).op \in {Cont, Text, Bin}
    BY FragmentFacts
  <2> QED
    BY <2>2, <2>3
<1>4. fs \in [1..count -> Frame] /\ \A i \in 1..count : fs[i] = FragmentAt(m, zipped, size, (i - 1) * size)
  BY <1>3
<1>5. CutUp(m, zipped, size) = fs
  BY Zenon DEF CutUp, count
<1> HIDE DEF fs
<1>6. fs \in Seq(Frame) /\ Len(fs) = count
  BY <1>2, <1>4
<1>7. IsData3(fs)
  BY <1>3, <1>4, <1>6 DEF IsData3
<1> QED
  BY <1>4, <1>5, <1>6, <1>7 DEF count

LEMMA FragmentedIs ==
  ASSUME NEW m \in Msg, NEW zipped, NEW wanted \in Int
  PROVE  \E size \in Nat \ {0} :
            /\ size = FragmentSize(wanted)
            /\ Fragmented(m, zipped, wanted) =
                  IF Len(m.buffer) < size THEN Normal(m, zipped) ELSE CutUp(m, zipped, size)
<1>1. FragmentSize(wanted) \in Nat \ {0}
  BY DEF FragmentSize, WS_MINIMUM_FRAGMENT_SIZE
<1>2. Fragmented(m, zipped, wanted) =
         IF Len(m.buffer) < FragmentSize(wanted)
         THEN Normal(m, zipped) ELSE CutUp(m, zipped, FragmentSize(wanted))
  BY Zenon DEF Fragmented, CutUp, FragmentAt
<1> QED
  BY <1>1, <1>2, Zenon

LEMMA FragmentedType ==
  ASSUME NEW m \in Msg, NEW zipped, NEW wanted \in Int
  PROVE  IsData3(Fragmented(m, zipped, wanted))
<1>1. PICK size \in Nat \ {0} :
         Fragmented(m, zipped, wanted) =
            IF Len(m.buffer) < size THEN Normal(m, zipped) ELSE CutUp(m, zipped, size)
  BY FragmentedIs
<1>2. Len(m.buffer) \in Nat
  BY DEF Msg
<1>3. CASE Len(m.buffer) < size
  BY <1>1, <1>3, NormalType
<1>4. CASE size <= Len(m.buffer)
  <2>1. ~(Len(m.buffer) < size)
    BY <1>2, <1>4
  <2>2. IsData3(CutUp(m, zipped, size))
    BY <1>4, CutUpFacts
  <2> QED
    BY <1>1, <2>1, <2>2
<1> QED
  BY <1>2, <1>3, <1>4

LEMMA FramesOfType ==
  ASSUME args \in Args, NEW m \in Msg, NEW zipped \in BOOLEAN
  PROVE  IsData3(FramesOf(m, zipped))
<1>1. /\ args.fragment_option \in {"off", "auto", "set"}
      /\ args.param \in Nat \cup {-1}
  BY ConnectionAssumption
<1> DEFINE out == IF Deflate /\ zipped THEN [m EXCEPT !.buffer = Deflated(@)] ELSE m
<1>2. out \in Msg
  <2>1. m.buffer \in Seq(Byte)
    BY DEF Msg
  <2>2. Deflated(m.buffer) \in Seq(Byte)
    BY <2>1 DEF Deflated, Mark, Byte
  <2>3. [m EXCEPT !.buffer = Deflated(@)] \in Msg
    BY <2>2 DEF Msg
  <2> QED
    BY <2>3
<1>3. AutoSize \in Nat
  BY <1>1 DEF AutoSize, WS_MAXIMUM_HEADER_LENGTH, DEFAULT_AUTO_FRAGMENT_SIZE
<1>4. FramesOf(m, zipped) =
         CASE args.fragment_option = "off" -> Normal(out, zipped)
           [] args.fragment_option = "auto" -> Fragmented(out, zipped, AutoSize)
           [] args.fragment_option = "set" -> Fragmented(out, zipped, args.param)
  BY Zenon DEF FramesOf
<1> HIDE DEF out
<1>5. CASE args.fragment_option = "off"
  BY <1>2, <1>4, <1>5, NormalType
<1>6. CASE args.fragment_option = "auto"
  BY <1>2, <1>3, <1>4, <1>6, FragmentedType
<1>7. CASE args.fragment_option = "set"
  BY <1>1, <1>2, <1>4, <1>7, FragmentedType
<1> QED
  BY <1>1, <1>5, <1>6, <1>7

-----------------------------------------------------------------------------
(* Closing.                                                                *)

Closing(code, reason) ==
    [op |-> Close, fin |-> TRUE, rsv |-> 0, payload |-> CodeBytes(code) \o reason]

LEMMA CloseFrameType ==
  ASSUME NEW code \in Codes, NEW reason \in Seq(Byte)
  PROVE  Closing(code, reason) \in Frame /\ Closing(code, reason).op = Close
<1> DEFINE p == CodeBytes(code) \o reason
           c == [op |-> Close, fin |-> TRUE, rsv |-> 0, payload |-> p]
<1>1. code \div 256 \in Byte /\ code % 256 \in Byte
  BY DEF Byte, Codes
<1>2. CodeBytes(code) \in Seq(Byte)
  BY <1>1 DEF CodeBytes
<1>3. p \in Seq(Byte)
  BY <1>2
<1> HIDE DEF p
<1>4. c \in Frame /\ c.op = Close
  BY <1>3 DEF Frame, Close
<1> QED
  BY <1>4 DEF Closing, p

\* What closing does to the frames that were sent.
LEMMA ClosingSends ==
  ASSUME TypeInv, SentInv, pc # "ended", NEW code \in Codes, NEW reason \in Seq(Byte),
         CloseConnection(code, reason), peer' = peer
  PROVE  /\ sent' \in Seq(Frame) /\ SentInv'
         /\ Payloads(sent', Pong) = Payloads(sent, Pong)
<1>1. PICK c \in Frame : c = Closing(code, reason) /\ c.op = Close
  <2>1. Closing(code, reason) \in Frame /\ Closing(code, reason).op = Close
    BY CloseFrameType, Zenon
  <2> QED
    BY <2>1, Zenon
<1>2. sent' = (IF CanSend THEN sent \o <<c>> ELSE sent) /\ pc' = "ended"
  BY <1>1 DEF CloseConnection, Send, Closing
<1>3. sent \in Seq(Frame) /\ Len(sent) \in Nat
  BY DEF TypeInv
<1>4. \A i \in 1..Len(sent) : sent[i].op # Close
  BY DEF SentInv
<1>5. CASE CanSend
  <2>1. sent' = sent \o <<c>>
    BY <1>2, <1>5
  <2>2. /\ sent' \in Seq(Frame) /\ Len(sent') = Len(sent) + 1
        /\ sent'[Len(sent) + 1] = c /\ \A i \in 1..Len(sent) : sent'[i] = sent[i]
    BY <1>1, <1>3, <2>1
  <2>3. SentInv'
    <3>1. \A i \in 1..Len(sent') : sent'[i].op = Close => i = Len(sent')
      BY <1>3, <1>4, <2>2
    <3>2. sent' # <<>> /\ Last(sent').op = Close
      BY <1>1, <1>3, <2>2 DEF Last
    <3> QED
      BY <1>2, <3>1, <3>2 DEF SentInv
  <2>4. PICK cs \in Seq(Frame) : cs = <<c>> /\ Len(cs) = 1 /\ cs[1] = c
    <3>1. <<c>> \in Seq(Frame) /\ Len(<<c>>) = 1 /\ <<c>>[1] = c
      OBVIOUS
    <3> QED
      BY <3>1, Zenon
  <2>5. \A i \in 1..Len(cs) : cs[i].op # Pong
    BY <1>1, <2>4 DEF Close, Pong
  <2>6. Payloads(sent \o cs, Pong) = Payloads(sent, Pong)
    BY <1>3, <2>5, PayloadsSame
  <2> QED
    BY <2>1, <2>2, <2>3, <2>4, <2>6
<1>6. CASE ~CanSend
  <2>1. sent' = sent /\ peer' = "gone"
    BY <1>2, <1>6 DEF CanSend
  <2>2. SentInv'
    BY <1>2, <1>4, <2>1 DEF SentInv
  <2> QED
    BY <1>3, <2>1, <2>2
<1> QED
  BY <1>5, <1>6

LEMMA PrefixOfItself ==
  ASSUME NEW T, NEW s \in Seq(T)
  PROVE  IsPrefix(s, s) /\ \A x \in T : IsPrefix(s, Append(s, x))
<1>1. IsPrefix(s, s)
  BY DEF IsPrefix
<1>2. ASSUME NEW x \in T PROVE IsPrefix(s, Append(s, x))
  <2>1. Append(s, x) \in Seq(T) /\ Len(Append(s, x)) = Len(s) + 1 /\ Len(s) \in Nat
    OBVIOUS
  <2>2. \A i \in 1..Len(s) : Append(s, x)[i] = s[i]
    OBVIOUS
  <2>3. SubSeq(Append(s, x), 1, Len(s)) = SubSeq(s, 1, Len(s))
    BY <2>1, <2>2
  <2> QED
    BY <2>1, <2>3 DEF IsPrefix
<1> QED
  BY <1>1, <1>2

\* The pings that have to be answered, once the connection has ended.
LEMMA AnsweredWhenEnded ==
  ASSUME args' = args, received' \in Seq(Frame), closed_with' # 0, NEW good \in Seq(Frame),
         Payloads(sent', Pong) \in Seq(Seq(Byte)),
         IF received' # <<>> /\ CodeFor(received', Len(received')) # 0
         THEN good = Front(received') ELSE good = received',
         \/ Payloads(sent', Pong) = Payloads(good, Ping)
         \/ peer' = "gone" /\ IsPrefix(Payloads(sent', Pong), Payloads(good, Ping))
  PROVE  PingsAreAnswered'
<1>1. CodeFor(received, Len(received))' = CodeFor(received', Len(received'))
  BY MeaningKept
<1>2. good = IF closed_with' # 0 /\ received' # <<>> /\ CodeFor(received', Len(received')) # 0
             THEN Front(received') ELSE received'
  OBVIOUS
<1>3. PingsAreAnswered' <=>
        IF peer' = "gone" THEN IsPrefix(Payloads(sent', Pong), Payloads(good, Ping))
        ELSE Payloads(sent', Pong) = Payloads(good, Ping)
  BY <1>1, <1>2, Zenon DEF PingsAreAnswered
<1>4. IsPrefix(Payloads(sent', Pong), Payloads(sent', Pong))
  BY PrefixOfItself
<1> QED
  BY <1>3, <1>4

\* A frame ends the connection: with the code it calls for, or because a pong
\* cannot be sent any more.
LEMMA CloseOnFrame ==
  ASSUME ListenerInv, pc = "read", NEW f \in Frames, received' = Append(received, f),
         args' = args, peer' = peer,
         NEW code \in Codes, NEW reason \in Seq(Byte), CloseConnection(code, reason),
         \/ CodeFor(Stream(f), Last1) = code
         \/ CodeFor(Stream(f), Last1) = 0 /\ peer = "gone" /\ f.op = Ping
  PROVE  ListenerInv'
<1> USE DEF ListenerInv
<1>1. /\ received \in Seq(Frame) /\ f \in Frame /\ Len(received) \in Nat
      /\ Stream(f) \in Seq(Frame) /\ Len(Stream(f)) = Last1 /\ Stream(f)[Last1] = f
      /\ \A k \in 1..Len(received) : CodeFor(Stream(f), k) = 0
  BY ReadingFacts
<1>2. received' = Stream(f) /\ Len(received') = Last1 /\ received' \in Seq(Frame)
  BY <1>1 DEF Stream
<1>3. sent' \in Seq(Frame) /\ SentInv' /\ Payloads(sent', Pong) = Payloads(sent, Pong)
  BY ClosingSends
<1>4. /\ closed_with' = code /\ pc' = "ended" /\ has_message' = has_message
      /\ message' = message /\ compressed' = compressed /\ delivered' = delivered
  BY DEF CloseConnection
<1>5. code # 0
  BY DEF Codes
<1>6. TypeInv'
  <2>1. received' \in Seq(Frames)
    BY DEF TypeInv
  <2> QED
    BY <1>3, <1>4, <2>1 DEF TypeInv
<1>7. ReadInv' /\ HandleInv'
  BY <1>4 DEF ReadInv, HandleInv
<1>8. Messages(received') = delivered
  <2>1. Messages(Stream(f)) =
           IF CodeFor(Stream(f), Last1) = 0 /\ Completes(Stream(f), Last1)
           THEN Append(Messages(received), MessageAt(Stream(f), Last1)) ELSE Messages(received)
    BY <1>1, MessagesNext DEF Stream, Last1
  <2>2. ~(CodeFor(Stream(f), Last1) = 0 /\ Completes(Stream(f), Last1))
    BY <1>1, <1>5 DEF Completes, IsData, Ping, Cont, Text, Bin
  <2> QED
    BY <1>2, <2>1, <2>2 DEF ReadInv
<1>9. EndInv'
  <2>1. AllGood(received', Len(received') - 1)
    <3>1. Len(received') - 1 = Len(received)
      BY <1>1, <1>2 DEF Last1
    <3> QED
      BY <1>1, <1>2, <3>1 DEF AllGood
  <2>2. CodeFor(received', Len(received')) = code \/ peer' # "up"
    BY <1>2
  <2>3. Len(received') > 0
    BY <1>1, <1>2 DEF Last1
  <2>4. CodeFor(received', Len(received')) # 0 => CodeFor(received', Len(received')) = code
    BY <1>2
  <2>5. /\ Messages(received)' = Messages(received')
        /\ CodeFor(received, Len(received))' = CodeFor(received', Len(received'))
        /\ AllGood(received, Len(received) - 1)' <=> AllGood(received', Len(received') - 1)
    BY MeaningKept
  <2> QED
    BY <1>4, <1>5, <1>8, <2>1, <2>2, <2>3, <2>4, <2>5 DEF EndInv
<1>10. PongInv'
  <2>1. Payloads(sent', Pong) = Payloads(received, Ping)
    BY <1>3 DEF PongInv
  <2>2. Payloads(sent', Pong) \in Seq(Seq(Byte))
    BY <1>1, <2>1, PayloadsType
  <2>3. received' # <<>> /\ Front(received') = received
    BY <1>1 DEF Front
  <2>4. CASE CodeFor(Stream(f), Last1) = code
    <3>1. CodeFor(received', Len(received')) # 0
      BY <1>2, <1>5, <2>4
    <3>2. PingsAreAnswered'
      BY <1>1, <1>2, <1>4, <1>5, <2>1, <2>2, <2>3, <3>1, AnsweredWhenEnded
    <3> QED
      BY <1>4, <3>2 DEF PongInv
  <2>5. CASE CodeFor(Stream(f), Last1) = 0 /\ peer = "gone" /\ f.op = Ping
    <3>1. ~(CodeFor(received', Len(received')) # 0)
      BY <1>2, <2>5
    <3>2. Payloads(received', Ping) = Append(Payloads(received, Ping), f.payload)
      BY <1>1, <2>5, PayloadsNext
    <3>3. f.payload \in Seq(Byte)
      BY <1>1 DEF Frame
    <3>4. IsPrefix(Payloads(sent', Pong), Payloads(received', Ping))
      BY <2>1, <2>2, <3>2, <3>3, PrefixOfItself
    <3>5. PingsAreAnswered'
      BY <1>2, <1>4, <1>5, <2>2, <2>5, <3>1, <3>4, AnsweredWhenEnded
    <3> QED
      BY <1>4, <3>5 DEF PongInv
  <2> QED
    BY <2>4, <2>5
<1> QED
  BY <1>3, <1>6, <1>7, <1>9, <1>10

-----------------------------------------------------------------------------
(* Frames that the listener accepts.                                       *)

\* A frame that calls for no closing adds its message, if it completes one.
LEMMA GoodFrame ==
  ASSUME ListenerInv, pc = "read", NEW f \in Frames, received' = Append(received, f),
         args' = args, CodeFor(Stream(f), Last1) = 0
  PROVE  /\ received' = Stream(f) /\ Len(received') = Last1
         /\ received' \in Seq(Frames) /\ Stream(f) \in Seq(Frame)
         /\ AllGood(received, Len(received))'
         /\ Messages(received)' = IF Completes(Stream(f), Last1)
                                  THEN Append(delivered, MessageAt(Stream(f), Last1))
                                  ELSE delivered
         /\ MessageOpen(received', Len(received') + 1) <=>
               \/ f.op \in {Text, Bin} /\ ~f.fin
               \/ has_message /\ (f.op = Cont => ~f.fin)
<1> USE DEF ListenerInv
<1>1. /\ received \in Seq(Frame) /\ f \in Frame /\ Len(received) \in Nat
      /\ Stream(f) \in Seq(Frame) /\ Len(Stream(f)) = Last1 /\ Stream(f)[Last1] = f
      /\ \A k \in 1..Len(received) : CodeFor(Stream(f), k) = 0
  BY ReadingFacts
<1>2. received' = Stream(f) /\ Len(received') = Last1 /\ received' \in Seq(Frames)
  BY <1>1 DEF Stream, TypeInv
<1>3. /\ Messages(received)' = Messages(received')
      /\ AllGood(received, Len(received))' <=> AllGood(received', Len(received'))
  BY MeaningKept
<1>4. AllGood(received', Len(received'))
  <2>1. \A k \in 1..Last1 : k = Last1 \/ k \in 1..Len(received)
    BY <1>1 DEF Last1
  <2> QED
    BY <1>1, <1>2, <2>1 DEF AllGood
<1>5. Messages(received') = IF Completes(Stream(f), Last1)
                            THEN Append(delivered, MessageAt(Stream(f), Last1)) ELSE delivered
  <2>1. Messages(Stream(f)) =
           IF CodeFor(Stream(f), Last1) = 0 /\ Completes(Stream(f), Last1)
           THEN Append(Messages(received), MessageAt(Stream(f), Last1)) ELSE Messages(received)
    BY <1>1, MessagesNext DEF Stream, Last1
  <2> QED
    BY <1>2, <2>1 DEF ReadInv
<1>6. MessageOpen(received', Len(received') + 1) <=>
         \/ f.op \in {Text, Bin} /\ ~f.fin
         \/ has_message /\ (f.op = Cont => ~f.fin)
  <2>1. MessageOpen(Stream(f), Len(received) + 2) <=>
         \/ f.op \in {Text, Bin} /\ ~f.fin
         \/ MessageOpen(received, Len(received) + 1) /\ (f.op = Cont => ~f.fin)
    BY <1>1, OpenNext DEF Stream
  <2>2. Len(received') + 1 = Len(received) + 2
    BY <1>1, <1>2 DEF Last1
  <2>3. has_message <=> MessageOpen(received, Len(received) + 1)
    BY DEF ReadInv
  <2> QED
    BY <1>2, <2>1, <2>2, <2>3, Zenon
<1> QED
  BY <1>1, <1>2, <1>3, <1>4, <1>5, <1>6

\* A first or further frame of a message.
DataFrame(f) ==
    \/ f.op = Cont /\ has_message /\ is_valid_cont_frame(f)
    \/ f.op \in {Text, Bin} /\ ~has_message

LEMMA DataLeavesPings ==
  ASSUME ListenerInv, pc = "read", NEW f \in Frames, received' = Append(received, f),
         DataFrame(f), sent' = sent
  PROVE  Payloads(sent', Pong) = Payloads(received', Ping)
<1>1. received \in Seq(Frame) /\ f \in Frame
  BY ReadingFacts DEF ListenerInv
<1>2. f.op # Ping
  BY DEF DataFrame, Cont, Text, Bin, Ping
<1> QED
  BY <1>1, <1>2, PayloadsNext DEF ListenerInv, PongInv

LEMMA KeepStep ==
  ASSUME ListenerInv, pc = "read", NEW f \in Frames, received' = Append(received, f),
         args' = args, peer' = peer, FrameError(f) = 0, DataFrame(f), ~f.fin,
         NEW is_text \in BOOLEAN, NEW buffer \in Seq(Byte), NEW zipped \in BOOLEAN,
         Holds(f, is_text, buffer, zipped), KeepMessage(is_text, buffer, zipped)
  PROVE  ListenerInv'
<1> USE DEF ListenerInv
<1>1. CodeFor(Stream(f), Last1) = 0 /\ ~Completes(Stream(f), Last1)
  BY DataMeaning DEF DataFrame
<1>2. /\ received' = Stream(f) /\ Len(received') = Last1 /\ received' \in Seq(Frames)
      /\ AllGood(received, Len(received))' /\ Messages(received)' = delivered
      /\ MessageOpen(received', Len(received') + 1)
  <2>1. /\ received' = Stream(f) /\ Len(received') = Last1 /\ received' \in Seq(Frames)
        /\ AllGood(received, Len(received))' /\ Messages(received)' = delivered
    BY <1>1, GoodFrame
  <2>2. MessageOpen(received', Len(received') + 1) <=>
         \/ f.op \in {Text, Bin} /\ ~f.fin
         \/ has_message /\ (f.op = Cont => ~f.fin)
    BY <1>1, GoodFrame
  <2> QED
    BY <2>1, <2>2, Zenon DEF DataFrame
<1>3. /\ has_message' = TRUE /\ message' = [is_text |-> is_text, buffer |-> buffer]
      /\ compressed' = zipped /\ pc' = pc /\ sent' = sent /\ delivered' = delivered
      /\ closed_with' = closed_with
  BY DEF KeepMessage
<1>4. message' \in Msg /\ message'.is_text = is_text /\ message'.buffer = buffer
  BY <1>3 DEF Msg
<1>5. TypeInv'
  BY <1>2, <1>3, <1>4 DEF TypeInv
<1>6. ReadInv'
  <2>1. closed_with' = 0
    BY <1>3 DEF ReadInv
  <2>2. /\ is_text <=> FirstFrame(received', Len(received')).op = Text
        /\ buffer = WholePayload(received', Len(received'))
        /\ zipped <=> FirstFrame(received', Len(received')).rsv = Rsv1
    BY <1>2 DEF Holds
  <2> QED
    BY <1>2, <1>3, <1>4, <2>1, <2>2 DEF ReadInv
<1>7. HandleInv' /\ EndInv'
  BY <1>3 DEF HandleInv, EndInv
<1>8. SentInv'
  BY <1>3 DEF SentInv
<1>9. PongInv'
  BY <1>3, DataLeavesPings DEF PongInv
<1> QED
  BY <1>5, <1>6, <1>7, <1>8, <1>9

LEMMA InflatedType ==
  ASSUME NEW buffer \in Seq(Byte), Inflatable(buffer)
  PROVE  Inflated(buffer) \in Seq(Byte)
BY DEF Inflated, Inflatable

LEMMA FinishStep ==
  ASSUME ListenerInv, pc = "read", NEW f \in Frames, received' = Append(received, f),
         args' = args, peer' = peer, FrameError(f) = 0, DataFrame(f), f.fin,
         NEW is_text \in BOOLEAN, NEW buffer \in Seq(Byte), NEW zipped \in BOOLEAN,
         Holds(f, is_text, buffer, zipped), FinishMessage(is_text, buffer, zipped)
  PROVE  ListenerInv'
<1> USE DEF ListenerInv
<1> DEFINE plain == IF zipped THEN Inflated(buffer) ELSE buffer
<1>1. CASE ~Whole(is_text, buffer, zipped)
  <2>1. CodeFor(Stream(f), Last1) = CloseCodeInvalidFramePayloadData
    BY <1>1, DataMeaning DEF DataFrame
  <2>2. CloseConnection(CloseCodeInvalidFramePayloadData, <<>>)
    BY <1>1 DEF FinishMessage, Whole
  <2>3. CloseCodeInvalidFramePayloadData \in Codes /\ <<>> \in Seq(Byte)
    BY DEF CloseCodeInvalidFramePayloadData, Codes
  <2> QED
    BY <2>1, <2>2, <2>3, CloseOnFrame
<1>2. CASE Whole(is_text, buffer, zipped)
  <2>1. /\ CodeFor(Stream(f), Last1) = 0 /\ Completes(Stream(f), Last1)
        /\ MessageAt(Stream(f), Last1) = [is_text |-> is_text, buffer |-> plain]
    BY <1>2, DataMeaning DEF DataFrame
  <2>2. /\ pc' = "handle" /\ has_message' = TRUE
        /\ message' = [is_text |-> is_text, buffer |-> plain]
        /\ compressed' = zipped /\ sent' = sent /\ delivered' = delivered
        /\ closed_with' = closed_with
    BY <1>2 DEF FinishMessage, Whole
  <2>3. plain \in Seq(Byte)
    BY <1>2, InflatedType DEF Whole
  <2>4. is_text => Utf8Valid(plain)
    BY <1>2 DEF Whole
  <2> HIDE DEF plain
  <2>5. message' \in Msg /\ message'.is_text = is_text /\ message'.buffer = plain
    BY <2>2, <2>3 DEF Msg
  <2>6. /\ received' \in Seq(Frames) /\ AllGood(received, Len(received))'
        /\ Messages(received)' = Append(delivered, message')
    <3>1. Messages(received)' = Append(delivered, MessageAt(Stream(f), Last1))
      BY <2>1, GoodFrame
    <3>2. received' \in Seq(Frames) /\ AllGood(received, Len(received))'
      BY <2>1, GoodFrame
    <3> QED
      BY <2>1, <2>2, <3>1, <3>2
  <2>7. ~MessageOpen(received', Len(received') + 1)
    <3>1. MessageOpen(received', Len(received') + 1) <=>
             \/ f.op \in {Text, Bin} /\ ~f.fin
             \/ has_message /\ (f.op = Cont => ~f.fin)
      BY <2>1, GoodFrame
    <3> QED
      BY <3>1, Zenon DEF DataFrame
  <2>8. TypeInv'
    BY <2>2, <2>5, <2>6 DEF TypeInv
  <2>9. HandleInv'
    <3>1. closed_with' = 0
      BY <2>2 DEF ReadInv
    <3>2. received' = Stream(f) /\ Len(received') = Last1
      BY <2>1, GoodFrame
    <3>3. Len(received') # 0
      BY <3>2, ReadingFacts DEF Last1
    <3>4. Completes(received', Len(received')) /\ message' = MessageAt(received', Len(received'))
      BY <2>1, <2>2, <3>2, Zenon
    <3>5. compressed' <=> FirstFrame(received', Len(received')).rsv = Rsv1
      BY <2>2, <3>2, Zenon DEF Holds
    <3> QED
      BY <2>2, <2>4, <2>5, <2>6, <2>7, <3>1, <3>3, <3>4, <3>5 DEF HandleInv
  <2>10. ReadInv' /\ EndInv'
    BY <2>2 DEF ReadInv, EndInv
  <2>11. SentInv'
    BY <2>2 DEF SentInv
  <2>12. PongInv'
    BY <2>2, DataLeavesPings DEF PongInv
  <2> QED
    BY <2>8, <2>9, <2>10, <2>11, <2>12
<1> QED
  BY <1>1, <1>2

\* A ping or a pong leaves the message that is received alone.
LEMMA ControlKeeps ==
  ASSUME ListenerInv, pc = "read", NEW f \in Frames, received' = Append(received, f),
         args' = args, FrameError(f) = 0, f.op \in {Ping, Pong},
         UNCHANGED <<pc, has_message, message, compressed, delivered, closed_with>>
  PROVE  received' \in Seq(Frames) /\ ReadInv' /\ HandleInv' /\ EndInv'
<1> USE DEF ListenerInv
<1>1. received \in Seq(Frame) /\ f \in Frame /\ Len(received) \in Nat /\ Stream(f)[Last1] = f
  BY ReadingFacts
<1>2. CodeFor(Stream(f), Last1) = 0
  BY ControlMeaning
<1>3. f.op \notin {Text, Bin} /\ f.op # Cont
  BY DEF Ping, Pong, Cont, Text, Bin
<1>4. ~Completes(Stream(f), Last1)
  BY <1>1, <1>3 DEF Completes, IsData
<1>5. /\ received' = Stream(f) /\ Len(received') = Last1 /\ received' \in Seq(Frames)
      /\ AllGood(received, Len(received))' /\ Messages(received)' = delivered
  BY <1>2, <1>4, GoodFrame
<1>6. MessageOpen(received', Len(received') + 1) <=> has_message
  <2>1. MessageOpen(received', Len(received') + 1) <=>
           \/ f.op \in {Text, Bin} /\ ~f.fin
           \/ has_message /\ (f.op = Cont => ~f.fin)
    BY <1>2, GoodFrame
  <2> QED
    BY <1>3, <2>1, Zenon
<1>7. has_message => /\ FirstFrame(received', Len(received')) = FirstFrame(received, Len(received))
                     /\ WholePayload(received', Len(received')) = WholePayload(received, Len(received))
  <2> SUFFICES ASSUME has_message
               PROVE  /\ FirstFrame(Stream(f), Last1) = FirstFrame(received, Len(received))
                      /\ WholePayload(Stream(f), Last1) = WholePayload(received, Len(received))
    BY <1>5
  <2>1. Starts(received, Len(received)) # {}
    BY <1>1, OpenHasStart DEF ReadInv
  <2> QED
    BY <1>1, <1>3, <2>1, FurtherNext DEF Stream, Last1
<1>8. ReadInv'
  BY <1>5, <1>6, <1>7 DEF ReadInv
<1>9. HandleInv' /\ EndInv'
  BY DEF HandleInv, EndInv
<1> QED
  BY <1>5, <1>8, <1>9

LEMMA PingStep ==
  ASSUME ListenerInv, pc = "read", NEW f \in Frames, received' = Append(received, f),
         args' = args, peer' = peer, PingFrame(f)
  PROVE  ListenerInv'
<1> USE DEF ListenerInv
<1>1. received \in Seq(Frame) /\ f \in Frame /\ sent \in Seq(Frame) /\ Len(sent) \in Nat
  BY ReadingFacts DEF TypeInv
<1>2. received' \in Seq(Frames) /\ ReadInv' /\ HandleInv' /\ EndInv'
  BY ControlKeeps DEF PingFrame, CloseConnection
<1> DEFINE p == [op |-> Pong, fin |-> TRUE, rsv |-> f.rsv, payload |-> f.payload]
<1>3. p \in Frame /\ p.op = Pong /\ p.payload = f.payload
  BY <1>1 DEF Frame, Pong
<1>4. sent' = sent \o <<p>> /\ pc' = pc
  BY DEF PingFrame, Send
<1> HIDE DEF p
<1>5. sent' = Append(sent, p) /\ sent' \in Seq(Frame) /\ Len(sent') = Len(sent) + 1
  BY <1>1, <1>3, <1>4
<1>6. TypeInv'
  BY <1>2, <1>5 DEF TypeInv, PingFrame
<1>7. SentInv'
  <2>1. \A i \in 1..Len(sent) : sent[i].op # Close
    BY DEF SentInv
  <2>2. \A i \in 1..Len(sent') : sent'[i].op # Close
    BY <1>1, <1>3, <1>5, <2>1 DEF Close, Pong
  <2> QED
    BY <1>4, <2>2 DEF SentInv
<1>8. PongInv'
  <2>1. Payloads(sent', Pong) = Append(Payloads(sent, Pong), f.payload)
    BY <1>1, <1>3, <1>5, PayloadsNext
  <2>2. Payloads(received', Ping) = Append(Payloads(received, Ping), f.payload)
    BY <1>1, PayloadsNext DEF PingFrame
  <2> QED
    BY <1>4, <2>1, <2>2 DEF PongInv
<1> QED
  BY <1>2, <1>6, <1>7, <1>8

LEMMA PongStep ==
  ASSUME ListenerInv, pc = "read", NEW f \in Frames, received' = Append(received, f),
         args' = args, peer' = peer, PongFrame(f)
  PROVE  ListenerInv'
<1> USE DEF ListenerInv
<1>1. received \in Seq(Frame) /\ f \in Frame
  BY ReadingFacts
<1>2. received' \in Seq(Frames) /\ ReadInv' /\ HandleInv' /\ EndInv'
  BY ControlKeeps DEF PongFrame
<1>3. TypeInv'
  BY <1>2 DEF TypeInv, PongFrame
<1>4. SentInv'
  BY DEF SentInv, PongFrame
<1>5. PongInv'
  <2>1. Payloads(received', Ping) = Payloads(received, Ping)
    BY <1>1, PayloadsNext DEF PongFrame, Ping, Pong
  <2> QED
    BY <2>1 DEF PongInv, PongFrame
<1> QED
  BY <1>2, <1>3, <1>4, <1>5

\* The code of a close frame is one that a connection may be closed with.
LEMMA ValidCodes ==
  ASSUME NEW code, is_valid_close_code(code)
  PROVE  code \in Codes
BY DEF is_valid_close_code, Codes

LEMMA CloseFrameStep ==
  ASSUME ListenerInv, pc = "read", NEW f \in Frames, received' = Append(received, f),
         args' = args, peer' = peer, CloseFrame(f)
  PROVE  ListenerInv'
<1> USE DEF ListenerInv
<1> DEFINE Is(code, reason) ==
       /\ code \in Codes /\ reason \in Seq(Byte)
       /\ CloseConnection(code, reason) /\ CodeFor(Stream(f), Last1) = code
<1>1. FrameError(f) = 0 /\ f.op = Close /\ f \in Frame
  BY ReadingFacts DEF CloseFrame
<1>2. CodeFor(Stream(f), Last1) =
         IF f.payload = <<>> THEN CloseCodeNormalClosure
         ELSE IF is_valid_close_code(CodeOf(f.payload)) THEN CodeOf(f.payload)
         ELSE CloseCodeProtocolError
  BY <1>1, ControlMeaning
<1>3. <<>> \in Seq(Byte) /\ CloseCodeNormalClosure \in Codes /\ CloseCodeProtocolError \in Codes
  BY DEF Codes, CloseCodeNormalClosure, CloseCodeProtocolError
<1>4. \E code, reason : Is(code, reason)
  <2>1. CASE f.payload = <<>>
    <3>1. Is(CloseCodeNormalClosure, <<>>)
      BY <1>2, <1>3, <2>1 DEF CloseFrame
    <3> QED
      BY <3>1
  <2>2. CASE f.payload # <<>> /\ is_valid_close_code(CodeOf(f.payload))
    <3>1. CodeOf(f.payload) \in Codes
      BY <2>2, ValidCodes, Zenon
    <3>2. SubSeq(f.payload, 3, Len(f.payload)) \in Seq(Byte)
      <4>1. f.payload \in Seq(Byte) /\ Len(f.payload) \in Int
        BY <1>1 DEF Frame
      <4>2. \A i \in 3..Len(f.payload) : f.payload[i] \in Byte
        BY <4>1
      <4> QED
        BY <4>1, <4>2, SubSeqProperties
    <3>3. Is(CodeOf(f.payload), SubSeq(f.payload, 3, Len(f.payload)))
      BY <1>2, <2>2, <3>1, <3>2 DEF CloseFrame
    <3> HIDE DEF Is
    <3> QED
      BY <3>3
  <2>3. CASE f.payload # <<>> /\ ~is_valid_close_code(CodeOf(f.payload))
    <3>1. Is(CloseCodeProtocolError, <<>>)
      BY <1>2, <1>3, <2>3 DEF CloseFrame
    <3> QED
      BY <3>1
  <2> QED
    BY <2>1, <2>2, <2>3
<1>5. PICK code \in Codes, reason \in Seq(Byte) :
         CloseConnection(code, reason) /\ CodeFor(Stream(f), Last1) = code
  BY <1>4
<1> QED
  BY <1>5, CloseOnFrame

LEMMA ReceiveStep ==
  ASSUME ListenerInv, NEW f \in Frames, Receive(f)
  PROVE  ListenerInv'
<1> USE DEF ListenerInv
<1>1. /\ pc = "read" /\ received' = Append(received, f) /\ args' = args /\ peer' = peer
  BY DEF Receive
<1>2. <<>> \in Seq(Byte) /\ CloseCodeProtocolError \in Codes
  BY DEF Codes, CloseCodeProtocolError
<1>3. f \in Frame
  BY <1>1, ReadingFacts
<1>4. CASE RefuseFrame(f)
  <2>1. CodeFor(Stream(f), Last1) = FrameError(f) /\ FrameError(f) \in Codes
    BY <1>1, <1>4, RefusedMeaning DEF RefuseFrame
  <2> QED
    BY <1>1, <1>2, <1>4, <2>1, CloseOnFrame DEF RefuseFrame
<1>5. CASE RefuseCont(f)
  <2>1. CodeFor(Stream(f), Last1) = CloseCodeProtocolError
    BY <1>1, <1>5, MisplacedMeaning DEF RefuseCont
  <2> QED
    BY <1>1, <1>2, <1>5, <2>1, CloseOnFrame DEF RefuseCont
<1>6. CASE ContFrame(f)
  <2>1. FrameError(f) = 0 /\ DataFrame(f) /\ f.op = Cont /\ has_message
    BY <1>6 DEF ContFrame, DataFrame
  <2> DEFINE text == message.is_text
             buffer == message.buffer \o f.payload
  <2>2. text \in BOOLEAN /\ buffer \in Seq(Byte) /\ compressed \in BOOLEAN
    <3>1. message.is_text \in BOOLEAN /\ message.buffer \in Seq(Byte) /\ f.payload \in Seq(Byte)
      BY <1>3 DEF TypeInv, Msg, Frame
    <3> QED
      BY <3>1 DEF TypeInv
  <2>3. Holds(f, text, buffer, compressed)
    BY <1>1, <2>1, ContHolds
  <2>4. IF f.fin THEN FinishMessage(text, buffer, compressed)
                 ELSE KeepMessage(text, buffer, compressed)
    BY <1>6 DEF ContFrame
  <2> HIDE DEF text, buffer
  <2>5. CASE f.fin
    BY <1>1, <2>1, <2>2, <2>3, <2>4, <2>5, FinishStep
  <2>6. CASE ~f.fin
    BY <1>1, <2>1, <2>2, <2>3, <2>4, <2>6, KeepStep
  <2> QED
    BY <2>5, <2>6
<1>7. CASE RefuseStart(f)
  <2>1. CodeFor(Stream(f), Last1) = CloseCodeProtocolError
    BY <1>1, <1>7, MisplacedMeaning DEF RefuseStart
  <2> QED
    BY <1>1, <1>2, <1>7, <2>1, CloseOnFrame DEF RefuseStart
<1>8. CASE StartFrame(f)
  <2>1. FrameError(f) = 0 /\ DataFrame(f) /\ f.op \in {Text, Bin}
    BY <1>8 DEF StartFrame, DataFrame
  <2> DEFINE text == f.op = Text
             zipped == Deflate /\ f.rsv = Rsv1
  <2>2. text \in BOOLEAN /\ f.payload \in Seq(Byte) /\ zipped \in BOOLEAN
    BY <1>3 DEF Frame
  <2>3. Holds(f, text, f.payload, zipped)
    BY <1>1, <2>1, StartHolds
  <2>4. IF f.fin THEN FinishMessage(text, f.payload, zipped)
                 ELSE KeepMessage(text, f.payload, zipped)
    BY <1>8, Zenon DEF StartFrame
  <2> HIDE DEF text, zipped
  <2>5. CASE f.fin
    BY <1>1, <2>1, <2>2, <2>3, <2>4, <2>5, FinishStep
  <2>6. CASE ~f.fin
    BY <1>1, <2>1, <2>2, <2>3, <2>4, <2>6, KeepStep
  <2> QED
    BY <2>5, <2>6
<1>9. CASE CloseFrame(f)
  BY <1>1, <1>9, CloseFrameStep
<1>10. CASE PingFrame(f)
  BY <1>1, <1>10, PingStep
<1>11. CASE PongUnsent(f)
  <2>1. FrameError(f) = 0 /\ f.op = Ping /\ peer = "gone"
        /\ CloseConnection(CloseCodeProtocolError, <<>>)
    BY <1>11 DEF PongUnsent, CanSend
  <2>2. CodeFor(Stream(f), Last1) = 0
    BY <1>1, <2>1, ControlMeaning
  <2> QED
    BY <1>1, <1>2, <2>1, <2>2, CloseOnFrame
<1>12. CASE PongFrame(f)
  BY <1>1, <1>12, PongStep
<1>13. CASE UnknownFrame(f)
  <2>1. CodeFor(Stream(f), Last1) = CloseCodeProtocolError
    BY <1>1, <1>13, ControlMeaning DEF UnknownFrame
  <2> QED
    BY <1>1, <1>2, <1>13, <2>1, CloseOnFrame DEF UnknownFrame
<1> QED
  BY <1>4, <1>5, <1>6, <1>7, <1>8, <1>9, <1>10, <1>11, <1>12, <1>13 DEF Receive

-----------------------------------------------------------------------------
(* The other steps.                                                        *)

\* What a stream that does not change means.
LEMMA SameStream ==
  ASSUME args' = args, received' = received
  PROVE  /\ CodeFor(received, Len(received))' = CodeFor(received, Len(received))
         /\ AllGood(received, Len(received))' <=> AllGood(received, Len(received))
         /\ AllGood(received, Len(received) - 1)' <=> AllGood(received, Len(received) - 1)
         /\ Messages(received)' = Messages(received)
BY MeaningKept

LEMMA InitHolds ==
  ASSUME Init
  PROVE  ListenerInv
<1> USE DEF Init
<1>1. <<>> \in Seq(Frames) /\ <<>> \in Seq(Frame) /\ <<>> \in Seq(Msg) /\ <<>> \in Seq(Byte)
  OBVIOUS
<1>2. TypeInv
  BY <1>1 DEF TypeInv, NoMessage, Msg
<1>3. ReadInv
  <2>1. Len(received) = 0 /\ DOMAIN received = {}
    OBVIOUS
  <2>2. AllGood(received, Len(received))
    BY <2>1 DEF AllGood
  <2>3. Messages(received) = <<>>
    BY <2>1, SelectedZero DEF Messages
  <2>4. ~MessageOpen(received, Len(received) + 1)
    BY <2>1 DEF MessageOpen
  <2> QED
    BY <2>2, <2>3, <2>4 DEF ReadInv
<1>4. HandleInv /\ EndInv /\ SentInv
  BY DEF HandleInv, EndInv, SentInv
<1>5. PongInv
  <2>1. \A op : Payloads(<<>>, op) = <<>>
    BY SelectedZero DEF Payloads
  <2> QED
    BY <2>1 DEF PongInv
<1> QED
  BY <1>2, <1>3, <1>4, <1>5 DEF ListenerInv

LEMMA StartStep ==
  ASSUME ListenerInv, ListenerStart
  PROVE  ListenerInv'
<1> USE DEF ListenerInv, ListenerStart
<1>1. TypeInv' /\ HandleInv' /\ EndInv' /\ SentInv' /\ PongInv'
  BY DEF TypeInv, HandleInv, EndInv, SentInv, PongInv
<1>2. ReadInv'
  BY SameStream DEF ReadInv
<1> QED
  BY <1>1, <1>2

LEMMA ReadErrorStep ==
  ASSUME ListenerInv, ReadError
  PROVE  ListenerInv'
<1> USE DEF ListenerInv
<1>1. /\ pc = "read" /\ peer # "up" /\ args' = args /\ peer' = peer /\ received' = received
      /\ CloseConnection(CloseCodeProtocolError, <<>>)
  BY DEF ReadError
<1>2. <<>> \in Seq(Byte) /\ CloseCodeProtocolError \in Codes /\ CloseCodeProtocolError # 0
  BY DEF Codes, CloseCodeProtocolError
<1>3. /\ closed_with' = CloseCodeProtocolError /\ pc' = "ended" /\ has_message' = has_message
      /\ message' = message /\ compressed' = compressed /\ delivered' = delivered
  BY <1>1 DEF CloseConnection
<1>4. sent' \in Seq(Frame) /\ SentInv' /\ Payloads(sent', Pong) = Payloads(sent, Pong)
  BY <1>1, <1>2, ClosingSends
<1>5. TypeInv'
  BY <1>1, <1>2, <1>3, <1>4 DEF TypeInv
<1>6. ReadInv' /\ HandleInv'
  BY <1>3 DEF ReadInv, HandleInv
<1>7. received \in Seq(Frame) /\ Len(received) \in Nat
  BY FramesAreFrames DEF TypeInv
<1>8. received # <<>> => CodeFor(received, Len(received)) = 0
  <2>1. received # <<>> => Len(received) \in 1..Len(received)
    BY <1>7
  <2> QED
    BY <1>1, <2>1 DEF ReadInv, AllGood
<1>9. EndInv'
  <2>1. AllGood(received, Len(received) - 1)
    BY <1>1, <1>7 DEF ReadInv, AllGood
  <2>2. Messages(received) = delivered
    BY <1>1 DEF ReadInv
  <2> QED
    BY <1>1, <1>2, <1>3, <2>1, <2>2, <1>7, <1>8, SameStream DEF EndInv
<1>10. PongInv'
  <2>1. Payloads(sent', Pong) = Payloads(received, Ping)
    BY <1>1, <1>4 DEF PongInv
  <2>2. Payloads(sent', Pong) \in Seq(Seq(Byte))
    BY <1>7, <2>1, PayloadsType
  <2>3. PingsAreAnswered'
    BY <1>1, <1>2, <1>3, <1>7, <1>8, <2>1, <2>2, AnsweredWhenEnded
  <2> QED
    BY <1>3, <2>3 DEF PongInv
<1> QED
  BY <1>4, <1>5, <1>6, <1>9, <1>10

\* The frames of the echo are neither pongs nor close frames.
LEMMA EchoSent ==
  ASSUME ListenerInv, pc = "handle", NEW fs, IsData3(fs), sent' = sent \o fs
  PROVE  /\ sent' \in Seq(Frame) /\ Payloads(sent', Pong) = Payloads(received, Ping)
         /\ \A i \in 1..Len(sent') : sent'[i].op # Close
<1> USE DEF ListenerInv
<1>1. sent \in Seq(Frame) /\ Len(sent) \in Nat /\ fs \in Seq(Frame) /\ Len(fs) \in Nat
  BY DEF TypeInv, IsData3
<1>2. \A i \in 1..Len(fs) : fs[i].op # Pong /\ fs[i].op # Close
  <2>1. \A x \in {Cont, Text, Bin} : x # Pong /\ x # Close
    BY DEF Cont, Text, Bin, Pong, Close
  <2> QED
    BY <2>1 DEF IsData3
<1>3. Payloads(sent \o fs, Pong) = Payloads(sent, Pong)
  BY <1>1, <1>2, PayloadsSame
<1>4. \A i \in 1..Len(sent) : sent[i].op # Close
  BY DEF SentInv
<1>5. \A i \in 1..Len(sent') : sent'[i].op # Close
  <2>1. Len(sent') = Len(sent) + Len(fs)
    BY <1>1
  <2>2. ASSUME NEW i \in 1..Len(sent') PROVE sent'[i].op # Close
    <3>1. CASE i <= Len(sent)
      BY <1>1, <1>4, <3>1
    <3>2. CASE i > Len(sent)
      <4>1. i - Len(sent) \in 1..Len(fs) /\ sent'[i] = fs[i - Len(sent)]
        BY <1>1, <2>1, <3>2
      <4> QED
        BY <1>2, <4>1
    <3> QED
      BY <1>1, <2>1, <3>1, <3>2
  <2> QED
    BY <2>2
<1> QED
  BY <1>1, <1>3, <1>5 DEF PongInv

LEMMA HandleStep ==
  ASSUME ListenerInv, HandleMessage
  PROVE  ListenerInv'
<1> USE DEF ListenerInv, HandleMessage
<1>1. IsData3(FramesOf(message, compressed))
  BY FramesOfType DEF TypeInv
<1>2. sent' = sent \o FramesOf(message, compressed)
  BY DEF Send
<1>3. /\ sent' \in Seq(Frame) /\ Payloads(sent', Pong) = Payloads(received, Ping)
      /\ \A i \in 1..Len(sent') : sent'[i].op # Close
  BY <1>1, <1>2, EchoSent
<1>4. TypeInv'
  <2>1. NoMessage \in Msg
    BY DEF NoMessage, Msg
  <2>2. delivered' \in Seq(Msg)
    BY DEF TypeInv
  <2> QED
    BY <1>3, <2>1, <2>2 DEF TypeInv
<1>5. ReadInv'
  <2>1. /\ closed_with = 0 /\ AllGood(received, Len(received))
        /\ Messages(received) = delivered' /\ ~MessageOpen(received, Len(received) + 1)
    BY DEF HandleInv
  <2> QED
    BY <2>1, SameStream DEF ReadInv
<1>6. HandleInv' /\ EndInv'
  BY DEF HandleInv, EndInv
<1>7. SentInv' /\ PongInv'
  BY <1>3 DEF SentInv, PongInv
<1> QED
  BY <1>4, <1>5, <1>6, <1>7

LEMMA HandleFailsStep ==
  ASSUME ListenerInv, HandleMessageFails
  PROVE  ListenerInv'
<1> USE DEF ListenerInv
<1>1. /\ pc = "handle" /\ peer' = "gone" /\ delivered' = Append(delivered, message)
      /\ closed_with' = CloseCodeProtocolError /\ pc' = "ended"
      /\ UNCHANGED <<args, has_message, message, compressed, received>>
  BY DEF HandleMessageFails
<1>2. PICK frames : frames = FramesOf(message, compressed)
  OBVIOUS
<1>3. IsData3(frames)
  BY <1>2, FramesOfType DEF TypeInv
<1>4. PICK n \in 0..(Len(frames) - 1) : sent' = sent \o SubSeq(frames, 1, n)
  BY <1>2 DEF HandleMessageFails
<1>5. PICK fs : fs = SubSeq(frames, 1, n)
  OBVIOUS
<1>6. IsData3(fs)
  <2>1. frames \in Seq(Frame) /\ Len(frames) \in Nat
    BY <1>3 DEF IsData3
  <2>2. fs \in Seq(Frame) /\ Len(fs) = n /\ \A i \in 1..n : i \in 1..Len(frames) /\ fs[i] = frames[i]
    BY <1>5, <2>1
  <2> QED
    BY <1>3, <2>2 DEF IsData3
<1>7. /\ sent' \in Seq(Frame) /\ Payloads(sent', Pong) = Payloads(received, Ping)
      /\ \A i \in 1..Len(sent') : sent'[i].op # Close
  BY <1>1, <1>4, <1>5, <1>6, EchoSent
<1>8. CloseCodeProtocolError \in Codes /\ CloseCodeProtocolError # 0
  BY DEF Codes, CloseCodeProtocolError
<1>9. TypeInv'
  BY <1>1, <1>7, <1>8 DEF TypeInv
<1>10. ReadInv' /\ HandleInv' /\ SentInv'
  BY <1>1, <1>7 DEF ReadInv, HandleInv, SentInv
<1>11. received \in Seq(Frame) /\ Len(received) \in Nat
  BY FramesAreFrames DEF TypeInv
<1>12. received # <<>> => CodeFor(received, Len(received)) = 0
  <2>1. received # <<>> => Len(received) \in 1..Len(received)
    BY <1>11
  <2> QED
    BY <1>1, <2>1 DEF HandleInv, AllGood
<1>13. EndInv'
  <2>1. AllGood(received, Len(received) - 1)
    BY <1>1, <1>11 DEF HandleInv, AllGood
  <2>2. Messages(received) = delivered'
    BY <1>1 DEF HandleInv
  <2> QED
    BY <1>1, <1>8, <1>11, <1>12, <2>1, <2>2, SameStream DEF EndInv
<1>14. PongInv'
  <2>1. Payloads(sent', Pong) \in Seq(Seq(Byte))
    BY <1>7, PayloadsType
  <2>2. PingsAreAnswered'
    BY <1>1, <1>7, <1>8, <1>11, <1>12, <2>1, AnsweredWhenEnded
  <2> QED
    BY <1>1, <2>2 DEF PongInv
<1> QED
  BY <1>9, <1>10, <1>13, <1>14

LEMMA LeaveStep ==
  ASSUME ListenerInv, PeerLeaves
  PROVE  ListenerInv'
<1> USE DEF ListenerInv
<1>1. /\ peer # "gone" /\ peer' \in {"fin", "gone"}
      /\ UNCHANGED <<args, pc, has_message, message, compressed, received, sent,
                     delivered, closed_with>>
  BY DEF PeerLeaves
<1>2. TypeInv' /\ SentInv'
  BY <1>1 DEF TypeInv, SentInv
<1>3. ReadInv' /\ HandleInv'
  BY <1>1, SameStream DEF ReadInv, HandleInv
<1>4. EndInv'
  BY <1>1, SameStream DEF EndInv
<1>5. PongInv'
  <2>1. CASE pc = "ended"
    <3> DEFINE good == IF closed_with # 0 /\ received # <<>> /\ CodeFor(received, Len(received)) # 0
                       THEN Front(received) ELSE received
    <3>1. closed_with # 0
      BY <2>1 DEF EndInv
    <3>2. received \in Seq(Frame) /\ Len(received) \in Nat /\ sent \in Seq(Frame)
      BY FramesAreFrames DEF TypeInv
    <3>3. good \in Seq(Frame)
      BY <3>2 DEF Front
    <3>4. Payloads(sent, Pong) = Payloads(good, Ping)
      BY <1>1, <2>1, Zenon DEF PongInv, PingsAreAnswered
    <3>5. Payloads(sent, Pong) \in Seq(Seq(Byte))
      BY <3>2, PayloadsType
    <3>6. IF received # <<>> /\ CodeFor(received, Len(received)) # 0
          THEN good = Front(received) ELSE good = received
      BY <3>1
    <3> HIDE DEF good
    <3>7. PingsAreAnswered'
      BY <1>1, <3>1, <3>2, <3>3, <3>4, <3>5, <3>6, AnsweredWhenEnded
    <3> QED
      BY <1>1, <2>1, <3>7 DEF PongInv
  <2>2. CASE pc # "ended"
    BY <1>1, <2>2 DEF PongInv
  <2> QED
    BY <2>1, <2>2
<1> QED
  BY <1>2, <1>3, <1>4, <1>5

LEMMA StutterStep ==
  ASSUME ListenerInv, UNCHANGED vars
  PROVE  ListenerInv'
<1> USE DEF ListenerInv, vars
<1>1. TypeInv' /\ SentInv'
  BY DEF TypeInv, SentInv
<1>2. ReadInv' /\ HandleInv' /\ EndInv'
  BY SameStream DEF ReadInv, HandleInv, EndInv
<1>3. PongInv'
  BY SameStream DEF PongInv, PingsAreAnswered
<1> QED
  BY <1>1, <1>2, <1>3

-----------------------------------------------------------------------------
(* The theorems.                                                           *)

\* ListenerInv is an invariant of ws_listener_function, whatever the peer sends.
LEMMA ListenerCorrect == Spec => []ListenerInv
<1>1. Init => ListenerInv
  BY InitHolds
<1>2. ListenerInv /\ [Next]_vars => ListenerInv'
  <2> SUFFICES ASSUME ListenerInv, [Next]_vars PROVE ListenerInv'
    OBVIOUS
  <2>1. CASE ListenerStart
    BY <2>1, StartStep
  <2>2. CASE ReadError
    BY <2>2, ReadErrorStep
  <2>3. CASE \E f \in Frames : Receive(f)
    BY <2>3, ReceiveStep
  <2>4. CASE HandleMessage
    BY <2>4, HandleStep
  <2>5. CASE HandleMessageFails
    BY <2>5, HandleFailsStep
  <2>6. CASE PeerLeaves
    BY <2>6, LeaveStep
  <2>7. CASE Ended \/ UNCHANGED vars
    BY <2>7, StutterStep DEF Ended
  <2> QED
    BY <2>1, <2>2, <2>3, <2>4, <2>5, <2>6, <2>7 DEF Next
<1> QED
  BY <1>1, <1>2, PTL DEF Spec

\* The callback gets exactly the messages of the peer's stream, in order and whole,
\* however they are cut into frames and whatever control frames come between
\* (ws_listener_function).
THEOREM MessagesCorrect == Spec => []MessagesInv
<1>1. ListenerInv => MessagesInv
  <2> SUFFICES ASSUME ListenerInv PROVE MessagesInv
    OBVIOUS
  <2> USE DEF ListenerInv
  <2>1. TypeOK
    <3>1. \A i \in DOMAIN received : received[i] \in Frames
      BY DEF TypeInv
    <3>2. ASSUME NEW i \in DOMAIN sent PROVE FrameShape(sent[i])
      <4>1. PICK g \in Frame : g = sent[i]
        BY DEF TypeInv
      <4>2. g.op \in 0..15 /\ g.fin \in BOOLEAN /\ g.rsv \in 0..7 /\ g.payload \in Seq(0..255)
        BY DEF Frame, Byte
      <4>3. \A S : \A p \in Seq(S) : \A j \in DOMAIN p : p[j] \in S
        OBVIOUS
      <4> QED
        BY <4>1, <4>2, <4>3, Zenon DEF FrameShape
    <3> QED
      BY <3>1, <3>2 DEF TypeOK, TypeInv, Codes
  <2>2. Reassembles
    BY DEF Reassembles, TypeInv, ReadInv, HandleInv, EndInv
  <2> QED
    BY <2>1, <2>2 DEF MessagesInv
<1> QED
  BY <1>1, ListenerCorrect, PTL

\* The listener closes at the first frame that has to end the connection, with the
\* code it calls for, and sends nothing after the close frame
\* (close_websocket_connection).
THEOREM ClosesCorrectly == Spec => []ClosesWhenItHasTo
<1>1. ListenerInv => ClosesWhenItHasTo
  <2> SUFFICES ASSUME ListenerInv PROVE ClosesWhenItHasTo
    OBVIOUS
  <2> USE DEF ListenerInv
  <2> DEFINE n == Len(received)
  <2>1. n \in Nat /\ DOMAIN sent = 1..Len(sent)
    BY DEF TypeInv
  <2>2. pc \in {"start", "read", "handle", "ended"}
    BY DEF TypeInv
  <2>3. pc # "ended" => closed_with = 0 /\ AllGood(received, n)
    BY <2>2 DEF ReadInv, HandleInv
  <2>4. pc = "ended" => /\ closed_with # 0 /\ AllGood(received, n - 1)
                        /\ IF n > 0 /\ CodeFor(received, n) # 0
                           THEN closed_with = CodeFor(received, n) ELSE peer # "up"
    BY DEF EndInv
  <2> HIDE DEF n
  <2>5. ASSUME NEW k \in 1..n, CodeFor(received, k) # 0
        PROVE  k = n /\ pc = "ended" /\ closed_with = CodeFor(received, k)
    <3>1. pc = "ended"
      BY <2>3, <2>5 DEF AllGood
    <3>2. k = n
      <4>1. k # n => k \in 1..(n - 1)
        BY <2>1
      <4> QED
        BY <2>4, <2>5, <3>1, <4>1 DEF AllGood
    <3> QED
      BY <2>1, <2>4, <2>5, <3>1, <3>2
  <2>6. closed_with # 0 /\ peer = "up" => n > 0 /\ closed_with = CodeFor(received, n)
    BY <2>3, <2>4
  <2>7. \A i \in DOMAIN sent : sent[i].op = Close => i = Len(sent)
    BY <2>1 DEF SentInv
  <2>8. pc = "ended" /\ peer # "gone" => sent # <<>> /\ Last(sent).op = Close
    BY DEF SentInv
  <2> QED
    BY <2>5, <2>6, <2>7, <2>8 DEF ClosesWhenItHasTo, n
<1> QED
  BY <1>1, ListenerCorrect, PTL

\* Every ping is answered in order with its own payload, also between the frames of
\* a message (ws_listener_function, the ping case).
THEOREM PingsAnswered == Spec => []PingsAreAnswered
<1>1. ListenerInv => PingsAreAnswered
  <2> SUFFICES ASSUME ListenerInv PROVE PingsAreAnswered
    OBVIOUS
  <2> USE DEF ListenerInv
  <2>1. CASE pc = "ended"
    BY <2>1 DEF PongInv
  <2>2. CASE pc # "ended"
    <3>1. closed_with = 0
      BY <2>2 DEF TypeInv, ReadInv, HandleInv
    <3>2. Payloads(sent, Pong) = Payloads(received, Ping)
      BY <2>2 DEF PongInv
    <3>3. Payloads(sent, Pong) \in Seq(Seq(Byte))
      BY PayloadsType DEF TypeInv
    <3>4. IsPrefix(Payloads(sent, Pong), Payloads(received, Ping))
      BY <3>2, <3>3, PrefixOfItself
    <3> QED
      BY <3>1, <3>2, <3>4 DEF PingsAreAnswered
  <2> QED
    BY <2>1, <2>2
<1> QED
  BY <1>1, ListenerCorrect, PTL

-----------------------------------------------------------------------------
(* What the server sends.                                                  *)

\* The data frames of a stream.
Data(h) == Selected(Len(h), {k \in DOMAIN h : IsData(h[k])}, h)

LEMMA DataType ==
  ASSUME NEW h \in Seq(Frame)
  PROVE  Data(h) \in Seq(Frame)
<1> DEFINE n == Len(h)
           P == {k \in DOMAIN h : IsData(h[k])}
           s == [k \in P |-> <<h[k]>>]
<1>1. n \in Nat /\ DOMAIN h = 1..n /\ \A k \in 1..n : h[k] \in Frame
  OBVIOUS
<1>2. PartsIn(n, P, s, Frame)
  <2>1. \A x \in Frame : <<x>> \in Seq(Frame)
    OBVIOUS
  <2>2. \A k \in P : s[k] = <<h[k]>>
    OBVIOUS
  <2> HIDE DEF s, P
  <2> QED
    BY <1>1, <2>1, <2>2 DEF PartsIn
<1>3. Data(h) = Joined(n, P, s)
  BY Zenon DEF Data, Selected
<1> HIDE DEF n, P, s
<1>4. PICK f : JoinsBy(f, n, P, s, Frame) /\ Joined(n, P, s) = f[n]
  BY <1>1, <1>2, JoinedLoop
<1> QED
  BY <1>1, <1>3, <1>4 DEF JoinsBy

LEMMA DataNext ==
  ASSUME NEW h \in Seq(Frame), NEW f \in Frame
  PROVE  Data(Append(h, f)) = IF IsData(f) THEN Append(Data(h), f) ELSE Data(h)
<1> DEFINE g == Append(h, f)
           n == Len(h)
           P == {k \in DOMAIN g : IsData(g[k])}
           Q == {k \in DOMAIN h : IsData(h[k])}
<1>1. /\ n \in Nat /\ g \in Seq(Frame) /\ Len(g) = n + 1 /\ g[n + 1] = f
      /\ DOMAIN h = 1..n /\ DOMAIN g = 1..(n + 1)
      /\ \A k \in 0..n : Agree(g, h, k)
  BY AppendAgrees
<1>2. Data(g) = Selected(n + 1, P, g) /\ Data(h) = Selected(n, Q, h)
  BY <1>1, Zenon DEF Data
<1> HIDE DEF g, n
<1>3. \A k \in 1..n : g[k] = h[k]
  BY <1>1 DEF Agree
<1>4. \A k \in 1..n : (k \in P <=> k \in Q) /\ (k \in P => g[k] = h[k])
  BY <1>1, <1>3
<1>5. n + 1 \in P <=> IsData(f)
  BY <1>1
<1> HIDE DEF P, Q
<1>6. Selected(n, P, g) = Selected(n, Q, h)
  BY <1>1, <1>4, SelectedAgree
<1>7. Selected(n + 1, P, g) = IF n + 1 \in P THEN Append(Selected(n, P, g), g[n + 1])
                              ELSE Selected(n, P, g)
  <2>1. n \in Nat
    BY <1>1
  <2> QED
    BY <2>1, SelectedNext, Zenon
<1> QED
  BY <1>1, <1>2, <1>5, <1>6, <1>7 DEF g

\* What a frame means that belongs where it is.
LEMMA PlacedFrame ==
  ASSUME NEW h \in Seq(Frame), NEW f \in Frame, f.rsv \in allowed_rsv_bytes, IsData(f),
         f.op = Cont => f.rsv = 0 /\ MessageOpen(h, Len(h) + 1),
         f.op # Cont => ~MessageOpen(h, Len(h) + 1),
         NEW bad,
         bad <=> LET g == Append(h, f)  k == Len(h) + 1
                 IN  \/ FirstFrame(g, k).rsv = Rsv1 /\ ~Inflatable(WholePayload(g, k))
                     \/ MessageAt(g, k).is_text /\ ~Utf8Valid(MessageAt(g, k).buffer)
  PROVE  LET g == Append(h, f)  k == Len(h) + 1
         IN  /\ Completes(g, k) <=> f.fin
             /\ ~(f.fin /\ bad) => CodeFor(g, k) = 0
<1> DEFINE g == Append(h, f)
           k == Len(h) + 1
<1>1. /\ Len(h) \in Nat /\ g \in Seq(Frame) /\ Len(g) = k /\ g[k] = f
      /\ Agree(g, h, Len(h))
  <2>1. Len(h) \in 0..Len(h)
    OBVIOUS
  <2> QED
    BY <2>1, AppendAgrees
<1>2. MessageOpen(g, k) <=> MessageOpen(h, k)
  <2>1. k \in 1..(Len(h) + 1)
    BY <1>1
  <2> QED
    BY <1>1, <2>1, OpenAgree
<1>3. Completes(g, k) <=> f.fin
  BY <1>1 DEF Completes
<1>4. f.op \in {Cont, Text, Bin} /\ ~(f.op >= Close) /\ f.op # Close
  BY DEF IsData, Cont, Text, Bin, Close
<1>5. ~(f.rsv # 0 /\ (Deflate => f.rsv # Rsv1))
  BY DEF allowed_rsv_bytes
<1>6. ~ProtocolViolation(g, k)
  <2>1. f.op \in {Text, Bin} => f.op # Cont
    BY DEF Cont, Text, Bin
  <2> HIDE DEF g, k
  <2> QED
    BY <1>1, <1>2, <1>4, <1>5, <2>1 DEF ProtocolViolation, k
<1>7. BadPayload(g, k) <=> f.fin /\ bad
  <2> HIDE DEF g, k
  <2> QED
    BY <1>1, <1>3, <1>4, Zenon DEF BadPayload, g, k
<1>8. ~(f.fin /\ bad) => CodeFor(g, k) = 0
  <2> HIDE DEF g, k
  <2> QED
    BY <1>1, <1>4, <1>6, <1>7 DEF CodeFor
<1> QED
  BY <1>3, <1>8

\* A stream of data frames without a fault, whose messages are d.
Readable(o, d) ==
    /\ o \in Seq(Frame) /\ AllGood(o, Len(o)) /\ Messages(o) = d
    /\ ~MessageOpen(o, Len(o) + 1)

\* One behind which the first n bytes of m have followed.
PartSent(o, d, m, n) ==
    /\ o \in Seq(Frame) /\ AllGood(o, Len(o)) /\ Messages(o) = d
    /\ MessageOpen(o, Len(o) + 1)
    /\ FirstFrame(o, Len(o)).op = Text <=> m.is_text
    /\ FirstFrame(o, Len(o)).rsv = 0
    /\ WholePayload(o, Len(o)) = SubSeq(m.buffer, 1, n)

LEMMA GoodNext ==
  ASSUME NEW o \in Seq(Frame), AllGood(o, Len(o)), NEW f \in Frame,
         CodeFor(Append(o, f), Len(o) + 1) = 0
  PROVE  /\ Append(o, f) \in Seq(Frame) /\ Len(Append(o, f)) = Len(o) + 1 /\ Len(o) \in Nat
         /\ AllGood(Append(o, f), Len(Append(o, f)))
<1> DEFINE g == Append(o, f)
           n == Len(o)
<1>1. n \in Nat /\ g \in Seq(Frame) /\ Len(g) = n + 1 /\ \A k \in 0..n : Agree(g, o, k)
  BY AppendAgrees
<1> HIDE DEF g, n
<1>2. ASSUME NEW k \in 1..n PROVE CodeFor(g, k) = 0
  <2>1. k \in Nat \ {0} /\ Agree(g, o, k)
    BY <1>1
  <2>2. CodeFor(g, k) = CodeFor(o, k)
    BY <2>1, CodeAgree
  <2> QED
    BY <2>2 DEF AllGood, n
<1>3. \A k \in 1..(n + 1) : k = n + 1 \/ k \in 1..n
  BY <1>1
<1>4. AllGood(g, n + 1)
  BY <1>2, <1>3 DEF AllGood, g, n
<1> QED
  BY <1>1, <1>4 DEF g, n

LEMMA ZeroAllowed == 0 \in allowed_rsv_bytes /\ 0 # Rsv1
BY DEF allowed_rsv_bytes, Rsv1

\* A message in one frame.
LEMMA WholeFrame ==
  ASSUME NEW o, NEW d, Readable(o, d), NEW f \in Frame, f.op \in {Text, Bin}, f.fin,
         f.rsv \in allowed_rsv_bytes, NEW m \in Msg, f.op = Text <=> m.is_text,
         m.buffer = IF f.rsv = Rsv1 THEN Inflated(f.payload) ELSE f.payload,
         f.rsv = Rsv1 => Inflatable(f.payload), m.is_text => Utf8Valid(m.buffer)
  PROVE  Readable(Append(o, f), Append(d, m))
<1> DEFINE g == Append(o, f)
           k == Len(o) + 1
<1> USE DEF Readable
<1>1. FirstFrame(g, k) = f /\ WholePayload(g, k) = f.payload
  BY FirstNext
<1>2. MessageAt(g, k) = m
  <2>1. MessageAt(g, k) = [is_text |-> f.op = Text,
                           buffer |-> IF f.rsv = Rsv1 THEN Inflated(f.payload) ELSE f.payload]
    BY <1>1, Zenon DEF MessageAt
  <2>2. (f.op = Text) = m.is_text
    BY DEF Msg
  <2>3. m = [is_text |-> m.is_text, buffer |-> m.buffer]
    BY DEF Msg
  <2> QED
    BY <2>1, <2>2, <2>3, Zenon
<1>3. IsData(f) /\ f.op # Cont
  BY DEF IsData, Cont, Text, Bin
<1>4. /\ Completes(g, k) <=> f.fin
      /\ CodeFor(g, k) = 0
  <2> DEFINE bad == \/ FirstFrame(g, k).rsv = Rsv1 /\ ~Inflatable(WholePayload(g, k))
                    \/ MessageAt(g, k).is_text /\ ~Utf8Valid(MessageAt(g, k).buffer)
  <2>1. ~bad
    BY <1>1, <1>2
  <2>2. Completes(g, k) <=> f.fin
    BY <1>3, PlacedFrame
  <2>3. ~(f.fin /\ bad) => CodeFor(g, k) = 0
    BY <1>3, PlacedFrame
  <2> QED
    BY <2>1, <2>2, <2>3
<1>5. g \in Seq(Frame) /\ Len(g) = k /\ AllGood(g, Len(g)) /\ Len(o) \in Nat
  BY <1>4, GoodNext
<1>6. Messages(g) = Append(d, m)
  BY <1>2, <1>4, MessagesNext
<1>7. ~MessageOpen(g, Len(o) + 2)
  BY <1>3, OpenNext
<1>8. Len(g) + 1 = Len(o) + 2
  BY <1>5
<1> QED
  BY <1>5, <1>6, <1>7, <1>8

LEMMA FirstFragmentSent ==
  ASSUME NEW o, NEW d, Readable(o, d), NEW f \in Frame, f.op \in {Text, Bin}, ~f.fin,
         f.rsv = 0, NEW m \in Msg, f.op = Text <=> m.is_text,
         NEW n \in Nat, f.payload = SubSeq(m.buffer, 1, n)
  PROVE  PartSent(Append(o, f), d, m, n)
<1> DEFINE g == Append(o, f)
           k == Len(o) + 1
<1> USE DEF Readable
<1>1. FirstFrame(g, k) = f /\ WholePayload(g, k) = f.payload
  BY FirstNext
<1>2. IsData(f) /\ f.op # Cont
  BY DEF IsData, Cont, Text, Bin
<1>3. ~Completes(g, k) /\ CodeFor(g, k) = 0
  <2> DEFINE bad == \/ FirstFrame(g, k).rsv = Rsv1 /\ ~Inflatable(WholePayload(g, k))
                    \/ MessageAt(g, k).is_text /\ ~Utf8Valid(MessageAt(g, k).buffer)
  <2>1. Completes(g, k) <=> f.fin
    BY <1>2, ZeroAllowed, PlacedFrame
  <2>2. ~(f.fin /\ bad) => CodeFor(g, k) = 0
    BY <1>2, ZeroAllowed, PlacedFrame
  <2> QED
    BY <2>1, <2>2
<1>4. g \in Seq(Frame) /\ Len(g) = k /\ AllGood(g, Len(g)) /\ Len(o) \in Nat
  BY <1>3, GoodNext
<1>5. Messages(g) = d
  BY <1>3, MessagesNext
<1>6. MessageOpen(g, Len(o) + 2)
  BY OpenNext
<1>7. Len(g) + 1 = Len(o) + 2
  BY <1>4
<1> QED
  BY <1>1, <1>4, <1>5, <1>6, <1>7 DEF PartSent

LEMMA SubSeqJoin ==
  ASSUME NEW S, NEW s \in Seq(S), NEW n \in Nat, NEW p \in Nat, n <= p, p <= Len(s)
  PROVE  SubSeq(s, 1, n) \o SubSeq(s, n + 1, p) = SubSeq(s, 1, p)
<1> DEFINE a == SubSeq(s, 1, n)
           b == SubSeq(s, n + 1, p)
           c == SubSeq(s, 1, p)
<1>1. a \in Seq(S) /\ Len(a) = n /\ \A i \in 1..n : a[i] = s[i]
  OBVIOUS
<1>2. b \in Seq(S) /\ Len(b) = p - n /\ \A i \in 1..(p - n) : b[i] = s[n + i]
  <2>1. n + 1 \in Int /\ p \in Int /\ \A i \in (n + 1)..p : s[i] \in S
    OBVIOUS
  <2>2. /\ b \in Seq(S) /\ Len(b) = IF n + 1 <= p THEN p - (n + 1) + 1 ELSE 0
        /\ \A i \in 1..(p - (n + 1) + 1) : b[i] = s[(n + 1) + i - 1]
    BY <2>1, SubSeqProperties
  <2>3. Len(b) = p - n
    BY <2>2
  <2>4. \A i \in 1..(p - n) : i \in 1..(p - (n + 1) + 1) /\ (n + 1) + i - 1 = n + i
    OBVIOUS
  <2> HIDE DEF b
  <2> QED
    BY <2>2, <2>3, <2>4
<1>3. c \in Seq(S) /\ Len(c) = p /\ \A i \in 1..p : c[i] = s[i]
  OBVIOUS
<1> HIDE DEF a, b, c
<1>4. a \o b \in Seq(S) /\ Len(a \o b) = p
  <2>1. \A x, y \in Seq(S) : x \o y \in Seq(S) /\ Len(x \o y) = Len(x) + Len(y)
    OBVIOUS
  <2>2. n + (p - n) = p
    OBVIOUS
  <2> QED
    BY <1>1, <1>2, <2>1, <2>2
<1>5. ASSUME NEW i \in 1..p PROVE (a \o b)[i] = c[i]
  <2>1. CASE i <= n
    BY <1>1, <1>2, <1>3, <2>1
  <2>2. CASE i > n
    <3>1. i - n \in 1..(p - n) /\ n + (i - n) = i
      BY <2>2
    <3>2. (a \o b)[i] = b[i - n]
      <4>1. \A j \in 1..(Len(a) + Len(b)) :
               (a \o b)[j] = IF j <= Len(a) THEN a[j] ELSE b[j - Len(a)]
        BY <1>1, <1>2, ConcatProperties
      <4>2. Len(a) = n /\ Len(a) + Len(b) = p
        BY <1>1, <1>2
      <4> QED
        BY <2>2, <4>1, <4>2
    <3> QED
      BY <1>2, <1>3, <3>1, <3>2
  <2>3. i <= n \/ i > n
    OBVIOUS
  <2> QED
    BY <2>1, <2>2, <2>3, Zenon
<1>6. a \o b = c
  BY <1>3, <1>4, <1>5
<1> QED
  BY <1>6 DEF a, b, c

LEMMA FurtherFragmentSent ==
  ASSUME NEW o, NEW d, NEW m \in Msg, NEW n \in Nat, NEW p \in Nat, n <= p, p <= Len(m.buffer),
         PartSent(o, d, m, n), NEW f \in Frame, f.op = Cont, f.rsv = 0,
         f.payload = SubSeq(m.buffer, n + 1, p)
  PROVE  /\ ~f.fin => PartSent(Append(o, f), d, m, p)
         /\ f.fin /\ p = Len(m.buffer) /\ (m.is_text => Utf8Valid(m.buffer))
               => Readable(Append(o, f), Append(d, m))
<1> DEFINE g == Append(o, f)
           k == Len(o) + 1
<1> USE DEF PartSent
<1>0. f.op \notin {Text, Bin} /\ IsData(f) /\ Len(o) \in Nat /\ m.buffer \in Seq(Byte)
  BY DEF IsData, Cont, Text, Bin, Msg
<1>1. /\ FirstFrame(g, k) = FirstFrame(o, Len(o))
      /\ WholePayload(g, k) = WholePayload(o, Len(o)) \o f.payload
  <2>1. Starts(o, Len(o)) # {}
    BY <1>0, OpenHasStart
  <2> QED
    BY <1>0, <2>1, FurtherNext
<1>2. WholePayload(g, k) = SubSeq(m.buffer, 1, p)
  <2>1. PICK s \in Seq(Byte) : s = m.buffer
    BY <1>0, Zenon
  <2>2. SubSeq(s, 1, n) \o SubSeq(s, n + 1, p) = SubSeq(s, 1, p)
    BY <2>1, SubSeqJoin
  <2>3. WholePayload(o, Len(o)) = SubSeq(s, 1, n) /\ f.payload = SubSeq(s, n + 1, p)
    BY <2>1, Zenon
  <2> HIDE DEF g, k
  <2> QED
    BY <1>1, <2>1, <2>2, <2>3, Zenon
<1> DEFINE bad == \/ FirstFrame(g, k).rsv = Rsv1 /\ ~Inflatable(WholePayload(g, k))
                  \/ MessageAt(g, k).is_text /\ ~Utf8Valid(MessageAt(g, k).buffer)
<1>3. Completes(g, k) <=> f.fin
  BY <1>0, ZeroAllowed, PlacedFrame
<1>4. ~(f.fin /\ bad) => CodeFor(g, k) = 0
  BY <1>0, ZeroAllowed, PlacedFrame
<1>5. MessageOpen(g, Len(o) + 2) <=> ~f.fin
  <2>1. MessageOpen(g, Len(o) + 2) <=>
           \/ f.op \in {Text, Bin} /\ ~f.fin
           \/ MessageOpen(o, Len(o) + 1) /\ (f.op = Cont => ~f.fin)
    BY OpenNext
  <2>2. MessageOpen(o, Len(o) + 1)
    OBVIOUS
  <2> QED
    BY <1>0, <2>1, <2>2, Zenon
<1>6. MessageAt(g, k) = [is_text |-> m.is_text, buffer |-> SubSeq(m.buffer, 1, p)]
  <2>1. (FirstFrame(g, k).op = Text) = m.is_text /\ FirstFrame(g, k).rsv # Rsv1
    BY <1>1, ZeroAllowed DEF Msg
  <2> QED
    BY <1>2, <2>1, Zenon DEF MessageAt
<1>7. Messages(g) = IF CodeFor(g, k) = 0 /\ Completes(g, k)
                    THEN Append(d, MessageAt(g, k)) ELSE d
  BY MessagesNext
<1>8. CodeFor(g, k) = 0 => /\ g \in Seq(Frame) /\ Len(g) = k /\ AllGood(g, Len(g))
                           /\ Len(g) + 1 = Len(o) + 2
  <2> SUFFICES ASSUME CodeFor(g, k) = 0
               PROVE  g \in Seq(Frame) /\ Len(g) = k /\ AllGood(g, Len(g)) /\ Len(g) + 1 = Len(o) + 2
    OBVIOUS
  <2>1. g \in Seq(Frame) /\ Len(g) = k /\ AllGood(g, Len(g))
    BY GoodNext
  <2> QED
    BY <1>0, <2>1
<1> HIDE DEF bad
<1>9. ASSUME ~f.fin PROVE PartSent(g, d, m, p)
  <2>1. CodeFor(g, k) = 0 /\ Messages(g) = d /\ MessageOpen(g, Len(o) + 2)
    BY <1>3, <1>4, <1>5, <1>7, <1>9
  <2> HIDE DEF g, k
  <2> QED
    BY <1>1, <1>2, <1>8, <2>1 DEF k
<1>10. ASSUME f.fin, p = Len(m.buffer), m.is_text => Utf8Valid(m.buffer)
       PROVE  Readable(g, Append(d, m))
  <2>1. SubSeq(m.buffer, 1, p) = m.buffer
    BY <1>0, <1>10
  <2>2. MessageAt(g, k) = m
    <3>1. m = [is_text |-> m.is_text, buffer |-> m.buffer]
      BY DEF Msg
    <3> QED
      BY <1>6, <2>1, <3>1, Zenon
  <2>3. ~bad
    BY <1>1, <1>10, <2>2, ZeroAllowed DEF bad
  <2>4. CodeFor(g, k) = 0 /\ Messages(g) = Append(d, m) /\ ~MessageOpen(g, Len(o) + 2)
    BY <1>3, <1>4, <1>5, <1>7, <1>10, <2>2, <2>3
  <2> HIDE DEF g, k
  <2> QED
    BY <1>8, <2>4 DEF Readable
<1> QED
  BY <1>9, <1>10

\* The stream that the peer gets when the frames fs follow the frames h.
LEMMA EchoStep ==
  ASSUME NEW h \in Seq(Frame), NEW fs, IsData3(fs), NEW i \in 0..(Len(fs) - 1)
  PROVE  /\ h \o SubSeq(fs, 1, i) \in Seq(Frame) /\ fs[i + 1] \in Frame
         /\ Data(h \o SubSeq(fs, 1, i + 1)) = Append(Data(h \o SubSeq(fs, 1, i)), fs[i + 1])
<1>1. fs \in Seq(Frame) /\ Len(fs) \in Nat /\ i \in Nat /\ i + 1 \in 1..Len(fs)
  BY DEF IsData3
<1>2. PICK a \in Seq(Frame) : a = SubSeq(fs, 1, i)
  <2>1. SubSeq(fs, 1, i) \in Seq(Frame)
    BY <1>1
  <2> QED
    BY <2>1, Zenon
<1>3. PICK x \in Frame : x = fs[i + 1]
  BY <1>1
<1>4. SubSeq(fs, 1, i + 1) = Append(a, x)
  <2>1. SubSeq(fs, 1, i + 1) \in Seq(Frame) /\ Len(SubSeq(fs, 1, i + 1)) = i + 1
        /\ \A j \in 1..(i + 1) : SubSeq(fs, 1, i + 1)[j] = fs[j]
    BY <1>1
  <2>2. Len(a) = i /\ \A j \in 1..i : a[j] = fs[j]
    BY <1>1, <1>2
  <2>3. Append(a, x) \in Seq(Frame) /\ Len(Append(a, x)) = i + 1
        /\ \A j \in 1..(i + 1) : Append(a, x)[j] = fs[j]
    BY <1>1, <1>3, <2>2
  <2>4. PICK b \in Seq(Frame) : b = SubSeq(fs, 1, i + 1)
    BY <2>1
  <2>5. PICK c \in Seq(Frame) : c = Append(a, x)
    BY <2>3
  <2>6. Len(b) = i + 1 /\ Len(c) = i + 1 /\ \A j \in 1..(i + 1) : b[j] = c[j]
    BY <2>1, <2>3, <2>4, <2>5
  <2>7. b = c
    BY <2>6
  <2> QED
    BY <2>4, <2>5, <2>7
<1>5. h \o Append(a, x) = Append(h \o a, x) /\ h \o a \in Seq(Frame)
  OBVIOUS
<1>6. IsData(x)
  BY <1>1, <1>3 DEF IsData3, IsData
<1>7. Data(Append(h \o a, x)) = Append(Data(h \o a), x)
  <2>1. PICK g \in Seq(Frame) : g = h \o a
    BY <1>5
  <2>2. Data(Append(g, x)) = Append(Data(g), x)
    BY <1>6, DataNext
  <2> QED
    BY <2>1, <2>2
<1> QED
  BY <1>2, <1>3, <1>4, <1>5, <1>7

LEMMA NothingSent ==
  ASSUME NEW h \in Seq(Frame), NEW fs \in Seq(Frame)
  PROVE  h \o SubSeq(fs, 1, 0) = h /\ SubSeq(fs, 1, Len(fs)) = fs
OBVIOUS

\* A message that is sent in one frame.
LEMMA NormalEcho ==
  ASSUME NEW h \in Seq(Frame), NEW d, Readable(Data(h), d), NEW m \in Msg, NEW zipped \in BOOLEAN,
         NEW out, out = (IF Deflate /\ zipped THEN [m EXCEPT !.buffer = Deflated(@)] ELSE m),
         m.is_text => Utf8Valid(m.buffer)
  PROVE  Readable(Data(h \o Normal(out, zipped)), Append(d, m))
<1>1. m.buffer \in Seq(Byte) /\ m.is_text \in BOOLEAN
  BY DEF Msg
<1>2. out \in Msg /\ out.is_text = m.is_text
  <2>1. Deflated(m.buffer) \in Seq(Byte)
    BY <1>1 DEF Deflated, Mark, Byte
  <2> QED
    BY <2>1 DEF Msg
<1>3. IsData3(Normal(out, zipped))
  BY <1>2, NormalType
<1> DEFINE o == IF out.is_text THEN Text ELSE Bin
           f == [op |-> o, fin |-> TRUE, rsv |-> StartRsv(zipped), payload |-> out.buffer]
<1>4. Normal(out, zipped) = <<f>>
  BY DEF Normal
<1>5. /\ f.op = o /\ f.fin = TRUE /\ f.rsv = StartRsv(zipped) /\ f.payload = out.buffer
  OBVIOUS
<1>6. f \in Frame
  <2>1. o \in 0..15
    BY DEF Text, Bin
  <2>2. StartRsv(zipped) \in 0..7 /\ out.buffer \in Seq(Byte)
    BY <1>2, StartRsvType DEF Msg
  <2> HIDE DEF o
  <2> QED
    BY <2>1, <2>2 DEF Frame
<1>7. o \in {Text, Bin} /\ (o = Text <=> m.is_text)
  BY <1>1, <1>2 DEF Text, Bin
<1>8. /\ StartRsv(zipped) \in allowed_rsv_bytes
      /\ StartRsv(zipped) = Rsv1 => Inflatable(out.buffer)
      /\ m.buffer = IF StartRsv(zipped) = Rsv1 THEN Inflated(out.buffer) ELSE out.buffer
  <2>1. CASE Deflate /\ zipped
    <3>1. StartRsv(zipped) = Rsv1 /\ Rsv1 \in allowed_rsv_bytes
      BY <2>1 DEF StartRsv, allowed_rsv_bytes
    <3>2. out.buffer = <<Mark>> \o m.buffer
      BY <2>1 DEF Deflated, Msg
    <3>3. \A b \in Seq(Byte) : <<Mark>> \o b # <<>> /\ (<<Mark>> \o b)[1] = Mark
                               /\ Tail(<<Mark>> \o b) = b
      <4> SUFFICES ASSUME NEW b \in Seq(Byte)
                   PROVE  <<Mark>> \o b # <<>> /\ (<<Mark>> \o b)[1] = Mark
                          /\ Tail(<<Mark>> \o b) = b
        OBVIOUS
      <4>1. Mark \in Byte
        BY DEF Mark, Byte
      <4>2. PICK c \in Seq(Byte) : c = <<Mark>> \o b
        <5>1. <<Mark>> \o b \in Seq(Byte)
          BY <4>1
        <5> QED
          BY <5>1, Zenon
      <4>3. Len(c) = Len(b) + 1 /\ c[1] = Mark /\ \A j \in 1..Len(b) : c[j + 1] = b[j]
        BY <4>1, <4>2
      <4>4. c # <<>>
        BY <4>3
      <4>5. Tail(c) \in Seq(Byte) /\ Len(Tail(c)) = Len(b) /\ \A j \in 1..Len(b) : Tail(c)[j] = b[j]
        BY <4>3, <4>4
      <4>6. PICK t \in Seq(Byte) : t = Tail(c)
        BY <4>5
      <4>7. t = b
        BY <4>5, <4>6
      <4> QED
        BY <4>2, <4>3, <4>4, <4>6, <4>7
    <3> QED
      BY <1>1, <3>1, <3>2, <3>3 DEF Inflatable, Inflated
  <2>2. CASE ~(Deflate /\ zipped)
    BY <2>2, ZeroAllowed DEF StartRsv
  <2> QED
    BY <2>1, <2>2
<1> HIDE DEF f, o
<1>9. Readable(Append(Data(h), f), Append(d, m))
  BY <1>5, <1>6, <1>7, <1>8, WholeFrame
<1>10. Data(h \o <<f>>) = Append(Data(h), f)
  <2>1. IsData(f)
    BY <1>5, <1>7 DEF IsData
  <2>2. h \o <<f>> = Append(h, f)
    BY <1>6
  <2> QED
    BY <1>6, <2>1, <2>2, DataNext
<1> QED
  BY <1>4, <1>9, <1>10

\* A message that is cut into fragments and not compressed.
LEMMA CutUpEcho ==
  ASSUME NEW h \in Seq(Frame), NEW d, Readable(Data(h), d),
         NEW m \in Msg, NEW zipped \in BOOLEAN, ~(Deflate /\ zipped),
         m.is_text => Utf8Valid(m.buffer), NEW size \in Nat \ {0}, size <= Len(m.buffer)
  PROVE  Readable(Data(h \o CutUp(m, zipped, size)), Append(d, m))
<1> DEFINE len == Len(m.buffer)
           count == (len + size - 1) \div size
           o(i) == Data(h \o SubSeq(CutUp(m, zipped, size), 1, i))
<1>1. PICK fs : fs = CutUp(m, zipped, size)
  OBVIOUS
<1>2. IsData3(fs) /\ Len(fs) = count /\ fs \in Seq(Frame)
      /\ \A i \in 1..count : fs[i] = FragmentAt(m, zipped, size, (i - 1) * size)
  BY <1>1, CutUpFacts DEF IsData3
<1>3. len \in Nat
  BY DEF Msg
<1>4. /\ count \in Nat \ {0} /\ len <= count * size
      /\ \A i \in Nat : i < count => i * size \in Nat /\ i * size < len
  BY <1>3, CountFacts
<1> HIDE DEF count
\* Frame i + 1, which begins behind i * size bytes.
<1>5. ASSUME NEW i \in 0..(count - 1)
      PROVE  LET f == fs[i + 1]
                 start == i * size
             IN  /\ f \in Frame /\ start \in Nat /\ f.rsv = 0
                 /\ i # 0 => f.op = Cont
                 /\ i = 0 => f.op \in {Text, Bin} /\ (f.op = Text <=> m.is_text)
                 /\ f.fin <=> i = count - 1
                 /\ f.payload = SubSeq(m.buffer, start + 1,
                                       IF i = count - 1 THEN len ELSE (i + 1) * size)
                 /\ start <= len /\ (i < count - 1 => (i + 1) * size \in Nat /\ (i + 1) * size <= len)
                 /\ (i + 1) * size = start + size
  <2>1. i \in Nat /\ i + 1 \in 1..count /\ i < count /\ (i + 1) - 1 = i
    BY <1>4
  <2>2. PICK start \in Nat : start = i * size /\ start < len
    BY <1>4, <2>1
  <2>3. fs[i + 1] = FragmentAt(m, zipped, size, start)
    BY <1>2, <2>1, <2>2
  <2>4. (i + 1) * size = start + size
    BY <2>1, <2>2, MulFacts
  <2>5. i < count - 1 => start + size < len
    <3>1. i < count - 1 => i + 1 \in Nat /\ i + 1 < count
      BY <1>4, <2>1
    <3> QED
      BY <1>4, <2>4, <3>1
  <2>6. i = count - 1 => start + size >= len
    <3>1. i = count - 1 => i + 1 = count
      BY <1>4
    <3> QED
      BY <1>3, <1>4, <2>2, <2>4, <3>1
  <2>7. start + size >= len <=> i = count - 1
    BY <1>3, <1>4, <2>1, <2>2, <2>5, <2>6
  <2>8. FragmentRsv(start, zipped) = 0
    BY DEF FragmentRsv, StartRsv, ContRsv
  <2>9. start = 0 <=> i = 0
    <3>1. i = 0 => start = 0
      BY <2>2
    <3>2. i # 0 => start # 0
      <4>1. i # 0 => 1 <= i
        BY <2>1
      <4>2. 1 <= i => 1 * size <= i * size
        BY <2>1, MulFacts
      <4> QED
        BY <2>2, <4>1, <4>2
    <3> QED
      BY <3>1, <3>2
  <2>10. PICK f : f = FragmentAt(m, zipped, size, start)
    OBVIOUS
  <2>11. /\ f \in Frame
         /\ start # 0 => f.op = Cont
         /\ start = 0 => f.op \in {Text, Bin} /\ (f.op = Text <=> m.is_text)
         /\ f.fin <=> start + size >= len
         /\ f.rsv = FragmentRsv(start, zipped)
         /\ f.payload = SubSeq(m.buffer, start + 1,
                               IF start + size >= len THEN len ELSE start + size)
    <3>1. LET g == FragmentAt(m, zipped, size, start)
              last == start + size >= Len(m.buffer)
          IN  /\ g \in Frame /\ g.op \in {Cont, Text, Bin}
              /\ start # 0 => g.op = Cont
              /\ start = 0 => g.op \in {Text, Bin} /\ (g.op = Text <=> m.is_text)
              /\ g.fin <=> last
              /\ g.rsv = FragmentRsv(start, zipped)
              /\ g.payload = SubSeq(m.buffer, start + 1,
                                    IF last THEN Len(m.buffer) ELSE start + size)
      <4>1. size \in Nat
        OBVIOUS
      <4> QED
        BY <4>1, FragmentFacts, Zenon
    <3> QED
      BY <2>10, <3>1, Zenon
  <2>12. f.payload = SubSeq(m.buffer, start + 1, IF i = count - 1 THEN len ELSE (i + 1) * size)
    BY <2>4, <2>7, <2>11
  <2>13. f.fin <=> i = count - 1
    BY <2>7, <2>11
  <2>14. start <= len /\ (i < count - 1 => start + size \in Nat /\ start + size <= len)
    BY <1>3, <2>2, <2>5
  <2> HIDE DEF len
  <2> QED
    BY <2>2, <2>3, <2>4, <2>8, <2>9, <2>10, <2>11, <2>12, <2>13, <2>14
<1>6. o(0) = Data(h)
  BY <1>1, <1>2, NothingSent
<1>7. ASSUME NEW i \in 0..(count - 1)
      PROVE  o(i) \in Seq(Frame) /\ o(i + 1) = Append(o(i), fs[i + 1])
  <2>1. /\ h \o SubSeq(fs, 1, i) \in Seq(Frame)
        /\ Data(h \o SubSeq(fs, 1, i + 1)) = Append(Data(h \o SubSeq(fs, 1, i)), fs[i + 1])
    BY <1>2, EchoStep
  <2>2. Data(h \o SubSeq(fs, 1, i)) \in Seq(Frame)
    BY <2>1, DataType
  <2> QED
    BY <1>1, <2>1, <2>2
<1>8. o(count) = Data(h \o CutUp(m, zipped, size))
  BY <1>1, <1>2, NothingSent
<1> HIDE DEF o
<1> DEFINE T == {i \in 0..(count - 1) : i = 0 \/ PartSent(o(i), d, m, i * size)}
<1>9. 0 \in T
  BY <1>4
<1>10. ASSUME NEW i \in 0..((count - 1) - 1), i \in T PROVE i + 1 \in T
  <2>1. i \in 0..(count - 1) /\ i < count - 1 /\ i # count - 1 /\ i + 1 \in 0..(count - 1)
    BY <1>4
  <2>2. PICK f : f = fs[i + 1]
    OBVIOUS
  <2>3. PICK n \in Nat : n = i * size /\ n <= len
    BY <1>5, <2>1
  <2>4. PICK p \in Nat : p = (i + 1) * size /\ p <= len /\ p = n + size
    BY <1>5, <2>1, <2>3
  <2>5. /\ f \in Frame /\ f.rsv = 0 /\ ~f.fin /\ f.payload = SubSeq(m.buffer, n + 1, p)
        /\ i # 0 => f.op = Cont
        /\ i = 0 => f.op \in {Text, Bin} /\ (f.op = Text <=> m.is_text)
    BY <1>5, <2>1, <2>2, <2>3, <2>4
  <2>6. PartSent(Append(o(i), f), d, m, p)
    <3>1. CASE i = 0
      <4>1. n + 1 = 1
        BY <2>3, <3>1
      <4>2. f.payload = SubSeq(m.buffer, 1, p)
        BY <2>5, <4>1
      <4>3. PartSent(Append(Data(h), f), d, m, p)
        BY <2>5, <3>1, <4>2, FirstFragmentSent
      <4> QED
        BY <1>6, <3>1, <4>3
    <3>2. CASE i # 0
      <4>1. PartSent(o(i), d, m, n)
        BY <1>10, <2>3, <3>2
      <4>2. n <= p
        BY <2>4
      <4> QED
        BY <2>4, <2>5, <3>2, <4>1, <4>2, FurtherFragmentSent
    <3> QED
      BY <3>1, <3>2
  <2>7. o(i + 1) = Append(o(i), f)
    BY <1>7, <2>1, <2>2
  <2> QED
    BY <2>1, <2>4, <2>6, <2>7
<1> HIDE DEF T
<1>11. count - 1 \in T /\ count - 1 \in 0..(count - 1) /\ count - 1 \in Nat
  <2>1. PICK c \in Nat : c = count - 1
    BY <1>4
  <2>2. \A i \in 0..(c - 1) : i \in T => i + 1 \in T
    BY <1>10, <2>1
  <2>3. \A i \in 0..c : i \in T
    BY <1>9, <2>2, LoopInduction
  <2> QED
    BY <2>1, <2>3
<1>12. PICK i \in 0..(count - 1) : i = count - 1 /\ i \in T /\ i + 1 = count
  BY <1>4, <1>11
<1>13. PICK f : f = fs[i + 1]
  OBVIOUS
<1>14. PICK n \in Nat : n = i * size /\ n <= len
  BY <1>5
<1>15. /\ f \in Frame /\ f.rsv = 0 /\ f.fin /\ f.payload = SubSeq(m.buffer, n + 1, len)
       /\ i # 0 => f.op = Cont
       /\ i = 0 => f.op \in {Text, Bin} /\ (f.op = Text <=> m.is_text)
  BY <1>5, <1>12, <1>13, <1>14
<1>16. Readable(Append(o(i), f), Append(d, m))
  <2>1. CASE i = 0
    <3>1. n + 1 = 1
      BY <1>14, <2>1
    <3>2. f.payload = m.buffer
      BY <1>15, <3>1 DEF Msg
    <3>3. Readable(Append(Data(h), f), Append(d, m))
      BY <1>15, <2>1, <3>2, ZeroAllowed, WholeFrame
    <3> QED
      BY <1>6, <2>1, <3>3
  <2>2. CASE i # 0
    <3>1. PartSent(o(i), d, m, n)
      BY <1>12, <1>14, <2>2 DEF T
    <3>2. PICK p \in Nat : p = Len(m.buffer) /\ p = len
      BY <1>3
    <3>3. n <= p /\ p <= Len(m.buffer) /\ f.op = Cont /\ f.payload = SubSeq(m.buffer, n + 1, p)
      BY <1>14, <1>15, <2>2, <3>2
    <3>4. f \in Frame /\ f.rsv = 0 /\ f.fin
      BY <1>15
    <3> HIDE DEF len
    <3>5. PICK q : q = o(i)
      OBVIOUS
    <3>6. PartSent(q, d, m, n)
      BY <3>1, <3>5
    <3>7. f.fin /\ p = Len(m.buffer) /\ (m.is_text => Utf8Valid(m.buffer))
             => Readable(Append(q, f), Append(d, m))
      BY <3>3, <3>4, <3>6, FurtherFragmentSent, Zenon
    <3> QED
      BY <3>2, <3>4, <3>5, <3>7
  <2> QED
    BY <2>1, <2>2
<1>17. o(count) = Append(o(i), f)
  BY <1>7, <1>12, <1>13
<1> QED
  BY <1>8, <1>16, <1>17

\* The echo of a message that is not compressed, or is not cut, is that message.
LEMMA EchoOfMessage ==
  ASSUME args \in Args, NEW h \in Seq(Frame), NEW d, Readable(Data(h), d),
         NEW m \in Msg, NEW zipped \in BOOLEAN, m.is_text => Utf8Valid(m.buffer),
         ~(Deflate /\ zipped /\ IsCut(Deflated(m.buffer)))
  PROVE  Readable(Data(h \o FramesOf(m, zipped)), Append(d, m))
<1>1. /\ args.fragment_option \in {"off", "auto", "set"}
      /\ args.param \in Nat \cup {-1} /\ args.deflate \in BOOLEAN
  BY ConnectionAssumption
<1> DEFINE zip == Deflate /\ zipped
           out == IF zip THEN [m EXCEPT !.buffer = Deflated(@)] ELSE m
<1>2. AutoSize \in Int /\ args.param \in Int
  BY <1>1 DEF AutoSize, WS_MAXIMUM_HEADER_LENGTH, DEFAULT_AUTO_FRAGMENT_SIZE
<1>3. FramesOf(m, zipped) =
         CASE args.fragment_option = "off" -> Normal(out, zipped)
           [] args.fragment_option = "auto" -> Fragmented(out, zipped, AutoSize)
           [] args.fragment_option = "set" -> Fragmented(out, zipped, args.param)
  BY Zenon DEF FramesOf
<1>4. Readable(Data(h \o Normal(out, zipped)), Append(d, m))
  BY NormalEcho
<1>5. /\ out \in Msg /\ Len(out.buffer) \in Nat
      /\ zip => out.buffer = Deflated(m.buffer)
      /\ ~zip => out = m
  <2>1. Deflated(m.buffer) \in Seq(Byte)
    BY DEF Deflated, Mark, Byte, Msg
  <2> QED
    BY <2>1 DEF Msg
<1> HIDE DEF out
<1>6. CASE args.fragment_option = "off"
  BY <1>3, <1>4, <1>6
<1>7. CASE args.fragment_option # "off"
  <2>1. PICK wanted \in Int : /\ FramesOf(m, zipped) = Fragmented(out, zipped, wanted)
                              /\ Len(out.buffer) >= FragmentSize(wanted) => IsCut(out.buffer)
    <3>1. CASE args.fragment_option = "auto"
      BY <1>2, <1>3, <3>1 DEF IsCut
    <3>2. CASE args.fragment_option = "set"
      BY <1>2, <1>3, <3>2 DEF IsCut
    <3> QED
      BY <1>1, <1>7, <3>1, <3>2
  <2>2. PICK size \in Nat \ {0} :
           /\ size = FragmentSize(wanted)
           /\ Fragmented(out, zipped, wanted) =
                 IF Len(out.buffer) < size THEN Normal(out, zipped) ELSE CutUp(out, zipped, size)
    BY <1>5, FragmentedIs
  <2>3. CASE Len(out.buffer) < size
    BY <1>4, <2>1, <2>2, <2>3
  <2>4. CASE size <= Len(out.buffer)
    <3>1. ~(Len(out.buffer) < size) /\ Len(out.buffer) >= FragmentSize(wanted)
      BY <1>5, <2>2, <2>4
    <3>2. ~zip /\ out = m
      BY <1>5, <2>1, <3>1
    <3>3. Readable(Data(h \o CutUp(m, zipped, size)), Append(d, m))
      BY <2>4, <3>2, CutUpEcho
    <3> QED
      BY <2>1, <2>2, <3>1, <3>2, <3>3
  <2> QED
    BY <1>5, <2>3, <2>4
<1> QED
  BY <1>6, <1>7

\* As long as the peer is there and no compressed message had to be cut, it can read
\* the echoes, and they are the messages.
NoneCut(h) == \A k \in DOMAIN h : ~CutsCompressed(h, k)
EchoInv == peer # "gone" /\ NoneCut(received) => Readable(Data(sent), delivered)

\* One more frame does not change which of the earlier ones complete such a message.
LEMMA NoneCutBefore ==
  ASSUME NEW h \in Seq(Frame), NEW f \in Frame, NoneCut(Append(h, f))
  PROVE  NoneCut(h)
<1> DEFINE g == Append(h, f)
<1>1. /\ Len(h) \in Nat /\ DOMAIN h = 1..Len(h) /\ DOMAIN g = 1..(Len(h) + 1)
      /\ \A k \in 0..Len(h) : Agree(g, h, k)
  BY AppendAgrees
<1> HIDE DEF g
<1>2. SUFFICES ASSUME NEW k \in DOMAIN h, CutsCompressed(h, k)
               PROVE  CutsCompressed(g, k) /\ k \in DOMAIN g
  BY DEF NoneCut, g
<1>3. k \in Nat \ {0} /\ Agree(g, h, k) /\ k \in DOMAIN g
  BY <1>1
<1>4. /\ CodeFor(h, k) = 0 /\ Completes(h, k)
      /\ CodeFor(g, k) = 0 /\ Completes(g, k) /\ MessageAt(g, k) = MessageAt(h, k)
  BY <1>2, <1>3, CodeAgree, ViolationAgree DEF CutsCompressed
<1>5. ~ProtocolViolation(h, k)
  BY <1>4 DEF CodeFor, CloseCodeProtocolError
<1>6. Starts(h, k) # {}
  BY <1>3, <1>4, <1>5, DataHasStart DEF Completes
<1>7. FirstFrame(g, k) = FirstFrame(h, k)
  BY <1>3, <1>6, MessageAgree
<1> QED
  BY <1>2, <1>3, <1>4, <1>7, Zenon DEF CutsCompressed

LEMMA NoneCutKept ==
  ASSUME args' = args
  PROVE  NoneCut(received)' <=> NoneCut(received')
BY DEF NoneCut, CutsCompressed, CodeFor, ProtocolViolation, Deflate, BadPayload, IsCut,
       AutoSize

LEMMA EchoKept ==
  ASSUME args' = args
  PROVE  Readable(Data(sent), delivered)' <=> Readable(Data(sent'), delivered')
BY DEF Readable, AllGood, CodeFor, ProtocolViolation, Deflate, BadPayload, Messages, Data

LEMMA ControlIsNotData ==
  ASSUME sent \in Seq(Frame), sent' \in Seq(Frame), NEW c, c.op \in {Close, Pong},
         sent' = sent \o <<c>>
  PROVE  Data(sent') = Data(sent)
<1>1. PICK h \in Seq(Frame) : h = sent
  BY Zenon
<1>2. Len(h) \in Nat /\ sent' = Append(h, c) /\ Len(sent') = Len(h) + 1 /\ sent'[Len(h) + 1] = c
  BY <1>1
<1>3. c \in Frame
  BY <1>2
<1>4. ~IsData(c)
  BY DEF IsData, Cont, Text, Bin, Close, Pong
<1>5. Data(Append(h, c)) = Data(h)
  BY <1>3, <1>4, DataNext
<1> QED
  BY <1>1, <1>2, <1>5, Zenon

LEMMA ClosingIsNotData ==
  ASSUME sent \in Seq(Frame), sent' \in Seq(Frame), NEW code, NEW reason,
         CloseConnection(code, reason)
  PROVE  Data(sent') = Data(sent) /\ delivered' = delivered
<1> DEFINE c == [op |-> Close, fin |-> TRUE, rsv |-> 0, payload |-> CodeBytes(code) \o reason]
<1>1. sent' = (IF CanSend THEN sent \o <<c>> ELSE sent) /\ delivered' = delivered
  BY DEF CloseConnection, Send
<1>2. c.op \in {Close, Pong}
  OBVIOUS
<1> HIDE DEF c
<1> QED
  BY <1>1, <1>2, ControlIsNotData

LEMMA ReceivingEchoesNothing ==
  ASSUME sent \in Seq(Frame), sent' \in Seq(Frame), NEW f, Receive(f)
  PROVE  Data(sent') = Data(sent) /\ delivered' = delivered
<1>1. ASSUME NEW code, NEW reason, CloseConnection(code, reason)
      PROVE  Data(sent') = Data(sent) /\ delivered' = delivered
  BY <1>1, ClosingIsNotData
<1>2. ASSUME NEW is_text, NEW buffer, NEW zipped, FinishMessage(is_text, buffer, zipped)
      PROVE  Data(sent') = Data(sent) /\ delivered' = delivered
  <2>1. CASE sent' = sent /\ delivered' = delivered
    BY <2>1
  <2>2. CASE CloseConnection(CloseCodeInvalidFramePayloadData, <<>>)
    BY <1>1, <2>2
  <2> QED
    BY <1>2, <2>1, <2>2, Zenon DEF FinishMessage
<1>3. ASSUME NEW is_text, NEW buffer, NEW zipped, KeepMessage(is_text, buffer, zipped)
      PROVE  Data(sent') = Data(sent) /\ delivered' = delivered
  BY <1>3 DEF KeepMessage
<1>4. CASE RefuseFrame(f) \/ RefuseCont(f) \/ RefuseStart(f) \/ PongUnsent(f) \/ UnknownFrame(f)
  BY <1>1, <1>4, Zenon DEF RefuseFrame, RefuseCont, RefuseStart, PongUnsent, UnknownFrame
<1>5. CASE CloseFrame(f)
  BY <1>1, <1>5, Zenon DEF CloseFrame
<1>6. CASE ContFrame(f)
  BY <1>2, <1>3, <1>6, Zenon DEF ContFrame
<1>7. CASE StartFrame(f)
  BY <1>2, <1>3, <1>7, Zenon DEF StartFrame
<1>8. CASE PongFrame(f)
  BY <1>8 DEF PongFrame
<1>9. CASE PingFrame(f)
  <2> DEFINE c == [op |-> Pong, fin |-> TRUE, rsv |-> f.rsv, payload |-> f.payload]
  <2>1. sent' = sent \o <<c>> /\ delivered' = delivered
    BY <1>9 DEF PingFrame, Send
  <2>2. c.op \in {Close, Pong}
    OBVIOUS
  <2> HIDE DEF c
  <2> QED
    BY <2>1, <2>2, ControlIsNotData
<1> QED
  BY <1>4, <1>5, <1>6, <1>7, <1>8, <1>9, Zenon DEF Receive

LEMMA EchoInitially ==
  ASSUME Init
  PROVE  EchoInv
<1>1. Data(sent) = <<>> /\ delivered = <<>>
  BY SelectedZero DEF Data, Init
<1>2. Readable(<<>>, <<>>)
  <2>1. <<>> \in Seq(Frame) /\ Len(<<>>) = 0 /\ DOMAIN <<>> = {}
    OBVIOUS
  <2>2. AllGood(<<>>, Len(<<>>))
    BY <2>1 DEF AllGood
  <2>3. Messages(<<>>) = <<>>
    BY <2>1, SelectedZero DEF Messages
  <2>4. ~MessageOpen(<<>>, Len(<<>>) + 1)
    BY <2>1 DEF MessageOpen
  <2> QED
    BY <2>1, <2>2, <2>3, <2>4 DEF Readable
<1> QED
  BY <1>1, <1>2 DEF EchoInv

LEMMA EchoNext ==
  ASSUME ListenerInv, ListenerInv', EchoInv, [Next]_vars
  PROVE  EchoInv'
<1>1. sent \in Seq(Frame) /\ sent' \in Seq(Frame) /\ args \in Args
  BY DEF ListenerInv, TypeInv
<1>2. ASSUME args' = args, peer' # "gone" => peer # "gone",
             NoneCut(received') => NoneCut(received),
             Data(sent') = Data(sent), delivered' = delivered
      PROVE  EchoInv'
  BY <1>2, EchoKept, NoneCutKept, Zenon DEF EchoInv
<1>3. CASE ListenerStart
  BY <1>2, <1>3 DEF ListenerStart
<1>4. CASE ReadError
  <2>1. /\ args' = args /\ peer' = peer /\ received' = received
        /\ CloseConnection(CloseCodeProtocolError, <<>>)
    BY <1>4 DEF ReadError
  <2>2. Data(sent') = Data(sent) /\ delivered' = delivered
    BY <1>1, <2>1, ClosingIsNotData
  <2> QED
    BY <1>2, <2>1, <2>2
<1>5. CASE \E f \in Frames : Receive(f)
  <2>1. PICK f \in Frames : Receive(f)
    BY <1>5
  <2>2. args' = args /\ peer' = peer /\ received' = Append(received, f)
    BY <2>1 DEF Receive
  <2>3. Data(sent') = Data(sent) /\ delivered' = delivered
    BY <1>1, <2>1, ReceivingEchoesNothing
  <2>4. PICK h \in Seq(Frame), g \in Frame : h = received /\ g = f
    <3>1. received \in Seq(Frame) /\ f \in Frame
      BY FramesAreFrames DEF ListenerInv, TypeInv
    <3> QED
      BY <3>1, Zenon
  <2>5. NoneCut(Append(h, g)) => NoneCut(h)
    BY NoneCutBefore
  <2>6. NoneCut(received') => NoneCut(received)
    BY <2>2, <2>4, <2>5, Zenon
  <2> QED
    BY <1>2, <2>2, <2>3, <2>6
<1>6. CASE HandleMessage
  <2> SUFFICES ASSUME NoneCut(received) PROVE EchoInv'
    <3>1. args' = args /\ received' = received
      BY <1>6 DEF HandleMessage
    <3>2. NoneCut(received)' <=> NoneCut(received)
      BY <3>1, NoneCutKept
    <3> QED
      BY <3>2, Zenon DEF EchoInv
  <2>1. /\ args' = args /\ received' = received /\ NoneCut(received)
        /\ peer # "gone" /\ pc = "handle" /\ delivered' = Append(delivered, message)
        /\ sent' = sent \o FramesOf(message, compressed)
    BY <1>6 DEF HandleMessage, Send, CanSend
  <2>2. message \in Msg /\ compressed \in BOOLEAN /\ (message.is_text => Utf8Valid(message.buffer))
    BY <2>1 DEF ListenerInv, TypeInv, HandleInv
  <2>3. PICK h \in Seq(Frame), m \in Msg, z \in BOOLEAN : h = sent /\ m = message /\ z = compressed
    BY <1>1, <2>2, Zenon
  <2>4. PICK d : d = delivered
    BY Zenon
  <2>5. Readable(Data(h), d) /\ (m.is_text => Utf8Valid(m.buffer))
    BY <2>1, <2>2, <2>3, <2>4, Zenon DEF EchoInv
  <2>51. ~(Deflate /\ z /\ IsCut(Deflated(m.buffer)))
    <3>1. PICK n \in Nat : n = Len(received) /\ n \in DOMAIN received
      BY <2>1 DEF ListenerInv, TypeInv, HandleInv
    <3>2. /\ n \in 1..n /\ AllGood(received, n) /\ Completes(received, n)
          /\ message = MessageAt(received, n)
          /\ compressed <=> FirstFrame(received, n).rsv = Rsv1
      BY <2>1, <3>1 DEF ListenerInv, HandleInv
    <3>3. CodeFor(received, n) = 0
      BY <3>2, Zenon DEF AllGood
    <3> QED
      BY <2>1, <2>3, <3>1, <3>2, <3>3, Zenon DEF NoneCut, CutsCompressed
  <2>6. Readable(Data(h \o FramesOf(m, z)), Append(d, m))
    BY <1>1, <2>5, <2>51, EchoOfMessage
  <2>7. Readable(Data(sent'), delivered')
    BY <2>1, <2>3, <2>4, <2>6, Zenon
  <2> QED
    BY <2>1, <2>7, EchoKept, Zenon DEF EchoInv
<1>7. CASE HandleMessageFails
  BY <1>7 DEF HandleMessageFails, EchoInv
<1>8. CASE PeerLeaves
  BY <1>2, <1>8 DEF PeerLeaves
<1>9. CASE Ended \/ UNCHANGED vars
  BY <1>2, <1>9 DEF Ended, vars
<1> QED
  BY <1>3, <1>4, <1>5, <1>6, <1>7, <1>8, <1>9 DEF Next

\* Until a compressed message has to be cut into fragments, the server sends a stream that
\* its own receive rules accept, and the messages in it are the ones the peer sent
\* (ws_send_message_internal_normal and ws_send_message_internal_fragmented).  From there on
\* it is false: the fragmented sender puts the compressed bit on the continuation frames
\* and not on the first one.
THEOREM EchoReadable == Spec => []EchoIsReadable
<1>1. EchoInv => EchoIsReadable
  <2> SUFFICES ASSUME EchoInv, peer # "gone" /\ NoneCut(received) PROVE EchoedAsDelivered
    BY DEF EchoIsReadable, NoneCut
  <2>1. PICK o : o = Data(sent)
    BY Zenon
  <2>2. o \in Seq(Frame) /\ AllGood(o, Len(o)) /\ Messages(o) = delivered
    BY <2>1, Zenon DEF EchoInv, Readable
  <2>3. \A k \in DOMAIN o : CodeFor(o, k) = 0
    BY <2>2 DEF AllGood
  <2> QED
    BY <2>1, <2>2, <2>3, Zenon DEF EchoedAsDelivered, Data
<1>2. Init => EchoInv
  BY EchoInitially
<1>3. ListenerInv /\ ListenerInv' /\ EchoInv /\ [Next]_vars => EchoInv'
  BY EchoNext
<1> QED
  BY <1>1, <1>2, <1>3, ListenerCorrect, PTL DEF Spec
=============================================================================
