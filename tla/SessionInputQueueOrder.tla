------------------------ MODULE SessionInputQueueOrder ------------------------
(***************************************************************************)
(* Theorems about the order of a session's input queue: what is shown as   *)
(* next is what starts, the drain follows the user's order, a client's     *)
(* view is current as long as its version is, and a composer input that    *)
(* may start is without a drain only if a drain itself left it behind.     *)
(***************************************************************************)
EXTENDS SessionInputQueueProofs, FiniteSetTheorems

(***************************************************************************)
(* Sorting by counting.  Of a finite set whose members each have a set of  *)
(* predecessors, strictly and totally ordered, every member is found at    *)
(* the place that the number of its predecessors gives.                    *)
(***************************************************************************)
Ordered(S, below) ==
    /\ below \in [S -> SUBSET S]
    /\ \A i \in S : i \notin below[i]
    /\ \A i, j \in S : i # j => i \in below[j] \/ j \in below[i]
    /\ \A i, j \in S : i \in below[j] => below[i] \subseteq below[j]
(* The number of predecessors is a place, of exactly one member each. *)
LEMMA Counting ==
    ASSUME NEW S, IsFiniteSet(S), NEW below, Ordered(S, below)
    PROVE  /\ Cardinality(S) \in Nat
           /\ \A i \in S : Cardinality(below[i]) \in 0..(Cardinality(S) - 1)
           /\ \A i, j \in S : i \in below[j] <=> Cardinality(below[i]) < Cardinality(below[j])
           /\ \A i, j \in S : Cardinality(below[i]) = Cardinality(below[j]) => i = j
           /\ \A n \in 1..Cardinality(S) : \E i \in S : Cardinality(below[i]) = n - 1
<1> DEFINE N == Cardinality(S)
           c(i) == Cardinality(below[i])
<1>1. N \in Nat
  BY FS_CardinalityType
<1>2. \A T \in SUBSET S : IsFiniteSet(T) /\ Cardinality(T) \in Nat
  BY FS_Subset, FS_CardinalityType
<1>3. ASSUME NEW i \in S PROVE c(i) \in 0..(N - 1)
  <2>1. below[i] \in SUBSET S /\ below[i] # S
    BY DEF Ordered
  <2>2. c(i) <= N /\ c(i) # N
    BY <2>1, FS_Subset
  <2> QED
    BY <1>1, <1>2, <2>1, <2>2
<1>4. ASSUME NEW i \in S, NEW j \in S, i \in below[j] PROVE c(i) < c(j)
  <2>1. below[i] \in SUBSET below[j] /\ below[i] # below[j] /\ below[j] \in SUBSET S
    BY <1>4 DEF Ordered
  <2>2. IsFiniteSet(below[j])
    BY <1>2, <2>1
  <2>3. c(i) <= c(j) /\ c(i) # c(j)
    BY <2>1, <2>2, FS_Subset
  <2> QED
    BY <1>3, <2>3, <1>1
<1>5. \A i, j \in S : c(i) = c(j) => i = j
  <2> SUFFICES ASSUME NEW i \in S, NEW j \in S, c(i) = c(j), i # j PROVE FALSE
    OBVIOUS
  <2>1. c(i) < c(j) \/ c(j) < c(i)
    BY <1>4 DEF Ordered
  <2> QED
    BY <1>1, <1>3, <2>1
<1>6. \A i, j \in S : i \in below[j] <=> c(i) < c(j)
  <2> SUFFICES ASSUME NEW i \in S, NEW j \in S, c(i) < c(j) PROVE i \in below[j]
    BY <1>4
  <2>1. i # j /\ ~(c(j) < c(i))
    BY <1>1, <1>3
  <2> QED
    BY <1>4, <2>1 DEF Ordered
<1>7. \A n \in 1..N : \E i \in S : c(i) = n - 1
  <2> DEFINE f == [i \in S |-> c(i)]
             T == 0..(N - 1)
  <2>1. IsFiniteSet(T) /\ Cardinality(T) = N
    BY <1>1, FS_Interval
  <2>2. f \in Injection(S, T)
    BY <1>3, <1>5 DEF Injection, IsInjective
  <2> HIDE DEF T
  <2>3. f \in Surjection(S, T)
    BY <2>1, <2>2, FS_Injection
  <2>4. \A t \in T : \E i \in S : f[i] = t
    BY <2>3 DEF Surjection
  <2>5. \A n \in 1..N : n - 1 \in T
    BY <1>1 DEF T
  <2> QED
    BY <2>4, <2>5
<1> QED
  BY <1>1, <1>3, <1>5, <1>6, <1>7

(***************************************************************************)
(* QueueState::sort, for any base order all of S and any order comp of the *)
(* part C: the slots of C are filled with comp.  Everything keeps exactly  *)
(* one place, C is in the order of comp, the rest stays in its slot, and a *)
(* slot of C is followed by a member of C that the base order has before   *)
(* everything behind the slot.                                             *)
(***************************************************************************)
Fill(N, all, C, comp) ==
    [n \in 1..N |-> IF all[n] \in C THEN comp[Cardinality({m \in 1..n : all[m] \in C})] ELSE all[n]]
Enumerates(f, N, S) ==
    /\ f \in [1..N -> S]
    /\ \A i \in S : \E n \in 1..N : f[n] = i
    /\ \A m, n \in 1..N : f[m] = f[n] => m = n
Filled(q, N, S, all, C, M, comp) ==
    /\ Enumerates(q, N, S)
    /\ \A m, n \in 1..N : m < n /\ q[m] \in C /\ q[n] \in C =>
          \E a, b \in 1..M : a < b /\ q[m] = comp[a] /\ q[n] = comp[b]
    /\ \A n \in 1..N : q[n] \notin C => q[n] = all[n]
    /\ \A m, n \in 1..N : m < n /\ q[m] \in C /\ q[n] \notin C =>
          \E k \in m..N, p \in 1..m : q[k] \in C /\ q[k] = all[p]

(* Filling the slots has these four effects. *)
LEMMA Filling ==
    ASSUME NEW S, NEW C \in SUBSET S, NEW N \in Nat, NEW M \in Nat, NEW all, NEW comp, NEW q,
           Enumerates(all, N, S), Enumerates(comp, M, C), q = Fill(N, all, C, comp)
    PROVE  Filled(q, N, S, all, C, M, comp)
<1> DEFINE Slots == {n \in 1..N : all[n] \in C}
           below == [n \in Slots |-> {m \in Slots : m < n}]
           c(n) == Cardinality(below[n])
<1>1. Slots \in SUBSET (1..N) /\ IsFiniteSet(Slots)
  BY FS_Interval, FS_Subset
<1>2. Cardinality(Slots) = M
  <2> DEFINE g == [k \in 1..M |-> CHOOSE n \in Slots : all[n] = comp[k]]
  <2>1. \A k \in 1..M : g[k] \in Slots /\ all[g[k]] = comp[k]
    <3> SUFFICES ASSUME NEW k \in 1..M PROVE \E n \in Slots : all[n] = comp[k]
      OBVIOUS
    <3>1. comp[k] \in C /\ comp[k] \in S
      BY DEF Enumerates
    <3>2. PICK n \in 1..N : all[n] = comp[k]
      BY <3>1 DEF Enumerates
    <3> QED
      BY <3>1, <3>2
  <2>2. g \in Injection(1..M, Slots)
    <3> SUFFICES ASSUME NEW a \in 1..M, NEW b \in 1..M, g[a] = g[b] PROVE a = b
      BY <2>1 DEF Injection, IsInjective
    <3>1. comp[a] = comp[b]
      BY <2>1
    <3> QED
      BY <3>1 DEF Enumerates
  <2>3. g \in Surjection(1..M, Slots)
    <3> SUFFICES ASSUME NEW n \in Slots PROVE \E k \in 1..M : g[k] = n
      BY <2>1 DEF Surjection
    <3>1. PICK k \in 1..M : comp[k] = all[n]
      BY DEF Enumerates
    <3>2. g[k] = n
      BY <2>1, <3>1 DEF Enumerates
    <3> QED
      BY <3>2
  <2>4. ExistsBijection(1..M, Slots)
    BY <2>2, <2>3 DEF ExistsBijection, Bijection
  <2> QED
    BY <2>4, FS_CountingElements
<1>3. /\ \A n \in Slots : c(n) \in 0..(M - 1)
      /\ \A m, n \in Slots : m \in below[n] <=> c(m) < c(n)
      /\ \A m, n \in Slots : c(m) = c(n) => m = n
      /\ \A k \in 1..M : \E n \in Slots : c(n) = k - 1
  <2> HIDE DEF Slots
  <2>1. below \in [Slots -> SUBSET Slots]
    OBVIOUS
  <2>a. \A n \in Slots : n \in Nat
    BY <1>1
  <2>b. \A i, j \in Slots : i \in below[j] <=> i < j
    OBVIOUS
  <2>2. Ordered(Slots, below)
    <3>1. \A i, j \in Slots : i \in below[j] => below[i] \subseteq below[j]
      BY <2>a, <2>b, <2>1
    <3>2. \A i \in Slots : i \notin below[i]
      BY <2>a, <2>b
    <3>3. \A i, j \in Slots : i # j => i \in below[j] \/ j \in below[i]
      BY <2>a, <2>b
    <3> QED
      BY <2>1, <3>1, <3>2, <3>3 DEF Ordered
  <2> HIDE DEF below
  <2>c. IsFiniteSet(Slots)
    BY <1>1
  <2>3. /\ \A i \in Slots : Cardinality(below[i]) \in 0..(Cardinality(Slots) - 1)
        /\ \A i, j \in Slots : i \in below[j] <=> Cardinality(below[i]) < Cardinality(below[j])
        /\ \A i, j \in Slots : Cardinality(below[i]) = Cardinality(below[j]) => i = j
        /\ \A n \in 1..Cardinality(Slots) : \E i \in Slots : Cardinality(below[i]) = n - 1
    BY <2>c, <2>2, Counting
  <2> QED
    BY <1>2, <2>3
<1>4. \A m, n \in Slots : m < n <=> c(m) < c(n)
  BY <1>3
<1>5. \A n \in Slots : q[n] = comp[c(n) + 1] /\ q[n] \in C /\ c(n) + 1 \in 1..M /\ c(n) \in Nat
  <2> SUFFICES ASSUME NEW n \in Slots PROVE q[n] = comp[c(n) + 1] /\ q[n] \in C /\ c(n) + 1 \in 1..M /\ c(n) \in Nat
    OBVIOUS
  <2>1. {m \in 1..n : all[m] \in C} = below[n] \cup {n}
    BY <1>1
  <2>2. IsFiniteSet(below[n]) /\ n \notin below[n]
    BY <1>1, FS_Subset
  <2>3. Cardinality({m \in 1..n : all[m] \in C}) = c(n) + 1
    BY <2>1, <2>2, FS_AddElement
  <2>4. c(n) + 1 \in 1..M /\ c(n) \in Nat
    BY <1>3
  <2>5. comp[c(n) + 1] \in C
    BY <2>4 DEF Enumerates
  <2> QED
    BY <2>3, <2>4, <2>5 DEF Fill
<1>6. \A n \in (1..N) \ Slots : q[n] = all[n] /\ q[n] \in S \ C
  BY DEF Fill, Enumerates
<1>7. DOMAIN q = 1..N /\ q = [n \in 1..N |-> q[n]]
  BY DEF Fill
<1> HIDE DEF below
<1>8. q \in [1..N -> S]
  <2>1. \A n \in 1..N : q[n] \in S
    BY <1>5, <1>6
  <2> QED
    BY <1>7, <2>1
<1>9. \A i \in S : \E n \in 1..N : q[n] = i
  <2> SUFFICES ASSUME NEW i \in S PROVE \E n \in 1..N : q[n] = i
    OBVIOUS
  <2>1. CASE i \in C
    <3>1. PICK k \in 1..M : comp[k] = i
      BY <2>1 DEF Enumerates
    <3>2. PICK n \in Slots : c(n) = k - 1
      BY <1>3
    <3>3. c(n) + 1 = k
      BY <1>5, <3>2
    <3>4. q[n] = i
      BY <1>5, <3>1, <3>3
    <3> QED
      BY <1>1, <3>4
  <2>2. CASE i \notin C
    <3>1. PICK n \in 1..N : all[n] = i
      BY DEF Enumerates
    <3> QED
      BY <1>6, <2>2, <3>1
  <2> QED
    BY <2>1, <2>2
<1>10. \A m, n \in 1..N : q[m] = q[n] => m = n
  <2> SUFFICES ASSUME NEW m \in 1..N, NEW n \in 1..N, q[m] = q[n] PROVE m = n
    OBVIOUS
  <2>1. CASE m \in Slots /\ n \in Slots
    <3>1. c(m) + 1 = c(n) + 1
      BY <1>5, <2>1 DEF Enumerates
    <3>2. c(m) = c(n)
      BY <1>5, <2>1, <3>1
    <3> QED
      BY <1>3, <2>1, <3>2
  <2>2. CASE m \notin Slots /\ n \notin Slots
    BY <1>6, <2>2 DEF Enumerates
  <2>3. CASE ~(m \in Slots <=> n \in Slots)
    BY <1>5, <1>6, <2>3
  <2> QED
    BY <2>1, <2>2, <2>3
<1>11. \A m \in 1..N : m \in Slots <=> q[m] \in C
  BY <1>5, <1>6
<1>12. ASSUME NEW m \in 1..N, NEW n \in 1..N, m < n, q[m] \in C, q[n] \in C
       PROVE  \E a, b \in 1..M : a < b /\ q[m] = comp[a] /\ q[n] = comp[b]
  <2>1. m \in Slots /\ n \in Slots /\ c(m) < c(n)
    BY <1>4, <1>11, <1>12
  <2>2. c(m) + 1 < c(n) + 1
    BY <1>5, <2>1
  <2> QED
    BY <1>5, <2>1, <2>2
<1>13. ASSUME NEW m \in 1..N, NEW n \in 1..N, m < n, q[m] \in C, q[n] \notin C
       PROVE  \E k \in m..N, p \in 1..m : q[k] \in C /\ q[k] = all[p]
  <2>1. m \in Slots /\ c(m) \in Nat /\ c(m) <= M
    BY <1>5, <1>11, <1>13
  <2> DEFINE P == below[m] \cup {m}
             g == [p \in P |-> CHOOSE k \in 1..M : comp[k] = all[p]]
  <2>2. P \in SUBSET Slots /\ \A p \in P : p \in 1..m
    BY <1>1, <2>1 DEF below
  <2>3. IsFiniteSet(P) /\ Cardinality(P) = c(m) + 1
    <3>1. IsFiniteSet(below[m]) /\ m \notin below[m]
      BY <1>1, <2>1, FS_Subset DEF below
    <3> QED
      BY <3>1, FS_AddElement
  <2>4. \A p \in P : g[p] \in 1..M /\ comp[g[p]] = all[p]
    <3> SUFFICES ASSUME NEW p \in P PROVE \E k \in 1..M : comp[k] = all[p]
      OBVIOUS
    <3> QED
      BY <2>2 DEF Enumerates
  <2>5. \A p, r \in P : g[p] = g[r] => p = r
    <3> SUFFICES ASSUME NEW p \in P, NEW r \in P, g[p] = g[r] PROVE p = r
      OBVIOUS
    <3>1. all[p] = all[r] /\ p \in 1..N /\ r \in 1..N
      BY <1>1, <2>2, <2>4
    <3> QED
      BY <3>1 DEF Enumerates
  <2>6. PICK p \in P : g[p] > c(m)
    <3> SUFFICES ASSUME \A p \in P : ~(g[p] > c(m)) PROVE FALSE
      OBVIOUS
    <3>1. \A p \in P : g[p] \in 1..c(m)
      BY <2>1, <2>4
    <3>2. g \in Injection(P, 1..c(m))
      BY <2>5, <3>1 DEF Injection, IsInjective
    <3>3. IsFiniteSet(1..c(m)) /\ Cardinality(1..c(m)) = c(m)
      BY <2>1, FS_Interval
    <3> HIDE DEF P, g
    <3>4. Cardinality(P) <= c(m)
      BY <3>2, <3>3, FS_Injection
    <3> QED
      BY <2>1, <2>3, <3>4
  <2>a. g[p] \in 1..M
    BY <2>4
  <2> HIDE DEF g
  <2>7. PICK k \in Slots : c(k) = g[p] - 1
    BY <1>3, <2>a
  <2>b. c(k) \in Nat /\ c(k) + 1 = g[p] /\ g[p] > c(m)
    BY <1>5, <2>6, <2>7, <2>a
  <2>8. q[k] = comp[g[p]] /\ q[k] \in C /\ q[k] = all[p]
    BY <1>5, <2>4, <2>b
  <2>9. k \in m..N
    <3>1. ~(c(k) < c(m))
      BY <2>1, <2>b, <2>a
    <3>2. ~(k < m)
      BY <1>4, <2>1, <3>1
    <3> QED
      BY <1>1, <3>2
  <2>10. p \in 1..m
    BY <2>2
  <2> QED
    BY <2>8, <2>9, <2>10
<1>14. Enumerates(q, N, S)
  BY <1>8, <1>9, <1>10 DEF Enumerates
<1> QED
  BY <1>6, <1>11, <1>12, <1>13, <1>14 DEF Filled

(***************************************************************************)
(* Who is placed by counting is placed once, and in order.                 *)
(***************************************************************************)
LEMMA Placing ==
    ASSUME NEW S, IsFiniteSet(S), NEW below, Ordered(S, below),
           NEW q \in [1..Cardinality(S) -> S],
           \A n \in 1..Cardinality(S) : Cardinality(below[q[n]]) = n - 1
    PROVE  /\ Enumerates(q, Cardinality(S), S)
           /\ \A m, n \in 1..Cardinality(S) : m < n => q[m] \in below[q[n]]
<1> DEFINE N == Cardinality(S)
           c(i) == Cardinality(below[i])
<1>1. /\ N \in Nat
      /\ \A i \in S : c(i) \in 0..(N - 1)
      /\ \A i, j \in S : i \in below[j] <=> c(i) < c(j)
      /\ \A i, j \in S : c(i) = c(j) => i = j
  BY Counting
<1>2. \A n \in 1..N : q[n] \in S /\ c(q[n]) = n - 1
  OBVIOUS
<1> HIDE DEF c, N
<1>3. q \in [1..N -> S]
  BY <1>2 DEF N
<1>4. ASSUME NEW i \in S PROVE \E n \in 1..N : q[n] = i
  <2>1. c(i) + 1 \in 1..N /\ (c(i) + 1) - 1 = c(i)
    BY <1>1
  <2>2. c(q[c(i) + 1]) = c(i) /\ q[c(i) + 1] \in S
    BY <1>2, <2>1
  <2> QED
    BY <1>1, <2>1, <2>2
<1>5. ASSUME NEW m \in 1..N, NEW n \in 1..N, q[m] = q[n] PROVE m = n
  <2>1. m - 1 = n - 1
    BY <1>2, <1>5
  <2> QED
    BY <1>1, <2>1
<1>6. ASSUME NEW m \in 1..N, NEW n \in 1..N, m < n PROVE q[m] \in below[q[n]]
  <2>1. c(q[m]) < c(q[n])
    <3>1. m - 1 < n - 1
      BY <1>1, <1>6
    <3> QED
      BY <1>2, <3>1
  <2> QED
    BY <1>1, <1>2, <2>1
<1> QED
  BY <1>3, <1>4, <1>5, <1>6 DEF Enumerates, N

-----------------------------------------------------------------------------
(* The orders of the queue *)

QueueShape == queue.order \in Seq(Inputs) /\ queue.position \in [Inputs -> Inputs]

\* Any two inputs are ordered, by position and by the user's wish.
PositionTotal ==
    /\ \A i \in Inputs : ~ByPosition(i, i)
    /\ \A i, j \in Inputs : i # j => ByPosition(i, j) \/ ByPosition(j, i)
    /\ \A i, j, k \in Inputs : ByPosition(i, j) /\ ByPosition(j, k) => ByPosition(i, k)
UserTotal ==
    /\ \A i \in Inputs : ~ByUser(i, i)
    /\ \A i, j \in Inputs : i # j => ByUser(i, j) \/ ByUser(j, i)
    /\ \A i, j, k \in Inputs : ByUser(i, j) /\ ByUser(j, k) => ByUser(i, k)

(* The position, with the acceptance order behind it, orders the inputs. *)
LEMMA PositionOrders == QueueShape => PositionTotal
<1> SUFFICES ASSUME QueueShape PROVE PositionTotal
  OBVIOUS
<1>1. \A i \in Inputs : i \in Nat /\ queue.position[i] \in Nat
  BY InputAssumption DEF QueueShape, Inputs
<1>2. ASSUME NEW i \in Inputs, NEW j \in Inputs, NEW k \in Inputs, ByPosition(i, j), ByPosition(j, k)
      PROVE  ByPosition(i, k)
  BY <1>1, <1>2 DEF ByPosition
<1>3. \A i \in Inputs : ~ByPosition(i, i)
  BY <1>1 DEF ByPosition
<1>4. \A i, j \in Inputs : i # j => ByPosition(i, j) \/ ByPosition(j, i)
  BY <1>1 DEF ByPosition
<1> QED
  BY <1>2, <1>3, <1>4 DEF PositionTotal

(* A rank is a number. *)
LEMMA RankType == QueueShape => \A i \in Inputs : Rank(i) \in Nat
<1> SUFFICES ASSUME QueueShape, NEW i \in Inputs PROVE Rank(i) \in Nat
  OBVIOUS
<1>1. Places(i) \subseteq Nat
  BY DEF Places, QueueShape
<1>2. Places(i) # {} => (CHOOSE k \in Places(i) : TRUE) \in Places(i)
  OBVIOUS
<1> QED
  BY <1>1, <1>2, InputAssumption DEF Rank

(* The rank, with the position behind it, orders the inputs. *)
LEMMA UserOrders == QueueShape => UserTotal
<1> SUFFICES ASSUME QueueShape PROVE UserTotal
  OBVIOUS
<1>1. \A i \in Inputs : Rank(i) \in Nat
  BY RankType
<1>2. PositionTotal
  BY PositionOrders
<1>3. ASSUME NEW i \in Inputs, NEW j \in Inputs, NEW k \in Inputs, ByUser(i, j), ByUser(j, k)
      PROVE  ByUser(i, k)
  BY <1>1, <1>2, <1>3 DEF ByUser, PositionTotal
<1>4. \A i \in Inputs : ~ByUser(i, i)
  BY <1>1, <1>2 DEF ByUser, PositionTotal
<1>5. \A i, j \in Inputs : i # j => ByUser(i, j) \/ ByUser(j, i)
  BY <1>1, <1>2 DEF ByUser, PositionTotal
<1> QED
  BY <1>3, <1>4, <1>5 DEF UserTotal

(* Sets of inputs are finite. *)
LEMMA InputsFinite == \A S \in SUBSET Inputs : IsFiniteSet(S) /\ Cardinality(S) \in Nat
<1>1. IsFiniteSet(Inputs)
  BY InputAssumption, FS_Interval DEF Inputs
<1> QED
  BY <1>1, FS_Subset, FS_CardinalityType

\* InOrder by position, and by the user's wish, is that order.
LEMMA PositionSorted ==
    ASSUME QueueShape, NEW S \in SUBSET Inputs, NEW q, q = InOrder(S, ByPosition)
    PROVE  /\ Enumerates(q, Cardinality(S), S)
           /\ \A m, n \in 1..Cardinality(S) : m < n => ByPosition(q[m], q[n])
<1> DEFINE below == [i \in S |-> {j \in S : ByPosition(j, i)}]
<1>0. IsFiniteSet(S) /\ Cardinality(S) \in Nat
  BY InputsFinite
<1>1. PositionTotal
  BY PositionOrders
<1>2. Ordered(S, below)
  <2>1. \A i \in S : \A j \in S : j \in below[i] <=> ByPosition(j, i)
    OBVIOUS
  <2>2. below \in [S -> SUBSET S]
    OBVIOUS
  <2> HIDE DEF below
  <2>3. \A i, j \in S : i \in below[j] => below[i] \subseteq below[j]
    BY <1>1, <2>1, <2>2 DEF PositionTotal
  <2>4. \A i, j \in S : i # j => i \in below[j] \/ j \in below[i]
    BY <1>1, <2>1 DEF PositionTotal
  <2>5. \A i \in S : i \notin below[i]
    BY <1>1, <2>1 DEF PositionTotal
  <2> QED
    BY <2>2, <2>3, <2>4, <2>5 DEF Ordered
<1>3. \A n \in 1..Cardinality(S) : \E i \in S : Cardinality(below[i]) = n - 1
  <2> HIDE DEF below
  <2> QED
    BY <1>0, <1>2, Counting
<1>4. \A n \in 1..Cardinality(S) : \E i \in S : Cardinality({j \in S : ByPosition(j, i)}) = n - 1
  BY <1>3
<1> DEFINE F(n) == CHOOSE i \in S : Cardinality({j \in S : ByPosition(j, i)}) = n - 1
<1>a. q = [n \in 1..Cardinality(S) |-> F(n)]
  BY DEF InOrder
<1>5. \A n \in 1..Cardinality(S) : q[n] \in S /\ Cardinality({j \in S : ByPosition(j, q[n])}) = n - 1
  <2> SUFFICES ASSUME NEW n \in 1..Cardinality(S)
               PROVE  q[n] \in S /\ Cardinality({j \in S : ByPosition(j, q[n])}) = n - 1
    OBVIOUS
  <2>1. q[n] = CHOOSE i \in S : Cardinality({j \in S : ByPosition(j, i)}) = n - 1
    BY <1>a
  <2> QED
    BY <1>4, <2>1
<1>6. \A n \in 1..Cardinality(S) : q[n] \in S /\ Cardinality(below[q[n]]) = n - 1
  BY <1>5
<1>7. q \in [1..Cardinality(S) -> S]
  <2> HIDE DEF F
  <2> QED
    BY <1>a, <1>6
<1>8. \A i, j \in S : j \in below[i] => ByPosition(j, i)
  OBVIOUS
<1> HIDE DEF below
<1> QED
  BY <1>0, <1>2, <1>6, <1>7, <1>8, Placing

\* Who comes before whom by the user's wish, as a set for each input.
UserBelow(S) == [i \in S |-> {j \in S : ByUser(j, i)}]
(* They are the predecessors of a total order. *)
LEMMA UserOrdered == ASSUME QueueShape, NEW S \in SUBSET Inputs PROVE Ordered(S, UserBelow(S))
<1> DEFINE below == [i \in S |-> {j \in S : ByUser(j, i)}]
<1>1. UserTotal
  BY UserOrders
<1>2. \A i \in S : \A j \in S : j \in below[i] <=> ByUser(j, i)
  OBVIOUS
<1>3. below \in [S -> SUBSET S]
  OBVIOUS
<1> HIDE DEF below
<1>4. \A i, j \in S : i \in below[j] => below[i] \subseteq below[j]
  BY <1>1, <1>2, <1>3 DEF UserTotal
<1>5. \A i, j \in S : i # j => i \in below[j] \/ j \in below[i]
  BY <1>1, <1>2 DEF UserTotal
<1>6. \A i \in S : i \notin below[i]
  BY <1>1, <1>2 DEF UserTotal
<1>7. Ordered(S, below)
  BY <1>3, <1>4, <1>5, <1>6 DEF Ordered
<1> QED
  BY <1>7 DEF below, UserBelow

(* ... and by the user's wish. *)
LEMMA UserSorted ==
    ASSUME QueueShape, NEW S \in SUBSET Inputs, NEW q, q = InOrder(S, ByUser)
    PROVE  /\ Enumerates(q, Cardinality(S), S)
           /\ \A m, n \in 1..Cardinality(S) : m < n => ByUser(q[m], q[n])
           /\ \A n \in 1..Cardinality(S) : Cardinality(UserBelow(S)[q[n]]) = n - 1
<1> DEFINE below == UserBelow(S)
<1>0. IsFiniteSet(S) /\ Cardinality(S) \in Nat
  BY InputsFinite
<1>1. Ordered(S, below)
  BY UserOrdered
<1>2. \A n \in 1..Cardinality(S) : \E i \in S : Cardinality(below[i]) = n - 1
  <2> HIDE DEF below
  <2> QED
    BY <1>0, <1>1, Counting
<1>3. \A n \in 1..Cardinality(S) : \E i \in S : Cardinality({j \in S : ByUser(j, i)}) = n - 1
  BY <1>2 DEF UserBelow
<1> DEFINE F(n) == CHOOSE i \in S : Cardinality({j \in S : ByUser(j, i)}) = n - 1
<1>4. q = [n \in 1..Cardinality(S) |-> F(n)]
  BY DEF InOrder
<1>5. \A n \in 1..Cardinality(S) : q[n] \in S /\ Cardinality({j \in S : ByUser(j, q[n])}) = n - 1
  <2> SUFFICES ASSUME NEW n \in 1..Cardinality(S)
               PROVE  q[n] \in S /\ Cardinality({j \in S : ByUser(j, q[n])}) = n - 1
    OBVIOUS
  <2>1. q[n] = CHOOSE i \in S : Cardinality({j \in S : ByUser(j, i)}) = n - 1
    BY <1>4
  <2> QED
    BY <1>3, <2>1
<1>6. \A n \in 1..Cardinality(S) : q[n] \in S /\ Cardinality(below[q[n]]) = n - 1
  BY <1>5 DEF UserBelow
<1>7. q \in [1..Cardinality(S) -> S]
  <2> HIDE DEF F
  <2> QED
    BY <1>4, <1>6
<1>8. \A i, j \in S : j \in below[i] => ByUser(j, i)
  BY DEF UserBelow
<1> HIDE DEF below
<1>9. /\ Enumerates(q, Cardinality(S), S)
      /\ \A m, n \in 1..Cardinality(S) : m < n => q[m] \in below[q[n]]
  BY <1>0, <1>1, <1>6, <1>7, Placing
<1> QED
  BY <1>6, <1>7, <1>8, <1>9 DEF below

(***************************************************************************)
(* What Sorted makes of a set of inputs: each has one place, composers     *)
(* follow each other as the user wishes, and an input that does not come   *)
(* first by position starts only in a composer's slot.                     *)
(***************************************************************************)
WellSorted(S, q) ==
    /\ Enumerates(q, Cardinality(S), S)
    /\ \A m, n \in 1..Cardinality(S) :
          m < n /\ Composer(q[m]) /\ Composer(q[n]) => ByUser(q[m], q[n])
    /\ \A m, n \in 1..Cardinality(S) :
          m < n /\ Composer(q[m]) /\ ~Composer(q[n]) =>
              \E k \in m..Cardinality(S) : Composer(q[k]) /\ ByPosition(q[k], q[n])
    /\ S # {} /\ ~Composer(q[1]) => \A j \in S \ {q[1]} : ByPosition(q[1], j)

(* QueueState::sort does this to every set of inputs. *)
LEMMA SortedWell == QueueShape => \A S \in SUBSET Inputs : WellSorted(S, Sorted(S))
<1> SUFFICES ASSUME QueueShape, NEW S \in SUBSET Inputs PROVE WellSorted(S, Sorted(S))
  OBVIOUS
<1> DEFINE C == {i \in S : Composer(i)}
           N == Cardinality(S)
           M == Cardinality(C)
           all == InOrder(S, ByPosition)
           comp == InOrder(C, ByUser)
           q == Sorted(S)
<1>0. C \in SUBSET S /\ C \in SUBSET Inputs /\ \A i \in S : i \in C <=> Composer(i)
  OBVIOUS
<1>1. N \in Nat /\ M \in Nat
  BY <1>0, InputsFinite
<1>2. Enumerates(all, N, S) /\ \A m, n \in 1..N : m < n => ByPosition(all[m], all[n])
  BY PositionSorted
<1>3. Enumerates(comp, M, C) /\ \A m, n \in 1..M : m < n => ByUser(comp[m], comp[n])
  BY <1>0, UserSorted
<1>4. q = [n \in DOMAIN all |->
             IF Composer(all[n]) THEN comp[Cardinality({m \in 1..n : Composer(all[m])})] ELSE all[n]]
  BY DEF Sorted
<1> HIDE DEF C, N, M, all, comp, q
<1>5. DOMAIN all = 1..N /\ \A n \in 1..N : all[n] \in S
  BY <1>2 DEF Enumerates
<1>6. q = Fill(N, all, C, comp)
  <2>1. \A n \in 1..N : {m \in 1..n : Composer(all[m])} = {m \in 1..n : all[m] \in C}
    <3> SUFFICES ASSUME NEW n \in 1..N, NEW m \in 1..n PROVE Composer(all[m]) <=> all[m] \in C
      OBVIOUS
    <3>1. m \in 1..N
      BY <1>1
    <3> QED
      BY <1>0, <1>5, <3>1
  <2> DEFINE F(n) == IF Composer(all[n]) THEN comp[Cardinality({m \in 1..n : Composer(all[m])})] ELSE all[n]
             G(n) == IF all[n] \in C THEN comp[Cardinality({m \in 1..n : all[m] \in C})] ELSE all[n]
  <2>2. \A n \in 1..N : F(n) = G(n)
    <3> SUFFICES ASSUME NEW n \in 1..N PROVE F(n) = G(n)
      OBVIOUS
    <3>1. Composer(all[n]) <=> all[n] \in C
      BY <1>0, <1>5
    <3> QED
      BY <2>1, <3>1
  <2>3. q = [n \in 1..N |-> F(n)] /\ Fill(N, all, C, comp) = [n \in 1..N |-> G(n)]
    BY <1>4, <1>5 DEF Fill
  <2> HIDE DEF F, G
  <2> QED
    BY <2>2, <2>3
<1>a. Filled(q, N, S, all, C, M, comp)
  <2>1. C \in SUBSET S
    BY <1>0
  <2>2. Enumerates(all, N, S) /\ Enumerates(comp, M, C)
    BY <1>2, <1>3
  <2> QED
    BY <1>1, <1>6, <2>1, <2>2, Filling
<1>7. /\ Enumerates(q, N, S)
      /\ \A m, n \in 1..N : m < n /\ q[m] \in C /\ q[n] \in C =>
            \E a, b \in 1..M : a < b /\ q[m] = comp[a] /\ q[n] = comp[b]
      /\ \A n \in 1..N : q[n] \notin C => q[n] = all[n]
      /\ \A m, n \in 1..N : m < n /\ q[m] \in C /\ q[n] \notin C =>
            \E k \in m..N, p \in 1..m : q[k] \in C /\ q[k] = all[p]
  BY <1>a DEF Filled
<1>8. \A n \in 1..N : q[n] \in S /\ (q[n] \in C <=> Composer(q[n]))
  BY <1>0, <1>7 DEF Enumerates
<1>9. ASSUME NEW m \in 1..N, NEW n \in 1..N, m < n, Composer(q[m]), Composer(q[n])
      PROVE  ByUser(q[m], q[n])
  <2>1. PICK a \in 1..M, b \in 1..M : a < b /\ q[m] = comp[a] /\ q[n] = comp[b]
    BY <1>7, <1>8, <1>9
  <2> QED
    BY <1>3, <2>1
<1>10. ASSUME NEW m \in 1..N, NEW n \in 1..N, m < n, Composer(q[m]), ~Composer(q[n])
       PROVE  \E k \in m..N : Composer(q[k]) /\ ByPosition(q[k], q[n])
  <2>1. PICK k \in m..N, p \in 1..m : q[k] \in C /\ q[k] = all[p]
    BY <1>7, <1>8, <1>10
  <2>2. q[n] = all[n] /\ p \in 1..N /\ p < n
    BY <1>1, <1>7, <1>8, <1>10
  <2>3. ByPosition(q[k], q[n])
    BY <1>2, <2>1, <2>2
  <2> QED
    BY <1>0, <2>1, <2>3 DEF C
<1>11. ASSUME S # {}, ~Composer(q[1]), NEW j \in S \ {q[1]} PROVE ByPosition(q[1], j)
  <2>1. 1 \in 1..N
    <3>1. PICK n \in 1..N : all[n] = j
      BY <1>2 DEF Enumerates
    <3> QED
      BY <1>1
  <2>2. q[1] = all[1]
    BY <1>7, <1>8, <1>11, <2>1
  <2>3. PICK n \in 1..N : all[n] = j
    BY <1>2 DEF Enumerates
  <2>4. 1 < n
    BY <1>1, <1>11, <2>2, <2>3
  <2> QED
    BY <1>2, <2>1, <2>2, <2>3, <2>4
<1> QED
  BY <1>7, <1>9, <1>10, <1>11 DEF WellSorted, N, q

(***************************************************************************)
(* The least member of a set, in either order.                             *)
(***************************************************************************)
LEMMA LeastByPosition ==
    ASSUME QueueShape, NEW S \in SUBSET Inputs, NEW i \in S, \A j \in S \ {i} : ByPosition(i, j)
    PROVE  Least(S, ByPosition) = i
<1>1. PositionTotal
  BY PositionOrders
<1>2. \A k \in S : (\A j \in S \ {k} : ByPosition(k, j)) => k = i
  BY <1>1 DEF PositionTotal
<1> QED
  BY <1>2 DEF Least

(* ... which by the user's wish is found the same way. *)
LEMMA LeastByUser ==
    ASSUME QueueShape, NEW S \in SUBSET Inputs, NEW i \in S, \A j \in S \ {i} : ByUser(i, j)
    PROVE  Least(S, ByUser) = i
<1>1. UserTotal
  BY UserOrders
<1>2. \A k \in S : (\A j \in S \ {k} : ByUser(k, j)) => k = i
  BY <1>1 DEF UserTotal
<1> QED
  BY <1>2 DEF Least

\* A set that is not empty has a first member by position.
LEMMA SomeFirst ==
    ASSUME QueueShape, NEW S \in SUBSET Inputs, S # {}
    PROVE  \E i \in S : \A j \in S \ {i} : ByPosition(i, j)
<1> DEFINE q == InOrder(S, ByPosition)
           N == Cardinality(S)
<1>1. N \in Nat
  BY InputsFinite
<1>2. Enumerates(q, N, S) /\ \A m, n \in 1..N : m < n => ByPosition(q[m], q[n])
  BY PositionSorted
<1> HIDE DEF q, N
<1>3. 1 \in 1..N /\ q[1] \in S
  BY <1>1, <1>2 DEF Enumerates
<1>4. ASSUME NEW j \in S \ {q[1]} PROVE ByPosition(q[1], j)
  <2>1. PICK n \in 1..N : q[n] = j
    BY <1>2 DEF Enumerates
  <2>2. 1 < n
    BY <1>1, <1>4, <2>1
  <2> QED
    BY <1>2, <1>3, <2>1, <2>2
<1> QED
  BY <1>3, <1>4

(***************************************************************************)
(* The first of a sorted set S: the first by position, or, if that is a    *)
(* composer's, the composer the user wants first.                          *)
(***************************************************************************)
RootOf(S) ==
    IF Composer(Least(S, ByPosition)) THEN Least({i \in S : Composer(i)}, ByUser)
    ELSE Least(S, ByPosition)

(* This is what the sorted sequence starts with. *)
LEMMA SortedHead ==
    ASSUME QueueShape, NEW S \in SUBSET Inputs, S # {}
    PROVE  Sorted(S)[1] = RootOf(S) /\ Sorted(S) \in Seq(S) /\ Len(Sorted(S)) = Cardinality(S)
<1> DEFINE q == Sorted(S)
           N == Cardinality(S)
<1>1. N \in Nat
  BY InputsFinite
<1>2. WellSorted(S, q)
  BY SortedWell
<1> HIDE DEF q, N
<1>3. Enumerates(q, N, S)
  BY <1>2 DEF WellSorted, N
<1>4. q \in Seq(S) /\ Len(q) = N
  BY <1>1, <1>3 DEF Enumerates
<1>5. 1 \in 1..N /\ q[1] \in S /\ N # 0
  BY <1>1, <1>3 DEF Enumerates
<1>6. CASE ~Composer(q[1])
  <2>1. \A j \in S \ {q[1]} : ByPosition(q[1], j)
    BY <1>2, <1>6 DEF WellSorted
  <2>2. Least(S, ByPosition) = q[1]
    <3>1. PICK i \in S : i = q[1]
      BY <1>5
    <3>2. \A j \in S \ {i} : ByPosition(i, j)
      BY <2>1, <3>1
    <3>3. Least(S, ByPosition) = i
      BY <3>2, LeastByPosition
    <3> QED
      BY <3>1, <3>3
  <2> QED
    BY <1>4, <1>6, <2>2 DEF RootOf, N, q
<1>7. CASE Composer(q[1])
  <2> DEFINE C == {i \in S : Composer(i)}
  <2>1. \A j \in C \ {q[1]} : ByUser(q[1], j)
    <3> SUFFICES ASSUME NEW j \in S, Composer(j), j # q[1] PROVE ByUser(q[1], j)
      OBVIOUS
    <3>1. PICK n \in 1..N : q[n] = j
      BY <1>3 DEF Enumerates
    <3>2. 1 < n
      BY <1>1, <3>1
    <3> QED
      BY <1>2, <1>5, <1>7, <3>1, <3>2 DEF WellSorted, N
  <2>2. q[1] \in C /\ C \in SUBSET Inputs
    BY <1>5, <1>7
  <2> HIDE DEF C
  <2>3. Least(C, ByUser) = q[1]
    <3>1. PICK i \in C : i = q[1]
      BY <2>2
    <3>2. \A j \in C \ {i} : ByUser(i, j)
      BY <2>1, <3>1
    <3>3. Least(C, ByUser) = i
      BY <2>2, <3>2, LeastByUser
    <3> QED
      BY <3>1, <3>3
  <2>4. PICK f \in S : \A j \in S \ {f} : ByPosition(f, j)
    BY SomeFirst
  <2>5. Composer(f)
    <3> SUFFICES ASSUME ~Composer(f) PROVE FALSE
      OBVIOUS
    <3>1. PICK n \in 1..N : q[n] = f
      BY <1>3 DEF Enumerates
    <3>2. 1 < n
      BY <1>1, <1>7, <3>1
    <3>3. PICK k \in 1..N : Composer(q[k]) /\ ByPosition(q[k], f)
      BY <1>2, <1>5, <1>7, <3>1, <3>2 DEF WellSorted, N
    <3>4. q[k] \in S /\ q[k] # f
      BY <1>3, <3>3 DEF Enumerates
    <3>5. ByPosition(f, q[k])
      BY <2>4, <3>4
    <3>6. PositionTotal
      BY PositionOrders
    <3> QED
      BY <3>3, <3>4, <3>5, <3>6 DEF PositionTotal
  <2>6. Least(S, ByPosition) = f
    BY <2>4, LeastByPosition
  <2> QED
    BY <1>4, <2>3, <2>5, <2>6 DEF RootOf, N, q, C
<1> QED
  BY <1>6, <1>7

\* Nothing to sort gives nothing.
LEMMA SortedNothing == QueueShape => Sorted({}) = << >>
<1> SUFFICES ASSUME QueueShape PROVE Sorted({}) = << >>
  OBVIOUS
<1> DEFINE q == Sorted({})
<1>1. {} \in SUBSET Inputs
  OBVIOUS
<1>2. WellSorted({}, q)
  BY <1>1, SortedWell
<1> HIDE DEF q
<1>3. q \in [1..0 -> {}]
  BY <1>2, FS_EmptySet DEF WellSorted, Enumerates
<1>4. q \in Seq({}) /\ Len(q) = 0
  BY <1>3
<1> QED
  BY <1>4 DEF q

-----------------------------------------------------------------------------
(* Types *)

LEMMA SeqGrows == ASSUME NEW S, NEW T, S \subseteq T, NEW s \in Seq(S) PROVE s \in Seq(T)
OBVIOUS

(* A sorted set is a sequence of its members, as long as the set is large. *)
LEMMA SortedSeq ==
    ASSUME QueueShape, NEW S \in SUBSET Inputs
    PROVE  Sorted(S) \in Seq(S) /\ Len(Sorted(S)) = Cardinality(S)
<1>1. CASE S = {}
  <2>1. Sorted(S) = << >> /\ Cardinality(S) = 0
    BY <1>1, SortedNothing, FS_EmptySet
  <2> QED
    BY <2>1
<1>2. CASE S # {}
  BY <1>2, SortedHead
<1> QED
  BY <1>1, <1>2

QueueType == [heldThrough : 0..accepted, released : SUBSET Inputs, order : Seq(Inputs),
              override : [Inputs -> Turns], replacementHolds : SUBSET Inputs,
              position : [Inputs -> Inputs]]
StoredType ==
    /\ source \in [Inputs -> Sources \cup {"none"}]
    /\ prefers \in [Inputs -> Turns]
    /\ blocked \subseteq Accepted
    /\ queue \in QueueType
    /\ line \in Seq(Accepted)
SessionType ==
    /\ head \in [status : {"ready", "running", "paused", "reconciliation"}, turn : Turns]
    /\ head.turn = 0 <=> head.status = "ready"
    /\ unsettled \in BOOLEAN /\ busy \in BOOLEAN
    /\ steerRetry \subseteq Accepted
    /\ controls \in 0..MaxControls
    /\ wakes \in 0..MaxWakes /\ retry \in 0..accepted
DrainType ==
    /\ drain \in [phase : {"idle", "select", "prepare", "deliver"}, batch : Seq(Accepted),
                  room : 0..BatchLimit]
    /\ drain.phase \in {"prepare", "deliver"} => drain.batch # << >> /\ drain.room # 0
    /\ left \subseteq Accepted
ViewType == view \in [fresh : BOOLEAN, items : Seq(Items)]
Types == StoredType /\ SessionType /\ DrainType /\ ViewType

(* The type invariant is made of these types and of the arrivals. *)
LEMMA TypesGiveTypeOK == InputInv /\ Types => TypeOK
BY DEF InputInv, Arrivals, Named, Lineages, Types, StoredType, SessionType, DrainType, ViewType, TypeOK, Accepted,
       QueueType, Fates

(* The stored queue state has the shape the sorts need. *)
LEMMA Shapely == StoredType => QueueShape
BY DEF StoredType, QueueType, QueueShape

(* An empty queue has these types. *)
LEMMA TypesInit == Init => Types
<1> SUFFICES ASSUME Init PROVE Types
  OBVIOUS
<1>1. StoredType
  BY InputAssumption DEF Init, StoredType, QueueType, EmptyQueue, Accepted, Inputs, Turns
<1>2. SessionType
  <2>1. head.turn = 0 /\ head.status = "ready" /\ head = [status |-> "ready", turn |-> 0]
    BY DEF Init, Ready
  <2>2. 0 \in Turns /\ 0 \in 0..MaxControls /\ 0 \in 0..MaxWakes
    BY InputAssumption DEF Turns
  <2>3. unsettled \in BOOLEAN /\ busy \in BOOLEAN /\ steerRetry \subseteq Accepted
    BY DEF Init
  <2>4. controls \in 0..MaxControls /\ wakes \in 0..MaxWakes /\ retry \in 0..accepted
    BY <2>2 DEF Init
  <2>5. head \in [status : {"ready", "running", "paused", "reconciliation"}, turn : Turns]
    BY <2>1, <2>2
  <2> QED
    BY <2>1, <2>3, <2>4, <2>5 DEF SessionType
<1>3. DrainType /\ ViewType
  BY InputAssumption DEF Init, DrainType, ViewType, Idle, Stale, Accepted
<1> QED
  BY <1>1, <1>2, <1>3 DEF Types

\* Inputs are only ever added, and what is pending has been.
LEMMA AcceptedGrows == InputInv /\ Next => accepted \in Nat /\ accepted' \in Nat /\ Accepted \subseteq Accepted'
<1> SUFFICES ASSUME InputInv, Next PROVE accepted \in Nat /\ accepted' \in Nat /\ Accepted \subseteq Accepted'
  OBVIOUS
<1>1. accepted \in Nat
  BY InputAssumption DEF InputInv, Arrivals
<1>2. accepted' = accepted \/ accepted' = accepted + 1
  <2>1. CASE Consumes
    BY <2>1, ConsumesSettles DEF Settles
  <2>2. CASE Leaves
    BY <2>2, LeavesFacts DEF facts
  <2>3. ASSUME NEW s \in Sources, NEW t \in Turns, Accept(s, t) PROVE accepted' = accepted + 1
    BY <2>3 DEF Accept
  <2>4. ASSUME NEW i \in Inputs, Promote(i) \/ Replace(i) \/ StopInput(i)
        PROVE  accepted' = accepted \/ accepted' = accepted + 1
    BY <2>4 DEF Promote, Replace, StopInput
  <2>5. ASSUME \/ \E o \in Orders(PendingComposers) : Reorder(o)
               \/ Pause \/ Resume \/ StopTurn \/ ClearContext
        PROVE  accepted' = accepted
    BY <2>5 DEF Reorder, Pause, Resume, StopTurn, ClearContext
  <2> QED
    BY Kinds, <2>1, <2>2, <2>3, <2>4, <2>5
<1> QED
  BY <1>1, <1>2 DEF Accepted

(* What is pending was accepted. *)
LEMMA PendingAccepted == InputInv => Pending \subseteq Accepted /\ Accepted \subseteq Inputs /\ Pending \subseteq Inputs
<1> SUFFICES ASSUME InputInv PROVE Pending \subseteq Accepted /\ Accepted \subseteq Inputs
  BY DEF Pending
<1>1. accepted \in 0..MaxInputs /\ \A i \in Inputs : i <= accepted <=> fate[i] # "none"
  BY DEF InputInv, Arrivals
<1> QED
  BY <1>1, InputAssumption DEF Pending, Accepted, Inputs

\* The steps that touch what StoredType is about.
Stores ==
    \/ \E s \in Sources, t \in Turns : Accept(s, t)
    \/ \E i \in Inputs : Promote(i) \/ Replace(i) \/ StopInput(i) \/ SteerBlocked(i)
    \/ \E o \in Orders(PendingComposers) : Reorder(o)
    \/ Pause \/ Resume \/ StopTurn \/ ClearContext \/ PrepareFails

(* No other step does. *)
LEMMA StoresOrNot == ASSUME Next PROVE Stores \/ UNCHANGED <<accepted, source, prefers, blocked, queue, line>>
<1>1. CASE Consumes
  BY <1>1 DEF Consumes, Remove, WithdrawRobot, Steer, ClearQueue, ClaimRoot, history
<1>2. CASE Leaves
  BY <1>2 DEF Stores, Leaves, stored, history, Replay, CancelTurn, ReadQueue, Reconcile, Restart, EndTurn,
       RelayReleases, TurnPauses, TurnResumes, EffectUncertain, DrainStart, DrainRetry, DrainSelect,
       PrepareStopped, ClaimRefused, Delivered, DeliveryFails, StartFails, BatchEnds, DrainFails, DeliveryErrs
<1>3. CASE ~Consumes /\ ~Leaves
  BY <1>3, Kinds DEF Stores
<1> QED
  BY <1>1, <1>2, <1>3

(* Every step keeps the types of what is stored. *)
LEMMA StoredNext == InputInv /\ InputInv' /\ Types /\ Next => StoredType'
<1> SUFFICES ASSUME InputInv, InputInv', Types, Next PROVE StoredType'
  OBVIOUS
<1>0. /\ accepted \in Nat /\ accepted' \in Nat /\ Accepted \subseteq Accepted'
      /\ Pending \subseteq Accepted /\ Accepted \subseteq Inputs /\ PendingComposers \subseteq Pending
      /\ PendingComposers \subseteq Inputs
  BY AcceptedGrows, PendingAccepted DEF PendingComposers
<1>1. /\ source \in [Inputs -> Sources \cup {"none"}] /\ prefers \in [Inputs -> Turns]
      /\ blocked \subseteq Accepted /\ queue \in QueueType /\ line \in Seq(Accepted)
  BY DEF Types, StoredType
<1>a. accepted \in 0..accepted /\ 0 \in 0..accepted
  BY <1>0
<1>2. CASE UNCHANGED <<accepted, source, prefers, blocked, queue, line>>
  BY <1>1, <1>2 DEF StoredType, QueueType, Accepted
<1>3. ASSUME NEW s \in Sources, NEW t \in Turns, Accept(s, t) PROVE StoredType'
  <2> DEFINE i == accepted + 1
  <2>1. /\ accepted < MaxInputs /\ accepted' = i /\ source' = [source EXCEPT ![i] = s]
        /\ prefers' = [prefers EXCEPT ![i] = t] /\ line' = (IF s = "composer" THEN Append(line, i) ELSE line)
        /\ UNCHANGED <<blocked, queue>>
    BY <1>3 DEF Accept
  <2>2. i \in Inputs /\ i \in Accepted'
    BY <1>0, <2>1, InputAssumption DEF Inputs, Accepted
  <2>3. source' \in [Inputs -> Sources \cup {"none"}] /\ prefers' \in [Inputs -> Turns]
    BY <1>1, <2>1, <2>2
  <2>4. queue' \in QueueType'
    BY <1>0, <1>1, <2>1 DEF QueueType
  <2>5. line \in Seq(Accepted')
    BY <1>0, <1>1, SeqGrows
  <2>6. line' \in Seq(Accepted') /\ blocked' \subseteq Accepted'
    BY <1>0, <1>1, <2>1, <2>2, <2>5
  <2> QED
    BY <2>3, <2>4, <2>6 DEF StoredType
<1>4. ASSUME NEW i \in Inputs, Replace(i) PROVE StoredType'
  <2> DEFINE j == accepted + 1
  <2>1. /\ accepted < MaxInputs /\ accepted' = j /\ source' = [source EXCEPT ![j] = "composer"]
        /\ prefers' = [prefers EXCEPT ![j] = prefers[i]] /\ i \in PendingComposers
        /\ line' = [k \in DOMAIN line |-> IF line[k] = i THEN j ELSE line[k]]
        /\ queue' = Replaced(i, j) /\ blocked' = blocked
    BY <1>4 DEF Replace
  <2>2. j \in Inputs /\ j \in Accepted'
    BY <1>0, <2>1, InputAssumption DEF Inputs, Accepted
  <2>3. "composer" \in Sources \cup {"none"}
    BY <1>1, <2>1 DEF PendingComposers, Composer
  <2>4. source' \in [Inputs -> Sources \cup {"none"}] /\ prefers' \in [Inputs -> Turns]
    BY <1>1, <2>1, <2>2, <2>3
  <2>5. line' \in Seq(Accepted')
    <3>1. line \in Seq(Accepted')
      BY <1>0, <1>1, SeqGrows
    <3> QED
      BY <2>1, <2>2, <3>1
  <2>6. queue' \in QueueType'
    <3> DEFINE o == [k \in DOMAIN queue.order |-> IF queue.order[k] = i THEN j ELSE queue.order[k]]
               p == [queue.position EXCEPT ![j] = queue.position[i]]
               h == IF Held(i) THEN queue.replacementHolds \cup {j} ELSE queue.replacementHolds
               r == IF i \in queue.released THEN (queue.released \ {i}) \cup {j} ELSE queue.released
               v == [queue.override EXCEPT ![i] = 0, ![j] = queue.override[i]]
    <3>1. /\ queue.order \in Seq(Inputs) /\ queue.position \in [Inputs -> Inputs]
          /\ queue.replacementHolds \in SUBSET Inputs /\ queue.released \in SUBSET Inputs
          /\ queue.override \in [Inputs -> Turns] /\ queue.heldThrough \in 0..accepted
      BY <1>1 DEF QueueType
    <3>2. queue' = [heldThrough |-> queue.heldThrough, released |-> r, order |-> o, override |-> v,
                    replacementHolds |-> h, position |-> p]
      BY <1>1, <2>1 DEF QueueType, Replaced
    <3>3. o \in Seq(Inputs)
      BY <2>2, <3>1
    <3>4. p \in [Inputs -> Inputs] /\ h \in SUBSET Inputs /\ r \in SUBSET Inputs
      BY <2>2, <3>1
    <3>5. v \in [Inputs -> Turns]
      <4> DEFINE w == [queue.override EXCEPT ![i] = 0]
      <4>1. w \in [Inputs -> Turns]
        BY <3>1, InputAssumption DEF Turns
      <4>2. v = [w EXCEPT ![j] = queue.override[i]] /\ queue.override[i] \in Turns
        BY <3>1
      <4> HIDE DEF w
      <4> QED
        BY <2>2, <4>1, <4>2
    <3> HIDE DEF o, p, h, r, v
    <3> QED
      BY <1>0, <2>1, <3>1, <3>2, <3>3, <3>4, <3>5 DEF QueueType
  <2> QED
    BY <1>0, <1>1, <2>1, <2>4, <2>5, <2>6 DEF StoredType
<1>5. ASSUME NEW o \in Orders(PendingComposers), Reorder(o) PROVE StoredType'
  <2>1. queue' = [queue EXCEPT !.order = o] /\ line' = o /\ UNCHANGED <<accepted, source, prefers, blocked>>
    BY <1>5 DEF Reorder
  <2>2. o \in [1..Cardinality(PendingComposers) -> PendingComposers] /\ Cardinality(PendingComposers) \in Nat
    BY <1>0, InputsFinite DEF Orders
  <2>3. o \in Seq(PendingComposers)
    BY <2>2
  <2>4. o \in Seq(Accepted) /\ o \in Seq(Inputs)
    BY <1>0, <2>3, SeqGrows
  <2> QED
    BY <1>1, <2>1, <2>4 DEF StoredType, QueueType, Accepted
<1>6. ASSUME Pause \/ Resume \/ StopTurn \/ \E i \in Inputs : StopInput(i) PROVE StoredType'
  <2>1. UNCHANGED <<accepted, source, prefers, blocked, line>> /\ queue' \in QueueType
    <3>1. CASE Pause
      <4> DEFINE shown == {i \in PendingComposers : Placement(i) # "queued"}
      <4>1. queue' = [queue EXCEPT !.heldThrough = accepted, !.released = shown] /\ shown \in SUBSET Inputs
        BY <1>0, <3>1 DEF Pause
      <4> HIDE DEF shown
      <4>2. queue' \in QueueType
        BY <1>1, <1>a, <4>1 DEF QueueType
      <4> QED
        BY <3>1, <4>2 DEF Pause
    <3>2. CASE Resume
      <4>1. queue' = [queue EXCEPT !.heldThrough = 0, !.replacementHolds = {}]
        BY <3>2 DEF Resume
      <4>2. queue' \in QueueType
        BY <1>1, <1>a, <4>1 DEF QueueType
      <4> QED
        BY <3>2, <4>2 DEF Resume
    <3>3. CASE StopTurn \/ \E i \in Inputs : StopInput(i)
      <4>1. (queue' = queue \/ queue' = HeldForStop) /\ UNCHANGED <<accepted, source, prefers, blocked, line>>
        BY <3>3 DEF StopTurn, StopInput
      <4>2. HeldForStop \in QueueType
        BY <1>1, <1>a DEF QueueType, HeldForStop
      <4> QED
        BY <1>1, <4>1, <4>2
    <3> QED
      BY <1>6, <3>1, <3>2, <3>3
  <2> QED
    BY <1>1, <2>1 DEF StoredType, QueueType, Accepted
<1>7. ASSUME NEW i \in Inputs, Promote(i) PROVE StoredType'
  <2>1. /\ queue' = [queue EXCEPT !.released = @ \cup {i}, !.replacementHolds = @ \ {i}, !.override[i] = head.turn]
        /\ UNCHANGED <<accepted, source, prefers, blocked, line>>
    BY <1>7 DEF Promote
  <2>2. head.turn \in Turns
    BY DEF Types, SessionType
  <2> QED
    BY <1>1, <2>1, <2>2 DEF StoredType, QueueType, Accepted
<1>8. CASE ClearContext
  <2>1. queue' = EmptyQueue /\ line' = << >> /\ UNCHANGED <<accepted, source, prefers, blocked>>
    BY <1>8 DEF ClearContext
  <2>2. EmptyQueue \in QueueType
    BY <1>0, InputAssumption DEF QueueType, EmptyQueue, Turns, Inputs
  <2> QED
    BY <1>1, <2>1, <2>2 DEF StoredType, QueueType, Accepted
<1>9. ASSUME PrepareFails \/ \E i \in Inputs : SteerBlocked(i) PROVE StoredType'
  <2>1. UNCHANGED <<accepted, source, prefers, queue, line>> /\ \E i \in Accepted : blocked' \subseteq blocked \cup {i}
    <3>1. CASE PrepareFails
      <4>1. drain.batch \in Seq(Accepted) /\ drain.batch # << >>
        BY <3>1 DEF PrepareFails, Types, DrainType
      <4>2. Head(drain.batch) \in Accepted
        BY <4>1
      <4> QED
        BY <3>1, <4>2 DEF PrepareFails, history
    <3>2. ASSUME NEW i \in Inputs, SteerBlocked(i) PROVE i \in Accepted /\ blocked' \subseteq blocked \cup {i}
      BY <1>0, <3>2 DEF SteerBlocked, Steerable
    <3>3. CASE \E i \in Inputs : SteerBlocked(i)
      <4>1. UNCHANGED <<accepted, source, prefers, queue, line>>
        BY <3>3 DEF SteerBlocked, history
      <4> QED
        BY <3>2, <3>3, <4>1
    <3> QED
      BY <1>9, <3>1, <3>3
  <2> QED
    BY <1>1, <2>1 DEF StoredType, QueueType, Accepted
<1> QED
  BY <1>2, <1>3, <1>4, <1>5, <1>6, <1>7, <1>8, <1>9, StoresOrNot DEF Stores

\* What a step may do to the session, the tasks and the counters.
ControlsEffect == controls' = controls \/ (controls < MaxControls /\ controls' = controls + 1)
WakesEffect == wakes' = wakes \/ Wake \/ (wakes > 0 /\ wakes' = wakes - 1) \/ wakes' = 1
RetryEffect == retry' = retry \/ retry' = 0 \/ \E i \in Inputs : i <= accepted /\ retry' = i
HeadEffect ==
    \/ head' = head
    \/ head' = Ready
    \/ head.turn # 0 /\ \E s \in {"running", "paused", "reconciliation"} : head' = [head EXCEPT !.status = s]
    \/ drain.phase = "prepare" /\ head' = [status |-> "running", turn |-> Head(drain.batch)]
FlagsEffect ==
    /\ unsettled' = unsettled \/ unsettled' \in BOOLEAN
    /\ busy' = busy \/ busy' \in BOOLEAN
    /\ steerRetry' = steerRetry \/ steerRetry' = {} \/ (retry # 0 /\ steerRetry' = steerRetry \cup {retry})
ViewEffect == view' = view \/ view' = Stale \/ (~view.fresh /\ view' = [fresh |-> TRUE, items |-> Snapshot])
DrainEffect ==
    \/ drain' = drain
    \/ drain' = Idle
    \/ \E r \in {0, retry} : drain' = Reading(r)
    \/ drain.batch # << >> /\ drain.room # 0 /\ drain' = Drop
    \/ drain.batch # << >> /\ drain.room # 0 /\ \E p \in {"prepare", "deliver"} : drain' = [drain EXCEPT !.phase = p]
LeftEffect ==
    \/ left' = left
    \/ left' = {}
    \/ left' = left \cup Eligible(0)
    \/ left' = left \cup Members(drain.batch)
    \/ drain.batch # << >> /\ left' = left \cup Members(Tail(drain.batch))
Effects == /\ ControlsEffect /\ WakesEffect /\ RetryEffect /\ HeadEffect /\ FlagsEffect /\ ViewEffect /\ DrainEffect
           /\ LeftEffect

(* A queue command, ... *)
LEMMA CommandEffects == Commands => Effects
<1> SUFFICES ASSUME Commands PROVE Effects
  OBVIOUS
<1>1. UNCHANGED <<session, drain, retry, left>> /\ Changed /\ ControlsEffect
  BY DEF Commands, Remove, Promote, Replace, Reorder, ClearQueue, Pause, Resume, Control, Changed, ControlsEffect
<1>2. WakesEffect /\ ViewEffect
  BY <1>1 DEF Changed, Observe, WakesEffect, ViewEffect
<1> QED
  BY <1>1, <1>2 DEF session, Effects, RetryEffect, HeadEffect, FlagsEffect, DrainEffect, LeftEffect

(* ... an acceptance, ... *)
LEMMA AcceptEffects == ASSUME NEW s \in Sources, NEW t \in Turns, Accept(s, t) PROVE Effects
<1>1. UNCHANGED <<session, drain, retry, controls, left>> /\ Wake /\ (view' = view \/ view' = Stale)
  BY DEF Accept, Observe
<1> QED
  BY <1>1 DEF session, Effects, RetryEffect, HeadEffect, FlagsEffect, DrainEffect, LeftEffect, ControlsEffect, WakesEffect, ViewEffect

\* An observation leaves the view or makes it stale.
LEMMA Observing == ASSUME NEW kinds, Observe(kinds) PROVE ViewEffect
BY DEF Observe, ViewEffect

(* ... a stop, a replay, a read, a restart, ... *)
LEMMA ControlEffects == ASSUME SessionType, Controls PROVE Effects
<1>1. ASSUME NEW i \in Inputs, Replay(i) PROVE Effects
  <2>1. UNCHANGED <<session, drain, wakes, view, left>> /\ ControlsEffect /\ i <= accepted /\ retry' = i
    BY <1>1 DEF Replay, Control, ControlsEffect
  <2> QED
    BY <2>1 DEF session, Effects, RetryEffect, HeadEffect, FlagsEffect, DrainEffect, LeftEffect, WakesEffect, ViewEffect
<1>2. ASSUME NEW i \in Inputs, StopInput(i) \/ WithdrawRobot(i) PROVE Effects
  <2>1. UNCHANGED <<session, drain, wakes, retry, left>> /\ ControlsEffect /\ ViewEffect
    BY <1>2, Observing DEF StopInput, WithdrawRobot, NoTask, tasks, Control, ControlsEffect
  <2> QED
    BY <2>1 DEF session, Effects, RetryEffect, HeadEffect, FlagsEffect, DrainEffect, LeftEffect, WakesEffect
<1>3. CASE StopTurn \/ CancelTurn
  <2>1. UNCHANGED <<drain, retry, unsettled, busy, steerRetry, left>> /\ Wake /\ head' = Ready /\ ControlsEffect /\ ViewEffect
    BY <1>3, Observing DEF StopTurn, CancelTurn, Control, ControlsEffect
  <2> QED
    BY <2>1 DEF Effects, RetryEffect, HeadEffect, FlagsEffect, DrainEffect, LeftEffect, WakesEffect
<1>4. CASE ClearContext
  <2>1. UNCHANGED <<drain, wakes, retry, head, unsettled, steerRetry, left>> /\ busy' = FALSE /\ ControlsEffect /\ ViewEffect
    BY <1>4, Observing DEF ClearContext, tasks, Control, ControlsEffect
  <2> QED
    BY <2>1 DEF Effects, RetryEffect, HeadEffect, FlagsEffect, DrainEffect, LeftEffect, WakesEffect
<1>5. CASE ReadQueue
  BY <1>5 DEF ReadQueue, session, tasks, Effects, RetryEffect, HeadEffect, FlagsEffect, DrainEffect, LeftEffect, WakesEffect,
              ControlsEffect, ViewEffect
<1>6. CASE Reconcile
  <2>1. UNCHANGED <<drain, retry, head, busy, steerRetry, controls, left>> /\ Wake /\ unsettled' = FALSE /\ ViewEffect
    BY <1>6, Observing DEF Reconcile
  <2> QED
    BY <2>1 DEF Effects, RetryEffect, HeadEffect, FlagsEffect, DrainEffect, LeftEffect, WakesEffect, ControlsEffect
<1>7. CASE Restart
  <2>1. /\ UNCHANGED <<head, unsettled, view>> /\ wakes' = 1 /\ drain' = Idle /\ retry' = 0 /\ left' = {}
        /\ busy' = FALSE /\ steerRetry' = {} /\ ControlsEffect
    BY <1>7 DEF Restart, Control, ControlsEffect
  <2> QED
    BY <2>1 DEF Effects, RetryEffect, HeadEffect, FlagsEffect, DrainEffect, LeftEffect, WakesEffect, ViewEffect
<1> QED
  BY <1>1, <1>2, <1>3, <1>4, <1>5, <1>6, <1>7 DEF Controls

(* ... a step of the running Turn ... *)
LEMMA RuntimeEffects == ASSUME SessionType, Runtime PROVE Effects
<1>1. ASSUME NEW i \in Inputs, Steer(i) \/ SteerBlocked(i) PROVE Effects
  <2>1. UNCHANGED <<head, unsettled, busy, drain, wakes, retry, left>> /\ steerRetry' = {} /\ ControlsEffect /\ ViewEffect
    BY <1>1, Observing DEF Steer, SteerBlocked, tasks, Control, ControlsEffect
  <2> QED
    BY <2>1 DEF Effects, RetryEffect, HeadEffect, FlagsEffect, DrainEffect, LeftEffect, WakesEffect
<1>2. CASE EndTurn
  <2>1. UNCHANGED <<controls, unsettled, busy, steerRetry, drain, retry, left>> /\ head' = Ready /\ WakesEffect /\ ViewEffect
    BY <1>2, Observing DEF EndTurn, WakesEffect
  <2> QED
    BY <2>1 DEF Effects, RetryEffect, HeadEffect, FlagsEffect, DrainEffect, LeftEffect, ControlsEffect
<1>3. CASE RelayReleases
  <2>1. UNCHANGED <<controls, head, unsettled, drain, retry, view, left>> /\ busy' = FALSE /\ steerRetry' = {} /\ Wake
    BY <1>3 DEF RelayReleases
  <2> QED
    BY <2>1 DEF Effects, RetryEffect, HeadEffect, FlagsEffect, DrainEffect, LeftEffect, ControlsEffect, WakesEffect, ViewEffect
<1>4. CASE TurnPauses \/ EffectUncertain
  <2>1. /\ UNCHANGED <<busy, steerRetry, drain, wakes, retry, left>> /\ ControlsEffect /\ ViewEffect
        /\ unsettled' = unsettled \/ unsettled' = TRUE
        /\ head' = [head EXCEPT !.status = "paused"] \/ head' = [head EXCEPT !.status = "reconciliation"]
        /\ head.status = "running"
    BY <1>4, Observing DEF TurnPauses, EffectUncertain, tasks, Control, ControlsEffect
  <2>2. head.turn # 0
    BY <2>1 DEF SessionType
  <2> QED
    BY <2>1, <2>2 DEF Effects, RetryEffect, HeadEffect, FlagsEffect, DrainEffect, LeftEffect, WakesEffect
<1>5. CASE TurnResumes
  <2>1. /\ UNCHANGED <<controls, unsettled, steerRetry, drain, wakes, retry, left>> /\ ViewEffect /\ busy' = TRUE
        /\ head' = [head EXCEPT !.status = "running"] /\ head.turn # 0
    BY <1>5, Observing DEF TurnResumes, tasks
  <2> QED
    BY <2>1 DEF Effects, RetryEffect, HeadEffect, FlagsEffect, DrainEffect, LeftEffect, WakesEffect, ControlsEffect
<1> QED
  BY <1>1, <1>2, <1>3, <1>4, <1>5 DEF Runtime

(* ... and a step of the drain do no more than this. *)
LEMMA DrainEffects == ASSUME DrainType, Drain PROVE Effects
<1>1. CASE DrainStart
  <2>1. /\ UNCHANGED <<controls, head, unsettled, busy, steerRetry, retry, view>> /\ wakes > 0 /\ wakes' = wakes - 1
        /\ drain' = Idle \/ drain' = Reading(0)
        /\ left' = {}
    BY <1>1 DEF DrainStart, session
  <2> QED
    BY <2>1 DEF Effects, RetryEffect, HeadEffect, FlagsEffect, DrainEffect, LeftEffect, ControlsEffect, WakesEffect,
                ViewEffect
<1>2. CASE DrainRetry
  <2>1. /\ UNCHANGED <<controls, head, unsettled, busy, wakes, left, view>> /\ retry # 0 /\ retry' = 0
        /\ steerRetry' = steerRetry \/ steerRetry' = steerRetry \cup {retry}
        /\ drain' = Idle \/ drain' = Reading(retry)
    BY <1>2 DEF DrainRetry
  <2> QED
    BY <2>1 DEF Effects, RetryEffect, HeadEffect, FlagsEffect, DrainEffect, LeftEffect, ControlsEffect, WakesEffect,
                ViewEffect
<1>3. CASE DrainSelect \/ PrepareStopped \/ ClaimRefused
  <2>1. /\ UNCHANGED <<controls, head, unsettled, busy, steerRetry, wakes, retry, left, view>>
        /\ DrainEffect
    BY <1>3 DEF DrainSelect, PrepareStopped, ClaimRefused, session, DrainEffect
  <2> QED
    BY <2>1 DEF Effects, RetryEffect, HeadEffect, FlagsEffect, ControlsEffect, WakesEffect, ViewEffect, LeftEffect
<1>4. CASE PrepareFails
  <2>1. /\ UNCHANGED <<head, unsettled, busy, steerRetry, wakes, retry, left>> /\ ViewEffect /\ ControlsEffect
        /\ drain' = Drop /\ drain.batch # << >> /\ drain.room # 0
    BY <1>4, Observing DEF PrepareFails, session, DrainType, Control, ControlsEffect
  <2> QED
    BY <2>1 DEF Effects, RetryEffect, HeadEffect, FlagsEffect, WakesEffect, DrainEffect, LeftEffect
<1>5. CASE ClaimRoot
  <2>1. /\ UNCHANGED <<controls, unsettled, busy, steerRetry, wakes, retry, left>> /\ ViewEffect
        /\ drain.phase = "prepare" /\ drain.batch # << >> /\ drain.room # 0
        /\ head' = [status |-> "running", turn |-> Head(drain.batch)]
        /\ drain' = [drain EXCEPT !.phase = "deliver"]
    BY <1>5, Observing DEF ClaimRoot, DrainType
  <2> QED
    BY <2>1 DEF Effects, RetryEffect, HeadEffect, FlagsEffect, WakesEffect, ControlsEffect, DrainEffect, LeftEffect
<1>6. CASE Delivered
  <2>1. /\ UNCHANGED <<controls, head, unsettled, wakes, retry, left, view>>
        /\ busy' = TRUE /\ steerRetry' = {} /\ drain' = Idle
    BY <1>6 DEF Delivered
  <2> QED
    BY <2>1 DEF Effects, RetryEffect, HeadEffect, FlagsEffect, WakesEffect, ControlsEffect, DrainEffect, LeftEffect,
                ViewEffect
<1>7. CASE DeliveryFails
  <2>1. /\ UNCHANGED <<unsettled, busy, steerRetry, wakes, retry, left>> /\ ViewEffect /\ ControlsEffect
        /\ head' = Ready \/ head' = head
        /\ drain' = Drop /\ drain.batch # << >> /\ drain.room # 0
    BY <1>7, Observing DEF DeliveryFails, DrainType, Control, ControlsEffect
  <2> QED
    BY <2>1 DEF Effects, RetryEffect, HeadEffect, FlagsEffect, WakesEffect, DrainEffect, LeftEffect
<1>8. CASE StartFails
  <2>1. /\ UNCHANGED <<head, unsettled, busy, steerRetry, view>> /\ ControlsEffect
        /\ wakes' = wakes \/ (wakes > 0 /\ wakes' = wakes - 1)
        /\ retry' = retry \/ retry' = 0
        /\ drain' = Idle /\ left' = left \cup Eligible(0)
    BY <1>8 DEF StartFails, GivesUp, session, Control, ControlsEffect
  <2> QED
    BY <2>1 DEF Effects, RetryEffect, HeadEffect, FlagsEffect, WakesEffect, DrainEffect, LeftEffect, ViewEffect
<1>9. CASE BatchEnds \/ DrainFails
  <2>1. /\ UNCHANGED <<head, unsettled, busy, steerRetry, wakes, retry, view>> /\ ControlsEffect
        /\ drain' = Idle /\ left' = left \cup Members(drain.batch)
    BY <1>9 DEF BatchEnds, DrainFails, GivesUp, session, Control, ControlsEffect
  <2> QED
    BY <2>1 DEF Effects, RetryEffect, HeadEffect, FlagsEffect, WakesEffect, DrainEffect, LeftEffect, ViewEffect
<1>10. CASE DeliveryErrs
  <2>1. /\ UNCHANGED <<unsettled, busy, steerRetry, wakes, retry>> /\ ViewEffect /\ ControlsEffect
        /\ head' = Ready \/ head' = head
        /\ drain.batch # << >> /\ drain' = Idle /\ left' = left \cup Members(Tail(drain.batch))
    BY <1>10, Observing DEF DeliveryErrs, GivesUp, DrainType, Control, ControlsEffect
  <2> QED
    BY <2>1 DEF Effects, RetryEffect, HeadEffect, FlagsEffect, WakesEffect, DrainEffect, LeftEffect
<1> QED
  BY <1>1, <1>2, <1>3, <1>4, <1>5, <1>6, <1>7, <1>8, <1>9, <1>10 DEF Drain

(* No step does more than this. *)
LEMMA StepEffects == Types /\ Next => Effects
BY CommandEffects, AcceptEffects, ControlEffects, RuntimeEffects, DrainEffects DEF Next, Types
(* Every step keeps the types of head, flags and counters, ... *)
LEMMA SessionNext == InputInv /\ InputInv' /\ Types /\ Next => SessionType'
<1> SUFFICES ASSUME InputInv, InputInv', Types, Next PROVE SessionType'
  OBVIOUS
<1>0. Effects /\ SessionType /\ DrainType
  BY StepEffects DEF Types
<1>1. accepted \in Nat /\ accepted' \in Nat /\ Accepted \subseteq Accepted' /\ Accepted \subseteq Inputs /\ accepted <= accepted'
  <2>1. accepted \in Nat /\ accepted' \in Nat /\ Accepted \subseteq Accepted' /\ Accepted \subseteq Inputs
    BY AcceptedGrows, PendingAccepted
  <2> QED
    BY <2>1 DEF Accepted
<1>2. head' \in [status : {"ready", "running", "paused", "reconciliation"}, turn : Turns]
      /\ (head'.turn = 0 <=> head'.status = "ready")
  <2>1. CASE head' = head
    BY <1>0, <2>1 DEF SessionType
  <2>2. CASE head' = Ready
    BY <2>2, InputAssumption DEF Ready, Turns
  <2>3. ASSUME NEW s \in {"running", "paused", "reconciliation"}, head.turn # 0, head' = [head EXCEPT !.status = s]
        PROVE  head' \in [status : {"ready", "running", "paused", "reconciliation"}, turn : Turns]
               /\ (head'.turn = 0 <=> head'.status = "ready")
    BY <1>0, <2>3 DEF SessionType
  <2>4. CASE drain.phase = "prepare" /\ head' = [status |-> "running", turn |-> Head(drain.batch)]
    <3>1. drain.batch \in Seq(Accepted) /\ drain.batch # << >>
      BY <1>0, <2>4 DEF DrainType
    <3>2. Head(drain.batch) \in Inputs
      BY <1>1, <3>1
    <3>3. Head(drain.batch) \in Turns /\ Head(drain.batch) # 0
      BY <3>2, InputAssumption DEF Inputs, Turns
    <3> QED
      BY <2>4, <3>3
  <2> QED
    BY <1>0, <2>1, <2>2, <2>3, <2>4 DEF Effects, HeadEffect
<1>3. unsettled' \in BOOLEAN /\ busy' \in BOOLEAN
  BY <1>0 DEF Effects, FlagsEffect, SessionType
<1>4. steerRetry' \subseteq Accepted'
  <2>1. retry # 0 => retry \in Accepted
    BY <1>0, <1>1 DEF SessionType, Accepted
  <2>2. steerRetry \subseteq Accepted
    BY <1>0 DEF SessionType
  <2> QED
    BY <1>0, <1>1, <2>1, <2>2 DEF Effects, FlagsEffect
<1>5. controls' \in 0..MaxControls
  BY <1>0, InputAssumption DEF Effects, ControlsEffect, SessionType
<1>6. wakes' \in 0..MaxWakes
  BY <1>0, InputAssumption DEF Effects, WakesEffect, Wake, SessionType
<1>7. retry' \in 0..accepted'
  BY <1>0, <1>1, InputAssumption DEF Effects, RetryEffect, SessionType, Inputs
<1> QED
  BY <1>2, <1>3, <1>4, <1>5, <1>6, <1>7 DEF SessionType

\* What the drain reads are accepted inputs.
LEMMA BatchType ==
    ASSUME InputInv, StoredType, NEW r
    PROVE  DispatchOrder(r) \in Seq(Accepted)
<1>1. Eligible(r) \in SUBSET Inputs /\ Eligible(r) \subseteq Accepted
  BY PendingAccepted DEF Eligible
<1>2. Sorted(Eligible(r)) \in Seq(Eligible(r))
  BY <1>1, Shapely, SortedSeq
<1> QED
  BY <1>1, <1>2, SeqGrows DEF DispatchOrder

\* The members of a batch are among those it is made of.
LEMMA MembersIn == ASSUME NEW S, NEW b \in Seq(S) PROVE Members(b) \subseteq S
BY DEF Members

(* ... of the drain's phase and batch, ... *)
LEMMA DrainNext == InputInv /\ InputInv' /\ Types /\ Next => DrainType'
<1> SUFFICES ASSUME InputInv, InputInv', Types, Next PROVE DrainType'
  OBVIOUS
<1> DEFINE Phases == {"idle", "select", "prepare", "deliver"}
           Good(d) == /\ d \in [phase : Phases, batch : Seq(Accepted'), room : 0..BatchLimit]
                      /\ d.phase \in {"prepare", "deliver"} => d.batch # << >> /\ d.room # 0
<1>0. Effects /\ DrainType /\ StoredType
  BY StepEffects DEF Types
<1>1. Accepted \subseteq Accepted'
  BY AcceptedGrows
<1>2. /\ drain.batch \in Seq(Accepted') /\ drain.batch \in Seq(Accepted)
      /\ drain = [phase |-> drain.phase, batch |-> drain.batch, room |-> drain.room]
      /\ drain.phase \in Phases /\ drain.room \in 0..BatchLimit
  BY <1>0, <1>1, SeqGrows DEF DrainType
<1>3. ASSUME drain' = drain PROVE Good(drain')
  <2>1. Good(drain)
    BY <1>0, <1>2 DEF DrainType
  <2> QED
    BY <1>3, <2>1
<1>4. ASSUME drain' = Idle PROVE Good(drain')
  <2>1. Good(Idle)
    BY InputAssumption DEF Idle
  <2> QED
    BY <1>4, <2>1
<1>5. ASSUME NEW r, drain' = Reading(r) PROVE Good(drain')
  <2>1. DispatchOrder(r) \in Seq(Accepted')
    BY <1>0, <1>1, BatchType, SeqGrows
  <2> QED
    BY <1>5, <2>1, InputAssumption DEF Reading
<1>6. ASSUME drain.batch # << >>, drain.room # 0, drain' = Drop PROVE Good(drain')
  <2>1. Tail(drain.batch) \in Seq(Accepted') /\ drain.room - 1 \in 0..BatchLimit
    BY <1>2, <1>6, InputAssumption
  <2> QED
    BY <1>6, <2>1 DEF Drop
<1>7. ASSUME drain.batch # << >>, drain.room # 0, NEW p \in {"prepare", "deliver"}, drain' = [drain EXCEPT !.phase = p]
      PROVE  Good(drain')
  <2>1. drain' = [phase |-> p, batch |-> drain.batch, room |-> drain.room]
    BY <1>2, <1>7
  <2> QED
    BY <1>2, <1>7, <2>1
<1>8. Good(drain')
  BY <1>0, <1>3, <1>4, <1>5, <1>6, <1>7 DEF Effects, DrainEffect
<1>9. left' \subseteq Accepted'
  <2>1. left \subseteq Accepted /\ Members(drain.batch) \subseteq Accepted
    BY <1>0, <1>2, MembersIn DEF DrainType
  <2>2. Eligible(0) \subseteq Accepted
    BY PendingAccepted DEF Eligible
  <2>3. drain.batch # << >> => Members(Tail(drain.batch)) \subseteq Accepted
    <3>1. drain.batch # << >> => Tail(drain.batch) \in Seq(Accepted)
      BY <1>2
    <3> QED
      BY <3>1, MembersIn
  <2> QED
    BY <1>0, <1>1, <2>1, <2>2, <2>3 DEF Effects, LeftEffect
<1> QED
  BY <1>8, <1>9 DEF DrainType

\* A snapshot, item by item.
Listing == InOrder(PendingComposers, ByUser)
(* The listing has every waiting composer once, in the user's order. *)
LEMMA SnapshotIs ==
    InputInv /\ StoredType =>
        /\ Enumerates(Listing, Cardinality(PendingComposers), PendingComposers)
        /\ Cardinality(PendingComposers) \in Nat
        /\ \A m, n \in 1..Cardinality(PendingComposers) : m < n => ByUser(Listing[m], Listing[n])
        /\ Snapshot = [n \in 1..Cardinality(PendingComposers) |->
                         [id |-> Listing[n], delivery |-> Intent(Listing[n]), held |-> Held(Listing[n]),
                          placement |-> Placement(Listing[n])]]
<1> SUFFICES ASSUME InputInv, StoredType
             PROVE  /\ Enumerates(Listing, Cardinality(PendingComposers), PendingComposers)
                    /\ Cardinality(PendingComposers) \in Nat
                    /\ \A m, n \in 1..Cardinality(PendingComposers) : m < n => ByUser(Listing[m], Listing[n])
                    /\ Snapshot = [n \in 1..Cardinality(PendingComposers) |->
                                     [id |-> Listing[n], delivery |-> Intent(Listing[n]), held |-> Held(Listing[n]),
                                      placement |-> Placement(Listing[n])]]
  OBVIOUS
<1>1. PendingComposers \in SUBSET Inputs
  BY PendingAccepted DEF PendingComposers
<1>2. Cardinality(PendingComposers) \in Nat
  BY <1>1, InputsFinite
<1>3. /\ Enumerates(Listing, Cardinality(PendingComposers), PendingComposers)
      /\ \A m, n \in 1..Cardinality(PendingComposers) : m < n => ByUser(Listing[m], Listing[n])
  BY <1>1, Shapely, UserSorted DEF Listing
<1>4. DOMAIN Listing = 1..Cardinality(PendingComposers)
  BY <1>3 DEF Enumerates
<1>5. Snapshot = [n \in DOMAIN Listing |->
                     [id |-> Listing[n], delivery |-> Intent(Listing[n]), held |-> Held(Listing[n]),
                      placement |-> Placement(Listing[n])]]
  BY DEF Snapshot, Listing
<1> QED
  BY <1>2, <1>3, <1>4, <1>5

(* Each item has its type. *)
LEMMA ItemType ==
    ASSUME StoredType, NEW i \in Inputs
    PROVE  [id |-> i, delivery |-> Intent(i), held |-> Held(i), placement |-> Placement(i)] \in Items
<1>1. Intent(i) \in Turns
  BY DEF Intent, StoredType, QueueType
<1>2. Held(i) \in BOOLEAN
  BY DEF Held
<1>3. Placement(i) \in {"queued", "steering", "transcript"}
  BY DEF Placement
<1> QED
  BY <1>1, <1>2, <1>3 DEF Items

(* ... and of what a client read. *)
LEMMA ViewNext == InputInv /\ Types /\ Next => ViewType'
<1> SUFFICES ASSUME InputInv, Types, Next PROVE ViewType'
  OBVIOUS
<1>0. Effects /\ ViewType /\ StoredType
  BY StepEffects DEF Types
<1>1. CASE view' = view
  BY <1>0, <1>1 DEF ViewType
<1>2. CASE view' = Stale
  BY <1>2 DEF Stale, ViewType
<1>3. CASE view' = [fresh |-> TRUE, items |-> Snapshot]
  <2> DEFINE N == Cardinality(PendingComposers)
             F(n) == [id |-> Listing[n], delivery |-> Intent(Listing[n]), held |-> Held(Listing[n]),
                      placement |-> Placement(Listing[n])]
  <2>1. N \in Nat /\ Snapshot = [n \in 1..N |-> F(n)]
    BY <1>0, SnapshotIs
  <2>2. \A n \in 1..N : Listing[n] \in Inputs
    <3>1. Enumerates(Listing, N, PendingComposers)
      BY <1>0, SnapshotIs
    <3> QED
      BY <3>1, PendingAccepted DEF Enumerates, PendingComposers
  <2>3. \A n \in 1..N : F(n) \in Items
    BY <1>0, <2>2, ItemType
  <2> HIDE DEF N, F
  <2>4. Snapshot \in Seq(Items)
    BY <2>1, <2>3
  <2> QED
    BY <1>3, <2>4 DEF ViewType
<1> QED
  BY <1>0, <1>1, <1>2, <1>3 DEF Effects, ViewEffect

(* Every step keeps all types. *)
LEMMA TypesNext == InputInv /\ InputInv' /\ Types /\ [Next]_vars => Types'
<1> SUFFICES ASSUME InputInv, InputInv', Types, [Next]_vars PROVE Types'
  OBVIOUS
<1>1. CASE Next
  BY <1>1, StoredNext, SessionNext, DrainNext, ViewNext DEF Types
<1>2. CASE UNCHANGED vars
  BY <1>2 DEF vars, stored, session, tasks, history, Types, StoredType, SessionType, DrainType, ViewType, Accepted, QueueType
<1> QED
  BY <1>1, <1>2

(***************************************************************************)
(* Every variable keeps its type; in particular the drain only ever works  *)
(* on inputs that were accepted, and what it prepares or delivers exists.  *)
(***************************************************************************)
THEOREM InputTypes == Spec => []TypeOK
BY InputInit, InputStep, TypesInit, TypesNext, TypesGiveTypeOK, PTL DEF Spec

(***************************************************************************)
(* The input shown as starting next is the one the drain would take first, *)
(* although the two are computed apart.                                    *)
(***************************************************************************)
THEOREM ShownIsNext == Spec => []PresentationMatchesDispatch
<1>1. InputInv /\ Types => PresentationMatchesDispatch
  <2> SUFFICES ASSUME InputInv, Types PROVE PresentationMatchesDispatch
    OBVIOUS
  <2>1. QueueShape /\ Eligible(0) \in SUBSET Inputs
    BY Shapely, PendingAccepted DEF Types, Eligible
  <2>2. CASE Eligible(0) = {}
    BY <2>1, <2>2, SortedNothing DEF PresentationMatchesDispatch, FirstEligibleRoot, DispatchOrder
  <2>3. CASE Eligible(0) # {}
    <3>1. /\ Sorted(Eligible(0))[1] = RootOf(Eligible(0)) /\ Sorted(Eligible(0)) \in Seq(Eligible(0))
          /\ Len(Sorted(Eligible(0))) = Cardinality(Eligible(0))
      BY <2>1, <2>3, SortedHead
    <3>2. Cardinality(Eligible(0)) # 0
      BY <2>1, <2>3, InputsFinite, FS_EmptySet
    <3>3. DispatchOrder(0) # << >> /\ Head(DispatchOrder(0)) = RootOf(Eligible(0))
      BY <3>1, <3>2 DEF DispatchOrder
    <3>4. FirstEligibleRoot = RootOf(Eligible(0))
      BY <2>3 DEF FirstEligibleRoot, RootOf
    <3> QED
      BY <3>3, <3>4 DEF PresentationMatchesDispatch
  <2> QED
    BY <2>2, <2>3
<1> QED
  BY <1>1, InputInit, InputStep, TypesInit, TypesNext, PTL DEF Spec


-----------------------------------------------------------------------------
(* No composer input is stranded *)

(***************************************************************************)
(* The drain task owns the session from its start to the delivery of the   *)
(* Turn it claimed: no runtime, no unsettled effect, and no other Turn.    *)
(***************************************************************************)
TaskInv ==
    /\ drain.phase = "idle" => drain = Idle
    /\ drain.phase # "idle" => ~busy /\ ~unsettled
    /\ drain.phase \in {"select", "prepare"} => head = Ready
    /\ drain.phase = "deliver" => head = Ready \/ head = [status |-> "running", turn |-> Head(drain.batch)]

(* No drain runs at first, ... *)
LEMMA TaskInit == Init => TaskInv
BY DEF Init, TaskInv, Idle

(* ... and none loses the session to anyone else. *)
LEMMA TaskNext == Types /\ TaskInv /\ [Next]_vars => TaskInv'
<1> SUFFICES ASSUME Types, TaskInv, [Next]_vars PROVE TaskInv'
  OBVIOUS
<1>0. /\ drain.phase \in {"idle", "select", "prepare", "deliver"} /\ Ready.turn = 0
      /\ head.turn # 0 => drain.phase \in {"idle", "deliver"}
      /\ Idle.phase = "idle"
  BY DEF Types, DrainType, TaskInv, Ready, Idle
<1>1. CASE UNCHANGED <<drain, head, busy, unsettled>>
  BY <1>1 DEF TaskInv
<1>2. CASE drain' = Idle
  BY <1>2 DEF TaskInv, Idle
<1>3. CASE UNCHANGED <<drain, busy, unsettled>> /\ head' = Ready /\ head.turn # 0
  BY <1>0, <1>3 DEF TaskInv
<1>4. CASE drain' = drain /\ drain.phase = "idle"
  BY <1>4 DEF TaskInv
<1>5. ASSUME Commands \/ \E s \in Sources, t \in Turns : Accept(s, t) PROVE TaskInv'
  <2>1. UNCHANGED <<session, drain>>
    BY <1>5 DEF Commands, Remove, Promote, Replace, Reorder, ClearQueue, Pause, Resume, Changed, Accept
  <2> QED
    BY <1>1, <2>1 DEF session
<1>6. CASE Controls
  <2>1. ASSUME NEW i \in Inputs, Replay(i) \/ StopInput(i) \/ WithdrawRobot(i) PROVE TaskInv'
    <3>1. UNCHANGED <<drain, session>>
      BY <2>1 DEF Replay, StopInput, WithdrawRobot, NoTask, tasks
    <3> QED
      BY <1>1, <3>1 DEF session
  <2>2. CASE StopTurn \/ CancelTurn
    BY <1>3, <2>2 DEF StopTurn, CancelTurn
  <2>3. CASE ClearContext
    <3>1. drain' = Idle
      BY <2>3 DEF ClearContext, tasks
    <3> QED
      BY <1>2, <3>1
  <2>4. CASE ReadQueue
    BY <1>1, <2>4 DEF ReadQueue, tasks, session
  <2>5. CASE Reconcile \/ Restart
    BY <1>2, <2>5 DEF Reconcile, Restart
  <2> QED
    BY <1>6, <2>1, <2>2, <2>3, <2>4, <2>5 DEF Controls
<1>7. CASE Runtime
  <2>1. ASSUME NEW i \in Inputs, Steer(i) \/ SteerBlocked(i) PROVE TaskInv'
    BY <1>1, <2>1 DEF Steer, SteerBlocked, tasks
  <2>2. CASE EndTurn \/ TurnResumes
    <3>1. drain' = drain /\ drain.phase = "idle"
      BY <1>0, <2>2 DEF EndTurn, TurnResumes, tasks
    <3> QED
      BY <1>4, <3>1
  <2>3. CASE RelayReleases \/ TurnPauses \/ EffectUncertain
    <3>1. drain' = drain /\ drain.phase = "idle"
      BY <2>3 DEF RelayReleases, TurnPauses, EffectUncertain, tasks, TaskInv
    <3> QED
      BY <1>4, <3>1
  <2> QED
    BY <1>7, <2>1, <2>2, <2>3 DEF Runtime
<1>8. CASE Drain
  <2>1. CASE DrainStart \/ DrainRetry
    <3>1. UNCHANGED <<head, busy, unsettled>>
      BY <2>1 DEF DrainStart, DrainRetry, session
    <3>2. drain' = Idle \/ (drain'.phase = "select" /\ DrainReady)
      BY <2>1 DEF DrainStart, DrainRetry, Reading
    <3>3. CASE drain'.phase = "select" /\ DrainReady
      BY <3>1, <3>3 DEF TaskInv, DrainReady
    <3> QED
      BY <1>2, <3>2, <3>3
  <2>2. CASE DrainSelect \/ PrepareFails
    <3>1. UNCHANGED <<head, busy, unsettled>> /\ drain.phase \in {"select", "prepare"}
      BY <2>2 DEF DrainSelect, PrepareFails, session
    <3>2. drain' = Idle \/ drain'.phase \in {"select", "prepare"}
      BY <2>2 DEF DrainSelect, PrepareFails, Drop, Types, DrainType
    <3>3. CASE drain'.phase \in {"select", "prepare"}
      BY <3>1, <3>3 DEF TaskInv
    <3> QED
      BY <1>2, <3>2, <3>3
  <2>3. CASE PrepareStopped \/ ClaimRefused \/ Delivered
    BY <1>2, <2>3 DEF PrepareStopped, ClaimRefused, Delivered
  <2>6. CASE StartFails \/ BatchEnds \/ DrainFails \/ DeliveryErrs
    BY <1>2, <2>6 DEF StartFails, BatchEnds, DrainFails, DeliveryErrs, GivesUp
  <2>4. CASE ClaimRoot
    <3>1. drain' = [drain EXCEPT !.phase = "deliver"] /\ UNCHANGED <<busy, unsettled>> /\ drain.phase = "prepare"
          /\ head' = [status |-> "running", turn |-> Head(drain.batch)]
      BY <2>4 DEF ClaimRoot
    <3>2. drain'.phase = "deliver" /\ drain'.batch = drain.batch
      BY <3>1 DEF Types, DrainType
    <3> QED
      BY <3>1, <3>2 DEF TaskInv
  <2>5. CASE DeliveryFails
    <3>1. drain.phase = "deliver" /\ drain'.phase = "select" /\ UNCHANGED <<busy, unsettled>>
          /\ head' = IF head.turn = Head(drain.batch) THEN Ready ELSE head
      BY <2>5 DEF DeliveryFails, Drop
    <3>2. head' = Ready
      BY <3>1 DEF TaskInv
    <3> QED
      BY <3>1, <3>2 DEF TaskInv
  <2> QED
    BY <1>8, <2>1, <2>2, <2>3, <2>4, <2>5, <2>6 DEF Drain
<1>9. CASE UNCHANGED vars
  BY <1>1, <1>9 DEF vars, session, tasks
<1> QED
  BY <1>5, <1>6, <1>7, <1>8, <1>9 DEF Next

(***************************************************************************)
(* What the drain still has to offer: a batch that has exactly the         *)
(* members of E and in which the composers' order is still the user's.     *)
(***************************************************************************)
Waits == {i \in Eligible(0) : Composer(i)}
Rest == IF drain.phase = "deliver" THEN Tail(drain.batch) ELSE drain.batch
Fresh(E, b) ==
    /\ Enumerates(b, Len(b), E)
    /\ \A m, n \in 1..Len(b) : m < n /\ Composer(b[m]) /\ Composer(b[n]) => ByUser(b[m], b[n])
    /\ \A m, n \in 1..Len(b) :
          m < n /\ Composer(b[m]) /\ ~Composer(b[n]) =>
              \E k \in m..Len(b) : Composer(b[k]) /\ ByPosition(b[k], b[n])

\* What the drain reads is fresh, ...
LEMMA FreshStart == InputInv /\ StoredType => Fresh(Eligible(0), DispatchOrder(0))
<1> SUFFICES ASSUME InputInv, StoredType PROVE Fresh(Eligible(0), DispatchOrder(0))
  OBVIOUS
<1> DEFINE S == Eligible(0)
           q == Sorted(S)
<1>1. S \in SUBSET Inputs /\ QueueShape
  BY PendingAccepted, Shapely DEF Eligible
<1>2. WellSorted(S, q) /\ Len(q) = Cardinality(S)
  BY <1>1, SortedWell, SortedSeq
<1> HIDE DEF S, q
<1>3. Fresh(S, q)
  BY <1>2 DEF WellSorted, Fresh
<1> QED
  BY <1>3 DEF S, q, DispatchOrder

\* ... stays so when its first input is taken, ...
LEMMA FreshTail ==
    ASSUME NEW E, NEW b \in Seq(Nat), b # << >>, Fresh(E, b)
    PROVE  Head(b) \in E /\ Fresh(E \ {Head(b)}, Tail(b))
<1> DEFINE t == Tail(b)
           N == Len(b)
<1>1. N \in Nat /\ N # 0 /\ Head(b) = b[1] /\ 1 \in 1..N
  OBVIOUS
<1>2. t \in Seq(Nat) /\ Len(t) = N - 1 /\ \A n \in 1..(N - 1) : t[n] = b[n + 1] /\ n + 1 \in 1..N
  OBVIOUS
<1>3. Enumerates(b, N, E)
  BY DEF Fresh
<1> HIDE DEF t
<1>4. Head(b) \in E
  BY <1>1, <1>3 DEF Enumerates
<1>5. \A n \in 1..(N - 1) : t[n] \in E \ {Head(b)}
  <2> SUFFICES ASSUME NEW n \in 1..(N - 1) PROVE t[n] \in E /\ t[n] # b[1]
    BY <1>1
  <2>1. n + 1 # 1 /\ t[n] = b[n + 1] /\ n + 1 \in 1..N
    BY <1>2
  <2> QED
    BY <1>1, <1>3, <2>1 DEF Enumerates
<1>6. ASSUME NEW i \in E \ {Head(b)} PROVE \E n \in 1..(N - 1) : t[n] = i
  <2>1. PICK n \in 1..N : b[n] = i
    BY <1>3 DEF Enumerates
  <2>2. n # 1 /\ n - 1 \in 1..(N - 1) /\ (n - 1) + 1 = n
    BY <1>1, <2>1
  <2>3. t[n - 1] = i
    BY <1>2, <2>1, <2>2
  <2> QED
    BY <2>2, <2>3
<1>7. ASSUME NEW m \in 1..(N - 1), NEW n \in 1..(N - 1), t[m] = t[n] PROVE m = n
  <2>1. m + 1 \in 1..N /\ n + 1 \in 1..N /\ b[m + 1] = b[n + 1]
    BY <1>2, <1>7
  <2>2. m + 1 = n + 1
    BY <1>3, <2>1 DEF Enumerates
  <2> QED
    BY <1>1, <2>2
<1>8. Enumerates(t, N - 1, E \ {Head(b)})
  <2>1. t \in [1..(N - 1) -> E \ {Head(b)}]
    <3>1. DOMAIN t = 1..(N - 1) /\ t = [n \in 1..(N - 1) |-> t[n]]
      BY <1>1, <1>2
    <3> QED
      BY <1>5, <3>1
  <2> QED
    BY <1>6, <1>7, <2>1 DEF Enumerates
<1>9. ASSUME NEW m \in 1..(N - 1), NEW n \in 1..(N - 1), m < n, Composer(t[m]), Composer(t[n])
      PROVE  ByUser(t[m], t[n])
  <2>1. m + 1 < n + 1
    BY <1>1, <1>9
  <2> QED
    BY <1>2, <1>9, <2>1 DEF Fresh
<1>10. ASSUME NEW m \in 1..(N - 1), NEW n \in 1..(N - 1), m < n, Composer(t[m]), ~Composer(t[n])
       PROVE  \E k \in m..(N - 1) : Composer(t[k]) /\ ByPosition(t[k], t[n])
  <2>1. m + 1 < n + 1
    BY <1>1, <1>10
  <2>2. PICK k \in (m + 1)..N : Composer(b[k]) /\ ByPosition(b[k], b[n + 1])
    BY <1>2, <1>10, <2>1 DEF Fresh
  <2>3. k - 1 \in m..(N - 1) /\ k - 1 \in 1..(N - 1) /\ (k - 1) + 1 = k
    BY <1>1, <2>2
  <2>4. t[k - 1] = b[k] /\ t[n] = b[n + 1]
    BY <1>2, <2>3
  <2> QED
    BY <2>2, <2>3, <2>4
<1>11. Fresh(E \ {Head(b)}, t)
  BY <1>2, <1>8, <1>9, <1>10 DEF Fresh
<1> QED
  BY <1>4, <1>11 DEF t

\* ... and the claim then finds nothing to refuse.
LEMMA FreshClaim ==
    ASSUME InputInv, StoredType, NEW b \in Seq(Nat), b # << >>, Fresh(Eligible(0), b), head = Ready, ~unsettled
    PROVE  Claimable(Head(b))
<1> DEFINE S == Eligible(0)
           N == Len(b)
           C == {i \in S : Composer(i)}
<1>0. QueueShape /\ S \in SUBSET Inputs /\ \A i \in S : fate[i] = "pending" /\ ~Held(i) /\ (i \notin blocked \/ i = 0)
  BY PendingAccepted, Shapely DEF Eligible, Pending
<1>1. Fresh(S, b)
  OBVIOUS
<1>2. N \in Nat /\ 1 \in 1..N /\ Head(b) = b[1]
  OBVIOUS
<1>3. PICK i \in S : i = b[1]
  BY <1>1, <1>2 DEF Fresh, Enumerates
<1>4. S \in SUBSET Inputs /\ S # {} /\ Enumerates(b, N, S) /\ i \notin blocked
  BY <1>0, <1>1, <1>3, InputAssumption DEF Fresh, Inputs
<1>5. Eligible(i) = S
  <2>1. \A j \in Pending : j # 0
    BY InputAssumption DEF Pending, Inputs
  <2> QED
    BY <1>4, <2>1 DEF Eligible
<1> HIDE DEF S, N
<1>6. ASSUME Composer(i) PROVE RootOf(S) = i
  <2>1. PICK f \in S : \A j \in S \ {f} : ByPosition(f, j)
    BY <1>0, <1>4, SomeFirst
  <2>2. Composer(f)
    <3> SUFFICES ASSUME ~Composer(f) PROVE FALSE
      OBVIOUS
    <3>1. PICK n \in 1..N : b[n] = f
      BY <1>4 DEF Enumerates
    <3>2. 1 < n
      BY <1>2, <1>3, <1>6, <3>1
    <3>3. PICK k \in 1..N : Composer(b[k]) /\ ByPosition(b[k], f)
      BY <1>1, <1>2, <1>3, <1>6, <3>1, <3>2 DEF Fresh, N
    <3>4. b[k] \in S /\ b[k] # f
      BY <1>4, <3>3 DEF Enumerates
    <3>5. ByPosition(f, b[k]) /\ PositionTotal
      BY <1>0, <2>1, <3>4, PositionOrders
    <3> QED
      BY <1>4, <3>3, <3>4, <3>5 DEF PositionTotal
  <2>3. Least(S, ByPosition) = f
    BY <1>0, <1>4, <2>1, LeastByPosition
  <2>4. ASSUME NEW j \in C \ {i} PROVE ByUser(i, j)
    <3>1. PICK n \in 1..N : b[n] = j
      BY <1>4 DEF Enumerates
    <3>2. 1 < n
      BY <1>2, <1>3, <2>4, <3>1
    <3> QED
      BY <1>1, <1>2, <1>3, <1>6, <2>4, <3>1, <3>2 DEF Fresh, N
  <2>5. i \in C /\ C \in SUBSET Inputs
    BY <1>4, <1>6
  <2>6. Least(C, ByUser) = i
    <3> HIDE DEF C
    <3> QED
      BY <1>0, <2>4, <2>5, LeastByUser
  <2> QED
    BY <2>2, <2>3, <2>6 DEF RootOf
<1>7. Head(DispatchOrder(i)) = Sorted(S)[1] /\ Sorted(S)[1] = RootOf(S)
  <2>1. /\ Sorted(S)[1] = RootOf(S) /\ Sorted(S) \in Seq(S) /\ Len(Sorted(S)) = Cardinality(S)
    BY <1>0, <1>4, SortedHead
  <2>2. Cardinality(S) # 0
    BY <1>4, InputsFinite, FS_EmptySet
  <2> QED
    BY <1>5, <2>1, <2>2 DEF DispatchOrder
<1>8. fate[i] = "pending" /\ ~Held(i)
  BY <1>0
<1> QED
  BY <1>2, <1>3, <1>6, <1>7, <1>8 DEF Claimable

AnyOf(S) == CHOOSE k \in S : TRUE

\* The order is made of the queue's permutation and positions alone.
LEMMA SameOrder ==
    ASSUME queue'.order = queue.order, queue'.position = queue.position
    PROVE  \A i, j : (ByPosition(i, j)' <=> ByPosition(i, j)) /\ (ByUser(i, j)' <=> ByUser(i, j))
<1>1. \A i, j : ByPosition(i, j)' <=> ByPosition(i, j)
  BY DEF ByPosition
<1>2. \A i : Places(i)' = Places(i)
  BY DEF Places
<1>3. ASSUME NEW i PROVE Rank(i)' = Rank(i)
  <2>1. Rank(i) = IF Places(i) = {} THEN MaxInputs + 1 ELSE AnyOf(Places(i))
    BY DEF Rank, AnyOf
  <2>2. Rank(i)' = IF Places(i)' = {} THEN MaxInputs + 1 ELSE AnyOf(Places(i)')
    BY DEF Rank, AnyOf
  <2> QED
    BY <1>2, <2>1, <2>2
<1>4. \A i, j : ByUser(i, j)' <=> ByUser(i, j)
  BY <1>1, <1>3 DEF ByUser
<1> QED
  BY <1>1, <1>4

(* A batch stays fresh while queue and sources do not change. *)
LEMMA FreshKept ==
    ASSUME queue' = queue, source' = source, NEW E, NEW b, Fresh(E, b)
    PROVE  Fresh(E, b)'
<1>1. \A i, j : (ByPosition(i, j)' <=> ByPosition(i, j)) /\ (ByUser(i, j)' <=> ByUser(i, j))
  BY SameOrder
<1>2. \A i : Composer(i)' <=> Composer(i)
  BY DEF Composer
<1> QED
  BY <1>1, <1>2 DEF Fresh

(***************************************************************************)
(* If no drain is scheduled and a composer input may start, then either    *)
(* the drain in progress still offers exactly the inputs that may start,   *)
(* in the user's order, or the session could start none, or a drain left   *)
(* all of them behind.                                                     *)
(***************************************************************************)
Offers == \A E \in {Eligible(0)}, b \in {Rest} : Fresh(E, b)
Served == IF drain.phase = "idle" THEN ~DrainReady ELSE Offers
CoverInv == wakes = 0 /\ Waits # {} => Waits \subseteq left \/ Served

(* Nothing waits at first, ... *)
LEMMA CoverInit == Init => CoverInv
<1> SUFFICES ASSUME Init PROVE Waits = {}
  BY DEF CoverInv
<1>1. Pending = {}
  BY DEF Init, Pending
<1> QED
  BY <1>1 DEF Waits, Eligible

\* The steps of the drain that leave the wakes alone.
LEMMA CoverDrain ==
    ASSUME InputInv, Types, TaskInv, CoverInv, Drain, ~DrainStart, ~StartFails, wakes' = 0, Waits' # {}
    PROVE  Waits' \subseteq left' \/ Served'
<1> DEFINE b == drain.batch
           i == Head(drain.batch)
<1>0. /\ wakes = 0 /\ UNCHANGED <<accepted, source, prefers, queue>>
      /\ drain.phase # "idle" => ~busy /\ ~unsettled
      /\ drain \in [phase : {"idle", "select", "prepare", "deliver"}, batch : Seq(Accepted), room : 0..BatchLimit]
      /\ StoredType
  BY DEF Drain, DrainRetry, DrainSelect, PrepareFails, PrepareStopped, ClaimRoot, ClaimRefused, Delivered,
         DeliveryFails, BatchEnds, DrainFails, DeliveryErrs, stored, tasks, TaskInv, Types, DrainType
<1>1. b \in Seq(Nat) /\ (drain.phase \in {"prepare", "deliver"} => b # << >>)
  <2>1. Accepted \subseteq Nat /\ drain.batch \in Seq(Accepted)
    BY <1>0, InputAssumption DEF Accepted, InputInv, Arrivals
  <2>2. b \in Seq(Nat)
    BY <2>1, SeqGrows
  <2> QED
    BY <2>2 DEF Types, DrainType
<1>a. \A j : (Held(j)' <=> Held(j)) /\ (Composer(j)' <=> Composer(j))
  BY <1>0 DEF Held, Composer
<1>c. Eligible(0)' \subseteq Eligible(0) /\ Waits' \subseteq Waits
  <2>1. ASSUME NEW j \in Inputs, fate'[j] = "pending", j \notin blocked' PROVE fate[j] = "pending" /\ j \notin blocked
    <3>1. CASE UNCHANGED <<fate, blocked>>
      BY <2>1, <3>1
    <3>2. CASE PrepareFails
      BY <2>1, <3>2 DEF PrepareFails
    <3>3. CASE ClaimRoot
      <4>1. blocked' = blocked /\ fate' = [fate EXCEPT ![i] = "turn"] /\ DOMAIN fate = Inputs
        BY <3>3 DEF ClaimRoot, InputInv, Arrivals
      <4>2. j # i
        BY <2>1, <4>1
      <4> QED
        BY <2>1, <4>1, <4>2
    <3> QED
      BY <3>1, <3>2, <3>3 DEF Drain, DrainRetry, DrainSelect, PrepareStopped, ClaimRefused, Delivered, DeliveryFails,
                              BatchEnds, DrainFails, DeliveryErrs, stored
  <2>2. \A j \in Inputs : j # 0
    BY InputAssumption DEF Inputs
  <2>3. Eligible(0)' \subseteq Eligible(0)
    BY <1>a, <2>1, <2>2 DEF Eligible, Pending
  <2> QED
    BY <1>a, <2>3 DEF Waits
<1>d. left \subseteq left'
  BY DEF Drain, DrainRetry, DrainSelect, PrepareFails, PrepareStopped, ClaimRoot, ClaimRefused, Delivered,
         DeliveryFails, BatchEnds, DrainFails, DeliveryErrs, GivesUp
<1>e. CASE Waits \subseteq left
  BY <1>c, <1>d, <1>e
<1> SUFFICES ASSUME ~(Waits \subseteq left) PROVE Waits' \subseteq left' \/ Served'
  BY <1>e
<1>2. ASSUME UNCHANGED <<fate, blocked>> PROVE Eligible(0)' = Eligible(0) /\ Waits # {}
  <2>1. Eligible(0)' = Eligible(0)
    BY <1>a, <1>2 DEF Eligible, Pending
  <2> QED
    BY <1>a, <2>1 DEF Waits
<1>3. ASSUME Waits # {}, drain.phase # "idle" PROVE Fresh(Eligible(0), Rest)
  BY <1>0, <1>3 DEF CoverInv, Served, Offers
<1>4. ASSUME Waits # {}, drain.phase \in {"select", "prepare"}
      PROVE  Fresh(Eligible(0), b) /\ b # << >> /\ fate[i] = "pending" /\ i \in Eligible(0) /\ i \in Inputs
             /\ Fresh(Eligible(0) \ {i}, Tail(b)) /\ Claimable(i)
  <2>1. Fresh(Eligible(0), b)
    BY <1>3, <1>4 DEF Rest
  <2>2. b # << >>
    BY <1>4, <2>1 DEF Fresh, Enumerates, Waits
  <2>3. i \in Eligible(0) /\ Fresh(Eligible(0) \ {i}, Tail(b))
    BY <1>1, <2>1, <2>2, FreshTail
  <2>4. head = Ready /\ ~unsettled
    BY <1>4 DEF TaskInv
  <2>5. Claimable(i)
    BY <1>0, <1>1, <2>1, <2>2, <2>4, FreshClaim
  <2> QED
    BY <2>1, <2>2, <2>3, <2>5 DEF Eligible, Pending
<1> HIDE DEF i
<1>b. ASSUME NEW E, NEW c, Fresh(E, c), Eligible(0)' = E, Rest' = c PROVE Offers'
  <2>1. Fresh(E, c)'
    BY <1>0, <1>b, FreshKept
  <2> QED
    BY <1>b, <2>1 DEF Offers
<1>5. CASE DrainRetry
  <2>1. drain = Idle /\ UNCHANGED <<fate, blocked, head, unsettled, busy>>
    BY <1>5 DEF DrainRetry, stored
  <2>2. ~DrainReady
    BY <1>0, <1>2, <2>1 DEF CoverInv, Served, Idle
  <2>3. drain' = Idle
    BY <1>5, <2>2 DEF DrainRetry
  <2> QED
    BY <2>1, <2>2, <2>3 DEF Idle, DrainReady, Served
<1>6. CASE DrainSelect
  <2>1. drain.phase = "select" /\ UNCHANGED <<fate, blocked>>
    BY <1>6 DEF DrainSelect, stored
  <2>2. Waits # {} /\ Eligible(0)' = Eligible(0)
    BY <1>2, <2>1
  <2>3. Fresh(Eligible(0), b) /\ b # << >> /\ fate[i] = "pending"
    BY <1>4, <2>1, <2>2
  <2>4. drain' = [drain EXCEPT !.phase = "prepare"]
    BY <1>6, <2>3 DEF DrainSelect, i
  <2>5. drain'.phase = "prepare" /\ Rest' = b
    BY <1>0, <2>4 DEF Rest
  <2> QED
    BY <1>b, <2>2, <2>3, <2>5 DEF Served
<1>7. CASE PrepareFails
  <2>1. /\ drain.phase = "prepare" /\ drain' = Drop /\ fate' = fate
        /\ blocked' = IF fate[i] = "pending" THEN blocked \cup {i} ELSE blocked
    BY <1>7 DEF PrepareFails, i
  <2>2. Eligible(0)' \subseteq Eligible(0) /\ \A j \in Eligible(0) : j \notin Eligible(0)' => j = i
    <3>1. \A j \in Pending : j # 0
      BY InputAssumption DEF Pending, Inputs
    <3> QED
      BY <1>a, <2>1, <3>1 DEF Eligible, Pending
  <2>3. Waits # {}
    BY <1>a, <2>2 DEF Waits
  <2>4. fate[i] = "pending" /\ i \in Eligible(0) /\ i \in Inputs /\ Fresh(Eligible(0) \ {i}, Tail(b))
    BY <1>4, <2>1, <2>3
  <2>5. Eligible(0)' = Eligible(0) \ {i}
    <3>1. i \notin Eligible(0)'
      BY <2>1, <2>4, InputAssumption DEF Eligible, Inputs
    <3> QED
      BY <2>2, <3>1
  <2>6. drain'.phase = "select" /\ Rest' = Tail(b)
    BY <2>1 DEF Drop, Rest
  <2> QED
    BY <1>b, <2>4, <2>5, <2>6 DEF Served
<1>8. CASE ClaimRoot
  <2>1. /\ drain.phase = "prepare" /\ drain' = [drain EXCEPT !.phase = "deliver"]
        /\ fate' = [fate EXCEPT ![i] = "turn"] /\ blocked' = blocked
    BY <1>8 DEF ClaimRoot, i
  <2>a. DOMAIN fate = Inputs
    BY DEF InputInv, Arrivals
  <2>2. Eligible(0)' \subseteq Eligible(0) /\ \A j \in Eligible(0) : j \notin Eligible(0)' => j = i
    BY <1>a, <2>1, <2>a DEF Eligible, Pending
  <2>3. Waits # {}
    BY <1>a, <2>2 DEF Waits
  <2>4. i \in Eligible(0) /\ i \in Inputs /\ Fresh(Eligible(0) \ {i}, Tail(b))
    BY <1>4, <2>1, <2>3
  <2>5. Eligible(0)' = Eligible(0) \ {i}
    <3>1. i \notin Eligible(0)'
      BY <2>1, <2>4, <2>a DEF Eligible, Pending
    <3> QED
      BY <2>2, <3>1
  <2>6. drain'.phase = "deliver" /\ Rest' = Tail(b)
    BY <1>0, <2>1 DEF Rest
  <2> QED
    BY <1>b, <2>4, <2>5, <2>6 DEF Served
<1>9. CASE PrepareStopped \/ ClaimRefused
  <2>1. drain.phase = "prepare" /\ UNCHANGED <<fate, blocked>> /\ (fate[i] = "cancelled" \/ ~Claimable(i))
    BY <1>9 DEF PrepareStopped, ClaimRefused, stored, i
  <2>2. fate[i] = "pending" /\ Claimable(i)
    BY <1>2, <1>4, <2>1
  <2> QED
    BY <2>1, <2>2
<1>10. CASE Delivered
  BY <1>10 DEF Delivered, Idle, DrainReady, Served
<1>11. CASE DeliveryFails
  <2>1. drain.phase = "deliver" /\ UNCHANGED <<fate, blocked>> /\ drain' = Drop
    BY <1>11 DEF DeliveryFails, stored
  <2>2. Waits # {} /\ Eligible(0)' = Eligible(0)
    BY <1>2, <2>1
  <2>3. Fresh(Eligible(0), Tail(b))
    BY <1>3, <2>1, <2>2 DEF Rest
  <2>4. drain'.phase = "select" /\ Rest' = Tail(b)
    BY <2>1 DEF Drop, Rest
  <2> QED
    BY <1>b, <2>2, <2>3, <2>4 DEF Served
<1>f. ASSUME NEW E, NEW c, Fresh(E, c) PROVE E \subseteq Members(c)
  <2>1. Enumerates(c, Len(c), E)
    BY <1>f DEF Fresh
  <2> QED
    BY <2>1 DEF Enumerates, Members
<1>12. CASE BatchEnds \/ DrainFails
  <2>1. drain.phase \in {"select", "prepare"} /\ UNCHANGED <<fate, blocked>> /\ left' = left \cup Members(b)
    BY <1>12 DEF BatchEnds, DrainFails, GivesUp, stored
  <2>2. Eligible(0) \subseteq Members(b) /\ Eligible(0)' = Eligible(0)
    BY <1>2, <1>4, <1>f, <2>1
  <2> QED
    BY <2>1, <2>2 DEF Waits
<1>13. CASE DeliveryErrs
  <2>1. drain.phase = "deliver" /\ UNCHANGED <<fate, blocked>> /\ left' = left \cup Members(Tail(b))
    BY <1>13 DEF DeliveryErrs, GivesUp, stored
  <2>2. Waits # {} /\ Eligible(0)' = Eligible(0)
    BY <1>2, <2>1
  <2>3. Fresh(Eligible(0), Tail(b))
    BY <1>3, <2>1, <2>2 DEF Rest
  <2>4. Eligible(0) \subseteq Members(Tail(b))
    BY <1>f, <2>3
  <2> QED
    BY <2>1, <2>2, <2>4 DEF Waits
<1> QED
  BY <1>5, <1>6, <1>7, <1>8, <1>9, <1>10, <1>11, <1>12, <1>13 DEF Drain

(* ... and no step leaves a composer uncovered. *)
LEMMA CoverNext == InputInv /\ Types /\ TaskInv /\ CoverInv /\ [Next]_vars => CoverInv'
<1> SUFFICES ASSUME InputInv, Types, TaskInv, CoverInv, [Next]_vars, wakes' = 0, Waits' # {}
             PROVE  Waits' \subseteq left' \/ Served'
  BY DEF CoverInv
<1>0. /\ wakes \in Nat /\ wakes' # wakes + 1 /\ ~Wake
      /\ busy => drain.phase = "idle"
      /\ head.turn # 0 => drain.phase \in {"idle", "deliver"}
  BY DEF Types, SessionType, Wake, TaskInv, DrainType, Ready
<1>1. ASSUME UNCHANGED <<stored, head, unsettled, busy, drain, left>>, wakes = 0
      PROVE  Waits' \subseteq left' \/ Served'
  <2>1. \A j : (Held(j)' <=> Held(j)) /\ (Composer(j)' <=> Composer(j))
    BY <1>1 DEF stored, Held, Composer
  <2>2. Eligible(0)' = Eligible(0) /\ Waits' = Waits
    BY <1>1, <2>1 DEF stored, Eligible, Waits, Pending
  <2>3. CASE drain.phase = "idle"
    BY <1>1, <2>2, <2>3 DEF CoverInv, Served, DrainReady
  <2>5. CASE Waits \subseteq left
    BY <1>1, <2>2, <2>5
  <2>4. CASE drain.phase # "idle" /\ ~(Waits \subseteq left)
    <3>1. Fresh(Eligible(0), Rest)
      BY <1>1, <2>2, <2>4 DEF CoverInv, Served, Offers
    <3>2. PICK E, c : E = Eligible(0) /\ c = Rest
      OBVIOUS
    <3>3. Fresh(E, c)'
      BY <1>1, <3>1, <3>2, FreshKept DEF stored
    <3>4. Rest' = c /\ Eligible(0)' = E
      BY <1>1, <2>2, <3>2 DEF Rest
    <3> QED
      BY <1>1, <2>4, <3>3, <3>4 DEF Served, Offers
  <2> QED
    BY <2>3, <2>4, <2>5
<1>2. CASE Commands \/ \E s \in Sources, t \in Turns : Accept(s, t)
  BY <1>0, <1>2 DEF Commands, Remove, Promote, Replace, Reorder, ClearQueue, Pause, Resume, Changed, Accept
<1>3. CASE Controls
  <2>1. ASSUME NEW i \in Inputs, Replay(i) PROVE Waits' \subseteq left' \/ Served'
    BY <1>1, <2>1 DEF Replay, session
  <2>2. ASSUME NEW i \in Inputs, StopInput(i) PROVE FALSE
    <3>1. queue' = HeldForStop /\ UNCHANGED <<accepted, source>> /\ fate' = Cancelled({i})
      BY <2>2 DEF StopInput
    <3>2. queue'.heldThrough = accepted /\ queue'.released = {}
      BY <3>1 DEF HeldForStop, InputInv, Named
    <3>3. Pending' \subseteq Pending
      BY <3>1 DEF Pending, Cancelled
    <3>4. \A j \in Pending' : j <= queue'.heldThrough
      BY <3>2, <3>3, PendingAccepted, InputAssumption DEF Accepted, InputInv, Arrivals
    <3>5. \A j \in Pending' : Composer(j)' => Held(j)'
      BY <3>2, <3>4 DEF Held, Composer
    <3> QED
      BY <3>5 DEF Waits, Eligible
  <2>3. ASSUME NEW i \in Inputs, WithdrawRobot(i)
        PROVE  Waits' \subseteq left' \/ Served'
    <3>1. drain = Idle /\ UNCHANGED <<source, queue, blocked, session, tasks>> /\ fate' = Cancelled({i})
      BY <2>3 DEF WithdrawRobot
    <3>2. \A j : (Held(j)' <=> Held(j)) /\ (Composer(j)' <=> Composer(j))
      BY <3>1 DEF Held, Composer
    <3>3. Waits' \subseteq Waits
      BY <3>1, <3>2 DEF Waits, Eligible, Pending, Cancelled
    <3> QED
      BY <3>1, <3>3 DEF session, tasks, CoverInv, Served, Idle, DrainReady
  <2>4. CASE StopTurn \/ CancelTurn \/ Reconcile \/ Restart
    BY <1>0, <2>4 DEF StopTurn, CancelTurn, Reconcile, Restart
  <2>5. CASE ClearContext
    <3>1. fate' = [i \in Inputs |-> IF i \in Pending THEN "discarded" ELSE fate[i]]
      BY <2>5 DEF ClearContext
    <3>2. Pending' = {}
      BY <3>1 DEF Pending
    <3> QED
      BY <3>2 DEF Waits, Eligible
  <2>6. CASE ReadQueue
    BY <1>1, <2>6 DEF ReadQueue, session, tasks
  <2> QED
    BY <1>3, <2>1, <2>2, <2>3, <2>4, <2>5, <2>6 DEF Controls
<1>4. CASE Runtime
  <2>1. ASSUME drain' = drain, drain.phase = "idle", busy' = TRUE
        PROVE  Waits' \subseteq left' \/ Served'
    BY <2>1 DEF DrainReady, Served
  <2>2. ASSUME NEW i \in Inputs, Steer(i) \/ SteerBlocked(i) PROVE drain' = drain /\ drain.phase = "idle" /\ busy' = TRUE
    BY <1>0, <2>2 DEF Steer, SteerBlocked, Steerable, tasks, Types, SessionType
  <2>3. CASE EndTurn \/ TurnPauses \/ EffectUncertain \/ TurnResumes
    <3>1. drain' = drain /\ drain.phase = "idle" /\ busy' = TRUE
      BY <1>0, <2>3 DEF EndTurn, TurnPauses, EffectUncertain, TurnResumes, tasks, Types, SessionType
    <3> QED
      BY <2>1, <3>1
  <2>4. CASE RelayReleases
    BY <1>0, <2>4 DEF RelayReleases
  <2> QED
    BY <1>4, <2>1, <2>2, <2>3, <2>4 DEF Runtime
<1>5. CASE DrainStart
  <2>1. /\ UNCHANGED <<stored, session>>
        /\ drain' = IF DrainReady THEN Reading(0) ELSE Idle
    BY <1>5 DEF DrainStart
  <2>2. CASE ~DrainReady
    BY <2>1, <2>2 DEF Idle, DrainReady, session, Served
  <2>3. CASE DrainReady
    <3>1. PICK E, c : E = Eligible(0) /\ c = DispatchOrder(0)
      OBVIOUS
    <3>2. Fresh(E, c)
      BY <3>1, FreshStart DEF Types
    <3>3. Fresh(E, c)'
      BY <2>1, <3>2, FreshKept DEF stored
    <3>4. \A j : Held(j)' <=> Held(j)
      BY <2>1 DEF stored, Held, Composer
    <3>5. Eligible(0)' = E
      BY <2>1, <3>1, <3>4 DEF stored, Eligible, Pending
    <3>6. drain'.phase = "select" /\ Rest' = c
      BY <2>1, <2>3, <3>1 DEF Rest, Reading
    <3> QED
      BY <3>3, <3>5, <3>6 DEF Served, Offers
  <2> QED
    BY <2>2, <2>3
<1>8. CASE StartFails
  <2>1. UNCHANGED stored /\ left' = left \cup Eligible(0)
    BY <1>8 DEF StartFails, GivesUp
  <2>2. \A j : (Held(j)' <=> Held(j)) /\ (Composer(j)' <=> Composer(j))
    BY <2>1 DEF stored, Held, Composer
  <2>3. Waits' \subseteq Eligible(0)
    BY <2>1, <2>2 DEF stored, Waits, Eligible, Pending
  <2> QED
    BY <2>1, <2>3
<1>6. CASE Drain /\ ~DrainStart /\ ~StartFails
  BY <1>6, CoverDrain
<1>7. CASE UNCHANGED vars
  BY <1>1, <1>7 DEF vars, session, tasks
<1> QED
  BY <1>2, <1>3, <1>4, <1>5, <1>6, <1>7, <1>8 DEF Next

(***************************************************************************)
(* A composer input that may start is never left without a drain that      *)
(* would start it: neither by a refused claim, nor by a batch read before  *)
(* a command, nor by a Turn that ends or a process that dies; only by a    *)
(* drain that ends with an error or has offered BatchLimit inputs before   *)
(* it, and until the next drain is scheduled.                              *)
(***************************************************************************)
THEOREM ComposersAreServed == Spec => []NoStrandedComposer
<1>1. Types /\ CoverInv => NoStrandedComposer
  BY DEF NoStrandedComposer, Quiet, CoverInv, Served, Waits, Idle
<1> QED
  BY <1>1, InputInit, InputStep, TypesInit, TypesNext, TaskInit, TaskNext, CoverInit, CoverNext, PTL DEF Spec

-----------------------------------------------------------------------------
(* The user's order *)

(***************************************************************************)
(* Positions never exceed an input's own number and tell pending inputs    *)
(* apart; the permutation names accepted inputs once each; the line of the *)
(* user has every waiting composer once, in the order the sort gives them. *)
(***************************************************************************)
Injective(s) == \A m, n \in 1..Len(s) : s[m] = s[n] => m = n
Positions ==
    /\ \A i \in Inputs : queue.position[i] <= i /\ (i > accepted => queue.position[i] = i)
    /\ \A i, j \in Pending : queue.position[i] = queue.position[j] => i = j
Permutes ==
    /\ Len(queue.order) <= accepted
    /\ Injective(queue.order)
    /\ \A n \in 1..Len(queue.order) : queue.order[n] <= accepted
Lined ==
    /\ Injective(line)
    /\ \A i \in PendingComposers : \E n \in 1..Len(line) : line[n] = i
    /\ \A m, n \in 1..Len(line), i, j \in PendingComposers :
          m < n /\ line[m] = i /\ line[n] = j => ByUser(i, j)
Orderly == Positions /\ Permutes /\ Lined

(* An empty queue is orderly. *)
LEMMA OrderlyInit == Init => Orderly
<1> SUFFICES ASSUME Init PROVE Orderly
  OBVIOUS
<1>1. Pending = {} /\ PendingComposers = {}
  BY DEF Init, Pending, PendingComposers
<1>2. queue.order = << >> /\ queue.position = [i \in Inputs |-> i] /\ line = << >> /\ accepted = 0
  BY DEF Init, EmptyQueue
<1>3. Positions
  BY <1>1, <1>2, InputAssumption DEF Positions, Inputs
<1>4. Permutes /\ Lined
  BY <1>1, <1>2 DEF Permutes, Lined, Injective
<1> QED
  BY <1>3, <1>4 DEF Orderly

\* The rank of an input is its place in the permutation.
RankIs ==
    \A i \in Inputs :
        /\ \A n \in 1..Len(queue.order) : queue.order[n] = i => Rank(i) = n
        /\ (\A n \in 1..Len(queue.order) : queue.order[n] # i) => Rank(i) = MaxInputs + 1
(* A permutation that names an input once ranks it there. *)
LEMMA RankAt == StoredType /\ Permutes => RankIs
<1> SUFFICES ASSUME StoredType, Permutes, NEW i \in Inputs
             PROVE  /\ \A n \in 1..Len(queue.order) : queue.order[n] = i => Rank(i) = n
                    /\ (\A n \in 1..Len(queue.order) : queue.order[n] # i) => Rank(i) = MaxInputs + 1
  BY DEF RankIs
<1>1. ASSUME NEW n \in 1..Len(queue.order), queue.order[n] = i PROVE Rank(i) = n
  <2>1. Places(i) = {n}
    BY <1>1 DEF Places, Permutes, Injective
  <2> QED
    BY <2>1 DEF Rank
<1>2. ASSUME \A n \in 1..Len(queue.order) : queue.order[n] # i PROVE Rank(i) = MaxInputs + 1
  BY <1>2 DEF Rank, Places
<1> QED
  BY <1>1, <1>2

\* A step that adds no input and leaves the order alone.
LEMMA OrderlyKept ==
    ASSUME Orderly, Pending' \subseteq Pending, queue'.order = queue.order, queue'.position = queue.position,
           UNCHANGED <<accepted, source, line>>
    PROVE  Orderly'
<1>1. PendingComposers' \subseteq PendingComposers
  BY DEF PendingComposers, Composer
<1>2. \A i, j : ByUser(i, j)' <=> ByUser(i, j)
  BY SameOrder
<1>3. Positions' /\ Permutes'
  BY DEF Orderly, Positions, Permutes, Injective
<1>4. Lined'
  BY <1>1, <1>2 DEF Orderly, Lined, Injective
<1> QED
  BY <1>3, <1>4 DEF Orderly

\* A new input is behind every other.
NewIsLast == \A i \in Inputs : i <= accepted => \A j \in Inputs : j = accepted + 1 => ByUser(i, j) /\ ByPosition(i, j)
(* It has the last position and no rank. *)
LEMMA LastAccepted == InputInv /\ StoredType /\ Positions /\ Permutes => NewIsLast
<1> SUFFICES ASSUME InputInv, StoredType, Positions, Permutes, NEW i \in Inputs, i <= accepted,
                    NEW j \in Inputs, j = accepted + 1
             PROVE  ByUser(i, j) /\ ByPosition(i, j)
  BY DEF NewIsLast
<1>1. /\ accepted \in 0..MaxInputs /\ MaxInputs \in Nat /\ i \in Nat /\ j \in Nat /\ i < j
      /\ queue.position[i] \in Nat /\ queue.position[j] = j /\ queue.position[i] <= i
      /\ queue.order \in Seq(Inputs)
  <2>1. /\ accepted \in 0..MaxInputs /\ MaxInputs \in Nat /\ \A k \in Inputs : k \in Nat
    BY InputAssumption DEF InputInv, Arrivals, Inputs
  <2>2. queue.position \in [Inputs -> Inputs] /\ queue.order \in Seq(Inputs)
    BY DEF StoredType, QueueType
  <2>a. queue.position[i] \in Inputs
    BY <2>2
  <2>b. i < j
    BY <2>1
  <2>3. queue.position[i] \in Nat /\ queue.position[i] <= i /\ i < j
    BY <2>1, <2>a, <2>b DEF Positions
  <2>4. queue.position[j] = j
    BY <2>1 DEF Positions
  <2> QED
    BY <2>1, <2>2, <2>3, <2>4
<1>2. ByPosition(i, j)
  BY <1>1 DEF ByPosition
<1>3. RankIs
  BY RankAt
<1>4. Rank(j) = MaxInputs + 1
  <2>1. \A n \in 1..Len(queue.order) : queue.order[n] # j
    BY <1>1 DEF Permutes
  <2> QED
    BY <1>3, <2>1 DEF RankIs
<1>5. Rank(i) \in Nat /\ Rank(i) <= MaxInputs + 1
  <2>1. CASE \A n \in 1..Len(queue.order) : queue.order[n] # i
    <3>1. Rank(i) = MaxInputs + 1
      BY <1>3, <2>1 DEF RankIs
    <3> QED
      BY <1>1, <3>1
  <2>2. ASSUME NEW n \in 1..Len(queue.order), queue.order[n] = i PROVE Rank(i) \in Nat /\ Rank(i) <= MaxInputs + 1
    <3>1. Rank(i) = n /\ Len(queue.order) \in Nat /\ Len(queue.order) <= accepted
      BY <1>1, <1>3, <2>2 DEF RankIs, Permutes
    <3> QED
      BY <1>1, <3>1
  <2> QED
    BY <2>1, <2>2
<1> QED
  BY <1>1, <1>2, <1>4, <1>5 DEF ByUser

(* An acceptance adds to the end of the line. *)
LEMMA OrderlyAccept ==
    ASSUME InputInv, StoredType, Orderly, NEW s \in Sources, NEW t \in Turns, Accept(s, t)
    PROVE  Orderly'
<1> DEFINE i == accepted + 1
<1>1. /\ accepted < MaxInputs /\ accepted' = i /\ source' = [source EXCEPT ![i] = s]
      /\ fate' = [fate EXCEPT ![i] = "pending"] /\ queue' = queue
      /\ line' = (IF s = "composer" THEN Append(line, i) ELSE line)
  BY DEF Accept
<1>2. /\ accepted \in Nat /\ accepted \in 0..MaxInputs /\ i \in Inputs /\ MaxInputs \in Nat /\ Inputs \subseteq Nat
      /\ DOMAIN fate = Inputs /\ DOMAIN source = Inputs /\ Pending \subseteq Accepted /\ Accepted \subseteq Inputs
      /\ queue.position \in [Inputs -> Inputs] /\ queue.order \in Seq(Inputs) /\ line \in Seq(Accepted)
  <2>1. accepted \in 0..MaxInputs /\ DOMAIN fate = Inputs /\ DOMAIN source = Inputs
    BY DEF InputInv, Arrivals
  <2>2. accepted \in Nat /\ i \in Inputs /\ MaxInputs \in Nat /\ Inputs \subseteq Nat
    BY <1>1, <2>1, InputAssumption DEF Inputs
  <2>3. Pending \subseteq Accepted /\ Accepted \subseteq Inputs
    BY PendingAccepted
  <2>4. queue.position \in [Inputs -> Inputs] /\ queue.order \in Seq(Inputs) /\ line \in Seq(Accepted)
    BY DEF StoredType, QueueType
  <2> QED
    BY <2>1, <2>2, <2>3, <2>4
<1>3. /\ Pending' = Pending \cup {i} /\ i \notin Pending
      /\ \A j \in Pending : j <= accepted /\ j \in Inputs
      /\ PendingComposers' = IF s = "composer" THEN PendingComposers \cup {i} ELSE PendingComposers
      /\ PendingComposers \subseteq Pending
  <2>1. Pending' = Pending \cup {i}
    BY <1>1, <1>2 DEF Pending
  <2>2. \A j \in Pending : j <= accepted /\ j \in Inputs /\ j # i
    BY <1>2 DEF Accepted
  <2>3. \A j \in Inputs : Composer(j)' <=> IF j = i THEN s = "composer" ELSE Composer(j)
    BY <1>1, <1>2 DEF Composer
  <2> QED
    BY <1>2, <2>1, <2>2, <2>3 DEF PendingComposers
<1> HIDE DEF i
<1>4. Positions'
  <2>1. \A j \in Inputs : queue'.position[j] <= j /\ (j > accepted' => queue'.position[j] = j)
    BY <1>1, <1>2 DEF Orderly, Positions, i
  <2>2. queue.position[i] = i /\ \A j \in Pending : queue.position[j] # i
    BY <1>1, <1>2, <1>3 DEF Orderly, Positions, i
  <2>3. \A j, k \in Pending' : queue'.position[j] = queue'.position[k] => j = k
    BY <1>1, <1>3, <2>2 DEF Orderly, Positions
  <2> QED
    BY <2>1, <2>3 DEF Positions
<1>5. Permutes'
  <2>1. /\ Len(queue.order) \in Nat /\ Len(queue.order) <= accepted /\ Injective(queue.order)
        /\ \A n \in 1..Len(queue.order) : queue.order[n] \in Nat /\ queue.order[n] <= accepted
    <3>1. Len(queue.order) \in Nat /\ \A n \in 1..Len(queue.order) : queue.order[n] \in Inputs
      BY <1>2
    <3>2. \A n \in 1..Len(queue.order) : queue.order[n] \in Nat
      BY <1>2, <3>1
    <3> QED
      BY <3>1, <3>2 DEF Orderly, Permutes
  <2>2. accepted' = accepted + 1 /\ accepted \in Nat /\ queue' = queue
    BY <1>1, <1>2 DEF i
  <2>3. Len(queue.order) <= accepted' /\ \A n \in 1..Len(queue.order) : queue.order[n] <= accepted'
    BY <2>1, <2>2
  <2> QED
    BY <2>1, <2>2, <2>3 DEF Permutes
<1>6. Lined'
  <2>1. \A j, k : ByUser(j, k)' <=> ByUser(j, k)
    BY <1>1, SameOrder
  <2>2. CASE s # "composer"
    BY <1>1, <1>3, <2>1, <2>2 DEF Orderly, Lined, Injective
  <2>3. CASE s = "composer"
    <3>1. /\ line' = Append(line, i) /\ PendingComposers' = PendingComposers \cup {i}
          /\ Len(line') = Len(line) + 1 /\ Len(line) \in Nat /\ line'[Len(line) + 1] = i
          /\ \A n \in 1..Len(line) : line'[n] = line[n] /\ line[n] \in Accepted /\ line[n] # i
      BY <1>1, <1>2, <1>3, <2>3 DEF Accepted, i
    <3>2. \A n \in 1..Len(line') : n \in 1..Len(line) \/ n = Len(line) + 1
      BY <3>1
    <3>3. Injective(line')
      BY <3>1, <3>2 DEF Orderly, Lined, Injective
    <3>4. \A j \in PendingComposers' : \E n \in 1..Len(line') : line'[n] = j
      <4> SUFFICES ASSUME NEW j \in PendingComposers' PROVE \E n \in 1..Len(line') : line'[n] = j
        OBVIOUS
      <4>1. CASE j = i
        BY <3>1, <4>1
      <4>2. CASE j \in PendingComposers
        <5>1. PICK n \in 1..Len(line) : line[n] = j
          BY <4>2 DEF Orderly, Lined
        <5>2. n \in 1..Len(line') /\ line'[n] = j
          BY <3>1, <5>1
        <5> QED
          BY <5>2
      <4> QED
        BY <3>1, <4>1, <4>2
    <3>5. ASSUME NEW m \in 1..Len(line'), NEW n \in 1..Len(line'), NEW j \in PendingComposers', NEW k \in PendingComposers',
                 m < n, line'[m] = j, line'[n] = k
          PROVE  ByUser(j, k)
      <4>1. m \in 1..Len(line) /\ j = line[m] /\ j # i /\ j \in PendingComposers
        BY <3>1, <3>2, <3>5
      <4>2. CASE n \in 1..Len(line)
        <5>1. k = line[n] /\ k \in PendingComposers
          BY <3>1, <3>5, <4>2
        <5> QED
          BY <3>5, <4>1, <4>2, <5>1 DEF Orderly, Lined
      <4>3. CASE n = Len(line) + 1
        <5>1. k = i
          BY <3>1, <3>5, <4>3
        <5>2. NewIsLast
          BY LastAccepted DEF Orderly
        <5>3. j \in Inputs /\ j <= accepted /\ i \in Inputs /\ i = accepted + 1
          BY <1>2, <1>3, <4>1 DEF i
        <5> QED
          BY <5>1, <5>2, <5>3 DEF NewIsLast
      <4> QED
        BY <3>2, <4>2, <4>3
    <3> QED
      BY <2>1, <3>3, <3>4, <3>5 DEF Lined
  <2> QED
    BY <2>2, <2>3
<1> QED
  BY <1>4, <1>5, <1>6 DEF Orderly

\* A complete reorder names every waiting composer once.
LEMMA OrdersOnce ==
    ASSUME NEW S \in SUBSET Inputs, NEW o \in Orders(S)
    PROVE  o \in Seq(S) /\ Len(o) = Cardinality(S) /\ Injective(o) /\ \A i \in S : \E n \in 1..Len(o) : o[n] = i
<1> DEFINE N == Cardinality(S)
<1>1. N \in Nat /\ IsFiniteSet(S)
  BY InputsFinite
<1>2. o \in [1..N -> S] /\ \A i \in S : \E k \in 1..N : o[k] = i
  BY DEF Orders
<1>3. IsFiniteSet(1..N) /\ Cardinality(1..N) = N
  BY <1>1, FS_Interval
<1> HIDE DEF N
<1>4. o \in Seq(S) /\ Len(o) = N
  BY <1>1, <1>2
<1>5. o \in Surjection(1..N, S)
  BY <1>2 DEF Surjection
<1>6. o \in Injection(1..N, S)
  <2>1. Cardinality(1..N) = Cardinality(S)
    BY <1>3 DEF N
  <2> QED
    BY <1>1, <1>3, <1>5, <2>1, FS_Surjection
<1>7. \A m, n \in 1..N : o[m] = o[n] => m = n
  BY <1>6 DEF Injection, IsInjective
<1> QED
  BY <1>2, <1>4, <1>7 DEF Injective, N

(* A reorder is the new line. *)
LEMMA OrderlyReorder ==
    ASSUME InputInv, StoredType, StoredType', Orderly, NEW o \in Orders(PendingComposers), Reorder(o)
    PROVE  Orderly'
<1>1. queue' = [queue EXCEPT !.order = o] /\ line' = o /\ UNCHANGED <<accepted, source, fate>>
  BY DEF Reorder
<1>2. queue'.order = o /\ queue'.position = queue.position
  BY <1>1 DEF StoredType, QueueType
<1>3. PendingComposers \subseteq Accepted /\ PendingComposers \in SUBSET Inputs /\ accepted \in Nat
  BY PendingAccepted, InputAssumption DEF PendingComposers, InputInv, Arrivals
<1>4. /\ o \in Seq(PendingComposers) /\ Len(o) = Cardinality(PendingComposers) /\ Injective(o)
      /\ \A i \in PendingComposers : \E n \in 1..Len(o) : o[n] = i
  BY <1>3, OrdersOnce
<1>5. Pending' = Pending /\ PendingComposers' = PendingComposers
  BY <1>1 DEF Pending, PendingComposers, Composer
<1>6. Positions'
  BY <1>1, <1>2, <1>5 DEF Orderly, Positions
<1>7. Permutes'
  <2>1. Cardinality(PendingComposers) <= accepted
    <3>1. IsFiniteSet(Accepted) /\ Cardinality(Accepted) = accepted
      BY <1>3, FS_Interval DEF Accepted
    <3> QED
      BY <1>3, <3>1, FS_Subset
  <2>a. \A n \in 1..Len(o) : o[n] \in PendingComposers
    BY <1>4
  <2>b. \A i \in Accepted : i <= accepted
    BY <1>3 DEF Accepted
  <2>2. \A n \in 1..Len(o) : o[n] <= accepted
    BY <1>3, <2>a, <2>b
  <2> QED
    BY <1>1, <1>2, <1>4, <2>1, <2>2 DEF Permutes
<1>8. Lined'
  <2>1. RankIs'
    BY <1>7, RankAt, PTL
  <2>2. \A n \in 1..Len(o), i \in PendingComposers : o[n] = i => Rank(i)' = n
    BY <1>2, <1>3, <2>1 DEF RankIs
  <2>3. ASSUME NEW m \in 1..Len(o), NEW n \in 1..Len(o), NEW i \in PendingComposers, NEW j \in PendingComposers,
               m < n, o[m] = i, o[n] = j
        PROVE  ByUser(i, j)'
    <3>1. Rank(i)' = m /\ Rank(j)' = n
      BY <2>2, <2>3
    <3> QED
      BY <2>3, <3>1 DEF ByUser
  <2> QED
    BY <1>1, <1>4, <1>5, <2>3 DEF Lined
<1> QED
  BY <1>6, <1>7, <1>8 DEF Orderly

(* An edit takes the place, the rank and the position of what it replaces. *)
LEMMA OrderlyReplace ==
    ASSUME InputInv, StoredType, StoredType', Orderly, NEW i \in Inputs, Replace(i)
    PROVE  Orderly'
<1> DEFINE j == accepted + 1
           o == queue.order
           P == queue.position
<1>1. /\ accepted < MaxInputs /\ accepted' = j /\ source' = [source EXCEPT ![j] = "composer"]
      /\ i \in PendingComposers /\ fate' = [Cancelled({i}) EXCEPT ![j] = "pending"]
      /\ line' = [k \in DOMAIN line |-> IF line[k] = i THEN j ELSE line[k]]
      /\ queue' = Replaced(i, j)
  BY DEF Replace
<1>2. /\ accepted \in Nat /\ accepted \in 0..MaxInputs /\ j \in Inputs /\ MaxInputs \in Nat /\ Inputs \subseteq Nat
      /\ DOMAIN fate = Inputs /\ DOMAIN source = Inputs /\ Pending \subseteq Accepted /\ Accepted \subseteq Inputs
      /\ P \in [Inputs -> Inputs] /\ o \in Seq(Inputs) /\ line \in Seq(Accepted)
  <2>1. accepted \in 0..MaxInputs /\ DOMAIN fate = Inputs /\ DOMAIN source = Inputs
    BY DEF InputInv, Arrivals
  <2>2. accepted \in Nat /\ j \in Inputs /\ MaxInputs \in Nat /\ Inputs \subseteq Nat
    BY <1>1, <2>1, InputAssumption DEF Inputs
  <2>3. Pending \subseteq Accepted /\ Accepted \subseteq Inputs
    BY PendingAccepted
  <2>4. P \in [Inputs -> Inputs] /\ o \in Seq(Inputs) /\ line \in Seq(Accepted)
    BY DEF StoredType, QueueType
  <2> QED
    BY <2>1, <2>2, <2>3, <2>4
<1>3. /\ queue'.order = [k \in DOMAIN o |-> IF o[k] = i THEN j ELSE o[k]]
      /\ queue'.position = [P EXCEPT ![j] = P[i]]
  BY <1>1 DEF Replaced, StoredType, QueueType
<1> HIDE DEF o, P
<1>4. /\ i \in Pending /\ i # j /\ i <= accepted /\ j \notin Pending /\ PendingComposers \subseteq Pending
      /\ \A k \in Accepted : k # j /\ k <= accepted /\ k \in Nat
  BY <1>1, <1>2 DEF PendingComposers, Accepted
<1>5. /\ Pending' = (Pending \ {i}) \cup {j}
      /\ PendingComposers' = (PendingComposers \ {i}) \cup {j}
  <2>1. \A k \in Inputs : fate'[k] = IF k = j THEN "pending" ELSE IF k = i THEN "cancelled" ELSE fate[k]
    BY <1>1, <1>2 DEF Cancelled
  <2>2. Pending' = (Pending \ {i}) \cup {j}
    BY <1>2, <1>4, <2>1 DEF Pending
  <2>3. \A k \in Inputs : Composer(k)' <=> k = j \/ Composer(k)
    BY <1>1, <1>2 DEF Composer
  <2> QED
    BY <1>2, <1>4, <2>2, <2>3 DEF PendingComposers
<1> HIDE DEF j
<1>6. /\ Len(queue'.order) = Len(o) /\ Len(o) \in Nat
      /\ \A n \in 1..Len(o) : queue'.order[n] = IF o[n] = i THEN j ELSE o[n]
      /\ \A n \in 1..Len(o) : o[n] \in Inputs /\ o[n] <= accepted /\ o[n] # j
  <2>1. DOMAIN o = 1..Len(o) /\ Len(o) \in Nat
    BY <1>2
  <2>2. Len(queue'.order) = Len(o)
    BY <1>2, <1>3, <2>1
  <2>3. \A n \in 1..Len(o) : o[n] \in Inputs /\ o[n] <= accepted
    BY <1>2 DEF Orderly, Permutes, o
  <2>4. \A n \in 1..Len(o) : o[n] # j
    BY <1>2, <2>3 DEF j
  <2> QED
    BY <1>3, <2>1, <2>2, <2>3, <2>4
<1>7. /\ Len(line') = Len(line) /\ Len(line) \in Nat
      /\ \A n \in 1..Len(line) : line'[n] = IF line[n] = i THEN j ELSE line[n]
      /\ \A n \in 1..Len(line) : line[n] # j
  BY <1>1, <1>2, <1>4
<1>8. Positions'
  <2>1. \A k \in Inputs : P[k] <= k /\ P[k] \in Nat /\ (k > accepted => P[k] = k)
    BY <1>2 DEF Orderly, Positions, P
  <2>2. \A k \in Inputs : queue'.position[k] = IF k = j THEN P[i] ELSE P[k]
    BY <1>2, <1>3
  <2>a. accepted' = j /\ j \in Nat /\ i < j /\ accepted < j /\ i \in Nat
    BY <1>1, <1>2, <1>4 DEF j
  <2>3. ASSUME NEW k \in Inputs PROVE queue'.position[k] <= k /\ (k > accepted' => queue'.position[k] = k)
    <3>1. CASE k = j
      <4>1. P[i] <= i /\ P[i] \in Nat /\ queue'.position[k] = P[i]
        BY <2>1, <2>2, <3>1
      <4> QED
        BY <2>a, <3>1, <4>1
    <3>2. CASE k # j
      <4>1. k \in Nat /\ queue'.position[k] = P[k] /\ P[k] <= k /\ (k > accepted => P[k] = k)
        BY <1>2, <2>1, <2>2, <3>2
      <4> QED
        BY <1>2, <2>a, <4>1
    <3> QED
      BY <3>1, <3>2
  <2>4. \A k, l \in Pending : P[k] = P[l] => k = l
    BY DEF Orderly, Positions, P
  <2>5. \A k, l \in Pending' : queue'.position[k] = queue'.position[l] => k = l
    BY <1>2, <1>4, <1>5, <2>2, <2>4
  <2> QED
    BY <2>3, <2>5 DEF Positions
<1>9. Permutes'
  <2>1. \A m, n \in 1..Len(o) : o[m] = o[n] => m = n
    BY DEF Orderly, Permutes, Injective, o
  <2>2. \A m, n \in 1..Len(o) : queue'.order[m] = queue'.order[n] => m = n
    BY <1>6, <2>1
  <2>3. Len(o) <= accepted' /\ \A n \in 1..Len(o) : queue'.order[n] <= accepted'
    <3>1. accepted' = accepted + 1 /\ accepted' = j /\ accepted \in Nat /\ Len(o) <= accepted
      BY <1>1, <1>2 DEF Orderly, Permutes, o, j
    <3>2. Len(o) <= accepted'
      BY <1>6, <3>1
    <3>3. ASSUME NEW n \in 1..Len(o) PROVE queue'.order[n] <= accepted'
      <4>1. o[n] \in Nat /\ o[n] <= accepted /\ (queue'.order[n] = j \/ queue'.order[n] = o[n])
        BY <1>2, <1>6
      <4> QED
        BY <3>1, <4>1
    <3> QED
      BY <3>2, <3>3
  <2> QED
    BY <1>6, <2>2, <2>3 DEF Permutes, Injective
<1>10. ASSUME NEW k \in PendingComposers, NEW c, c = (IF k = i THEN j ELSE k)
       PROVE  Rank(c)' = Rank(k) /\ queue'.position[c] = P[k] /\ c \in Inputs /\ k \in Inputs
  <2>1. c \in Inputs /\ k \in Inputs /\ (k # i => k # j) /\ (c = j <=> k = i)
    BY <1>2, <1>4, <1>10
  <2>2. queue'.position[c] = P[k]
    BY <1>2, <1>3, <1>10, <2>1
  <2>3. RankIs /\ RankIs'
    BY <1>9, RankAt, PTL DEF Orderly
  <2>4. \A n \in 1..Len(o) : o[n] = k <=> queue'.order[n] = c
    BY <1>6, <1>10, <2>1
  <2>5. CASE \E n \in 1..Len(o) : o[n] = k
    <3>1. PICK n \in 1..Len(o) : o[n] = k
      BY <2>5
    <3>2. Rank(k) = n
      BY <2>1, <2>3, <3>1 DEF RankIs, o
    <3>3. Rank(c)' = n
      BY <1>6, <2>1, <2>3, <2>4, <3>1 DEF RankIs
    <3> QED
      BY <2>1, <2>2, <3>2, <3>3
  <2>6. CASE ~\E n \in 1..Len(o) : o[n] = k
    <3>1. Rank(k) = MaxInputs + 1
      BY <2>1, <2>3, <2>6 DEF RankIs, o
    <3>2. Rank(c)' = MaxInputs + 1
      BY <1>6, <2>1, <2>3, <2>4, <2>6 DEF RankIs
    <3> QED
      BY <2>1, <2>2, <3>1, <3>2
  <2> QED
    BY <2>5, <2>6
<1>11. ASSUME NEW k \in PendingComposers, NEW l \in PendingComposers, k # l, ByUser(k, l),
              NEW c, NEW d, c = (IF k = i THEN j ELSE k), d = (IF l = i THEN j ELSE l)
       PROVE  ByUser(c, d)'
  <2>1. Rank(c)' = Rank(k) /\ queue'.position[c] = P[k] /\ k \in Inputs
    BY <1>10, <1>11
  <2>2. Rank(d)' = Rank(l) /\ queue'.position[d] = P[l] /\ l \in Inputs
    BY <1>10, <1>11
  <2>3. P[k] # P[l] /\ P[k] \in Nat /\ P[l] \in Nat
    BY <1>2, <1>4, <1>11, <2>1, <2>2 DEF Orderly, Positions, P
  <2>4. Rank(k) < Rank(l) \/ (Rank(k) = Rank(l) /\ P[k] < P[l])
    BY <1>11, <2>3 DEF ByUser, ByPosition, P
  <2> QED
    BY <2>1, <2>2, <2>4 DEF ByUser, ByPosition
<1>12. Lined'
  <2>1. Injective(line')
    BY <1>7 DEF Orderly, Lined, Injective
  <2>2. \A c \in PendingComposers' : \E n \in 1..Len(line') : line'[n] = c
    <3> SUFFICES ASSUME NEW c \in PendingComposers' PROVE \E n \in 1..Len(line) : line'[n] = c
      BY <1>7
    <3>1. PICK k \in PendingComposers : c = (IF k = i THEN j ELSE k)
      BY <1>1, <1>5
    <3>2. PICK n \in 1..Len(line) : line[n] = k
      BY DEF Orderly, Lined
    <3> QED
      BY <1>7, <3>1, <3>2
  <2>3. ASSUME NEW m \in 1..Len(line), NEW n \in 1..Len(line), NEW c \in PendingComposers', NEW d \in PendingComposers',
               m < n, line'[m] = c, line'[n] = d
        PROVE  ByUser(c, d)'
    <3>1. PICK k \in PendingComposers : c = (IF k = i THEN j ELSE k) /\ line[m] = k
      BY <1>1, <1>4, <1>5, <1>7, <2>3
    <3>2. PICK l \in PendingComposers : d = (IF l = i THEN j ELSE l) /\ line[n] = l
      BY <1>1, <1>4, <1>5, <1>7, <2>3
    <3>3. k # l
      BY <1>7, <2>3, <3>1, <3>2 DEF Orderly, Lined, Injective
    <3>4. ByUser(k, l)
      BY <2>3, <3>1, <3>2 DEF Orderly, Lined
    <3> QED
      BY <1>11, <3>1, <3>2, <3>3, <3>4
  <2> QED
    BY <1>7, <2>1, <2>2, <2>3 DEF Lined
<1> QED
  BY <1>8, <1>9, <1>12 DEF Orderly

(* Every step keeps the queue orderly. *)
LEMMA OrderlyNext == InputInv /\ Types /\ Types' /\ Orderly /\ [Next]_vars => Orderly'
<1> SUFFICES ASSUME InputInv, Types, Types', Orderly, [Next]_vars PROVE Orderly'
  OBVIOUS
<1>0. StoredType /\ StoredType'
  BY DEF Types
<1>1. ASSUME UNCHANGED <<accepted, source, queue, line>>, Pending' \subseteq Pending PROVE Orderly'
  BY <1>1, OrderlyKept
<1>2. CASE Consumes
  <2>1. Settles /\ line' = line
    BY <1>2, ConsumesSettles DEF Consumes, Remove, WithdrawRobot, Steer, ClearQueue, ClaimRoot, history
  <2>2. Pending' \subseteq Pending
    BY <2>1 DEF Settles, Pending, Settled
  <2> QED
    BY <1>1, <2>1, <2>2 DEF Settles
<1>3. CASE Leaves
  <2>1. UNCHANGED facts
    BY <1>3, LeavesFacts
  <2>2. line' = line
    BY <1>3 DEF Leaves, history, Replay, SteerBlocked, CancelTurn, ReadQueue, Reconcile, Restart, EndTurn, RelayReleases,
         TurnPauses, TurnResumes, EffectUncertain, DrainStart, DrainRetry, DrainSelect, PrepareFails, PrepareStopped,
         ClaimRefused, Delivered, DeliveryFails, StartFails, BatchEnds, DrainFails, DeliveryErrs
  <2> QED
    BY <1>1, <2>1, <2>2 DEF facts, Pending
<1>4. ASSUME NEW i \in Inputs, Promote(i) \/ StopInput(i) PROVE Orderly'
  <2>1. UNCHANGED <<accepted, source, line>> /\ (fate' = fate \/ fate' = Cancelled({i}))
    BY <1>4 DEF Promote, StopInput
  <2>2. queue'.order = queue.order /\ queue'.position = queue.position
    BY <1>0, <1>4 DEF Promote, StopInput, HeldForStop, StoredType, QueueType
  <2>3. Pending' \subseteq Pending
    BY <2>1 DEF Pending, Cancelled
  <2> QED
    BY <2>1, <2>2, <2>3, OrderlyKept
<1>5. CASE Pause \/ Resume \/ StopTurn
  <2>1. UNCHANGED <<accepted, source, line, fate>>
    BY <1>5 DEF Pause, Resume, StopTurn
  <2>2. queue'.order = queue.order /\ queue'.position = queue.position
    BY <1>0, <1>5 DEF Pause, Resume, StopTurn, HeldForStop, StoredType, QueueType
  <2>3. Pending' \subseteq Pending
    BY <2>1 DEF Pending
  <2> QED
    BY <2>1, <2>2, <2>3, OrderlyKept
<1>6. CASE ClearContext
  <2>1. /\ fate' = [i \in Inputs |-> IF i \in Pending THEN "discarded" ELSE fate[i]]
        /\ queue' = EmptyQueue /\ line' = << >> /\ accepted' = accepted
    BY <1>6 DEF ClearContext
  <2>2. Pending' = {} /\ PendingComposers' = {}
    BY <2>1 DEF Pending, PendingComposers
  <2>3. queue'.order = << >> /\ queue'.position = [i \in Inputs |-> i] /\ accepted \in Nat
    BY <2>1, InputAssumption DEF EmptyQueue, InputInv, Arrivals
  <2>4. Positions'
    BY <2>2, <2>3, InputAssumption DEF Positions, Inputs
  <2>5. Permutes' /\ Lined'
    BY <2>1, <2>2, <2>3 DEF Permutes, Lined, Injective
  <2> QED
    BY <2>4, <2>5 DEF Orderly
<1>7. CASE UNCHANGED vars
  BY <1>1, <1>7 DEF vars, stored, history, Pending
<1>8. CASE Next
  BY <1>0, <1>2, <1>3, <1>4, <1>5, <1>6, <1>8, Kinds, OrderlyAccept, OrderlyReplace, OrderlyReorder
<1> QED
  BY <1>7, <1>8

\* Where an order ranks what a sequence has once each, they agree.
LEMMA Agreeing ==
    ASSUME UserTotal, NEW C \in SUBSET Inputs, NEW q, NEW N \in Nat, DOMAIN q = 1..N,
           \A m, n \in 1..N : q[m] = q[n] => m = n,
           \A i \in C : \E n \in 1..N : q[n] = i,
           \A m, n \in 1..N, i, j \in C : m < n /\ q[m] = i /\ q[n] = j => ByUser(i, j)
    PROVE  \A i, j \in C : Precedes(q, i, j) <=> ByUser(i, j)
<1> SUFFICES ASSUME NEW i \in C, NEW j \in C PROVE Precedes(q, i, j) <=> ByUser(i, j)
  OBVIOUS
<1>1. ASSUME Precedes(q, i, j) PROVE ByUser(i, j)
  BY <1>1 DEF Precedes
<1>2. ASSUME ByUser(i, j) PROVE Precedes(q, i, j)
  <2>1. PICK m \in 1..N : q[m] = i
    OBVIOUS
  <2>2. PICK n \in 1..N : q[n] = j
    OBVIOUS
  <2>3. i # j /\ ~ByUser(j, i)
    BY <1>2 DEF UserTotal
  <2>4. m # n /\ ~(n < m)
    BY <2>1, <2>2, <2>3
  <2>5. m < n
    BY <2>4
  <2> QED
    BY <2>1, <2>2, <2>5 DEF Precedes
<1> QED
  BY <1>1, <1>2

(***************************************************************************)
(* The composer inputs wait in the order the user gave them, whatever was  *)
(* reordered, edited, removed or sent by others in between.                *)
(***************************************************************************)
THEOREM UsersOrderIsKept == Spec => []ComposerOrder
<1>1. InputInv /\ Types /\ Orderly => ComposerOrder
  <2> SUFFICES ASSUME InputInv, Types, Orderly PROVE ComposerOrder
    OBVIOUS
  <2> DEFINE q == Sorted(Pending)
             N == Cardinality(Pending)
             C == PendingComposers
  <2>1. /\ QueueShape /\ Pending \in SUBSET Inputs /\ C \in SUBSET Inputs
        /\ \A i \in C : i \in Pending /\ Composer(i)
    BY Shapely, PendingAccepted DEF Types, PendingComposers
  <2>2. UserTotal /\ WellSorted(Pending, q) /\ N \in Nat
    BY <2>1, UserOrders, SortedWell, InputsFinite
  <2>3. line \in Seq(Accepted)
    BY DEF Types, StoredType
  <2> HIDE DEF q, C
  <2>4. Enumerates(q, N, Pending)
    BY <2>2 DEF WellSorted
  <2> HIDE DEF N
  <2>5. /\ DOMAIN q = 1..N /\ \A m, n \in 1..N : q[m] = q[n] => m = n
        /\ \A i \in C : \E n \in 1..N : q[n] = i
    BY <2>1, <2>4 DEF Enumerates
  <2>6. \A m, n \in 1..N, i, j \in C : m < n /\ q[m] = i /\ q[n] = j => ByUser(i, j)
    BY <2>1, <2>2 DEF WellSorted, N
  <2>7. \A i, j \in C : Precedes(q, i, j) <=> ByUser(i, j)
    BY <2>1, <2>2, <2>5, <2>6, Agreeing
  <2>8. /\ Len(line) \in Nat /\ DOMAIN line = 1..Len(line)
        /\ \A m, n \in 1..Len(line) : line[m] = line[n] => m = n
        /\ \A i \in C : \E n \in 1..Len(line) : line[n] = i
        /\ \A m, n \in 1..Len(line), i, j \in C : m < n /\ line[m] = i /\ line[n] = j => ByUser(i, j)
    BY <2>3 DEF Orderly, Lined, Injective, C
  <2>9. \A i, j \in C : Precedes(line, i, j) <=> ByUser(i, j)
    BY <2>1, <2>2, <2>8, Agreeing
  <2>10. \A i \in C : \E m \in DOMAIN q, n \in DOMAIN line : q[m] = i /\ line[n] = i
    BY <2>5, <2>8
  <2>11. \A i, j \in C : Precedes(q, i, j) <=> Precedes(line, i, j)
    BY <2>7, <2>9
  <2> QED
    BY <2>10, <2>11 DEF ComposerOrder, Queue, q, C
<1> QED
  BY <1>1, InputInit, InputStep, TypesInit, TypesNext, OrderlyInit, OrderlyNext, PTL DEF Spec

-----------------------------------------------------------------------------
(* A fresh view is the current queue *)

\* A set that is not empty has a first member by the user's wish.
LEMMA SomeWanted ==
    ASSUME QueueShape, NEW S \in SUBSET Inputs, S # {}
    PROVE  \E i \in S : \A j \in S \ {i} : ByUser(i, j)
<1> DEFINE q == InOrder(S, ByUser)
           N == Cardinality(S)
<1>1. N \in Nat
  BY InputsFinite
<1>2. Enumerates(q, N, S) /\ \A m, n \in 1..N : m < n => ByUser(q[m], q[n])
  BY UserSorted
<1> HIDE DEF q, N
<1>3. 1 \in 1..N /\ q[1] \in S
  BY <1>1, <1>2 DEF Enumerates
<1>4. ASSUME NEW j \in S \ {q[1]} PROVE ByUser(q[1], j)
  <2>1. PICK n \in 1..N : q[n] = j
    BY <1>2 DEF Enumerates
  <2>2. 1 < n
    BY <1>1, <1>4, <2>1
  <2> QED
    BY <1>2, <1>3, <2>1, <2>2
<1> QED
  BY <1>3, <1>4

(***************************************************************************)
(* r is the root of E: the first by position, or, if that is a composer,   *)
(* the composer the user wants first.  There is exactly one.               *)
(***************************************************************************)
RootIn(E, r) ==
    /\ E = {} => r = 0
    /\ E # {} => r \in E
    /\ E # {} /\ ~Composer(r) => \A j \in E \ {r} : ByPosition(r, j)
    /\ E # {} /\ Composer(r) => /\ \E f \in E : Composer(f) /\ \A j \in E \ {f} : ByPosition(f, j)
                                /\ \A j \in E \ {r} : Composer(j) => ByUser(r, j)
Rooted == \A E \in {Eligible(0)}, r \in {FirstEligibleRoot} : RootIn(E, r)

(* No two inputs are the root of the same set. *)
LEMMA RootUnique ==
    ASSUME QueueShape, NEW E \in SUBSET Inputs, NEW r, NEW s, RootIn(E, r), RootIn(E, s)
    PROVE  r = s
<1>0. PositionTotal /\ UserTotal
  BY PositionOrders, UserOrders
<1>1. CASE E = {}
  BY <1>1 DEF RootIn
<1>2. CASE E # {}
  <2> SUFFICES ASSUME r # s PROVE FALSE
    OBVIOUS
  <2>1. r \in E /\ s \in E /\ r \in Inputs /\ s \in Inputs
    BY <1>2 DEF RootIn
  <2>2. CASE ~Composer(r) /\ ~Composer(s)
    BY <1>0, <1>2, <2>1, <2>2 DEF RootIn, PositionTotal
  <2>3. CASE Composer(r) /\ Composer(s)
    BY <1>0, <1>2, <2>1, <2>3 DEF RootIn, UserTotal
  <2>4. ASSUME NEW x \in E, NEW y \in E, Composer(x), ~Composer(y), RootIn(E, x), RootIn(E, y) PROVE FALSE
    <3>1. PICK f \in E : Composer(f) /\ \A j \in E \ {f} : ByPosition(f, j)
      BY <1>2, <2>4 DEF RootIn
    <3>2. f # y /\ ByPosition(f, y) /\ ByPosition(y, f) /\ f \in Inputs /\ y \in Inputs
      BY <1>2, <2>4, <3>1 DEF RootIn
    <3> QED
      BY <1>0, <3>2 DEF PositionTotal
  <2> QED
    BY <2>1, <2>2, <2>3, <2>4
<1> QED
  BY <1>1, <1>2

RootsUnique == \A E \in SUBSET Inputs : \A r, s : RootIn(E, r) /\ RootIn(E, s) => r = s
(* The same as one formula about the state. *)
LEMMA OneRoot == QueueShape => RootsUnique
BY RootUnique DEF RootsUnique

(* The presentation picks the root of what may start. *)
LEMMA RootIs == InputInv /\ StoredType => Rooted
<1> SUFFICES ASSUME InputInv, StoredType PROVE RootIn(Eligible(0), FirstEligibleRoot)
  BY DEF Rooted
<1> DEFINE E == Eligible(0)
           C == {i \in E : Composer(i)}
<1>0. QueueShape /\ E \in SUBSET Inputs /\ C \in SUBSET Inputs
  BY Shapely, PendingAccepted DEF Eligible
<1>1. CASE E = {}
  BY <1>1 DEF RootIn, FirstEligibleRoot
<1>2. CASE E # {}
  <2>1. PICK f \in E : \A j \in E \ {f} : ByPosition(f, j)
    BY <1>0, <1>2, SomeFirst
  <2>2. Least(E, ByPosition) = f
    <3> HIDE DEF E
    <3> QED
      BY <1>0, <2>1, LeastByPosition
  <2>3. CASE ~Composer(f)
    <3>1. FirstEligibleRoot = f
      BY <1>2, <2>2, <2>3 DEF FirstEligibleRoot
    <3> QED
      BY <1>2, <2>1, <2>3, <3>1 DEF RootIn
  <2>4. CASE Composer(f)
    <3>1. PICK r \in C : \A j \in C \ {r} : ByUser(r, j)
      <4>1. C # {}
        BY <2>4
      <4> HIDE DEF C
      <4> QED
        BY <1>0, <4>1, SomeWanted
    <3>2. Least(C, ByUser) = r
      <4> HIDE DEF C
      <4> QED
        BY <1>0, <3>1, LeastByUser
    <3>3. FirstEligibleRoot = r
      BY <1>2, <2>2, <2>4, <3>2 DEF FirstEligibleRoot
    <3> QED
      BY <1>2, <2>1, <2>4, <3>1, <3>3 DEF RootIn
  <2> QED
    BY <2>3, <2>4
<1> QED
  BY <1>1, <1>2

\* The listing of a snapshot, by counting, and its items.
ListingIs ==
    /\ Cardinality(PendingComposers) \in Nat
    /\ Enumerates(Listing, Cardinality(PendingComposers), PendingComposers)
    /\ \A n \in 1..Cardinality(PendingComposers), i \in PendingComposers :
          Listing[n] = i => Cardinality(UserBelow(PendingComposers)[i]) = n - 1
ItemsAre ==
    /\ Snapshot \in [1..Cardinality(PendingComposers) -> Items]
    /\ \A n \in 1..Cardinality(PendingComposers), i \in PendingComposers :
          Listing[n] = i =>
              Snapshot[n] = [id |-> i, delivery |-> Intent(i), held |-> Held(i), placement |-> Placement(i)]

(* A snapshot lists the composers by counting and describes each. *)
LEMMA Listed == InputInv /\ StoredType => ListingIs /\ ItemsAre
<1> SUFFICES ASSUME InputInv, StoredType PROVE ListingIs /\ ItemsAre
  OBVIOUS
<1> DEFINE C == PendingComposers
           N == Cardinality(C)
           F(n) == [id |-> Listing[n], delivery |-> Intent(Listing[n]), held |-> Held(Listing[n]),
                    placement |-> Placement(Listing[n])]
<1>1. QueueShape /\ C \in SUBSET Inputs
  BY Shapely, PendingAccepted DEF PendingComposers
<1>2. Enumerates(Listing, N, C) /\ N \in Nat /\ Snapshot = [n \in 1..N |-> F(n)]
  BY SnapshotIs
<1>3. \A n \in 1..N : Cardinality(UserBelow(C)[Listing[n]]) = n - 1
  BY <1>1, UserSorted DEF Listing
<1>4. ListingIs
  BY <1>2, <1>3 DEF ListingIs
<1>5. \A n \in 1..N : Listing[n] \in C /\ Listing[n] \in Inputs
  BY <1>1, <1>2 DEF Enumerates
<1>6. \A n \in 1..N : F(n) \in Items
  BY <1>5, ItemType
<1>7. Snapshot \in [1..N -> Items]
  <2> HIDE DEF F, N
  <2> QED
    BY <1>2, <1>6
<1>8. \A n \in 1..N, i \in C :
         Listing[n] = i => Snapshot[n] = [id |-> i, delivery |-> Intent(i), held |-> Held(i), placement |-> Placement(i)]
  BY <1>2
<1> QED
  BY <1>4, <1>7, <1>8 DEF ItemsAre

(* Functions with the same values are the same. *)
LEMMA SameValues ==
    ASSUME NEW S, NEW T, NEW f \in [S -> T], NEW g \in [S -> T], \A x \in S : f[x] = g[x]
    PROVE  f = g
OBVIOUS

(***************************************************************************)
(* A step that leaves the composers, their order, their items and the root *)
(* among them as they are leaves the snapshot as it is.                    *)
(***************************************************************************)
LEMMA SnapshotKept ==
    ASSUME InputInv, InputInv', StoredType, StoredType', UNCHANGED <<queue, blocked, head>>,
           PendingComposers' = PendingComposers,
           \A i \in PendingComposers : source'[i] = source[i] /\ prefers'[i] = prefers[i],
           head = Ready => \A i \in PendingComposers : FirstEligibleRoot' = i <=> FirstEligibleRoot = i
    PROVE  Snapshot' = Snapshot
<1> DEFINE C == PendingComposers
           N == Cardinality(C)
<1>1. ListingIs /\ ListingIs' /\ ItemsAre /\ ItemsAre'
  BY Listed, PTL
<1>2. QueueShape /\ C \in SUBSET Inputs
  BY Shapely, PendingAccepted DEF PendingComposers
<1>3. \A i \in C : Intent(i)' = Intent(i) /\ (Held(i)' <=> Held(i))
  BY DEF Intent, Held, Composer
<1>4. \A i \in C : Placement(i)' = Placement(i)
  <2> SUFFICES ASSUME NEW i \in C PROVE Placement(i)' = Placement(i)
    OBVIOUS
  <2>1. i \in blocked' <=> i \in blocked
    OBVIOUS
  <2> QED
    BY <1>3, <2>1 DEF Placement
<1>5. UserBelow(C)' = UserBelow(C)
  <2>1. \A i, j : ByUser(i, j)' <=> ByUser(i, j)
    BY SameOrder
  <2> QED
    BY <2>1 DEF UserBelow
<1>6. N' = N /\ N \in Nat
  BY <1>1 DEF ListingIs
<1>7. ASSUME NEW n \in 1..N PROVE Listing'[n] = Listing[n] /\ Listing[n] \in C
  <2>1. Listing[n] \in C /\ Listing'[n] \in C
    BY <1>1, <1>6, <1>7 DEF ListingIs, Enumerates
  <2>2. PICK i \in C, j \in C : i = Listing[n] /\ j = Listing'[n]
    BY <2>1
  <2>3. Cardinality(UserBelow(C)[i]) = n - 1
    BY <1>1, <2>2 DEF ListingIs
  <2>4. Cardinality(UserBelow(C)[j]) = n - 1
    BY <1>1, <1>5, <1>6, <2>2 DEF ListingIs
  <2>5. Ordered(C, UserBelow(C)) /\ IsFiniteSet(C)
    BY <1>2, UserOrdered, InputsFinite
  <2>6. \A k, l \in C : Cardinality(UserBelow(C)[k]) = Cardinality(UserBelow(C)[l]) => k = l
    <3> HIDE DEF C
    <3> QED
      BY <2>5, Counting
  <2> QED
    BY <2>1, <2>2, <2>3, <2>4, <2>6
<1>8. ASSUME NEW n \in 1..N PROVE Snapshot'[n] = Snapshot[n]
  <2>1. PICK i \in C : i = Listing[n] /\ i = Listing'[n]
    BY <1>7
  <2>2. Snapshot[n] = [id |-> i, delivery |-> Intent(i), held |-> Held(i), placement |-> Placement(i)]
    BY <1>1, <2>1 DEF ItemsAre
  <2>3. Snapshot'[n] = [id |-> i, delivery |-> Intent(i)', held |-> Held(i)', placement |-> Placement(i)']
    BY <1>1, <1>6, <2>1 DEF ItemsAre
  <2>4. Intent(i)' = Intent(i) /\ Placement(i)' = Placement(i)
    BY <1>3, <1>4
  <2>5. Held(i)' = Held(i)
    <3>1. Held(i) \in BOOLEAN /\ Held(i)' \in BOOLEAN
      BY DEF Held
    <3>2. CASE Held(i)
      BY <1>3, <3>1, <3>2
    <3>3. CASE ~Held(i)
      BY <1>3, <3>1, <3>3
    <3> QED
      BY <3>2, <3>3
  <2> QED
    BY <2>2, <2>3, <2>4, <2>5
<1>9. Snapshot \in [1..N -> Items] /\ Snapshot' \in [1..N -> Items]
  BY <1>1, <1>6 DEF ItemsAre
<1> HIDE DEF N
<1>10. PICK D : D = 1..N
  OBVIOUS
<1>11. PICK f \in [D -> Items], g \in [D -> Items] : f = Snapshot /\ g = Snapshot'
  BY <1>9, <1>10
<1>12. \A n \in D : f[n] = g[n]
  BY <1>8, <1>10, <1>11
<1>13. f = g
  BY ONLY <1>12, SameValues
<1> QED
  BY <1>11, <1>13

\* The root depends on what is stored only.
LEMMA RootKept ==
    ASSUME InputInv, InputInv', StoredType, StoredType', UNCHANGED stored
    PROVE  FirstEligibleRoot' = FirstEligibleRoot
<1>1. Rooted /\ Rooted'
  BY RootIs, PTL
<1>2. QueueShape /\ Eligible(0) \in SUBSET Inputs
  BY Shapely, PendingAccepted DEF Eligible
<1>3. \A i, j : (ByPosition(i, j)' <=> ByPosition(i, j)) /\ (ByUser(i, j)' <=> ByUser(i, j))
  BY SameOrder DEF stored
<1>4. \A i : (Composer(i)' <=> Composer(i)) /\ (Held(i)' <=> Held(i))
  BY DEF stored, Composer, Held
<1>5. Eligible(0)' = Eligible(0)
  BY <1>4 DEF stored, Eligible, Pending
<1>6. PICK E, r, s : E = Eligible(0) /\ r = FirstEligibleRoot /\ s = FirstEligibleRoot'
  OBVIOUS
<1>7. RootIn(E, r) /\ RootIn(E, s)'
  BY <1>1, <1>5, <1>6 DEF Rooted
<1>8. RootIn(E, s)
  BY <1>3, <1>4, <1>7 DEF RootIn
<1> QED
  BY <1>2, <1>6, <1>7, <1>8, RootUnique

\* Nothing stored changes and the Turn does not: the snapshot stays.
LEMMA SnapshotSame ==
    ASSUME InputInv, InputInv', StoredType, StoredType', UNCHANGED <<stored, head>>
    PROVE  Snapshot' = Snapshot
<1>1. FirstEligibleRoot' = FirstEligibleRoot
  BY RootKept
<1>2. PendingComposers' = PendingComposers
  BY DEF stored, PendingComposers, Pending, Composer
<1> QED
  BY <1>1, <1>2, SnapshotKept DEF stored

\* An input of another source is accepted behind the root.
LEMMA SnapshotAccept ==
    ASSUME InputInv, InputInv', StoredType, StoredType', Orderly, NEW s \in Sources, NEW t \in Turns, Accept(s, t), s # "composer"
    PROVE  Snapshot' = Snapshot
<1>0. accepted < MaxInputs /\ accepted \in Nat /\ accepted + 1 \in Inputs /\ DOMAIN fate = Inputs
  <2>1. accepted < MaxInputs /\ accepted \in 0..MaxInputs /\ DOMAIN fate = Inputs
    BY DEF Accept, InputInv, Arrivals
  <2> QED
    BY <2>1, InputAssumption DEF Inputs
<1>a. PICK i \in Inputs : i = accepted + 1
  BY <1>0
<1>1. /\ source' = [source EXCEPT ![i] = s] /\ prefers' = [prefers EXCEPT ![i] = t]
      /\ fate' = [fate EXCEPT ![i] = "pending"] /\ UNCHANGED <<queue, blocked, head>>
  BY <1>a DEF Accept, session
<1>2. /\ source \in [Inputs -> Sources \cup {"none"}] /\ prefers \in [Inputs -> Turns] /\ blocked \subseteq Accepted
  BY DEF StoredType
<1>3. /\ Pending \subseteq Inputs /\ \A j \in Pending : j <= accepted /\ j # i
      /\ i \notin blocked
  <2>1. Pending \subseteq Accepted /\ Pending \subseteq Inputs
    BY PendingAccepted
  <2>2. \A j \in Accepted : j <= accepted /\ j # i
    BY <1>0, <1>a DEF Accepted
  <2> QED
    BY <1>2, <2>1, <2>2
<1>4. /\ \A j \in Inputs : j # i => (Composer(j)' <=> Composer(j)) /\ (Held(j)' <=> Held(j))
      /\ ~Composer(i)' /\ ~Held(i)'
  BY <1>1, <1>2 DEF Composer, Held
<1>5. Pending' = Pending \cup {i}
  BY <1>0, <1>1 DEF Pending
<1>6. PendingComposers' = PendingComposers
  BY <1>3, <1>4, <1>5 DEF PendingComposers
<1>7. Eligible(0)' = Eligible(0) \cup {i}
  BY <1>1, <1>3, <1>4, <1>5 DEF Eligible
<1>8. \A j \in PendingComposers : source'[j] = source[j] /\ prefers'[j] = prefers[j] /\ j # i /\ j \in Inputs
  BY <1>1, <1>2, <1>3 DEF PendingComposers
<1>9. \A j \in PendingComposers : FirstEligibleRoot' = j <=> FirstEligibleRoot = j
  <2>1. QueueShape /\ QueueShape'
    BY Shapely, PTL
  <2>2. Rooted /\ Rooted'
    BY RootIs, PTL
  <2>3. PICK E, r, z : E = Eligible(0) /\ r = FirstEligibleRoot /\ z = FirstEligibleRoot'
    OBVIOUS
  <2>4. RootIn(E, r) /\ RootIn(E \cup {i}, z)' /\ E \in SUBSET Inputs /\ i \notin E /\ \A j \in E : j <= accepted
    BY <1>3, <1>7, <2>2, <2>3 DEF Rooted, Eligible
  <2>5. \A k, l : (ByPosition(k, l)' <=> ByPosition(k, l)) /\ (ByUser(k, l)' <=> ByUser(k, l))
    BY <1>1, SameOrder
  <2>6. \A j \in E : ByPosition(j, i)
    <3>1. NewIsLast
      BY LastAccepted DEF Orderly
    <3> QED
      BY <1>a, <2>4, <3>1 DEF NewIsLast
  <2>7. ASSUME NEW j \in PendingComposers, z = j PROVE r = j
    <3>1. j \in E /\ j # i /\ Composer(j) /\ Composer(j)'
      BY <1>4, <1>8, <2>4, <2>7 DEF RootIn, PendingComposers
    <3>2. PICK f \in E \cup {i} : Composer(f)' /\ \A k \in (E \cup {i}) \ {f} : ByPosition(f, k)'
      BY <2>4, <2>7, <3>1 DEF RootIn
    <3>3. f \in E /\ Composer(f) /\ \A k \in E \ {f} : ByPosition(f, k)
      BY <1>4, <2>4, <2>5, <3>2
    <3>4. \A k \in E \ {j} : Composer(k) => ByUser(j, k)
      BY <1>4, <2>4, <2>5, <2>7, <3>1 DEF RootIn
    <3>5. RootIn(E, j)
      BY <3>1, <3>3, <3>4 DEF RootIn
    <3> QED
      BY <2>1, <2>4, <3>5, RootUnique
  <2>8. ASSUME NEW j \in PendingComposers, r = j PROVE z = j
    <3>1. j \in E /\ j # i /\ Composer(j) /\ Composer(j)'
      <4>1. j # 0
        BY <1>8, InputAssumption DEF Inputs
      <4> QED
        BY <1>4, <1>8, <2>4, <2>8, <4>1 DEF RootIn, PendingComposers
    <3>2. PICK f \in E : Composer(f) /\ \A k \in E \ {f} : ByPosition(f, k)
      BY <2>4, <2>8, <3>1 DEF RootIn
    <3>3. Composer(f)' /\ \A k \in (E \cup {i}) \ {f} : ByPosition(f, k)'
      BY <1>4, <2>4, <2>5, <2>6, <3>2
    <3>4. \A k \in (E \cup {i}) \ {j} : Composer(k)' => ByUser(j, k)'
      BY <1>4, <2>4, <2>5, <2>8, <3>1 DEF RootIn
    <3>5. RootIn(E \cup {i}, j)'
      BY <3>1, <3>2, <3>3, <3>4 DEF RootIn
    <3>6. RootsUnique'
      BY <2>1, OneRoot, PTL
    <3> QED
      BY <2>4, <3>5, <3>6 DEF RootsUnique
  <2> QED
    BY <2>3, <2>7, <2>8
<1> QED
  BY <1>1, <1>6, <1>8, <1>9, SnapshotKept

(* An observed kind of event makes every view stale. *)
LEMMA Noticed ==
    ASSUME NEW kinds, NEW kind \in kinds, kind \in VersionKinds, Observe(kinds)
    PROVE  ~view'.fresh
BY DEF Observe, Stale

(* A view that is still fresh is the same view. *)
LEMMA Seen ==
    ASSUME NEW kinds, Observe(kinds), view'.fresh
    PROVE  view' = view
BY DEF Observe, Stale

(* Every step makes a view stale or leaves its queue as it was. *)
LEMMA ViewCurrentNext ==
    InputInv /\ InputInv' /\ Types /\ Types' /\ Orderly /\ ViewIsCurrent /\ [Next]_vars => ViewIsCurrent'
<1> SUFFICES ASSUME InputInv, InputInv', Types, Types', Orderly, ViewIsCurrent, [Next]_vars, view'.fresh
             PROVE  view'.items = Snapshot' \/ head'.status = "reconciliation"
  BY DEF ViewIsCurrent
<1>0. StoredType /\ StoredType' /\ SessionType
  BY DEF Types
<1>1. ASSUME UNCHANGED <<stored, head, view>> PROVE view'.items = Snapshot' \/ head'.status = "reconciliation"
  <2>1. Snapshot' = Snapshot
    BY <1>0, <1>1, SnapshotSame
  <2> QED
    BY <1>1, <2>1 DEF ViewIsCurrent
<1>2. ASSUME NEW s \in Sources, NEW t \in Turns, Accept(s, t)
      PROVE  view'.items = Snapshot' \/ head'.status = "reconciliation"
  <2>1. s # "composer"
    BY <1>2, Noticed DEF Accept, VersionKinds
  <2>2. Snapshot' = Snapshot
    BY <1>0, <1>2, <2>1, SnapshotAccept
  <2>3. view' = view /\ head' = head
    BY <1>2, Seen DEF Accept, session
  <2> QED
    BY <2>2, <2>3 DEF ViewIsCurrent
<1>3. CASE Commands
  <2>1. Observe({"queue-changed"})
    BY <1>3 DEF Commands, Remove, Promote, Replace, Reorder, ClearQueue, Pause, Resume, Changed
  <2> QED
    BY <2>1, Noticed DEF VersionKinds
<1>4. CASE Controls
  <2>1. ASSUME NEW i \in Inputs, Replay(i) PROVE UNCHANGED <<stored, head, view>>
    BY <2>1 DEF Replay, session
  <2>2. ASSUME NEW i \in Inputs, StopInput(i) \/ WithdrawRobot(i) PROVE FALSE
    BY <2>2, Noticed DEF StopInput, WithdrawRobot, VersionKinds
  <2>3. CASE StopTurn \/ CancelTurn \/ ClearContext
    BY <2>3, Noticed DEF StopTurn, CancelTurn, ClearContext, VersionKinds
  <2>4. CASE ReadQueue
    <3>1. view' = [fresh |-> TRUE, items |-> Snapshot] /\ UNCHANGED <<stored, head>>
      BY <2>4 DEF ReadQueue, session
    <3>2. Snapshot' = Snapshot
      BY <1>0, <3>1, SnapshotSame
    <3> QED
      BY <3>1, <3>2
  <2>5. CASE Reconcile \/ Restart
    <3>1. UNCHANGED <<stored, head, view>>
      BY <2>5, Seen DEF Reconcile, Restart
    <3> QED
      BY <1>1, <3>1
  <2> QED
    BY <1>1, <1>4, <2>1, <2>2, <2>3, <2>4, <2>5 DEF Controls
<1>5. CASE Runtime
  <2>1. ASSUME NEW i \in Inputs, Steer(i) PROVE view'.items = Snapshot' \/ head'.status = "reconciliation"
    <3>1. ~Composer(i)
      BY <2>1, Noticed DEF Steer, VersionKinds
    <3>2. /\ view' = view /\ UNCHANGED <<accepted, source, prefers, blocked, queue, head>>
          /\ fate' = [fate EXCEPT ![i] = "steering"] /\ head.status = "running"
      BY <2>1, Seen DEF Steer, Steerable
    <3>3. PendingComposers' = PendingComposers
      <4>1. \A j : Composer(j)' <=> Composer(j)
        BY <3>2 DEF Composer
      <4>2. \A j \in Inputs : j # i => fate'[j] = fate[j]
        BY <3>2 DEF InputInv, Arrivals
      <4> QED
        BY <3>1, <4>1, <4>2 DEF PendingComposers, Pending
    <3>4. head # Ready
      BY <3>2 DEF Ready
    <3>5. Snapshot' = Snapshot
      BY <1>0, <3>2, <3>3, <3>4, SnapshotKept
    <3> QED
      BY <3>2, <3>5 DEF ViewIsCurrent
  <2>2. ASSUME NEW i \in Inputs, SteerBlocked(i) PROVE FALSE
    BY <2>2, Noticed DEF SteerBlocked, VersionKinds
  <2>3. CASE EndTurn \/ TurnPauses \/ TurnResumes
    BY <2>3, Noticed DEF EndTurn, TurnPauses, TurnResumes, VersionKinds
  <2>4. CASE RelayReleases
    BY <1>1, <2>4 DEF RelayReleases
  <2>5. CASE EffectUncertain
    BY <1>0, <2>5 DEF EffectUncertain, SessionType
  <2> QED
    BY <1>5, <2>1, <2>2, <2>3, <2>4, <2>5 DEF Runtime
<1>6. CASE Drain
  <2>1. CASE DrainStart \/ DrainRetry \/ DrainSelect \/ PrepareStopped \/ ClaimRefused \/ Delivered
             \/ StartFails \/ BatchEnds \/ DrainFails
    <3>1. UNCHANGED <<stored, head, view>>
      BY <2>1 DEF DrainStart, DrainRetry, DrainSelect, PrepareStopped, ClaimRefused, Delivered, StartFails, BatchEnds,
                  DrainFails, session
    <3> QED
      BY <1>1, <3>1
  <2>2. CASE PrepareFails
    <3>1. fate[Head(drain.batch)] # "pending"
      BY <2>2, Noticed DEF PrepareFails, VersionKinds
    <3>2. UNCHANGED <<stored, head, view>>
      BY <2>2, <3>1, Seen DEF PrepareFails, stored, session
    <3> QED
      BY <1>1, <3>2
  <2>3. CASE ClaimRoot
    BY <2>3, Noticed DEF ClaimRoot, VersionKinds
  <2>4. CASE DeliveryFails
    <3>1. head.turn # Head(drain.batch)
      BY <2>4, Noticed DEF DeliveryFails, VersionKinds
    <3>2. UNCHANGED <<stored, head, view>>
      BY <2>4, <3>1, Seen DEF DeliveryFails
    <3> QED
      BY <1>1, <3>2
  <2>5. CASE DeliveryErrs
    <3>1. head' = head
      BY <2>5, Noticed DEF DeliveryErrs, VersionKinds
    <3>2. UNCHANGED <<stored, head, view>>
      BY <2>5, <3>1, Seen DEF DeliveryErrs
    <3> QED
      BY <1>1, <3>2
  <2> QED
    BY <1>6, <2>1, <2>2, <2>3, <2>4, <2>5 DEF Drain
<1>7. CASE UNCHANGED vars
  BY <1>1, <1>7 DEF vars, session
<1> QED
  BY <1>2, <1>3, <1>4, <1>5, <1>6, <1>7 DEF Next

(***************************************************************************)
(* A command that passes the version check acts on the queue its author    *)
(* saw, unless an effect of the running Turn is uncertain: whatever else   *)
(* happens, what the version does not observe does not show.               *)
(***************************************************************************)
THEOREM FreshViewIsTheQueue == Spec => []ViewIsCurrent
<1>1. Init => ViewIsCurrent
  BY DEF Init, Stale, ViewIsCurrent
<1> QED
  BY <1>1, InputInit, InputStep, TypesInit, TypesNext, OrderlyInit, OrderlyNext, ViewCurrentNext, PTL DEF Spec
=============================================================================
