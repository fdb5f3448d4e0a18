------------------------ MODULE LiveSchedules_proofs ------------------------
(***************************************************************************)
(* Theorems about the merging of match windows, for every list of          *)
(* fixtures and every time, and about the live schedules, for every        *)
(* calendar, every refresh period and every number of changed fixtures,    *)
(* failed reconciliations, late bundles and chains that break off.         *)
(*                                                                         *)
(* What a fold computes is an induction over data.  It is done here by     *)
(* least counterexample: every nonempty set of naturals has a least        *)
(* element, which is a fact about sets and needs no induction scheme.      *)
(***************************************************************************)
EXTENDS LiveSchedules, FiniteSetTheorems, TLAPS

MatchWindow == [event : Nat, start : Int, end : Int]

(* Every window of a single match is that long.                            *)
Span == BeforeKickoff + AfterKickoff

-----------------------------------------------------------------------------
(* Least and greatest elements.                                            *)

LEMMA LeastNatural ==
    ASSUME NEW S, S \subseteq Nat, S # {}
    PROVE  \E x \in S : \A y \in S : x <= y
<1>1. PICK x \in S : \A y \in S : ~(<<y, x>> \in OpToRel(<, Nat))
  BY NatLessThanWellFounded, WFMin
<1>2. \A y \in S : ~(y < x)
  BY <1>1 DEF OpToRel
<1> QED
  BY <1>2

LEMMA GreatestBelow ==
    ASSUME NEW S, S # {}, S \subseteq Int, NEW b \in Int, \A y \in S : y <= b
    PROVE  \E x \in S : \A y \in S : y <= x
<1> DEFINE T == {u \in Nat : \E x \in S : u = b - x}
<1>0. \A x \in S : b - x \in T
  <2>1. \A x \in S : x \in Int /\ x <= b
    OBVIOUS
  <2>2. \A x \in S : b - x \in Nat
    BY <2>1
  <2> QED
    BY <2>2
<1>1. T # {} /\ T \subseteq Nat
  BY <1>0
<1>2. PICK t \in T : \A u \in T : t <= u
  BY <1>1, LeastNatural
<1>3. PICK x \in S : t = b - x
  OBVIOUS
<1>4. ASSUME NEW y \in S PROVE y <= x
  <2>1. t <= b - y
    BY <1>0, <1>2
  <2> QED
    BY <2>1, <1>3
<1> QED
  BY <1>4

LEMMA MaxOfInterval ==
    ASSUME NEW n \in Nat, NEW S, S \subseteq 1..n, NEW k \in S, \A y \in S : y <= k
    PROVE  Max(S) = k
<1>1. \A x \in S : (\A y \in S : x >= y) => x = k
  OBVIOUS
<1>2. k \in S /\ \A y \in S : k >= y
  OBVIOUS
<1> QED
  BY <1>1, <1>2 DEF Max

-----------------------------------------------------------------------------
(* Sorting.                                                                *)

InOrder(s) == \A i, k \in DOMAIN s : i < k => Earlier(s[i], s[k])

IsSortingOf(s, n, S) ==
    /\ s \in [1..n -> S]
    /\ InOrder(s)
    /\ \A v \in S : \E i \in 1..n : s[i] = v

LEMMA EarlierIsTotal ==
    ASSUME NEW v \in MatchWindow, NEW w \in MatchWindow
    PROVE  (v = w \/ Earlier(v, w) \/ Earlier(w, v)) /\ ~Earlier(v, v)
BY DEF MatchWindow, Earlier

LEMMA EarlierIsTransitive ==
    ASSUME NEW u \in MatchWindow, NEW v \in MatchWindow, NEW w \in MatchWindow,
           Earlier(u, v), Earlier(v, w)
    PROVE  Earlier(u, w)
BY DEF MatchWindow, Earlier

(* A further window goes before the first one that is later.               *)
LEMMA Insertion ==
    ASSUME NEW n \in Nat, NEW S, S \subseteq MatchWindow,
           NEW t, IsSortingOf(t, n, S), NEW x \in MatchWindow, x \notin S
    PROVE  \E s : IsSortingOf(s, n + 1, S \cup {x})
<1> DEFINE Places == {i \in 1..(n + 1) : i = n + 1 \/ (i \in 1..n /\ Earlier(x, t[i]))}
<1>1. PICK p \in Places : \A i \in Places : p <= i
  <2>1. Places \subseteq Nat /\ n + 1 \in Places
    OBVIOUS
  <2> HIDE DEF Places
  <2> QED
    BY <2>1, LeastNatural
<1>2. p \in 1..(n + 1)
  OBVIOUS
<1>3. \A i \in 1..n : t[i] \in S /\ t[i] \in MatchWindow /\ t[i] # x
  BY DEF IsSortingOf
<1>4. \A i \in 1..n : i < p => Earlier(t[i], x)
  <2> SUFFICES ASSUME NEW i \in 1..n, i < p PROVE Earlier(t[i], x)
    OBVIOUS
  <2>1. ~Earlier(x, t[i])
    BY <1>1
  <2> QED
    BY <2>1, <1>3, EarlierIsTotal
<1>5. \A i \in 1..n : i >= p => Earlier(x, t[i])
  <2> SUFFICES ASSUME NEW i \in 1..n, i >= p PROVE Earlier(x, t[i])
    OBVIOUS
  <2>1. p \in 1..n /\ Earlier(x, t[p])
    BY <1>1
  <2>2. CASE i = p
    BY <2>1, <2>2
  <2>3. CASE p < i
    <3>1. Earlier(t[p], t[i])
      BY <2>1, <2>3 DEF IsSortingOf, InOrder
    <3> QED
      BY <2>1, <3>1, <1>3, EarlierIsTransitive
  <2> QED
    BY <2>2, <2>3, <1>2
<1> DEFINE s == [i \in 1..(n + 1) |->
                    IF i < p THEN t[i] ELSE IF i = p THEN x ELSE t[i - 1]]
<1>6. s \in [1..(n + 1) -> S \cup {x}]
  <2> SUFFICES ASSUME NEW i \in 1..(n + 1) PROVE s[i] \in S \cup {x}
    OBVIOUS
  <2> QED
    BY <1>2, <1>3
<1>7. InOrder(s)
  <2> SUFFICES ASSUME NEW i \in 1..(n + 1), NEW k \in 1..(n + 1), i < k
               PROVE  Earlier(s[i], s[k])
    BY DEF InOrder
  <2>0. \A a, b \in 1..n : a < b => Earlier(t[a], t[b])
    BY DEF IsSortingOf, InOrder
  <2>1. CASE k < p
    BY <2>1, <2>0, <1>2
  <2>2. CASE k = p
    BY <2>2, <1>4, <1>2
  <2>3. CASE k > p /\ i < p
    <3>1. i \in 1..n /\ k - 1 \in 1..n /\ i < k - 1 /\ s[i] = t[i] /\ s[k] = t[k - 1]
      BY <2>3, <1>2
    <3> QED
      BY <3>1, <2>0
  <2>4. CASE k > p /\ i = p
    <3>1. k - 1 \in 1..n /\ k - 1 >= p /\ s[i] = x /\ s[k] = t[k - 1]
      BY <2>4, <1>2
    <3> QED
      BY <3>1, <1>5
  <2>5. CASE k > p /\ i > p
    <3>1. i - 1 \in 1..n /\ k - 1 \in 1..n /\ i - 1 < k - 1 /\ s[i] = t[i - 1] /\ s[k] = t[k - 1]
      BY <2>5, <1>2
    <3> QED
      BY <3>1, <2>0
  <2> QED
    BY <2>1, <2>2, <2>3, <2>4, <2>5, <1>2
<1>8. ASSUME NEW v \in S \cup {x} PROVE \E i \in 1..(n + 1) : s[i] = v
  <2>1. CASE v = x
    BY <2>1, <1>2
  <2>2. CASE v \in S
    <3>1. PICK i \in 1..n : t[i] = v
      BY <2>2 DEF IsSortingOf
    <3>2. CASE i < p
      BY <3>1, <3>2, <1>2
    <3>3. CASE i >= p
      <4>1. i + 1 \in 1..(n + 1) /\ s[i + 1] = t[i]
        BY <3>3, <1>2
      <4> QED
        BY <4>1, <3>1
    <3> QED
      BY <3>2, <3>3, <1>2
  <2> QED
    BY <2>1, <2>2
<1> HIDE DEF s
<1>9. IsSortingOf(s, n + 1, S \cup {x})
  BY <1>6, <1>7, <1>8 DEF IsSortingOf
<1> QED
  BY <1>9

LEMMA EverySetSorts ==
    ASSUME NEW S, S \subseteq MatchWindow, IsFiniteSet(S)
    PROVE  \E s : IsSortingOf(s, Cardinality(S), S)
<1> DEFINE Unsorted(n) == {T \in SUBSET MatchWindow :
                /\ IsFiniteSet(T) /\ Cardinality(T) = n
                /\ ~\E s : IsSortingOf(s, n, T)}
           Bad == {n \in Nat : Unsorted(n) # {}}
<1>1. Bad = {}
  <2> SUFFICES ASSUME Bad # {} PROVE FALSE
    OBVIOUS
  <2>1. PICK n \in Bad : \A k \in Bad : n <= k
    <3>1. Bad \subseteq Nat
      OBVIOUS
    <3> HIDE DEF Bad
    <3> QED
      BY <3>1, LeastNatural
  <2>2. PICK T \in SUBSET MatchWindow :
            /\ IsFiniteSet(T) /\ Cardinality(T) = n
            /\ ~\E s : IsSortingOf(s, n, T)
    OBVIOUS
  <2>3. T # {}
    <3> SUFFICES ASSUME T = {} PROVE FALSE
      OBVIOUS
    <3>1. n = 0
      BY <2>2, FS_EmptySet
    <3>2. IsSortingOf([i \in 1..0 |-> i], 0, {})
      BY DEF IsSortingOf, InOrder
    <3> QED
      BY <3>1, <3>2, <2>2
  <2>4. PICK x \in T : TRUE
    BY <2>3
  <2>5. IsFiniteSet(T \ {x}) /\ Cardinality(T \ {x}) = n - 1 /\ n - 1 \in Nat
    <3>1. IsFiniteSet(T \ {x}) /\ Cardinality(T \ {x}) = n - 1
      BY <2>2, <2>4, FS_RemoveElement
    <3> QED
      BY <3>1, FS_CardinalityType
  <2>6. n - 1 \notin Bad
    BY <2>1, <2>5
  <2>7. PICK t : IsSortingOf(t, n - 1, T \ {x})
    BY <2>5, <2>6, <2>2
  <2>8. \E s : IsSortingOf(s, (n - 1) + 1, (T \ {x}) \cup {x})
    BY <2>7, <2>5, <2>2, <2>4, Insertion
  <2>9. (n - 1) + 1 = n /\ (T \ {x}) \cup {x} = T
    BY <2>4
  <2> QED
    BY <2>8, <2>9, <2>2
<1>2. Cardinality(S) \in Nat
  BY FS_CardinalityType
<1> QED
  BY <1>1, <1>2

(* Sorted enumerates the windows in order.                                 *)
LEMMA SortedSorts ==
    ASSUME NEW S, S \subseteq MatchWindow, IsFiniteSet(S)
    PROVE  Cardinality(S) \in Nat /\ IsSortingOf(Sorted(S), Cardinality(S), S)
<1> DEFINE n == Cardinality(S)
<1>1. n \in Nat
  BY FS_CardinalityType
<1>2. PICK s : IsSortingOf(s, n, S)
  BY EverySetSorts
<1>3. s \in SetToSeqs(S) /\ InOrder(s)
  <2>1. ASSUME NEW i \in 1..n, NEW k \in 1..n, i # k PROVE s[i] # s[k]
    <3>1. s[i] \in MatchWindow /\ s[k] \in MatchWindow
      BY <1>2 DEF IsSortingOf
    <3>2. Earlier(s[i], s[k]) \/ Earlier(s[k], s[i])
      BY <1>1, <1>2, <2>1 DEF IsSortingOf, InOrder
    <3> QED
      BY <3>1, <3>2, EarlierIsTotal
  <2> QED
    BY <1>2, <2>1 DEF SetToSeqs, IsSortingOf
<1>4. Sorted(S) \in SetToSeqs(S) /\ InOrder(Sorted(S))
  BY <1>3 DEF Sorted, InOrder
<1>5. Sorted(S) \in Injection(1..n, S)
  BY <1>4 DEF SetToSeqs, Injection, IsInjective
<1>6. Sorted(S) \in Surjection(1..n, S)
  <2>1. Cardinality(1..n) = n
    BY <1>1, FS_Interval
  <2> QED
    BY <1>5, <2>1, FS_Injection
<1> QED
  BY <1>1, <1>4, <1>6 DEF IsSortingOf, Surjection

-----------------------------------------------------------------------------
(* The fold.  The set recursion by which the library defines it has a      *)
(* solution, so that its value on 1..k is one merge step after that on     *)
(* 1..(k - 1).                                                             *)

IsFold(g, n, s) ==
    g = [T \in SUBSET (1..n) |->
            IF T = {} THEN <<>> ELSE MergeInto(g[T \ {Max(T)}], s[Max(T)])]

LEMMA FoldExtends ==
    ASSUME NEW n \in Nat, n > 0, NEW s, NEW h, IsFold(h, n - 1, s)
    PROVE  \E g : IsFold(g, n, s)
<1> DEFINE g == [T \in SUBSET (1..n) |->
                    IF n \in T THEN MergeInto(h[T \ {n}], s[n]) ELSE h[T]]
<1>1. \A T \in SUBSET (1..n) : n \notin T => T \in SUBSET (1..(n - 1))
  OBVIOUS
<1>2. \A T \in SUBSET (1..(n - 1)) :
          h[T] = IF T = {} THEN <<>> ELSE MergeInto(h[T \ {Max(T)}], s[Max(T)])
  BY Zenon DEF IsFold
<1>3. ASSUME NEW T \in SUBSET (1..n)
      PROVE  g[T] = IF T = {} THEN <<>> ELSE MergeInto(g[T \ {Max(T)}], s[Max(T)])
  <2>1. CASE n \in T
    <3>1. \A y \in T : y <= n
      OBVIOUS
    <3>2. Max(T) = n
      BY <2>1, <3>1, MaxOfInterval
    <3>3. g[T] = MergeInto(h[T \ {n}], s[n]) /\ T # {}
      BY <2>1
    <3>4. g[T \ {n}] = h[T \ {n}]
      OBVIOUS
    <3> QED
      BY <3>2, <3>3, <3>4, Zenon
  <2>2. CASE n \notin T
    <3>1. g[T] = h[T] /\ T \in SUBSET (1..(n - 1))
      BY <2>2, <1>1
    <3>2. T \ {Max(T)} \in SUBSET (1..n) /\ n \notin T \ {Max(T)}
      BY <2>2
    <3>3. g[T \ {Max(T)}] = h[T \ {Max(T)}]
      BY <3>2
    <3> HIDE DEF g
    <3> QED
      BY <3>1, <3>3, <1>2, Zenon
  <2> QED
    BY <2>1, <2>2
<1>4. g = [T \in SUBSET (1..n) |-> g[T]]
  OBVIOUS
<1> HIDE DEF g
<1>5. IsFold(g, n, s)
  BY <1>3, <1>4, Zenon DEF IsFold
<1> QED
  BY <1>5

LEMMA FoldExists ==
    ASSUME NEW n \in Nat, NEW s
    PROVE  \E g : IsFold(g, n, s)
<1> DEFINE Bad == {k \in Nat : ~\E g : IsFold(g, k, s)}
<1>1. Bad = {}
  <2> SUFFICES ASSUME Bad # {} PROVE FALSE
    OBVIOUS
  <2>1. PICK k \in Bad : \A i \in Bad : k <= i
    <3>1. Bad \subseteq Nat
      OBVIOUS
    <3> HIDE DEF Bad
    <3> QED
      BY <3>1, LeastNatural
  <2>2. k \in Nat /\ ~\E g : IsFold(g, k, s)
    OBVIOUS
  <2>3. CASE k = 0
    <3> DEFINE g == [T \in SUBSET (1..0) |-> <<>>]
    <3>1. \A T \in SUBSET (1..0) : T = {}
      OBVIOUS
    <3>2. IsFold(g, 0, s)
      BY <3>1, Zenon DEF IsFold
    <3> QED
      BY <2>2, <2>3, <3>2
  <2>4. CASE k > 0
    <3>1. k - 1 \in Nat /\ k - 1 \notin Bad
      BY <2>1, <2>2, <2>4
    <3>2. PICK h : IsFold(h, k - 1, s)
      BY <3>1
    <3> QED
      BY <2>2, <2>4, <3>2, FoldExtends
  <2> QED
    BY <2>2, <2>3, <2>4
<1> QED
  BY <1>1

(* The loop: merged[k] is what the code has merged after k candidates.     *)
IsLoop(merged, n, s) ==
    /\ merged[0] = <<>>
    /\ \A k \in 1..n : merged[k] = MergeInto(merged[k - 1], s[k])
    /\ merged[n] = FoldLeft(MergeInto, <<>>, s)

LEMMA FoldIsLoop ==
    ASSUME NEW n \in Nat, NEW s, DOMAIN s = 1..n
    PROVE  \E merged : IsLoop(merged, n, s)
<1> DEFINE g == CHOOSE g : IsFold(g, n, s)
<1>1. IsFold(g, n, s)
  BY FoldExists
<1>2. FoldLeft(MergeInto, <<>>, s) = g[1..n]
  BY Zenon DEF FoldLeft, MapThenFoldSet, IsFold
<1> HIDE DEF g
<1> DEFINE merged == [k \in 0..n |-> g[1..k]]
<1>3. merged[0] = <<>>
  <2>1. 1..0 = {} /\ {} \in SUBSET (1..n)
    OBVIOUS
  <2>2. g[{}] = <<>>
    BY <1>1, <2>1, Zenon DEF IsFold
  <2> QED
    BY <2>1, <2>2
<1>4. ASSUME NEW k \in 1..n PROVE merged[k] = MergeInto(merged[k - 1], s[k])
  <2>1. 1..k \in SUBSET (1..n) /\ 1..k # {}
    <3>1. \A i \in 1..k : i \in 1..n
      OBVIOUS
    <3>2. k \in 1..k
      OBVIOUS
    <3> QED
      BY <3>1, <3>2, Zenon
  <2>2. Max(1..k) = k
    <3>1. k \in Nat /\ k \in 1..k /\ \A y \in 1..k : y <= k
      OBVIOUS
    <3> QED
      BY <3>1, MaxOfInterval
  <2>3. (1..k) \ {k} = 1..(k - 1)
    OBVIOUS
  <2>4. g[1..k] = MergeInto(g[1..(k - 1)], s[k])
    BY <1>1, <2>1, <2>2, <2>3, Zenon DEF IsFold
  <2>5. k \in 0..n /\ k - 1 \in 0..n
    OBVIOUS
  <2> QED
    BY <2>4, <2>5, Zenon
<1>5. merged[n] = FoldLeft(MergeInto, <<>>, s)
  <2>1. n \in 0..n
    OBVIOUS
  <2> QED
    BY <1>2, <2>1, Zenon
<1> HIDE DEF merged
<1>6. IsLoop(merged, n, s)
  BY <1>3, <1>4, <1>5 DEF IsLoop
<1> QED
  BY <1>6

-----------------------------------------------------------------------------
(* Merging.  Windows are proper, and a candidate is merged after all that  *)
(* are earlier.                                                            *)

ProperWindow == {w \in MatchWindow : w.start <= w.end}

Before(v, w) == v.event < w.event \/ (v.event = w.event /\ v.end < w.start)

(* What has been merged after the candidates of C.                         *)
MergedSoFar(m, C) ==
    /\ m \in Seq(ProperWindow)
    /\ \A i \in 1..Len(m) : IsComponent(m[i], C)
    /\ \A v \in C : \E i \in 1..Len(m) : Overlap(v, m[i])
    /\ \A i, j \in 1..Len(m) : i < j => Before(m[i], m[j])

NotEarlier(w, C) ==
    \A v \in C : v.event < w.event \/ (v.event = w.event /\ v.start <= w.start)

Grown(window, w) == [window EXCEPT !.end = LaterOf(@, w.end)]

(* A candidate that does not reach a component leaves it.                  *)
LEMMA ComponentStays ==
    ASSUME NEW C, NEW w, NEW u, IsComponent(u, C), ~Overlap(w, u)
    PROVE  IsComponent(u, C \cup {w})
<1>1. {v \in C \cup {w} : Overlap(v, u)} = {v \in C : Overlap(v, u)}
  OBVIOUS
<1> QED
  BY <1>1 DEF IsComponent

(* A candidate that reaches nothing is a component.                        *)
LEMMA ComponentBegins ==
    ASSUME NEW C, NEW w \in ProperWindow, \A v \in C : ~Overlap(v, w)
    PROVE  IsComponent(w, C \cup {w})
<1>1. {v \in C \cup {w} : Overlap(v, w)} = {w}
  BY DEF Overlap, ProperWindow, MatchWindow
<1>2. Covered(w, {w})
  BY DEF Covered, ProperWindow, MatchWindow
<1> QED
  BY <1>1, <1>2 DEF IsComponent, ProperWindow, MatchWindow

(* A candidate that reaches the last component extends it.                 *)
LEMMA ComponentGrows ==
    ASSUME NEW C, C \subseteq ProperWindow, NEW w \in ProperWindow, NotEarlier(w, C),
           NEW u \in ProperWindow, IsComponent(u, C),
           u.event = w.event, w.start <= u.end
    PROVE  IsComponent(Grown(u, w), C \cup {w}) /\ Grown(u, w) \in ProperWindow
<1> DEFINE n == Grown(u, w)
           old == {v \in C : Overlap(v, u)}
           new == {v \in C \cup {w} : Overlap(v, n)}
<1>1. /\ n \in ProperWindow /\ n.event = u.event /\ n.start = u.start
      /\ n.end = LaterOf(u.end, w.end) /\ u.end <= n.end /\ w.end <= n.end
      /\ (n.end = u.end \/ n.end = w.end)
  BY DEF Grown, LaterOf, ProperWindow, MatchWindow
<1> HIDE DEF n
<1>2. /\ \E v \in old : v.start = u.start
      /\ \E v \in old : v.end = u.end
      /\ \A v \in old : u.start <= v.start /\ v.end <= u.end
      /\ Covered(u, old)
  BY DEF IsComponent
<1>3. \A v \in old : v \in ProperWindow /\ v.event = u.event
  BY DEF Overlap
<1>4. u.start <= w.start
  BY <1>2, <1>3 DEF NotEarlier, ProperWindow, MatchWindow
<1>5. w \in new
  BY <1>1, <1>4 DEF Overlap, ProperWindow, MatchWindow
<1>6. \A v \in old : v \in new
  BY <1>1, <1>3 DEF Overlap, ProperWindow, MatchWindow
<1>7. \A v \in new : v = w \/ v \in old
  <2> SUFFICES ASSUME NEW v \in C, Overlap(v, n) PROVE Overlap(v, u)
    OBVIOUS
  <2>1. v \in ProperWindow /\ v.event = w.event /\ v.start <= w.start
    BY <1>1 DEF NotEarlier, Overlap, ProperWindow, MatchWindow
  <2> QED
    BY <2>1, <1>1 DEF Overlap, ProperWindow, MatchWindow
<1>8. \E v \in new : v.start = n.start
  BY <1>1, <1>2, <1>6
<1>9. \E v \in new : v.end = n.end
  BY <1>1, <1>2, <1>5, <1>6
<1>10. \A v \in new : n.start <= v.start /\ v.end <= n.end
  <2> SUFFICES ASSUME NEW v \in new PROVE n.start <= v.start /\ v.end <= n.end
    OBVIOUS
  <2>1. CASE v = w
    BY <2>1, <1>1, <1>4
  <2>2. CASE v \in old
    <3>1. u.start <= v.start /\ v.end <= u.end
      BY <2>2, <1>2
    <3>2. v.end \in Int /\ u.end \in Int /\ n.end \in Int
      BY <2>2, <1>1, <1>3 DEF ProperWindow, MatchWindow
    <3> QED
      BY <3>1, <3>2, <1>1
  <2> QED
    BY <2>1, <2>2, <1>7
<1>11. Covered(n, new)
  <2> SUFFICES ASSUME NEW v \in new, v.end < n.end
               PROVE  \E x \in new : x.start <= v.end /\ v.end < x.end
    BY DEF Covered
  <2>1. CASE v \in old /\ v.end < u.end
    BY <2>1, <1>2, <1>6 DEF Covered
  <2>2. CASE v \in old /\ v.end = u.end
    BY <2>2, <1>1, <1>5 DEF ProperWindow, MatchWindow
  <2>3. CASE v = w
    <3>1. n.end = u.end
      BY <2>3, <1>1 DEF ProperWindow, MatchWindow
    <3>2. PICK x \in old : x.end = u.end
      BY <1>2
    <3>3. x.start <= w.start /\ w.start <= w.end
      BY <3>2, <1>3 DEF NotEarlier, ProperWindow, MatchWindow
    <3> QED
      BY <2>3, <3>1, <3>2, <3>3, <1>3, <1>6 DEF ProperWindow, MatchWindow
  <2>4. \A x \in old : x.end <= u.end /\ x \in ProperWindow
    BY <1>2, <1>3
  <2> QED
    BY <2>1, <2>2, <2>3, <2>4, <1>7 DEF ProperWindow, MatchWindow
<1>12. IsComponent(n, C \cup {w})
  BY <1>8, <1>9, <1>10, <1>11 DEF IsComponent
<1> QED
  BY <1>1, <1>12 DEF n

(* One merge step.                                                         *)
LEMMA MergeStep ==
    ASSUME NEW C, C \subseteq ProperWindow, NEW w \in ProperWindow, NotEarlier(w, C),
           NEW m, MergedSoFar(m, C)
    PROVE  MergedSoFar(MergeInto(m, w), C \cup {w})
<1> DEFINE n == Len(m)
<1>1. n \in Nat /\ m \in [1..n -> ProperWindow]
  BY DEF MergedSoFar
<1>2. \A i \in 1..n : m[i] \in ProperWindow /\ IsComponent(m[i], C)
  BY <1>1 DEF MergedSoFar
<1>3. \A i \in 1..n : \E v \in C : v.event = m[i].event /\ v.start = m[i].start
  BY <1>2 DEF IsComponent, Overlap
<1>4. \A i \in 1..n : m[i].event <= w.event
                      /\ (m[i].event = w.event => m[i].start <= w.start)
  <2> SUFFICES ASSUME NEW i \in 1..n
               PROVE  m[i].event <= w.event
                      /\ (m[i].event = w.event => m[i].start <= w.start)
    OBVIOUS
  <2>1. PICK v \in C : v.event = m[i].event /\ v.start = m[i].start
    BY <1>3
  <2> QED
    BY <2>1, <1>2 DEF NotEarlier, ProperWindow, MatchWindow
<1>5. \A i, j \in 1..n : i < j => Before(m[i], m[j])
  BY DEF MergedSoFar
<1>6. m = <<>> <=> n = 0
  BY <1>1
<1>7. CASE Merges(m, w)
  <2> DEFINE r == [m EXCEPT ![n] = Grown(m[n], w)]
  <2>1. n \in 1..n /\ m[n].event = w.event /\ w.start <= m[n].end
    BY <1>1, <1>6, <1>7 DEF Merges, Last
  <2>2. MergeInto(m, w) = r
    BY <1>7, <2>1, <1>2 DEF MergeInto, Grown
  <2>3. IsComponent(Grown(m[n], w), C \cup {w}) /\ Grown(m[n], w) \in ProperWindow
    BY <2>1, <1>2, ComponentGrows
  <2>4. /\ r \in Seq(ProperWindow) /\ Len(r) = n
        /\ \A i \in 1..n : i # n => r[i] = m[i]
        /\ r[n] = Grown(m[n], w)
    BY <2>1, <2>3, <1>1 DEF MergedSoFar
  <2>5. Grown(m[n], w).event = m[n].event /\ Grown(m[n], w).start = m[n].start
        /\ m[n].end <= Grown(m[n], w).end /\ w.end <= Grown(m[n], w).end
    BY <2>1, <1>2 DEF Grown, LaterOf, ProperWindow, MatchWindow
  <2> HIDE DEF r
  <2>6. ASSUME NEW i \in 1..n, i # n PROVE ~Overlap(w, m[i])
    <3>1. Before(m[i], m[n])
      BY <2>1, <2>6, <1>5
    <3>2. m[n].start <= w.start
      BY <2>1, <1>4
    <3> QED
      BY <3>1, <3>2, <2>1, <2>6, <1>2 DEF Before, Overlap, ProperWindow, MatchWindow
  <2>7. \A i \in 1..n : IsComponent(r[i], C \cup {w})
    BY <2>3, <2>4, <2>6, <1>2, ComponentStays
  <2>8. \A v \in C \cup {w} : \E i \in 1..n : Overlap(v, r[i])
    <3>1. Overlap(w, r[n])
      <4>1. m[n].start <= w.start
        BY <2>1, <1>4
      <4> QED
        BY <4>1, <2>1, <2>3, <2>4, <2>5, <1>2 DEF Overlap, ProperWindow, MatchWindow
    <3>2. ASSUME NEW v \in C PROVE \E i \in 1..n : Overlap(v, r[i])
      <4>1. PICK i \in 1..n : Overlap(v, m[i])
        BY DEF MergedSoFar
      <4>2. CASE i # n
        BY <4>1, <4>2, <2>4
      <4>3. CASE i = n
        <5>1. Overlap(v, r[n])
          BY <4>1, <4>3, <2>1, <2>3, <2>4, <2>5, <1>2 DEF Overlap, ProperWindow, MatchWindow
        <5> QED
          BY <5>1, <2>1
      <4> QED
        BY <4>2, <4>3
    <3> QED
      BY <3>1, <3>2, <2>1
  <2>9. \A i, j \in 1..n : i < j => Before(r[i], r[j])
    <3> SUFFICES ASSUME NEW i \in 1..n, NEW j \in 1..n, i < j PROVE Before(r[i], r[j])
      OBVIOUS
    <3>1. i # n /\ r[i] = m[i] /\ Before(m[i], m[j])
      BY <1>5, <2>4
    <3>2. r[j].event = m[j].event /\ r[j].start = m[j].start
      BY <2>4, <2>5
    <3> QED
      BY <3>1, <3>2 DEF Before
  <2> QED
    BY <2>2, <2>4, <2>7, <2>8, <2>9 DEF MergedSoFar
<1>8. CASE ~Merges(m, w)
  <2> DEFINE r == Append(m, w)
  <2>1. MergeInto(m, w) = r
    BY <1>8 DEF MergeInto
  <2>2. /\ r \in Seq(ProperWindow) /\ Len(r) = n + 1
        /\ \A i \in 1..n : r[i] = m[i]
        /\ r[n + 1] = w
    BY <1>1 DEF MergedSoFar
  <2> HIDE DEF r
  <2>3. ASSUME NEW i \in 1..n PROVE Before(m[i], w)
    <3>1. n \in 1..n /\ m # <<>> /\ Last(m) = m[n]
      BY <1>1, <1>6 DEF Last
    <3>2. m[n].event # w.event \/ w.start > m[n].end
      BY <3>1, <1>8, <1>2 DEF Merges, ProperWindow, MatchWindow
    <3>3. Before(m[n], w)
      BY <3>1, <3>2, <1>2, <1>4 DEF Before, ProperWindow, MatchWindow
    <3>4. i = n \/ Before(m[i], m[n])
      BY <3>1, <1>5
    <3>5. m[i] \in ProperWindow /\ m[n] \in ProperWindow
      BY <1>2, <3>1
    <3> QED
      BY <3>3, <3>4, <3>5 DEF Before, ProperWindow, MatchWindow
  <2>4. \A i \in 1..n : ~Overlap(w, m[i])
    BY <2>3, <1>2 DEF Before, Overlap, ProperWindow, MatchWindow
  <2>5. ASSUME NEW v \in C PROVE ~Overlap(v, w)
    <3>1. PICK i \in 1..n : Overlap(v, m[i])
      BY DEF MergedSoFar
    <3>2. v.end <= m[i].end /\ v.event = m[i].event
      BY <3>1, <1>2 DEF IsComponent, Overlap
    <3>3. m[i] \in ProperWindow /\ v \in ProperWindow
      BY <1>2
    <3> QED
      BY <3>2, <3>3, <2>3 DEF Before, Overlap, ProperWindow, MatchWindow
  <2>6. IsComponent(w, C \cup {w})
    BY <2>5, ComponentBegins
  <2>7. \A i \in 1..(n + 1) : IsComponent(r[i], C \cup {w})
    <3> SUFFICES ASSUME NEW i \in 1..(n + 1) PROVE IsComponent(r[i], C \cup {w})
      OBVIOUS
    <3>1. CASE i = n + 1
      BY <3>1, <2>2, <2>6
    <3>2. CASE i \in 1..n
      BY <3>2, <2>2, <2>4, <1>2, ComponentStays
    <3> QED
      BY <3>1, <3>2, <1>1
  <2>8. \A v \in C \cup {w} : \E i \in 1..(n + 1) : Overlap(v, r[i])
    <3>1. Overlap(w, r[n + 1]) /\ n + 1 \in 1..(n + 1)
      BY <2>2, <1>1 DEF Overlap, ProperWindow, MatchWindow
    <3>2. \A i \in 1..n : i \in 1..(n + 1)
      BY <1>1
    <3> QED
      BY <3>1, <3>2, <2>2 DEF MergedSoFar
  <2>9. \A i, j \in 1..(n + 1) : i < j => Before(r[i], r[j])
    <3> SUFFICES ASSUME NEW i \in 1..(n + 1), NEW j \in 1..(n + 1), i < j
                 PROVE  Before(r[i], r[j])
      OBVIOUS
    <3>1. i \in 1..n /\ (j \in 1..n \/ j = n + 1)
      BY <1>1
    <3> QED
      BY <3>1, <2>2, <2>3, <1>5
  <2> QED
    BY <2>1, <2>2, <2>7, <2>8, <2>9 DEF MergedSoFar
<1> QED
  BY <1>7, <1>8

-----------------------------------------------------------------------------
(* Candidates.                                                             *)

FixtureLists == [Fixtures -> Fixture]

LEMMA ConstantTypes ==
    /\ BeforeKickoff \in Nat /\ AfterKickoff \in Nat /\ CatchUp \in Nat
    /\ BeforeKickoff > 0 /\ AfterKickoff > 0 /\ CatchUp > 0
    /\ Span \in Nat /\ Span > 0
    /\ Events \subseteq Nat /\ Kickoffs \subseteq Nat /\ RefreshEvery \in Nat
BY WindowAssumption, BoundAssumption DEF Span

LEMMA WindowOf ==
    ASSUME NEW fixture \in Fixture, Scheduled(fixture)
    PROVE  /\ Window(fixture) \in ProperWindow
           /\ fixture.event \in Events /\ fixture.kickoff \in Nat
           /\ Window(fixture).event = fixture.event
           /\ Window(fixture).start = fixture.kickoff - BeforeKickoff
           /\ Window(fixture).end = fixture.kickoff + AfterKickoff
           /\ Window(fixture).end = Window(fixture).start + Span
           /\ Window(fixture).end \in Nat
<1>1. fixture.event \in Events /\ fixture.kickoff \in Kickoffs
  BY DEF Fixture, Scheduled
<1>2. fixture.event \in Nat /\ fixture.kickoff \in Nat
  BY <1>1, ConstantTypes
<1> QED
  BY <1>1, <1>2, ConstantTypes DEF Window, ProperWindow, MatchWindow, Span

LEMMA CandidateOf ==
    ASSUME NEW fixtures \in FixtureLists, NEW now, NEW v \in Candidates(fixtures, now)
    PROVE  /\ \E f \in Fixtures : Scheduled(fixtures[f]) /\ v = Window(fixtures[f])
           /\ v \in ProperWindow /\ v.event \in Events
           /\ v.end = v.start + Span /\ v.end > now /\ v.end \in Nat
<1>1. PICK f \in Fixtures : /\ Scheduled(fixtures[f]) /\ v = Window(fixtures[f])
                            /\ fixtures[f].kickoff + AfterKickoff > now
  BY DEF Candidates, FixtureLists
<1>2. fixtures[f] \in Fixture
  BY DEF FixtureLists
<1> QED
  BY <1>1, <1>2, WindowOf

LEMMA IsCandidate ==
    ASSUME NEW fixtures \in FixtureLists, NEW now, NEW f \in Fixtures,
           Scheduled(fixtures[f]), fixtures[f].kickoff + AfterKickoff > now
    PROVE  Window(fixtures[f]) \in Candidates(fixtures, now)
BY DEF Candidates, FixtureLists

LEMMA CandidatesFinite ==
    ASSUME NEW fixtures \in FixtureLists, NEW now
    PROVE  IsFiniteSet(Candidates(fixtures, now))
<1> DEFINE G == {g \in Fixtures : /\ Scheduled(fixtures[g])
                                  /\ fixtures[g].kickoff + AfterKickoff > now}
           h == [g \in G |-> Window(fixtures[g])]
<1>1. IsFiniteSet(G)
  BY FixturesAssumption, FS_Subset
<1>2. Candidates(fixtures, now) = {Window(fixtures[g]) : g \in G}
  BY DEF Candidates, FixtureLists
<1>3. h \in Surjection(G, Candidates(fixtures, now))
  BY <1>2 DEF Surjection
<1> HIDE DEF G, h
<1> QED
  BY <1>1, <1>3, FS_Surjection

-----------------------------------------------------------------------------
(* build_match_windows merges the candidates.                              *)

(* The loop invariant, at its end: after k candidates, those are merged.   *)
LEMMA LoopMerges ==
    ASSUME NEW C, C \subseteq ProperWindow, NEW n \in Nat, NEW s, IsSortingOf(s, n, C)
    PROVE  MergedSoFar(FoldLeft(MergeInto, <<>>, s), C)
<1> DEFINE Upto(k) == {v \in C : \E i \in 1..k : v = s[i]}
<1>1. s \in [1..n -> C] /\ \A i, k \in 1..n : i < k => Earlier(s[i], s[k])
  BY DEF IsSortingOf, InOrder
<1>2. PICK merged : IsLoop(merged, n, s)
  BY <1>1, FoldIsLoop
<1> DEFINE Bad == {k \in 0..n : ~MergedSoFar(merged[k], Upto(k))}
<1>3. Bad = {}
  <2> SUFFICES ASSUME Bad # {} PROVE FALSE
    OBVIOUS
  <2>1. PICK k \in Bad : \A i \in Bad : k <= i
    <3>1. Bad \subseteq Nat
      OBVIOUS
    <3> HIDE DEF Bad
    <3> QED
      BY <3>1, LeastNatural
  <2>2. k \in 0..n /\ ~MergedSoFar(merged[k], Upto(k))
    BY <2>1
  <2>3. CASE k = 0
    <3>1. Upto(0) = {} /\ merged[0] = <<>>
      BY <1>2 DEF IsLoop
    <3>2. MergedSoFar(<<>>, {})
      BY DEF MergedSoFar
    <3> QED
      BY <2>2, <2>3, <3>1, <3>2
  <2>4. CASE k > 0
    <3>1. k \in 1..n /\ k - 1 \in 0..n
      BY <2>2, <2>4
    <3>2. k - 1 \notin Bad
      <4>1. ~(k <= k - 1)
        BY <3>1
      <4> HIDE DEF Bad
      <4> QED
        BY <2>1, <4>1
    <3>3. MergedSoFar(merged[k - 1], Upto(k - 1))
      BY <3>1, <3>2
    <3>4. s[k] \in C /\ s[k] \in ProperWindow /\ Upto(k - 1) \subseteq ProperWindow
      BY <1>1, <3>1
    <3>5. NotEarlier(s[k], Upto(k - 1))
      <4> SUFFICES ASSUME NEW i \in 1..(k - 1)
                   PROVE  s[i].event < s[k].event
                          \/ (s[i].event = s[k].event /\ s[i].start <= s[k].start)
        BY DEF NotEarlier
      <4>1. i \in 1..n /\ i < k
        BY <3>1
      <4>2. Earlier(s[i], s[k]) /\ s[i] \in MatchWindow /\ s[k] \in MatchWindow
        BY <4>1, <3>1, <1>1 DEF ProperWindow
      <4> QED
        BY <4>2 DEF Earlier, MatchWindow
    <3>6. merged[k] = MergeInto(merged[k - 1], s[k])
      BY <1>2, <3>1 DEF IsLoop
    <3>7. Upto(k) = Upto(k - 1) \cup {s[k]}
      <4>1. \A i \in 1..k : i = k \/ i \in 1..(k - 1)
        BY <3>1
      <4>2. \A i \in 1..(k - 1) : i \in 1..k
        BY <3>1
      <4>3. k \in 1..k
        BY <3>1
      <4> QED
        BY <4>1, <4>2, <4>3, <3>4
    <3> HIDE DEF Upto, Bad
    <3>8. MergedSoFar(merged[k], Upto(k))
      BY <3>3, <3>4, <3>5, <3>6, <3>7, MergeStep
    <3> QED
      BY <2>2, <3>8
  <2> QED
    BY <2>2, <2>3, <2>4
<1>4. Upto(n) = C
  BY DEF IsSortingOf
<1>5. n \in 0..n /\ merged[n] = FoldLeft(MergeInto, <<>>, s)
  BY <1>2 DEF IsLoop
<1> QED
  BY <1>3, <1>4, <1>5

(* For every list of fixtures and every time, the windows are merged.      *)
LEMMA BuildMerges ==
    ASSUME NEW fixtures \in FixtureLists, NEW now
    PROVE  MergedSoFar(BuildMatchWindows(fixtures, now), Candidates(fixtures, now))
<1> DEFINE C == Candidates(fixtures, now)
<1>1. C \subseteq ProperWindow /\ C \subseteq MatchWindow
  BY CandidateOf DEF ProperWindow
<1>2. IsFiniteSet(C)
  BY CandidatesFinite
<1> HIDE DEF C
<1>3. Cardinality(C) \in Nat /\ IsSortingOf(Sorted(C), Cardinality(C), C)
  BY <1>1, <1>2, SortedSorts
<1>4. MergedSoFar(FoldLeft(MergeInto, <<>>, Sorted(C)), C)
  BY <1>1, <1>3, LoopMerges
<1> QED
  BY <1>4, Zenon DEF BuildMatchWindows, C

(* What the windows of one build have in common with the fixtures.         *)
LEMMA BuildIsMerge ==
    ASSUME NEW fixtures \in FixtureLists, NEW now
    PROVE  IsMergeOf(BuildMatchWindows(fixtures, now), Candidates(fixtures, now))
<1> DEFINE m == BuildMatchWindows(fixtures, now)
           C == Candidates(fixtures, now)
<1>1. MergedSoFar(m, C)
  BY BuildMerges
<1> HIDE DEF m, C
<1>2. DOMAIN m = 1..Len(m) /\ \A i \in 1..Len(m) : m[i] \in ProperWindow
  BY <1>1 DEF MergedSoFar
<1>3. ASSUME NEW i \in 1..Len(m), NEW k \in 1..Len(m), Overlap(m[i], m[k])
      PROVE  i = k
  <2> SUFFICES ASSUME i # k PROVE FALSE
    OBVIOUS
  <2>1. Before(m[i], m[k]) \/ Before(m[k], m[i])
    BY <1>1 DEF MergedSoFar
  <2> QED
    BY <2>1, <1>2, <1>3 DEF Before, Overlap, ProperWindow, MatchWindow
<1>4. IsMergeOf(m, C)
  BY <1>1, <1>2, <1>3 DEF MergedSoFar, IsMergeOf
<1> QED
  BY <1>4 DEF m, C

LEMMA BuildTyped ==
    ASSUME NEW fixtures \in FixtureLists, NEW now
    PROVE  BuildMatchWindows(fixtures, now) \in Seq(ProperWindow)
BY BuildMerges DEF MergedSoFar

(* Two windows of one build have different names.                          *)
LEMMA NamesAreDistinct ==
    ASSUME NEW fixtures \in FixtureLists, NEW now,
           NEW i \in DOMAIN BuildMatchWindows(fixtures, now),
           NEW k \in DOMAIN BuildMatchWindows(fixtures, now),
           ScheduleName(BuildMatchWindows(fixtures, now)[i])
               = ScheduleName(BuildMatchWindows(fixtures, now)[k])
    PROVE  i = k
<1> DEFINE m == BuildMatchWindows(fixtures, now)
<1>1. m[i] \in ProperWindow /\ m[k] \in ProperWindow
  BY BuildTyped
<1>2. m[i].event = m[k].event /\ m[i].start = m[k].start
  BY DEF ScheduleName
<1> HIDE DEF m
<1>3. Overlap(m[i], m[k])
  BY <1>1, <1>2 DEF Overlap, ProperWindow, MatchWindow
<1> QED
  BY <1>3, BuildIsMerge DEF IsMergeOf, m

(* A window starts with a fixture that is not over.                        *)
StartsWith(fixtures, g, event, start) ==
    /\ Scheduled(fixtures[g]) /\ fixtures[g].event = event
    /\ fixtures[g].kickoff - BeforeKickoff = start

LEMMA WindowStarts ==
    ASSUME NEW fixtures \in FixtureLists, NEW now,
           NEW i \in DOMAIN BuildMatchWindows(fixtures, now)
    PROVE  LET w == BuildMatchWindows(fixtures, now)[i]
           IN  /\ w \in ProperWindow /\ w.event \in Events
               /\ -BeforeKickoff <= w.start /\ w.start + Span <= w.end
               /\ w.start + Span > now
               /\ \E g \in Fixtures : StartsWith(fixtures, g, w.event, w.start)
<1> DEFINE w == BuildMatchWindows(fixtures, now)[i]
<1>1. IsComponent(w, Candidates(fixtures, now)) /\ w \in ProperWindow
  BY BuildIsMerge, BuildTyped DEF IsMergeOf
<1>2. PICK v \in Candidates(fixtures, now) :
          v.event = w.event /\ v.start = w.start /\ v.end <= w.end
  BY <1>1 DEF IsComponent, Overlap
<1>3. PICK g \in Fixtures : Scheduled(fixtures[g]) /\ v = Window(fixtures[g])
  BY CandidateOf
<1>4. v.event \in Events /\ v.end = v.start + Span /\ v.end > now
  BY CandidateOf
<1>5. fixtures[g] \in Fixture
  BY DEF FixtureLists
<1>6. /\ fixtures[g].kickoff \in Nat /\ v.event = fixtures[g].event
      /\ v.start = fixtures[g].kickoff - BeforeKickoff
  BY <1>3, <1>5, WindowOf
<1>7. StartsWith(fixtures, g, w.event, w.start)
  BY <1>2, <1>3, <1>6 DEF StartsWith
<1>8. -BeforeKickoff <= w.start
  BY <1>2, <1>6, ConstantTypes
<1> QED
  BY <1>1, <1>2, <1>4, <1>7, <1>8

(* A fixture that is not over is in a window.                              *)
LEMMA FixtureCovered ==
    ASSUME NEW fixtures \in FixtureLists, NEW now, NEW f \in Fixtures,
           Scheduled(fixtures[f]), fixtures[f].kickoff + AfterKickoff > now
    PROVE  \E i \in DOMAIN BuildMatchWindows(fixtures, now) :
               LET w == BuildMatchWindows(fixtures, now)[i]
               IN  /\ w.event = fixtures[f].event
                   /\ w.start <= fixtures[f].kickoff - BeforeKickoff
                   /\ fixtures[f].kickoff + AfterKickoff <= w.end
<1> DEFINE m == BuildMatchWindows(fixtures, now)
           C == Candidates(fixtures, now)
           v == Window(fixtures[f])
<1>1. v \in C
  BY IsCandidate
<1>2. fixtures[f] \in Fixture
  BY DEF FixtureLists
<1>3. /\ v.event = fixtures[f].event /\ v.start = fixtures[f].kickoff - BeforeKickoff
      /\ v.end = fixtures[f].kickoff + AfterKickoff
  BY DEF Window
<1>4. IsMergeOf(m, C)
  BY BuildIsMerge
<1> HIDE DEF m, C, v
<1>5. PICK i \in DOMAIN m : Overlap(v, m[i])
  BY <1>1, <1>4 DEF IsMergeOf
<1>6. IsComponent(m[i], C)
  BY <1>4 DEF IsMergeOf
<1>7. m[i].event = v.event /\ m[i].start <= v.start /\ v.end <= m[i].end
  BY <1>1, <1>5, <1>6 DEF IsComponent, Overlap
<1> QED
  BY <1>3, <1>7 DEF m

(* A window keeps its start, and so its name, until the match that it      *)
(* starts with is over: later builds have fewer candidates, and what they  *)
(* connect was connected before.                                           *)
LEMMA StartPersists ==
    ASSUME NEW fixtures \in FixtureLists, NEW now \in Int, NEW later \in Int, now <= later,
           NEW i \in DOMAIN BuildMatchWindows(fixtures, now),
           later < BuildMatchWindows(fixtures, now)[i].start + Span
    PROVE  \E k \in DOMAIN BuildMatchWindows(fixtures, later) :
               ScheduleName(BuildMatchWindows(fixtures, later)[k])
                   = ScheduleName(BuildMatchWindows(fixtures, now)[i])
<1> DEFINE w == BuildMatchWindows(fixtures, now)[i]
           C == Candidates(fixtures, now)
           D == Candidates(fixtures, later)
<1>1. w \in ProperWindow /\ IsComponent(w, C)
  BY BuildTyped, BuildIsMerge DEF IsMergeOf
<1>2. PICK g \in Fixtures : StartsWith(fixtures, g, w.event, w.start)
  BY WindowStarts
<1>3. /\ fixtures[g] \in Fixture /\ fixtures[g].kickoff \in Nat
      /\ Window(fixtures[g]).event = w.event /\ Window(fixtures[g]).start = w.start
      /\ fixtures[g].kickoff + AfterKickoff = w.start + Span
  <2>1. fixtures[g] \in Fixture
    BY DEF FixtureLists
  <2> QED
    BY <2>1, <1>2, WindowOf, ConstantTypes DEF StartsWith, Span
<1>4. PICK k \in DOMAIN BuildMatchWindows(fixtures, later) :
          LET u == BuildMatchWindows(fixtures, later)[k]
          IN  u.event = w.event /\ u.start <= w.start /\ w.start + Span <= u.end
  <2>1. Scheduled(fixtures[g]) /\ fixtures[g].event = w.event
        /\ fixtures[g].kickoff - BeforeKickoff = w.start
    BY <1>2 DEF StartsWith
  <2>2. fixtures[g].kickoff + AfterKickoff > later
    BY <1>3, <1>1, ConstantTypes DEF ProperWindow, MatchWindow
  <2> QED
    BY <1>3, <2>1, <2>2, FixtureCovered
<1> DEFINE u == BuildMatchWindows(fixtures, later)[k]
<1>5. u \in ProperWindow /\ IsComponent(u, D)
  BY BuildTyped, BuildIsMerge DEF IsMergeOf
<1>6. D \subseteq C
  <2> SUFFICES ASSUME NEW v \in D PROVE v \in C
    OBVIOUS
  <2>1. PICK f \in Fixtures : /\ Scheduled(fixtures[f]) /\ v = Window(fixtures[f])
                              /\ fixtures[f].kickoff + AfterKickoff > later
    BY DEF Candidates, FixtureLists
  <2>2. fixtures[f] \in Fixture
    BY DEF FixtureLists
  <2>3. fixtures[f].kickoff \in Nat
    BY <2>1, <2>2, WindowOf
  <2>4. fixtures[f].kickoff + AfterKickoff > now
    BY <2>1, <2>3, ConstantTypes
  <2> QED
    BY <2>1, <2>4, IsCandidate
<1>7. \A v \in C : v \in ProperWindow
  BY CandidateOf
<1>8. u.event = w.event /\ u.start <= w.start /\ w.start + Span <= u.end
  BY <1>4
<1> HIDE DEF w, u, C, D
<1>9. \A v \in C : Overlap(v, w) => w.start <= v.start
  BY <1>1 DEF IsComponent
<1>10. \A v \in C : v.event = w.event /\ v.start < w.start => v.end < w.start
  BY <1>1, <1>7, <1>9 DEF Overlap, ProperWindow, MatchWindow
<1>11. u.start = w.start
  <2> SUFFICES ASSUME u.start < w.start PROVE FALSE
    BY <1>1, <1>5, <1>8 DEF ProperWindow, MatchWindow
  <2> DEFINE parts == {v \in D : Overlap(v, u)}
             early == {v \in parts : v.start < w.start}
             ends == {v.end : v \in early}
  <2>1. \A v \in parts : v \in C /\ v \in ProperWindow /\ v.event = w.event
    BY <1>6, <1>7, <1>8 DEF Overlap
  <2>2. early # {}
    <3>1. PICK v \in parts : v.start = u.start
      BY <1>5 DEF IsComponent
    <3> QED
      BY <3>1
  <2>3. \A v \in early : v.end < w.start /\ v.end \in Int
    BY <2>1, <1>10 DEF ProperWindow, MatchWindow
  <2>4. w.start \in Int /\ u.end \in Int
    BY <1>1, <1>5 DEF ProperWindow, MatchWindow
  <2>5. PICK v \in early : \A x \in early : x.end <= v.end
    <3>1. ends # {} /\ ends \subseteq Int /\ \A y \in ends : y <= w.start
      BY <2>2, <2>3, <2>4
    <3>2. \E e \in ends : \A y \in ends : y <= e
      <4> HIDE DEF ends
      <4> QED
        BY <3>1, <2>4, GreatestBelow
    <3> QED
      BY <3>2
  <2>6. v.end < w.start /\ v.end \in Int /\ v.end < u.end
    BY <2>3, <2>4, <1>8, ConstantTypes
  <2>7. PICK x \in parts : x.start <= v.end /\ v.end < x.end
    BY <2>6, <1>5 DEF IsComponent, Covered
  <2>8. x.start < w.start
    BY <2>1, <2>4, <2>6, <2>7 DEF ProperWindow, MatchWindow
  <2>9. x \in early /\ x.end <= v.end
    BY <2>5, <2>8
  <2> QED
    BY <2>1, <2>6, <2>7, <2>9 DEF ProperWindow, MatchWindow
<1> QED
  BY <1>8, <1>11 DEF ScheduleName, u, w

-----------------------------------------------------------------------------
(* The fixtures that are stored.                                           *)

AnswersTyped ==
    /\ answers \in Seq(FixtureLists) /\ answers # <<>>
    /\ accepted \in [Source -> 0..Len(answers)]

FixturesTyped == stored \in FixtureLists /\ AnswersTyped

(* A bundle leaves the stored fixtures as they are, or the wait for polls  *)
(* starts again.                                                           *)
LEMMA PersistTyped ==
    ASSUME FixturesTyped, NEW v \in DOMAIN answers, NEW source \in Source,
           Persist(v, source), UNCHANGED answers
    PROVE  /\ (stored \in FixtureLists)' /\ AnswersTyped'
           /\ UNCHANGED <<stored, changedAt>> \/ changedAt' = clock
<1>1. /\ answers[v] \in FixtureLists /\ stored \in FixtureLists
      /\ Len(answers) \in Nat /\ v \in 1..Len(answers)
      /\ accepted \in [Source -> 0..Len(answers)]
  BY DEF FixturesTyped, AnswersTyped
<1>2. /\ accepted' = [accepted EXCEPT ![source] = LaterOf(@, v)]
      /\ changedAt' = IF stored' = stored THEN changedAt ELSE clock
      /\ \/ stored' = stored
         \/ stored' = [f \in Fixtures |-> IF source \in {Null, answers[v][f].event}
                                         THEN answers[v][f] ELSE stored[f]]
  BY DEF Persist
<1>3. (stored \in FixtureLists)'
  BY <1>1, <1>2 DEF FixtureLists
<1>4. LaterOf(accepted[source], v) \in 0..Len(answers)
  BY <1>1 DEF LaterOf
<1>5. accepted' \in [Source -> 0..Len(answers)]
  BY <1>1, <1>2, <1>4
<1> QED
  BY <1>2, <1>3, <1>5 DEF FixturesTyped, AnswersTyped

LEMMA MoveTyped ==
    ASSUME FixturesTyped, NEW f \in Fixtures, NEW fixture \in Dates, Move(f, fixture)
    PROVE  AnswersTyped'
<1>1. answers \in Seq(FixtureLists) /\ Len(answers) \in Nat /\ Len(answers) >= 1
  BY DEF FixturesTyped, AnswersTyped
<1>2. Upstream \in FixtureLists /\ fixture \in Fixture
  <2>1. Upstream = answers[Len(answers)]
    BY DEF Upstream, Last
  <2> QED
    BY <1>1, <2>1, DatesAssumption
<1>3. answers' = Append(answers, [Upstream EXCEPT ![f] = fixture]) /\ accepted' = accepted
  BY DEF Move, database
<1>4. [Upstream EXCEPT ![f] = fixture] \in FixtureLists
  BY <1>2 DEF FixtureLists
<1>5. /\ answers' \in Seq(FixtureLists) /\ answers' # <<>>
      /\ Len(answers') = Len(answers) + 1
  BY <1>1, <1>3, <1>4
<1>6. accepted' \in [Source -> 0..Len(answers')]
  <2>1. accepted \in [Source -> 0..Len(answers)]
    BY DEF FixturesTyped, AnswersTyped
  <2> QED
    BY <1>1, <1>3, <1>5, <2>1
<1> QED
  BY <1>5, <1>6 DEF AnswersTyped

LEMMA InitTyped == Init => FixturesTyped
<1> SUFFICES ASSUME Init PROVE FixturesTyped
  OBVIOUS
<1>1. stored \in FixtureLists
  BY DatesAssumption DEF Init, FixtureLists
<1>2. answers = <<stored>> /\ answers \in Seq(FixtureLists) /\ Len(answers) = 1
  BY <1>1 DEF Init
<1>3. accepted \in [Source -> 0..1]
  BY DEF Init
<1> QED
  BY <1>1, <1>2, <1>3 DEF FixturesTyped, AnswersTyped

-----------------------------------------------------------------------------
(* The invariant of the schedules, in parts.                               *)

(* What a reconciliation is to leave behind.                               *)
Planned == BuildMatchWindows(stored, reconciler.now)

LiveSchedule == [window : ProperWindow, at : Int, fired : BOOLEAN]

(* A schedule is named after its window, which lasts a match at least, and *)
(* is due when the window starts, or soon.                                 *)
SchedulesSound ==
    /\ DOMAIN schedules \subseteq Events \X Int
    /\ schedules \in [DOMAIN schedules -> LiveSchedule]
    /\ \A name \in DOMAIN schedules :
           LET s == schedules[name]
           IN  /\ name = ScheduleName(s.window)
               /\ -BeforeKickoff <= s.window.start /\ s.window.start + Span <= s.window.end
               /\ 0 <= s.at /\ s.window.start <= s.at
               /\ s.at <= LaterOf(s.window.start, clock + CatchUp)

(* A chain polls, and a schedule that fired has one that polls at least    *)
(* for the length of a match, or had, or its chain broke off.              *)
ChainsSound ==
    /\ \A c \in chains :
           /\ c \in ProperWindow /\ c.event \in Events
           /\ c.start + Span <= c.end /\ polledAt[c.event] = clock
    /\ \A name \in DOMAIN schedules : schedules[name].fired =>
           \/ name[2] + Span <= polledAt[name[1]] + 1
           \/ \E c \in chains : c.event = name[1] /\ c.start = name[2]
           \/ name[2] + Span <= brokenUntil[name[1]]

(* The invocation under way works on the windows of the stored fixtures.   *)
Listing == [pc : {"list"}, now : Nat, windows : Seq(ProperWindow)]
Writing == [pc : {"delete", "ensure"}, now : Nat, windows : Seq(ProperWindow),
            existing : SUBSET (Events \X Int), obsolete : SUBSET (Events \X Int)]

(* The windows that are done.                                              *)
Done == Len(Planned) - Len(reconciler.windows)

ReconcilerSound ==
    \/ reconciler = Idle
    \/ /\ reconciler \in Listing \cup Writing
       /\ refreshed <= reconciler.now /\ reconciler.now <= clock
       /\ Done >= 0
       /\ \A j \in 1..Len(reconciler.windows) : reconciler.windows[j] = Planned[Done + j]
       /\ reconciler.pc \in {"list", "delete"} => reconciler.windows = Planned
       /\ reconciler.pc \in {"delete", "ensure"} =>
              /\ reconciler.existing \cap Names(Planned) \subseteq DOMAIN schedules
              /\ reconciler.obsolete \subseteq DOMAIN schedules \ Names(Planned)
              /\ DOMAIN schedules \subseteq reconciler.obsolete \cup Names(Planned)
              /\ \A name \in DOMAIN schedules \ reconciler.existing :
                     \E i \in 1..Done : name = ScheduleName(Planned[i])
              /\ \A i \in 1..Done :
                     /\ ScheduleName(Planned[i]) \in DOMAIN schedules
                     /\ Planned[i].start > reconciler.now =>
                            schedules[ScheduleName(Planned[i])].window = Planned[i]
       /\ reconciler.pc = "delete" => Done = 0
       /\ reconciler.pc = "ensure" => reconciler.obsolete = {}

TimesSound ==
    /\ clock \in 0..MaxClock /\ refreshed \in Nat /\ changedAt \in Nat
    /\ refreshed <= clock /\ changedAt <= clock /\ clock <= refreshed + RefreshEvery
    /\ polledAt \in [Events -> Nat] /\ \A e \in Events : polledAt[e] <= clock
    /\ brokenUntil \in [Events -> Nat]

(* How long it can take to poll.  A period ends with a run, and a catch-up *)
(* later its schedules fire; each window that had to be given up for one   *)
(* with a later start may have cost that much.                             *)
Period == RefreshEvery + CatchUp

StartBefore(fixtures, event, start) ==
    {g \in Fixtures : /\ Scheduled(fixtures[g]) /\ fixtures[g].event = event
                      /\ fixtures[g].kickoff - BeforeKickoff < start}

Rank(event, start) == Cardinality(StartBefore(stored, event, start))

(* The time since when the gameweek waits to be polled.                    *)
Since(event, start) ==
    LaterOf(LaterOf(LaterOf(polledAt[event], changedAt), brokenUntil[event]), start)

Deadline(event, start) == Since(event, start) + Period * (1 + Rank(event, start))

(* A schedule that has not fired is in time.                               *)
SchedulesInTime ==
    \A name \in DOMAIN schedules : ~schedules[name].fired =>
        /\ schedules[name].at <= Deadline(name[1], name[2])
        /\ clock <= Deadline(name[1], name[2])

(* What the last completed run planned is there, but for the windows whose *)
(* first match is over by now, and for a run that is under way.            *)
RefreshSound ==
    refreshed > changedAt =>
        LET windows == BuildMatchWindows(stored, refreshed)
        IN  \A i \in DOMAIN windows :
                /\ refreshed <= Deadline(windows[i].event, windows[i].start)
                /\ \/ ScheduleName(windows[i]) \in DOMAIN schedules
                   \/ /\ windows[i].start + Span <= clock
                      /\ reconciler # Idle => windows[i].start + Span <= reconciler.now

PolledInTime ==
    \A f \in Fixtures :
        /\ Scheduled(stored[f])
        /\ clock < stored[f].kickoff + AfterKickoff
        => clock <= Since(stored[f].event, stored[f].kickoff - BeforeKickoff) + Grace

PlanningSound ==
    /\ stored \in FixtureLists
    /\ AnswersTyped
    /\ TimesSound
    /\ SchedulesSound
    /\ ChainsSound
    /\ ReconcilerSound
    /\ SchedulesInTime
    /\ RefreshSound
    /\ PolledInTime

-----------------------------------------------------------------------------
(* Ranks and deadlines.                                                    *)

LEMMA PeriodTypes ==
    Period \in Nat /\ RefreshEvery <= Period /\ RefreshEvery + CatchUp = Period
BY ConstantTypes DEF Period

LEMMA StartBeforeFinite ==
    ASSUME NEW fixtures, NEW event, NEW start
    PROVE  /\ IsFiniteSet(StartBefore(fixtures, event, start))
           /\ Cardinality(StartBefore(fixtures, event, start)) \in Nat
<1>1. StartBefore(fixtures, event, start) \in SUBSET Fixtures
  BY DEF StartBefore
<1>2. IsFiniteSet(StartBefore(fixtures, event, start))
  BY <1>1, FixturesAssumption, FS_Subset
<1> QED
  BY <1>2, FS_CardinalityType

(* A fixture outside of a finite set of fixtures makes it larger.          *)
LEMMA OneMore ==
    ASSUME NEW S, NEW T, IsFiniteSet(T), S \subseteq T, NEW g \in T, g \notin S
    PROVE  Cardinality(S) + 1 <= Cardinality(T)
<1>1. IsFiniteSet(S) /\ IsFiniteSet(S \cup {g})
  BY FS_Subset, FS_AddElement
<1>2. Cardinality(S \cup {g}) = Cardinality(S) + 1
  BY <1>1, FS_AddElement
<1>3. S \cup {g} \in SUBSET T
  OBVIOUS
<1>4. Cardinality(S \cup {g}) <= Cardinality(T)
  BY <1>3, FS_Subset
<1> QED
  BY <1>2, <1>4

LEMMA RankGrows ==
    ASSUME NEW fixtures \in FixtureLists, NEW event \in Events,
           NEW s \in Int, NEW t \in Int, s < t,
           NEW g \in Fixtures, StartsWith(fixtures, g, event, s)
    PROVE  Cardinality(StartBefore(fixtures, event, s)) + 1
               <= Cardinality(StartBefore(fixtures, event, t))
<1> DEFINE S == StartBefore(fixtures, event, s)
           T == StartBefore(fixtures, event, t)
<1>1. S \subseteq T
  <2> SUFFICES ASSUME NEW f \in S PROVE f \in T
    OBVIOUS
  <2>1. /\ f \in Fixtures /\ Scheduled(fixtures[f]) /\ fixtures[f].event = event
        /\ fixtures[f].kickoff - BeforeKickoff < s
    BY DEF StartBefore
  <2>2. fixtures[f] \in Fixture
    BY <2>1 DEF FixtureLists
  <2>3. fixtures[f].kickoff \in Nat
    BY <2>1, <2>2, WindowOf
  <2>4. fixtures[f].kickoff - BeforeKickoff < t
    BY <2>1, <2>3, ConstantTypes
  <2> QED
    BY <2>1, <2>4 DEF StartBefore
<1>2. g \in T /\ g \notin S
  BY DEF StartsWith, StartBefore
<1>3. IsFiniteSet(T)
  BY StartBeforeFinite
<1> HIDE DEF S, T
<1>4. Cardinality(S) + 1 <= Cardinality(T)
  BY <1>1, <1>2, <1>3, OneMore
<1> QED
  BY <1>4 DEF S, T

(* Fixtures that start later are not counted.                              *)
LEMMA RankBelow ==
    ASSUME NEW fixtures \in FixtureLists, NEW event, NEW s \in Int, NEW f \in Fixtures,
           Scheduled(fixtures[f]), s <= fixtures[f].kickoff - BeforeKickoff
    PROVE  1 + Cardinality(StartBefore(fixtures, event, s)) <= Cardinality(Fixtures)
<1>1. fixtures[f] \in Fixture
  BY DEF FixtureLists
<1>2. fixtures[f].kickoff \in Nat
  BY <1>1, WindowOf
<1>3. f \notin StartBefore(fixtures, event, s)
  BY <1>2, ConstantTypes DEF StartBefore
<1>4. StartBefore(fixtures, event, s) \subseteq Fixtures
  BY DEF StartBefore
<1>5. Cardinality(StartBefore(fixtures, event, s)) + 1 <= Cardinality(Fixtures)
  BY <1>3, <1>4, FixturesAssumption, OneMore
<1> QED
  BY <1>5, StartBeforeFinite, FixturesAssumption, FS_CardinalityType

LEMMA RankBelowTwo ==
    ASSUME NEW fixtures \in FixtureLists, NEW event, NEW s \in Int,
           NEW f \in Fixtures, Scheduled(fixtures[f]),
           s <= fixtures[f].kickoff - BeforeKickoff,
           NEW g \in Fixtures, StartsWith(fixtures, g, event, s), f # g
    PROVE  2 + Cardinality(StartBefore(fixtures, event, s)) <= Cardinality(Fixtures)
<1> DEFINE S == StartBefore(fixtures, event, s)
<1>1. fixtures[f] \in Fixture
  BY DEF FixtureLists
<1>2. fixtures[f].kickoff \in Nat
  BY <1>1, WindowOf
<1>3. f \notin S /\ g \notin S
  BY <1>2, ConstantTypes DEF StartBefore, StartsWith
<1>4. S \subseteq Fixtures
  BY DEF StartBefore
<1>5. IsFiniteSet(S) /\ Cardinality(S) \in Nat
  BY StartBeforeFinite
<1> HIDE DEF S
<1>6. Cardinality(S \cup {g}) = Cardinality(S) + 1
  BY <1>3, <1>5, FS_AddElement
<1>7. Cardinality(S \cup {g}) + 1 <= Cardinality(Fixtures)
  BY <1>3, <1>4, FixturesAssumption, OneMore
<1>8. Cardinality(Fixtures) \in Nat
  BY FixturesAssumption, FS_CardinalityType
<1> QED
  BY <1>5, <1>6, <1>7, <1>8 DEF S

(* Period times k.                                                         *)
LEMMA Multiples ==
    ASSUME NEW k \in Nat, NEW l \in Nat, k < l
    PROVE  /\ Period * (1 + k) \in Nat /\ Period <= Period * (1 + k)
           /\ Period * (1 + k) + Period <= Period * (1 + l)
<1>1. \A p, a, b \in Nat : a <= b => p * a <= p * b /\ p * a \in Nat
  OBVIOUS
<1>2. Period \in Nat
  BY PeriodTypes
<1>3. Period * (1 + k) + Period = Period * (2 + k)
  BY <1>2
<1>4. Period * (2 + k) <= Period * (1 + l)
  BY <1>1, <1>2
<1>5. Period * 1 <= Period * (1 + k) /\ Period * (1 + k) \in Nat
  BY <1>1, <1>2
<1> QED
  BY <1>2, <1>3, <1>4, <1>5

LEMMA LaterOfTypes ==
    ASSUME NEW s \in Int, NEW t \in Int
    PROVE  /\ LaterOf(s, t) \in Int /\ s <= LaterOf(s, t) /\ t <= LaterOf(s, t)
           /\ (LaterOf(s, t) = s \/ LaterOf(s, t) = t)
BY DEF LaterOf

LEMMA SinceTypes ==
    ASSUME NEW event, NEW start \in Int, polledAt[event] \in Nat, changedAt \in Nat,
           brokenUntil[event] \in Nat
    PROVE  /\ Since(event, start) \in Int
           /\ polledAt[event] <= Since(event, start)
           /\ changedAt <= Since(event, start)
           /\ brokenUntil[event] <= Since(event, start)
           /\ start <= Since(event, start)
           /\ Since(event, start) \in {polledAt[event], changedAt, brokenUntil[event], start}
BY DEF Since, LaterOf

LEMMA DeadlineTypes ==
    ASSUME NEW event, NEW start \in Int, polledAt[event] \in Nat, changedAt \in Nat,
           brokenUntil[event] \in Nat
    PROVE  /\ Rank(event, start) \in Nat /\ Deadline(event, start) \in Int
           /\ Since(event, start) + Period <= Deadline(event, start)
<1> DEFINE k == Rank(event, start)
<1>1. k \in Nat
  BY StartBeforeFinite DEF Rank
<1> HIDE DEF k
<1>2. Period * (1 + k) \in Nat /\ Period <= Period * (1 + k)
  BY <1>1, Multiples
<1>3. Since(event, start) \in Int
  BY SinceTypes
<1>4. Deadline(event, start) = Since(event, start) + Period * (1 + k)
  BY DEF Deadline, k
<1>5. Deadline(event, start) \in Int /\ Since(event, start) + Period <= Deadline(event, start)
  BY <1>2, <1>3, <1>4, PeriodTypes
<1> QED
  BY <1>1, <1>5 DEF k

(* A window that starts later has a period more.                           *)
LEMMA DeadlineGrows ==
    ASSUME NEW event \in Events, NEW s \in Int, NEW t \in Int, s < t,
           stored \in FixtureLists, polledAt[event] \in Nat, changedAt \in Nat,
           brokenUntil[event] \in Nat, NEW g \in Fixtures, StartsWith(stored, g, event, s)
    PROVE  Deadline(event, s) + Period <= Deadline(event, t)
<1> DEFINE k == Rank(event, s)
           l == Rank(event, t)
<1>1. k \in Nat /\ l \in Nat /\ k + 1 <= l
  BY RankGrows, StartBeforeFinite DEF Rank
<1> HIDE DEF k, l
<1>2. Period * (1 + k) + Period <= Period * (1 + l) /\ Period * (1 + k) \in Nat
  BY <1>1, Multiples
<1>3. Since(event, s) <= Since(event, t) /\ Since(event, s) \in Int /\ Since(event, t) \in Int
  BY DEF Since, LaterOf
<1>4. /\ Deadline(event, s) = Since(event, s) + Period * (1 + k)
      /\ Deadline(event, t) = Since(event, t) + Period * (1 + l)
  BY DEF Deadline, k, l
<1>5. Period * (1 + l) \in Nat
  BY <1>1, PeriodTypes
<1> QED
  BY <1>2, <1>3, <1>4, <1>5, PeriodTypes

(* Polling and a chain that breaks off move a deadline, and nothing but a  *)
(* change of a fixture can bring it nearer.                                *)
LEMMA DeadlineMoves ==
    ASSUME NEW event, NEW start \in Int, polledAt[event] \in Nat, changedAt \in Nat,
           brokenUntil[event] \in Nat,
           polledAt'[event] \in Nat, polledAt[event] <= polledAt'[event],
           brokenUntil'[event] \in Nat, brokenUntil[event] <= brokenUntil'[event],
           UNCHANGED <<stored, changedAt>>
    PROVE  /\ Deadline(event, start) <= Deadline(event, start)'
           /\ Since(event, start) <= Since(event, start)'
           /\ Deadline(event, start)' \in Int /\ Since(event, start)' \in Int
<1>1. Since(event, start) <= Since(event, start)' /\ Since(event, start)' \in Int
  BY DEF Since, LaterOf
<1>2. Rank(event, start)' = Rank(event, start)
  BY DEF Rank
<1>3. Rank(event, start) \in Nat
  BY StartBeforeFinite DEF Rank
<1> DEFINE p == Period * (1 + Rank(event, start))
<1>4. p \in Nat
  BY <1>3, PeriodTypes
<1>5. Deadline(event, start) = Since(event, start) + p
      /\ Deadline(event, start)' = Since(event, start)' + p
  BY <1>2 DEF Deadline
<1>6. Since(event, start) \in Int
  BY SinceTypes
<1> HIDE DEF p
<1> QED
  BY <1>1, <1>4, <1>5, <1>6

-----------------------------------------------------------------------------
(* The invariant holds at first, and each step keeps it.                   *)

LEMMA GraceTypes ==
    /\ Cardinality(Fixtures) \in Nat
    /\ Grace \in Nat /\ Grace = Period * Cardinality(Fixtures)
<1>1. Cardinality(Fixtures) \in Nat
  BY FixturesAssumption, FS_CardinalityType
<1> QED
  BY <1>1, ConstantTypes DEF Grace, Period

LEMMA InitSound == Init => PlanningSound
<1> SUFFICES ASSUME Init PROVE PlanningSound
  OBVIOUS
<1> USE DEF Init
<1>1. stored \in FixtureLists /\ AnswersTyped
  BY InitTyped DEF FixturesTyped
<1>2. TimesSound
  BY BoundAssumption DEF TimesSound
<1>3. DOMAIN schedules = {}
  OBVIOUS
<1>4. SchedulesSound /\ ChainsSound /\ SchedulesInTime
  BY <1>3 DEF SchedulesSound, ChainsSound, SchedulesInTime
<1>5. ReconcilerSound /\ RefreshSound
  BY DEF ReconcilerSound, RefreshSound
<1>6. PolledInTime
  <2> SUFFICES ASSUME NEW f \in Fixtures, Scheduled(stored[f])
               PROVE  clock <= Since(stored[f].event, stored[f].kickoff - BeforeKickoff)
                                   + Grace
    BY DEF PolledInTime
  <2>1. stored[f] \in Fixture
    BY <1>1 DEF FixtureLists
  <2>2. stored[f].event \in Events /\ stored[f].kickoff - BeforeKickoff \in Int
    BY <2>1, WindowOf, ConstantTypes
  <2>3. polledAt[stored[f].event] = 0 /\ changedAt = 0 /\ brokenUntil[stored[f].event] = 0
    BY <2>2
  <2>4. /\ Since(stored[f].event, stored[f].kickoff - BeforeKickoff) \in Int
        /\ 0 <= Since(stored[f].event, stored[f].kickoff - BeforeKickoff)
    BY <2>2, <2>3, SinceTypes
  <2> QED
    BY <2>4, GraceTypes
<1> QED
  BY <1>1, <1>2, <1>4, <1>5, <1>6 DEF PlanningSound

(* What depends on the schedules, the chains and the fixtures alone.       *)
LEMMA Undisturbed ==
    ASSUME PlanningSound,
           UNCHANGED <<clock, brokenUntil, stored, changedAt, schedules, chains, polledAt>>
    PROVE  /\ (stored \in FixtureLists)'
           /\ (UNCHANGED <<answers, accepted>> => AnswersTyped')
           /\ (refreshed' = refreshed => TimesSound')
           /\ SchedulesSound' /\ ChainsSound' /\ SchedulesInTime' /\ PolledInTime'
<1> USE DEF PlanningSound
<1>1. /\ (stored \in FixtureLists)' /\ (refreshed' = refreshed => TimesSound')
      /\ (UNCHANGED <<answers, accepted>> => AnswersTyped')
  BY DEF TimesSound, AnswersTyped
<1>2. SchedulesSound' /\ ChainsSound'
  BY DEF SchedulesSound, ChainsSound
<1>3. SchedulesInTime' /\ PolledInTime'
  BY DEF SchedulesInTime, PolledInTime, Deadline, Since, Rank
<1> QED
  BY <1>1, <1>2, <1>3

(* Steps that leave the schedules, the fixtures and the invocation's time  *)
(* alone.                                                                  *)
LEMMA RefreshKept ==
    ASSUME PlanningSound,
           UNCHANGED <<clock, brokenUntil, stored, changedAt, schedules, polledAt, refreshed>>,
           reconciler' # Idle => reconciler # Idle /\ reconciler'.now = reconciler.now
    PROVE  RefreshSound'
BY DEF PlanningSound, RefreshSound, Deadline, Since, Rank

(* What the parts say of one schedule.                                     *)
LEMMA ScheduleFacts ==
    ASSUME PlanningSound, NEW name \in DOMAIN schedules
    PROVE  /\ name[1] \in Events /\ name[2] \in Int
           /\ schedules[name] \in LiveSchedule
           /\ schedules[name].window.event = name[1]
           /\ schedules[name].window.start = name[2]
           /\ -BeforeKickoff <= name[2] /\ name[2] + Span <= schedules[name].window.end
           /\ schedules[name].window.end \in Int
           /\ schedules[name].at \in Int /\ name[2] <= schedules[name].at
           /\ schedules[name].at <= LaterOf(name[2], clock + CatchUp)
           /\ polledAt[name[1]] \in Nat /\ polledAt[name[1]] <= clock
<1>1. name \in Events \X Int /\ schedules[name] \in LiveSchedule
  BY DEF PlanningSound, SchedulesSound
<1>2. name[1] \in Events /\ name[2] \in Int
  BY <1>1
<1>3. name = ScheduleName(schedules[name].window)
  BY DEF PlanningSound, SchedulesSound
<1>4. schedules[name].window.event = name[1] /\ schedules[name].window.start = name[2]
  BY <1>3 DEF ScheduleName
<1>5. schedules[name].window.end \in Int /\ schedules[name].at \in Int
  BY <1>1 DEF LiveSchedule, ProperWindow, MatchWindow
<1> QED
  BY <1>1, <1>2, <1>4, <1>5 DEF PlanningSound, SchedulesSound, TimesSound

(* When a stored fixture changes, waiting starts again.                    *)
LEMMA WaitingStartsAgain ==
    ASSUME PlanningSound, (stored \in FixtureLists)', changedAt' = clock,
           UNCHANGED <<clock, brokenUntil, schedules, chains, refreshed, polledAt>>
    PROVE  /\ TimesSound' /\ SchedulesSound' /\ ChainsSound'
           /\ SchedulesInTime' /\ RefreshSound' /\ PolledInTime'
<1>1. /\ clock \in Nat /\ refreshed <= clock /\ refreshed \in Nat
      /\ polledAt \in [Events -> Nat] /\ brokenUntil \in [Events -> Nat]
  BY DEF PlanningSound, TimesSound
<1>2. TimesSound'
  BY <1>1 DEF PlanningSound, TimesSound
<1>3. SchedulesSound' /\ ChainsSound'
  BY DEF PlanningSound, SchedulesSound, ChainsSound
<1>4. ASSUME NEW e \in Events, NEW start \in Int
      PROVE  /\ Since(e, start)' \in Int /\ clock <= Since(e, start)'
             /\ start <= Since(e, start)'
             /\ Deadline(e, start)' \in Int
             /\ Since(e, start)' + Period <= Deadline(e, start)'
  <2>1. /\ Since(e, start)' \in Int /\ clock <= Since(e, start)'
        /\ start <= Since(e, start)'
    BY <1>1 DEF Since, LaterOf
  <2> DEFINE k == Cardinality(StartBefore(stored', e, start))
  <2>2. k \in Nat
    BY StartBeforeFinite
  <2>3. Deadline(e, start)' = Since(e, start)' + Period * (1 + k)
    BY DEF Deadline, Rank
  <2> HIDE DEF k
  <2>4. Period * (1 + k) \in Nat /\ Period <= Period * (1 + k)
    BY <2>2, Multiples
  <2> QED
    BY <2>1, <2>3, <2>4, PeriodTypes
<1>5. SchedulesInTime'
  <2> SUFFICES ASSUME NEW n \in DOMAIN schedules, ~schedules[n].fired
               PROVE  /\ schedules[n].at <= Deadline(n[1], n[2])'
                      /\ clock <= Deadline(n[1], n[2])'
    BY DEF SchedulesInTime
  <2>1. /\ n[1] \in Events /\ n[2] \in Int /\ schedules[n].at \in Int
        /\ schedules[n].at <= LaterOf(n[2], clock + CatchUp)
    BY ScheduleFacts
  <2>2. schedules[n].at <= n[2] \/ schedules[n].at <= clock + CatchUp
    BY <2>1 DEF LaterOf
  <2>3. /\ Since(n[1], n[2])' \in Int /\ clock <= Since(n[1], n[2])'
        /\ n[2] <= Since(n[1], n[2])'
        /\ Deadline(n[1], n[2])' \in Int
        /\ Since(n[1], n[2])' + Period <= Deadline(n[1], n[2])'
    BY <1>4, <2>1
  <2>4. Period \in Nat /\ CatchUp \in Nat /\ CatchUp <= Period
    BY ConstantTypes DEF Period
  <2> HIDE DEF Deadline, Since
  <2> QED
    BY <1>1, <2>1, <2>2, <2>3, <2>4
<1>6. RefreshSound'
  BY <1>1 DEF RefreshSound
<1>7. PolledInTime'
  <2> SUFFICES ASSUME NEW g \in Fixtures, Scheduled(stored'[g])
               PROVE  clock <= Since(stored[g].event, stored[g].kickoff - BeforeKickoff)'
                                    + Grace
    BY DEF PolledInTime
  <2>1. /\ stored'[g].event \in Events /\ stored'[g].kickoff - BeforeKickoff \in Int
    <3>1. stored'[g] \in Fixture
      BY DEF FixtureLists
    <3> QED
      BY <3>1, WindowOf, ConstantTypes
  <2>2. /\ Since(stored[g].event, stored[g].kickoff - BeforeKickoff)' \in Int
        /\ clock <= Since(stored[g].event, stored[g].kickoff - BeforeKickoff)'
    BY <1>1, <2>1 DEF Since, LaterOf
  <2> QED
    BY <1>1, <2>2, GraceTypes
<1> QED
  BY <1>2, <1>3, <1>5, <1>6, <1>7

(* The rows of a bundle, new or not.                                       *)
LEMMA PersistSound ==
    ASSUME PlanningSound, NEW v \in DOMAIN answers, NEW source \in Source,
           Persist(v, source), UNCHANGED <<world, schedules, chains, refreshed, polledAt>>,
           reconciler' # Idle => reconciler'.now = clock
    PROVE  /\ (stored \in FixtureLists)' /\ AnswersTyped' /\ TimesSound'
           /\ SchedulesSound' /\ ChainsSound' /\ SchedulesInTime' /\ PolledInTime'
           /\ reconciler = Idle => RefreshSound'
<1>1. /\ (stored \in FixtureLists)' /\ AnswersTyped'
      /\ UNCHANGED <<stored, changedAt>> \/ changedAt' = clock
  BY PersistTyped DEF PlanningSound, FixturesTyped, world
<1>2. CASE UNCHANGED <<stored, changedAt>>
  <2>1. /\ TimesSound' /\ SchedulesSound' /\ ChainsSound'
        /\ SchedulesInTime' /\ PolledInTime'
    BY <1>2, Undisturbed DEF world
  <2>2. ASSUME reconciler = Idle PROVE RefreshSound'
    BY <1>2, <2>2 DEF PlanningSound, RefreshSound, Deadline, Since, Rank, world
  <2> QED
    BY <1>1, <2>1, <2>2
<1>3. CASE changedAt' = clock
  <2>1. UNCHANGED <<clock, brokenUntil>>
    BY DEF world
  <2> QED
    BY <1>1, <1>3, <2>1, WaitingStartsAgain
<1> QED
  BY <1>1, <1>2, <1>3

LEMMA StartSound == PlanningSound /\ Start => PlanningSound'
<1> SUFFICES ASSUME PlanningSound, Start PROVE PlanningSound'
  OBVIOUS
<1> DEFINE windows == BuildMatchWindows(stored', clock)
<1>1. /\ reconciler = Idle
      /\ reconciler' = [pc |-> "list", now |-> clock, windows |-> windows]
      /\ UNCHANGED <<schedules, chains, refreshed, polledAt, world>>
  BY DEF Start
<1>2. /\ (stored \in FixtureLists)' /\ AnswersTyped' /\ TimesSound'
      /\ SchedulesSound' /\ ChainsSound' /\ SchedulesInTime' /\ PolledInTime'
      /\ RefreshSound'
  <2>1. PICK v \in DOMAIN answers : Persist(v, Null)
    BY DEF Start
  <2>2. Null \in Source
    BY DEF Source
  <2> QED
    BY <1>1, <2>1, <2>2, PersistSound
<1>3. clock \in Nat /\ refreshed <= clock /\ UNCHANGED <<clock, refreshed>>
  BY <1>1 DEF PlanningSound, TimesSound, world
<1>4. windows \in Seq(ProperWindow)
  BY <1>2, BuildTyped
<1>5. Planned' = windows
  BY <1>1 DEF Planned
<1> HIDE DEF windows
<1>6. ReconcilerSound'
  <2>1. reconciler' \in Listing
    BY <1>1, <1>3, <1>4 DEF Listing
  <2>2. Done' = 0
    BY <1>1, <1>4, <1>5 DEF Done
  <2>3. \A j \in 1..Len(windows) : windows[j] = windows[0 + j]
    OBVIOUS
  <2> QED
    BY <1>1, <1>3, <1>5, <2>1, <2>2, <2>3 DEF ReconcilerSound
<1> QED
  BY <1>2, <1>6 DEF PlanningSound

LEMMA LiveBundleSound ==
    PlanningSound /\ (\E e \in Events, v \in DOMAIN answers : LiveBundle(e, v))
        => PlanningSound'
<1> SUFFICES ASSUME PlanningSound, NEW e \in Events, NEW v \in DOMAIN answers,
                    LiveBundle(e, v)
             PROVE  PlanningSound'
  OBVIOUS
<1>1. /\ reconciler = Idle /\ reconciler' = Idle /\ Persist(v, e) /\ e \in Source
      /\ UNCHANGED <<schedules, chains, refreshed, polledAt, world>>
  BY DEF LiveBundle, Source
<1>2. /\ (stored \in FixtureLists)' /\ AnswersTyped' /\ TimesSound'
      /\ SchedulesSound' /\ ChainsSound' /\ SchedulesInTime' /\ PolledInTime'
      /\ RefreshSound'
  BY <1>1, PersistSound
<1>3. ReconcilerSound'
  BY <1>1 DEF ReconcilerSound, Idle
<1> QED
  BY <1>2, <1>3 DEF PlanningSound

(* The next bundles are not yet there.                                     *)
LEMMA MoveSound ==
    PlanningSound /\ (\E f \in Fixtures, fixture \in Dates : Move(f, fixture))
        => PlanningSound'
<1> SUFFICES ASSUME PlanningSound, NEW f \in Fixtures, NEW fixture \in Dates,
                    Move(f, fixture)
             PROVE  PlanningSound'
  OBVIOUS
<1>1. UNCHANGED <<clock, stored, changedAt, brokenUntil, schedules, reconciler, chains,
                  refreshed, polledAt>>
  BY DEF Move, database
<1>2. /\ (stored \in FixtureLists)' /\ AnswersTyped' /\ TimesSound'
      /\ SchedulesSound' /\ ChainsSound' /\ SchedulesInTime' /\ PolledInTime'
  BY <1>1, Undisturbed, MoveTyped DEF PlanningSound, FixturesTyped
<1>3. RefreshSound'
  BY <1>1, RefreshKept
<1>4. ReconcilerSound'
  <2>1. Planned' = Planned /\ Done' = Done
    BY <1>1 DEF Planned, Done
  <2> QED
    BY <1>1, <2>1 DEF PlanningSound, ReconcilerSound, Idle, Names
<1> QED
  BY <1>2, <1>3, <1>4 DEF PlanningSound

(* The invocation under way.                                               *)
LEMMA UnderWay ==
    ASSUME ReconcilerSound, reconciler # Idle, stored \in FixtureLists
    PROVE  /\ reconciler \in Listing \cup Writing
           /\ reconciler.now \in Nat /\ reconciler.windows \in Seq(ProperWindow)
           /\ Planned \in Seq(ProperWindow)
           /\ reconciler.pc = "list" => reconciler \in Listing
           /\ reconciler.pc \in {"delete", "ensure"} => reconciler \in Writing
<1>1. reconciler \in Listing \cup Writing
  BY DEF ReconcilerSound
<1> QED
  BY <1>1, BuildTyped DEF Listing, Writing, Planned

LEMMA ListSound == PlanningSound /\ List => PlanningSound'
<1> SUFFICES ASSUME PlanningSound, List PROVE PlanningSound'
  OBVIOUS
<1>1. /\ (stored \in FixtureLists)' /\ AnswersTyped' /\ TimesSound'
      /\ SchedulesSound' /\ ChainsSound' /\ SchedulesInTime' /\ PolledInTime'
  BY Undisturbed DEF List, world, database
<1>2. reconciler # Idle /\ reconciler.pc = "list"
  BY DEF List, Idle
<1>3. reconciler' = [pc |-> "delete", now |-> reconciler.now,
                     windows |-> reconciler.windows,
                     existing |-> DOMAIN schedules,
                     obsolete |-> DOMAIN schedules \ Names(reconciler.windows)]
  BY DEF List
<1>4. UNCHANGED <<clock, refreshed, changedAt, schedules, stored, answers, accepted, brokenUntil>>
  BY DEF List, world, database
<1>5. (stored \in FixtureLists)'
  BY <1>4 DEF PlanningSound
<1>6. Planned' = Planned
  BY <1>3, <1>4 DEF Planned
<1>7. ReconcilerSound'
  <2>1. /\ reconciler.now \in Nat /\ reconciler.windows \in Seq(ProperWindow)
        /\ reconciler.windows = Planned
        /\ refreshed <= reconciler.now /\ reconciler.now <= clock
    BY <1>2, UnderWay DEF PlanningSound, ReconcilerSound
  <2>2. DOMAIN schedules \subseteq Events \X Int
    BY DEF PlanningSound, SchedulesSound
  <2>3. reconciler' \in Writing
    BY <1>3, <2>1, <2>2 DEF Writing
  <2>4. Done' = 0
    BY <1>3, <1>6, <2>1 DEF Done
  <2>5. \A j \in 1..Len(Planned) : Planned[j] = Planned[0 + j]
    OBVIOUS
  <2>6. /\ reconciler'.existing = DOMAIN schedules
        /\ reconciler'.obsolete = DOMAIN schedules \ Names(Planned)
        /\ reconciler'.windows = Planned /\ reconciler'.pc = "delete"
        /\ reconciler'.now = reconciler.now
    BY <1>3, <2>1
  <2> QED
    BY <1>4, <1>6, <2>1, <2>3, <2>4, <2>5, <2>6 DEF ReconcilerSound, Names
<1>8. RefreshSound'
  BY <1>2, <1>3, RefreshKept DEF List, world, database
<1> QED
  BY <1>1, <1>5, <1>7, <1>8 DEF PlanningSound

LEMMA DeletedSound == PlanningSound /\ Deleted => PlanningSound'
<1> SUFFICES ASSUME PlanningSound, Deleted PROVE PlanningSound'
  OBVIOUS
<1>1. /\ (stored \in FixtureLists)' /\ AnswersTyped' /\ TimesSound'
      /\ SchedulesSound' /\ ChainsSound' /\ SchedulesInTime' /\ PolledInTime'
  BY Undisturbed DEF Deleted, world, database
<1>2. reconciler # Idle /\ reconciler.pc = "delete" /\ reconciler.obsolete = {}
  BY DEF Deleted, Idle
<1>3. reconciler \in Writing
  BY <1>2, UnderWay DEF PlanningSound
<1>4. /\ reconciler'.pc = "ensure" /\ reconciler'.now = reconciler.now
      /\ reconciler'.windows = reconciler.windows
      /\ reconciler'.existing = reconciler.existing
      /\ reconciler'.obsolete = reconciler.obsolete
      /\ reconciler' \in Writing
  BY <1>3 DEF Deleted, Writing
<1>5. UNCHANGED <<clock, refreshed, changedAt, schedules, stored, answers, accepted, brokenUntil>>
  BY DEF Deleted, world, database
<1>6. Planned' = Planned /\ Done' = Done
  BY <1>4, <1>5 DEF Planned, Done
<1>7. ReconcilerSound'
  BY <1>2, <1>4, <1>5, <1>6 DEF PlanningSound, ReconcilerSound, Names
<1>8. RefreshSound'
  BY <1>2, <1>4, RefreshKept DEF Deleted, world, database
<1>9. (stored \in FixtureLists)'
  BY <1>5 DEF PlanningSound
<1> QED
  BY <1>1, <1>7, <1>8, <1>9 DEF PlanningSound

LEMMA FailSound == PlanningSound /\ Fail => PlanningSound'
<1> SUFFICES ASSUME PlanningSound, Fail PROVE PlanningSound'
  OBVIOUS
<1>1. /\ (stored \in FixtureLists)' /\ AnswersTyped' /\ TimesSound'
      /\ SchedulesSound' /\ ChainsSound' /\ SchedulesInTime' /\ PolledInTime'
  BY Undisturbed DEF Fail, world, database
<1>2. ReconcilerSound'
  BY DEF Fail, ReconcilerSound, Idle
<1>3. RefreshSound'
  BY RefreshKept DEF Fail, world, database
<1> QED
  BY <1>1, <1>2, <1>3 DEF PlanningSound

(* The obsolete schedules are deleted in the order of their names.         *)
LEMMA FirstNameOf ==
    ASSUME NEW names \in SUBSET (Events \X Int), names # {},
           \A n \in names : -BeforeKickoff <= n[2]
    PROVE  FirstName(names) \in names
<1> DEFINE events == {n[1] : n \in names}
<1>1. events # {} /\ events \subseteq Nat
  BY ConstantTypes
<1>2. PICK e \in events : \A d \in events : e <= d
  <2> HIDE DEF events
  <2> QED
    BY <1>1, LeastNatural
<1> DEFINE those == {n \in names : n[1] = e}
           after == {n[2] + BeforeKickoff : n \in those}
<1>3. after # {} /\ after \subseteq Nat
  <2>1. \E n \in names : n[1] = e
    BY <1>2
  <2>2. \A n \in those : n[2] + BeforeKickoff \in Nat
    BY ConstantTypes
  <2> QED
    BY <2>1, <2>2
<1>4. PICK a \in after : \A b \in after : a <= b
  <2> HIDE DEF after
  <2> QED
    BY <1>3, LeastNatural
<1>5. PICK m \in those : a = m[2] + BeforeKickoff
  BY <1>4
<1>6. ASSUME NEW n \in names
      PROVE  m[1] < n[1] \/ (m[1] = n[1] /\ m[2] <= n[2])
  <2>1. m[1] = e /\ e \in Nat /\ n[1] \in Nat /\ e <= n[1] /\ m[2] \in Int /\ n[2] \in Int
    BY <1>1, <1>2, <1>5, <1>6
  <2>2. n[1] = e => m[2] <= n[2]
    <3> SUFFICES ASSUME n[1] = e PROVE m[2] <= n[2]
      OBVIOUS
    <3>1. n[2] + BeforeKickoff \in after
      BY <1>6
    <3>2. a <= n[2] + BeforeKickoff
      BY <1>4, <3>1
    <3> QED
      BY <1>5, <2>1, <3>2, ConstantTypes
  <2> QED
    BY <2>1, <2>2
<1>7. m \in names
  BY <1>5
<1> QED
  BY <1>6, <1>7, Zenon DEF FirstName

(* Deleting a schedule: what is left is sound.                             *)
LEMMA DeleteSound == PlanningSound /\ Delete => PlanningSound'
<1> SUFFICES ASSUME PlanningSound, Delete PROVE PlanningSound'
  OBVIOUS
<1> DEFINE name == FirstName(reconciler.obsolete)
<1>1. reconciler # Idle /\ reconciler.pc = "delete" /\ reconciler.obsolete # {}
  BY DEF Delete, Idle
<1>2. reconciler \in Writing /\ Planned \in Seq(ProperWindow)
  BY <1>1, UnderWay DEF PlanningSound
<1>3. /\ schedules' = Restrict(schedules, DOMAIN schedules \ {name})
      /\ reconciler' = [reconciler EXCEPT !.obsolete = @ \ {name}]
  BY DEF Delete
<1>4. UNCHANGED <<clock, refreshed, changedAt, stored, answers, accepted, brokenUntil, chains, polledAt>>
  BY DEF Delete, world, database
<1> HIDE DEF name
<1>5. /\ DOMAIN schedules' = DOMAIN schedules \ {name}
      /\ \A n \in DOMAIN schedules' : schedules'[n] = schedules[n]
      /\ schedules' = [n \in DOMAIN schedules' |-> schedules[n]]
  BY <1>3 DEF Restrict
<1>6. (stored \in FixtureLists)' /\ AnswersTyped' /\ TimesSound'
  BY <1>4 DEF PlanningSound, TimesSound, AnswersTyped
<1>7. SchedulesSound'
  <2>1. schedules' \in [DOMAIN schedules' -> LiveSchedule]
    BY <1>5 DEF PlanningSound, SchedulesSound
  <2> QED
    BY <1>4, <1>5, <2>1 DEF PlanningSound, SchedulesSound
<1>8. ChainsSound'
  BY <1>4, <1>5 DEF PlanningSound, ChainsSound
<1>9. SchedulesInTime' /\ PolledInTime'
  BY <1>4, <1>5 DEF PlanningSound, SchedulesInTime, PolledInTime, Deadline, Since, Rank
<1>10. /\ reconciler'.pc = "delete" /\ reconciler'.now = reconciler.now
       /\ reconciler'.windows = reconciler.windows
       /\ reconciler'.existing = reconciler.existing
       /\ reconciler'.obsolete = reconciler.obsolete \ {name}
       /\ reconciler' \in Writing
  BY <1>1, <1>2, <1>3 DEF Writing
<1>11. Planned' = Planned /\ Done' = Done
  BY <1>4, <1>10 DEF Planned, Done

<1>12. name \in reconciler.obsolete
  <2>1. reconciler.obsolete \in SUBSET (Events \X Int)
    BY <1>2 DEF Writing
  <2>2. reconciler.obsolete \subseteq DOMAIN schedules
    BY <1>1 DEF PlanningSound, ReconcilerSound
  <2>3. ASSUME NEW n \in DOMAIN schedules PROVE -BeforeKickoff <= n[2]
    BY DEF PlanningSound, SchedulesSound, ScheduleName
  <2>4. \A n \in reconciler.obsolete : -BeforeKickoff <= n[2]
    BY <2>2, <2>3
  <2> QED
    BY <1>1, <2>1, <2>4, FirstNameOf DEF name
<1>13. name \in DOMAIN schedules /\ name \notin Names(Planned)
  BY <1>1, <1>12 DEF PlanningSound, ReconcilerSound
<1>14. ReconcilerSound'
  <2>1. Done = 0
    BY <1>1 DEF PlanningSound, ReconcilerSound
  <2>2. Names(Planned)' = Names(Planned)
    BY <1>11 DEF Names
  <2>3. reconciler'.existing \cap Names(Planned) \subseteq DOMAIN schedules'
    BY <1>1, <1>5, <1>10, <1>13 DEF PlanningSound, ReconcilerSound
  <2>4. /\ reconciler'.obsolete \subseteq DOMAIN schedules' \ Names(Planned)
        /\ DOMAIN schedules' \subseteq reconciler'.obsolete \cup Names(Planned)
    BY <1>1, <1>5, <1>10 DEF PlanningSound, ReconcilerSound
  <2>5. \A n \in DOMAIN schedules' \ reconciler'.existing :
            \E i \in 1..Done : n = ScheduleName(Planned[i])
    BY <1>1, <1>5, <1>10 DEF PlanningSound, ReconcilerSound
  <2>6. \A i \in 1..0 : FALSE
    OBVIOUS
  <2> QED
    BY <1>1, <1>4, <1>10, <1>11, <2>1, <2>2, <2>3, <2>4, <2>5, <2>6
    DEF PlanningSound, ReconcilerSound
<1>15. RefreshSound'
  <2> SUFFICES ASSUME refreshed > changedAt,
                      NEW i \in DOMAIN BuildMatchWindows(stored, refreshed)
               PROVE  LET w == BuildMatchWindows(stored, refreshed)[i]
                      IN  /\ refreshed <= Deadline(w.event, w.start)'
                          /\ \/ ScheduleName(w) \in DOMAIN schedules'
                             \/ /\ w.start + Span <= clock
                                /\ reconciler' # Idle => w.start + Span <= reconciler'.now
    BY <1>4 DEF RefreshSound
  <2> DEFINE w == BuildMatchWindows(stored, refreshed)[i]
  <2>1. refreshed <= Deadline(w.event, w.start)'
    BY <1>4 DEF PlanningSound, RefreshSound, Deadline, Since, Rank
  <2>2. w.start \in Int
    <3>1. w \in ProperWindow
      BY BuildTyped DEF PlanningSound
    <3> QED
      BY <3>1 DEF ProperWindow, MatchWindow
  <2>3. CASE ScheduleName(w) = name
    <3>1. /\ refreshed <= reconciler.now /\ reconciler.now <= clock
          /\ reconciler.now \in Nat
      BY <1>1, <1>2 DEF PlanningSound, ReconcilerSound, Writing
    <3>2. refreshed \in Nat /\ changedAt \in Nat /\ clock \in Nat
      BY DEF PlanningSound, TimesSound
    <3>3. Planned = BuildMatchWindows(stored, reconciler.now)
      BY DEF Planned
    <3>4. ~(reconciler.now < w.start + Span)
      <4> SUFFICES ASSUME reconciler.now < w.start + Span PROVE FALSE
        OBVIOUS
      <4>1. \E k \in DOMAIN Planned : ScheduleName(Planned[k]) = name
        BY <2>3, <3>1, <3>2, <3>3, StartPersists DEF PlanningSound
      <4> QED
        BY <4>1, <1>13 DEF Names
    <3> QED
      BY <2>1, <2>2, <3>1, <3>2, <3>4, <1>10, ConstantTypes
  <2>4. CASE ScheduleName(w) # name
    BY <2>1, <2>4, <1>1, <1>5, <1>10 DEF PlanningSound, RefreshSound
  <2> QED
    BY <2>3, <2>4
<1> QED
  BY <1>6, <1>7, <1>8, <1>9, <1>14, <1>15 DEF PlanningSound

(* At the end of a run, what it planned is there; and it ended in time,    *)
(* because what it planned polls, polled a moment ago, or is not late.     *)
LEMMA CompleteSound == PlanningSound /\ Complete => PlanningSound'
<1> SUFFICES ASSUME PlanningSound, Complete PROVE PlanningSound'
  OBVIOUS
<1>1. /\ (stored \in FixtureLists)' /\ AnswersTyped'
      /\ SchedulesSound' /\ ChainsSound' /\ SchedulesInTime' /\ PolledInTime'
  BY Undisturbed DEF Complete, world, database
<1>2. /\ reconciler # Idle /\ reconciler.pc = "ensure" /\ reconciler.windows = <<>>
      /\ reconciler' = Idle /\ refreshed' = reconciler.now
  BY DEF Complete, Idle
<1>3. UNCHANGED <<clock, changedAt, stored, brokenUntil, schedules, polledAt>>
  BY DEF Complete, world, database
<1>4. /\ reconciler.now \in Nat /\ refreshed <= reconciler.now /\ reconciler.now <= clock
      /\ Planned \in Seq(ProperWindow)
  BY <1>2, UnderWay DEF PlanningSound, ReconcilerSound
<1>5. TimesSound'
  BY <1>2, <1>3, <1>4, ConstantTypes, BoundAssumption DEF PlanningSound, TimesSound
<1>6. ReconcilerSound'
  BY <1>2 DEF ReconcilerSound, Idle
<1>7. \A i \in DOMAIN Planned : ScheduleName(Planned[i]) \in DOMAIN schedules
  <2>1. Done = Len(Planned)
    BY <1>2, <1>4 DEF Done
  <2> QED
    BY <1>2, <1>4, <2>1 DEF PlanningSound, ReconcilerSound
<1>8. RefreshSound'
  <2> SUFFICES ASSUME reconciler.now > changedAt,
                      NEW i \in DOMAIN BuildMatchWindows(stored, reconciler.now),
                      NEW w, w = BuildMatchWindows(stored, reconciler.now)[i]
               PROVE  /\ reconciler.now <= Deadline(w.event, w.start)'
                      /\ ScheduleName(w) \in DOMAIN schedules
    BY <1>2, <1>3 DEF RefreshSound
  <2> DEFINE name == ScheduleName(w)
  <2>1. Planned = BuildMatchWindows(stored, reconciler.now)
    BY DEF Planned
  <2>2. name \in DOMAIN schedules
    BY <1>7, <2>1
  <2>3. /\ w.event \in Events /\ w.start \in Int /\ reconciler.now < w.start + Span
    <3>1. w \in ProperWindow /\ w.event \in Events /\ w.start + Span > reconciler.now
      BY WindowStarts DEF PlanningSound
    <3> QED
      BY <3>1, <1>4, ConstantTypes DEF ProperWindow, MatchWindow
  <2>4. name[1] = w.event /\ name[2] = w.start
    BY DEF ScheduleName
  <2>5. Deadline(w.event, w.start)' = Deadline(w.event, w.start)
    BY <1>3 DEF Deadline, Since, Rank
  <2> HIDE DEF name
  <2>6. /\ polledAt[w.event] \in Nat /\ changedAt \in Nat /\ clock \in Nat
        /\ brokenUntil[w.event] \in Nat
    BY <2>3 DEF PlanningSound, TimesSound
  <2>7. /\ Deadline(w.event, w.start) \in Int
        /\ polledAt[w.event] <= Deadline(w.event, w.start)
        /\ brokenUntil[w.event] <= Deadline(w.event, w.start)
    BY <2>3, <2>6, SinceTypes, DeadlineTypes, PeriodTypes
  <2>8. CASE schedules[name].fired
    <3>1. CASE name[2] + Span <= polledAt[name[1]] + 1
      BY <1>4, <2>2, <2>3, <2>4, <2>5, <2>6, <2>7, <3>1, ConstantTypes DEF name
    <3>2. CASE \E c \in chains : c.event = name[1] /\ c.start = name[2]
      <4>1. polledAt[w.event] = clock
        BY <2>4, <3>2 DEF PlanningSound, ChainsSound
      <4> QED
        BY <1>4, <2>2, <2>5, <2>6, <2>7, <4>1 DEF name
    <3>3. CASE name[2] + Span <= brokenUntil[name[1]]
      BY <1>4, <2>2, <2>3, <2>4, <2>5, <2>6, <2>7, <3>3, ConstantTypes DEF name
    <3> QED
      BY <2>2, <2>8, <3>1, <3>2, <3>3 DEF PlanningSound, ChainsSound
  <2>9. CASE ~schedules[name].fired
    <3>1. clock <= Deadline(w.event, w.start)
      BY <2>2, <2>4, <2>9 DEF PlanningSound, SchedulesInTime
    <3> QED
      BY <1>4, <2>2, <2>5, <2>6, <2>7, <3>1 DEF name
  <2> QED
    BY <2>8, <2>9
<1> QED
  BY <1>1, <1>5, <1>6, <1>8 DEF PlanningSound

(* Polling gives time, and so does a chain that broke off.                 *)
LEMMA PollingGivesTime ==
    ASSUME PlanningSound, UNCHANGED <<stored, changedAt>>,
           polledAt' \in [Events -> Nat], brokenUntil' \in [Events -> Nat],
           \A e \in Events : polledAt[e] <= polledAt'[e] /\ brokenUntil[e] <= brokenUntil'[e]
    PROVE  \A e \in Events, start \in Int :
               /\ Deadline(e, start) \in Int /\ Deadline(e, start)' \in Int
               /\ Deadline(e, start) <= Deadline(e, start)'
               /\ Since(e, start) \in Int /\ Since(e, start)' \in Int
               /\ Since(e, start) <= Since(e, start)'
<1> SUFFICES ASSUME NEW e \in Events, NEW start \in Int
             PROVE  /\ Deadline(e, start) \in Int /\ Deadline(e, start)' \in Int
                    /\ Deadline(e, start) <= Deadline(e, start)'
                    /\ Since(e, start) \in Int /\ Since(e, start)' \in Int
                    /\ Since(e, start) <= Since(e, start)'
  OBVIOUS
<1>1. /\ polledAt[e] \in Nat /\ polledAt'[e] \in Nat /\ changedAt \in Nat
      /\ brokenUntil[e] \in Nat /\ brokenUntil'[e] \in Nat
  BY DEF PlanningSound, TimesSound
<1> QED
  BY <1>1, SinceTypes, DeadlineTypes, DeadlineMoves

(* What is in time stays in time.                                          *)
LEMMA StaysInTime ==
    ASSUME PlanningSound, UNCHANGED <<clock, refreshed, stored, changedAt, reconciler>>,
           polledAt' \in [Events -> Nat], brokenUntil' \in [Events -> Nat],
           \A e \in Events : polledAt[e] <= polledAt'[e] /\ brokenUntil[e] <= brokenUntil'[e],
           DOMAIN schedules' = DOMAIN schedules,
           \A n \in DOMAIN schedules :
               /\ schedules'[n].at = schedules[n].at
               /\ schedules[n].fired => schedules'[n].fired
    PROVE  SchedulesInTime' /\ RefreshSound' /\ PolledInTime'
<1>1. \A e \in Events, start \in Int :
          /\ Deadline(e, start) \in Int /\ Deadline(e, start)' \in Int
          /\ Deadline(e, start) <= Deadline(e, start)'
          /\ Since(e, start) \in Int /\ Since(e, start)' \in Int
          /\ Since(e, start) <= Since(e, start)'
  BY PollingGivesTime
<1>2. clock \in Nat /\ refreshed \in Nat
  BY DEF PlanningSound, TimesSound
<1>3. SchedulesInTime'
  <2> SUFFICES ASSUME NEW n \in DOMAIN schedules', ~schedules'[n].fired
               PROVE  /\ schedules'[n].at <= Deadline(n[1], n[2])'
                      /\ clock' <= Deadline(n[1], n[2])'
    BY DEF SchedulesInTime
  <2>1. /\ n \in DOMAIN schedules /\ ~schedules[n].fired
        /\ schedules'[n].at = schedules[n].at
    OBVIOUS
  <2>2. /\ schedules[n].at <= Deadline(n[1], n[2]) /\ clock <= Deadline(n[1], n[2])
    BY <2>1 DEF PlanningSound, SchedulesInTime
  <2>3. n[1] \in Events /\ n[2] \in Int /\ schedules[n].at \in Int
    BY <2>1, ScheduleFacts
  <2> QED
    BY <1>1, <1>2, <2>1, <2>2, <2>3
<1>4. RefreshSound'
  <2> SUFFICES ASSUME refreshed > changedAt,
                      NEW i \in DOMAIN BuildMatchWindows(stored, refreshed),
                      NEW w, w = BuildMatchWindows(stored, refreshed)[i]
               PROVE  /\ refreshed <= Deadline(w.event, w.start)'
                      /\ \/ ScheduleName(w) \in DOMAIN schedules
                         \/ /\ w.start + Span <= clock
                            /\ reconciler # Idle => w.start + Span <= reconciler.now
    BY DEF RefreshSound
  <2>1. /\ refreshed <= Deadline(w.event, w.start)
        /\ \/ ScheduleName(w) \in DOMAIN schedules
           \/ /\ w.start + Span <= clock
              /\ reconciler # Idle => w.start + Span <= reconciler.now
    BY DEF PlanningSound, RefreshSound
  <2>2. w.event \in Events /\ w.start \in Int
    <3>1. w \in ProperWindow /\ w.event \in Events
      BY WindowStarts DEF PlanningSound
    <3> QED
      BY <3>1 DEF ProperWindow, MatchWindow
  <2>3. refreshed \in Nat
    BY DEF PlanningSound, TimesSound
  <2> QED
    BY <1>1, <2>1, <2>2, <2>3
<1>5. PolledInTime'
  <2> SUFFICES ASSUME NEW f \in Fixtures, Scheduled(stored[f]),
                      clock < stored[f].kickoff + AfterKickoff
               PROVE  clock <= Since(stored[f].event, stored[f].kickoff - BeforeKickoff)'
                                    + Grace
    BY DEF PolledInTime
  <2>1. clock <= Since(stored[f].event, stored[f].kickoff - BeforeKickoff) + Grace
    BY DEF PlanningSound, PolledInTime
  <2>2. stored[f].event \in Events /\ stored[f].kickoff - BeforeKickoff \in Int
    <3>1. stored[f] \in Fixture
      BY DEF PlanningSound, FixtureLists
    <3> QED
      BY <3>1, WindowOf, ConstantTypes
  <2>3. /\ Since(stored[f].event, stored[f].kickoff - BeforeKickoff) \in Int
        /\ Since(stored[f].event, stored[f].kickoff - BeforeKickoff)' \in Int
        /\ Since(stored[f].event, stored[f].kickoff - BeforeKickoff)
               <= Since(stored[f].event, stored[f].kickoff - BeforeKickoff)'
    BY <1>1, <2>2
  <2> QED
    BY <1>2, <2>1, <2>3, GraceTypes
<1> QED
  BY <1>3, <1>4, <1>5

(* Firing: the gameweek is polled now, by a chain that lasts.              *)
LEMMA FireSound ==
    PlanningSound /\ (\E name \in DOMAIN schedules : Fire(name)) => PlanningSound'
<1> SUFFICES ASSUME PlanningSound, NEW name \in DOMAIN schedules, Fire(name)
             PROVE  PlanningSound'
  OBVIOUS
<1> DEFINE chain == schedules[name].window
<1>1. /\ schedules' = [schedules EXCEPT ![name].fired = TRUE]
      /\ chains' = chains \cup {chain}
      /\ polledAt' = [polledAt EXCEPT ![schedules[name].window.event] = clock]
  BY DEF Fire
<1>2. UNCHANGED <<clock, refreshed, changedAt, stored, answers, accepted, brokenUntil,
                  reconciler>>
  BY DEF Fire, world, database
<1>3. /\ clock \in Nat /\ polledAt \in [Events -> Nat] /\ changedAt \in Nat
      /\ \A e \in Events : polledAt[e] <= clock
      /\ brokenUntil \in [Events -> Nat]
  BY DEF PlanningSound, TimesSound
<1>4. /\ polledAt' \in [Events -> Nat] /\ polledAt'[name[1]] = clock
      /\ \A e \in Events : /\ polledAt[e] <= polledAt'[e] /\ polledAt'[e] <= clock
                           /\ polledAt[e] = clock => polledAt'[e] = clock
  BY <1>1, <1>3, ScheduleFacts
<1>5. /\ DOMAIN schedules' = DOMAIN schedules
      /\ \A n \in DOMAIN schedules :
             /\ schedules'[n].window = schedules[n].window
             /\ schedules'[n].at = schedules[n].at
             /\ schedules'[n] \in LiveSchedule
             /\ n # name => schedules'[n] = schedules[n]
      /\ schedules'[name].fired = TRUE
  <2>1. \A n \in DOMAIN schedules : schedules[n] \in LiveSchedule
    BY DEF PlanningSound, SchedulesSound
  <2> QED
    BY <1>1, <2>1 DEF LiveSchedule
<1>6. schedules' \in [DOMAIN schedules' -> LiveSchedule]
  <2>1. schedules' = [n \in DOMAIN schedules' |-> schedules'[n]]
    BY <1>1
  <2> QED
    BY <1>5, <2>1
<1>7. /\ (stored \in FixtureLists)' /\ AnswersTyped' /\ TimesSound'
  BY <1>2, <1>4 DEF PlanningSound, TimesSound, AnswersTyped
<1>8. SchedulesSound'
  BY <1>2, <1>5, <1>6 DEF PlanningSound, SchedulesSound
<1>9. ChainsSound'
  <2>1. /\ chain \in ProperWindow /\ chain.event = name[1] /\ chain.start = name[2]
        /\ name[1] \in Events /\ name[2] + Span <= chain.end
    BY ScheduleFacts DEF LiveSchedule
  <2>2. ASSUME NEW c \in chains'
        PROVE  /\ c \in ProperWindow /\ c.event \in Events
               /\ c.start + Span <= c.end /\ polledAt'[c.event] = clock'
    <3>1. CASE c = chain
      BY <1>2, <1>3, <1>4, <2>1, <3>1
    <3>2. CASE c \in chains
      BY <1>2, <1>4, <3>2 DEF PlanningSound, ChainsSound
    <3> QED
      BY <1>1, <3>1, <3>2
  <2>3. ASSUME NEW n \in DOMAIN schedules', schedules'[n].fired
        PROVE  \/ n[2] + Span <= polledAt'[n[1]] + 1
               \/ \E c \in chains' : c.event = n[1] /\ c.start = n[2]
               \/ n[2] + Span <= brokenUntil'[n[1]]
    <3>1. CASE n = name
      <4>1. chain \in chains'
        BY <1>1
      <4> QED
        BY <2>1, <3>1, <4>1
    <3>2. CASE n # name
      <4>1. schedules[n].fired /\ n \in DOMAIN schedules
        BY <1>5, <2>3, <3>2
      <4>2. CASE n[2] + Span <= polledAt[n[1]] + 1
        <5>1. /\ n[2] \in Int /\ polledAt[n[1]] \in Nat /\ polledAt'[n[1]] \in Nat
              /\ polledAt[n[1]] <= polledAt'[n[1]]
          BY <1>4, <4>1, ScheduleFacts
        <5> QED
          BY <4>2, <5>1, ConstantTypes
      <4>3. CASE \E c \in chains : c.event = n[1] /\ c.start = n[2]
        BY <1>1, <4>3
      <4>4. CASE n[2] + Span <= brokenUntil[n[1]]
        BY <1>2, <4>4
      <4> QED
        BY <4>1, <4>2, <4>3, <4>4 DEF PlanningSound, ChainsSound
    <3> QED
      BY <3>1, <3>2
  <2> QED
    BY <2>2, <2>3 DEF ChainsSound
<1>10. ReconcilerSound'
  <2>1. Planned' = Planned /\ Done' = Done
    BY <1>2 DEF Planned, Done
  <2>2. Names(Planned)' = Names(Planned)
    BY <2>1 DEF Names
  <2> QED
    BY <1>2, <1>5, <2>1, <2>2 DEF PlanningSound, ReconcilerSound
<1>11. SchedulesInTime' /\ RefreshSound' /\ PolledInTime'
  BY <1>2, <1>3, <1>4, <1>5, StaysInTime
<1> QED
  BY <1>7, <1>8, <1>9, <1>10, <1>11 DEF PlanningSound

(* A chain breaks off: the gameweek may wait until the matches with which  *)
(* its window began are over.                                              *)
LEMMA BreakSound == PlanningSound /\ (\E c \in chains : Break(c)) => PlanningSound'
<1> SUFFICES ASSUME PlanningSound, NEW c \in chains, Break(c)
             PROVE  PlanningSound'
  OBVIOUS
<1> DEFINE until == LaterOf(brokenUntil[c.event], c.start + BeforeKickoff + AfterKickoff)
<1>1. /\ chains' = chains \ {c} /\ brokenUntil' = [brokenUntil EXCEPT ![c.event] = until]
      /\ UNCHANGED <<clock, answers, accepted, stored, changedAt, schedules, reconciler,
                     refreshed, polledAt>>
  BY DEF Break, database
<1>2. c.event \in Events /\ c.start \in Int
  BY DEF PlanningSound, ChainsSound, ProperWindow, MatchWindow
<1>3. brokenUntil \in [Events -> Nat] /\ polledAt \in [Events -> Nat]
  BY DEF PlanningSound, TimesSound
<1>4. until \in Nat /\ brokenUntil[c.event] <= until /\ c.start + Span <= until
  <2> DEFINE b == brokenUntil[c.event]
             over == c.start + BeforeKickoff + AfterKickoff
  <2>1. b \in Nat /\ over \in Int /\ over = c.start + Span
    <3>1. b \in Nat
      BY <1>2, <1>3
    <3>2. \A x \in Int : /\ x + BeforeKickoff + AfterKickoff = x + Span
                       /\ x + Span \in Int
      BY ConstantTypes DEF Span
    <3> QED
      BY <1>2, <3>1, <3>2
  <2>2. until = LaterOf(b, over)
    OBVIOUS
  <2> HIDE DEF b, over, until
  <2>3. until \in Nat /\ b <= until /\ over <= until
    BY <2>1, <2>2 DEF LaterOf
  <2> QED
    BY <2>1, <2>3 DEF b
<1> HIDE DEF until
<1>5. /\ brokenUntil' \in [Events -> Nat] /\ brokenUntil'[c.event] = until
      /\ \A e \in Events : brokenUntil[e] <= brokenUntil'[e]
  BY <1>1, <1>2, <1>3, <1>4
<1>6. (stored \in FixtureLists)' /\ AnswersTyped' /\ TimesSound' /\ SchedulesSound'
  BY <1>1, <1>5 DEF PlanningSound, AnswersTyped, TimesSound, SchedulesSound
<1>7. ChainsSound'
  <2>1. ASSUME NEW n \in DOMAIN schedules, schedules[n].fired
        PROVE  \/ n[2] + Span <= polledAt[n[1]] + 1
               \/ \E d \in chains' : d.event = n[1] /\ d.start = n[2]
               \/ n[2] + Span <= brokenUntil'[n[1]]
    <3>1. n[1] \in Events /\ n[2] \in Int
      BY ScheduleFacts
    <3>2. CASE n[2] + Span <= polledAt[n[1]] + 1
      BY <3>2
    <3>3. CASE \E d \in chains : d.event = n[1] /\ d.start = n[2]
      <4>1. PICK d \in chains : d.event = n[1] /\ d.start = n[2]
        BY <3>3
      <4>2. CASE d = c
        BY <1>4, <1>5, <4>1, <4>2
      <4>3. CASE d # c
        BY <1>1, <4>1, <4>3
      <4> QED
        BY <4>2, <4>3
    <3>4. CASE n[2] + Span <= brokenUntil[n[1]]
      <4>1. /\ brokenUntil[n[1]] \in Nat /\ brokenUntil'[n[1]] \in Nat
            /\ brokenUntil[n[1]] <= brokenUntil'[n[1]]
        BY <1>3, <1>5, <3>1
      <4> QED
        BY <3>1, <3>4, <4>1, ConstantTypes
    <3> QED
      BY <2>1, <3>2, <3>3, <3>4 DEF PlanningSound, ChainsSound
  <2> QED
    BY <1>1, <2>1 DEF PlanningSound, ChainsSound
<1>8. ReconcilerSound'
  <2>1. Planned' = Planned /\ Done' = Done
    BY <1>1 DEF Planned, Done
  <2> QED
    BY <1>1, <2>1 DEF PlanningSound, ReconcilerSound, Idle, Names
<1>9. SchedulesInTime' /\ RefreshSound' /\ PolledInTime'
  <2>1. \A e \in Events : polledAt[e] <= polledAt'[e]
    BY <1>1, <1>3
  <2> QED
    BY <1>1, <1>3, <1>5, <2>1, StaysInTime
<1> QED
  BY <1>6, <1>7, <1>8, <1>9 DEF PlanningSound

(* The window that reconcile_schedules comes to.                           *)
LEMMA NextWindow ==
    ASSUME PlanningSound, reconciler.pc = "ensure", reconciler.windows # <<>>,
           NEW w, w = Head(reconciler.windows)
    PROVE  /\ reconciler # Idle /\ reconciler \in Writing /\ Planned \in Seq(ProperWindow)
           /\ Done \in Nat /\ Done + 1 \in DOMAIN Planned /\ w = Planned[Done + 1]
           /\ w \in ProperWindow /\ w.event \in Events /\ w.start \in Int /\ w.end \in Int
           /\ -BeforeKickoff <= w.start /\ w.start + Span <= w.end
           /\ reconciler.now < w.start + Span
           /\ reconciler.now \in Nat /\ refreshed <= reconciler.now /\ reconciler.now <= clock
           /\ \E g \in Fixtures : StartsWith(stored, g, w.event, w.start)
<1>1. reconciler # Idle
  BY DEF Idle
<1>2. /\ reconciler \in Writing /\ Planned \in Seq(ProperWindow)
      /\ reconciler.now \in Nat /\ reconciler.windows \in Seq(ProperWindow)
  BY <1>1, UnderWay DEF PlanningSound
<1>3. /\ Done >= 0 /\ refreshed <= reconciler.now /\ reconciler.now <= clock
      /\ \A j \in 1..Len(reconciler.windows) : reconciler.windows[j] = Planned[Done + j]
  BY <1>1 DEF PlanningSound, ReconcilerSound
<1>4. Len(reconciler.windows) \in Nat /\ Len(reconciler.windows) >= 1 /\ Len(Planned) \in Nat
  BY <1>2
<1>5. Done \in Nat /\ Done + 1 \in DOMAIN Planned /\ w = Planned[Done + 1]
  <2>1. Done = Len(Planned) - Len(reconciler.windows)
    BY DEF Done
  <2>2. Done \in Nat /\ Done + 1 \in 1..Len(Planned)
    BY <1>3, <1>4, <2>1
  <2>3. w = reconciler.windows[1]
    BY <1>2, <1>4
  <2> QED
    BY <1>2, <1>3, <1>4, <2>2, <2>3
<1>6. /\ w \in ProperWindow /\ w.event \in Events
      /\ -BeforeKickoff <= w.start /\ w.start + Span <= w.end
      /\ w.start + Span > reconciler.now
      /\ \E g \in Fixtures : StartsWith(stored, g, w.event, w.start)
  BY <1>5, WindowStarts DEF Planned, PlanningSound
<1>7. w.start \in Int /\ w.end \in Int
  BY <1>6 DEF ProperWindow, MatchWindow
<1> QED
  BY <1>1, <1>2, <1>3, <1>5, <1>6, <1>7, ConstantTypes

(* A window that is written is in time: the last run was a period ago, and *)
(* it planned this match, or a window with an earlier start over it.       *)
LEMMA WrittenInTime ==
    ASSUME PlanningSound, reconciler.pc = "ensure", reconciler.windows # <<>>,
           NEW w, w = Head(reconciler.windows), ~Retained(ScheduleName(w), w)
    PROVE  /\ LaterOf(w.start, clock + CatchUp) <= Deadline(w.event, w.start)
           /\ clock <= Deadline(w.event, w.start)
<1> DEFINE e == w.event
           s == w.start
           n == refreshed
           d == Deadline(e, s)
<1>1. /\ reconciler # Idle /\ Planned \in Seq(ProperWindow)
      /\ Done \in Nat /\ Done + 1 \in DOMAIN Planned /\ w = Planned[Done + 1]
      /\ e \in Events /\ s \in Int /\ reconciler.now < s + Span
      /\ reconciler.now \in Nat /\ n <= reconciler.now /\ reconciler.now <= clock
  BY NextWindow
<1>2. /\ n \in Nat /\ clock \in Nat /\ changedAt \in Nat /\ clock <= n + RefreshEvery
      /\ polledAt[e] \in Nat /\ brokenUntil[e] \in Nat
  BY <1>1 DEF PlanningSound, TimesSound
<1>3. /\ Since(e, s) \in Int /\ s <= Since(e, s) /\ changedAt <= Since(e, s)
      /\ d \in Int /\ Since(e, s) + Period <= d
  BY <1>1, <1>2, SinceTypes, DeadlineTypes
<1>4. n + Period <= d
  <2>1. CASE n <= Since(e, s)
    BY <1>2, <1>3, <2>1, PeriodTypes
  <2>2. CASE n > Since(e, s)
    <3>1. n > changedAt /\ changedAt < reconciler.now /\ s < n
      BY <1>1, <1>2, <1>3, <2>2
    <3>3. PICK g \in Fixtures : StartsWith(stored, g, e, s)
      BY NextWindow
    <3>4. /\ Scheduled(stored[g]) /\ stored[g].event = e
          /\ stored[g].kickoff - BeforeKickoff = s /\ stored[g].kickoff \in Nat
      <4>1. stored[g] \in Fixture
        BY DEF PlanningSound, FixtureLists
      <4> QED
        BY <3>3, <4>1, WindowOf DEF StartsWith
    <3>5. stored[g].kickoff + AfterKickoff > n
      <4>1. stored[g].kickoff + AfterKickoff = s + Span
        BY <3>4, ConstantTypes DEF Span
      <4>2. \A x, y, z \in Int : x <= y /\ y < z => x < z
        OBVIOUS
      <4>3. n < s + Span
        BY <1>1, <1>2, <4>2, ConstantTypes
      <4> QED
        BY <1>2, <3>4, <4>1, <4>3, ConstantTypes
    <3>6. PICK i \in DOMAIN BuildMatchWindows(stored, n) :
              LET u == BuildMatchWindows(stored, n)[i]
              IN  u.event = e /\ u.start <= s
      BY <3>4, <3>5, FixtureCovered DEF PlanningSound
    <3> DEFINE u == BuildMatchWindows(stored, n)[i]
    <3>7. u.event = e /\ u.start <= s
      BY <3>6
    <3>8. /\ u \in ProperWindow
          /\ \E h \in Fixtures : StartsWith(stored, h, u.event, u.start)
      BY WindowStarts DEF PlanningSound
    <3>9. /\ n <= Deadline(u.event, u.start)
          /\ ScheduleName(u) \in DOMAIN schedules \/ u.start + Span <= reconciler.now
      BY <1>1, <3>1 DEF PlanningSound, RefreshSound
    <3>10. u.start \in Int
      BY <3>8 DEF ProperWindow, MatchWindow
    <3> HIDE DEF u
    <3>11. CASE u.start < s
      <4>1. PICK h \in Fixtures : StartsWith(stored, h, e, u.start)
        BY <3>7, <3>8
      <4>2. Deadline(e, u.start) + Period <= d
        BY <1>1, <1>2, <3>10, <3>11, <4>1, DeadlineGrows DEF PlanningSound
      <4>3. Deadline(e, u.start) \in Int
        BY <1>2, <3>10, DeadlineTypes
      <4> HIDE DEF d
      <4> QED
        BY <1>2, <1>3, <3>7, <3>9, <4>2, <4>3, PeriodTypes
    <3>12. CASE u.start = s
      <4>1. ScheduleName(u) = ScheduleName(w)
        BY <3>7, <3>12 DEF ScheduleName
      <4>2. ScheduleName(w) \in DOMAIN schedules
        BY <1>1, <3>9, <3>12, <4>1, ConstantTypes
      <4>3. ScheduleName(w) \notin reconciler.existing
        BY <1>1, <1>2, <3>1 DEF Retained
      <4>4. PICK k \in 1..Done : ScheduleName(w) = ScheduleName(Planned[k])
        BY <1>1, <4>2, <4>3 DEF PlanningSound, ReconcilerSound
      <4>5. k \in DOMAIN Planned
        BY <1>1
      <4>6. k = Done + 1
        BY <1>1, <4>4, <4>5, NamesAreDistinct DEF Planned, PlanningSound
      <4> QED
        BY <1>1, <4>6
    <3> QED
      BY <1>1, <3>7, <3>10, <3>11, <3>12
  <2> QED
    BY <1>2, <1>3, <2>1, <2>2
<1> HIDE DEF d
<1>5. clock + CatchUp <= d /\ clock <= d
  BY <1>2, <1>3, <1>4, ConstantTypes, PeriodTypes
<1>6. LaterOf(s, clock + CatchUp) <= d
  BY <1>1, <1>3, <1>5, PeriodTypes DEF LaterOf
<1> QED
  BY <1>5, <1>6 DEF d

(* A window is skipped, or its schedule written.                           *)
LEMMA EnsureSound == PlanningSound /\ Ensure => PlanningSound'
<1> SUFFICES ASSUME PlanningSound, Ensure,
                    NEW w, w = Head(reconciler.windows),
                    NEW name, name = ScheduleName(w)
             PROVE  PlanningSound'
  OBVIOUS
<1>1. reconciler.pc = "ensure" /\ reconciler.windows # <<>>
  BY DEF Ensure
<1>2. /\ reconciler # Idle /\ reconciler \in Writing /\ Planned \in Seq(ProperWindow)
      /\ Done \in Nat /\ Done + 1 \in DOMAIN Planned /\ w = Planned[Done + 1]
      /\ w \in ProperWindow /\ w.event \in Events /\ w.start \in Int /\ w.end \in Int
      /\ -BeforeKickoff <= w.start /\ w.start + Span <= w.end
      /\ reconciler.now \in Nat /\ reconciler.now <= clock
  BY <1>1, NextWindow
<1>3. UNCHANGED <<clock, refreshed, changedAt, stored, answers, accepted, brokenUntil,
                  chains, polledAt>>
  BY DEF Ensure, world, database
<1>4. /\ reconciler'.pc = "ensure" /\ reconciler'.now = reconciler.now
      /\ reconciler'.windows = Tail(reconciler.windows)
      /\ reconciler'.existing = reconciler.existing
      /\ reconciler'.obsolete = reconciler.obsolete
      /\ reconciler' \in Writing
  <2>1. reconciler.windows \in Seq(ProperWindow)
    BY <1>2 DEF Writing
  <2>2. Tail(reconciler.windows) \in Seq(ProperWindow)
    BY <1>1, <2>1
  <2> QED
    BY <1>1, <1>2, <2>2 DEF Ensure, Writing
<1>5. /\ name \in Events \X Int /\ name[1] = w.event /\ name[2] = w.start
  BY <1>2 DEF ScheduleName
<1>6. name \in Names(Planned)
  BY <1>2 DEF Names
<1>7. \/ /\ schedules' = schedules /\ name \in DOMAIN schedules
         /\ w.start > reconciler.now => schedules[name].window = w
      \/ /\ ~Retained(name, w)
         /\ schedules' = [n \in DOMAIN schedules \cup {name} |->
                IF n = name THEN Definition(w, reconciler.now) ELSE schedules[n]]
  <2>1. CASE Retained(name, w) \/ UpToDate(name, w)
    <3>1. schedules' = schedules
      BY <2>1 DEF Ensure
    <3>2. name \in reconciler.existing
      BY <2>1 DEF Retained, UpToDate
    <3>3. name \in DOMAIN schedules
      BY <1>1, <1>2, <1>6, <3>2 DEF PlanningSound, ReconcilerSound
    <3>4. w.start > reconciler.now => schedules[name].window = w
      BY <1>2, <2>1 DEF Retained, UpToDate
    <3> QED
      BY <3>1, <3>3, <3>4
  <2>2. CASE ~(Retained(name, w) \/ UpToDate(name, w))
    BY <2>2 DEF Ensure
  <2> QED
    BY <2>1, <2>2
<1>8. /\ DOMAIN schedules' = DOMAIN schedules \cup {name}
      /\ \A n \in DOMAIN schedules : n # name => schedules'[n] = schedules[n]
      /\ w.start > reconciler.now => schedules'[name].window = w
      /\ \/ name \in DOMAIN schedules /\ schedules'[name] = schedules[name]
         \/ ~Retained(name, w) /\ schedules'[name] = Definition(w, reconciler.now)
      /\ schedules' = [n \in DOMAIN schedules' |-> schedules'[n]]
  <2>1. schedules = [n \in DOMAIN schedules |-> schedules[n]]
    BY DEF PlanningSound, SchedulesSound
  <2>2. Definition(w, reconciler.now).window = w
    BY DEF Definition
  <2>3. CASE /\ schedules' = schedules /\ name \in DOMAIN schedules
             /\ w.start > reconciler.now => schedules[name].window = w
    <3>1. DOMAIN schedules' = DOMAIN schedules \cup {name}
      BY <2>3
    <3> QED
      BY <2>1, <2>3, <3>1
  <2>4. CASE /\ ~Retained(name, w)
             /\ schedules' = [n \in DOMAIN schedules \cup {name} |->
                    IF n = name THEN Definition(w, reconciler.now) ELSE schedules[n]]
    <3>1. schedules' = [n \in DOMAIN schedules' |-> schedules'[n]]
      BY <2>4
    <3> QED
      BY <2>2, <2>4, <3>1
  <2> QED
    BY <1>7, <2>3, <2>4
<1> DEFINE at == LaterOf(w.start, reconciler.now + CatchUp)
<1>9. /\ Definition(w, reconciler.now) = [window |-> w, at |-> at, fired |-> FALSE]
      /\ at \in Int /\ 0 <= at /\ w.start <= at
      /\ at <= LaterOf(w.start, clock + CatchUp)
  <2>1. clock \in Nat
    BY DEF PlanningSound, TimesSound
  <2>2. Definition(w, reconciler.now) = [window |-> w, at |-> at, fired |-> FALSE]
    BY DEF Definition, ScheduleAt
  <2> DEFINE r == reconciler.now
  <2>3. /\ r \in Nat /\ r <= clock /\ w.start \in Int
        /\ CatchUp \in Nat /\ at = LaterOf(w.start, r + CatchUp)
    BY <1>2, ConstantTypes
  <2> HIDE DEF at, r
  <2>4. at \in Int /\ 0 <= at /\ w.start <= at
    BY <2>3 DEF LaterOf
  <2>5. at <= LaterOf(w.start, clock + CatchUp)
    BY <2>1, <2>3 DEF LaterOf
  <2> QED
    BY <2>2, <2>4, <2>5
<1> HIDE DEF at
<1>10. (stored \in FixtureLists)' /\ AnswersTyped' /\ TimesSound'
  BY <1>3 DEF PlanningSound, TimesSound, AnswersTyped
<1>11. SchedulesSound'
  <2>1. ASSUME NEW n \in DOMAIN schedules'
        PROVE  /\ n \in Events \X Int /\ schedules'[n] \in LiveSchedule
               /\ LET t == schedules'[n]
                  IN  /\ n = ScheduleName(t.window)
                      /\ -BeforeKickoff <= t.window.start
                      /\ t.window.start + Span <= t.window.end
                      /\ 0 <= t.at /\ t.window.start <= t.at
                      /\ t.at <= LaterOf(t.window.start, clock + CatchUp)
    <3>1. CASE n \in DOMAIN schedules /\ schedules'[n] = schedules[n]
      BY <3>1 DEF PlanningSound, SchedulesSound
    <3>2. CASE n = name /\ schedules'[n] = Definition(w, reconciler.now)
      BY <1>2, <1>5, <1>9, <3>2 DEF LiveSchedule
    <3> QED
      BY <1>8, <2>1, <3>1, <3>2
  <2>2. schedules' \in [DOMAIN schedules' -> LiveSchedule]
    BY <1>8, <2>1
  <2> QED
    BY <1>3, <2>1, <2>2 DEF SchedulesSound
<1>12. ChainsSound'
  <2>1. ASSUME NEW n \in DOMAIN schedules', schedules'[n].fired
        PROVE  n \in DOMAIN schedules /\ schedules[n].fired
    BY <1>8, <1>9, <2>1
  <2> QED
    BY <1>3, <2>1 DEF PlanningSound, ChainsSound

<1>13. ReconcilerSound'
  <2>1. Planned' = Planned /\ Names(Planned)' = Names(Planned)
    BY <1>3, <1>4 DEF Planned, Names
  <2>2. /\ reconciler.windows \in Seq(ProperWindow)
        /\ Len(reconciler.windows) \in Nat /\ Len(reconciler.windows) >= 1
        /\ Len(reconciler'.windows) = Len(reconciler.windows) - 1
        /\ \A j \in 1..Len(reconciler'.windows) :
               reconciler'.windows[j] = reconciler.windows[j + 1]
    <3>1. reconciler.windows \in Seq(ProperWindow)
      BY <1>2 DEF Writing
    <3> QED
      BY <1>1, <1>4, <3>1
  <2>3. Done' = Done + 1
    BY <1>2, <2>1, <2>2 DEF Done
  <2>4. \A j \in 1..Len(reconciler'.windows) : reconciler'.windows[j] = Planned[Done' + j]
    <3> SUFFICES ASSUME NEW j \in 1..Len(reconciler'.windows)
                 PROVE  reconciler'.windows[j] = Planned[(Done + 1) + j]
      BY <2>3
    <3>1. j + 1 \in 1..Len(reconciler.windows)
      BY <2>2
    <3>2. reconciler.windows[j + 1] = Planned[Done + (j + 1)]
      BY <1>2, <3>1 DEF PlanningSound, ReconcilerSound
    <3>3. Done + (j + 1) = (Done + 1) + j
      BY <1>2, <2>2
    <3> QED
      BY <2>2, <3>2, <3>3
  <2>5. /\ reconciler.existing \cap Names(Planned) \subseteq DOMAIN schedules
        /\ reconciler.obsolete = {} /\ DOMAIN schedules \subseteq Names(Planned)
        /\ \A n \in DOMAIN schedules \ reconciler.existing :
               \E i \in 1..Done : n = ScheduleName(Planned[i])
        /\ \A i \in 1..Done :
               /\ ScheduleName(Planned[i]) \in DOMAIN schedules
               /\ Planned[i].start > reconciler.now =>
                      schedules[ScheduleName(Planned[i])].window = Planned[i]
    BY <1>1, <1>2 DEF PlanningSound, ReconcilerSound
  <2>6. ASSUME NEW n \in DOMAIN schedules' \ reconciler'.existing
        PROVE  \E i \in 1..Done' : n = ScheduleName(Planned[i])
    <3>1. CASE n = name
      BY <1>2, <2>3, <3>1
    <3>2. CASE n # name
      <4>1. PICK i \in 1..Done : n = ScheduleName(Planned[i])
        BY <1>4, <1>8, <2>5, <3>2
      <4> QED
        BY <1>2, <2>3, <4>1
    <3> QED
      BY <3>1, <3>2
  <2>7. ASSUME NEW i \in 1..Done'
        PROVE  /\ ScheduleName(Planned[i]) \in DOMAIN schedules'
               /\ Planned[i].start > reconciler.now =>
                      schedules'[ScheduleName(Planned[i])].window = Planned[i]
    <3>1. CASE i = Done + 1
      BY <1>2, <1>8, <3>1
    <3>2. CASE i \in 1..Done
      <4>1. i \in DOMAIN Planned /\ i # Done + 1
        BY <1>2, <3>2
      <4>2. ScheduleName(Planned[i]) # name
        BY <1>2, <4>1, NamesAreDistinct DEF Planned, PlanningSound
      <4> QED
        BY <1>8, <2>5, <3>2, <4>2
    <3> QED
      BY <1>2, <2>3, <3>1, <3>2
  <2>8. Done' \in Nat
    BY <1>2, <2>3
  <2>9. /\ refreshed <= reconciler.now /\ reconciler.now <= clock
    BY <1>2 DEF PlanningSound, ReconcilerSound
  <2>10. /\ reconciler'.existing \cap Names(Planned) \subseteq DOMAIN schedules'
         /\ reconciler'.obsolete = {} /\ DOMAIN schedules' \subseteq Names(Planned)
    BY <1>4, <1>6, <1>8, <2>5
  <2> QED
    BY <1>3, <1>4, <2>1, <2>4, <2>6, <2>7, <2>8, <2>9, <2>10 DEF ReconcilerSound
<1>14. SchedulesInTime'
  <2> SUFFICES ASSUME NEW n \in DOMAIN schedules', ~schedules'[n].fired
               PROVE  /\ schedules'[n].at <= Deadline(n[1], n[2])
                      /\ clock <= Deadline(n[1], n[2])
    BY <1>3 DEF SchedulesInTime, Deadline, Since, Rank
  <2>1. CASE n \in DOMAIN schedules /\ schedules'[n] = schedules[n]
    BY <2>1 DEF PlanningSound, SchedulesInTime
  <2>2. CASE n = name /\ ~Retained(name, w)
             /\ schedules'[n] = Definition(w, reconciler.now)
    <3>1. /\ LaterOf(w.start, clock + CatchUp) <= Deadline(w.event, w.start)
          /\ clock <= Deadline(w.event, w.start)
      BY <1>1, <2>2, WrittenInTime
    <3>2. at <= LaterOf(w.start, clock + CatchUp) /\ at \in Int /\ schedules'[n].at = at
      BY <1>9, <2>2
    <3>3. LaterOf(w.start, clock + CatchUp) \in Int /\ Deadline(w.event, w.start) \in Int
      <4>1. /\ clock \in Nat /\ changedAt \in Nat /\ polledAt[w.event] \in Nat
            /\ brokenUntil[w.event] \in Nat
        BY <1>2 DEF PlanningSound, TimesSound
      <4>2. clock + CatchUp \in Int
        BY <4>1, ConstantTypes
      <4>3. LaterOf(w.start, clock + CatchUp) \in Int
        BY <1>2, <4>2, LaterOfTypes
      <4> QED
        BY <1>2, <4>1, <4>3, DeadlineTypes
    <3> QED
      BY <1>5, <2>2, <3>1, <3>2, <3>3
  <2> QED
    BY <1>8, <2>1, <2>2
<1>15. RefreshSound'
  <2>1. reconciler' # Idle
    BY <1>4 DEF Idle
  <2> QED
    BY <1>2, <1>3, <1>4, <1>8, <2>1
    DEF PlanningSound, RefreshSound, Deadline, Since, Rank
<1>16. PolledInTime'
  BY <1>3 DEF PlanningSound, PolledInTime, Since
<1> QED
  BY <1>10, <1>11, <1>12, <1>13, <1>14, <1>15, <1>16 DEF PlanningSound

(* Grace leaves a period for each fixture.                                 *)
LEMMA WithinGrace ==
    ASSUME NEW k \in Nat, 1 + k <= Cardinality(Fixtures)
    PROVE  /\ Period * (1 + k) \in Nat /\ Period <= Grace /\ Period * (1 + k) <= Grace
           /\ 2 + k <= Cardinality(Fixtures) => Period * (1 + k) + Period <= Grace
<1> DEFINE l == Cardinality(Fixtures)
<1>1. l \in Nat /\ Grace = Period * l /\ Grace \in Nat /\ Period \in Nat
  BY GraceTypes, PeriodTypes
<1> HIDE DEF l
<1>2. \A p, a, b \in Nat : a <= b => p * a <= p * b /\ p * a \in Nat
  OBVIOUS
<1>3. 1 + k <= l
  BY DEF l
<1>4. Period * (1 + k) <= Grace
  BY <1>1, <1>2, <1>3
<1>5. ASSUME 2 + k <= l PROVE Period * (1 + k) + Period <= Grace
  <2>1. Period * (2 + k) <= Grace
    BY <1>1, <1>2, <1>5
  <2>2. Period * (1 + k) + Period = Period * (2 + k)
    BY <1>1
  <2> QED
    BY <2>1, <2>2
<1>6. Period * (1 + k) \in Nat /\ Period <= Period * (1 + k)
  <2>1. Period * 1 <= Period * (1 + k) /\ Period * (1 + k) \in Nat
    BY <1>1, <1>2
  <2> QED
    BY <1>1, <2>1
<1> QED
  BY <1>1, <1>4, <1>5, <1>6 DEF l

(* A match that is not over has been waiting for Grace at most, and will   *)
(* have been in the next moment: the last run is a period ago, and it      *)
(* planned a window over the match, which is due in time or was given up   *)
(* for one that starts with a later match.                                 *)
LEMMA WaitsInTime ==
    ASSUME PlanningSound, clock < refreshed + RefreshEvery,
           \A name \in DOMAIN schedules : ~Due(name),
           NEW f \in Fixtures, Scheduled(stored[f]),
           clock + 1 < stored[f].kickoff + AfterKickoff
    PROVE  clock + 1 <= Since(stored[f].event, stored[f].kickoff - BeforeKickoff) + Grace
<1> DEFINE e == stored[f].event
           s == stored[f].kickoff - BeforeKickoff
           n == refreshed
           t == clock + 1
<1>1. stored \in FixtureLists /\ stored[f] \in Fixture
  BY DEF PlanningSound, FixtureLists
<1>2. e \in Events /\ s \in Int /\ stored[f].kickoff \in Nat
  BY <1>1, WindowOf, ConstantTypes
<1>3. /\ n \in Nat /\ clock \in Nat /\ changedAt \in Nat /\ polledAt[e] \in Nat
      /\ brokenUntil[e] \in Nat /\ t <= n + RefreshEvery /\ n <= clock
  <2>1. /\ n \in Nat /\ clock \in Nat /\ changedAt \in Nat /\ polledAt[e] \in Nat
        /\ brokenUntil[e] \in Nat /\ n <= clock
    BY <1>2 DEF PlanningSound, TimesSound
  <2>2. clock + 1 <= n + RefreshEvery
    BY <2>1, ConstantTypes
  <2> QED
    BY <2>1, <2>2
<1>4. /\ Since(e, s) \in Int /\ changedAt <= Since(e, s) /\ polledAt[e] <= Since(e, s)
      /\ brokenUntil[e] <= Since(e, s)
      /\ \A r \in Int : r <= s => Since(e, r) \in Int /\ Since(e, r) <= Since(e, s)
  BY <1>2, <1>3 DEF Since, LaterOf
<1> HIDE DEF e, s
<1>5. CASE n <= Since(e, s)
  <2> DEFINE k == Cardinality(StartBefore(stored, e, s))
  <2>1. k \in Nat /\ 1 + k <= Cardinality(Fixtures)
    <3>1. s <= s /\ k \in Nat
      BY <1>2, StartBeforeFinite
    <3>2. s <= stored[f].kickoff - BeforeKickoff
      BY <3>1 DEF s
    <3> QED
      BY <1>1, <1>2, <3>1, <3>2, RankBelow
  <2> HIDE DEF k
  <2>2. Period <= Grace
    BY <2>1, WithinGrace
  <2>3. t <= Since(e, s) + Grace
    BY <1>3, <1>4, <1>5, <2>2, PeriodTypes, GraceTypes, ConstantTypes
  <2> QED
    BY <2>3 DEF e, s
<1>6. CASE n > Since(e, s)
  <2>1. n > changedAt /\ n > polledAt[e] /\ n > brokenUntil[e]
    BY <1>3, <1>4, <1>6
  <2>2. stored[f].kickoff + AfterKickoff > n
    BY <1>2, <1>3, ConstantTypes
  <2>3. PICK i \in DOMAIN BuildMatchWindows(stored, n) :
            LET u == BuildMatchWindows(stored, n)[i]
            IN  u.event = e /\ u.start <= s
    BY <1>1, <2>2, FixtureCovered DEF e, s
  <2> DEFINE w == BuildMatchWindows(stored, n)[i]
             r == w.start
             k == Cardinality(StartBefore(stored, e, r))
  <2>4. w.event = e /\ r <= s
    BY <2>3
  <2>5. /\ w \in ProperWindow /\ w.start + Span > n
        /\ \E g \in Fixtures : StartsWith(stored, g, w.event, w.start)
    BY <1>1, WindowStarts
  <2>6. /\ n <= Deadline(w.event, r)
        /\ ScheduleName(w) \in DOMAIN schedules \/ w.start + Span <= clock
    BY <2>1 DEF PlanningSound, RefreshSound
  <2>7. r \in Int
    BY <2>5 DEF ProperWindow, MatchWindow
  <2> HIDE DEF w
  <2>8. k \in Nat /\ 1 + k <= Cardinality(Fixtures)
    BY <1>1, <2>4, <2>7, StartBeforeFinite, RankBelow DEF s
  <2>9. Deadline(e, r) = Since(e, r) + Period * (1 + k)
    BY DEF Deadline, Rank
  <2>10. Since(e, r) \in Int /\ Since(e, r) <= Since(e, s)
    BY <1>4, <2>4, <2>7
  <2> HIDE DEF k, r
  <2>11. /\ Period * (1 + k) \in Nat /\ Period * (1 + k) <= Grace
         /\ 2 + k <= Cardinality(Fixtures) => Period * (1 + k) + Period <= Grace
    BY <2>8, WithinGrace
  <2>12. CASE ScheduleName(w) \in DOMAIN schedules
    <3> DEFINE name == ScheduleName(w)
    <3>1. name \in DOMAIN schedules /\ name[1] = e /\ name[2] = r
      BY <2>4, <2>12 DEF ScheduleName, r
    <3> HIDE DEF name
    <3>2. ~schedules[name].fired
      <4> SUFFICES ASSUME schedules[name].fired PROVE FALSE
        BY <3>1, ScheduleFacts DEF LiveSchedule
      <4>1. CASE r + Span <= polledAt[e] + 1
        <5>1. n < r + Span
          BY <1>3, <2>5, <2>7, ConstantTypes DEF r
        <5> QED
          BY <1>3, <2>1, <2>7, <4>1, <5>1, ConstantTypes
      <4>2. CASE \E c \in chains : c.event = e
        <5>1. polledAt[e] = clock
          BY <4>2 DEF PlanningSound, ChainsSound
        <5> QED
          BY <1>3, <2>1, <5>1
      <4>3. CASE r + Span <= brokenUntil[e]
        <5>1. n < r + Span
          BY <1>3, <2>5, <2>7, ConstantTypes DEF r
        <5> QED
          BY <1>3, <2>1, <2>7, <4>3, <5>1, ConstantTypes
      <4> QED
        BY <3>1, <4>1, <4>2, <4>3 DEF PlanningSound, ChainsSound
    <3>3. schedules[name].at <= Deadline(e, r) /\ schedules[name].at \in Int
      BY <3>1, <3>2, ScheduleFacts DEF PlanningSound, SchedulesInTime
    <3>4. t <= schedules[name].at
      BY <1>3, <3>1, <3>2, <3>3 DEF Due
    <3>5. t <= Since(e, s) + Grace
      BY <1>3, <1>4, <2>9, <2>10, <2>11, <3>3, <3>4, GraceTypes
    <3> QED
      BY <3>5 DEF e, s
  <2>13. CASE r + Span <= clock
    <3>1. PICK g \in Fixtures : StartsWith(stored, g, e, r)
      BY <2>4, <2>5 DEF r
    <3>2. g # f
      <4> SUFFICES ASSUME g = f PROVE FALSE
        OBVIOUS
      <4>1. s = r
        BY <3>1 DEF StartsWith, s
      <4>2. stored[f].kickoff + AfterKickoff = r + Span
        BY <1>2, <4>1, ConstantTypes DEF Span, s
      <4> QED
        BY <1>2, <1>3, <2>7, <2>13, <4>2, ConstantTypes
    <3>3. 2 + k <= Cardinality(Fixtures)
      BY <1>1, <2>4, <2>7, <3>1, <3>2, RankBelowTwo DEF k, s
    <3>4. n <= Since(e, r) + Period * (1 + k)
      BY <2>4, <2>6, <2>9
    <3>5. t <= Since(e, s) + Grace
      BY <1>3, <1>4, <2>10, <2>11, <3>3, <3>4, PeriodTypes, GraceTypes, ConstantTypes
    <3> QED
      BY <3>5 DEF e, s
  <2> QED
    BY <2>6, <2>12, <2>13 DEF r
<1> QED
  BY <1>3, <1>4, <1>5, <1>6

(* A moment passes: nothing was due, chains poll or end.                   *)
LEMMA TickSound == PlanningSound /\ Tick => PlanningSound'
<1> SUFFICES ASSUME PlanningSound, Tick PROVE PlanningSound'
  OBVIOUS
<1>1. /\ clock < MaxClock /\ clock < refreshed + RefreshEvery
      /\ \A name \in DOMAIN schedules : ~Due(name)
      /\ clock' = clock + 1 /\ chains' = Alive(clock + 1)
      /\ polledAt' = [e \in Events |->
             IF \E c \in Alive(clock + 1) : c.event = e
             THEN clock + 1 ELSE polledAt[e]]
      /\ UNCHANGED <<stored, answers, accepted, brokenUntil, schedules, reconciler,
                     refreshed, changedAt>>
  BY DEF Tick, database
<1>2. /\ clock \in Nat /\ clock + 1 \in 0..MaxClock
      /\ refreshed \in Nat /\ changedAt \in Nat /\ refreshed <= clock /\ changedAt <= clock
      /\ clock + 1 <= refreshed + RefreshEvery
      /\ polledAt \in [Events -> Nat] /\ \A e \in Events : polledAt[e] <= clock
  <2>1. /\ clock \in Nat /\ refreshed \in Nat /\ changedAt \in Nat
        /\ refreshed <= clock /\ changedAt <= clock
        /\ polledAt \in [Events -> Nat] /\ \A e \in Events : polledAt[e] <= clock
    BY DEF PlanningSound, TimesSound
  <2>2. clock + 1 \in 0..MaxClock /\ clock + 1 <= refreshed + RefreshEvery
    BY <1>1, <2>1, ConstantTypes, BoundAssumption
  <2> QED
    BY <2>1, <2>2
<1>3. /\ polledAt' \in [Events -> Nat] /\ brokenUntil' \in [Events -> Nat]
      /\ \A e \in Events : polledAt[e] <= polledAt'[e] /\ polledAt'[e] <= clock + 1
                          /\ brokenUntil[e] <= brokenUntil'[e]
  BY <1>1, <1>2 DEF PlanningSound, TimesSound
<1>4. /\ (stored \in FixtureLists)' /\ AnswersTyped' /\ TimesSound'
  BY <1>1, <1>2, <1>3 DEF PlanningSound, TimesSound, AnswersTyped
<1>5. SchedulesSound'
  <2>1. ASSUME NEW name \in DOMAIN schedules
        PROVE  schedules[name].at <= LaterOf(schedules[name].window.start, (clock + 1) + CatchUp)
    <3>1. /\ schedules[name].window.start = name[2] /\ name[2] \in Int
          /\ schedules[name].at \in Int
          /\ schedules[name].at <= LaterOf(name[2], clock + CatchUp)
      BY <2>1, ScheduleFacts
    <3>2. schedules[name].at <= LaterOf(name[2], (clock + 1) + CatchUp)
      BY <1>2, <3>1, ConstantTypes DEF LaterOf
    <3> QED
      BY <3>1, <3>2
  <2> QED
    BY <1>1, <2>1 DEF PlanningSound, SchedulesSound
<1>6. ChainsSound'
  <2>1. ASSUME NEW c \in chains'
        PROVE  /\ c \in ProperWindow /\ c.event \in Events
               /\ c.start + Span <= c.end /\ polledAt'[c.event] = clock'
    <3>1. c \in chains
      BY <1>1 DEF Alive
    <3>2. c \in ProperWindow /\ c.event \in Events /\ c.start + Span <= c.end
      BY <3>1 DEF PlanningSound, ChainsSound
    <3>3. polledAt'[c.event] = clock + 1
      BY <1>1, <3>2
    <3> QED
      BY <1>1, <3>2, <3>3
  <2>2. ASSUME NEW name \in DOMAIN schedules, schedules[name].fired
        PROVE  \/ name[2] + Span <= polledAt'[name[1]] + 1
               \/ \E c \in chains' : c.event = name[1] /\ c.start = name[2]
               \/ name[2] + Span <= brokenUntil[name[1]]
    <3>1. name[1] \in Events /\ name[2] \in Int
      BY ScheduleFacts
    <3>2. /\ polledAt[name[1]] \in Nat /\ polledAt'[name[1]] \in Nat
          /\ polledAt[name[1]] <= polledAt'[name[1]]
      BY <1>2, <1>3, <3>1
    <3>3. CASE name[2] + Span <= polledAt[name[1]] + 1
      <4>1. name[2] + Span <= polledAt'[name[1]] + 1
        BY <3>1, <3>2, <3>3, ConstantTypes
      <4> QED
        BY <4>1
    <3>4. CASE \E c \in chains : c.event = name[1] /\ c.start = name[2]
      <4>1. PICK c \in chains : c.event = name[1] /\ c.start = name[2]
        BY <3>4
      <4>2. /\ c \in ProperWindow /\ c.start + Span <= c.end
            /\ polledAt[name[1]] = clock
        BY <4>1 DEF PlanningSound, ChainsSound
      <4>3. c.end \in Int
        BY <4>2 DEF ProperWindow, MatchWindow
      <4>4. CASE c.end > clock + 1
        <5>1. c \in chains'
          BY <1>1, <4>1, <4>4 DEF Alive
        <5> QED
          BY <4>1, <5>1
      <4>5. CASE ~(c.end > clock + 1)
        <5>1. name[2] + Span <= polledAt'[name[1]] + 1
          BY <1>2, <3>1, <3>2, <4>1, <4>2, <4>3, <4>5, ConstantTypes
        <5> QED
          BY <5>1
      <4> QED
        BY <4>4, <4>5
    <3> QED
      BY <2>2, <3>3, <3>4 DEF PlanningSound, ChainsSound
  <2> QED
    BY <1>1, <2>1, <2>2 DEF ChainsSound
<1>7. ReconcilerSound'
  <2>1. CASE reconciler = Idle
    BY <1>1, <2>1 DEF ReconcilerSound, Idle
  <2>2. CASE reconciler # Idle
    <3>1. Planned' = Planned /\ Done' = Done
      BY <1>1 DEF Planned, Done
    <3>2. Names(Planned)' = Names(Planned)
      BY <3>1 DEF Names
    <3>3. reconciler.now \in Nat /\ reconciler.now <= clock
      BY <2>2, UnderWay DEF PlanningSound, ReconcilerSound
    <3>4. reconciler.now <= clock + 1
      BY <1>2, <3>3
    <3> QED
      BY <1>1, <2>2, <3>1, <3>2, <3>4 DEF PlanningSound, ReconcilerSound
  <2> QED
    BY <2>1, <2>2
<1>8. \A e \in Events, start \in Int :
          /\ Deadline(e, start) \in Int /\ Deadline(e, start)' \in Int
          /\ Deadline(e, start) <= Deadline(e, start)'
          /\ Since(e, start) \in Int /\ Since(e, start)' \in Int
          /\ Since(e, start) <= Since(e, start)'
  BY <1>1, <1>3, PollingGivesTime
<1>9. SchedulesInTime'
  <2> SUFFICES ASSUME NEW n \in DOMAIN schedules, ~schedules[n].fired
               PROVE  /\ schedules[n].at <= Deadline(n[1], n[2])'
                      /\ clock + 1 <= Deadline(n[1], n[2])'
    BY <1>1 DEF SchedulesInTime
  <2>1. n[1] \in Events /\ n[2] \in Int /\ schedules[n].at \in Int
    BY ScheduleFacts
  <2>2. schedules[n].at <= Deadline(n[1], n[2])
    BY DEF PlanningSound, SchedulesInTime
  <2>3. clock + 1 <= schedules[n].at
    BY <1>1, <1>2, <2>1 DEF Due
  <2>4. /\ Deadline(n[1], n[2]) \in Int /\ Deadline(n[1], n[2])' \in Int
        /\ Deadline(n[1], n[2]) <= Deadline(n[1], n[2])'
    BY <1>8, <2>1
  <2> QED
    BY <1>2, <2>1, <2>2, <2>3, <2>4
<1>10. RefreshSound'
  <2> SUFFICES ASSUME refreshed > changedAt,
                      NEW i \in DOMAIN BuildMatchWindows(stored, refreshed),
                      NEW w, w = BuildMatchWindows(stored, refreshed)[i]
               PROVE  /\ refreshed <= Deadline(w.event, w.start)'
                      /\ \/ ScheduleName(w) \in DOMAIN schedules
                         \/ /\ w.start + Span <= clock + 1
                            /\ reconciler # Idle => w.start + Span <= reconciler.now
    BY <1>1 DEF RefreshSound
  <2>1. /\ refreshed <= Deadline(w.event, w.start)
        /\ \/ ScheduleName(w) \in DOMAIN schedules
           \/ /\ w.start + Span <= clock
              /\ reconciler # Idle => w.start + Span <= reconciler.now
    BY DEF PlanningSound, RefreshSound
  <2>2. w.event \in Events /\ w.start \in Int
    <3>1. w \in ProperWindow /\ w.event \in Events
      BY WindowStarts DEF PlanningSound
    <3> QED
      BY <3>1 DEF ProperWindow, MatchWindow
  <2>3. refreshed <= Deadline(w.event, w.start)'
    BY <1>2, <1>8, <2>1, <2>2
  <2>4. w.start + Span <= clock => w.start + Span <= clock + 1
    BY <1>2, <2>2, ConstantTypes
  <2> QED
    BY <2>1, <2>3, <2>4
<1>11. PolledInTime'
  <2> SUFFICES ASSUME NEW f \in Fixtures, Scheduled(stored[f]),
                      clock + 1 < stored[f].kickoff + AfterKickoff
               PROVE  clock + 1 <= Since(stored[f].event, stored[f].kickoff - BeforeKickoff)'
                                       + Grace
    BY <1>1 DEF PolledInTime
  <2>1. clock + 1 <= Since(stored[f].event, stored[f].kickoff - BeforeKickoff) + Grace
    BY <1>1, WaitsInTime
  <2>2. stored[f].event \in Events /\ stored[f].kickoff - BeforeKickoff \in Int
    <3>1. stored[f] \in Fixture
      BY DEF PlanningSound, FixtureLists
    <3> QED
      BY <3>1, WindowOf, ConstantTypes
  <2>3. /\ Since(stored[f].event, stored[f].kickoff - BeforeKickoff) \in Int
        /\ Since(stored[f].event, stored[f].kickoff - BeforeKickoff)' \in Int
        /\ Since(stored[f].event, stored[f].kickoff - BeforeKickoff)
               <= Since(stored[f].event, stored[f].kickoff - BeforeKickoff)'
    BY <1>1, <1>8, <2>2
  <2> QED
    BY <1>2, <2>1, <2>3, GraceTypes
<1> QED
  BY <1>4, <1>5, <1>6, <1>7, <1>9, <1>10, <1>11 DEF PlanningSound

-----------------------------------------------------------------------------
(* The invariant holds in every state.                                     *)
THEOREM PlanningAlwaysSound == Spec => []PlanningSound
<1>1. PlanningSound /\ UNCHANGED vars => PlanningSound'
  <2> SUFFICES ASSUME PlanningSound, UNCHANGED vars PROVE PlanningSound'
    OBVIOUS
  <2>1. UNCHANGED <<clock, answers, accepted, stored, changedAt, schedules, reconciler,
                    chains, refreshed, polledAt, brokenUntil>>
    BY DEF vars, database
  <2>2. (stored \in FixtureLists)' /\ AnswersTyped' /\ TimesSound'
        /\ SchedulesSound' /\ ChainsSound' /\ SchedulesInTime' /\ PolledInTime'
    BY <2>1, Undisturbed
  <2>3. RefreshSound'
    BY <2>1, RefreshKept
  <2>4. Planned' = Planned /\ Done' = Done
    BY <2>1 DEF Planned, Done
  <2>5. ReconcilerSound'
    BY <2>1, <2>4 DEF PlanningSound, ReconcilerSound, Idle, Names
  <2> QED
    BY <2>2, <2>3, <2>5 DEF PlanningSound
<1>2. PlanningSound /\ [Next]_vars => PlanningSound'
  BY <1>1, StartSound, ListSound, DeleteSound, DeletedSound, EnsureSound, CompleteSound,
     FailSound, FireSound, BreakSound, LiveBundleSound, MoveSound, TickSound
  DEF Next, Reconcile
<1> QED
  BY <1>2, InitSound, PTL DEF Spec

(* Types: a schedule has its window's name, and is never due before it.    *)
THEOREM TypeCorrect == Spec => []TypeOK
<1>1. PlanningSound => TypeOK
  <2> SUFFICES ASSUME PlanningSound PROVE TypeOK
    OBVIOUS
  <2>1. /\ clock \in 0..MaxClock /\ refreshed \in 0..clock
        /\ answers \in Seq([Fixtures -> Fixture]) /\ answers # <<>>
        /\ accepted \in [Source -> 0..Len(answers)] /\ stored \in [Fixtures -> Fixture]
        /\ DOMAIN schedules \subseteq Events \X Int /\ brokenUntil \in [Events -> Nat]
    BY DEF PlanningSound, AnswersTyped, TimesSound, SchedulesSound, FixtureLists
  <2>2. ASSUME NEW name \in DOMAIN schedules
        PROVE  /\ name = ScheduleName(schedules[name].window)
               /\ schedules[name].at \in Nat /\ schedules[name].fired \in BOOLEAN
               /\ schedules[name].at >= schedules[name].window.start
    <3>1. /\ name = ScheduleName(schedules[name].window)
          /\ 0 <= schedules[name].at /\ schedules[name].window.start <= schedules[name].at
      BY DEF PlanningSound, SchedulesSound
    <3>2. /\ schedules[name].at \in Int /\ schedules[name].fired \in BOOLEAN
          /\ schedules[name].window.start \in Int
      BY ScheduleFacts DEF LiveSchedule
    <3> QED
      BY <3>1, <3>2
  <2>3. reconciler.pc \in {"idle", "list", "delete", "ensure"}
    <3>1. CASE reconciler = Idle
      BY <3>1 DEF Idle
    <3>2. CASE reconciler # Idle
      BY <3>2, UnderWay DEF PlanningSound, Listing, Writing
    <3> QED
      BY <3>1, <3>2
  <2>4. \A c \in chains : c.event \in Events
    BY DEF PlanningSound, ChainsSound
  <2> QED
    BY <2>1, <2>2, <2>3, <2>4 DEF TypeOK
<1> QED
  BY <1>1, PlanningAlwaysSound, PTL

(* What an invocation plans are the connected components of the windows of *)
(* the stored fixtures (build_match_windows), whatever FPL announces and   *)
(* whichever bundles wrote it: nothing writes fixtures while it runs.      *)
THEOREM WindowsAlwaysMerged == Spec => []WindowsAreMerged
<1>1. PlanningSound => WindowsAreMerged
  <2> SUFFICES ASSUME PlanningSound, reconciler.pc = "list"
               PROVE  IsMergeOf(reconciler.windows, Candidates(stored, reconciler.now))
    BY DEF WindowsAreMerged
  <2>1. reconciler # Idle
    BY DEF Idle
  <2>2. reconciler.windows = Planned
    BY <2>1 DEF PlanningSound, ReconcilerSound
  <2>3. stored \in FixtureLists
    BY DEF PlanningSound
  <2> QED
    BY <2>2, <2>3, BuildIsMerge DEF Planned
<1> QED
  BY <1>1, PlanningAlwaysSound, PTL

(* A completed reconciliation leaves exactly the planned windows           *)
(* (reconcile_schedules), whatever the runs that failed left behind and    *)
(* whichever schedules fired meanwhile.                                    *)
THEOREM ReconciledAlways == Spec => Reconciled
<1>1. ASSUME PlanningSound, Next,
             reconciler.pc = "ensure", reconciler' = Idle, refreshed' # refreshed
      PROVE  LET windows == BuildMatchWindows(stored, reconciler.now)
             IN  /\ DOMAIN schedules = Names(windows)
                 /\ \A i \in DOMAIN windows :
                        windows[i].start > reconciler.now =>
                            schedules[ScheduleName(windows[i])].window = windows[i]
  <2>1. Complete
    BY <1>1 DEF Next, Reconcile, Start, List, Delete, Deleted, Ensure, Fail, Fire, Break,
                 LiveBundle, Move, Tick
  <2>2. reconciler # Idle /\ reconciler.windows = <<>>
    BY <1>1, <2>1 DEF Complete, Idle
  <2>3. Planned \in Seq(ProperWindow)
    BY <1>1, <2>2, UnderWay DEF PlanningSound
  <2>4. Done = Len(Planned) /\ DOMAIN Planned = 1..Len(Planned)
    BY <2>2, <2>3 DEF Done
  <2>5. /\ DOMAIN schedules \subseteq Names(Planned)
        /\ \A i \in 1..Done :
               /\ ScheduleName(Planned[i]) \in DOMAIN schedules
               /\ Planned[i].start > reconciler.now =>
                      schedules[ScheduleName(Planned[i])].window = Planned[i]
    BY <1>1, <2>2 DEF PlanningSound, ReconcilerSound
  <2>6. Names(Planned) \subseteq DOMAIN schedules
    BY <2>4, <2>5 DEF Names
  <2> QED
    BY <2>4, <2>5, <2>6 DEF Planned
<1>2. PlanningSound /\ [Next]_vars =>
          [reconciler.pc = "ensure" /\ reconciler' = Idle /\ refreshed' # refreshed =>
              LET windows == BuildMatchWindows(stored, reconciler.now)
              IN  /\ DOMAIN schedules = Names(windows)
                  /\ \A i \in DOMAIN windows :
                         windows[i].start > reconciler.now =>
                             schedules[ScheduleName(windows[i])].window = windows[i]]_vars
  BY <1>1
<1> QED
  BY <1>2, PlanningAlwaysSound, PTL DEF Spec, Reconciled

(* No match goes unpolled for longer than Grace, a refresh period and a    *)
(* catch-up for each fixture, once the stored fixtures have been left      *)
(* alone: whichever schedules were deleted, retained or renamed, whichever *)
(* runs failed, and but for the matches with which the window of a chain   *)
(* that broke off began.                                                   *)
THEOREM MatchesAlwaysPolled == Spec => []MatchesArePolled
<1>1. PlanningSound => MatchesArePolled
  <2> SUFFICES ASSUME PlanningSound, NEW f \in Fixtures, InPlay(f)
               PROVE  clock - polledAt[stored[f].event] <= Grace
    BY DEF MatchesArePolled
  <2> DEFINE e == stored[f].event
             s == stored[f].kickoff - BeforeKickoff
  <2>1. /\ Scheduled(stored[f]) /\ s + Grace < clock
        /\ clock < stored[f].kickoff + AfterKickoff /\ changedAt + Grace < clock
        /\ brokenUntil[e] + Grace < clock
    BY DEF InPlay
  <2>2. stored[f] \in Fixture
    BY DEF PlanningSound, FixtureLists
  <2>3. e \in Events /\ s \in Int
    BY <2>1, <2>2, WindowOf, ConstantTypes
  <2>4. clock <= Since(e, s) + Grace
    BY <2>1 DEF PlanningSound, PolledInTime
  <2>5. /\ clock \in Nat /\ changedAt \in Nat /\ polledAt[e] \in Nat
        /\ brokenUntil[e] \in Nat
    BY <2>3 DEF PlanningSound, TimesSound
  <2> HIDE DEF e, s
  <2>6. Since(e, s) \in {polledAt[e], changedAt, brokenUntil[e], s}
    BY <2>3, <2>5, SinceTypes
  <2>7. clock - polledAt[e] <= Grace
    BY <2>1, <2>3, <2>4, <2>5, <2>6, GraceTypes
  <2> QED
    BY <2>7 DEF e
<1> QED
  BY <1>1, PlanningAlwaysSound, PTL
=============================================================================
