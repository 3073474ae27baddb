------------------------------- MODULE QuotaProofs -------------------------------
(***************************************************************************)
(* What is counted, for any number of keys, runs and uploads and for any   *)
(* limit: a client is refused only when it has spent its limit, and a row  *)
(* that takes a run or an organization over its quota does not stay        *)
(* unnoticed.  Both rest on sums over finite sets, which come first.       *)
(***************************************************************************)
EXTENDS Uploads, RateLimit, FiniteSetTheorems, TLAPS

(***************************************************************************)
(* Sums over finite sets.  MapThenSumSet is defined by recursion over the  *)
(* subsets of a set; what it does is proved by taking a smallest subset    *)
(* for which it does not.                                                  *)
(***************************************************************************)
Total(f, S) == MapThenSumSet(LAMBDA x : f[x], S)

\* The element with which a sum begins.
First(s) == CHOOSE x \in s : TRUE

\* g[s] is the total of f over s, for the subsets s of S.
IsTotals(g, f, S) ==
  g = [s \in SUBSET S |-> IF s = {} THEN 0 ELSE f[First(s)] + g[s \ {First(s)}]]

\* Induction over finite sets: of the sets for which something fails one is the smallest.
LEMMA SmallestSet ==
  ASSUME NEW S, IsFiniteSet(S), NEW Bad, Bad \subseteq SUBSET S, Bad # {}
  PROVE  \E T \in Bad : \A U \in SUBSET T : U # T => U \notin Bad
<1>1. Bad \subseteq FiniteSubsetsOf(S)
  BY FS_FiniteSubsetsOfFinite
<1>2. PICK T \in Bad : \A U \in Bad : ~ (<<U, T>> \in StrictSubsetOrdering(S))
  BY <1>1, FS_StrictSubsetOrderingWellFounded, WFMin
<1>3. ASSUME NEW U \in SUBSET T, U # T, U \in Bad PROVE FALSE
  <2>1. <<U, T>> \in StrictSubsetOrdering(S)
    BY <1>3 DEF StrictSubsetOrdering
  <2> QED
    BY <2>1, <1>2, <1>3
<1> QED
  BY <1>3

\* The first element of a set is one of it.
LEMMA FirstIsIn == ASSUME NEW s, s # {} PROVE First(s) \in s
BY DEF First

\* Two tables of totals agree on the sets that both have.
LEMMA TotalsAgree ==
  ASSUME NEW f, NEW S, IsFiniteSet(S), NEW T, IsFiniteSet(T), NEW g, IsTotals(g, f, S),
         NEW h, IsTotals(h, f, T), NEW s, s \subseteq S, s \subseteq T
  PROVE  g[s] = h[s]
<1> DEFINE Bad == {u \in SUBSET s : g[u] # h[u]}
<1>1. IsFiniteSet(s)
  BY FS_Subset
<1>2. ASSUME NEW u \in Bad, \A v \in SUBSET u : v # u => v \notin Bad PROVE FALSE
  <2>1. /\ g[u] = IF u = {} THEN 0 ELSE f[First(u)] + g[u \ {First(u)}]
        /\ h[u] = IF u = {} THEN 0 ELSE f[First(u)] + h[u \ {First(u)}]
    <3>1. u \in SUBSET S /\ u \in SUBSET T
      OBVIOUS
    <3> QED
      BY <3>1 DEF IsTotals
  <2>2. u # {}
    BY <2>1
  <2>3. u \ {First(u)} \in SUBSET s /\ u \ {First(u)} # u
    BY <2>2, FirstIsIn
  <2>4. g[u \ {First(u)}] = h[u \ {First(u)}]
    BY <2>3, <1>2
  <2> QED
    BY <2>1, <2>2, <2>4
<1>3. Bad = {}
  <2> HIDE DEF Bad
  <2>1. Bad \subseteq SUBSET s
    BY DEF Bad
  <2> QED
    BY <1>1, <1>2, <2>1, SmallestSet
<1> QED
  BY <1>3

\* Every finite set has a table of totals.
LEMMA TotalsExist ==
  ASSUME NEW f, NEW S, IsFiniteSet(S)
  PROVE  \E g : IsTotals(g, f, S)
<1> DEFINE Bad == {u \in SUBSET S : ~ \E g : IsTotals(g, f, u)}
<1>1. ASSUME NEW u \in Bad, \A v \in SUBSET u : v # u => v \notin Bad PROVE FALSE
  <2> DEFINE h(v) == CHOOSE g : IsTotals(g, f, v)
             below(v) == IF v = {} THEN 0 ELSE f[First(v)] + h(v \ {First(v)})[v \ {First(v)}]
             g == [v \in SUBSET u |-> below(v)]
  <2>1. \A v \in SUBSET u : v # u => IsTotals(h(v), f, v)
    BY <1>1
  <2>2. \A v \in SUBSET u : v # u => IsFiniteSet(v)
    BY FS_Subset
  <2> HIDE DEF h
  <2>3. ASSUME NEW v \in SUBSET u, v # u PROVE g[v] = h(v)[v]
    <3>1. h(v)[v] = IF v = {} THEN 0 ELSE f[First(v)] + h(v)[v \ {First(v)}]
      <4>1. v \in SUBSET v
        OBVIOUS
      <4> QED
        BY <4>1, <2>1, <2>3 DEF IsTotals
    <3>2. CASE v # {}
      <4> DEFINE w == v \ {First(v)}
      <4>1. w \in SUBSET u /\ w # u /\ w \subseteq v
        BY <3>2, FirstIsIn, <2>3
      <4>2. IsTotals(h(v), f, v) /\ IsTotals(h(w), f, w) /\ IsFiniteSet(v) /\ IsFiniteSet(w)
        BY <4>1, <2>1, <2>2, <2>3
      <4> HIDE DEF w
      <4>3. h(v)[w] = h(w)[w]
        BY <4>1, <4>2, TotalsAgree
      <4> QED
        BY <4>3, <3>1, <3>2 DEF w
    <3> QED
      BY <3>1, <3>2
  <2>4. \A v \in SUBSET u : g[v] = IF v = {} THEN 0 ELSE f[First(v)] + g[v \ {First(v)}]
    <3> SUFFICES ASSUME NEW v \in SUBSET u, v # {}
                 PROVE  g[v] = f[First(v)] + g[v \ {First(v)}]
      OBVIOUS
    <3>1. v \ {First(v)} \in SUBSET u /\ v \ {First(v)} # u
      BY FirstIsIn
    <3>2. g[v \ {First(v)}] = h(v \ {First(v)})[v \ {First(v)}]
      BY <3>1, <2>3
    <3> QED
      BY <3>2
  <2>5. g = [v \in SUBSET u |-> g[v]]
    OBVIOUS
  <2> HIDE DEF g
  <2>6. IsTotals(g, f, u)
    BY <2>4, <2>5 DEF IsTotals
  <2> QED
    BY <2>6
<1>2. Bad = {}
  <2> HIDE DEF Bad
  <2>1. Bad \subseteq SUBSET S
    BY DEF Bad
  <2> QED
    BY <1>1, <2>1, SmallestSet
<1>3. S \in SUBSET S
  OBVIOUS
<1> QED
  BY <1>2, <1>3

\* What the library's sum is: it takes out one element after the other.
LEMMA TotalIs ==
  ASSUME NEW f, NEW S, IsFiniteSet(S), NEW g, IsTotals(g, f, S)
  PROVE  Total(f, S) = g[S]
<1>1. Total(f, S) = (CHOOSE h : IsTotals(h, f, S))[S]
  BY DEF Total, MapThenSumSet, MapThenFoldSet, IsTotals, First
<1>2. IsTotals(CHOOSE h : IsTotals(h, f, S), f, S)
  OBVIOUS
<1> QED
  BY <1>1, <1>2, TotalsAgree

\* Nothing adds up to zero.
LEMMA TotalEmpty == ASSUME NEW f PROVE Total(f, {}) = 0
<1>1. IsFiniteSet({})
  BY FS_EmptySet
<1>2. PICK g : IsTotals(g, f, {})
  BY <1>1, TotalsExist
<1>3. g[{}] = 0
  BY <1>2 DEF IsTotals
<1> QED
  BY <1>1, <1>2, <1>3, TotalIs

\* A sum is its first summand and the rest, as it is defined.
LEMMA TotalFirst ==
  ASSUME NEW f, NEW S, IsFiniteSet(S), S # {}
  PROVE  Total(f, S) = f[First(S)] + Total(f, S \ {First(S)})
<1> DEFINE T == S \ {First(S)}
<1>1. PICK g : IsTotals(g, f, S)
  BY TotalsExist
<1>2. IsFiniteSet(T) /\ T \in SUBSET S /\ S \in SUBSET S
  BY FS_Subset
<1>3. g[S] = f[First(S)] + g[T]
  BY <1>1, <1>2 DEF IsTotals
<1> HIDE DEF T
<1>4. PICK h : IsTotals(h, f, T)
  BY <1>2, TotalsExist
<1>5. g[T] = h[T]
  BY <1>1, <1>2, <1>4, TotalsAgree
<1>6. Total(f, T) = h[T] /\ Total(f, S) = g[S]
  BY <1>1, <1>2, <1>4, TotalIs
<1> QED
  BY <1>3, <1>5, <1>6 DEF T

\* A sum of natural numbers is one.
LEMMA TotalTyped ==
  ASSUME NEW S, IsFiniteSet(S), NEW f, \A x \in S : f[x] \in Nat
  PROVE  Total(f, S) \in Nat
<1> DEFINE Bad == {T \in SUBSET S : Total(f, T) \notin Nat}
<1>1. ASSUME NEW T \in Bad, \A U \in SUBSET T : U # T => U \notin Bad PROVE FALSE
  <2>1. T # {} /\ IsFiniteSet(T)
    <3>1. Total(f, {}) \in Nat
      BY TotalEmpty
    <3> QED
      BY <3>1, FS_Subset
  <2>2. First(T) \in T /\ T \ {First(T)} \in SUBSET T /\ T \ {First(T)} # T
    BY <2>1, FirstIsIn
  <2>3. Total(f, T \ {First(T)}) \in Nat
    BY <2>2, <1>1
  <2>4. f[First(T)] \in Nat
    BY <2>2
  <2> QED
    BY <2>1, <2>3, <2>4, TotalFirst
<1>2. Bad = {}
  <2> HIDE DEF Bad
  <2>1. Bad \subseteq SUBSET S
    BY DEF Bad
  <2> QED
    BY <1>1, <2>1, SmallestSet
<1>3. S \in SUBSET S
  OBVIOUS
<1> QED
  BY <1>2, <1>3

\* The order in which the library takes elements out does not matter.
LEMMA TotalWithout ==
  ASSUME NEW S, IsFiniteSet(S), NEW f, \A x \in S : f[x] \in Nat, NEW y \in S
  PROVE  Total(f, S) = f[y] + Total(f, S \ {y})
<1> DEFINE Bad == {T \in SUBSET S : \E x \in T : Total(f, T) # f[x] + Total(f, T \ {x})}
<1>1. ASSUME NEW T \in Bad, \A U \in SUBSET T : U # T => U \notin Bad PROVE FALSE
  <2>1. PICK x \in T : Total(f, T) # f[x] + Total(f, T \ {x})
    OBVIOUS
  <2> DEFINE z == First(T)
  <2>2. T \in SUBSET S /\ IsFiniteSet(T) /\ z \in T
    BY FS_Subset, FirstIsIn
  <2>3. Total(f, T) = f[z] + Total(f, T \ {z})
    BY <2>2, TotalFirst
  <2>4. z # x
    BY <2>1, <2>3
  <2> HIDE DEF z
  <2>5. T \ {z} \notin Bad /\ T \ {x} \notin Bad
    BY <2>2, <1>1
  <2>6. Total(f, T \ {z}) = f[x] + Total(f, (T \ {z}) \ {x})
    BY <2>2, <2>4, <2>5
  <2>7. Total(f, T \ {x}) = f[z] + Total(f, (T \ {x}) \ {z})
    BY <2>2, <2>4, <2>5
  <2>8. (T \ {z}) \ {x} = (T \ {x}) \ {z} /\ (T \ {z}) \ {x} \in SUBSET S
    BY <2>2
  <2>9. Total(f, (T \ {z}) \ {x}) \in Nat /\ f[x] \in Nat /\ f[z] \in Nat
    <3>1. IsFiniteSet((T \ {z}) \ {x})
      BY <2>8, FS_Subset
    <3> QED
      BY <3>1, <2>8, <2>2, TotalTyped
  <2> QED
    BY SMTT(40), <2>1, <2>3, <2>6, <2>7, <2>8, <2>9
<1>2. Bad = {}
  <2> HIDE DEF Bad
  <2>1. Bad \subseteq SUBSET S
    BY DEF Bad
  <2> QED
    BY <1>1, <2>1, SmallestSet
<1>3. S \in SUBSET S
  OBVIOUS
<1> QED
  BY <1>2, <1>3

\* A total depends on the values that are summed only.
LEMMA TotalSame ==
  ASSUME NEW S, IsFiniteSet(S), NEW f, NEW g, \A x \in S : f[x] = g[x]
  PROVE  Total(f, S) = Total(g, S)
<1> DEFINE Bad == {T \in SUBSET S : Total(f, T) # Total(g, T)}
<1>1. ASSUME NEW T \in Bad, \A U \in SUBSET T : U # T => U \notin Bad PROVE FALSE
  <2>1. T # {} /\ IsFiniteSet(T)
    BY TotalEmpty, FS_Subset
  <2>2. First(T) \in T /\ T \ {First(T)} \in SUBSET T /\ T \ {First(T)} # T
    BY <2>1, FirstIsIn
  <2>3. Total(f, T \ {First(T)}) = Total(g, T \ {First(T)}) /\ f[First(T)] = g[First(T)]
    BY <2>2, <1>1
  <2>4. /\ Total(f, T) = f[First(T)] + Total(f, T \ {First(T)})
        /\ Total(g, T) = g[First(T)] + Total(g, T \ {First(T)})
    BY <2>1, TotalFirst
  <2> QED
    BY <2>3, <2>4
<1>2. Bad = {}
  <2> HIDE DEF Bad
  <2>1. Bad \subseteq SUBSET S
    BY DEF Bad
  <2> QED
    BY <1>1, <2>1, SmallestSet
<1>3. S \in SUBSET S
  OBVIOUS
<1> QED
  BY <1>2, <1>3

\* One value changes.
LEMMA TotalChanged ==
  ASSUME NEW S, IsFiniteSet(S), NEW f, \A x \in S : f[x] \in Nat, NEW y \in S,
         NEW g, g[y] \in Nat, \A x \in S \ {y} : g[x] = f[x]
  PROVE  Total(g, S) + f[y] = Total(f, S) + g[y]
<1>1. Total(f, S) = f[y] + Total(f, S \ {y})
  BY TotalWithout
<1>2. \A x \in S : g[x] \in Nat
  OBVIOUS
<1>3. Total(g, S) = g[y] + Total(g, S \ {y})
  BY <1>2, TotalWithout
<1>4. IsFiniteSet(S \ {y})
  BY FS_Difference
<1>5. Total(f, S \ {y}) = Total(g, S \ {y})
  BY <1>4, TotalSame
<1>6. Total(f, S \ {y}) \in Nat
  BY <1>4, TotalTyped
<1> QED
  BY <1>1, <1>3, <1>5, <1>6

\* More sets, more to sum.
LEMMA TotalSplit ==
  ASSUME NEW S, IsFiniteSet(S), NEW f, \A x \in S : f[x] \in Nat, NEW R \in SUBSET S
  PROVE  Total(f, S) = Total(f, R) + Total(f, S \ R)
<1> DEFINE Bad == {T \in SUBSET R : Total(f, S) # Total(f, T) + Total(f, S \ T)}
<1>1. ASSUME NEW T \in Bad, \A U \in SUBSET T : U # T => U \notin Bad PROVE FALSE
  <2>0. IsFiniteSet({}) /\ S \ {} = S /\ Total(f, {}) = 0 /\ Total(f, S) \in Nat
    BY TotalEmpty, TotalTyped, FS_EmptySet
  <2>1. T # {} /\ IsFiniteSet(T)
    <3>1. T \in SUBSET S
      OBVIOUS
    <3>2. T # {}
      BY <2>0
    <3> QED
      BY <3>1, <3>2, FS_Subset
  <2>2. PICK x \in T : TRUE
    BY <2>1
  <2> DEFINE U == T \ {x}
  <2>3. U \in SUBSET S /\ U \in SUBSET T /\ U # T /\ S \ U = (S \ T) \cup {x} /\ (S \ U) \ {x} = S \ T
    BY <2>2
  <2>4. U \notin Bad /\ U \in SUBSET R
    BY <2>3, <1>1
  <2>5. Total(f, S) = Total(f, U) + Total(f, S \ U)
    BY <2>4
  <2>6. Total(f, T) = f[x] + Total(f, U)
    BY <2>1, TotalWithout
  <2>7. IsFiniteSet(S \ U) /\ IsFiniteSet(U) /\ IsFiniteSet(S \ T)
    BY <2>3, FS_Subset
  <2>8. Total(f, S \ U) = f[x] + Total(f, S \ T)
    BY <2>3, <2>7, TotalWithout
  <2>9. Total(f, U) \in Nat /\ Total(f, S \ T) \in Nat /\ f[x] \in Nat
    BY <2>3, <2>7, TotalTyped
  <2> QED
    BY <2>5, <2>6, <2>8, <2>9
<1>2. Bad = {}
  <2> HIDE DEF Bad
  <2>1. Bad \subseteq SUBSET R /\ IsFiniteSet(R)
    BY FS_Subset DEF Bad
  <2> QED
    BY <1>1, <2>1, SmallestSet
<1>3. R \in SUBSET R
  OBVIOUS
<1> QED
  BY <1>2, <1>3

\* The values of one set are those of another, one later.
LEMMA TotalShifted ==
  ASSUME NEW S, IsFiniteSet(S), S \subseteq Nat, NEW f, \A x \in S : f[x] \in Nat,
         NEW g, \A x \in S : g[x + 1] = f[x]
  PROVE  Total(g, {x + 1 : x \in S}) = Total(f, S)
<1> DEFINE Later(T) == {x + 1 : x \in T}
           Bad == {T \in SUBSET S : ~ (IsFiniteSet(Later(T)) /\ Total(g, Later(T)) = Total(f, T))}
<1>1. ASSUME NEW T \in Bad, \A U \in SUBSET T : U # T => U \notin Bad PROVE FALSE
  <2>0. Later({}) = {}
    OBVIOUS
  <2>1. T # {} /\ IsFiniteSet(T)
    BY <2>0, TotalEmpty, FS_EmptySet, FS_Subset
  <2>2. PICK x \in T : TRUE
    BY <2>1
  <2> DEFINE U == T \ {x}
  <2>3. U \in SUBSET T /\ U # T /\ U \in SUBSET S /\ x \in Nat
    BY <2>2
  <2>4. IsFiniteSet(Later(U)) /\ Total(g, Later(U)) = Total(f, U)
    BY <2>3, <1>1
  <2>5. Later(T) = Later(U) \cup {x + 1} /\ Later(T) \ {x + 1} = Later(U)
    BY <2>3
  <2>6. IsFiniteSet(Later(T))
    <3> HIDE DEF Later, U
    <3> QED
      BY <2>4, <2>5, FS_AddElement
  <2>7. \A y \in Later(T) : g[y] \in Nat
    OBVIOUS
  <2>8. Total(g, Later(T)) = g[x + 1] + Total(g, Later(U))
    <3> HIDE DEF Later, U
    <3> QED
      BY <2>5, <2>6, <2>7, TotalWithout
  <2>9. Total(f, T) = f[x] + Total(f, U) /\ g[x + 1] = f[x]
    BY <2>1, <2>2, TotalWithout
  <2> QED
    BY <2>4, <2>6, <2>8, <2>9
<1>2. Bad = {}
  <2> HIDE DEF Bad
  <2>1. Bad \subseteq SUBSET S
    BY DEF Bad
  <2> QED
    BY <1>1, <2>1, SmallestSet
<1>3. S \in SUBSET S
  OBVIOUS
<1> QED
  BY <1>2, <1>3

\* A bound on each value is one on the total.
LEMMA TotalBounded ==
  ASSUME NEW S, IsFiniteSet(S), NEW m \in Nat, NEW f, \A x \in S : f[x] \in 0..m
  PROVE  Total(f, S) <= m * Cardinality(S)
<1> DEFINE Bad == {T \in SUBSET S : ~ (Total(f, T) <= m * Cardinality(T))}
<1>1. ASSUME NEW T \in Bad, \A U \in SUBSET T : U # T => U \notin Bad PROVE FALSE
  <2>1. T # {} /\ IsFiniteSet(T)
    BY TotalEmpty, FS_EmptySet, FS_Subset
  <2>2. PICK x \in T : TRUE
    BY <2>1
  <2> DEFINE U == T \ {x}
  <2>3. U \in SUBSET T /\ U # T /\ U \in SUBSET S
    BY <2>2
  <2>4. Total(f, U) <= m * Cardinality(U)
    BY <2>3, <1>1
  <2>5. Cardinality(U) \in Nat /\ Cardinality(T) = Cardinality(U) + 1 /\ IsFiniteSet(U)
    <3>1. IsFiniteSet(U) /\ Cardinality(U) = Cardinality(T) - 1
      BY <2>1, <2>2, FS_RemoveElement
    <3>2. Cardinality(T) \in Nat
      BY <2>1, FS_CardinalityType
    <3>3. Cardinality(U) \in Nat
      BY <3>1, FS_CardinalityType
    <3> QED
      BY <3>1, <3>2, <3>3
  <2>6. Total(f, T) = f[x] + Total(f, U) /\ Total(f, U) \in Nat /\ f[x] \in 0..m
    BY <2>1, <2>2, <2>3, <2>5, TotalWithout, TotalTyped
  <2> HIDE DEF U
  <2> DEFINE n == Cardinality(U)
  <2>7. m * (n + 1) = m * n + m /\ m * n \in Nat
    <3>1. n \in Nat
      BY <2>5
    <3> HIDE DEF n
    <3> QED
      BY <3>1
  <2> QED
    BY <2>4, <2>5, <2>6, <2>7
<1>2. Bad = {}
  <2> HIDE DEF Bad
  <2>1. Bad \subseteq SUBSET S
    BY DEF Bad
  <2> QED
    BY <1>1, <2>1, SmallestSet
<1>3. S \in SUBSET S
  OBVIOUS
<1> QED
  BY <1>2, <1>3
-----------------------------------------------------------------------------
(***************************************************************************)
(* Rate limiting: the inductive invariant ties the counter of a key to the *)
(* requests that were let through within the length of a window.           *)
(***************************************************************************)
\* How long ago the window of a live counter began.
Age(b) == WindowTicks - b.left

Ages == 0..(WindowTicks - 1)

\* A key's counter, what it has spent and whether it has lost a counter: a live
\* counter counts what was spent in its window, up to the limit, and what was spent
\* before is less than the limit, because the window before it began with a request
\* that is older than a window by now.
KeyOK(b, s, lost) ==
  /\ b \in [count: Nat, left: 0..WindowTicks] /\ s \in [Ages -> Nat]
  /\ b.left = 0 => b.count = 0
  /\ b.left > 0 =>
       b.count > 0 /\ (Total(s, 0..Age(b)) >= b.count \/ Total(s, 0..Age(b)) >= LimitMax)
  /\ ~lost /\ b.left > 0 =>
       /\ Total(s, 0..Age(b)) <= b.count /\ Total(s, 0..Age(b)) <= LimitMax
       /\ Total(s, Ages \ (0..Age(b))) < LimitMax
       /\ s[Age(b)] > 0
  /\ ~lost /\ b.left = 0 => Total(s, Ages) < LimitMax /\ s[0] = 0

\* Count and the request that is let through.
Through(b, s) == IF b.count + 1 <= LimitMax THEN [s EXCEPT ![0] = @ + 1] ELSE s

\* One tick of a counter and of what was spent.
Ticked(b) == IF b.left <= 1 THEN NoBucket ELSE [b EXCEPT !.left = @ - 1]
Older(s) == [a \in Ages |-> IF a = 0 THEN 0 ELSE s[a - 1]]

\* The ages that are remembered are finitely many.
LEMMA AgesAreFinite == IsFiniteSet(Ages) /\ \A S \in SUBSET Ages : IsFiniteSet(S)
<1>1. IsFiniteSet(Ages)
  BY LimitAssumption, FS_Interval DEF LimitAssumption, Ages
<1> QED
  BY <1>1, FS_Subset

\* The ages of a window are among those that are remembered.
LEMMA WindowAges ==
  ASSUME NEW b, NEW s, NEW lost, KeyOK(b, s, lost), b.left > 0
  PROVE  /\ Age(b) \in Ages /\ 0..Age(b) \subseteq Ages /\ 0 \in 0..Age(b)
         /\ Total(s, Ages) = Total(s, 0..Age(b)) + Total(s, Ages \ (0..Age(b)))
         /\ Total(s, 0..Age(b)) \in Nat /\ Total(s, Ages \ (0..Age(b))) \in Nat
<1>1. Age(b) \in Ages /\ 0..Age(b) \subseteq Ages /\ 0 \in 0..Age(b) /\ Age(b) \in Int
  BY LimitAssumption DEF LimitAssumption, KeyOK, Age, Ages
<1>2. \A a \in Ages : s[a] \in Nat
  BY DEF KeyOK
<1> DEFINE W == 0..Age(b)
<1>3. W \in SUBSET Ages /\ IsFiniteSet(W) /\ IsFiniteSet(Ages \ W) /\ IsFiniteSet(Ages)
  BY <1>1, AgesAreFinite
<1> HIDE DEF W
<1>4. Total(s, Ages) = Total(s, W) + Total(s, Ages \ W)
  BY <1>2, <1>3, TotalSplit
<1>5. Total(s, W) \in Nat /\ Total(s, Ages \ W) \in Nat
  BY <1>2, <1>3, TotalTyped
<1> QED
  BY <1>1, <1>4, <1>5 DEF W

\* What the invariant says of a key implies what LimitHolds says of it.
LEMMA KeyHolds ==
  ASSUME NEW b, NEW s, NEW lost \in BOOLEAN, KeyOK(b, s, lost)
  PROVE  /\ Total(s, Ages) < 2 * LimitMax \/ lost
         /\ b.count > LimitMax => Total(s, Ages) >= LimitMax
<1> USE LimitAssumption DEF LimitAssumption
<1>1. CASE b.left > 0
  <2>1. /\ Total(s, Ages) = Total(s, 0..Age(b)) + Total(s, Ages \ (0..Age(b)))
        /\ Total(s, 0..Age(b)) \in Nat /\ Total(s, Ages \ (0..Age(b))) \in Nat
    BY <1>1, WindowAges
  <2>2. Total(s, 0..Age(b)) >= b.count \/ Total(s, 0..Age(b)) >= LimitMax
    BY <1>1 DEF KeyOK
  <2>3. ~lost => Total(s, 0..Age(b)) <= LimitMax /\ Total(s, Ages \ (0..Age(b))) < LimitMax
    BY <1>1 DEF KeyOK
  <2>4. b.count \in Nat
    BY DEF KeyOK
  <2> QED
    BY <2>1, <2>2, <2>3, <2>4
<1>2. CASE ~ (b.left > 0)
  <2>1. b.left = 0
    BY <1>2 DEF KeyOK
  <2>2. \A a \in Ages : s[a] \in Nat
    BY DEF KeyOK
  <2>3. Total(s, Ages) \in Nat
    BY <2>2, AgesAreFinite, TotalTyped
  <2>4. b.count = 0 /\ (~lost => Total(s, Ages) < LimitMax)
    BY <2>1 DEF KeyOK
  <2> QED
    BY <2>3, <2>4
<1> QED
  BY <1>1, <1>2

\* A key whose counter is lost may be let through anew.
LEMMA LoseKey ==
  ASSUME NEW b, NEW s, NEW lost, KeyOK(b, s, lost)
  PROVE  KeyOK(NoBucket, s, TRUE)
BY LimitAssumption DEF LimitAssumption, KeyOK, NoBucket

\* A request begins a window, or is one more of it.
LEMMA CountKey ==
  ASSUME NEW b, NEW s, NEW lost \in BOOLEAN, KeyOK(b, s, lost)
  PROVE  KeyOK(Count(b), Through(b, s), lost)
<1> USE LimitAssumption DEF LimitAssumption
<1> DEFINE c == Count(b)
           t == Through(b, s)
<1>1. /\ c \in [count: Nat, left: 0..WindowTicks] /\ c.count = b.count + 1
      /\ c.left = IF b.left > 0 THEN b.left ELSE WindowTicks
      /\ b.count \in Nat /\ b.left \in 0..WindowTicks /\ c.left > 0
  BY DEF KeyOK, Count
<1>2. /\ t \in [Ages -> Nat] /\ s \in [Ages -> Nat] /\ 0 \in Ages
      /\ \A a \in Ages \ {0} : t[a] = s[a]
      /\ t[0] = IF c.count <= LimitMax THEN s[0] + 1 ELSE s[0]
  BY SMTT(40), <1>1 DEF KeyOK, Through, Ages
<1> HIDE DEF c, t
<1> DEFINE W == 0..Age(c)
<1>3. W \in SUBSET Ages /\ 0 \in W /\ IsFiniteSet(W) /\ IsFiniteSet(Ages \ W)
  <2>1. W \in SUBSET Ages /\ 0 \in W /\ Ages \ W \in SUBSET Ages
    BY <1>1 DEF Age, Ages
  <2> HIDE DEF W
  <2> QED
    BY <2>1, AgesAreFinite
<1>4. Total(t, Ages \ W) = Total(s, Ages \ W)
  BY <1>2, <1>3, TotalSame
<1>5. Total(t, W) + s[0] = Total(s, W) + t[0]
  <2>1. \A a \in W : s[a] \in Nat
    BY <1>2, <1>3
  <2>2. t[0] \in Nat /\ \A a \in W \ {0} : t[a] = s[a]
    BY <1>2, <1>3
  <2> HIDE DEF W
  <2> QED
    BY <1>3, <2>1, <2>2, TotalChanged
<1>6. Total(t, W) \in Nat /\ Total(s, W) \in Nat /\ Total(s, Ages \ W) \in Nat
  <2>1. (\A a \in W : s[a] \in Nat /\ t[a] \in Nat) /\ \A a \in Ages \ W : s[a] \in Nat
    BY <1>2, <1>3
  <2> HIDE DEF W
  <2> QED
    BY <1>3, <2>1, TotalTyped
<1>7. Total(t, W) = IF c.count <= LimitMax THEN Total(s, W) + 1 ELSE Total(s, W)
  <2>1. s[0] \in Nat
    BY <1>2
  <2> QED
    BY SMTT(40), <1>2, <1>5, <1>6, <2>1
<1> DEFINE Kept == /\ Total(t, W) >= c.count \/ Total(t, W) >= LimitMax
                   /\ ~lost => /\ Total(t, W) <= c.count /\ Total(t, W) <= LimitMax
                               /\ Total(t, Ages \ W) < LimitMax /\ t[Age(c)] > 0
<1>8. ASSUME b.left > 0 PROVE Kept
  <2>1. W = 0..Age(b) /\ Age(b) = Age(c) /\ Age(b) \in Ages
    BY <1>1, <1>8 DEF Age, Ages
  <2>2. Total(t, W) >= c.count \/ Total(t, W) >= LimitMax
    BY <1>1, <1>6, <1>7, <1>8, <2>1 DEF KeyOK
  <2>3. ASSUME ~lost
        PROVE  /\ Total(t, W) <= c.count /\ Total(t, W) <= LimitMax
               /\ Total(t, Ages \ W) < LimitMax /\ t[Age(c)] > 0
    <3>1. /\ Total(s, W) <= b.count /\ Total(s, W) <= LimitMax
          /\ Total(s, Ages \ W) < LimitMax /\ s[Age(b)] > 0
      BY <1>8, <2>1, <2>3 DEF KeyOK
    <3>2. t[Age(c)] > 0
      <4>1. \A a \in Ages : s[a] \in Nat /\ t[a] \in Nat
        BY <1>2
      <4> QED
        BY <4>1, <1>2, <2>1, <3>1
    <3> QED
      BY <1>1, <1>4, <1>6, <1>7, <3>1, <3>2
  <2> QED
    BY <2>2, <2>3
<1>9. ASSUME ~ (b.left > 0) PROVE Kept
  <2>1. b.count = 0 /\ c.count = 1 /\ Age(c) = 0 /\ W = {0} /\ b.left = 0
    BY <1>1, <1>9 DEF KeyOK, Age
  <2>2. Total(t, W) = Total(s, W) + 1
    BY <1>7, <2>1
  <2>3. ASSUME ~lost
        PROVE  /\ Total(t, W) <= c.count /\ Total(t, W) <= LimitMax
               /\ Total(t, Ages \ W) < LimitMax /\ t[Age(c)] > 0
    <3>1. Total(s, Ages) < LimitMax /\ s[0] = 0
      BY <2>1, <2>3 DEF KeyOK
    <3>2. Total(s, Ages) = s[0] + Total(s, Ages \ {0})
      <4>1. IsFiniteSet(Ages) /\ \A a \in Ages : s[a] \in Nat
        BY <1>2, AgesAreFinite
      <4> QED
        BY <1>2, <4>1, TotalWithout
    <3>3. Total(s, {0}) = s[0] + Total(s, {0} \ {0})
      <4>1. 0 \in {0} /\ \A x \in {0} : s[x] \in Nat
        BY <1>2
      <4>2. IsFiniteSet({0})
        BY <1>3, <2>1
      <4> QED
        BY <4>1, <4>2, TotalWithout
    <3>4. Total(s, {0} \ {0}) = 0
      <4>1. {0} \ {0} = {}
        OBVIOUS
      <4> QED
        BY <4>1, TotalEmpty
    <3> QED
      BY <1>2, <1>4, <1>6, <2>1, <2>2, <3>1, <3>2, <3>3, <3>4
  <2>4. Total(t, W) >= c.count
    BY <1>6, <2>1, <2>2
  <2> QED
    BY <2>3, <2>4
<1>10. Kept
  BY <1>8, <1>9
<1>11. KeyOK(c, t, lost)
  BY <1>1, <1>2, <1>10 DEF KeyOK
<1> QED
  BY <1>11 DEF c, t

\* A tick: what was spent when the window began is older than a window when it ends.
LEMMA TickKey ==
  ASSUME NEW b, NEW s, NEW lost \in BOOLEAN, KeyOK(b, s, lost)
  PROVE  KeyOK(Ticked(b), Older(s), lost /\ Older(s) # NothingSpent)
<1> USE LimitAssumption DEF LimitAssumption
<1> DEFINE c == Ticked(b)
           t == Older(s)
           forgotten == ~ (lost /\ t # NothingSpent)
<1>1. /\ c \in [count: Nat, left: 0..WindowTicks] /\ b.count \in Nat /\ b.left \in 0..WindowTicks
      /\ c.left = IF b.left <= 1 THEN 0 ELSE b.left - 1
      /\ c.count = IF b.left <= 1 THEN 0 ELSE b.count
  BY DEF KeyOK, Ticked, NoBucket
<1>2. t \in [Ages -> Nat] /\ s \in [Ages -> Nat] /\ 0 \in Ages /\ t[0] = 0
  BY DEF KeyOK, Older, Ages
<1>3. \A a \in Ages : a + 1 \in Ages => t[a + 1] = s[a]
  BY DEF Older, Ages
<1>4. \A a \in Ages : s[a] \in Nat /\ t[a] \in Nat
  BY <1>2
<1> HIDE DEF c, t
\* What a set of ages below the oldest holds is held by the ages after them.
<1>5. ASSUME NEW S \in SUBSET Ages, WindowTicks - 1 \notin S
      PROVE  Total(t, {a + 1 : a \in S}) = Total(s, S)
  <2>1. IsFiniteSet(S) /\ S \subseteq Nat
    BY AgesAreFinite, FS_Subset DEF Ages
  <2>2. \A a \in S : s[a] \in Nat /\ t[a + 1] = s[a]
    BY <1>3, <1>4, <1>5 DEF Ages
  <2> QED
    BY <2>1, <2>2, TotalShifted
<1>6. ASSUME NEW S \in SUBSET Ages, 0 \in S
      PROVE  Total(t, S) = Total(t, S \ {0})
  <2>1. IsFiniteSet(S) /\ \A a \in S : t[a] \in Nat
    BY <1>4, AgesAreFinite, FS_Subset
  <2>2. Total(t, S) = t[0] + Total(t, S \ {0})
    BY <1>6, <2>1, TotalWithout
  <2>3. IsFiniteSet(S \ {0}) /\ \A a \in S \ {0} : t[a] \in Nat
    BY <2>1, FS_Difference
  <2>4. Total(t, S \ {0}) \in Nat
    BY <2>3, TotalTyped
  <2> QED
    BY <1>2, <2>2, <2>4
\* All that is remembered afterwards is what was, but for the oldest.
<1>7. Total(s, Ages) = s[WindowTicks - 1] + Total(t, Ages)
  <2> DEFINE S == Ages \ {WindowTicks - 1}
  <2>1. WindowTicks - 1 \in Ages /\ S \in SUBSET Ages /\ WindowTicks - 1 \notin S
    BY DEF Ages
  <2>2. {a + 1 : a \in S} = Ages \ {0}
    <3>1. ASSUME NEW a \in Ages \ {0} PROVE a - 1 \in S /\ a = (a - 1) + 1
      BY DEF Ages
    <3>2. \A a \in S : a + 1 \in Ages \ {0}
      BY DEF Ages
    <3> HIDE DEF S
    <3> QED
      BY <3>1, <3>2
  <2>3. Total(s, Ages) = s[WindowTicks - 1] + Total(s, S)
    BY <1>4, <2>1, AgesAreFinite, TotalWithout
  <2> HIDE DEF S
  <2>4. Total(s, S) = Total(t, Ages \ {0})
    BY <1>5, <2>1, <2>2
  <2>5. Total(t, Ages) = Total(t, Ages \ {0})
    BY <1>2, <1>6
  <2> QED
    BY <2>3, <2>4, <2>5
<1>8. CASE b.left <= 1
  <2>1. c.left = 0 /\ c.count = 0
    BY <1>1, <1>8
  <2>2. ASSUME lost /\ t = NothingSpent PROVE Total(t, Ages) = 0
    <3>1. \A a \in Ages : t[a] \in 0..0
      BY <2>2 DEF NothingSpent, Ages
    <3>2. IsFiniteSet(Ages)
      BY AgesAreFinite
    <3>3. Total(t, Ages) <= 0 * Cardinality(Ages)
      BY <3>1, <3>2, TotalBounded
    <3>4. Cardinality(Ages) \in Nat /\ Total(t, Ages) \in Nat
      BY <1>4, <3>2, FS_CardinalityType, TotalTyped
    <3> QED
      BY <3>3, <3>4
  <2>3. ASSUME ~lost PROVE Total(t, Ages) < LimitMax
    <3>0. Total(t, Ages) \in Nat /\ s[WindowTicks - 1] \in Nat
      <4>1. WindowTicks - 1 \in Ages
        BY DEF Ages
      <4> QED
        BY <1>4, <4>1, AgesAreFinite, TotalTyped
    <3>1. CASE b.left = 1
      <4>1. Age(b) = WindowTicks - 1 /\ 0..Age(b) = Ages
        BY <3>1 DEF Age, Ages
      <4>2. Total(s, Ages) <= LimitMax /\ s[WindowTicks - 1] > 0
        BY <2>3, <3>1, <4>1 DEF KeyOK
      <4> QED
        BY <1>7, <3>0, <4>2
    <3>2. CASE b.left = 0
      <4>1. Total(s, Ages) < LimitMax
        BY <2>3, <3>2 DEF KeyOK
      <4> QED
        BY <1>7, <3>0, <4>1
    <3> QED
      BY <1>1, <1>8, <3>1, <3>2
  <2>4. forgotten => Total(t, Ages) < LimitMax
    BY <2>2, <2>3
  <2>5. KeyOK(c, t, ~forgotten)
    BY <1>1, <1>2, <2>1, <2>4 DEF KeyOK
  <2> QED
    BY <2>5 DEF c, t
<1>9. CASE ~ (b.left <= 1)
  <2> DEFINE V == 0..Age(b)
             W == 0..Age(c)
  <2>1. /\ c.left = b.left - 1 /\ c.count = b.count /\ Age(c) = Age(b) + 1 /\ b.left > 0
        /\ Age(b) \in Ages /\ Age(b) + 1 \in Ages /\ WindowTicks - 1 \notin V
    BY <1>1, <1>9 DEF Age, Ages
  <2>2. Age(b) \in Nat /\ V \in SUBSET Ages /\ W \in SUBSET Ages /\ 0 \in W
    BY <2>1 DEF Ages
  <2>3. W \ {0} = {a + 1 : a \in V}
    <3>1. ASSUME NEW a \in W \ {0} PROVE a - 1 \in V /\ a = (a - 1) + 1
      BY <2>1, <2>2
    <3>2. \A a \in V : a + 1 \in W \ {0}
      BY <2>1, <2>2
    <3> HIDE DEF V, W
    <3> QED
      BY <3>1, <3>2
  <2> HIDE DEF V, W
  <2>4. V \in SUBSET Ages /\ IsFiniteSet(V) /\ IsFiniteSet(W)
    BY <2>2, AgesAreFinite
  <2>5. Total(t, W) = Total(s, V)
    BY <1>5, <1>6, <2>1, <2>2, <2>3
  <2>6. /\ Total(s, Ages) = Total(s, V) + Total(s, Ages \ V)
        /\ Total(t, Ages) = Total(t, W) + Total(t, Ages \ W)
    BY <1>4, <2>2, AgesAreFinite, TotalSplit
  <2>7. /\ Total(t, Ages \ W) \in Nat /\ Total(s, Ages \ V) \in Nat
        /\ Total(s, V) \in Nat /\ s[WindowTicks - 1] \in Nat
    <3>1. WindowTicks - 1 \in Ages
      BY DEF Ages
    <3>2. IsFiniteSet(Ages \ W) /\ IsFiniteSet(Ages \ V)
      BY AgesAreFinite, FS_Difference
    <3>3. /\ \A a \in Ages \ W : t[a] \in Nat
          /\ \A a \in Ages \ V : s[a] \in Nat
          /\ \A a \in V : s[a] \in Nat
      BY <1>4, <2>2
    <3> QED
      BY <1>4, <2>4, <3>1, <3>2, <3>3, TotalTyped
  <2>8. Total(t, Ages \ W) <= Total(s, Ages \ V)
    BY <1>7, <2>5, <2>6, <2>7
  <2>9. Total(s, V) >= b.count \/ Total(s, V) >= LimitMax
    BY <2>1 DEF KeyOK, V
  <2>10. b.count > 0
    BY <2>1 DEF KeyOK
  <2>11. ASSUME ~lost
         PROVE  /\ Total(t, W) <= c.count /\ Total(t, W) <= LimitMax
                /\ Total(t, Ages \ W) < LimitMax /\ t[Age(c)] > 0
    <3>1. /\ Total(s, V) <= b.count /\ Total(s, V) <= LimitMax
          /\ Total(s, Ages \ V) < LimitMax /\ s[Age(b)] > 0
      BY <2>1, <2>11 DEF KeyOK, V
    <3>2. t[Age(c)] = s[Age(b)]
      BY <1>3, <2>1
    <3> QED
      BY <2>1, <2>5, <2>7, <2>8, <3>1, <3>2
  \* Something is remembered of a window that is not over.
  <2>12. t # NothingSpent
    <3>1. ASSUME t = NothingSpent PROVE FALSE
      <4>1. \A a \in W : t[a] \in 0..0
        BY <2>2, <3>1 DEF NothingSpent, Ages
      <4>2. Total(t, W) <= 0 * Cardinality(W) /\ Cardinality(W) \in Nat
        BY <2>4, <4>1, TotalBounded, FS_CardinalityType
      <4> QED
        BY <1>1, <2>5, <2>7, <2>9, <2>10, <4>2
    <3> QED
      BY <3>1
  <2>13. Total(t, W) >= c.count \/ Total(t, W) >= LimitMax
    BY <2>1, <2>5, <2>9
  <2>14. c.left > 0 /\ c.count > 0
    BY <1>1, <1>9, <2>1, <2>10
  <2>15. KeyOK(c, t, lost)
    BY <1>1, <1>2, <2>11, <2>13, <2>14 DEF KeyOK, W
  <2>16. (lost /\ t # NothingSpent) = lost
    BY <2>12
  <2> QED
    BY <2>15, <2>16 DEF c, t
<1> QED
  BY <1>8, <1>9

-----------------------------------------------------------------------------
\* Of the numbers for which something fails one is the least.
LEMMA LeastNumber ==
  ASSUME NEW Bad, Bad \subseteq Nat, Bad # {}
  PROVE  \E n \in Bad : \A m \in Bad : n <= m
<1>1. PICK n \in Bad : \A m \in Bad : ~ (<<m, n>> \in OpToRel(<, Nat))
  BY NatLessThanWellFounded, WFMin
<1>2. ASSUME NEW m \in Bad PROVE n <= m
  <2>1. m \in Nat /\ n \in Nat
    OBVIOUS
  <2>2. ~ (<<m, n>> \in OpToRel(<, Nat))
    BY <1>1
  <2> QED
    BY <2>1, <2>2 DEF OpToRel
<1> QED
  BY <1>2

\* kept[i] are the live ones of the first i keys.
IsKept(kept, keys, n) ==
  kept = [i \in 0..n |->
            IF i = 0 THEN <<>>
            ELSE IF buckets[keys[i]].left > 0 THEN Append(kept[i - 1], keys[i]) ELSE kept[i - 1]]

\* The recursive function of LiveKeys exists, with the types that it has.
LEMMA KeptExists ==
  ASSUME NEW keys, NEW n \in Nat
  PROVE  \E kept : IsKept(kept, keys, n)
<1> DEFINE Bad == {m \in Nat : ~ \E kept : IsKept(kept, keys, m)}
<1>1. ASSUME NEW m \in Bad, \A l \in Bad : m <= l PROVE FALSE
  <2>1. m # 0
    <3> DEFINE kept == [i \in 0..0 |-> <<>>]
    <3>1. IsKept(kept, keys, 0)
      BY DEF IsKept
    <3> QED
      BY <3>1
  <2>2. m - 1 \in Nat /\ m - 1 \notin Bad /\ m \in Nat
    BY <1>1, <2>1
  <2>3. PICK f : IsKept(f, keys, m - 1)
    BY <2>2
  <2> DEFINE last == IF buckets[keys[m]].left > 0 THEN Append(f[m - 1], keys[m]) ELSE f[m - 1]
             kept == [i \in 0..m |-> IF i = m THEN last ELSE f[i]]
  <2>4. ASSUME NEW i \in 0..m
        PROVE  kept[i] = IF i = 0 THEN <<>>
                         ELSE IF buckets[keys[i]].left > 0
                         THEN Append(kept[i - 1], keys[i]) ELSE kept[i - 1]
    <3>1. CASE i = m
      <4>1. kept[i - 1] = f[m - 1] /\ kept[i] = last /\ i # 0
        BY <2>1, <2>2, <3>1
      <4> QED
        BY <3>1, <4>1
    <3>2. CASE i # m
      <4>1. kept[i] = f[i] /\ i \in 0..(m - 1) /\ (i # 0 => kept[i - 1] = f[i - 1])
        BY <2>2, <3>2
      <4> HIDE DEF kept
      <4> QED
        BY <2>3, <4>1 DEF IsKept
    <3> QED
      BY <3>1, <3>2
  <2>5. kept = [i \in 0..m |-> kept[i]]
    OBVIOUS
  <2> HIDE DEF kept
  <2>6. IsKept(kept, keys, m)
    BY <2>4, <2>5 DEF IsKept
  <2> QED
    BY <2>6
<1>2. Bad = {}
  <2> HIDE DEF Bad
  <2>1. Bad \subseteq Nat
    BY DEF Bad
  <2> QED
    BY <1>1, <2>1, LeastNumber
<1> QED
  BY <1>2

\* What cleanupBuckets leaves in the Map was in it, each key once.
LEMMA LiveKeysOf ==
  ASSUME NEW keys \in Seq(Keys), IsInjective(keys)
  PROVE  /\ LiveKeys(keys) \in Seq(Keys) /\ Len(LiveKeys(keys)) <= Len(keys)
         /\ IsInjective(LiveKeys(keys))
<1> DEFINE n == Len(keys)
<1>1. n \in Nat
  OBVIOUS
<1> HIDE DEF n
<1>2. PICK kept : IsKept(kept, keys, n) /\ LiveKeys(keys) = kept[n]
  <2>1. LiveKeys(keys) = (CHOOSE g : IsKept(g, keys, n))[n]
    BY DEF LiveKeys, IsKept, n
  <2> QED
    BY <1>1, <2>1, KeptExists
<1> DEFINE Good(i) == /\ kept[i] \in Seq(Keys) /\ Len(kept[i]) <= i /\ IsInjective(kept[i])
                      /\ \A j \in 1..Len(kept[i]) : \E h \in 1..i : kept[i][j] = keys[h]
           Bad == {i \in 0..n : ~Good(i)}
<1>3. ASSUME NEW i \in Bad, \A j \in Bad : i <= j PROVE FALSE
  <2>1. kept[i] = IF i = 0 THEN <<>>
                  ELSE IF buckets[keys[i]].left > 0
                  THEN Append(kept[i - 1], keys[i]) ELSE kept[i - 1]
    BY <1>2 DEF IsKept
  <2>2. i \in 0..n /\ i \in Nat
    BY <1>1
  <2>3. i # 0
    <3>1. ASSUME i = 0 PROVE Good(i)
      <4>1. kept[i] = <<>>
        BY <2>1, <3>1
      <4> QED
        BY <4>1, <3>1 DEF IsInjective
    <3> QED
      BY <3>1
  <2>4. Good(i - 1)
    BY <1>1, <1>3, <2>2, <2>3
  <2>5. i \in 1..Len(keys) /\ keys[i] \in Keys
    BY <2>2, <2>3 DEF n
  <2>6. CASE ~ (buckets[keys[i]].left > 0)
    <3>1. kept[i] = kept[i - 1]
      BY <2>1, <2>3, <2>6
    <3>2. \A j \in 1..Len(kept[i]) : \E h \in 1..i : kept[i][j] = keys[h]
      BY <2>2, <2>4, <3>1
    <3>3. Len(kept[i - 1]) <= i
      BY <2>2, <2>4
    <3>4. Good(i)
      BY <2>4, <3>1, <3>2, <3>3
    <3> QED
      BY <3>4
  <2>7. CASE buckets[keys[i]].left > 0
    <3> DEFINE s == kept[i - 1]
               t == Append(s, keys[i])
    <3>1. kept[i] = t /\ s \in Seq(Keys) /\ Len(s) <= i - 1 /\ IsInjective(s)
      BY <2>1, <2>3, <2>4, <2>7
    <3>2. \A j \in 1..Len(s) : \E h \in 1..(i - 1) : s[j] = keys[h]
      BY <2>4
    <3> HIDE DEF s
    <3>3. /\ t \in Seq(Keys) /\ Len(t) = Len(s) + 1 /\ Len(t) <= i
          /\ \A j \in 1..Len(s) : t[j] = s[j]
          /\ t[Len(s) + 1] = keys[i]
      BY <2>2, <2>5, <3>1
    <3>4. \A j \in 1..Len(s) : s[j] # keys[i]
      <4>1. \A h \in 1..(i - 1) : keys[h] # keys[i]
        BY <2>5 DEF IsInjective
      <4> QED
        BY <3>2, <4>1
    <3> HIDE DEF t
    <3>5. IsInjective(t)
      <4> SUFFICES ASSUME NEW a \in 1..Len(t), NEW c \in 1..Len(t), t[a] = t[c] PROVE a = c
        BY <3>3 DEF IsInjective
      <4>1. CASE a \in 1..Len(s) /\ c \in 1..Len(s)
        BY <3>1, <3>3, <4>1 DEF IsInjective
      <4>2. CASE a = Len(s) + 1 \/ c = Len(s) + 1
        BY <3>1, <3>3, <3>4, <4>2
      <4> QED
        BY <3>1, <3>3, <4>1, <4>2
    <3>6. \A j \in 1..Len(t) : \E h \in 1..i : t[j] = keys[h]
      BY <2>2, <2>3, <3>1, <3>2, <3>3
    <3> QED
      BY <3>1, <3>3, <3>5, <3>6
  <2> QED
    BY <2>6, <2>7
<1>4. Bad = {}
  <2>1. Bad \subseteq Nat
    BY <1>1
  <2> HIDE DEF Bad
  <2>2. Bad # {} => FALSE
    BY <1>3, <2>1, LeastNumber
  <2> QED
    BY <2>2
<1>5. n \in 0..n
  BY <1>1
<1>6. Good(n)
  BY <1>4, <1>5
<1> QED
  BY <1>2, <1>6 DEF n

LimitInv ==
  /\ LimitTypeOK
  /\ \A k \in Keys : KeyOK(buckets[k], spent[k], k \in dropped)

\* The sequences of at most n keys (BoundedSeq), spelled out.
LEMMA BoundedSequences ==
  ASSUME NEW s
  PROVE  s \in BoundedSeq(Keys, MaxBuckets) <=> s \in Seq(Keys) /\ Len(s) <= MaxBuckets
<1>1. MaxBuckets \in Nat
  BY LimitAssumption DEF LimitAssumption
<1>2. ASSUME s \in BoundedSeq(Keys, MaxBuckets) PROVE s \in Seq(Keys) /\ Len(s) <= MaxBuckets
  <2>1. PICK m \in 0..MaxBuckets : s \in [1..m -> Keys]
    BY <1>2 DEF BoundedSeq, SeqOf
  <2>2. m \in Nat
    BY <1>1
  <2>3. s \in Seq(Keys) /\ Len(s) = m
    BY <2>1, <2>2
  <2> QED
    BY <2>3, <1>1
<1>3. ASSUME s \in Seq(Keys), Len(s) <= MaxBuckets PROVE s \in BoundedSeq(Keys, MaxBuckets)
  <2>1. Len(s) \in 0..MaxBuckets /\ s \in [1..Len(s) -> Keys]
    BY <1>1, <1>3
  <2> QED
    BY <2>1 DEF BoundedSeq, SeqOf
<1> QED
  BY <1>2, <1>3

\* A process that has counted nothing.
LEMMA LimitInitInv == LimitInit => LimitInv
<1> SUFFICES ASSUME LimitInit PROVE LimitInv
  OBVIOUS
<1> USE LimitAssumption DEF LimitAssumption
<1>1. LimitTypeOK
  <2>1. <<>> \in Seq(Keys) /\ Len(<<>>) <= MaxBuckets /\ IsInjective(<<>>)
    BY DEF IsInjective
  <2>2. order \in BoundedSeq(Keys, MaxBuckets) /\ IsInjective(order)
    BY <2>1, BoundedSequences DEF LimitInit
  <2> QED
    BY <2>2 DEF LimitInit, LimitTypeOK, NoBucket, NothingSpent
<1>2. Total(NothingSpent, Ages) = 0
  <2>1. \A a \in Ages : NothingSpent[a] \in 0..0
    BY DEF NothingSpent, Ages
  <2>2. IsFiniteSet(Ages)
    BY AgesAreFinite
  <2>3. Total(NothingSpent, Ages) <= 0 * Cardinality(Ages)
    BY <2>1, <2>2, TotalBounded
  <2>4. Cardinality(Ages) \in Nat /\ Total(NothingSpent, Ages) \in Nat
    BY <2>1, <2>2, FS_CardinalityType, TotalTyped
  <2> QED
    BY <2>3, <2>4
<1>3. KeyOK(NoBucket, NothingSpent, FALSE)
  <2>1. NoBucket \in [count: Nat, left: 0..WindowTicks] /\ NoBucket.left = 0 /\ NoBucket.count = 0
    BY DEF NoBucket
  <2>2. NothingSpent \in [Ages -> Nat] /\ NothingSpent[0] = 0
    BY DEF NothingSpent, Ages
  <2> QED
    BY <1>2, <2>1, <2>2 DEF KeyOK
<1>4. ASSUME NEW k \in Keys PROVE KeyOK(buckets[k], spent[k], k \in dropped)
  <2>1. buckets[k] = NoBucket /\ spent[k] = NothingSpent /\ (k \in dropped) = FALSE
    BY DEF LimitInit
  <2> QED
    BY <1>3, <2>1
<1> QED
  BY <1>1, <1>4 DEF LimitInv

\* A key that is counted keeps its invariant, let through or refused (hitLimit).
LEMMA Counted ==
  ASSUME LimitInv, NEW k \in Keys, Bounded(k),
         NEW b, b = buckets[k] \/ b = NoBucket
  PROVE  Count(b) \in [count: 0..MaxHits, left: 0..WindowTicks] /\ Count(b).count = b.count + 1
<1> USE LimitAssumption DEF LimitAssumption
<1>1. buckets[k] \in [count: 0..MaxHits, left: 0..WindowTicks] /\ buckets[k].count < MaxHits
  BY DEF LimitInv, LimitTypeOK, Bounded
<1>2. b \in [count: 0..MaxHits, left: 0..WindowTicks] /\ b.count < MaxHits
  BY <1>1 DEF NoBucket
<1> QED
  BY <1>2 DEF Count

\* What a request that is let through adds to what is spent.
LEMMA Spent ==
  ASSUME LimitInv, NEW k \in Keys, Bounded(k), NEW b, Spend(k, b.count + 1)
  PROVE  /\ spent' \in [Keys -> [0..(WindowTicks - 1) -> 0..MaxHits]]
         /\ spent'[k] = Through(b, spent[k])
         /\ \A j \in Keys \ {k} : spent'[j] = spent[j]
<1> USE LimitAssumption DEF LimitAssumption
<1>1. spent \in [Keys -> [0..(WindowTicks - 1) -> 0..MaxHits]]
  BY DEF LimitInv, LimitTypeOK
<1>2. spent[k][0] < MaxHits /\ 0 \in 0..(WindowTicks - 1) /\ spent[k][0] \in 0..MaxHits
  BY <1>1 DEF Bounded
<1>3. CASE b.count + 1 <= LimitMax
  <2>1. spent' = [spent EXCEPT ![k][0] = @ + 1]
    BY <1>3 DEF Spend
  <2>2. spent[k][0] + 1 \in 0..MaxHits
    BY <1>2
  <2>3. Through(b, spent[k]) = [spent[k] EXCEPT ![0] = @ + 1]
    BY <1>3 DEF Through
  <2> QED
    BY <1>1, <1>2, <2>1, <2>2, <2>3
<1>4. CASE ~ (b.count + 1 <= LimitMax)
  BY <1>1, <1>4 DEF Spend, Through
<1> QED
  BY <1>3, <1>4

\* hitRedisLimit: one key is counted, and no counter is lost.
LEMMA RedisStep ==
  ASSUME LimitInv, NEW k \in Keys, HitRedisLimit(k)
  PROVE  LimitInv'
<1> USE LimitAssumption DEF LimitAssumption
<1>1. buckets \in [Keys -> [count: 0..MaxHits, left: 0..WindowTicks]] /\ limiter = "redis"
  BY DEF LimitInv, LimitTypeOK, HitRedisLimit
<1>2. /\ Count(buckets[k]) \in [count: 0..MaxHits, left: 0..WindowTicks]
      /\ Count(buckets[k]).count = buckets[k].count + 1
  BY Counted DEF HitRedisLimit
<1>3. buckets' = [buckets EXCEPT ![k] = Count(buckets[k])] /\ dropped' = dropped
  BY DEF HitRedisLimit
<1>4. Spend(k, buckets[k].count + 1) /\ Bounded(k)
  BY <1>1, <1>2, <1>3 DEF HitRedisLimit
<1>5. /\ spent' \in [Keys -> [0..(WindowTicks - 1) -> 0..MaxHits]]
      /\ spent'[k] = Through(buckets[k], spent[k])
      /\ \A j \in Keys \ {k} : spent'[j] = spent[j]
  BY <1>4, Spent
<1>6. LimitTypeOK'
  BY <1>1, <1>2, <1>3, <1>5 DEF LimitInv, LimitTypeOK, HitRedisLimit
<1>7. ASSUME NEW j \in Keys PROVE KeyOK(buckets[j], spent[j], j \in dropped)'
  <2>1. KeyOK(buckets[j], spent[j], j \in dropped)
    BY DEF LimitInv
  <2>2. CASE j = k
    <3>1. buckets'[j] = Count(buckets[j]) /\ spent'[j] = Through(buckets[j], spent[j])
      BY <1>1, <1>3, <1>5, <2>2
    <3> DEFINE d == j \in dropped
    <3>2. d \in BOOLEAN /\ KeyOK(buckets[j], spent[j], d)
      BY <2>1
    <3> HIDE DEF d
    <3>3. KeyOK(Count(buckets[j]), Through(buckets[j], spent[j]), d)
      BY <3>2, CountKey
    <3> QED
      BY <1>3, <3>1, <3>3 DEF d
  <2>3. CASE j # k
    <3>1. buckets'[j] = buckets[j] /\ spent'[j] = spent[j]
      BY <1>1, <1>3, <1>5, <2>3
    <3> QED
      BY <1>3, <2>1, <3>1
  <2> QED
    BY <2>2, <2>3
<1> QED
  BY <1>6, <1>7 DEF LimitInv

\* What cleanupBuckets leaves of the Map has room for a key.
LEMMA CleanedUp ==
  ASSUME LimitTypeOK
  PROVE  /\ CleanupBuckets \in Seq(Keys) /\ Len(CleanupBuckets) < MaxBuckets
         /\ IsInjective(CleanupBuckets)
<1> USE LimitAssumption DEF LimitAssumption
<1>1. order \in Seq(Keys) /\ Len(order) <= MaxBuckets /\ IsInjective(order)
  BY BoundedSequences DEF LimitTypeOK
<1>2. CASE Len(order) < MaxBuckets
  BY <1>1, <1>2 DEF CleanupBuckets
<1>3. CASE ~ (Len(order) < MaxBuckets)
  <2> DEFINE t == Tail(order)
  <2>1. order # <<>> /\ Len(order) = MaxBuckets
    BY <1>1, <1>3
  <2>2. t \in Seq(Keys) /\ Len(t) = MaxBuckets - 1 /\ \A i \in 1..Len(t) : t[i] = order[i + 1]
    BY <1>1, <2>1
  <2> HIDE DEF t
  <2>3. IsInjective(t)
    <3> SUFFICES ASSUME NEW a \in 1..Len(t), NEW c \in 1..Len(t), t[a] = t[c] PROVE a = c
      BY <2>2 DEF IsInjective
    <3>1. a + 1 \in 1..Len(order) /\ c + 1 \in 1..Len(order)
      BY <2>1, <2>2
    <3>2. order[a + 1] = order[c + 1]
      BY <2>2
    <3>3. a + 1 = c + 1
      BY <1>1, <3>1, <3>2 DEF IsInjective
    <3> QED
      BY <3>3
  <2>4. /\ LiveKeys(t) \in Seq(Keys) /\ Len(LiveKeys(t)) <= Len(t)
        /\ IsInjective(LiveKeys(t))
    BY <2>2, <2>3, LiveKeysOf
  <2>5. CleanupBuckets = LiveKeys(t)
    BY <1>3 DEF CleanupBuckets, t
  <2> QED
    BY <2>2, <2>4, <2>5
<1> QED
  BY <1>2, <1>3

\* hitMemoryLimit: counters may be lost to make room for the key that is counted.
LEMMA MemoryStep ==
  ASSUME LimitInv, NEW k \in Keys, HitMemoryLimit(k)
  PROVE  LimitInv'
<1> USE LimitAssumption DEF LimitAssumption
<1> DEFINE kept == CleanupBuckets
           lost == {j \in Keys : buckets[j].left > 0 /\ ~Contains(kept, j)}
           left == [j \in Keys |-> IF j \in lost THEN NoBucket ELSE buckets[j]]
<1>1. buckets \in [Keys -> [count: 0..MaxHits, left: 0..WindowTicks]] /\ limiter = "memory"
  BY DEF LimitInv, LimitTypeOK, HitMemoryLimit
<1>2. left \in [Keys -> [count: 0..MaxHits, left: 0..WindowTicks]]
  BY <1>1 DEF NoBucket
<1>3. /\ buckets' = [left EXCEPT ![k] = Count(left[k])] /\ Bounded(k)
      /\ order' = IF Contains(kept, k) THEN kept ELSE Append(kept, k)
      /\ dropped' = dropped \cup lost /\ Spend(k, buckets'[k].count) /\ limiter' = limiter
  BY DEF HitMemoryLimit
<1>4. kept \in Seq(Keys) /\ Len(kept) < MaxBuckets /\ IsInjective(kept)
  BY CleanedUp DEF LimitInv
<1>5. \A j \in Keys : left[j] = IF j \in lost THEN NoBucket ELSE buckets[j]
  OBVIOUS
<1> HIDE DEF kept, left
<1>6. /\ Count(left[k]) \in [count: 0..MaxHits, left: 0..WindowTicks]
      /\ Count(left[k]).count = left[k].count + 1
  BY <1>3, <1>5, Counted
<1>7. buckets'[k] = Count(left[k]) /\ \A j \in Keys \ {k} : buckets'[j] = left[j]
  BY <1>2, <1>3
<1>8. /\ spent' \in [Keys -> [0..(WindowTicks - 1) -> 0..MaxHits]]
      /\ spent'[k] = Through(left[k], spent[k])
      /\ \A j \in Keys \ {k} : spent'[j] = spent[j]
  <2>1. Spend(k, left[k].count + 1)
    BY <1>3, <1>6, <1>7
  <2> QED
    BY <1>3, <2>1, Spent
<1>9. order' \in Seq(Keys) /\ Len(order') <= MaxBuckets /\ IsInjective(order')
  <2>1. CASE Contains(kept, k)
    BY <1>3, <1>4, <2>1
  <2>2. CASE ~Contains(kept, k)
    <3>1. order' = Append(kept, k) /\ \A i \in 1..Len(kept) : kept[i] # k
      BY <1>3, <2>2 DEF Contains
    <3>2. /\ order' \in Seq(Keys) /\ Len(order') = Len(kept) + 1 /\ order'[Len(kept) + 1] = k
          /\ \A i \in 1..Len(kept) : order'[i] = kept[i]
      BY <1>4, <3>1
    <3>3. ASSUME NEW a \in 1..Len(order'), NEW c \in 1..Len(order'), order'[a] = order'[c]
          PROVE  a = c
      <4>1. CASE a \in 1..Len(kept) /\ c \in 1..Len(kept)
        BY <1>4, <3>2, <3>3, <4>1 DEF IsInjective
      <4>2. CASE a = Len(kept) + 1 \/ c = Len(kept) + 1
        BY <1>4, <3>1, <3>2, <3>3, <4>2
      <4> QED
        BY <1>4, <3>2, <4>1, <4>2
    <3>4. DOMAIN order' = 1..Len(order')
      BY <3>2
    <3> QED
      BY <1>4, <3>2, <3>3, <3>4 DEF IsInjective
  <2> QED
    BY <2>1, <2>2
<1>10. \A j \in Keys : Contains(kept, j) \/ j = k => Contains(order', j)
  <2>1. CASE Contains(kept, k)
    BY <1>3, <2>1
  <2>2. CASE ~Contains(kept, k)
    <3>1. /\ Len(order') = Len(kept) + 1 /\ order'[Len(kept) + 1] = k /\ Len(kept) \in Nat
          /\ \A i \in 1..Len(kept) : order'[i] = kept[i]
      BY <1>3, <1>4, <2>2
    <3> QED
      BY <3>1 DEF Contains
  <2> QED
    BY <2>1, <2>2
<1>11. ASSUME NEW j \in Keys, buckets'[j] # NoBucket PROVE Contains(order', j)
  <2>1. CASE j = k
    BY <1>10, <2>1
  <2>2. CASE j # k
    <3>1. j \notin lost /\ buckets[j] # NoBucket
      BY <1>5, <1>7, <1>11, <2>2
    <3>2. buckets[j].left > 0
      <4>1. KeyOK(buckets[j], spent[j], j \in dropped)
        BY DEF LimitInv
      <4> QED
        BY <3>1, <4>1 DEF KeyOK, NoBucket
    <3> QED
      BY <1>10, <3>1, <3>2
  <2> QED
    BY <2>1, <2>2
<1>12. LimitTypeOK'
  <2>1. buckets' \in [Keys -> [count: 0..MaxHits, left: 0..WindowTicks]]
    BY <1>2, <1>3, <1>6
  <2>2. (order \in BoundedSeq(Keys, MaxBuckets))' /\ IsInjective(order')
    BY <1>9, BoundedSequences
  <2>3. dropped' \subseteq Keys
    BY <1>3 DEF LimitInv, LimitTypeOK
  <2> QED
    BY <1>1, <1>3, <1>8, <1>11, <2>1, <2>2, <2>3 DEF LimitTypeOK
<1>13. ASSUME NEW j \in Keys PROVE KeyOK(buckets[j], spent[j], j \in dropped)'
  <2>1. KeyOK(buckets[j], spent[j], j \in dropped)
    BY DEF LimitInv
  <2>2. KeyOK(left[j], spent[j], j \in dropped')
    <3>1. CASE j \in lost
      <4>1. KeyOK(NoBucket, spent[j], TRUE) /\ (j \in dropped') = TRUE
        BY <1>3, <2>1, <3>1, LoseKey
      <4> QED
        BY <1>5, <3>1, <4>1
    <3>2. CASE j \notin lost
      <4>1. (j \in dropped') = (j \in dropped) /\ left[j] = buckets[j]
        BY <1>3, <1>5, <3>2
      <4> QED
        BY <2>1, <4>1
    <3> QED
      BY <3>1, <3>2
  <2>3. CASE j = k
    <3> DEFINE d == j \in dropped'
    <3>0. d \in BOOLEAN /\ KeyOK(left[j], spent[j], d)
      BY <2>2
    <3> HIDE DEF d
    <3>1. KeyOK(Count(left[j]), Through(left[j], spent[j]), d)
      BY <3>0, CountKey
    <3> QED
      BY <1>7, <1>8, <2>3, <3>1 DEF d
  <2>4. CASE j # k
    BY <1>7, <1>8, <2>2, <2>4
  <2> QED
    BY <2>3, <2>4
<1> QED
  BY <1>12, <1>13 DEF LimitInv

\* A restart loses the Map, and nothing of Redis.
LEMMA RestartStep ==
  ASSUME LimitInv, RestartLimiter
  PROVE  LimitInv'
<1> USE LimitAssumption DEF LimitAssumption
<1>1. LimitTypeOK'
  <2>1. <<>> \in Seq(Keys) /\ Len(<<>>) <= MaxBuckets /\ IsInjective(<<>>)
    BY DEF IsInjective
  <2>2. (order \in BoundedSeq(Keys, MaxBuckets))' /\ IsInjective(order')
    BY <2>1, BoundedSequences DEF RestartLimiter
  <2>3. NoBucket \in [count: 0..MaxHits, left: 0..WindowTicks]
    BY DEF NoBucket
  <2> QED
    BY <2>2, <2>3 DEF LimitInv, LimitTypeOK, RestartLimiter
<1>2. ASSUME NEW j \in Keys PROVE KeyOK(buckets[j], spent[j], j \in dropped)'
  <2>1. KeyOK(buckets[j], spent[j], j \in dropped)
    BY DEF LimitInv
  <2>2. buckets'[j] = NoBucket /\ spent'[j] = spent[j]
    BY DEF RestartLimiter
  <2>3. CASE buckets[j].left > 0 \/ j \in dropped
    <3>1. (j \in dropped') = TRUE
      BY <2>3 DEF RestartLimiter
    <3>2. KeyOK(NoBucket, spent[j], TRUE)
      BY <2>1, LoseKey
    <3> QED
      BY <2>2, <3>1, <3>2
  <2>4. CASE ~ (buckets[j].left > 0) /\ j \notin dropped
    <3>1. (j \in dropped') = (j \in dropped)
      BY <2>4 DEF RestartLimiter
    <3>2. buckets[j] = NoBucket
      BY <2>1, <2>4 DEF KeyOK, NoBucket
    <3> QED
      BY <2>1, <2>2, <3>1, <3>2
  <2> QED
    BY <2>3, <2>4
<1> QED
  BY <1>1, <1>2 DEF LimitInv

\* The clock: windows get shorter and what was let through gets older.
LEMMA TickStep ==
  ASSUME LimitInv, Tick
  PROVE  LimitInv'
<1> USE LimitAssumption DEF LimitAssumption
<1>1. ASSUME NEW j \in Keys
      PROVE  buckets'[j] = Ticked(buckets[j]) /\ spent'[j] = Older(spent[j])
  BY DEF Tick, Ticked, Older, Ages
<1>2. LimitTypeOK'
  <2>1. buckets' \in [Keys -> [count: 0..MaxHits, left: 0..WindowTicks]]
    <3>1. ASSUME NEW j \in Keys
          PROVE  Ticked(buckets[j]) \in [count: 0..MaxHits, left: 0..WindowTicks]
      <4>1. buckets[j] \in [count: 0..MaxHits, left: 0..WindowTicks]
        BY DEF LimitInv, LimitTypeOK
      <4> QED
        BY <4>1 DEF Ticked, NoBucket
    <3>2. buckets' = [j \in Keys |-> Ticked(buckets[j])]
      BY DEF Tick, Ticked
    <3> QED
      BY <3>1, <3>2
  <2>2. spent' \in [Keys -> [0..(WindowTicks - 1) -> 0..MaxHits]]
    <3>1. ASSUME NEW j \in Keys, NEW a \in 0..(WindowTicks - 1)
          PROVE  (IF a = 0 THEN 0 ELSE spent[j][a - 1]) \in 0..MaxHits
      <4>1. spent[j] \in [0..(WindowTicks - 1) -> 0..MaxHits]
        BY DEF LimitInv, LimitTypeOK
      <4>2. a # 0 => a - 1 \in 0..(WindowTicks - 1)
        OBVIOUS
      <4> QED
        BY <4>1, <4>2
    <3> QED
      BY <3>1 DEF Tick
  <2>3. ASSUME NEW j \in Keys, buckets'[j] # NoBucket PROVE buckets[j] # NoBucket
    <3>1. ASSUME buckets[j] = NoBucket PROVE Ticked(buckets[j]) = NoBucket
      BY <3>1 DEF Ticked, NoBucket
    <3> QED
      BY <1>1, <2>3, <3>1
  <2> QED
    BY <2>1, <2>2, <2>3 DEF LimitInv, LimitTypeOK, Tick
<1>3. ASSUME NEW j \in Keys PROVE KeyOK(buckets[j], spent[j], j \in dropped)'
  <2>1. KeyOK(buckets[j], spent[j], j \in dropped)
    BY DEF LimitInv
  <2> DEFINE d == j \in dropped
             e == d /\ Older(spent[j]) # NothingSpent
  <2>2. d \in BOOLEAN /\ KeyOK(buckets[j], spent[j], d)
    BY <2>1
  <2> HIDE DEF d
  <2>3. KeyOK(Ticked(buckets[j]), Older(spent[j]), e)
    BY <2>2, TickKey
  <2>4. j \in dropped' <=> e
    BY <1>1 DEF Tick, d
  <2>5. e \in BOOLEAN
    BY <2>2
  <2> HIDE DEF e
  <2>6. (j \in dropped') = e
    BY <2>4, <2>5
  <2> QED
    BY <1>1, <2>3, <2>6
<1> QED
  BY <1>2, <1>3 DEF LimitInv

\* Every step of the limiter keeps the invariant.
LEMMA LimitStepInv == LimitInv /\ [LimitNext]_limitVars => LimitInv'
<1> SUFFICES ASSUME LimitInv, [LimitNext]_limitVars PROVE LimitInv'
  OBVIOUS
<1>1. CASE UNCHANGED limitVars
  BY <1>1 DEF limitVars, LimitInv, LimitTypeOK
<1> QED
  BY <1>1, RedisStep, MemoryStep, RestartStep, TickStep DEF LimitNext

\* Type correctness of the limiter: counters and memories of requests are numbers, and
\* the Map (hitMemoryLimit, cleanupBuckets) names no key twice and keeps its bound.
THEOREM LimitsTyped == LimitSpec => []LimitTypeOK
<1>1. LimitInv => LimitTypeOK
  BY DEF LimitInv
<1> QED
  BY LimitInitInv, LimitStepInv, <1>1, PTL DEF LimitSpec

\* LimitHolds: two windows that lie side by side do not let twice the limit through,
\* and nobody is refused who has not spent the limit within the length of a window.
THEOREM LimitIsKept == LimitSpec => []LimitHolds
<1>1. LimitInv => LimitHolds
  <2> SUFFICES ASSUME LimitInv, NEW k \in Keys
               PROVE  /\ SpentBy(k) < 2 * LimitMax \/ k \in dropped
                      /\ buckets[k].count > LimitMax => SpentBy(k) >= LimitMax
    BY DEF LimitHolds
  <2>1. DOMAIN spent[k] = Ages
    BY DEF LimitInv, LimitTypeOK, Ages
  <2>2. SpentBy(k) = Total(spent[k], Ages)
    BY <2>1 DEF SpentBy, Total
  <2> DEFINE d == k \in dropped
  <2>3. d \in BOOLEAN /\ KeyOK(buckets[k], spent[k], d)
    BY DEF LimitInv
  <2> HIDE DEF d
  <2>4. /\ Total(spent[k], Ages) < 2 * LimitMax \/ d
        /\ buckets[k].count > LimitMax => Total(spent[k], Ages) >= LimitMax
    BY <2>3, KeyHolds
  <2> QED
    BY <2>2, <2>4 DEF d
<1> QED
  BY LimitInitInv, LimitStepInv, <1>1, PTL DEF LimitSpec
-----------------------------------------------------------------------------
(***************************************************************************)
(* Uploads: the inductive invariant ties what the test of an upload has    *)
(* read to the rows as they are, unless one was stored since.              *)
(***************************************************************************)
Bytes == [c \in Uploads |-> upload[c].bytes]

\* What has been read for the test of an upload in flight is up to date, unless a row
\* was stored since; a test that has passed was right; and a row over a quota is
\* found out by the readings of its test, those made and those to come.
UploadOK(u, ofRun, ofOrg) ==
  /\ u.pc \in {"put", "create"} =>
       /\ ~u.over
       /\ ~u.missed => /\ "run" \in u.read => u.runUsage = ofRun
                       /\ "org" \in u.read => u.orgUsage = ofOrg
  /\ u.tested => /\ u.read = {"run", "org"}
                 /\ u.runUsage + u.bytes <= RunQuota /\ u.orgUsage + u.bytes <= OrgQuota
  /\ u.pc = "done" /\ u.over /\ ~u.missed =>
       \/ ofRun > RunQuota /\ ("run" \in u.read => u.runUsage + u.bytes > RunQuota)
       \/ ofOrg > OrgQuota /\ ("org" \in u.read => u.orgUsage + u.bytes > OrgQuota)

\* The bytes in flight have room under the bound.
HasRoom(r) == stored[r] + Total(Bytes, InFlight(r)) <= MaxStored

UploadsSound ==
  /\ \A c \in Uploads : upload[c].pc # "idle" => UploadOK(upload[c], stored[upload[c].run], OrgUsage)
  /\ \A c \in Uploads : upload[c].pc = "idle" => upload[c] = NoUpload

UploadsInv == UploadsTypeOK /\ UploadsSound /\ \A r \in WorkflowRuns : HasRoom(r)

-----------------------------------------------------------------------------
\* The use of the organization is the sum over its runs.
LEMMA OrgUsageIs ==
  /\ OrgUsage = Total(stored, WorkflowRuns)
  /\ OrgUsage' = Total(stored', WorkflowRuns)
<1>1. OrgUsage = Total(stored, WorkflowRuns)
  BY DEF OrgUsage, Total
<1>2. OrgUsage' = Total(stored', WorkflowRuns)
  BY DEF OrgUsage, Total, MapThenSumSet, MapThenFoldSet
<1> QED
  BY <1>1, <1>2

\* The guard of UploadFile sums what the invariant sums.
LEMMA BytesAre ==
  ASSUME NEW S \in SUBSET Uploads
  PROVE  MapThenSumSet(LAMBDA d : upload[d].bytes, S) = Total(Bytes, S)
<1> DEFINE IsSum(g) == g = [s \in SUBSET S |-> IF s = {} THEN 0
                                            ELSE upload[First(s)].bytes + g[s \ {First(s)}]]
           sum == CHOOSE g : IsSum(g)
<1>1. IsFiniteSet(S)
  BY UploadsAssumption, FS_Subset DEF UploadsAssumption
<1>2. MapThenSumSet(LAMBDA d : upload[d].bytes, S) = sum[S]
  BY DEF MapThenSumSet, MapThenFoldSet, First
<1>3. \A s \in SUBSET S : s # {} => upload[First(s)].bytes = Bytes[First(s)]
  BY FirstIsIn DEF Bytes
<1>4. ASSUME NEW g PROVE IsSum(g) <=> IsTotals(g, Bytes, S)
  <2> DEFINE a(s) == IF s = {} THEN 0 ELSE upload[First(s)].bytes + g[s \ {First(s)}]
             b(s) == IF s = {} THEN 0 ELSE Bytes[First(s)] + g[s \ {First(s)}]
  <2>1. \A s \in SUBSET S : a(s) = b(s)
    BY <1>3
  <2>2. [s \in SUBSET S |-> a(s)] = [s \in SUBSET S |-> b(s)]
    <3> HIDE DEF a, b
    <3> QED
      BY <2>1
  <2> QED
    BY <2>2 DEF IsTotals
<1>5. \E g : IsTotals(g, Bytes, S)
  BY <1>1, TotalsExist
<1> HIDE DEF IsSum
<1>6. IsSum(sum)
  BY <1>4, <1>5
<1> HIDE DEF sum
<1> QED
  BY <1>1, <1>2, <1>4, <1>6, TotalIs

\* The bound of the use of the organization is a number.
LEMMA MaxOrgTyped == MaxOrg \in Nat
<1> DEFINE n == Cardinality(WorkflowRuns)
<1>1. n \in Nat /\ MaxStored \in Nat
  BY UploadsAssumption, FS_CardinalityType DEF UploadsAssumption
<1> HIDE DEF n
<1>2. MaxStored * n \in Nat
  BY <1>1
<1> QED
  BY <1>2 DEF MaxOrg, n

\* So are the use of a run and of the organization.
LEMMA UsageTyped ==
  ASSUME UploadsTypeOK
  PROVE  OrgUsage \in 0..MaxOrg /\ OrgUsage \in Nat
<1> USE UploadsAssumption DEF UploadsAssumption
<1>1. \A r \in WorkflowRuns : stored[r] \in 0..MaxStored /\ stored[r] \in Nat
  BY DEF UploadsTypeOK
<1>2. Total(stored, WorkflowRuns) \in Nat
  BY <1>1, TotalTyped
<1>3. Total(stored, WorkflowRuns) <= MaxStored * Cardinality(WorkflowRuns)
  BY <1>1, TotalBounded
<1> QED
  BY <1>2, <1>3, MaxOrgTyped, OrgUsageIs DEF MaxOrg

\* What is in flight for a run is of its bytes.
LEMMA InFlightTyped ==
  ASSUME UploadsTypeOK, NEW r
  PROVE  /\ IsFiniteSet(InFlight(r)) /\ InFlight(r) \in SUBSET Uploads
         /\ \A c \in Uploads : Bytes[c] = upload[c].bytes /\ Bytes[c] \in Nat
         /\ Total(Bytes, InFlight(r)) \in Nat
<1> USE UploadsAssumption DEF UploadsAssumption
<1>1. InFlight(r) \in SUBSET Uploads
  BY DEF InFlight
<1>2. \A c \in Uploads : Bytes[c] = upload[c].bytes /\ Bytes[c] \in Nat
  BY DEF UploadsTypeOK, UploadRecord, Bytes
<1>3. IsFiniteSet(InFlight(r))
  BY <1>1, FS_Subset
<1> QED
  BY <1>1, <1>2, <1>3, TotalTyped

\* Fewer uploads in flight need less room.
LEMMA LessInFlight ==
  ASSUME UploadsTypeOK, UploadsTypeOK', NEW r, InFlight(r)' \subseteq InFlight(r),
         \A c \in InFlight(r)' : upload'[c].bytes = upload[c].bytes
  PROVE  Total(Bytes, InFlight(r))' <= Total(Bytes, InFlight(r)) /\ Total(Bytes, InFlight(r))' \in Nat
<1> DEFINE S == InFlight(r)
           T == InFlight(r)'
<1>1. /\ IsFiniteSet(S) /\ S \in SUBSET Uploads /\ \A c \in S : Bytes[c] \in Nat
  BY InFlightTyped
<1>2. \A c \in T : Bytes'[c] = Bytes[c]
  BY <1>1 DEF Bytes
<1>3. T \in SUBSET S /\ IsFiniteSet(T) /\ IsFiniteSet(S \ T)
  BY <1>1, FS_Subset, FS_Difference
<1> HIDE DEF S, T
<1>4. Total(Bytes', T) = Total(Bytes, T)
  BY <1>2, <1>3, TotalSame
<1>5. Total(Bytes, S) = Total(Bytes, T) + Total(Bytes, S \ T)
  BY <1>1, <1>3, TotalSplit
<1>6. Total(Bytes, T) \in Nat /\ Total(Bytes, S \ T) \in Nat
  BY <1>1, <1>3, TotalTyped
<1>7. Total(Bytes, InFlight(r))' = Total(Bytes', T)
  BY DEF T
<1> QED
  BY <1>4, <1>5, <1>6, <1>7 DEF S

-----------------------------------------------------------------------------
\* Nothing is stored yet.
LEMMA UploadsInitInv == UploadsInit => UploadsInv
<1> SUFFICES ASSUME UploadsInit PROVE UploadsInv
  OBVIOUS
<1> USE UploadsAssumption DEF UploadsAssumption
<1>1. NoUpload \in UploadRecord
  <2>1. 0 \in 0..MaxOrg
    BY MaxOrgTyped
  <2> QED
    BY <2>1 DEF NoUpload, UploadRecord
<1>2. UploadsTypeOK
  BY <1>1 DEF UploadsInit, UploadsTypeOK, NoUpload
<1>3. UploadsSound
  BY DEF UploadsInit, UploadsSound, NoUpload
<1>4. ASSUME NEW r \in WorkflowRuns PROVE HasRoom(r)
  <2>1. InFlight(r) = {} /\ stored[r] = 0
    BY DEF UploadsInit, InFlight, NoUpload
  <2>2. Total(Bytes, {}) = 0
    BY TotalEmpty
  <2> QED
    BY <2>1, <2>2 DEF HasRoom
<1> QED
  BY <1>2, <1>3, <1>4 DEF UploadsInv

\* One upload changes and no row is stored.
LEMMA QuietUpload ==
  ASSUME UploadsInv, NEW c \in Uploads, NEW v \in UploadRecord,
         upload' = [upload EXCEPT ![c] = v], UNCHANGED <<stored, running>>,
         v.pc = "idle" => v = NoUpload,
         v.pc # "idle" => /\ running /\ v.run \in WorkflowRuns
                          /\ UploadOK(v, stored[v.run], OrgUsage)
  PROVE  UploadsTypeOK' /\ UploadsSound'
<1>1. upload'[c] = v /\ \A d \in Uploads \ {c} : upload'[d] = upload[d]
  BY DEF UploadsInv, UploadsTypeOK
<1>2. OrgUsage' = OrgUsage
  BY OrgUsageIs
<1>3. UploadsTypeOK'
  BY <1>1 DEF UploadsInv, UploadsTypeOK
<1>4. ASSUME NEW d \in Uploads
      PROVE  /\ upload'[d].pc # "idle" => UploadOK(upload'[d], stored'[upload'[d].run], OrgUsage')
             /\ upload'[d].pc = "idle" => upload'[d] = NoUpload
  <2>1. CASE d = c
    BY <1>1, <1>2, <2>1
  <2>2. CASE d # c
    BY <1>1, <1>2, <2>2 DEF UploadsInv, UploadsSound
  <2> QED
    BY <2>1, <2>2
<1> QED
  BY <1>3, <1>4 DEF UploadsSound

\* ... and if it was in flight before, there is room as there was.
LEMMA QuietInFlight ==
  ASSUME UploadsInv, NEW c \in Uploads, NEW v \in UploadRecord,
         upload' = [upload EXCEPT ![c] = v], UNCHANGED <<stored, running>>,
         v.pc = "idle" => v = NoUpload,
         v.pc # "idle" => /\ running /\ v.run \in WorkflowRuns
                          /\ UploadOK(v, stored[v.run], OrgUsage),
         v.pc \in {"put", "create"} =>
           upload[c].pc \in {"put", "create"} /\ v.run = upload[c].run /\ v.bytes = upload[c].bytes
  PROVE  UploadsInv'
<1>1. UploadsTypeOK' /\ UploadsSound'
  BY QuietUpload
<1>2. upload'[c] = v /\ \A d \in Uploads \ {c} : upload'[d] = upload[d]
  BY DEF UploadsInv, UploadsTypeOK
<1>3. ASSUME NEW r \in WorkflowRuns PROVE HasRoom(r)'
  <2>1. InFlight(r)' \subseteq InFlight(r)
    BY <1>2 DEF InFlight
  <2>2. \A d \in InFlight(r)' : upload'[d].bytes = upload[d].bytes
    BY <1>2 DEF InFlight
  <2>3. Total(Bytes, InFlight(r))' <= Total(Bytes, InFlight(r)) /\ Total(Bytes, InFlight(r))' \in Nat
    BY <1>1, <2>1, <2>2, LessInFlight DEF UploadsInv
  <2>4. Total(Bytes, InFlight(r)) \in Nat /\ stored[r] \in Nat
    BY InFlightTyped DEF UploadsInv, UploadsTypeOK
  <2>5. stored[r] + Total(Bytes, InFlight(r)) <= MaxStored /\ MaxStored \in Nat
    BY UploadsAssumption DEF UploadsAssumption, UploadsInv, HasRoom
  <2> QED
    BY <2>3, <2>4, <2>5 DEF HasRoom
<1> QED
  BY <1>1, <1>3 DEF UploadsInv

\* What is known of an upload in flight or answered.
LEMMA UploadIs ==
  ASSUME UploadsInv, NEW c \in Uploads, upload[c].pc # "idle"
  PROVE  /\ upload[c] \in UploadRecord /\ running /\ upload[c].run \in WorkflowRuns
         /\ UploadOK(upload[c], stored[upload[c].run], OrgUsage)
         /\ stored[upload[c].run] \in 0..MaxStored /\ OrgUsage \in 0..MaxOrg /\ OrgUsage \in Nat
         /\ upload[c].bytes \in Nat /\ upload[c].runUsage \in Nat /\ upload[c].orgUsage \in Nat
         /\ {MaxUpload, RunQuota, OrgQuota, MaxStored} \subseteq Nat
BY UploadsAssumption, UsageTyped
   DEF UploadsAssumption, UploadsInv, UploadsSound, UploadsTypeOK, UploadRecord

\* A call that is not in flight has the record of one.
LEMMA NoUploadTyped == ASSUME UploadsInv PROVE NoUpload \in UploadRecord
<1>1. 0 \in 0..MaxOrg
  BY MaxOrgTyped
<1> QED
  BY <1>1, UploadsAssumption DEF UploadsAssumption, NoUpload, UploadRecord

\* The first reading of the test is what the rows of the run add up to.
LEMMA ReadRunStep ==
  ASSUME UploadsInv, NEW c \in Uploads, ReadRunUsage(c)
  PROVE  UploadsInv'
<1> DEFINE u == upload[c]
           n == stored[u.run]
           v == [u EXCEPT !.read = u.read \cup {"run"}, !.runUsage = n]
<1>1. u.pc # "idle" /\ "run" \notin u.read /\ upload' = [upload EXCEPT ![c] = v]
      /\ UNCHANGED <<stored, running>>
  BY DEF ReadRunUsage
<1>2. /\ u \in UploadRecord /\ running /\ u.run \in WorkflowRuns /\ UploadOK(u, n, OrgUsage)
      /\ n \in 0..MaxStored /\ u.bytes \in Nat /\ u.orgUsage \in Nat /\ u.runUsage \in Nat
      /\ {MaxUpload, RunQuota, OrgQuota, MaxStored} \subseteq Nat
  BY <1>1, UploadIs
<1> HIDE DEF n
<1>3. /\ v \in UploadRecord /\ v.pc = u.pc /\ v.run = u.run /\ v.bytes = u.bytes
      /\ v.read = u.read \cup {"run"} /\ v.runUsage = n /\ v.orgUsage = u.orgUsage
      /\ v.tested = u.tested /\ v.over = u.over /\ v.missed = u.missed
  BY <1>2 DEF UploadRecord
<1> HIDE DEF u, v
<1>4. UploadOK(v, n, OrgUsage)
  BY <1>1, <1>2, <1>3 DEF UploadOK
<1> QED
  BY <1>1, <1>2, <1>3, <1>4, QuietInFlight DEF u, n

\* The second reading is what the rows of the organization add up to.
LEMMA ReadOrgStep ==
  ASSUME UploadsInv, NEW c \in Uploads, ReadOrgUsage(c)
  PROVE  UploadsInv'
<1> DEFINE u == upload[c]
           n == stored[u.run]
           v == [u EXCEPT !.read = u.read \cup {"org"}, !.orgUsage = OrgUsage]
<1>1. u.pc # "idle" /\ "org" \notin u.read /\ upload' = [upload EXCEPT ![c] = v]
      /\ UNCHANGED <<stored, running>>
  BY DEF ReadOrgUsage
<1>2. /\ u \in UploadRecord /\ running /\ u.run \in WorkflowRuns /\ UploadOK(u, n, OrgUsage)
      /\ n \in 0..MaxStored /\ u.bytes \in Nat /\ u.orgUsage \in Nat /\ u.runUsage \in Nat
      /\ OrgUsage \in 0..MaxOrg /\ OrgUsage \in Nat
      /\ {MaxUpload, RunQuota, OrgQuota, MaxStored} \subseteq Nat
  BY <1>1, UploadIs
<1> HIDE DEF n
<1>3. /\ v \in UploadRecord /\ v.pc = u.pc /\ v.run = u.run /\ v.bytes = u.bytes
      /\ v.read = u.read \cup {"org"} /\ v.runUsage = u.runUsage /\ v.orgUsage = OrgUsage
      /\ v.tested = u.tested /\ v.over = u.over /\ v.missed = u.missed
  BY <1>2 DEF UploadRecord
<1> HIDE DEF u, v
<1>4. UploadOK(v, n, OrgUsage)
  BY <1>1, <1>2, <1>3 DEF UploadOK
<1> QED
  BY <1>1, <1>2, <1>3, <1>4, QuietInFlight DEF u, n

\* The object is stored; the row is not.
LEMMA PutStep ==
  ASSUME UploadsInv, NEW c \in Uploads, PutObject(c)
  PROVE  UploadsInv'
<1> DEFINE u == upload[c]
           n == stored[u.run]
           v == [u EXCEPT !.pc = "create"]
<1>1. u.pc = "put" /\ upload' = [upload EXCEPT ![c] = v] /\ UNCHANGED <<stored, running>>
  BY DEF PutObject
<1>2. u \in UploadRecord /\ running /\ u.run \in WorkflowRuns /\ UploadOK(u, n, OrgUsage)
  BY <1>1, UploadIs
<1>3. /\ v \in UploadRecord /\ v.pc = "create" /\ v.run = u.run /\ v.bytes = u.bytes
      /\ v.read = u.read /\ v.runUsage = u.runUsage /\ v.orgUsage = u.orgUsage
      /\ v.tested = u.tested /\ v.over = u.over /\ v.missed = u.missed
  BY <1>2 DEF UploadRecord
<1> HIDE DEF u, v, n
<1>4. UploadOK(v, n, OrgUsage)
  BY <1>1, <1>2, <1>3 DEF UploadOK
<1> QED
  BY <1>1, <1>2, <1>3, <1>4, QuietInFlight DEF u, n

\* A handler that fails leaves no row, and its test goes on.
LEMMA FailsStep ==
  ASSUME UploadsInv, NEW c \in Uploads, UploadFails(c)
  PROVE  UploadsInv'
<1> DEFINE u == upload[c]
           n == stored[u.run]
           w == [u EXCEPT !.pc = "done"]
           v == Settled(w)
<1>1. u.pc \in {"put", "create"} /\ upload' = [upload EXCEPT ![c] = v] /\ UNCHANGED <<stored, running>>
  BY DEF UploadFails
<1>2. /\ u \in UploadRecord /\ running /\ u.run \in WorkflowRuns /\ UploadOK(u, n, OrgUsage)
      /\ NoUpload \in UploadRecord
  BY <1>1, UploadIs, NoUploadTyped
<1>3. /\ w \in UploadRecord /\ w.pc = "done" /\ w.run = u.run /\ w.bytes = u.bytes
      /\ w.read = u.read /\ w.runUsage = u.runUsage /\ w.orgUsage = u.orgUsage
      /\ w.tested = u.tested /\ w.over = u.over /\ w.missed = u.missed
  BY <1>2 DEF UploadRecord
<1> HIDE DEF w
<1>4. v = NoUpload \/ v = w
  BY DEF Settled
<1> HIDE DEF u, v, n
<1>5. UploadOK(w, n, OrgUsage)
  BY <1>1, <1>2, <1>3 DEF UploadOK
<1>6. NoUpload.pc = "idle"
  BY DEF NoUpload
<1> QED
  BY <1>1, <1>2, <1>3, <1>4, <1>5, <1>6, QuietInFlight DEF u, n

\* The process ends: nothing is in flight.
LEMMA EndStep ==
  ASSUME UploadsInv, EndProcess
  PROVE  UploadsInv'
<1>1. UploadsTypeOK'
  BY NoUploadTyped DEF UploadsInv, UploadsTypeOK, EndProcess, NoUpload
<1>2. UploadsSound'
  BY DEF UploadsSound, EndProcess, NoUpload
<1>3. ASSUME NEW r \in WorkflowRuns PROVE HasRoom(r)'
  <2>1. InFlight(r)' = {}
    BY DEF InFlight, EndProcess, NoUpload
  <2>2. Total(Bytes', {}) = 0
    BY TotalEmpty
  <2>3. stored'[r] \in 0..MaxStored
    BY <1>1 DEF UploadsTypeOK
  <2> QED
    BY <2>1, <2>2, <2>3 DEF HasRoom
<1> QED
  BY <1>1, <1>2, <1>3 DEF UploadsInv

\* A test that passes: u is the upload, and it is forgotten if it was answered.
LEMMA AssertStep ==
  ASSUME UploadsInv, NEW c \in Uploads, AssertUploadWithinQuota(c)
  PROVE  UploadsInv'
<1> DEFINE u == upload[c]
           n == stored[u.run]
           w == [u EXCEPT !.tested = TRUE]
           v == Settled(w)
           Over == u.runUsage + u.bytes > RunQuota \/ u.orgUsage + u.bytes > OrgQuota
<1>1. u.read = {"run", "org"} /\ ~u.tested
  BY DEF AssertUploadWithinQuota
<1>2. CASE Over
  BY <1>2, EndStep DEF AssertUploadWithinQuota
<1>3. CASE ~Over
  <2>1. upload' = [upload EXCEPT ![c] = v] /\ UNCHANGED <<stored, running>>
    BY <1>3 DEF AssertUploadWithinQuota
  <2>2. u.pc # "idle"
    BY <1>1 DEF UploadsInv, UploadsSound, NoUpload
  <2>3. /\ u \in UploadRecord /\ running /\ u.run \in WorkflowRuns /\ UploadOK(u, n, OrgUsage)
        /\ u.bytes \in Nat /\ u.runUsage \in Nat /\ u.orgUsage \in Nat
        /\ {MaxUpload, RunQuota, OrgQuota, MaxStored} \subseteq Nat
        /\ NoUpload \in UploadRecord
    BY <2>2, UploadIs, NoUploadTyped
  <2>4. /\ w \in UploadRecord /\ w.pc = u.pc /\ w.run = u.run /\ w.bytes = u.bytes
        /\ w.read = u.read /\ w.runUsage = u.runUsage /\ w.orgUsage = u.orgUsage
        /\ w.tested = TRUE /\ w.over = u.over /\ w.missed = u.missed
    BY <2>3 DEF UploadRecord
  <2>5. u.runUsage + u.bytes <= RunQuota /\ u.orgUsage + u.bytes <= OrgQuota
    BY <1>3, <2>3
  <2> HIDE DEF w
  <2>6. v = NoUpload \/ v = w
    BY DEF Settled
  <2> HIDE DEF u, v, n
  <2>7. UploadOK(w, n, OrgUsage)
    BY <1>1, <2>3, <2>4, <2>5 DEF UploadOK
  <2>8. NoUpload.pc = "idle"
    BY DEF NoUpload
  <2> QED
    BY <2>1, <2>2, <2>3, <2>4, <2>6, <2>7, <2>8, QuietInFlight DEF u, n
<1> QED
  BY <1>2, <1>3

\* A row is stored.
LEMMA CreateStep ==
  ASSUME UploadsInv, NEW c \in Uploads, CreateFileRecord(c)
  PROVE  UploadsInv'
<1> DEFINE u == upload[c]
           r == u.run
           n == stored[r]
           total == n + u.bytes
           w == [u EXCEPT !.pc = "done", !.over = total > RunQuota \/ OrgUsage + u.bytes > OrgQuota]
           other(d) == IF upload[d].pc \in {"put", "create"} /\ upload[d].read # {}
                       THEN [upload[d] EXCEPT !.missed = TRUE] ELSE upload[d]
<1>1. /\ u.pc = "create" /\ stored' = [stored EXCEPT ![r] = total] /\ running' = running
      /\ upload' = [d \in Uploads |-> IF d = c THEN Settled(w) ELSE other(d)]
  BY DEF CreateFileRecord
<1>2. /\ u \in UploadRecord /\ running /\ r \in WorkflowRuns /\ UploadOK(u, n, OrgUsage)
      /\ n \in 0..MaxStored /\ u.bytes \in Nat /\ u.runUsage \in Nat /\ u.orgUsage \in Nat
      /\ OrgUsage \in Nat /\ {MaxUpload, RunQuota, OrgQuota, MaxStored} \subseteq Nat
      /\ NoUpload \in UploadRecord /\ n \in Nat
  BY <1>1, UploadIs, NoUploadTyped
<1>3. \A q \in WorkflowRuns : stored[q] \in Nat /\ stored[q] \in 0..MaxStored
  BY DEF UploadsInv, UploadsTypeOK
<1>4. stored'[r] = total /\ \A q \in WorkflowRuns \ {r} : stored'[q] = stored[q]
  BY <1>1, <1>2 DEF UploadsInv, UploadsTypeOK
\* The sums grow by the bytes.
<1>5. OrgUsage' = OrgUsage + u.bytes
  <2>1. IsFiniteSet(WorkflowRuns)
    BY UploadsAssumption DEF UploadsAssumption
  <2>2. total \in Nat
    BY <1>2
  <2>3. Total(stored', WorkflowRuns) + n = Total(stored, WorkflowRuns) + total
    <3> HIDE DEF total, r
    <3> QED
      BY <1>2, <1>3, <1>4, <2>1, <2>2, TotalChanged
  <2>4. Total(stored', WorkflowRuns) \in Nat
    <3>1. \A q \in WorkflowRuns : stored'[q] \in Nat
      <4> HIDE DEF total
      <4> QED
        BY <1>3, <1>4, <2>2
    <3> QED
      BY <2>1, <3>1, TotalTyped
  <2> QED
    BY <1>2, <2>3, <2>4, OrgUsageIs
\* There is room for them.
<1>6. c \in InFlight(r)
  BY <1>1 DEF InFlight
<1>7. /\ Total(Bytes, InFlight(r)) = u.bytes + Total(Bytes, InFlight(r) \ {c})
      /\ Total(Bytes, InFlight(r) \ {c}) \in Nat
  <2>1. /\ IsFiniteSet(InFlight(r)) /\ InFlight(r) \in SUBSET Uploads
        /\ \A d \in InFlight(r) : Bytes[d] \in Nat
        /\ Bytes[c] = u.bytes
    BY InFlightTyped DEF UploadsInv
  <2>2. IsFiniteSet(InFlight(r) \ {c})
    BY <2>1, FS_Difference
  <2> HIDE DEF u
  <2> QED
    BY <1>6, <2>1, <2>2, TotalWithout, TotalTyped
<1>8. total \in 0..MaxStored /\ total + Total(Bytes, InFlight(r) \ {c}) <= MaxStored
  <2>1. n + Total(Bytes, InFlight(r)) <= MaxStored
    BY <1>2 DEF UploadsInv, HasRoom
  <2> QED
    BY <1>2, <1>7, <2>1
<1>9. /\ w \in UploadRecord /\ w.pc = "done" /\ w.run = r /\ w.bytes = u.bytes
      /\ w.read = u.read /\ w.runUsage = u.runUsage /\ w.orgUsage = u.orgUsage
      /\ w.tested = u.tested /\ w.missed = u.missed
      /\ w.over <=> total > RunQuota \/ OrgUsage + u.bytes > OrgQuota
  BY <1>2 DEF UploadRecord
<1>10. Settled(w) = NoUpload \/ Settled(w) = w
  BY DEF Settled
<1>11. UploadOK(w, total, OrgUsage + u.bytes)
  <2> HIDE DEF u, w, n
  <2> QED
    BY <1>1, <1>2, <1>8, <1>9 DEF UploadOK
<1>12. upload'[c] = Settled(w) /\ \A d \in Uploads \ {c} : upload'[d] = other(d)
  BY <1>1
<1>13. ASSUME NEW d \in Uploads, d # c
       PROVE  /\ other(d) \in UploadRecord /\ other(d).pc = upload[d].pc
              /\ other(d).run = upload[d].run /\ other(d).bytes = upload[d].bytes
              /\ other(d).read = upload[d].read /\ other(d).runUsage = upload[d].runUsage
              /\ other(d).orgUsage = upload[d].orgUsage /\ other(d).tested = upload[d].tested
              /\ other(d).over = upload[d].over
              /\ other(d).missed <=> \/ upload[d].missed
                                     \/ upload[d].pc \in {"put", "create"} /\ upload[d].read # {}
              /\ upload[d].pc = "idle" => other(d) = upload[d]
  <2>1. upload[d] \in UploadRecord
    BY DEF UploadsInv, UploadsTypeOK
  <2> QED
    BY <2>1 DEF UploadRecord
<1> HIDE DEF other, w
<1>14. UploadsTypeOK'
  <2>1. stored' \in [WorkflowRuns -> 0..MaxStored]
    <3> HIDE DEF total
    <3> QED
      BY <1>1, <1>8 DEF UploadsInv, UploadsTypeOK
  <2>2. upload' \in [Uploads -> UploadRecord]
    BY <1>1, <1>2, <1>9, <1>10, <1>13
  <2>3. ASSUME NEW d \in Uploads, upload'[d].pc # "idle"
        PROVE  running' /\ upload'[d].run \in WorkflowRuns
    <3>1. CASE d = c
      <4>1. upload'[d] = w
        BY <1>10, <1>12, <2>3, <3>1 DEF NoUpload
      <4> QED
        BY <1>1, <1>2, <1>9, <4>1
    <3>2. CASE d # c
      BY <1>1, <1>12, <1>13, <2>3, <3>2 DEF UploadsInv, UploadsTypeOK
    <3> QED
      BY <3>1, <3>2
  <2>4. running' \in BOOLEAN
    BY <1>1 DEF UploadsInv, UploadsTypeOK
  <2> QED
    BY <2>1, <2>2, <2>3, <2>4 DEF UploadsTypeOK
<1>15. UploadsSound'
  <2>1. ASSUME NEW d \in Uploads
        PROVE  /\ upload'[d].pc # "idle" =>
                    UploadOK(upload'[d], stored'[upload'[d].run], OrgUsage')
               /\ upload'[d].pc = "idle" => upload'[d] = NoUpload
    <3>1. CASE d = c
      <4>1. upload'[d] = NoUpload \/ upload'[d] = w
        BY <1>10, <1>12, <3>1
      <4>2. NoUpload.pc = "idle"
        BY DEF NoUpload
      <4> QED
        BY <1>4, <1>5, <1>9, <1>11, <4>1, <4>2
    <3>2. CASE d # c /\ upload[d].pc # "idle"
      <4> DEFINE o == upload[d]
                 m == stored[o.run]
                 p == upload'[d]
      <4>1. /\ o.run \in WorkflowRuns /\ UploadOK(o, m, OrgUsage)
            /\ o.bytes \in Nat /\ o.runUsage \in Nat /\ o.orgUsage \in Nat
        BY <3>2, UploadIs
      <4>2. m \in Nat /\ stored'[o.run] \in Nat /\ stored'[o.run] >= m
        <5>1. CASE o.run = r
          BY <1>2, <1>4, <5>1
        <5>2. CASE o.run # r
          <6> HIDE DEF r, total
          <6> QED
            BY <1>3, <1>4, <4>1, <5>2
        <5> QED
          BY <5>1, <5>2
      <4>3. /\ p.pc = o.pc /\ p.run = o.run /\ p.bytes = o.bytes
            /\ p.read = o.read /\ p.runUsage = o.runUsage /\ p.orgUsage = o.orgUsage
            /\ p.tested = o.tested /\ p.over = o.over
            /\ p.missed <=> o.missed \/ (o.pc \in {"put", "create"} /\ o.read # {})
        BY <1>12, <1>13, <3>2
      <4> HIDE DEF o, p, m
      <4> DEFINE k == stored'[o.run]
      <4>4. OrgUsage' >= OrgUsage /\ OrgUsage' \in Nat
        <5> HIDE DEF u
        <5> QED
          BY <1>2, <1>5
      <4>5. k \in Nat /\ k >= m
        BY <4>2
      <4> HIDE DEF k
      <4>6. UploadOK(p, k, OrgUsage')
        BY <1>2, <4>1, <4>2, <4>3, <4>4, <4>5 DEF UploadOK
      <4>7. UploadOK(p, stored'[p.run], OrgUsage')
        BY <4>3, <4>6 DEF k
      <4>8. p.pc # "idle"
        BY <3>2, <4>3 DEF o
      <4> QED
        BY <4>7, <4>8 DEF p
    <3>3. CASE d # c /\ upload[d].pc = "idle"
      <4>1. upload'[d] = upload[d] /\ upload[d] = NoUpload
        BY <1>12, <1>13, <3>3 DEF UploadsInv, UploadsSound
      <4> QED
        BY <3>3, <4>1
    <3> QED
      BY <3>1, <3>2, <3>3
  <2> QED
    BY <2>1 DEF UploadsSound
<1>16. ASSUME NEW q \in WorkflowRuns PROVE HasRoom(q)'
  <2>1. InFlight(q)' = InFlight(q) \ {c}
    <3>1. upload'[c].pc \notin {"put", "create"}
      BY <1>9, <1>10, <1>12 DEF NoUpload
    <3>2. \A d \in Uploads \ {c} : upload'[d].run = upload[d].run /\ upload'[d].pc = upload[d].pc
      BY <1>12, <1>13
    <3> QED
      BY <3>1, <3>2 DEF InFlight
  <2> DEFINE T == InFlight(q) \ {c}
  <2>2. \A d \in T : Bytes'[d] = Bytes[d]
    BY <1>12, <1>13 DEF Bytes, InFlight
  <2>3. /\ IsFiniteSet(InFlight(q)) /\ InFlight(q) \in SUBSET Uploads
        /\ \A d \in InFlight(q) : Bytes[d] \in Nat /\ T \in SUBSET InFlight(q)
    BY InFlightTyped DEF UploadsInv
  <2>4. IsFiniteSet(T)
    BY <2>3, FS_Difference
  <2> HIDE DEF T
  <2>5. Total(Bytes', T) = Total(Bytes, T)
    BY <2>2, <2>4, TotalSame
  <2>6. Total(Bytes, InFlight(q))' = Total(Bytes, T)
    BY <2>1, <2>5 DEF T
  <2>7. CASE q = r
    BY <1>4, <1>8, <2>6, <2>7 DEF HasRoom, T
  <2>8. CASE q # r
    <3>1. InFlight(q) \ {c} = InFlight(q)
      BY <2>8 DEF InFlight
    <3>2. stored[q] + Total(Bytes, InFlight(q)) <= MaxStored
      BY DEF UploadsInv, HasRoom
    <3>3. stored'[q] = stored[q]
      BY <1>4, <2>8
    <3> QED
      BY <2>6, <3>1, <3>2, <3>3 DEF HasRoom, T
  <2> QED
    BY <2>7, <2>8
<1> QED
  BY <1>14, <1>15, <1>16 DEF UploadsInv

\* An upload begins, and takes the room that its guard has found.
LEMMA UploadStep ==
  ASSUME UploadsInv, NEW c \in Uploads, NEW r \in WorkflowRuns, NEW n \in 1..(MaxUpload + 1),
         UploadFile(c, r, n)
  PROVE  UploadsInv'
<1> DEFINE pc == IF n > MaxUpload THEN "done" ELSE "put"
           v == [NoUpload EXCEPT !.pc = pc, !.run = r, !.bytes = n]
<1>1. /\ running /\ upload[c].pc = "idle" /\ upload' = [upload EXCEPT ![c] = v]
      /\ UNCHANGED <<stored, running>>
      /\ stored[r] + n + MapThenSumSet(LAMBDA d : upload[d].bytes, InFlight(r)) <= MaxStored
  BY DEF UploadFile
<1>2. n \in Nat /\ n \in 0..(MaxUpload + 1)
  BY UploadsAssumption DEF UploadsAssumption
<1>3. /\ v.pc = pc /\ pc \in {"done", "put"} /\ v.run = r /\ v.bytes = n /\ v.read = {}
      /\ v.tested = FALSE /\ v.over = FALSE /\ v.missed = FALSE
  BY DEF NoUpload
<1>4. v \in UploadRecord
  <2>1. NoUpload \in UploadRecord
    BY NoUploadTyped
  <2> QED
    BY <1>2, <2>1 DEF UploadRecord
<1> HIDE DEF v, pc
<1>5. UploadOK(v, stored[v.run], OrgUsage)
  BY <1>3 DEF UploadOK
<1>6. UploadsTypeOK' /\ UploadsSound'
  BY <1>1, <1>3, <1>4, <1>5, QuietUpload
<1>7. upload'[c] = v /\ \A d \in Uploads \ {c} : upload'[d] = upload[d]
  BY <1>1 DEF UploadsInv, UploadsTypeOK
<1>8. ASSUME NEW q \in WorkflowRuns PROVE HasRoom(q)'
  <2> DEFINE S == InFlight(q)
             T == InFlight(q)'
  <2>1. /\ IsFiniteSet(S) /\ S \in SUBSET Uploads /\ \A d \in S : Bytes[d] \in Nat
        /\ Total(Bytes, S) \in Nat
    BY InFlightTyped DEF UploadsInv
  <2>2. c \notin S /\ T \subseteq S \cup {c} /\ S = T \ {c} /\ (c \in T => q = r)
    BY <1>1, <1>3, <1>7 DEF InFlight
  <2>3. /\ \A d \in S : Bytes'[d] = Bytes[d]
        /\ Bytes'[c] = n
    BY <1>3, <1>7, <2>1, <2>2 DEF Bytes
  <2>4. stored[q] + Total(Bytes, S) <= MaxStored /\ stored[q] \in Nat /\ MaxStored \in Nat
    BY UploadsAssumption DEF UploadsAssumption, UploadsInv, HasRoom, UploadsTypeOK
  <2>5. q = r => stored[r] + n + Total(Bytes, S) <= MaxStored
    BY <1>1, <2>1, BytesAre
  <2>6. stored'[q] = stored[q] /\ Total(Bytes, InFlight(q))' = Total(Bytes', T)
    BY <1>1
  <2> HIDE DEF S, T
  <2>7. Total(Bytes', S) = Total(Bytes, S)
    BY <2>1, <2>3, TotalSame
  <2>8. CASE c \notin T
    <3>1. T = S
      BY <2>2, <2>8
    <3> QED
      BY <2>4, <2>6, <2>7, <3>1 DEF HasRoom
  <2>9. CASE c \in T
    <3>1. T = S \cup {c} /\ T \ {c} = S
      BY <2>2, <2>9
    <3>2. IsFiniteSet(T)
      BY <2>1, <3>1, FS_AddElement
    <3>3. \A d \in T : Bytes'[d] \in Nat
      BY <1>2, <2>1, <2>3, <3>1
    <3>4. Total(Bytes', T) = Bytes'[c] + Total(Bytes', T \ {c})
      BY <2>9, <3>2, <3>3, TotalWithout
    <3>5. Total(Bytes', T) = n + Total(Bytes, S)
      BY <2>3, <2>7, <3>1, <3>4
    <3> QED
      BY <1>2, <2>1, <2>2, <2>4, <2>5, <2>6, <2>9, <3>5 DEF HasRoom
  <2> QED
    BY <2>8, <2>9
<1> QED
  BY <1>6, <1>8 DEF UploadsInv

\* The API process starts again, with no call in flight.
LEMMA StartsStep ==
  ASSUME UploadsInv, ApiStarts
  PROVE  UploadsInv'
<1>1. UploadsTypeOK'
  BY DEF UploadsInv, UploadsTypeOK, ApiStarts
<1>2. OrgUsage' = OrgUsage /\ stored' = stored /\ upload' = upload
  BY OrgUsageIs DEF ApiStarts
<1>3. UploadsSound'
  BY <1>2 DEF UploadsInv, UploadsSound
<1>4. \A r \in WorkflowRuns : HasRoom(r)'
  BY <1>2 DEF UploadsInv, HasRoom, InFlight, Bytes
<1> QED
  BY <1>1, <1>3, <1>4 DEF UploadsInv

\* Every step of the uploads keeps the invariant.
LEMMA UploadsStepInv == UploadsInv /\ [UploadsNext]_uploadsVars => UploadsInv'
<1> SUFFICES ASSUME UploadsInv, [UploadsNext]_uploadsVars PROVE UploadsInv'
  OBVIOUS
<1>1. CASE UNCHANGED uploadsVars
  <2>1. stored' = stored /\ upload' = upload /\ running' = running
    BY <1>1 DEF uploadsVars
  <2>2. OrgUsage' = OrgUsage
    BY <2>1, OrgUsageIs
  <2> QED
    BY <2>1, <2>2 DEF UploadsInv, UploadsTypeOK, UploadsSound, HasRoom, InFlight, Bytes
<1>2. CASE ApiDies
  BY <1>2, EndStep DEF ApiDies
<1> QED
  BY <1>1, <1>2, UploadStep, ReadRunStep, ReadOrgStep, AssertStep, PutStep, CreateStep, FailsStep,
     StartsStep DEF UploadsNext

\* Type correctness of the uploads: what is stored stays within the bound, and what the
\* test of an upload (assertUploadWithinQuota) has read is a sum of sizes.
THEOREM UploadsTyped == UploadsSpec => []UploadsTypeOK
<1>1. UploadsInv => UploadsTypeOK
  BY DEF UploadsInv
<1> QED
  BY UploadsInitInv, UploadsStepInv, <1>1, PTL DEF UploadsSpec

\* What a step does to an upload that it forgets, the process going on.
LEMMA OverrunStep ==
  ASSUME UploadsInv, UploadsInv', [UploadsNext]_uploadsVars, NEW c \in Uploads,
         upload[c].pc # "idle", upload'[c].pc = "idle", running', ~upload[c].missed
  PROVE  /\ ~upload[c].over
         /\ upload[c].pc = "create" =>
              stored'[upload[c].run] <= RunQuota /\ OrgUsage' <= OrgQuota
<1> DEFINE u == upload[c]
           n == stored[u.run]
<1>1. /\ u \in UploadRecord /\ u.run \in WorkflowRuns /\ UploadOK(u, n, OrgUsage)
      /\ n \in Nat /\ OrgUsage \in Nat
      /\ u.bytes \in Nat /\ u.runUsage \in Nat /\ u.orgUsage \in Nat
      /\ {MaxUpload, RunQuota, OrgQuota, MaxStored} \subseteq Nat
  BY UploadIs
<1>2. upload \in [Uploads -> UploadRecord]
  BY DEF UploadsInv, UploadsTypeOK
\* Only the test, the row or a failure of c itself forgets it.
<1>3. ASSUME NEW d \in Uploads, NEW v, upload' = [upload EXCEPT ![d] = v]
      PROVE  d = c /\ v.pc = "idle"
  BY <1>2, <1>3
<1>4. ~EndProcess
  BY DEF EndProcess
<1>5. CASE AssertUploadWithinQuota(c)
  <2> DEFINE w == [u EXCEPT !.tested = TRUE]
  <2>1. /\ upload' = [upload EXCEPT ![c] = Settled(w)] /\ UNCHANGED <<stored, running>>
        /\ u.read = {"run", "org"}
        /\ ~ (u.runUsage + u.bytes > RunQuota \/ u.orgUsage + u.bytes > OrgQuota)
    BY <1>4, <1>5 DEF AssertUploadWithinQuota
  <2>2. u.runUsage + u.bytes <= RunQuota /\ u.orgUsage + u.bytes <= OrgQuota
    BY <1>1, <2>1
  <2>3. w.pc = u.pc
    BY <1>1 DEF UploadRecord
  <2>4. u.pc = "done"
    <3> HIDE DEF w
    <3>1. Settled(w).pc = "idle"
      BY <1>3, <2>1
    <3> QED
      BY <2>3, <3>1 DEF Settled
  <2> HIDE DEF u, n
  <2>5. ~u.over
    BY <1>1, <2>1, <2>2, <2>4 DEF UploadOK, u
  <2> QED
    BY <2>4, <2>5 DEF u
<1>6. CASE CreateFileRecord(c) \/ UploadFails(c)
  <2>1. u.pc \in {"put", "create"}
    BY <1>6 DEF CreateFileRecord, UploadFails
  <2>2. u.tested
    <3>1. CASE CreateFileRecord(c)
      <4> DEFINE w == [u EXCEPT !.pc = "done",
                                !.over = n + u.bytes > RunQuota \/ OrgUsage + u.bytes > OrgQuota]
      <4>1. upload'[c] = Settled(w)
        BY <3>1 DEF CreateFileRecord
      <4>2. w.pc = "done" /\ w.tested = u.tested
        BY <1>1 DEF UploadRecord
      <4> HIDE DEF w
      <4> QED
        BY <4>1, <4>2 DEF Settled
    <3>2. CASE UploadFails(c)
      <4> DEFINE w == [u EXCEPT !.pc = "done"]
      <4>1. upload'[c] = Settled(w)
        BY <1>2, <3>2 DEF UploadFails
      <4>2. w.pc = "done" /\ w.tested = u.tested
        BY <1>1 DEF UploadRecord
      <4> HIDE DEF w
      <4> QED
        BY <4>1, <4>2 DEF Settled
    <3> QED
      BY <1>6, <3>1, <3>2
  <2>3. /\ ~u.over /\ n + u.bytes <= RunQuota /\ OrgUsage + u.bytes <= OrgQuota
    <3> HIDE DEF n, u
    <3> QED
      BY <1>1, <2>1, <2>2 DEF UploadOK, u
  <2>4. /\ stored'[u.run] \in {n, n + u.bytes}
        /\ OrgUsage' \in {OrgUsage, OrgUsage + u.bytes}
    <3>1. CASE UploadFails(c)
      <4>1. stored' = stored
        BY <3>1 DEF UploadFails
      <4> QED
        BY <4>1, OrgUsageIs
    <3>2. CASE CreateFileRecord(c)
      <4>1. stored' = [stored EXCEPT ![u.run] = n + u.bytes]
        BY <3>2 DEF CreateFileRecord
      <4>2. stored'[u.run] = n + u.bytes /\ \A q \in WorkflowRuns \ {u.run} : stored'[q] = stored[q]
        BY <1>1, <4>1 DEF UploadsInv, UploadsTypeOK
      <4>3. \A q \in WorkflowRuns : stored[q] \in Nat /\ stored'[q] \in Nat
        BY UploadsAssumption DEF UploadsAssumption, UploadsInv, UploadsTypeOK
      <4>4. IsFiniteSet(WorkflowRuns)
        BY UploadsAssumption DEF UploadsAssumption
      <4>5. Total(stored', WorkflowRuns) \in Nat
        BY <4>3, <4>4, TotalTyped
      <4>6. Total(stored', WorkflowRuns) + n = Total(stored, WorkflowRuns) + stored'[u.run]
        <5> DEFINE r == u.run
        <5>1. r \in WorkflowRuns /\ stored[r] = n /\ \A q \in WorkflowRuns \ {r} : stored'[q] = stored[q]
          BY <1>1, <4>2
        <5> HIDE DEF r
        <5>2. Total(stored', WorkflowRuns) + stored[r] = Total(stored, WorkflowRuns) + stored'[r]
          BY <4>3, <4>4, <5>1, TotalChanged
        <5> QED
          BY <5>1, <5>2 DEF r
      <4> QED
        BY <1>1, <4>2, <4>5, <4>6, OrgUsageIs
    <3> QED
      BY <1>6, <3>1, <3>2
  <2> QED
    BY <1>1, <2>3, <2>4
\* No other step takes c from where it is to idle.
<1>7. AssertUploadWithinQuota(c) \/ CreateFileRecord(c) \/ UploadFails(c)
  <2>1. ~ UNCHANGED uploadsVars
    BY DEF uploadsVars
  <2>2. ~ApiDies /\ ~ApiStarts
    BY <1>4 DEF ApiDies, ApiStarts
  <2>3. ASSUME NEW d \in Uploads, NEW r \in WorkflowRuns, NEW m \in 1..(MaxUpload + 1), UploadFile(d, r, m)
        PROVE  FALSE
    <3>1. upload[d].pc = "idle" /\ \A e \in Uploads \ {d} : upload'[e] = upload[e]
      BY <1>2, <2>3 DEF UploadFile
    <3> QED
      BY <3>1
  <2>4. ASSUME NEW d \in Uploads, ReadRunUsage(d) \/ ReadOrgUsage(d) \/ PutObject(d)
        PROVE  FALSE
    <3>1. upload'[d].pc \in {upload[d].pc, "create"} /\ \A e \in Uploads \ {d} : upload'[e] = upload[e]
      <4>1. upload[d] \in UploadRecord
        BY <1>2
      <4>2. CASE PutObject(d)
        BY <1>2, <4>1, <4>2 DEF PutObject, UploadRecord
      <4>3. CASE ReadRunUsage(d)
        BY <1>2, <4>1, <4>3 DEF ReadRunUsage, UploadRecord
      <4>4. CASE ReadOrgUsage(d)
        BY <1>2, <4>1, <4>4 DEF ReadOrgUsage, UploadRecord
      <4> QED
        BY <2>4, <4>2, <4>3, <4>4
    <3> QED
      BY <3>1
  <2>5. ASSUME NEW d \in Uploads, AssertUploadWithinQuota(d) \/ UploadFails(d)
        PROVE  d = c
    <3>1. \A e \in Uploads \ {d} : upload'[e] = upload[e]
      BY <1>2, <1>4, <2>5 DEF AssertUploadWithinQuota, UploadFails
    <3> QED
      BY <3>1
  <2>6. ASSUME NEW d \in Uploads, CreateFileRecord(d) PROVE d = c
    <3>1. d # c => upload'[c] = IF u.pc \in {"put", "create"} /\ u.read # {}
                               THEN [u EXCEPT !.missed = TRUE] ELSE u
      BY <2>6 DEF CreateFileRecord
    <3>2. d # c => upload'[c].pc = u.pc
      BY <1>1, <3>1 DEF UploadRecord
    <3> QED
      BY <3>2
  <2> QED
    BY <2>1, <2>2, <2>3, <2>4, <2>5, <2>6 DEF UploadsNext
<1> QED
  BY <1>5, <1>6, <1>7

\* OverrunEndsProcess: a file that takes its run or organization over the quota ends the
\* API process by the time that its upload is forgotten, unless another row was
\* stored after its test had read a sum (assertUploadWithinQuota, not awaited).
THEOREM OverrunsEndTheProcess == UploadsSpec => OverrunEndsProcess
<1>1. UploadsInv /\ UploadsInv' /\ [UploadsNext]_uploadsVars =>
        \A c \in Uploads :
          LET last == upload[c].pc = "create" /\ upload'[c].pc = "idle"
          IN /\ upload[c].over /\ upload'[c].pc = "idle" => ~running' \/ upload[c].missed
             /\ last /\ running' /\ ~upload[c].missed =>
                  stored'[upload[c].run] <= RunQuota /\ OrgUsage' <= OrgQuota
  <2> SUFFICES ASSUME UploadsInv, UploadsInv', [UploadsNext]_uploadsVars, NEW c \in Uploads
               PROVE  /\ upload[c].over /\ upload'[c].pc = "idle" => ~running' \/ upload[c].missed
                      /\ upload[c].pc = "create" /\ upload'[c].pc = "idle" /\ running' /\ ~upload[c].missed =>
                           stored'[upload[c].run] <= RunQuota /\ OrgUsage' <= OrgQuota
    OBVIOUS
  <2>1. upload[c].over => upload[c].pc # "idle"
    BY DEF UploadsInv, UploadsSound, NoUpload
  <2> QED
    BY <2>1, OverrunStep
<1> QED
  BY UploadsInitInv, UploadsStepInv, <1>1, PTL DEF UploadsSpec, OverrunEndsProcess
=============================================================================
