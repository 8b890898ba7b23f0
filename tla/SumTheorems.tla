----------------------------- MODULE SumTheorems -----------------------------
(***************************************************************************)
(* What SumFunctionOnSet(f, S) is, for every finite set S and every f that *)
(* is integer on it: the facts the proofs about money and slots cite.      *)
(*                                                                         *)
(* The fold is a recursive function on the subsets of S.  Strict inclusion *)
(* is well founded on them, so a statement that fails for some subset      *)
(* fails for a least one (LeastBad); every induction below is an argument  *)
(* about that least set.                                                   *)
(***************************************************************************)
EXTENDS Functions, FiniteSetTheorems, TLAPS

\* The element the fold takes next.
Pick(s) == CHOOSE x \in s : TRUE

\* The element FoldSet takes next is one of the set.
LEMMA PickIn == ASSUME NEW s, s # {} PROVE Pick(s) \in s
BY DEF Pick

\* Induction over the subsets of a finite set, without a predicate parameter.
LEMMA LeastBad ==
    ASSUME NEW S, IsFiniteSet(S), NEW Bad \in SUBSET (SUBSET S), Bad # {}
    PROVE  \E T \in Bad : \A U \in SUBSET T : U # T => U \notin Bad
<1>1. FiniteSubsetsOf(S) = SUBSET S
  BY FS_FiniteSubsetsOfFinite
<1>2. IsWellFoundedOn(StrictSubsetOrdering(S), SUBSET S)
  BY <1>1, FS_StrictSubsetOrderingWellFounded
<1>3. PICK T \in Bad : \A U \in Bad : ~(<<U, T>> \in StrictSubsetOrdering(S))
  BY <1>2, WFMin
<1>4. QED
  BY <1>3 DEF StrictSubsetOrdering

\* g is the table of the partial sums of f over the subsets of S.
Table(g, f, S) ==
    g = [s \in SUBSET S |-> IF s = {} THEN 0 ELSE f[Pick(s)] + g[s \ {Pick(s)}]]

-----------------------------------------------------------------------------
(* The recursion of the fold. *)

\* The library's sum is a table of partial sums, looked up at S.
LEMMA SumUnfold ==
    ASSUME NEW f, NEW S
    PROVE  SumFunctionOnSet(f, S) = (CHOOSE g : Table(g, f, S))[S]
BY DEF SumFunctionOnSet, FoldFunctionOnSet, MapThenFoldSet, Table, Pick

\* One entry of the table.
LEMMA TableStep ==
    ASSUME NEW f, NEW S, NEW g, Table(g, f, S), NEW s \in SUBSET S
    PROVE  g[s] = IF s = {} THEN 0 ELSE f[Pick(s)] + g[s \ {Pick(s)}]
BY DEF Table

\* Two tables agree where both are defined.
LEMMA TableUnique ==
    ASSUME NEW f, NEW S, NEW T, IsFiniteSet(S), NEW g, NEW h,
           Table(g, f, S), Table(h, f, T), NEW s \in SUBSET (S \cap T)
    PROVE  g[s] = h[s]
<1> DEFINE Bad == {u \in SUBSET (S \cap T) : g[u] # h[u]}
<1>1. SUFFICES ASSUME Bad # {} PROVE FALSE
  OBVIOUS
<1>2. IsFiniteSet(S \cap T)
  BY FS_Subset
<1>3. PICK u \in Bad : \A v \in SUBSET u : v # u => v \notin Bad
  <2>1. Bad \in SUBSET (SUBSET (S \cap T))
    OBVIOUS
  <2> HIDE DEF Bad
  <2>2. QED
    BY <1>1, <1>2, <2>1, LeastBad
<1>4. u \in SUBSET S /\ u \in SUBSET T
  OBVIOUS
<1>5. CASE u = {}
  BY <1>4, <1>5, TableStep
<1>6. CASE u # {}
  <2>1. Pick(u) \in u
    BY <1>6, PickIn
  <2>2. g[u \ {Pick(u)}] = h[u \ {Pick(u)}]
    BY <1>3, <2>1
  <2>3. g[u] = f[Pick(u)] + g[u \ {Pick(u)}] /\ h[u] = f[Pick(u)] + h[u \ {Pick(u)}]
    BY <1>4, <1>6, TableStep
  <2>4. QED
    BY <2>2, <2>3
<1>7. QED
  BY <1>5, <1>6

\* The recursion has a solution: below a least set without a table every set
\* has one, and these give the table of that set.
LEMMA TableExists ==
    ASSUME NEW f, NEW S, IsFiniteSet(S)
    PROVE  \E g : Table(g, f, S)
<1> DEFINE Tab(u) == CHOOSE g : Table(g, f, u)
           Bad == {u \in SUBSET S : ~ \E g : Table(g, f, u)}
<1>1. SUFFICES ASSUME Bad # {} PROVE FALSE
  OBVIOUS
<1>2. PICK u \in Bad : \A v \in SUBSET u : v # u => v \notin Bad
  <2>1. Bad \in SUBSET (SUBSET S)
    OBVIOUS
  <2> HIDE DEF Bad
  <2>2. QED
    BY <1>1, <2>1, LeastBad
<1>3. \A v \in SUBSET u : IsFiniteSet(v)
  BY FS_Subset
<1>4. \A v \in SUBSET u : v # u => Table(Tab(v), f, v)
  BY <1>2
<1> DEFINE g == [s \in SUBSET u |-> IF s = {} THEN 0
                   ELSE f[Pick(s)] + Tab(s \ {Pick(s)})[s \ {Pick(s)}]]
<1> HIDE DEF Tab
<1>5. ASSUME NEW v \in SUBSET u, v # u PROVE g[v] = Tab(v)[v]
  <2>1. Table(Tab(v), f, v) /\ v \in SUBSET v
    BY <1>4, <1>5
  <2>2. CASE v = {}
    BY <2>1, <2>2, TableStep
  <2>3. CASE v # {}
    <3> DEFINE w == v \ {Pick(v)}
    <3>1. w \in SUBSET v /\ w \in SUBSET u /\ w # u
      BY <2>3, PickIn
    <3>2. Table(Tab(w), f, w)
      BY <1>4, <3>1
    <3>3. Tab(v)[w] = Tab(w)[w]
      BY <1>3, <2>1, <3>1, <3>2, TableUnique
    <3>4. Tab(v)[v] = f[Pick(v)] + Tab(v)[w]
      BY <2>1, <2>3, TableStep
    <3>5. QED
      BY <2>3, <3>3, <3>4
  <2>4. QED
    BY <2>2, <2>3
<1>6. Table(g, f, u)
  <2>1. ASSUME NEW s \in SUBSET u, s # {}
        PROVE  Tab(s \ {Pick(s)})[s \ {Pick(s)}] = g[s \ {Pick(s)}]
    <3>1. s \ {Pick(s)} \in SUBSET u /\ s \ {Pick(s)} # u
      BY <2>1, PickIn
    <3> HIDE DEF g
    <3>2. QED
      BY <1>5, <3>1
  <2>2. g = [s \in SUBSET u |-> IF s = {} THEN 0 ELSE f[Pick(s)] + g[s \ {Pick(s)}]]
    BY <2>1
  <2>3. QED
    BY <2>2 DEF Table
<1>7. QED
  BY <1>6

\* Any table that reaches S has its sum.
LEMMA SumTable ==
    ASSUME NEW f, NEW S, IsFiniteSet(S), NEW g, NEW T, Table(g, f, T), S \subseteq T,
           IsFiniteSet(T)
    PROVE  SumFunctionOnSet(f, S) = g[S]
<1> DEFINE h == CHOOSE q : Table(q, f, S)
<1>1. Table(h, f, S)
  BY TableExists
<1>2. SumFunctionOnSet(f, S) = h[S]
  BY SumUnfold
<1> HIDE DEF h
<1>3. QED
  BY <1>1, <1>2, TableUnique

-----------------------------------------------------------------------------
(* Sums. *)

\* The empty sum.
LEMMA SumEmpty == ASSUME NEW f PROVE SumFunctionOnSet(f, {}) = 0
<1>1. IsFiniteSet({})
  BY FS_EmptySet
<1>2. PICK g : Table(g, f, {})
  BY <1>1, TableExists
<1>3. g[{}] = 0
  BY <1>2, TableStep
<1>4. QED
  BY <1>1, <1>2, <1>3, SumTable

\* The sum by the element the fold takes.
LEMMA SumPick ==
    ASSUME NEW f, NEW S, IsFiniteSet(S), S # {}
    PROVE  SumFunctionOnSet(f, S) = f[Pick(S)] + SumFunctionOnSet(f, S \ {Pick(S)})
<1>1. PICK g : Table(g, f, S)
  BY TableExists
<1>2. IsFiniteSet(S \ {Pick(S)}) /\ S \ {Pick(S)} \subseteq S
  BY FS_Subset
<1>3. SumFunctionOnSet(f, S) = g[S] /\ SumFunctionOnSet(f, S \ {Pick(S)}) = g[S \ {Pick(S)}]
  BY <1>1, <1>2, SumTable
<1>4. QED
  BY <1>1, <1>3, TableStep

\* A sum of integers is one.
LEMMA SumInt ==
    ASSUME NEW f, NEW S, IsFiniteSet(S), \A x \in S : f[x] \in Int
    PROVE  SumFunctionOnSet(f, S) \in Int
<1> DEFINE Bad == {u \in SUBSET S : SumFunctionOnSet(f, u) \notin Int}
<1>1. SUFFICES ASSUME Bad # {} PROVE FALSE
  OBVIOUS
<1>2. PICK u \in Bad : \A v \in SUBSET u : v # u => v \notin Bad
  <2>1. Bad \in SUBSET (SUBSET S)
    OBVIOUS
  <2> HIDE DEF Bad
  <2>2. QED
    BY <1>1, <2>1, LeastBad
<1>3. IsFiniteSet(u) /\ u \in SUBSET S
  BY FS_Subset
<1>4. CASE u = {}
  BY <1>4, SumEmpty
<1>5. CASE u # {}
  <2>1. Pick(u) \in u
    BY <1>5, PickIn
  <2>2. SumFunctionOnSet(f, u \ {Pick(u)}) \in Int /\ f[Pick(u)] \in Int
    BY <1>2, <1>3, <2>1
  <2>3. QED
    BY <1>3, <1>5, <2>2, SumPick
<1>6. QED
  BY <1>4, <1>5

\* The order of summation does not matter.
LEMMA SumRemove ==
    ASSUME NEW f, NEW S, IsFiniteSet(S), \A x \in S : f[x] \in Int, NEW a \in S
    PROVE  SumFunctionOnSet(f, S) = f[a] + SumFunctionOnSet(f, S \ {a})
<1> DEFINE Sum(u) == SumFunctionOnSet(f, u)
           Bad == {u \in SUBSET S : \E x \in u : Sum(u) # f[x] + Sum(u \ {x})}
<1> HIDE DEF Sum
<1>1. SUFFICES ASSUME Bad # {} PROVE FALSE
  BY DEF Sum
<1>2. PICK u \in Bad : \A v \in SUBSET u : v # u => v \notin Bad
  <2>1. Bad \in SUBSET (SUBSET S)
    OBVIOUS
  <2> HIDE DEF Bad
  <2>2. QED
    BY <1>1, <2>1, LeastBad
<1>3. \A v \in SUBSET S : IsFiniteSet(v) /\ Sum(v) \in Int
  BY FS_Subset, SumInt DEF Sum
<1>4. PICK x \in u : Sum(u) # f[x] + Sum(u \ {x})
  OBVIOUS
<1> DEFINE p == Pick(u)
<1>5. p \in u /\ u \in SUBSET S /\ f[p] \in Int /\ f[x] \in Int
  BY PickIn
<1>6. Sum(u) = f[p] + Sum(u \ {p})
  BY <1>3, <1>5, SumPick DEF Sum
<1> HIDE DEF p
<1>7. p # x
  BY <1>4, <1>6
<1>8. Sum(u \ {p}) = f[x] + Sum((u \ {p}) \ {x})
  BY <1>2, <1>5, <1>7
<1>9. Sum(u \ {x}) = f[p] + Sum((u \ {x}) \ {p})
  BY <1>2, <1>5, <1>7
<1>10. (u \ {p}) \ {x} = (u \ {x}) \ {p} /\ (u \ {p}) \ {x} \in SUBSET S
  BY <1>5
<1>11. ASSUME NEW n, n = Sum((u \ {p}) \ {x}), n \in Int PROVE FALSE
  <2>1. Sum(u \ {p}) = f[x] + n /\ Sum(u \ {x}) = f[p] + n
    BY <1>8, <1>9, <1>10, <1>11
  <2>2. Sum(u) = f[p] + (f[x] + n) /\ f[x] + Sum(u \ {x}) = f[x] + (f[p] + n)
    BY <1>6, <2>1
  <2>3. QED
    BY <1>4, <1>5, <1>11, <2>2
<1>12. QED
  BY <1>3, <1>10, <1>11

\* One element more.
LEMMA SumAdd ==
    ASSUME NEW f, NEW S, IsFiniteSet(S), NEW a, a \notin S,
           \A x \in S \cup {a} : f[x] \in Int
    PROVE  SumFunctionOnSet(f, S \cup {a}) = f[a] + SumFunctionOnSet(f, S)
<1>1. IsFiniteSet(S \cup {a}) /\ (S \cup {a}) \ {a} = S
  BY FS_AddElement
<1>2. QED
  BY <1>1, SumRemove

\* Sums compare pointwise.
LEMMA SumLe ==
    ASSUME NEW f, NEW g, NEW S, IsFiniteSet(S),
           \A x \in S : f[x] \in Int /\ g[x] \in Int /\ f[x] <= g[x]
    PROVE  SumFunctionOnSet(f, S) <= SumFunctionOnSet(g, S)
<1> DEFINE F(u) == SumFunctionOnSet(f, u)
           G(u) == SumFunctionOnSet(g, u)
           Bad == {u \in SUBSET S : ~(F(u) <= G(u))}
<1> HIDE DEF F, G
<1>1. SUFFICES ASSUME Bad # {} PROVE FALSE
  BY DEF F, G
<1>2. PICK u \in Bad : \A v \in SUBSET u : v # u => v \notin Bad
  <2>1. Bad \in SUBSET (SUBSET S)
    OBVIOUS
  <2> HIDE DEF Bad
  <2>2. QED
    BY <1>1, <2>1, LeastBad
<1>3. \A v \in SUBSET S : IsFiniteSet(v) /\ F(v) \in Int /\ G(v) \in Int
  BY FS_Subset, SumInt DEF F, G
<1>4. CASE u = {}
  BY <1>4, SumEmpty DEF F, G
<1>5. CASE u # {}
  <2> DEFINE p == Pick(u)
  <2>1. p \in u /\ u \in SUBSET S
    BY <1>5, PickIn
  <2>2. F(u) = f[p] + F(u \ {p}) /\ G(u) = g[p] + G(u \ {p})
    BY <1>3, <1>5, <2>1, SumPick DEF F, G
  <2> HIDE DEF p
  <2>3. F(u \ {p}) <= G(u \ {p})
    BY <1>2, <2>1
  <2>4. QED
    BY <1>2, <1>3, <2>1, <2>2, <2>3
<1>6. QED
  BY <1>4, <1>5

\* Only the values on S matter.
LEMMA SumSame ==
    ASSUME NEW f, NEW g, NEW S, IsFiniteSet(S),
           \A x \in S : f[x] \in Int /\ g[x] = f[x]
    PROVE  SumFunctionOnSet(g, S) = SumFunctionOnSet(f, S)
<1>1. SumFunctionOnSet(f, S) <= SumFunctionOnSet(g, S)
  BY SumLe
<1>2. SumFunctionOnSet(g, S) <= SumFunctionOnSet(f, S)
  BY SumLe
<1>3. SumFunctionOnSet(g, S) \in Int /\ SumFunctionOnSet(f, S) \in Int
  BY SumInt
<1>4. QED
  BY <1>1, <1>2, <1>3

\* A sum of natural numbers is one.
LEMMA SumNat ==
    ASSUME NEW f, NEW S, IsFiniteSet(S), \A x \in S : f[x] \in Nat
    PROVE  SumFunctionOnSet(f, S) \in Nat
<1> DEFINE Bad == {u \in SUBSET S : SumFunctionOnSet(f, u) \notin Nat}
<1>1. SUFFICES ASSUME Bad # {} PROVE FALSE
  OBVIOUS
<1>2. PICK u \in Bad : \A v \in SUBSET u : v # u => v \notin Bad
  <2>1. Bad \in SUBSET (SUBSET S)
    OBVIOUS
  <2> HIDE DEF Bad
  <2>2. QED
    BY <1>1, <2>1, LeastBad
<1>3. IsFiniteSet(u) /\ u \in SUBSET S
  BY FS_Subset
<1>4. CASE u = {}
  BY <1>4, SumEmpty
<1>5. CASE u # {}
  <2>1. Pick(u) \in u
    BY <1>5, PickIn
  <2>2. SumFunctionOnSet(f, u \ {Pick(u)}) \in Nat /\ f[Pick(u)] \in Nat
    BY <1>2, <1>3, <2>1
  <2>3. QED
    BY <1>3, <1>5, <2>2, SumPick
<1>6. QED
  BY <1>4, <1>5

\* The sum of a pointwise sum.
LEMMA SumPlus ==
    ASSUME NEW f, NEW g, NEW h, NEW S, IsFiniteSet(S),
           \A x \in S : f[x] \in Int /\ g[x] \in Int /\ h[x] = f[x] + g[x]
    PROVE  SumFunctionOnSet(h, S) = SumFunctionOnSet(f, S) + SumFunctionOnSet(g, S)
<1> DEFINE F(u) == SumFunctionOnSet(f, u)
           G(u) == SumFunctionOnSet(g, u)
           H(u) == SumFunctionOnSet(h, u)
           Bad == {u \in SUBSET S : H(u) # F(u) + G(u)}
<1> HIDE DEF F, G, H
<1>1. SUFFICES ASSUME Bad # {} PROVE FALSE
  BY DEF F, G, H
<1>2. PICK u \in Bad : \A v \in SUBSET u : v # u => v \notin Bad
  <2>1. Bad \in SUBSET (SUBSET S)
    OBVIOUS
  <2> HIDE DEF Bad
  <2>2. QED
    BY <1>1, <2>1, LeastBad
<1>3. \A v \in SUBSET S : IsFiniteSet(v) /\ F(v) \in Int /\ G(v) \in Int
  BY FS_Subset, SumInt DEF F, G
<1>4. CASE u = {}
  BY <1>4, SumEmpty DEF F, G, H
<1>5. CASE u # {}
  <2> DEFINE p == Pick(u)
  <2>1. p \in u /\ u \in SUBSET S
    BY <1>5, PickIn
  <2>2. F(u) = f[p] + F(u \ {p}) /\ G(u) = g[p] + G(u \ {p}) /\ H(u) = h[p] + H(u \ {p})
    BY <1>3, <1>5, <2>1, SumPick DEF F, G, H
  <2> HIDE DEF p
  <2>3. H(u \ {p}) = F(u \ {p}) + G(u \ {p})
    BY <1>2, <2>1
  <2>4. F(u \ {p}) \in Int /\ G(u \ {p}) \in Int
    BY <1>3, <2>1
  <2>5. QED
    BY <1>2, <2>1, <2>2, <2>3, <2>4
<1>6. QED
  BY <1>4, <1>5

\* A sum over a part is a sum over the whole with zeros outside.
LEMMA SumPart ==
    ASSUME NEW f, NEW h, NEW A, IsFiniteSet(A), NEW S \in SUBSET A,
           \A x \in S : f[x] \in Int,
           \A x \in A : h[x] = IF x \in S THEN f[x] ELSE 0
    PROVE  SumFunctionOnSet(f, S) = SumFunctionOnSet(h, A)
<1> DEFINE F(u) == SumFunctionOnSet(f, u)
           H(u) == SumFunctionOnSet(h, u)
           Bad == {u \in SUBSET A : F(u \cap S) # H(u)}
<1> HIDE DEF F, H
<1>0. A \cap S = S
  OBVIOUS
<1>1. SUFFICES ASSUME Bad # {} PROVE FALSE
  BY <1>0 DEF F, H
<1>2. PICK u \in Bad : \A v \in SUBSET u : v # u => v \notin Bad
  <2>1. Bad \in SUBSET (SUBSET A)
    OBVIOUS
  <2> HIDE DEF Bad
  <2>2. QED
    BY <1>1, <2>1, LeastBad
<1>3. IsFiniteSet(u) /\ IsFiniteSet(u \cap S) /\ u \in SUBSET A
  <2>1. u \cap S \in SUBSET A
    OBVIOUS
  <2>2. QED
    BY <2>1, FS_Subset
<1>4. CASE u = {}
  <2>1. u \cap S = {}
    BY <1>4
  <2>2. QED
    BY <1>4, <2>1, SumEmpty DEF F, H
<1>5. CASE u # {}
  <2> DEFINE p == Pick(u)
             v == u \ {p}
  <2>1. p \in u
    BY <1>5, PickIn
  <2>2. H(u) = h[p] + H(v)
    BY <1>3, <1>5, SumPick DEF H
  <2> HIDE DEF p
  <2>3. F(v \cap S) = H(v) /\ v \in SUBSET A
    BY <1>2, <2>1
  <2>4. CASE p \in S
    <3>1. (u \cap S) \ {p} = v \cap S /\ p \in u \cap S /\ h[p] = f[p]
      BY <2>1, <2>4
    <3>2. F(u \cap S) = f[p] + F((u \cap S) \ {p})
      BY <1>3, <3>1, SumRemove DEF F
    <3>3. F(u \cap S) = h[p] + H(v)
      BY <2>3, <3>1, <3>2
    <3>4. QED
      BY <2>2, <3>3
  <2>5. CASE p \notin S
    <3>1. u \cap S = v \cap S /\ h[p] = 0
      BY <2>1, <2>5
    <3>2. H(v) \in Int
      <4>1. IsFiniteSet(v) /\ \A x \in v : h[x] \in Int
        BY <1>3, <2>3, FS_Subset
      <4>2. QED
        BY <4>1, SumInt DEF H
    <3>3. F(u \cap S) = H(v)
      BY <2>3, <3>1
    <3>4. QED
      BY <2>2, <3>1, <3>2, <3>3
  <2>6. QED
    BY <2>4, <2>5
<1>6. QED
  BY <1>4, <1>5

\* One value changes.
LEMMA SumChange ==
    ASSUME NEW f, NEW g, NEW S, IsFiniteSet(S), NEW a \in S,
           \A x \in S : f[x] \in Int /\ g[x] \in Int,
           \A x \in S : x # a => g[x] = f[x]
    PROVE  SumFunctionOnSet(g, S) = SumFunctionOnSet(f, S) - f[a] + g[a]
<1>1. IsFiniteSet(S \ {a})
  BY FS_Subset
<1>2. SumFunctionOnSet(g, S \ {a}) = SumFunctionOnSet(f, S \ {a})
  BY <1>1, SumSame
<1>3. /\ SumFunctionOnSet(f, S) = f[a] + SumFunctionOnSet(f, S \ {a})
      /\ SumFunctionOnSet(g, S) = g[a] + SumFunctionOnSet(g, S \ {a})
  BY SumRemove
<1>4. SumFunctionOnSet(f, S \ {a}) \in Int
  BY <1>1, SumInt
<1>5. f[a] \in Int /\ g[a] \in Int
  OBVIOUS
<1> DEFINE n == SumFunctionOnSet(f, S \ {a})
<1>6. SumFunctionOnSet(f, S) = f[a] + n /\ SumFunctionOnSet(g, S) = g[a] + n
  BY <1>2, <1>3
<1> HIDE DEF n
<1>7. n \in Int
  BY <1>4 DEF n
<1>8. QED
  BY <1>5, <1>6, <1>7


\* A sum of zeros.
LEMMA SumZero ==
    ASSUME NEW f, NEW S, IsFiniteSet(S), \A x \in S : f[x] = 0
    PROVE  SumFunctionOnSet(f, S) = 0
<1>1. {} \in SUBSET S /\ SumFunctionOnSet(f, {}) = 0
  BY SumEmpty
<1>2. SumFunctionOnSet(f, {}) = SumFunctionOnSet(f, S)
  BY <1>1, SumPart
<1>3. QED
  BY <1>1, <1>2
=============================================================================
