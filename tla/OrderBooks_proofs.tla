------------------------- MODULE OrderBooks_proofs --------------------------
(***************************************************************************)
(* Proofs about module OrderBooks, for any books and amounts, and the      *)
(* lemmas about sums and folds that they and other proofs rest on.         *)
(*                                                                         *)
(*   - Walking an order book fills what the book holds, at the lowest cost *)
(*     (SumOnIsTotal to WalksAreMarket), and what an amount of money buys  *)
(*     is what the market sells for it (BuysAt to SpendBuys).              *)
(*   - However a sale goes, it brings no more than its quantity at the     *)
(*     first bid (SalesBringAtMost).                                       *)
(*                                                                         *)
(* The walks are folds over sequences and over sets of offers; that a fold *)
(* exists index by index, and a sum element by element, is shown first.    *)
(***************************************************************************)
EXTENDS OrderBooks, FiniteSetTheorems, WellFoundedInduction, TLAPS

\* The product of two natural numbers is a natural number.
LEMMA ProductIsNat ==
    ASSUME NEW m \in Nat, NEW n \in Nat
    PROVE  m * n \in Nat
BY SMT

-----------------------------------------------------------------------------
(***************************************************************************)
(* Sums over finite sets.  MapThenSumSet is a fold, whose table of partial *)
(* sums is a recursive function over the subsets of the set; that there is *)
(* one, that it is unique and that the order of the summands does not      *)
(* matter are shown on a smallest subset for which they would fail.        *)
(***************************************************************************)
\* A set of subsets of a finite set has a minimal member: this is how a fact is
\* shown for every finite set, by looking at a smallest one it fails for.
LEMMA MinimalSubset ==
    ASSUME NEW S, IsFiniteSet(S), NEW F \in SUBSET SUBSET S, F # {}
    PROVE  \E x \in F : \A y \in F : y \subseteq x => y = x
<1>1. IsWellFoundedOn(StrictSubsetOrdering(S), FiniteSubsetsOf(S))
  BY FS_StrictSubsetOrderingWellFounded
<1>2. F \subseteq FiniteSubsetsOf(S)
  BY FS_FiniteSubsetsOfFinite
<1>3. \E x \in F : \A y \in F : ~(<<y, x>> \in StrictSubsetOrdering(S))
  BY <1>1, <1>2, WFMin
<1> QED
  BY <1>3 DEF StrictSubsetOrdering

\* The element of s that the fold takes first.
One(s) == CHOOSE x \in s : TRUE

\* it is the table of the sums of g over the subsets of S, as the fold of
\* MapThenSumSet computes them.
Adds(g, S, it) ==
    it = [s \in SUBSET S |-> IF s = {} THEN 0 ELSE g[One(s)] + it[s \ {One(s)}]]

\* The element that the fold takes first is one of the set.
LEMMA OneOf ==
    ASSUME NEW s, s # {}
    PROVE  One(s) \in s /\ s \ {One(s)} \subseteq s /\ s \ {One(s)} # s
BY DEF One

\* The table at a subset.
LEMMA AddsAt ==
    ASSUME NEW g, NEW S, NEW it, Adds(g, S, it), NEW u \in SUBSET S
    PROVE  /\ u = {} => it[u] = 0
           /\ u # {} => it[u] = g[One(u)] + it[u \ {One(u)}]
BY DEF Adds

\* Two tables agree on the subsets they share.
LEMMA AddsUnique ==
    ASSUME NEW g, NEW S, NEW T, NEW it, NEW jt, IsFiniteSet(S),
           Adds(g, S, it), Adds(g, T, jt), NEW u \in SUBSET (S \cap T)
    PROVE  it[u] = jt[u]
<1> DEFINE F == {s \in SUBSET (S \cap T) : it[s] # jt[s]}
<1>1. SUFFICES ASSUME F # {} PROVE FALSE
  BY <1>1
<1>2. F \in SUBSET SUBSET S
  OBVIOUS
<1>3. PICK s \in F : \A y \in F : y \subseteq s => y = s
  <2> HIDE DEF F
  <2> QED
    BY <1>1, <1>2, MinimalSubset
<1>4. s \in SUBSET S /\ s \in SUBSET T /\ it[s] # jt[s]
  OBVIOUS
<1>5. s # {}
  BY <1>4, AddsAt
<1>6. s \ {One(s)} \notin F
  BY <1>3, <1>5, OneOf
<1>7. it[s \ {One(s)}] = jt[s \ {One(s)}]
  BY <1>4, <1>6
<1>8. it[s] = g[One(s)] + it[s \ {One(s)}]
  BY <1>4, <1>5, AddsAt
<1>9. jt[s] = g[One(s)] + jt[s \ {One(s)}]
  BY <1>4, <1>5, AddsAt
<1> QED
  BY <1>4, <1>7, <1>8, <1>9

\* The sum of g over a finite set S.
Total(g, S) == (CHOOSE it : Adds(g, S, it))[S]

\* Any table holds the totals of all the subsets it covers.
LEMMA TotalIsAdded ==
    ASSUME NEW g, NEW S, NEW it, IsFiniteSet(S), Adds(g, S, it), NEW u \in SUBSET S
    PROVE  it[u] = Total(g, u)
<1> DEFINE jt == [s \in SUBSET u |-> it[s]]
<1>1. Adds(g, u, jt)
  <2>1. ASSUME NEW s \in SUBSET u
        PROVE  jt[s] = IF s = {} THEN 0 ELSE g[One(s)] + jt[s \ {One(s)}]
    <3>1. s \in SUBSET S
      OBVIOUS
    <3>2. s \ {One(s)} \in SUBSET u
      OBVIOUS
    <3> QED
      BY <3>1, <3>2, AddsAt
  <2> QED
    BY <2>1 DEF Adds
<1>2. Adds(g, u, CHOOSE kt : Adds(g, u, kt))
  <2> HIDE DEF jt
  <2> QED
    BY <1>1
<1>3. IsFiniteSet(u) /\ u \in SUBSET (S \cap u)
  BY FS_Subset
<1> QED
  BY <1>2, <1>3, AddsUnique DEF Total

\* A finite set has a table of sums.
LEMMA AddsExists ==
    ASSUME NEW g, NEW S, IsFiniteSet(S)
    PROVE  \E it : Adds(g, S, it)
<1> DEFINE F == {s \in SUBSET S : ~ \E it : Adds(g, s, it)}
<1>1. SUFFICES ASSUME F # {} PROVE FALSE
  BY <1>1
<1>2. F \in SUBSET SUBSET S
  OBVIOUS
<1>3. PICK s \in F : \A y \in F : y \subseteq s => y = s
  <2> HIDE DEF F
  <2> QED
    BY <1>1, <1>2, MinimalSubset
<1> DEFINE kt == [u \in SUBSET s |-> IF u = {} THEN 0 ELSE g[One(u)] + Total(g, u \ {One(u)})]
<1>4. ASSUME NEW u \in SUBSET s, u # s
      PROVE  kt[u] = Total(g, u)
  <2>1. PICK it : Adds(g, u, it)
    BY <1>3, <1>4, u \notin F
  <2>2. IsFiniteSet(u)
    BY FS_Subset
  <2>3. it[u] = Total(g, u) /\ it[u \ {One(u)}] = Total(g, u \ {One(u)})
    <3>1. u \ {One(u)} \in SUBSET u /\ u \in SUBSET u
      OBVIOUS
    <3> QED
      BY <2>1, <2>2, <3>1, TotalIsAdded
  <2> QED
    BY <2>1, <2>3, AddsAt
<1>5. Adds(g, s, kt)
  <2>1. ASSUME NEW u \in SUBSET s, u # {}
        PROVE  Total(g, u \ {One(u)}) = kt[u \ {One(u)}]
    <3>1. u \ {One(u)} \in SUBSET s /\ u \ {One(u)} # s
      BY <2>1, OneOf
    <3> HIDE DEF kt
    <3> QED
      BY <3>1, <1>4
  <2>2. kt = [u \in SUBSET s |-> IF u = {} THEN 0 ELSE g[One(u)] + kt[u \ {One(u)}]]
    BY <2>1
  <2> QED
    BY <2>2 DEF Adds
<1> QED
  <2> HIDE DEF kt
  <2> QED
    BY <1>3, <1>5

\* The total in terms of the element that is taken first.
LEMMA TotalAt ==
    ASSUME NEW g, NEW S, IsFiniteSet(S)
    PROVE  /\ S = {} => Total(g, S) = 0
           /\ S # {} => Total(g, S) = g[One(S)] + Total(g, S \ {One(S)})
<1>1. PICK it : Adds(g, S, it)
  BY AddsExists
<1>2. it[S] = Total(g, S) /\ it[S \ {One(S)}] = Total(g, S \ {One(S)})
  <2>1. S \ {One(S)} \in SUBSET S /\ S \in SUBSET S
    OBVIOUS
  <2> QED
    BY <1>1, <2>1, TotalIsAdded
<1> QED
  BY <1>1, <1>2, AddsAt

\* The total of integers is an integer.
LEMMA TotalIsInt ==
    ASSUME NEW g, NEW S, IsFiniteSet(S), \A x \in S : g[x] \in Int
    PROVE  Total(g, S) \in Int
<1> DEFINE F == {s \in SUBSET S : Total(g, s) \notin Int}
<1>1. SUFFICES ASSUME F # {} PROVE FALSE
  BY <1>1
<1>2. F \in SUBSET SUBSET S
  OBVIOUS
<1>3. PICK s \in F : \A y \in F : y \subseteq s => y = s
  <2> HIDE DEF F
  <2> QED
    BY <1>1, <1>2, MinimalSubset
<1>4. s \in SUBSET S /\ IsFiniteSet(s) /\ Total(g, s) \notin Int
  BY FS_Subset
<1>5. s # {}
  BY <1>4, TotalAt
<1>6. g[One(s)] \in Int /\ Total(g, s \ {One(s)}) \in Int
  BY <1>3, <1>4, <1>5, OneOf
<1>7. Total(g, s) = g[One(s)] + Total(g, s \ {One(s)})
  BY <1>4, <1>5, TotalAt
<1> QED
  BY <1>4, <1>6, <1>7

\* Any element may be taken out first: the order of the fold does not matter.
LEMMA TotalWithout ==
    ASSUME NEW g, NEW S, IsFiniteSet(S), \A x \in S : g[x] \in Int, NEW a \in S
    PROVE  Total(g, S) = g[a] + Total(g, S \ {a})
<1> DEFINE F == {s \in SUBSET S : \E x \in s : Total(g, s) # g[x] + Total(g, s \ {x})}
<1>1. SUFFICES ASSUME F # {} PROVE FALSE
  BY <1>1
<1>2. F \in SUBSET SUBSET S
  OBVIOUS
<1>3. PICK s \in F : \A y \in F : y \subseteq s => y = s
  <2> HIDE DEF F
  <2> QED
    BY <1>1, <1>2, MinimalSubset
<1>4. s \in SUBSET S /\ IsFiniteSet(s)
  BY FS_Subset
<1>5. PICK x \in s : Total(g, s) # g[x] + Total(g, s \ {x})
  OBVIOUS
<1> DEFINE c == One(s)
<1>6. c \in s
  BY <1>5, OneOf
<1>7. Total(g, s) = g[c] + Total(g, s \ {c})
  BY <1>4, <1>5, TotalAt
<1>8. x # c
  BY <1>5, <1>7
<1>9. Total(g, s \ {c}) = g[x] + Total(g, (s \ {c}) \ {x})
  <2>1. s \ {c} \notin F
    BY <1>3, <1>6
  <2> HIDE DEF c
  <2> QED
    BY <2>1, <1>4, <1>5, <1>8
<1>10. Total(g, s \ {x}) = g[c] + Total(g, (s \ {x}) \ {c})
  <2>1. s \ {x} \notin F
    BY <1>3, <1>5
  <2> HIDE DEF c
  <2> QED
    BY <2>1, <1>4, <1>5, <1>6, <1>8
<1>11. (s \ {c}) \ {x} = (s \ {x}) \ {c}
  OBVIOUS
<1>12. /\ g[x] \in Int /\ g[c] \in Int
       /\ Total(g, (s \ {x}) \ {c}) \in Int
  <2>1. IsFiniteSet((s \ {x}) \ {c}) /\ \A y \in (s \ {x}) \ {c} : g[y] \in Int
    BY <1>4, FS_Subset
  <2> QED
    BY <1>4, <1>5, <1>6, <2>1, TotalIsInt
<1>13. Total(g, s) = g[c] + (g[x] + Total(g, (s \ {x}) \ {c}))
  BY <1>7, <1>9, <1>11
<1>14. g[x] + Total(g, s \ {x}) = g[x] + (g[c] + Total(g, (s \ {x}) \ {c}))
  BY <1>10
<1>15. \A i, j, k \in Int : i + (j + k) = j + (i + k)
  OBVIOUS
<1> HIDE DEF c, F
<1>16. g[c] + (g[x] + Total(g, (s \ {x}) \ {c})) = g[x] + (g[c] + Total(g, (s \ {x}) \ {c}))
  BY <1>12, <1>15
<1> QED
  BY <1>5, <1>13, <1>14, <1>16

\* The total depends only on the summands of the set.
LEMMA TotalSame ==
    ASSUME NEW g, NEW h, NEW S, IsFiniteSet(S), \A x \in S : g[x] = h[x]
    PROVE  Total(g, S) = Total(h, S)
<1>1. PICK it : Adds(g, S, it)
  BY AddsExists
<1>2. ASSUME NEW s \in SUBSET S, s # {} PROVE g[One(s)] = h[One(s)]
  BY <1>2, OneOf
<1>3. Adds(h, S, it)
  BY <1>1, <1>2 DEF Adds
<1> QED
  BY <1>1, <1>3, TotalIsAdded, S \in SUBSET S

\* Adding an element adds its summand.
LEMMA TotalWith ==
    ASSUME NEW g, NEW h, NEW S, IsFiniteSet(S), \A x \in S : g[x] \in Int /\ h[x] = g[x],
           NEW a, a \notin S, h[a] \in Int
    PROVE  Total(h, S \cup {a}) = h[a] + Total(g, S)
<1>1. IsFiniteSet(S \cup {a})
  BY FS_AddElement
<1>2. \A x \in S \cup {a} : h[x] \in Int
  OBVIOUS
<1>3. Total(h, S \cup {a}) = h[a] + Total(h, (S \cup {a}) \ {a})
  BY <1>1, <1>2, TotalWithout
<1>4. (S \cup {a}) \ {a} = S
  OBVIOUS
<1> QED
  BY <1>3, <1>4, TotalSame

-----------------------------------------------------------------------------
(***************************************************************************)
(* Rules for totals.  Each is shown by adding one element after the other. *)
(***************************************************************************)
\* A set of subsets that holds the empty set, and every other one as soon as it holds
\* that without its first element, holds them all.
LEMMA ElementByElement ==
    ASSUME NEW S, IsFiniteSet(S), NEW G, {} \in G,
           \A s \in SUBSET S : (s # {} /\ s \ {One(s)} \in G) => s \in G
    PROVE  S \in G
<1> DEFINE F == (SUBSET S) \ G
<1>1. SUFFICES ASSUME F # {} PROVE FALSE
  BY <1>1
<1>2. F \in SUBSET SUBSET S
  OBVIOUS
<1>3. PICK s \in F : \A y \in F : y \subseteq s => y = s
  <2> HIDE DEF F
  <2> QED
    BY <1>1, <1>2, MinimalSubset
<1>4. s \in SUBSET S /\ s # {}
  OBVIOUS
<1>5. s \ {One(s)} \notin F
  BY <1>3, <1>4, OneOf
<1>6. s \ {One(s)} \in SUBSET S
  BY <1>4
<1> QED
  BY <1>3, <1>4, <1>5, <1>6

\* A sum that is written with the fold is a total.
LEMMA SumIsTotal ==
    ASSUME NEW f, IsFiniteSet(DOMAIN f)
    PROVE  SumFunction(f) = Total(f, DOMAIN f)
<1> DEFINE S == DOMAIN f
           Eq(it) == it = [s \in SUBSET S |-> IF s = {} THEN 0
                             ELSE f[CHOOSE x \in s : TRUE] + it[s \ {CHOOSE x \in s : TRUE}]]
<1>1. ASSUME NEW it PROVE Eq(it) <=> Adds(f, S, it)
  BY DEF Adds, One
<1>2. \E it : Eq(it)
  <2> HIDE DEF Eq
  <2> QED
    BY <1>1, AddsExists
<1>3. \E it : Eq(it) /\ SumFunction(f) = it[S]
  BY <1>2 DEF SumFunction, SumFunctionOnSet, FoldFunctionOnSet, MapThenFoldSet
<1> HIDE DEF Eq
<1> QED
  BY <1>1, <1>3, TotalIsAdded, S \in SUBSET S

\* The facts that a step of such a proof needs.
LEMMA TotalStep ==
    ASSUME NEW g, NEW S, IsFiniteSet(S), \A x \in S : g[x] \in Int,
           NEW s \in SUBSET S
    PROVE  /\ Total(g, s) \in Int
           /\ s = {} => Total(g, s) = 0
           /\ s # {} => /\ One(s) \in S /\ g[One(s)] \in Int
                        /\ Total(g, s \ {One(s)}) \in Int
                        /\ Total(g, s) = g[One(s)] + Total(g, s \ {One(s)})
<1>1. IsFiniteSet(s) /\ \A x \in s : g[x] \in Int
  BY FS_Subset
<1>2. s # {} => One(s) \in S /\ IsFiniteSet(s \ {One(s)})
  BY <1>1, OneOf, FS_Subset
<1>3. \A x \in s \ {One(s)} : g[x] \in Int
  BY <1>1
<1> QED
  BY <1>1, <1>2, <1>3, TotalAt, TotalIsInt

\* The total of sums.
LEMMA TotalPlus ==
    ASSUME NEW g, NEW h, NEW k, NEW S, IsFiniteSet(S),
           \A x \in S : g[x] \in Int /\ h[x] \in Int /\ k[x] = g[x] + h[x]
    PROVE  Total(k, S) = Total(g, S) + Total(h, S)
<1> DEFINE G == {s \in SUBSET S : Total(k, s) = Total(g, s) + Total(h, s)}
<1>1. /\ \A x \in S : g[x] \in Int
      /\ \A x \in S : h[x] \in Int
      /\ \A x \in S : k[x] \in Int
  OBVIOUS
<1>2. {} \in G
  <2>1. Total(g, {}) = 0 /\ Total(h, {}) = 0 /\ Total(k, {}) = 0
    BY <1>1, TotalStep
  <2> QED
    BY <2>1
<1>3. ASSUME NEW s \in SUBSET S, s # {}, s \ {One(s)} \in G PROVE s \in G
  <2>1. /\ g[One(s)] \in Int /\ Total(g, s \ {One(s)}) \in Int /\ One(s) \in S
        /\ Total(g, s) = g[One(s)] + Total(g, s \ {One(s)})
    BY <1>1, <1>3, TotalStep
  <2>2. /\ h[One(s)] \in Int /\ Total(h, s \ {One(s)}) \in Int
        /\ Total(h, s) = h[One(s)] + Total(h, s \ {One(s)})
    BY <1>1, <1>3, TotalStep
  <2>3. Total(k, s) = k[One(s)] + Total(k, s \ {One(s)})
    BY <1>1, <1>3, TotalStep
  <2>4. k[One(s)] = g[One(s)] + h[One(s)]
    BY <2>1
  <2>5. Total(k, s \ {One(s)}) = Total(g, s \ {One(s)}) + Total(h, s \ {One(s)})
    BY <1>3
  <2> QED
    BY <2>1, <2>2, <2>3, <2>4, <2>5
<1>4. S \in G
  <2> HIDE DEF G
  <2> QED
    BY <1>2, <1>3, ElementByElement
<1> QED
  BY <1>4

\* The total of multiples.
LEMMA TotalTimes ==
    ASSUME NEW g, NEW c \in Int, NEW k, NEW S, IsFiniteSet(S),
           \A x \in S : g[x] \in Int /\ k[x] = c * g[x]
    PROVE  Total(k, S) = c * Total(g, S)
<1> DEFINE G == {s \in SUBSET S : Total(k, s) = c * Total(g, s)}
<1>1. \A x \in S : k[x] \in Int
  OBVIOUS
<1>2. {} \in G
  <2>1. Total(g, {}) = 0 /\ Total(k, {}) = 0
    BY <1>1, TotalStep
  <2> QED
    BY <2>1
<1>3. ASSUME NEW s \in SUBSET S, s # {}, s \ {One(s)} \in G PROVE s \in G
  <2>1. /\ g[One(s)] \in Int /\ Total(g, s \ {One(s)}) \in Int /\ One(s) \in S
        /\ Total(g, s) = g[One(s)] + Total(g, s \ {One(s)})
    BY <1>3, TotalStep
  <2>2. Total(k, s) = k[One(s)] + Total(k, s \ {One(s)})
    BY <1>1, <1>3, TotalStep
  <2>3. k[One(s)] = c * g[One(s)]
    BY <2>1
  <2>4. Total(k, s \ {One(s)}) = c * Total(g, s \ {One(s)})
    BY <1>3
  <2>5. \A m, n \in Int : c * m + c * n = c * (m + n)
    OBVIOUS
  <2> QED
    BY <2>1, <2>2, <2>3, <2>4, <2>5
<1>4. S \in G
  <2> HIDE DEF G
  <2> QED
    BY <1>2, <1>3, ElementByElement
<1> QED
  BY <1>4

\* The total of smaller summands is not greater.
LEMMA TotalAtMost ==
    ASSUME NEW g, NEW h, NEW S, IsFiniteSet(S),
           \A x \in S : g[x] \in Int /\ h[x] \in Int /\ g[x] <= h[x]
    PROVE  Total(g, S) <= Total(h, S)
<1> DEFINE G == {s \in SUBSET S : Total(g, s) <= Total(h, s)}
<1>1. {} \in G
  <2>1. Total(g, {}) = 0 /\ Total(h, {}) = 0
    BY TotalStep
  <2> QED
    BY <2>1
<1>2. ASSUME NEW s \in SUBSET S, s # {}, s \ {One(s)} \in G PROVE s \in G
  <2>1. /\ g[One(s)] \in Int /\ Total(g, s \ {One(s)}) \in Int /\ One(s) \in S
        /\ Total(g, s) = g[One(s)] + Total(g, s \ {One(s)})
    BY <1>2, TotalStep
  <2>2. /\ h[One(s)] \in Int /\ Total(h, s \ {One(s)}) \in Int
        /\ Total(h, s) = h[One(s)] + Total(h, s \ {One(s)})
    BY <1>2, TotalStep
  <2>3. g[One(s)] <= h[One(s)] /\ Total(g, s \ {One(s)}) <= Total(h, s \ {One(s)})
    BY <1>2, <2>1
  <2> QED
    BY <2>1, <2>2, <2>3
<1>3. S \in G
  <2> HIDE DEF G
  <2> QED
    BY <1>1, <1>2, ElementByElement
<1> QED
  BY <1>3

\* The total of natural numbers is one.
LEMMA TotalIsNat ==
    ASSUME NEW g, NEW S, IsFiniteSet(S), \A x \in S : g[x] \in Nat
    PROVE  Total(g, S) \in Nat
<1> DEFINE z == [x \in S |-> 0 * g[x]]
<1>1. Total(g, S) \in Int
  BY TotalIsInt
<1>2. Total(z, S) = 0 * Total(g, S)
  <2>1. \A x \in S : g[x] \in Int /\ z[x] = 0 * g[x]
    OBVIOUS
  <2> HIDE DEF z
  <2> QED
    BY <2>1, TotalTimes
<1>3. Total(z, S) <= Total(g, S)
  <2>1. \A x \in S : z[x] \in Int /\ g[x] \in Int /\ z[x] <= g[x]
    OBVIOUS
  <2> HIDE DEF z
  <2> QED
    BY <2>1, TotalAtMost
<1> QED
  BY <1>1, <1>2, <1>3

\* Summands that are 0 do not count.
LEMMA TotalSupport ==
    ASSUME NEW g, NEW S, IsFiniteSet(S), NEW T \in SUBSET S,
           \A x \in S : g[x] \in Int, \A x \in S \ T : g[x] = 0
    PROVE  Total(g, S) = Total(g, T)
<1> DEFINE G == {s \in SUBSET S : Total(g, s) = Total(g, s \cap T)}
<1>1. {} \in G
  <2>1. {} \cap T = {}
    OBVIOUS
  <2> QED
    BY <2>1
<1>2. ASSUME NEW s \in SUBSET S, s # {}, s \ {One(s)} \in G PROVE s \in G
  <2> DEFINE c == One(s)
  <2>1. /\ c \in S /\ c \in s /\ Total(g, s) = g[c] + Total(g, s \ {c})
        /\ Total(g, s \ {c}) \in Int
    BY <1>2, TotalStep, OneOf
  <2>2. Total(g, s \ {c}) = Total(g, (s \ {c}) \cap T)
    BY <1>2
  <2>3. CASE c \in T
    <3>1. IsFiniteSet(s \cap T) /\ \A x \in s \cap T : g[x] \in Int
      BY FS_Subset
    <3>2. Total(g, s \cap T) = g[c] + Total(g, (s \cap T) \ {c})
      BY <2>1, <2>3, <3>1, TotalWithout
    <3>3. (s \cap T) \ {c} = (s \ {c}) \cap T
      OBVIOUS
    <3> QED
      BY <2>1, <2>2, <3>2, <3>3
  <2>4. CASE c \notin T
    <3>1. g[c] = 0
      BY <2>1, <2>4
    <3>2. (s \ {c}) \cap T = s \cap T
      BY <2>4
    <3>3. Total(g, s \ {c}) = Total(g, s \cap T)
      BY <2>2, <3>2
    <3>4. Total(g, s) = Total(g, s \ {c})
      BY <2>1, <3>1
    <3> QED
      BY <3>3, <3>4
  <2> QED
    BY <2>3, <2>4
<1>3. S \in G
  <2> HIDE DEF G
  <2> QED
    BY <1>1, <1>2, ElementByElement
<1>4. S \cap T = T
  OBVIOUS
<1> QED
  BY <1>3, <1>4

\* The total of equal summands.
LEMMA TotalConstant ==
    ASSUME NEW c \in Int, NEW k, NEW S, IsFiniteSet(S), \A x \in S : k[x] = c
    PROVE  Total(k, S) = c * Cardinality(S)
<1> DEFINE G == {s \in SUBSET S : Total(k, s) = c * Cardinality(s)}
<1>1. \A x \in S : k[x] \in Int
  OBVIOUS
<1>2. {} \in G
  <2>1. Total(k, {}) = 0 /\ Cardinality({}) = 0
    BY <1>1, TotalStep, FS_EmptySet
  <2> QED
    BY <2>1
<1>3. ASSUME NEW s \in SUBSET S, s # {}, s \ {One(s)} \in G PROVE s \in G
  <2>1. /\ Total(k, s) = k[One(s)] + Total(k, s \ {One(s)})
        /\ One(s) \in S /\ One(s) \in s
    BY <1>1, <1>3, TotalStep, OneOf
  <2>2. IsFiniteSet(s) /\ Cardinality(s) \in Nat
    BY FS_Subset, FS_CardinalityType
  <2>3. Cardinality(s \ {One(s)}) = Cardinality(s) - 1
    BY <2>1, <2>2, FS_RemoveElement
  <2>4. k[One(s)] = c
    BY <2>1
  <2>5. Total(k, s \ {One(s)}) = c * (Cardinality(s) - 1)
    BY <1>3, <2>3
  <2>6. \A n \in Nat : c + c * (n - 1) = c * n
    OBVIOUS
  <2> QED
    BY <2>1, <2>2, <2>4, <2>5, <2>6
<1>4. S \in G
  <2> HIDE DEF G
  <2> QED
    BY <1>2, <1>3, ElementByElement
<1> QED
  BY <1>4

\* row and column hold the totals of the rows and of the columns of a table m.
AddUp(m, S, T, row, column) ==
    /\ \A x \in S, y \in T : m[x][y] \in Int
    /\ \A x \in S : row[x] = Total(m[x], T)
    /\ \A y \in T : column[y] = Total([x \in S |-> m[x][y]], S)

\* A table of two dimensions may be added up by rows or by columns.
LEMMA RowsAndColumns ==
    ASSUME NEW m, NEW S, NEW T, IsFiniteSet(S), IsFiniteSet(T),
           NEW row, NEW column, AddUp(m, S, T, row, column)
    PROVE  Total(row, S) = Total(column, T)
<1> USE DEF AddUp
<1> DEFINE col(s) == [y \in T |-> Total([x \in S |-> m[x][y]], s)]
           G == {s \in SUBSET S : Total(row, s) = Total(col(s), T)}
<1>1. \A x \in S : row[x] \in Int
  BY TotalIsInt
<1>2. ASSUME NEW s \in SUBSET S, NEW y \in T
      PROVE  /\ col(s)[y] \in Int
             /\ s = {} => col(s)[y] = 0
             /\ s # {} => /\ One(s) \in S
                          /\ m[One(s)][y] \in Int
                          /\ col(s)[y] = m[One(s)][y] + col(s \ {One(s)})[y]
  <2> DEFINE g == [x \in S |-> m[x][y]]
  <2>1. \A x \in S : g[x] \in Int /\ g[x] = m[x][y]
    OBVIOUS
  <2>2. col(s)[y] = Total(g, s) /\ col(s \ {One(s)})[y] = Total(g, s \ {One(s)})
    OBVIOUS
  <2>3. \A x \in S : g[x] \in Int
    BY <2>1
  <2>4. /\ Total(g, s) \in Int
        /\ s = {} => Total(g, s) = 0
        /\ s # {} => /\ One(s) \in S
                     /\ Total(g, s) = g[One(s)] + Total(g, s \ {One(s)})
    <3> HIDE DEF g
    <3> QED
      BY <2>3, TotalStep
  <2>5. s # {} => g[One(s)] = m[One(s)][y] /\ m[One(s)][y] \in Int
    BY <2>4
  <2> HIDE DEF g, col
  <2> QED
    BY <2>2, <2>4, <2>5
<1>3. {} \in G
  <2>1. Total(row, {}) = 0
    BY <1>1, TotalStep
  <2>2. Total(col({}), T) = 0 * Total(col({}), T)
    <3>1. \A y \in T : col({})[y] = 0
      BY <1>2
    <3>2. \A y \in T : col({})[y] \in Int /\ col({})[y] = 0 * col({})[y]
      BY <3>1
    <3> HIDE DEF col
    <3> QED
      BY <3>2, TotalTimes
  <2>3. Total(col({}), T) \in Int
    <3>1. \A y \in T : col({})[y] \in Int
      BY <1>2
    <3> HIDE DEF col
    <3> QED
      BY <3>1, TotalIsInt
  <2> HIDE DEF col
  <2> QED
    BY <2>1, <2>2, <2>3
<1>4. ASSUME NEW s \in SUBSET S, s # {}, s \ {One(s)} \in G PROVE s \in G
  <2> DEFINE c == One(s)
             r == s \ {c}
  <2>1. c \in S /\ r \in SUBSET S /\ Total(row, s) = row[c] + Total(row, r)
    BY <1>1, <1>4, TotalStep
  <2>2. row[c] = Total(m[c], T)
    BY <2>1
  <2>3. Total(row, r) = Total(col(r), T)
    BY <1>4
  <2>4. Total(col(s), T) = Total(m[c], T) + Total(col(r), T)
    <3>1. \A y \in T : /\ m[c][y] \in Int /\ col(r)[y] \in Int
                       /\ col(s)[y] = m[c][y] + col(r)[y]
      <4> HIDE DEF col
      <4> QED
        BY <1>2, <1>4, <2>1
    <3> HIDE DEF col, c, r
    <3> QED
      BY <3>1, TotalPlus
  <2> HIDE DEF col, c, r
  <2> QED
    BY <2>1, <2>2, <2>3, <2>4
<1>5. S \in G
  <2> HIDE DEF G
  <2> QED
    BY <1>3, <1>4, ElementByElement
<1>6. Total(col(S), T) = Total(column, T)
  <2>1. \A y \in T : col(S)[y] = column[y]
    OBVIOUS
  <2> HIDE DEF col
  <2> QED
    BY <2>1, TotalSame
<1> QED
  BY <1>5, <1>6

\* A square of a sum of two natural numbers, and of a difference.
LEMMA Squares ==
    ASSUME NEW a \in Nat, NEW b \in Nat
    PROVE  /\ a * a + b * b <= (a + b) * (a + b)
           /\ 2 * (a * b) <= a * a + b * b
           /\ a * b \in Nat /\ a * a \in Nat
           /\ (a + b) * (a + b) = a * a + 2 * (a * b) + b * b
<1>1. a * b \in Nat /\ a * a \in Nat /\ b * b \in Nat
  OBVIOUS
<1>2. (a + b) * (a + b) = a * a + 2 * (a * b) + b * b
  BY SMTT(30)
<1>3. (a - b) * (a - b) >= 0
  <2>1. \A d \in Int : d * d >= 0
    BY SMTT(30)
  <2>2. a - b \in Int
    OBVIOUS
  <2> QED
    BY <2>1, <2>2
<1>4. (a - b) * (a - b) = a * a - 2 * (a * b) + b * b
  BY SMTT(30)
<1> QED
  BY <1>1, <1>2, <1>3, <1>4

\* The squares add up to no more than the square of the total.
LEMMA SquaresAtMost ==
    ASSUME NEW g, NEW q, NEW S, IsFiniteSet(S),
           \A x \in S : g[x] \in Nat /\ q[x] = g[x] * g[x]
    PROVE  Total(q, S) <= Total(g, S) * Total(g, S)
<1> DEFINE G == {s \in SUBSET S : Total(q, s) <= Total(g, s) * Total(g, s)}
<1>1. /\ \A x \in S : g[x] \in Int
      /\ \A x \in S : q[x] \in Int
  OBVIOUS
<1>2. {} \in G
  <2>1. Total(g, {}) = 0 /\ Total(q, {}) = 0
    BY <1>1, TotalStep
  <2> QED
    BY <2>1
<1>3. ASSUME NEW s \in SUBSET S, s # {}, s \ {One(s)} \in G PROVE s \in G
  <2> DEFINE a == g[One(s)]
             r == s \ {One(s)}
  <2>1. One(s) \in S /\ a \in Nat /\ q[One(s)] = a * a
    BY <1>3, OneOf
  <2>2. IsFiniteSet(r) /\ \A x \in r : g[x] \in Nat
    BY FS_Subset
  <2>3. Total(g, r) \in Nat
    BY <2>2, TotalIsNat
  <2>4. Total(g, s) = a + Total(g, r)
    BY <1>1, <1>3, TotalStep
  <2>5. Total(q, s) = a * a + Total(q, r) /\ Total(q, r) \in Int
    BY <1>1, <1>3, <2>1, TotalStep
  <2>6. Total(q, r) <= Total(g, r) * Total(g, r)
    BY <1>3
  <2>7. a * a + Total(g, r) * Total(g, r) <= (a + Total(g, r)) * (a + Total(g, r))
    BY <2>1, <2>3, Squares
  <2>8. \A u, v, w, z \in Int : (v <= w /\ u + w <= z) => u + v <= z
    OBVIOUS
  <2>9. /\ a * a \in Int /\ Total(g, r) * Total(g, r) \in Int
        /\ (a + Total(g, r)) * (a + Total(g, r)) \in Int
    BY <2>1, <2>3
  <2> HIDE DEF a, r
  <2>10. Total(q, s) <= Total(g, s) * Total(g, s)
    BY <2>4, <2>5, <2>6, <2>7, <2>8, <2>9
  <2> QED
    BY <2>10
<1>4. S \in G
  <2> HIDE DEF G
  <2> QED
    BY <1>2, <1>3, ElementByElement
<1> QED
  BY <1>4

\* One more square a * a, next to n of them that add up to u: their numbers add up to t.
LEMMA SquaresAddTo ==
    ASSUME NEW a \in Nat, NEW t \in Nat, NEW u \in Int, NEW n \in Nat,
           n * u >= t * t, 2 * (a * t) <= u + n * (a * a)
    PROVE  (n + 1) * (a * a + u) >= (a + t) * (a + t)
<1>1. (a + t) * (a + t) = a * a + 2 * (a * t) + t * t
  BY Squares
<1>2. (n + 1) * (a * a + u) = n * (a * a) + a * a + n * u + u
  BY SMTT(30)
<1>3. /\ a * a \in Int /\ a * t \in Int /\ t * t \in Int
      /\ n * (a * a) \in Int /\ n * u \in Int
  OBVIOUS
<1> QED
  BY <1>1, <1>2, <1>3

\* Twice the product with a number b is no more than the squares of both.
LEMMA SquaresBeyond ==
    ASSUME NEW a \in Nat, NEW t \in Nat, NEW u \in Int, NEW n \in Nat, NEW b \in Nat,
           2 * (b * t) <= u + n * (b * b)
    PROVE  2 * (b * (a + t)) <= a * a + u + (n + 1) * (b * b)
<1>1. 2 * (a * b) <= a * a + b * b
  BY Squares
<1>2. b * (a + t) = a * b + b * t
  BY SMTT(30)
<1>3. (n + 1) * (b * b) = n * (b * b) + b * b
  BY SMTT(30)
<1>4. /\ a * a \in Int /\ a * b \in Int /\ b * t \in Int /\ b * b \in Int
      /\ n * (b * b) \in Int
  OBVIOUS
<1> QED
  BY <1>1, <1>2, <1>3, <1>4

\* ... and, as often as there are summands, to no less.
LEMMA SquaresAtLeast ==
    ASSUME NEW g, NEW q, NEW S, IsFiniteSet(S),
           \A x \in S : g[x] \in Nat /\ q[x] = g[x] * g[x]
    PROVE  Cardinality(S) * Total(q, S) >= Total(g, S) * Total(g, S)
<1> DEFINE G == {s \in SUBSET S :
                   /\ Cardinality(s) * Total(q, s) >= Total(g, s) * Total(g, s)
                   /\ \A b \in Nat : 2 * (b * Total(g, s)) <= Total(q, s) + Cardinality(s) * (b * b)}
<1>1. /\ \A x \in S : g[x] \in Int
      /\ \A x \in S : q[x] \in Int
  OBVIOUS
<1>2. {} \in G
  <2>1. Total(g, {}) = 0 /\ Total(q, {}) = 0 /\ Cardinality({}) = 0
    BY <1>1, TotalStep, FS_EmptySet
  <2> QED
    BY <2>1
<1>3. ASSUME NEW s \in SUBSET S, s # {}, s \ {One(s)} \in G PROVE s \in G
  <2> DEFINE a == g[One(s)]
             r == s \ {One(s)}
             n == Cardinality(r)
  <2>1. One(s) \in S /\ One(s) \in s /\ a \in Nat /\ q[One(s)] = a * a
    BY <1>3, OneOf
  <2>2. IsFiniteSet(s) /\ IsFiniteSet(r) /\ \A x \in r : g[x] \in Nat
    BY FS_Subset
  <2>3. Total(g, r) \in Nat
    BY <2>2, TotalIsNat
  <2>4. Total(g, s) = a + Total(g, r)
    BY <1>1, <1>3, TotalStep
  <2>5. Total(q, s) = a * a + Total(q, r) /\ Total(q, r) \in Int
    BY <1>1, <1>3, <2>1, TotalStep
  <2>6. n \in Nat /\ Cardinality(s) = n + 1
    BY <2>1, <2>2, FS_RemoveElement, FS_CardinalityType
  <2>7. /\ n * Total(q, r) >= Total(g, r) * Total(g, r)
        /\ \A b \in Nat : 2 * (b * Total(g, r)) <= Total(q, r) + n * (b * b)
    BY <1>3
  <2> HIDE DEF a, r, n
  <2>8. Cardinality(s) * Total(q, s) >= Total(g, s) * Total(g, s)
    BY <2>1, <2>3, <2>4, <2>5, <2>6, <2>7, SquaresAddTo
  <2>9. ASSUME NEW b \in Nat
        PROVE  2 * (b * Total(g, s)) <= Total(q, s) + Cardinality(s) * (b * b)
    BY <2>1, <2>3, <2>4, <2>5, <2>6, <2>7, SquaresBeyond
  <2> QED
    BY <2>8, <2>9
<1>4. S \in G
  <2> HIDE DEF G
  <2> QED
    BY <1>2, <1>3, ElementByElement
<1> QED
  BY <1>4

-----------------------------------------------------------------------------
(***************************************************************************)
(* Folds over sequences.  FoldLeft is a fold over the domain of the        *)
(* sequence that takes the greatest index last; its table is a recursive   *)
(* function over all sets of indices.  That there is one is shown by       *)
(* adding one index after the other.                                       *)
(***************************************************************************)
\* What holds of 0, and of every number once it holds of the one before, holds
\* of all numbers up to n.
LEMMA UpTo ==
    ASSUME NEW n \in Nat, NEW G, 0 \in G, \A k \in 0..n : k < n /\ k \in G => k + 1 \in G
    PROVE  \A k \in 0..n : k \in G
<1> DEFINE F == {0..k : k \in {j \in 0..n : j \notin G}}
<1>1. SUFFICES ASSUME F # {} PROVE FALSE
  BY <1>1
<1> DEFINE S == 0..n
<1>2. F \in SUBSET SUBSET S /\ IsFiniteSet(S)
  <2>1. \A k \in 0..n : 0..k \subseteq 0..n
    OBVIOUS
  <2>2. F \in SUBSET SUBSET S
    BY <2>1
  <2> QED
    BY <2>2, FS_Interval
<1>3. PICK s \in F : \A y \in F : y \subseteq s => y = s
  <2> HIDE DEF F, S
  <2> QED
    BY <1>1, <1>2, MinimalSubset
<1>4. PICK k \in 0..n : s = 0..k /\ k \notin G
  OBVIOUS
<1>5. k > 0
  BY <1>4
<1>6. k - 1 \in 0..n /\ k - 1 \notin G
  BY <1>4, <1>5
<1>7. 0..k-1 \in F /\ 0..k-1 \subseteq s /\ 0..k-1 # s
  BY <1>4, <1>5, <1>6
<1> QED
  BY <1>3, <1>7

\* The greatest member of s.
Top(s) == CHOOSE x \in s : \A y \in s : x >= y

\* The greatest member of a set of indices that has n + 1 is n + 1.
LEMMA TopIs ==
    ASSUME NEW n \in Nat, NEW s \in SUBSET (1..n + 1), n + 1 \in s
    PROVE  Top(s) = n + 1
<1>1. \A y \in s : n + 1 >= y
  OBVIOUS
<1>2. \A x \in s : (\A y \in s : x >= y) => x = n + 1
  OBVIOUS
<1> QED
  BY <1>1, <1>2 DEF Top

\* Without n + 1, a set of indices up to n + 1 is one of indices up to n.
LEMMA WithoutTop ==
    ASSUME NEW n \in Nat, NEW s \in SUBSET (1..n + 1)
    PROVE  s \ {n + 1} \in SUBSET (1..n) /\ (n + 1 \notin s => s \in SUBSET (1..n))
<1>1. \A x \in 1..n + 1 : x # n + 1 => x \in 1..n
  OBVIOUS
<1> QED
  BY <1>1

\* There is one set without indices.
LEMMA NoIndices == 1..0 = {} /\ SUBSET (1..0) = {{}}
OBVIOUS

\* it is the table of the fold of the steps st from base, over the sets of indices in S.
Gathers(st, base, S, it) ==
    it = [s \in SUBSET S |-> IF s = {} THEN base ELSE st[Top(s)][it[s \ {Top(s)}]]]

\* A non-empty set of indices has a greatest one.
LEMMA TopOf ==
    ASSUME NEW n \in Nat, NEW s \in SUBSET (1..n), s # {}
    PROVE  Top(s) \in s
<1> DEFINE P(k) == \A u \in SUBSET (1..k) : u # {} => Top(u) \in u
           G == {k \in 0..n : P(k)}
<1>0. P(0)
  BY NoIndices
<1>1. 0 \in G
  <2> HIDE DEF P
  <2> QED
    BY <1>0
<1>2. ASSUME NEW k \in 0..n, k < n, k \in G PROVE k + 1 \in G
  <2>1. ASSUME NEW u \in SUBSET (1..k + 1), u # {} PROVE Top(u) \in u
    <3>1. CASE k + 1 \in u
      BY <3>1, TopIs
    <3>2. CASE k + 1 \notin u
      <4>1. u \in SUBSET (1..k)
        BY <3>2, WithoutTop
      <4>2. P(k)
        BY <1>2
      <4> QED
        BY <2>1, <4>1, <4>2
    <3> QED
      BY <3>1, <3>2
  <2>2. P(k + 1)
    BY <2>1
  <2> HIDE DEF P
  <2> QED
    BY <2>2, <1>2
<1> HIDE DEF G
<1>3. n \in G
  BY <1>1, <1>2, UpTo
<1> USE DEF G
<1>4. P(n)
  <2> HIDE DEF P
  <2> QED
    BY <1>3
<1> QED
  BY <1>4

\* Any steps on X have a table.
LEMMA GathersExists ==
    ASSUME NEW n \in Nat, NEW X, NEW base \in X, NEW st, \A i \in 1..n : st[i] \in [X -> X]
    PROVE  \E it \in [SUBSET (1..n) -> X] : Gathers(st, base, 1..n, it)
<1> DEFINE G == {k \in 0..n : \E it \in [SUBSET (1..k) -> X] : Gathers(st, base, 1..k, it)}
<1>1. 0 \in G
  <2> DEFINE it == [s \in SUBSET (1..0) |-> base]
  <2>1. it \in [SUBSET (1..0) -> X] /\ \A s \in SUBSET (1..0) : s = {}
    BY NoIndices
  <2>2. Gathers(st, base, 1..0, it)
    BY <2>1 DEF Gathers
  <2> QED
    BY <2>1, <2>2
<1>2. ASSUME NEW k \in 0..n, k < n, k \in G PROVE k + 1 \in G
  <2>1. PICK it \in [SUBSET (1..k) -> X] : Gathers(st, base, 1..k, it)
    BY <1>2
  <2> DEFINE jt == [s \in SUBSET (1..k + 1) |->
                     IF k + 1 \in s THEN st[k + 1][it[s \ {k + 1}]] ELSE it[s]]
  <2>2. ASSUME NEW s \in SUBSET (1..k + 1)
        PROVE  /\ k + 1 \notin s => s \in SUBSET (1..k)
               /\ s \ {k + 1} \in SUBSET (1..k)
               /\ jt[s] \in X
    <3>1. (k + 1 \notin s => s \in SUBSET (1..k)) /\ s \ {k + 1} \in SUBSET (1..k)
      BY WithoutTop
    <3>2. st[k + 1] \in [X -> X]
      <4>1. k + 1 \in 1..n
        BY <1>2
      <4> QED
        BY <4>1
    <3> QED
      BY <3>1, <3>2
  <2>3. jt \in [SUBSET (1..k + 1) -> X]
    BY <2>2
  <2>4. ASSUME NEW s \in SUBSET (1..k + 1)
        PROVE  jt[s] = IF s = {} THEN base ELSE st[Top(s)][jt[s \ {Top(s)}]]
    <3>1. CASE k + 1 \in s
      <4>0. k \in Nat /\ s \in SUBSET (1..k + 1) /\ k + 1 \in s
        BY <3>1
      <4>1. Top(s) = k + 1
        BY <4>0, TopIs, Zenon
      <4>2. jt[s \ {k + 1}] = it[s \ {k + 1}]
        BY <2>2
      <4> QED
        BY <3>1, <4>1, <4>2
    <3>2. CASE k + 1 \notin s
      <4>1. s \in SUBSET (1..k) /\ jt[s] = it[s]
        BY <3>2, <2>2
      <4>2. jt[s \ {Top(s)}] = it[s \ {Top(s)}]
        BY <3>2, <4>1
      <4>3. it[s] = IF s = {} THEN base ELSE st[Top(s)][it[s \ {Top(s)}]]
        BY <2>1, <4>1 DEF Gathers
      <4> QED
        BY <4>1, <4>2, <4>3
    <3> QED
      BY <3>1, <3>2
  <2>5. Gathers(st, base, 1..k + 1, jt)
    <3>1. jt = [s \in SUBSET (1..k + 1) |-> jt[s]]
      OBVIOUS
    <3> HIDE DEF jt
    <3> QED
      BY <2>4, <3>1 DEF Gathers
  <2> HIDE DEF jt
  <2>6. k + 1 \in 0..n
    BY <1>2
  <2> QED
    BY <2>3, <2>5, <2>6
<1> HIDE DEF G
<1>3. n \in G
  BY <1>1, <1>2, UpTo
<1> USE DEF G
<1> QED
  BY <1>3

\* The sets of the first indices, one after the other.
LEMMA FirstIndices ==
    ASSUME NEW n \in Nat, NEW k \in 0..n
    PROVE  /\ 1..k \in SUBSET (1..n) /\ 1..0 = {}
           /\ k < n => /\ k + 1 \in 1..n /\ 1..k + 1 \in SUBSET (1..n) /\ 1..k + 1 # {}
                       /\ Top(1..k + 1) = k + 1 /\ (1..k + 1) \ {k + 1} = 1..k
<1>1. 1..k \in SUBSET (1..n) /\ 1..0 = {}
  OBVIOUS
<1>2. ASSUME k < n
      PROVE  /\ k + 1 \in 1..n /\ 1..k + 1 \in SUBSET (1..n)
             /\ k + 1 \in 1..k + 1 /\ (1..k + 1) \ {k + 1} = 1..k
  BY <1>2
<1>3. ASSUME k < n PROVE Top(1..k + 1) = k + 1
  BY <1>2, <1>3, TopIs
<1> QED
  BY <1>1, <1>2, <1>3

\* it is a table of the steps st from base, as far as its entries are in X.
Runs(st, base, X, n, it) ==
    /\ it[{}] = base
    /\ \A s \in SUBSET (1..n) : s # {} /\ it[s \ {Top(s)}] \in X =>
                                     it[s] = st[Top(s)][it[s \ {Top(s)}]]

\* w are the results of the first n steps from base, in X, and e is the last of them.
RunsTo(st, base, X, n, w, e) ==
    /\ w \in [0..n -> X] /\ w[0] = base /\ w[n] = e
    /\ \A k \in 0..n : k < n => w[k + 1] = st[k + 1][w[k]]

\* A table whose entries are steps on X from the entry without the greatest
\* index holds, for the first indices, the results of one step after the other.
LEMMA TableRuns ==
    ASSUME NEW n \in Nat, NEW X, NEW base \in X, NEW st, \A i \in 1..n : st[i] \in [X -> X],
           NEW it, Runs(st, base, X, n, it)
    PROVE  \E w : RunsTo(st, base, X, n, w, it[1..n])
<1> DEFINE w == [k \in 0..n |-> it[1..k]]
           G == {k \in 0..n : w[k] \in X}
<1> USE DEF Runs
<1>1. w[0] = base /\ w[n] = it[1..n]
  BY NoIndices
<1>2. ASSUME NEW k \in 0..n, k < n, w[k] \in X
      PROVE  k + 1 \in 0..n /\ w[k + 1] = st[k + 1][w[k]] /\ w[k + 1] \in X
  <2>1. /\ 1..k + 1 \in SUBSET (1..n) /\ 1..k + 1 # {} /\ k + 1 \in 1..n /\ k + 1 \in 0..n
        /\ Top(1..k + 1) = k + 1 /\ (1..k + 1) \ {k + 1} = 1..k
    BY <1>2, FirstIndices
  <2>2. it[1..k] = w[k] /\ it[1..k + 1] = w[k + 1]
    BY <2>1
  <2>3. it[1..k + 1] = st[k + 1][it[1..k]]
    <3>1. it[(1..k + 1) \ {Top(1..k + 1)}] \in X
      BY <1>2, <2>1, <2>2
    <3> HIDE DEF w
    <3> QED
      BY <2>1, <3>1
  <2>4. st[k + 1] \in [X -> X]
    BY <2>1
  <2> HIDE DEF w
  <2> QED
    BY <1>2, <2>1, <2>2, <2>3, <2>4
<1>3. \A k \in 0..n : k \in G
  <2>1. 0 \in G
    BY <1>1
  <2>2. ASSUME NEW k \in 0..n, k < n, k \in G PROVE k + 1 \in G
    <3> HIDE DEF w
    <3> QED
      BY <1>2, <2>2
  <2> HIDE DEF G
  <2> QED
    BY <2>1, <2>2, UpTo
<1>4. \A k \in 0..n : w[k] \in X
  BY <1>3
<1>5. w \in [0..n -> X]
  <2>1. w = [k \in 0..n |-> w[k]]
    OBVIOUS
  <2> HIDE DEF w
  <2> QED
    BY <1>4, <2>1
<1>6. \A k \in 0..n : k < n => w[k + 1] = st[k + 1][w[k]]
  <2> HIDE DEF w
  <2> QED
    BY <1>2, <1>4
<1> HIDE DEF w
<1> QED
  BY <1>1, <1>5, <1>6 DEF RunsTo

\* A sequence of levels has its indices, and each is a level.
LEMMA LevelTypes ==
    ASSUME NEW levels \in Levels
    PROVE  /\ Len(levels) \in Nat /\ DOMAIN levels = 1..Len(levels) /\ IsFiniteSet(DOMAIN levels)
           /\ \A i \in DOMAIN levels : /\ levels[i].price \in Nat /\ levels[i].price > 0
                                       /\ levels[i].qty \in Nat
<1>1. Len(levels) \in Nat /\ DOMAIN levels = 1..Len(levels)
  BY DEF Levels
<1>2. \A i \in DOMAIN levels : levels[i] \in [price : Nat \ {0}, qty : Nat]
  <2> DEFINE L == [price : Nat \ {0}, qty : Nat]
  <2>1. levels \in Seq(L)
    BY DEF Levels
  <2>2. \A i \in 1..Len(levels) : levels[i] \in L
    <3> HIDE DEF L
    <3> QED
      BY <2>1
  <2> QED
    BY <1>1, <2>2
<1>3. IsFiniteSet(1..Len(levels))
  BY <1>1, FS_Interval
<1> QED
  BY <1>1, <1>2, <1>3

\* A purchase at a level leaves a fill.
LEMMA AddTypes ==
    ASSUME NEW f \in Fill, NEW a \in Nat, NEW p \in Nat
    PROVE  Add(f, a, p) \in Fill /\ Add(f, a, p).qty = f.qty + a /\ Add(f, a, p).cost = f.cost + a * p
<1>1. a * p \in Nat
  BY ProductIsNat
<1> QED
  BY <1>1 DEF Add, Fill

\* A step of walk_orderbook_depth leaves a fill.
LEMMA TakesTypes ==
    ASSUME NEW levels \in Levels, NEW q \in Nat, NEW f \in Fill, NEW i \in DOMAIN levels
    PROVE  Takes(f, levels[i], q) \in Fill
<1>1. levels[i].price \in Nat /\ levels[i].qty \in Nat
  BY LevelTypes
<1>2. Lesser(levels[i].qty, Positive(q - f.qty)) \in Nat
  BY <1>1 DEF Lesser, Positive, Fill
<1>3. Add(f, Lesser(levels[i].qty, Positive(q - f.qty)), levels[i].price) \in Fill
  BY <1>1, <1>2, AddTypes
<1> QED
  BY <1>3 DEF Takes

\* Takes, as a table of steps.
DepthSteps(levels, q) == [i \in DOMAIN levels |-> [f \in Fill |-> Takes(f, levels[i], q)]]

\* walk_orderbook_depth, level after level.
LEMMA DepthFold ==
    ASSUME NEW levels \in Levels, NEW q \in Nat
    PROVE  \E w \in [0..Len(levels) -> Fill] :
              /\ w[0] = Nothing
              /\ \A k \in 0..Len(levels) : k < Len(levels) => w[k + 1] = Takes(w[k], levels[k + 1], q)
              /\ FoldLeft(LAMBDA f, l : Takes(f, l, q), Nothing, levels) = w[Len(levels)]
<1> DEFINE n == Len(levels)
           Eq(it) == it = [s \in SUBSET DOMAIN levels |-> IF s = {} THEN Nothing
                             ELSE Takes(it[s \ {CHOOSE x \in s : \A y \in s : x >= y}],
                                        levels[CHOOSE x \in s : \A y \in s : x >= y], q)]
           st == DepthSteps(levels, q)
<1>1. n \in Nat /\ DOMAIN levels = 1..n
  BY LevelTypes
<1>2. Nothing \in Fill
  BY DEF Nothing, Fill
<1>3. \A i \in 1..n : st[i] \in [Fill -> Fill] /\ \A f \in Fill : st[i][f] = Takes(f, levels[i], q)
  BY <1>1, TakesTypes DEF DepthSteps
<1> HIDE DEF st
<1>4. \E it : Eq(it)
  <2>1. PICK it \in [SUBSET (1..n) -> Fill] : Gathers(st, Nothing, 1..n, it)
    <3> HIDE DEF n
    <3> QED
      BY <1>1, <1>2, <1>3, GathersExists
  <2>2. ASSUME NEW s \in SUBSET (1..n), s # {}
        PROVE  st[Top(s)][it[s \ {Top(s)}]] = Takes(it[s \ {Top(s)}], levels[Top(s)], q)
    <3>1. Top(s) \in 1..n /\ s \ {Top(s)} \in SUBSET (1..n)
      BY <1>1, <2>2, TopOf
    <3>2. it[s \ {Top(s)}] \in Fill
      BY <3>1
    <3> QED
      BY <1>3, <3>1, <3>2
  <2>3. it = [s \in SUBSET (1..n) |-> IF s = {} THEN Nothing
                ELSE Takes(it[s \ {Top(s)}], levels[Top(s)], q)]
    BY <2>1, <2>2 DEF Gathers
  <2> QED
    BY <1>1, <2>3 DEF Top
<1>5. PICK it : Eq(it) /\ FoldLeft(LAMBDA f, l : Takes(f, l, q), Nothing, levels) = it[DOMAIN levels]
  BY <1>4 DEF FoldLeft, MapThenFoldSet, Max
<1>6. /\ it[{}] = Nothing
      /\ \A s \in SUBSET (1..n) : s # {} => it[s] = Takes(it[s \ {Top(s)}], levels[Top(s)], q)
  BY <1>1, <1>5 DEF Top
<1> HIDE DEF Eq
<1>7. ASSUME NEW s \in SUBSET (1..n), s # {}, it[s \ {Top(s)}] \in Fill
      PROVE  it[s] = st[Top(s)][it[s \ {Top(s)}]]
  <2>1. Top(s) \in 1..n
    BY <1>1, <1>7, TopOf
  <2> QED
    BY <1>3, <1>6, <1>7, <2>1
<1>8. PICK w : RunsTo(st, Nothing, Fill, n, w, it[1..n])
  <2>1. \A i \in 1..n : st[i] \in [Fill -> Fill]
    BY <1>3
  <2>2. Runs(st, Nothing, Fill, n, it)
    BY <1>6, <1>7 DEF Runs
  <2> HIDE DEF n
  <2> QED
    BY <1>1, <1>2, <2>1, <2>2, TableRuns
<1>9. ASSUME NEW k \in 0..n, k < n PROVE w[k + 1] = Takes(w[k], levels[k + 1], q)
  <2>1. k + 1 \in 1..n /\ w[k] \in Fill
    BY <1>1, <1>8, <1>9 DEF RunsTo
  <2> QED
    BY <1>3, <1>8, <1>9, <2>1 DEF RunsTo
<1> QED
  BY <1>1, <1>5, <1>8, <1>9 DEF RunsTo

\* A step of walk_book leaves a fill.
LEMMA WalkedTypes ==
    ASSUME NEW levels \in Levels, NEW q \in Nat, NEW f \in Fill, NEW i \in DOMAIN levels
    PROVE  Walked(f, levels[i], q) \in Fill
<1>1. levels[i].price \in Nat /\ levels[i].qty \in Nat
  BY LevelTypes
<1>2. ASSUME f.qty < q PROVE Lesser(levels[i].qty, q - f.qty) \in Nat
  BY <1>1, <1>2 DEF Lesser, Fill
<1>3. ASSUME f.qty < q PROVE Add(f, Lesser(levels[i].qty, q - f.qty), levels[i].price) \in Fill
  BY <1>1, <1>2, <1>3, AddTypes
<1>4. f.qty \in Nat
  BY DEF Fill
<1> QED
  BY <1>3, <1>4 DEF Walked

\* A quotient of natural numbers is one, and how it is rounded.
LEMMA Quotient ==
    ASSUME NEW m \in Nat, NEW p \in Nat, p > 0
    PROVE  m \div p \in Nat /\ (m \div p) * p <= m /\ m < (m \div p) * p + p
<1>1. m \div p \in Int
  OBVIOUS
<1>2. (m \div p) * p <= m /\ m < (m \div p) * p + p
  BY SMTT(30)
<1>3. m \div p >= 0
  BY SMTT(30)
<1> QED
  BY <1>1, <1>2, <1>3

\* A step of the purchase leaves a fill.
LEMMA BuysTypes ==
    ASSUME NEW levels \in Levels, NEW q \in Nat, NEW f \in Fill, NEW i \in DOMAIN levels
    PROVE  Buys(f, levels[i], q) \in Fill
<1>1. levels[i].price \in Nat /\ levels[i].price > 0 /\ levels[i].qty \in Nat
  BY LevelTypes
<1>2. f.cost \in Nat
  BY DEF Fill
<1>3. ASSUME f.cost < q PROVE Lesser(levels[i].qty, (q - f.cost) \div levels[i].price) \in Nat
  <2>1. q - f.cost \in Nat
    BY <1>2, <1>3
  <2>2. (q - f.cost) \div levels[i].price \in Nat
    BY <1>1, <2>1, Quotient
  <2> QED
    BY <1>1, <2>2 DEF Lesser
<1>4. ASSUME f.cost < q
      PROVE  Add(f, Lesser(levels[i].qty, (q - f.cost) \div levels[i].price), levels[i].price) \in Fill
  BY <1>1, <1>3, <1>4, AddTypes
<1> QED
  BY <1>2, <1>4 DEF Buys

\* Walked, as a table of steps.
WalkSteps(levels, q) == [i \in DOMAIN levels |-> [f \in Fill |-> Walked(f, levels[i], q)]]

\* walk_book, level after level.
LEMMA WalkFold ==
    ASSUME NEW levels \in Levels, NEW q \in Nat
    PROVE  \E w \in [0..Len(levels) -> Fill] :
              /\ w[0] = Nothing
              /\ \A k \in 0..Len(levels) : k < Len(levels) => w[k + 1] = Walked(w[k], levels[k + 1], q)
              /\ FoldLeft(LAMBDA f, l : Walked(f, l, q), Nothing, levels) = w[Len(levels)]
<1> DEFINE n == Len(levels)
           Eq(it) == it = [s \in SUBSET DOMAIN levels |-> IF s = {} THEN Nothing
                             ELSE Walked(it[s \ {CHOOSE x \in s : \A y \in s : x >= y}],
                                        levels[CHOOSE x \in s : \A y \in s : x >= y], q)]
           st == WalkSteps(levels, q)
<1>1. n \in Nat /\ DOMAIN levels = 1..n
  BY LevelTypes
<1>2. Nothing \in Fill
  BY DEF Nothing, Fill
<1>3. \A i \in 1..n : st[i] \in [Fill -> Fill] /\ \A f \in Fill : st[i][f] = Walked(f, levels[i], q)
  BY <1>1, WalkedTypes DEF WalkSteps
<1> HIDE DEF st
<1>4. \E it : Eq(it)
  <2>1. PICK it \in [SUBSET (1..n) -> Fill] : Gathers(st, Nothing, 1..n, it)
    <3> HIDE DEF n
    <3> QED
      BY <1>1, <1>2, <1>3, GathersExists
  <2>2. ASSUME NEW s \in SUBSET (1..n), s # {}
        PROVE  st[Top(s)][it[s \ {Top(s)}]] = Walked(it[s \ {Top(s)}], levels[Top(s)], q)
    <3>1. Top(s) \in 1..n /\ s \ {Top(s)} \in SUBSET (1..n)
      BY <1>1, <2>2, TopOf
    <3>2. it[s \ {Top(s)}] \in Fill
      BY <3>1
    <3> QED
      BY <1>3, <3>1, <3>2
  <2>3. it = [s \in SUBSET (1..n) |-> IF s = {} THEN Nothing
                ELSE Walked(it[s \ {Top(s)}], levels[Top(s)], q)]
    BY <2>1, <2>2 DEF Gathers
  <2> QED
    BY <1>1, <2>3 DEF Top
<1>5. PICK it : Eq(it) /\ FoldLeft(LAMBDA f, l : Walked(f, l, q), Nothing, levels) = it[DOMAIN levels]
  BY <1>4 DEF FoldLeft, MapThenFoldSet, Max
<1>6. /\ it[{}] = Nothing
      /\ \A s \in SUBSET (1..n) : s # {} => it[s] = Walked(it[s \ {Top(s)}], levels[Top(s)], q)
  BY <1>1, <1>5 DEF Top
<1> HIDE DEF Eq
<1>7. ASSUME NEW s \in SUBSET (1..n), s # {}, it[s \ {Top(s)}] \in Fill
      PROVE  it[s] = st[Top(s)][it[s \ {Top(s)}]]
  <2>1. Top(s) \in 1..n
    BY <1>1, <1>7, TopOf
  <2> QED
    BY <1>3, <1>6, <1>7, <2>1
<1>8. PICK w : RunsTo(st, Nothing, Fill, n, w, it[1..n])
  <2>1. \A i \in 1..n : st[i] \in [Fill -> Fill]
    BY <1>3
  <2>2. Runs(st, Nothing, Fill, n, it)
    BY <1>6, <1>7 DEF Runs
  <2> HIDE DEF n
  <2> QED
    BY <1>1, <1>2, <2>1, <2>2, TableRuns
<1>9. ASSUME NEW k \in 0..n, k < n PROVE w[k + 1] = Walked(w[k], levels[k + 1], q)
  <2>1. k + 1 \in 1..n /\ w[k] \in Fill
    BY <1>1, <1>8, <1>9 DEF RunsTo
  <2> QED
    BY <1>3, <1>8, <1>9, <2>1 DEF RunsTo
<1> QED
  BY <1>1, <1>5, <1>8, <1>9 DEF RunsTo

\* Buys, as a table of steps.
SpendSteps(levels, q) == [i \in DOMAIN levels |-> [f \in Fill |-> Buys(f, levels[i], q)]]

\* What an amount of money buys, level after level.
LEMMA SpendFold ==
    ASSUME NEW levels \in Levels, NEW q \in Nat
    PROVE  \E w \in [0..Len(levels) -> Fill] :
              /\ w[0] = Nothing
              /\ \A k \in 0..Len(levels) : k < Len(levels) => w[k + 1] = Buys(w[k], levels[k + 1], q)
              /\ FoldLeft(LAMBDA f, l : Buys(f, l, q), Nothing, levels) = w[Len(levels)]
<1> DEFINE n == Len(levels)
           Eq(it) == it = [s \in SUBSET DOMAIN levels |-> IF s = {} THEN Nothing
                             ELSE Buys(it[s \ {CHOOSE x \in s : \A y \in s : x >= y}],
                                        levels[CHOOSE x \in s : \A y \in s : x >= y], q)]
           st == SpendSteps(levels, q)
<1>1. n \in Nat /\ DOMAIN levels = 1..n
  BY LevelTypes
<1>2. Nothing \in Fill
  BY DEF Nothing, Fill
<1>3. \A i \in 1..n : st[i] \in [Fill -> Fill] /\ \A f \in Fill : st[i][f] = Buys(f, levels[i], q)
  BY <1>1, BuysTypes DEF SpendSteps
<1> HIDE DEF st
<1>4. \E it : Eq(it)
  <2>1. PICK it \in [SUBSET (1..n) -> Fill] : Gathers(st, Nothing, 1..n, it)
    <3> HIDE DEF n
    <3> QED
      BY <1>1, <1>2, <1>3, GathersExists
  <2>2. ASSUME NEW s \in SUBSET (1..n), s # {}
        PROVE  st[Top(s)][it[s \ {Top(s)}]] = Buys(it[s \ {Top(s)}], levels[Top(s)], q)
    <3>1. Top(s) \in 1..n /\ s \ {Top(s)} \in SUBSET (1..n)
      BY <1>1, <2>2, TopOf
    <3>2. it[s \ {Top(s)}] \in Fill
      BY <3>1
    <3> QED
      BY <1>3, <3>1, <3>2
  <2>3. it = [s \in SUBSET (1..n) |-> IF s = {} THEN Nothing
                ELSE Buys(it[s \ {Top(s)}], levels[Top(s)], q)]
    BY <2>1, <2>2 DEF Gathers
  <2> QED
    BY <1>1, <2>3 DEF Top
<1>5. PICK it : Eq(it) /\ FoldLeft(LAMBDA f, l : Buys(f, l, q), Nothing, levels) = it[DOMAIN levels]
  BY <1>4 DEF FoldLeft, MapThenFoldSet, Max
<1>6. /\ it[{}] = Nothing
      /\ \A s \in SUBSET (1..n) : s # {} => it[s] = Buys(it[s \ {Top(s)}], levels[Top(s)], q)
  BY <1>1, <1>5 DEF Top
<1> HIDE DEF Eq
<1>7. ASSUME NEW s \in SUBSET (1..n), s # {}, it[s \ {Top(s)}] \in Fill
      PROVE  it[s] = st[Top(s)][it[s \ {Top(s)}]]
  <2>1. Top(s) \in 1..n
    BY <1>1, <1>7, TopOf
  <2> QED
    BY <1>3, <1>6, <1>7, <2>1
<1>8. PICK w : RunsTo(st, Nothing, Fill, n, w, it[1..n])
  <2>1. \A i \in 1..n : st[i] \in [Fill -> Fill]
    BY <1>3
  <2>2. Runs(st, Nothing, Fill, n, it)
    BY <1>6, <1>7 DEF Runs
  <2> HIDE DEF n
  <2> QED
    BY <1>1, <1>2, <2>1, <2>2, TableRuns
<1>9. ASSUME NEW k \in 0..n, k < n PROVE w[k + 1] = Buys(w[k], levels[k + 1], q)
  <2>1. k + 1 \in 1..n /\ w[k] \in Fill
    BY <1>1, <1>8, <1>9 DEF RunsTo
  <2> QED
    BY <1>3, <1>8, <1>9, <2>1 DEF RunsTo
<1> QED
  BY <1>1, <1>5, <1>8, <1>9 DEF RunsTo

-----------------------------------------------------------------------------
(***************************************************************************)
(* The market.  The first k levels have a depth and a worth; an order for  *)
(* q takes the levels before it whole, the one it ends in in part, and     *)
(* none behind, so its cost is linear between two levels.                  *)
(***************************************************************************)
\* A sum over part of a table that is written with the fold is a total.
LEMMA SumOnIsTotal ==
    ASSUME NEW f, NEW S, IsFiniteSet(S)
    PROVE  SumFunctionOnSet(f, S) = Total(f, S)
<1> DEFINE Eq(it) == it = [s \in SUBSET S |-> IF s = {} THEN 0
                             ELSE f[CHOOSE x \in s : TRUE] + it[s \ {CHOOSE x \in s : TRUE}]]
<1>1. ASSUME NEW it PROVE Eq(it) <=> Adds(f, S, it)
  BY DEF Adds, One
<1>2. \E it : Eq(it)
  <2> HIDE DEF Eq
  <2> QED
    BY <1>1, AddsExists
<1>3. \E it : Eq(it) /\ SumFunctionOnSet(f, S) = it[S]
  BY <1>2 DEF SumFunctionOnSet, FoldFunctionOnSet, MapThenFoldSet
<1> HIDE DEF Eq
<1> QED
  BY <1>1, <1>3, TotalIsAdded, S \in SUBSET S

\* The totals of the first entries of a table of natural numbers.
LEMMA FirstTotals ==
    ASSUME NEW n \in Nat, NEW g, \A i \in 1..n : g[i] \in Nat, NEW k \in 0..n
    PROVE  /\ Total(g, 1..k) \in Nat /\ Total(g, 1..0) = 0
           /\ k < n => Total(g, 1..k + 1) = Total(g, 1..k) + g[k + 1]
<1>1. IsFiniteSet(1..k) /\ IsFiniteSet(1..0) /\ \A i \in 1..k : g[i] \in Nat
  BY FS_Interval
<1>2. Total(g, 1..k) \in Nat
  BY <1>1, TotalIsNat
<1>3. Total(g, 1..0) = 0
  BY <1>1, NoIndices, TotalAt
<1>4. ASSUME k < n PROVE Total(g, 1..k + 1) = Total(g, 1..k) + g[k + 1]
  <2>1. k + 1 \in 1..k + 1 /\ (1..k + 1) \ {k + 1} = 1..k /\ g[k + 1] \in Nat
    BY <1>4
  <2>2. IsFiniteSet(1..k + 1) /\ \A i \in 1..k + 1 : g[i] \in Int
    BY <1>4, FS_Interval
  <2>3. Total(g, 1..k + 1) = g[k + 1] + Total(g, (1..k + 1) \ {k + 1})
    BY <2>1, <2>2, TotalWithout
  <2>4. Total(g, 1..k + 1) = g[k + 1] + Total(g, 1..k)
    BY <2>1, <2>3, Zenon
  <2> QED
    BY <1>2, <2>1, <2>4
<1> QED
  BY <1>2, <1>3, <1>4

\* The depth of the first k levels, and what it is worth.
Ahead(levels) == [k \in 0..Len(levels) |-> Before(levels, k + 1)]

WorthAhead(levels) ==
    [k \in 0..Len(levels) |-> Total([i \in DOMAIN levels |-> levels[i].qty * levels[i].price], 1..k)]

\* d and w are the depths and the worths, one level after the other.
Ladder(levels, d, w) ==
    /\ d \in [0..Len(levels) -> Nat] /\ w \in [0..Len(levels) -> Nat]
    /\ d[0] = 0 /\ w[0] = 0
    /\ \A k \in 0..Len(levels) : k < Len(levels) =>
          /\ d[k + 1] = d[k] + levels[k + 1].qty
          /\ w[k + 1] = w[k] + levels[k + 1].qty * levels[k + 1].price

\* The depths and worths of a side, and that the depth of all is Depth.
LEMMA Ladders ==
    ASSUME NEW levels \in Levels
    PROVE  /\ Ladder(levels, Ahead(levels), WorthAhead(levels))
           /\ Depth(levels) = Ahead(levels)[Len(levels)]
<1> DEFINE n == Len(levels)
           g == [i \in DOMAIN levels |-> levels[i].qty]
           h == [i \in DOMAIN levels |-> levels[i].qty * levels[i].price]
<1>1. n \in Nat /\ DOMAIN levels = 1..n /\ IsFiniteSet(DOMAIN levels)
  BY LevelTypes
<1>2. \A i \in 1..n : levels[i].qty \in Nat /\ levels[i].qty * levels[i].price \in Nat
  BY <1>1, LevelTypes, ProductIsNat
<1>3. \A i \in 1..n : /\ g[i] = levels[i].qty /\ g[i] \in Nat
                      /\ h[i] = levels[i].qty * levels[i].price /\ h[i] \in Nat
  BY <1>1, <1>2
<1>4. \A k \in 0..n : Ahead(levels)[k] = Total(g, 1..k)
  <2>1. ASSUME NEW k \in 0..n PROVE Before(levels, k + 1) = Total(g, 1..k)
    <3>1. 1..(k + 1) - 1 = 1..k /\ IsFiniteSet(1..k)
      BY <1>1, FS_Interval
    <3>2. Before(levels, k + 1) = SumFunctionOnSet(g, 1..k)
      BY <3>1 DEF Before
    <3> HIDE DEF g
    <3> QED
      BY <3>1, <3>2, SumOnIsTotal
  <2> QED
    BY <2>1 DEF Ahead
<1>5. \A k \in 0..n : WorthAhead(levels)[k] = Total(h, 1..k)
  BY DEF WorthAhead
<1>6. /\ \A k \in 0..n : Total(g, 1..k) \in Nat /\ Total(h, 1..k) \in Nat
      /\ Total(g, 1..0) = 0 /\ Total(h, 1..0) = 0
      /\ \A k \in 0..n : k < n => /\ Total(g, 1..k + 1) = Total(g, 1..k) + g[k + 1]
                                  /\ Total(h, 1..k + 1) = Total(h, 1..k) + h[k + 1]
  <2>1. (\A i \in 1..n : g[i] \in Nat) /\ (\A i \in 1..n : h[i] \in Nat)
    BY <1>3
  <2>2. 0 \in 0..n
    BY <1>1
  <2> HIDE DEF g, h, n
  <2> QED
    BY <1>1, <2>1, <2>2, FirstTotals
<1>7. Depth(levels) = Ahead(levels)[n]
  <2>1. Depth(levels) = SumFunction(g)
    BY DEF Depth
  <2>2. DOMAIN g = 1..n /\ n \in 0..n
    BY <1>1
  <2>3. SumFunction(g) = Total(g, 1..n)
    <3> HIDE DEF g
    <3> QED
      BY <1>1, <2>2, SumIsTotal
  <2> QED
    BY <1>4, <2>1, <2>2, <2>3
<1>8. DOMAIN Ahead(levels) = 0..n /\ DOMAIN WorthAhead(levels) = 0..n
      /\ Ahead(levels) = [k \in 0..n |-> Ahead(levels)[k]] /\ WorthAhead(levels) = [k \in 0..n |-> WorthAhead(levels)[k]]
  BY DEF Ahead, WorthAhead
<1>9. \A k \in 0..n : k < n => k + 1 \in 1..n /\ k + 1 \in 0..n
  BY <1>1
<1>10. 0 \in 0..n
  BY <1>1
<1> HIDE DEF g, h
<1>11. Ahead(levels) \in [0..n -> Nat] /\ WorthAhead(levels) \in [0..n -> Nat]
  BY <1>4, <1>5, <1>6, <1>8
<1>12. Ahead(levels)[0] = 0 /\ WorthAhead(levels)[0] = 0
  BY <1>4, <1>5, <1>6, <1>10
<1>13. ASSUME NEW k \in 0..n, k < n
       PROVE  /\ Ahead(levels)[k + 1] = Ahead(levels)[k] + levels[k + 1].qty
              /\ WorthAhead(levels)[k + 1] = WorthAhead(levels)[k] + levels[k + 1].qty * levels[k + 1].price
  BY <1>3, <1>4, <1>5, <1>6, <1>9, <1>13
<1> QED
  BY <1>7, <1>11, <1>12, <1>13 DEF Ladder

\* m are the fills of an order for q after the first levels, one after the other.
Fills(levels, q, m) ==
    /\ m \in [0..Len(levels) -> Fill]
    /\ m[0] = Nothing
    /\ \A k \in 0..Len(levels) : k < Len(levels) =>
          m[k + 1] = Add(m[k], Lesser(Positive(q - Ahead(levels)[k]), levels[k + 1].qty), levels[k + 1].price)

\* What is taken of a level is a natural number.
LEMMA PartIsNat ==
    ASSUME NEW q \in Nat, NEW d \in Nat, NEW a \in Nat
    PROVE  Lesser(Positive(q - d), a) \in Nat
BY DEF Lesser, Positive

\* The market fills an order level after level.
LEMMA MarketFold ==
    ASSUME NEW levels \in Levels, NEW q \in Nat
    PROVE  \E m : Fills(levels, q, m) /\ Market(levels, q) = m[Len(levels)]
<1> DEFINE n == Len(levels)
           d == Ahead(levels)
           g == [i \in DOMAIN levels |-> Part(levels, q, i)]
           h == [i \in DOMAIN levels |-> Part(levels, q, i) * levels[i].price]
           m == [k \in 0..n |-> [qty |-> Total(g, 1..k), cost |-> Total(h, 1..k)]]
<1>1. n \in Nat /\ DOMAIN levels = 1..n /\ IsFiniteSet(DOMAIN levels)
  BY LevelTypes
<1>2. ASSUME NEW k \in 0..n, k < n
      PROVE  /\ k + 1 \in 1..n /\ k + 1 \in DOMAIN levels /\ k + 1 \in 0..n
             /\ Part(levels, q, k + 1) = Lesser(Positive(q - d[k]), levels[k + 1].qty)
             /\ Part(levels, q, k + 1) \in Nat
  <2>1. k + 1 \in 1..n /\ k + 1 \in DOMAIN levels /\ k + 1 \in 0..n
    BY <1>1, <1>2
  <2>2. d[k] = Before(levels, k + 1)
    BY DEF Ahead
  <2>3. d[k] \in Nat
    BY Ladders DEF Ladder
  <2>4. levels[k + 1].qty \in Nat
    BY <2>1, LevelTypes
  <2> HIDE DEF d
  <2>5. Part(levels, q, k + 1) = Lesser(Positive(q - d[k]), levels[k + 1].qty)
    BY <2>2 DEF Part
  <2> QED
    BY <2>1, <2>3, <2>4, <2>5, PartIsNat
<1> HIDE DEF d
<1>3. \A i \in 1..n : /\ Part(levels, q, i) \in Nat /\ levels[i].price \in Nat
                      /\ Part(levels, q, i) * levels[i].price \in Nat
  <2> TAKE i \in 1..n
  <2>1. i - 1 \in 0..n /\ i - 1 < n /\ (i - 1) + 1 = i
    BY <1>1
  <2>2. Part(levels, q, (i - 1) + 1) \in Nat
    BY <1>2, <2>1
  <2>3. levels[i].price \in Nat
    BY <1>1, LevelTypes
  <2> QED
    BY <2>1, <2>2, <2>3, ProductIsNat
<1>4. \A i \in 1..n : /\ g[i] = Part(levels, q, i) /\ g[i] \in Nat
                      /\ h[i] = Part(levels, q, i) * levels[i].price /\ h[i] \in Nat
  BY <1>1, <1>3
<1>5. /\ \A k \in 0..n : Total(g, 1..k) \in Nat /\ Total(h, 1..k) \in Nat
      /\ Total(g, 1..0) = 0 /\ Total(h, 1..0) = 0
      /\ \A k \in 0..n : k < n => /\ Total(g, 1..k + 1) = Total(g, 1..k) + g[k + 1]
                                  /\ Total(h, 1..k + 1) = Total(h, 1..k) + h[k + 1]
  <2>1. (\A i \in 1..n : g[i] \in Nat) /\ (\A i \in 1..n : h[i] \in Nat)
    BY <1>4
  <2>2. 0 \in 0..n
    BY <1>1
  <2> HIDE DEF g, h, n
  <2> QED
    BY <1>1, <2>1, <2>2, FirstTotals
<1>6. Market(levels, q) = [qty |-> Total(g, 1..n), cost |-> Total(h, 1..n)]
  <2>1. Market(levels, q) = [qty |-> SumFunction(g), cost |-> SumFunction(h)]
    BY DEF Market
  <2>2. DOMAIN g = 1..n /\ DOMAIN h = 1..n
    BY <1>1
  <2> HIDE DEF g, h
  <2>3. SumFunction(g) = Total(g, 1..n) /\ SumFunction(h) = Total(h, 1..n)
    BY <1>1, <2>2, SumIsTotal
  <2> QED
    BY <2>1, <2>3
<1> HIDE DEF g, h
<1>7. \A k \in 0..n : m[k] \in Fill /\ m[k].qty = Total(g, 1..k) /\ m[k].cost = Total(h, 1..k)
  BY <1>5 DEF Fill
<1>8. m \in [0..n -> Fill] /\ m[0] = Nothing
  BY <1>1, <1>5, <1>7 DEF Nothing
<1>9. ASSUME NEW k \in 0..n, k < n
      PROVE  m[k + 1] = Add(m[k], Lesser(Positive(q - d[k]), levels[k + 1].qty), levels[k + 1].price)
  <2>1. /\ k + 1 \in 0..n
        /\ g[k + 1] = Lesser(Positive(q - d[k]), levels[k + 1].qty)
        /\ h[k + 1] = Lesser(Positive(q - d[k]), levels[k + 1].qty) * levels[k + 1].price
    BY <1>2, <1>4, <1>9
  <2>2. m[k + 1] = [qty |-> Total(g, 1..k) + g[k + 1], cost |-> Total(h, 1..k) + h[k + 1]]
    BY <1>5, <1>9, <2>1
  <2>3. m[k].qty = Total(g, 1..k) /\ m[k].cost = Total(h, 1..k)
    BY <1>7
  <2> HIDE DEF m
  <2> QED
    BY <2>1, <2>2, <2>3 DEF Add
<1>10. m[n] = Market(levels, q)
  BY <1>1, <1>6
<1> HIDE DEF m
<1> QED
  BY <1>8, <1>9, <1>10 DEF Fills, d

\* Deeper levels have more ahead of them, and their depths and worths are numbers.
LEMMA LadderTypes ==
    ASSUME NEW levels \in Levels, NEW k \in 0..Len(levels)
    PROVE  /\ Ahead(levels)[k] \in Nat /\ WorthAhead(levels)[k] \in Nat
           /\ k < Len(levels) =>
                /\ k + 1 \in 0..Len(levels) /\ k + 1 \in DOMAIN levels
                /\ levels[k + 1].qty \in Nat /\ levels[k + 1].price \in Nat /\ levels[k + 1].price > 0
                /\ Ahead(levels)[k + 1] = Ahead(levels)[k] + levels[k + 1].qty
                /\ WorthAhead(levels)[k + 1] =
                      WorthAhead(levels)[k] + levels[k + 1].qty * levels[k + 1].price
<1>1. Ladder(levels, Ahead(levels), WorthAhead(levels))
  BY Ladders
<1>2. Len(levels) \in Nat /\ DOMAIN levels = 1..Len(levels)
  BY LevelTypes
<1>3. k < Len(levels) => k + 1 \in 0..Len(levels) /\ k + 1 \in DOMAIN levels
  BY <1>2
<1> QED
  BY <1>1, <1>3, LevelTypes DEF Ladder

\* After k levels an order has what is ahead of the next, or all it wants.
LEMMA FilledSoFar ==
    ASSUME NEW levels \in Levels, NEW q \in Nat, NEW m, Fills(levels, q, m)
    PROVE  \A k \in 0..Len(levels) : m[k].qty = Lesser(q, Ahead(levels)[k])
<1> DEFINE n == Len(levels)
           d == Ahead(levels)
           G == {k \in 0..n : m[k].qty = Lesser(q, d[k])}
<1>1. n \in Nat /\ DOMAIN levels = 1..n
  BY LevelTypes
<1>2. 0 \in G
  <2>1. d[0] = 0 /\ m[0].qty = 0 /\ 0 \in 0..n
    BY <1>1, Ladders DEF Ladder, Fills, Nothing
  <2> QED
    BY <2>1 DEF Lesser
<1>3. ASSUME NEW k \in 0..n, k < n, k \in G PROVE k + 1 \in G
  <2>1. /\ d[k] \in Nat /\ levels[k + 1].qty \in Nat /\ levels[k + 1].price \in Nat
        /\ d[k + 1] = d[k] + levels[k + 1].qty /\ k + 1 \in 0..n
    BY <1>3, LadderTypes
  <2>2. m[k] \in Fill /\ m[k].qty = Lesser(q, d[k])
        /\ m[k + 1] = Add(m[k], Lesser(Positive(q - d[k]), levels[k + 1].qty), levels[k + 1].price)
    BY <1>3 DEF Fills
  <2> HIDE DEF d
  <2>3. Lesser(Positive(q - d[k]), levels[k + 1].qty) \in Nat
    BY <2>1, PartIsNat
  <2>4. m[k + 1].qty = Lesser(q, d[k]) + Lesser(Positive(q - d[k]), levels[k + 1].qty)
    BY <2>2 DEF Add
  <2>5. \A a, b \in Nat : Lesser(q, a) + Lesser(Positive(q - a), b) = Lesser(q, a + b)
    BY DEF Lesser, Positive
  <2>6. m[k + 1].qty = Lesser(q, d[k + 1])
    BY <2>1, <2>4, <2>5
  <2> QED
    BY <2>1, <2>6
<1> HIDE DEF G, n
<1>4. \A k \in 0..n : k \in G
  BY <1>1, <1>2, <1>3, UpTo
<1> QED
  BY <1>4 DEF G, n

\* No level has more ahead of it than a deeper one.
LEMMA AheadGrows ==
    ASSUME NEW levels \in Levels, NEW i \in 0..Len(levels), NEW j \in 0..Len(levels), i <= j
    PROVE  Ahead(levels)[i] <= Ahead(levels)[j]
<1> DEFINE n == Len(levels)
           d == Ahead(levels)
           G == {k \in 0..n : i <= k => d[i] <= d[k]}
<1>1. n \in Nat
  BY LevelTypes
<1>2. \A k \in 0..n : d[k] \in Nat /\ (k < n => k + 1 \in 0..n /\ d[k] <= d[k + 1])
  <2> TAKE k \in 0..n
  <2>1. d[k] \in Nat /\ (k < n => k + 1 \in 0..n /\ d[k + 1] = d[k] + levels[k + 1].qty /\ levels[k + 1].qty \in Nat)
    BY LadderTypes
  <2> HIDE DEF d
  <2> QED
    BY <2>1
<1> HIDE DEF d, n
<1>3. 0 \in G
  BY <1>1, <1>2 DEF n
<1>4. ASSUME NEW k \in 0..n, k < n, k \in G PROVE k + 1 \in G
  <2>1. d[i] \in Nat /\ d[k] \in Nat /\ d[k + 1] \in Nat /\ k + 1 \in 0..n /\ d[k] <= d[k + 1]
    BY <1>2, <1>4 DEF n
  <2>2. i <= k => d[i] <= d[k]
    BY <1>4
  <2>3. i <= k + 1 => d[i] <= d[k + 1]
    <3>1. CASE i = k + 1
      BY <2>1, <3>1
    <3>2. CASE i # k + 1
      BY <1>1, <2>1, <2>2, <3>2
    <3> QED
      BY <3>1, <3>2
  <2> QED
    BY <2>1, <2>3
<1> HIDE DEF G
<1>5. \A k \in 0..n : k \in G
  BY <1>1, <1>3, <1>4, UpTo
<1> QED
  BY <1>5 DEF G, n, d

\* An order that ends behind the first j levels, and not behind the next, costs
\* what these are worth and its rest at the price of the next.
LEMMA MarketAt ==
    ASSUME NEW levels \in Levels, NEW q \in Nat, NEW j \in 0..Len(levels),
           Ahead(levels)[j] <= q, j < Len(levels) => q <= Ahead(levels)[j + 1]
    PROVE  /\ Market(levels, q) \in Fill
           /\ Market(levels, q).qty = Lesser(q, Ahead(levels)[Len(levels)])
           /\ Market(levels, q).cost =
                IF j = Len(levels) THEN WorthAhead(levels)[j]
                ELSE WorthAhead(levels)[j] + (q - Ahead(levels)[j]) * levels[j + 1].price
<1> DEFINE n == Len(levels)
           d == Ahead(levels)
           K == WorthAhead(levels)
           after == K[j] + (q - d[j]) * levels[j + 1].price
<1>1. n \in Nat /\ n \in 0..n
  BY LevelTypes
<1>0. d[j] <= q /\ (j < n => q <= d[j + 1])
  OBVIOUS
<1>2. PICK m : Fills(levels, q, m) /\ Market(levels, q) = m[n]
  BY MarketFold
<1> DEFINE G == {k \in 0..n : m[k].cost = IF k <= j THEN K[k] ELSE after}
<1>3. 0 \in G
  <2>1. K[0] = 0 /\ m[0].cost = 0 /\ 0 \in 0..n
    BY <1>1, <1>2, Ladders DEF Ladder, Fills, Nothing
  <2> QED
    BY <2>1
<1>4. ASSUME NEW k \in 0..n, k < n, k \in G PROVE k + 1 \in G
  <2> DEFINE part == Lesser(Positive(q - d[k]), levels[k + 1].qty)
             price == levels[k + 1].price
  <2>1. /\ d[k] \in Nat /\ levels[k + 1].qty \in Nat /\ price \in Nat /\ K[k] \in Nat
        /\ d[k + 1] = d[k] + levels[k + 1].qty /\ k + 1 \in 0..n
        /\ K[k + 1] = K[k] + levels[k + 1].qty * price
    BY <1>4, LadderTypes
  <2>2. m[k + 1].cost = m[k].cost + part * price
    <3>1. m[k + 1] = Add(m[k], part, price)
      BY <1>2, <1>4 DEF Fills
    <3> HIDE DEF part, price
    <3> QED
      BY <3>1 DEF Add
  <2>3. m[k].cost = IF k <= j THEN K[k] ELSE after
    BY <1>4
  <2>4. d[j] \in Nat /\ K[j] \in Nat
    BY LadderTypes
  <2>5. CASE k < j
    <3>1. d[k + 1] <= d[j]
      BY <2>1, <2>5, AheadGrows
    <3>2. part = levels[k + 1].qty
      <4> HIDE DEF d
      <4> QED
        BY <1>0, <2>1, <2>4, <3>1 DEF Lesser, Positive
    <3>3. m[k + 1].cost = K[k + 1]
      <4> HIDE DEF part, price, K, after, d, G
      <4> QED
        BY <2>1, <2>2, <2>3, <2>5, <3>2
    <3> QED
      BY <2>1, <2>5, <3>3
  <2>6. CASE k = j
    <3>1. part = q - d[j]
      <4>1. d[k] <= q /\ q <= d[k] + levels[k + 1].qty /\ d[k] = d[j]
        BY <1>0, <1>4, <2>1, <2>6
      <4>2. \A x, y, z \in Nat : x <= y /\ y <= x + z => Lesser(Positive(y - x), z) = y - x
        BY DEF Lesser, Positive
      <4> HIDE DEF d
      <4> QED
        BY <2>1, <4>1, <4>2
    <3>2. m[k + 1].cost = after
      <4>1. m[k].cost = K[j]
        BY <2>3, <2>6
      <4> HIDE DEF part, K, d
      <4> QED
        BY <2>2, <2>6, <3>1, <4>1
    <3> QED
      BY <2>1, <2>6, <3>2
  <2>7. CASE k > j
    <3>1. j + 1 \in 0..n /\ j < n /\ j + 1 <= k
      BY <1>1, <1>4, <2>7
    <3>2. d[j + 1] <= d[k] /\ d[j + 1] \in Nat
      BY <3>1, AheadGrows, LadderTypes
    <3>3. part = 0
      <4> HIDE DEF d
      <4> QED
        BY <1>0, <2>1, <3>1, <3>2 DEF Lesser, Positive
    <3>4. after \in Nat
      <4>1. q - d[j] \in Nat /\ levels[j + 1].price \in Nat
        <5>1. levels[j + 1].price \in Nat
          BY <3>1, LadderTypes
        <5> HIDE DEF d
        <5> QED
          BY <1>0, <2>4, <5>1
      <4>2. (q - d[j]) * levels[j + 1].price \in Nat
        BY <4>1, ProductIsNat
      <4> HIDE DEF d, K
      <4> QED
        BY <2>4, <4>2
    <3>5. m[k + 1].cost = after
      <4> HIDE DEF part, price, K, after, d, G
      <4> QED
        BY <2>1, <2>2, <2>3, <2>7, <3>3, <3>4
    <3> QED
      BY <2>1, <2>7, <3>5
  <2> QED
    BY <2>5, <2>6, <2>7
<1>5. n \in G
  <2> HIDE DEF G, n
  <2> QED
    BY <1>1, <1>3, <1>4, UpTo
<1>6. Market(levels, q).cost = IF n <= j THEN K[n] ELSE after
  BY <1>2, <1>5
<1>7. Market(levels, q) \in Fill
  BY <1>1, <1>2 DEF Fills
<1>8. Market(levels, q).qty = Lesser(q, d[n])
  BY <1>1, <1>2, FilledSoFar
<1>9. n <= j <=> j = n
  BY <1>1
<1> HIDE DEF K, d
<1> QED
  BY <1>6, <1>7, <1>8, <1>9 DEF K, d

\* An order that the side can fill ends in one of its levels.
LEMMA Segment ==
    ASSUME NEW levels \in Levels, NEW q \in Nat, q < Depth(levels)
    PROVE  \E j \in 0..Len(levels) : /\ j < Len(levels) /\ j + 1 \in 0..Len(levels)
                                     /\ Ahead(levels)[j] <= q /\ q < Ahead(levels)[j + 1]
<1> DEFINE n == Len(levels)
           d == Ahead(levels)
           G == {k \in 0..n : d[k] <= q}
<1>1. n \in Nat /\ d[0] = 0 /\ q < d[n]
  BY LevelTypes, Ladders DEF Ladder
<1>2. SUFFICES ASSUME ~\E j \in 0..n : j < n /\ j + 1 \in 0..n /\ d[j] <= q /\ q < d[j + 1]
               PROVE  FALSE
  BY <1>2
<1>3. \A k \in 0..n : d[k] \in Nat
  BY LadderTypes
<1> HIDE DEF d, n
<1>4. 0 \in G
  BY <1>1
<1>5. ASSUME NEW k \in 0..n, k < n, k \in G PROVE k + 1 \in G
  <2>1. k + 1 \in 0..n
    BY <1>1, <1>5
  <2>2. d[k + 1] \in Nat /\ ~(q < d[k + 1])
    BY <1>2, <1>3, <1>5, <2>1
  <2>3. d[k + 1] <= q
    BY <2>2
  <2> QED
    BY <2>1, <2>3
<1>6. n \in G
  <2> HIDE DEF G
  <2>1. \A k \in 0..n : k \in G
    BY <1>1, <1>4, <1>5, UpTo
  <2>2. n \in 0..n
    BY <1>1
  <2> QED
    BY <2>1, <2>2
<1>7. d[n] \in Nat /\ d[n] <= q
  BY <1>1, <1>3, <1>6
<1> QED
  BY <1>1, <1>7

\* What the market fills is a fill, and no more than the side holds.
LEMMA MarketTypes ==
    ASSUME NEW levels \in Levels, NEW q \in Nat
    PROVE  /\ Market(levels, q) \in Fill
           /\ Market(levels, q).qty \in Nat /\ Market(levels, q).cost \in Nat
           /\ Market(levels, q).qty = Lesser(q, Depth(levels)) /\ Depth(levels) \in Nat
<1>1. Depth(levels) = Ahead(levels)[Len(levels)] /\ Len(levels) \in 0..Len(levels)
  BY Ladders, LevelTypes
<1>2. Depth(levels) \in Nat
  BY <1>1, LadderTypes
<1>3. \E j \in 0..Len(levels) : Ahead(levels)[j] <= q /\ (j < Len(levels) => q <= Ahead(levels)[j + 1])
  <2>1. CASE q < Depth(levels)
    <3>1. PICK j \in 0..Len(levels) : /\ j < Len(levels) /\ j + 1 \in 0..Len(levels)
                                      /\ Ahead(levels)[j] <= q /\ q < Ahead(levels)[j + 1]
      BY <2>1, Segment
    <3>2. Ahead(levels)[j + 1] \in Nat
      BY <3>1, LadderTypes
    <3> QED
      BY <3>1, <3>2
  <2>2. CASE q >= Depth(levels)
    <3>1. Ahead(levels)[Len(levels)] <= q
      BY <1>1, <1>2, <2>2
    <3> QED
      BY <1>1, <3>1
  <2> QED
    BY <1>2, <2>1, <2>2
<1>4. Market(levels, q) \in Fill /\ Market(levels, q).qty = Lesser(q, Depth(levels))
  BY <1>1, <1>3, MarketAt
<1>5. Market(levels, q).qty \in Nat /\ Market(levels, q).cost \in Nat
  BY <1>4 DEF Fill
<1> QED
  BY <1>2, <1>4, <1>5

\* More than the side holds costs what it holds.
LEMMA WholeDepth ==
    ASSUME NEW levels \in Levels, NEW q \in Nat, Depth(levels) <= q
    PROVE  Market(levels, q) = Market(levels, Depth(levels))
<1> DEFINE n == Len(levels)
           d == Ahead(levels)
           D == Depth(levels)
<1>1. D = d[n] /\ n \in 0..n /\ n \in Nat /\ D \in Nat
  BY Ladders, LevelTypes, MarketTypes
<1>2. d[n] <= q /\ d[n] <= D
  BY <1>1
<1>3. /\ Market(levels, q) \in Fill /\ Market(levels, q).cost = WorthAhead(levels)[n]
      /\ Market(levels, D) \in Fill /\ Market(levels, D).cost = WorthAhead(levels)[n]
  BY <1>1, <1>2, MarketAt
<1>4. Market(levels, q).qty = Lesser(q, D) /\ Market(levels, D).qty = Lesser(D, D)
  BY <1>1, MarketTypes
<1>5. Lesser(q, D) = Lesser(D, D)
  BY <1>1 DEF Lesser
<1> QED
  BY <1>3, <1>4, <1>5 DEF Fill

\* The price of the unit that follows q units.
UnitPrice(levels, q) == Market(levels, q + 1).cost - Market(levels, q).cost

\* It is the price of the level the unit is in.
LEMMA UnitIs ==
    ASSUME NEW levels \in Levels, NEW q \in Nat, NEW j \in 0..Len(levels), j < Len(levels),
           Ahead(levels)[j] <= q, q < Ahead(levels)[j + 1]
    PROVE  UnitPrice(levels, q) = levels[j + 1].price
<1>1. /\ Ahead(levels)[j] \in Nat /\ Ahead(levels)[j + 1] \in Nat /\ WorthAhead(levels)[j] \in Nat
      /\ levels[j + 1].price \in Nat
  BY LadderTypes
<1>2. /\ q <= Ahead(levels)[j + 1] /\ q + 1 \in Nat
      /\ Ahead(levels)[j] <= q + 1 /\ q + 1 <= Ahead(levels)[j + 1]
  BY <1>1
<1>3. j # Len(levels)
  BY LevelTypes
<1>4. ASSUME NEW r \in Nat, Ahead(levels)[j] <= r, r <= Ahead(levels)[j + 1]
      PROVE  Market(levels, r).cost = WorthAhead(levels)[j] + (r - Ahead(levels)[j]) * levels[j + 1].price
  BY <1>3, <1>4, MarketAt
<1>5. /\ Market(levels, q).cost = WorthAhead(levels)[j] + (q - Ahead(levels)[j]) * levels[j + 1].price
      /\ Market(levels, q + 1).cost =
            WorthAhead(levels)[j] + ((q + 1) - Ahead(levels)[j]) * levels[j + 1].price
  <2>1. Market(levels, q).cost = WorthAhead(levels)[j] + (q - Ahead(levels)[j]) * levels[j + 1].price
    BY <1>2, <1>4
  <2> DEFINE r == q + 1
  <2>2. r \in Nat /\ Ahead(levels)[j] <= r /\ r <= Ahead(levels)[j + 1]
    BY <1>2
  <2>3. Market(levels, r).cost = WorthAhead(levels)[j] + (r - Ahead(levels)[j]) * levels[j + 1].price
    <3> HIDE DEF r
    <3> QED
      BY <1>4, <2>2
  <2> QED
    BY <2>1, <2>3
<1>6. \A w, d, p \in Nat : (w + ((q + 1) - d) * p) - (w + (q - d) * p) = p
  BY SMTT(30)
<1>7. (WorthAhead(levels)[j] + ((q + 1) - Ahead(levels)[j]) * levels[j + 1].price)
         - (WorthAhead(levels)[j] + (q - Ahead(levels)[j]) * levels[j + 1].price) = levels[j + 1].price
  BY <1>1, <1>6
<1> QED
  BY <1>5, <1>7, Zenon DEF UnitPrice

\* Every unit a side holds has a price above zero, at least that of the first
\* level, and no less than the units before it when the levels ascend.
LEMMA Units ==
    ASSUME NEW levels \in Levels, NEW q \in Nat, q < Depth(levels)
    PROVE  /\ UnitPrice(levels, q) \in Nat /\ UnitPrice(levels, q) > 0
           /\ Market(levels, q + 1).cost = Market(levels, q).cost + UnitPrice(levels, q)
           /\ 1 \in DOMAIN levels /\ levels # <<>>
           /\ Ascending(levels) =>
                 /\ levels[1].price <= UnitPrice(levels, q)
                 /\ \A r \in Nat : r <= q => UnitPrice(levels, r) <= UnitPrice(levels, q)
<1>1. PICK j \in 0..Len(levels) : /\ j < Len(levels) /\ j + 1 \in 0..Len(levels)
                                  /\ Ahead(levels)[j] <= q /\ q < Ahead(levels)[j + 1]
  BY Segment
<1>2. Len(levels) \in Nat /\ DOMAIN levels = 1..Len(levels)
  BY LevelTypes
<1>3. j + 1 \in DOMAIN levels /\ 1 \in DOMAIN levels /\ levels # <<>> /\ 1 <= j + 1
  BY <1>1, <1>2
<1>4. UnitPrice(levels, q) = levels[j + 1].price
  BY <1>1, UnitIs
<1>5. levels[j + 1].price \in Nat /\ levels[j + 1].price > 0
  BY <1>3, LevelTypes
<1>6. Market(levels, q).cost \in Nat /\ Market(levels, q + 1).cost \in Nat
  BY MarketTypes, q + 1 \in Nat
<1>7. Market(levels, q + 1).cost = Market(levels, q).cost + UnitPrice(levels, q)
  BY <1>6 DEF UnitPrice
<1>8. ASSUME Ascending(levels), NEW r \in Nat, r <= q
      PROVE  UnitPrice(levels, r) <= UnitPrice(levels, q)
  <2>1. r < Depth(levels)
    BY <1>8, MarketTypes
  <2>2. PICK i \in 0..Len(levels) : /\ i < Len(levels) /\ i + 1 \in 0..Len(levels)
                                    /\ Ahead(levels)[i] <= r /\ r < Ahead(levels)[i + 1]
    BY <2>1, Segment
  <2>3. i <= j
    <3>1. SUFFICES ASSUME j + 1 <= i PROVE FALSE
      BY <1>1, <1>2, <2>2
    <3>2. Ahead(levels)[j + 1] <= Ahead(levels)[i]
      BY <1>1, <3>1, AheadGrows
    <3>3. Ahead(levels)[j + 1] \in Nat /\ Ahead(levels)[i] \in Nat
      BY <1>1, LadderTypes
    <3> QED
      BY <1>1, <1>8, <2>2, <3>2, <3>3
  <2>4. UnitPrice(levels, r) = levels[i + 1].price
    BY <2>2, UnitIs
  <2>5. i + 1 \in DOMAIN levels /\ i + 1 <= j + 1
    BY <1>2, <2>2, <2>3
  <2>6. levels[i + 1].price <= levels[j + 1].price
    BY <1>3, <1>8, <2>5 DEF Ascending
  <2> QED
    BY <1>4, <2>4, <2>6
<1>9. Ascending(levels) => levels[1].price <= levels[j + 1].price
  BY <1>3 DEF Ascending
<1> QED
  BY <1>3, <1>4, <1>5, <1>7, <1>8, <1>9

\* One more unit costs no less.
LEMMA OneMore ==
    ASSUME NEW levels \in Levels, NEW q \in Nat
    PROVE  Market(levels, q).cost <= Market(levels, q + 1).cost
<1>1. Depth(levels) \in Nat
  BY MarketTypes
<1>2. CASE q < Depth(levels)
  <2>1. /\ UnitPrice(levels, q) \in Nat /\ Market(levels, q).cost \in Nat
        /\ Market(levels, q + 1).cost = Market(levels, q).cost + UnitPrice(levels, q)
    BY <1>2, Units, MarketTypes
  <2> QED
    BY <2>1
<1>3. CASE Depth(levels) <= q
  <2>1. Market(levels, q) = Market(levels, Depth(levels))
    BY <1>3, WholeDepth
  <2> DEFINE r == q + 1
  <2>2. r \in Nat /\ Depth(levels) <= r
    BY <1>1, <1>3
  <2>3. Market(levels, r) = Market(levels, Depth(levels))
    <3> HIDE DEF r
    <3> QED
      BY <2>2, WholeDepth
  <2>4. Market(levels, q).cost \in Nat
    BY MarketTypes
  <2> QED
    BY <2>1, <2>3, <2>4
<1> QED
  BY <1>1, <1>2, <1>3

\* A larger order costs no less.
LEMMA CostGrows ==
    ASSUME NEW levels \in Levels, NEW q \in Nat, NEW r \in Nat, r <= q
    PROVE  Market(levels, r).cost <= Market(levels, q).cost
<1> DEFINE G == {k \in 0..q : r <= k => Market(levels, r).cost <= Market(levels, k).cost}
<1>1. \A k \in Nat : Market(levels, k).cost \in Nat
  BY MarketTypes
<1>2. 0 \in G
  BY <1>1
<1>3. ASSUME NEW k \in 0..q, k < q, k \in G PROVE k + 1 \in G
  <2>1. k \in Nat /\ k + 1 \in Nat /\ k + 1 \in 0..q
    BY <1>3
  <2>2. Market(levels, k).cost <= Market(levels, k + 1).cost
    BY <2>1, OneMore
  <2>3. /\ Market(levels, k).cost \in Nat /\ Market(levels, k + 1).cost \in Nat
        /\ Market(levels, r).cost \in Nat
    BY <1>1, <2>1
  <2>4. r <= k => Market(levels, r).cost <= Market(levels, k).cost
    BY <1>3
  <2>5. r <= k + 1 => Market(levels, r).cost <= Market(levels, k + 1).cost
    <3>1. CASE r = k + 1
      BY <2>3, <3>1
    <3>2. CASE r # k + 1
      BY <2>1, <2>2, <2>3, <2>4, <3>2
    <3> QED
      BY <3>1, <3>2
  <2> QED
    BY <2>1, <2>5
<1>4. q \in G
  <2> HIDE DEF G
  <2> QED
    BY <1>2, <1>3, UpTo
<1> QED
  BY <1>4

\* An order costs nothing when it is for nothing.
LEMMA NothingAtAll ==
    ASSUME NEW levels \in Levels
    PROVE  Market(levels, 0) = Nothing
<1>1. 0 \in 0..Len(levels) /\ Ahead(levels)[0] = 0 /\ WorthAhead(levels)[0] = 0
  BY LevelTypes, Ladders DEF Ladder
<1>2. 0 < Len(levels) => Ahead(levels)[0 + 1] \in Nat /\ levels[0 + 1].price \in Nat
  <2>1. 0 < Len(levels) => 0 + 1 \in 0..Len(levels)
    BY LevelTypes
  <2> QED
    BY <1>1, <2>1, LadderTypes
<1>3. /\ Market(levels, 0) \in Fill
      /\ Market(levels, 0).cost =
           IF 0 = Len(levels) THEN WorthAhead(levels)[0]
           ELSE WorthAhead(levels)[0] + (0 - Ahead(levels)[0]) * levels[0 + 1].price
  <2>1. Ahead(levels)[0] <= 0 /\ (0 < Len(levels) => 0 <= Ahead(levels)[0 + 1])
    BY <1>1, <1>2
  <2> QED
    BY <1>1, <2>1, MarketAt
<1>4. Market(levels, 0).cost = 0
  <2>1. \A p \in Nat : 0 + (0 - 0) * p = 0
    OBVIOUS
  <2>2. Len(levels) \in Nat
    BY LevelTypes
  <2> QED
    BY <1>1, <1>2, <1>3, <2>1, <2>2
<1>5. Market(levels, 0).qty = Lesser(0, Depth(levels)) /\ Depth(levels) \in Nat
  BY MarketTypes
<1>6. Market(levels, 0).qty = 0
  BY <1>5 DEF Lesser
<1> QED
  BY <1>3, <1>4, <1>6 DEF Fill, Nothing

\* An order costs no more than its quantity at a price none of its units
\* exceeds, and no less than at one they all reach.
LEMMA CostBetween ==
    ASSUME NEW levels \in Levels, NEW r \in Nat, r <= Depth(levels)
    PROVE  /\ \A u \in Nat : (\A k \in Nat : k < r => UnitPrice(levels, k) <= u)
                                => Market(levels, r).cost <= r * u
           /\ \A u \in Nat : (\A k \in Nat : k < r => u <= UnitPrice(levels, k))
                                => r * u <= Market(levels, r).cost
<1>1. \A k \in Nat : Market(levels, k).cost \in Nat
  BY MarketTypes
<1>2. Market(levels, 0).cost = 0
  BY NothingAtAll DEF Nothing
<1>3. ASSUME NEW k \in 0..r, k < r
      PROVE  /\ k \in Nat /\ k + 1 \in Nat /\ k + 1 \in 0..r /\ UnitPrice(levels, k) \in Nat
             /\ Market(levels, k + 1).cost = Market(levels, k).cost + UnitPrice(levels, k)
  <2>1. k \in Nat /\ k + 1 \in Nat /\ k + 1 \in 0..r
    BY <1>3
  <2>2. k < Depth(levels)
    BY <1>3, <2>1, MarketTypes
  <2> QED
    BY <2>1, <2>2, Units
<1>4. \A k, u, c, v \in Nat : /\ c <= k * u /\ v <= u => c + v <= (k + 1) * u
                              /\ k * u <= c /\ u <= v => (k + 1) * u <= c + v
  BY SMTT(30)
<1>5. ASSUME NEW u \in Nat, \A k \in Nat : k < r => UnitPrice(levels, k) <= u
      PROVE  Market(levels, r).cost <= r * u
  <2> DEFINE G == {k \in 0..r : Market(levels, k).cost <= k * u}
  <2>1. 0 \in G
    <3>1. 0 <= 0 * u /\ 0 \in 0..r
      OBVIOUS
    <3> QED
      BY <1>2, <3>1
  <2>2. ASSUME NEW k \in 0..r, k < r, k \in G PROVE k + 1 \in G
    <3>1. UnitPrice(levels, k) <= u /\ Market(levels, k).cost <= k * u
      BY <1>3, <1>5, <2>2
    <3>2. Market(levels, k).cost + UnitPrice(levels, k) <= (k + 1) * u
      BY <1>1, <1>3, <1>4, <2>2, <3>1
    <3>3. Market(levels, k + 1).cost <= (k + 1) * u
      BY <1>3, <2>2, <3>2
    <3> QED
      BY <1>3, <2>2, <3>3
  <2>3. r \in G
    <3> HIDE DEF G
    <3> QED
      BY <2>1, <2>2, UpTo
  <2> QED
    BY <2>3
<1>6. ASSUME NEW u \in Nat, \A k \in Nat : k < r => u <= UnitPrice(levels, k)
      PROVE  r * u <= Market(levels, r).cost
  <2> DEFINE G == {k \in 0..r : k * u <= Market(levels, k).cost}
  <2>1. 0 \in G
    <3>1. 0 * u <= 0 /\ 0 \in 0..r
      OBVIOUS
    <3> QED
      BY <1>2, <3>1
  <2>2. ASSUME NEW k \in 0..r, k < r, k \in G PROVE k + 1 \in G
    <3>1. u <= UnitPrice(levels, k) /\ k * u <= Market(levels, k).cost
      BY <1>3, <1>6, <2>2
    <3>2. (k + 1) * u <= Market(levels, k).cost + UnitPrice(levels, k)
      BY <1>1, <1>3, <1>4, <2>2, <3>1
    <3>3. (k + 1) * u <= Market(levels, k + 1).cost
      BY <1>3, <2>2, <3>2
    <3> QED
      BY <1>3, <2>2, <3>3
  <2>3. r \in G
    <3> HIDE DEF G
    <3> QED
      BY <2>1, <2>2, UpTo
  <2> QED
    BY <2>3
<1> QED
  BY <1>5, <1>6

\* A smaller order has the better average price, when the best levels come first.
LEMMA SmallerIsCheaper ==
    ASSUME NEW levels \in Levels, Ascending(levels), NEW a \in Nat, a <= Depth(levels),
           NEW r \in Nat, r <= a
    PROVE  Market(levels, r).cost * a <= Market(levels, a).cost * r
<1> DEFINE C(k) == Market(levels, k).cost
           G == {k \in 0..a : r <= k => C(r) * k <= C(k) * r}
<1>1. \A k \in Nat : C(k) \in Nat
  BY MarketTypes
<1>2. Depth(levels) \in Nat
  BY MarketTypes
<1>3. 0 \in G
  <2>1. CASE r = 0
    <3>1. C(r) * 0 <= C(0) * r
      <4>1. C(0) \in Nat /\ C(r) \in Nat
        BY <1>1
      <4> HIDE DEF C
      <4> QED
        BY <2>1, <4>1
    <3> HIDE DEF C
    <3> QED
      BY <3>1
  <2>2. CASE r # 0
    BY <2>2
  <2> QED
    BY <2>1, <2>2
<1>4. ASSUME NEW k \in 0..a, k < a, k \in G PROVE k + 1 \in G
  <2> DEFINE v == UnitPrice(levels, k)
  <2>1. k \in Nat /\ k + 1 \in Nat /\ k + 1 \in 0..a /\ k < Depth(levels)
    BY <1>2, <1>4
  <2>2. /\ v \in Nat /\ C(k + 1) = C(k) + v
        /\ \A j \in Nat : j <= k => UnitPrice(levels, j) <= v
    BY <2>1, Units
  <2>3. CASE r <= k
    <3>1. \A j \in Nat : j < r => UnitPrice(levels, j) <= v
      BY <2>1, <2>2, <2>3
    <3>2. r <= Depth(levels)
      BY <1>2, <2>1, <2>3
    <3>3. C(r) <= r * v
      BY <2>2, <3>1, <3>2, CostBetween
    <3>4. C(r) * k <= C(k) * r
      BY <1>4, <2>3
    <3>5. \A x, y, w, h, i \in Nat : x * h <= y * i /\ x <= i * w => x * (h + 1) <= (y + w) * i
      BY SMTT(30)
    <3>6. C(r) * (k + 1) <= (C(k) + v) * r
      <4>1. C(r) \in Nat /\ C(k) \in Nat
        BY <1>1, <2>1
      <4> HIDE DEF C, v
      <4> QED
        BY <2>1, <2>2, <3>3, <3>4, <3>5, <4>1
    <3>7. C(r) * (k + 1) <= C(k + 1) * r
      BY <2>2, <3>6
    <3> QED
      BY <2>1, <3>7
  <2>4. CASE r = k + 1
    <3>1. C(r) * (k + 1) <= C(k + 1) * r
      <4>1. C(r) * r \in Nat
        BY <1>1, ProductIsNat
      <4> HIDE DEF C
      <4> QED
        BY <2>4, <4>1
    <3> QED
      BY <2>1, <3>1
  <2>5. CASE ~(r <= k + 1)
    BY <2>1, <2>5
  <2>6. r <= k \/ r = k + 1 \/ ~(r <= k + 1)
    BY <2>1
  <2> QED
    BY <2>3, <2>4, <2>5, <2>6
<1>5. a \in G
  <2> HIDE DEF G
  <2> QED
    BY <1>3, <1>4, UpTo
<1> QED
  BY <1>5

\* A purchase of nothing changes nothing.
LEMMA AddNothing ==
    ASSUME NEW f \in Fill, NEW p \in Nat
    PROVE  Add(f, 0, p) = f
<1>1. f.qty \in Nat /\ f.cost \in Nat /\ f = [qty |-> f.qty, cost |-> f.cost]
  BY DEF Fill
<1>2. f.qty + 0 = f.qty /\ f.cost + 0 * p = f.cost
  BY <1>1
<1> QED
  BY <1>1, <1>2 DEF Add

\* Both walks take the part of a level that the market takes.
LEMMA WalksTakeParts ==
    ASSUME NEW levels \in Levels, NEW q \in Nat, NEW i \in DOMAIN levels, NEW f \in Fill,
           NEW d \in Nat, f.qty = Lesser(q, d)
    PROVE  /\ Takes(f, levels[i], q) = Add(f, Lesser(Positive(q - d), levels[i].qty), levels[i].price)
           /\ Walked(f, levels[i], q) = Add(f, Lesser(Positive(q - d), levels[i].qty), levels[i].price)
<1> DEFINE a == levels[i].qty
           p == levels[i].price
           part == Lesser(Positive(q - d), a)
<1>1. a \in Nat /\ p \in Nat /\ p > 0
  BY LevelTypes
<1>2. f.qty = Lesser(q, d)
  OBVIOUS
<1>3. Add(f, 0, p) = f
  BY <1>1, AddNothing
<1>4. a <= 0 => part = 0
  BY <1>1 DEF Lesser, Positive
<1>5. Lesser(a, Positive(q - f.qty)) = part
  <2> HIDE DEF a
  <2> QED
    BY <1>1, <1>2 DEF Lesser, Positive
<1>6. IF f.qty >= q THEN part = 0 ELSE Lesser(a, q - f.qty) = part
  <2> HIDE DEF a
  <2> QED
    BY <1>1, <1>2 DEF Lesser, Positive
<1>7. Takes(f, levels[i], q) = IF a <= 0 THEN f ELSE Add(f, Lesser(a, Positive(q - f.qty)), p)
  BY DEF Takes
<1>8. Walked(f, levels[i], q) =
        IF f.qty >= q \/ p <= 0 \/ a <= 0 THEN f ELSE Add(f, Lesser(a, q - f.qty), p)
  BY DEF Walked
<1>9. ~(p <= 0)
  BY <1>1
<1>10. Takes(f, levels[i], q) = Add(f, part, p)
  <2> HIDE DEF part, a, p
  <2> QED
    BY <1>3, <1>4, <1>5, <1>7
<1>11. Walked(f, levels[i], q) = Add(f, part, p)
  <2> HIDE DEF part, a, p
  <2> QED
    BY <1>3, <1>4, <1>6, <1>8, <1>9
<1> QED
  BY <1>10, <1>11

\* The walks of core/calculations.py and services/simulation.py find the market.
LEMMA WalksAreMarket ==
    ASSUME NEW levels \in Levels, NEW q \in Nat
    PROVE  WalkDepth(levels, q) = Market(levels, q) /\ WalkBook(levels, q) = Market(levels, q)
<1> DEFINE n == Len(levels)
           d == Ahead(levels)
<1>1. n \in Nat /\ n \in 0..n
  BY LevelTypes
<1>2. PICK m : Fills(levels, q, m) /\ Market(levels, q) = m[n]
  BY MarketFold
<1>3. \A k \in 0..n : m[k].qty = Lesser(q, d[k]) /\ m[k] \in Fill /\ d[k] \in Nat
  <2>1. \A k \in 0..n : m[k].qty = Lesser(q, d[k])
    BY <1>2, FilledSoFar
  <2>2. \A k \in 0..n : m[k] \in Fill
    BY <1>2 DEF Fills
  <2>3. \A k \in 0..n : d[k] \in Nat
    BY LadderTypes
  <2> QED
    BY <2>1, <2>2, <2>3
<1>4. ASSUME NEW k \in 0..n, k < n
      PROVE  /\ k + 1 \in 0..n
             /\ Takes(m[k], levels[k + 1], q) = m[k + 1] /\ Walked(m[k], levels[k + 1], q) = m[k + 1]
  <2>1. k + 1 \in 0..n /\ k + 1 \in DOMAIN levels
    BY <1>4, LadderTypes
  <2>2. m[k + 1] = Add(m[k], Lesser(Positive(q - d[k]), levels[k + 1].qty), levels[k + 1].price)
    BY <1>2, <1>4 DEF Fills
  <2>3. m[k].qty = Lesser(q, d[k]) /\ m[k] \in Fill /\ d[k] \in Nat
    BY <1>3
  <2> HIDE DEF d
  <2> QED
    BY <2>1, <2>2, <2>3, WalksTakeParts
<1>5. m[0] = Nothing /\ 0 \in 0..n
  BY <1>1, <1>2 DEF Fills
<1>6. FoldLeft(LAMBDA f, l : Takes(f, l, q), Nothing, levels) = m[n]
  <2>1. PICK w \in [0..n -> Fill] :
              /\ w[0] = Nothing
              /\ \A k \in 0..n : k < n => w[k + 1] = Takes(w[k], levels[k + 1], q)
              /\ FoldLeft(LAMBDA f, l : Takes(f, l, q), Nothing, levels) = w[n]
    BY DepthFold
  <2> DEFINE G == {k \in 0..n : w[k] = m[k]}
  <2>2. 0 \in G
    BY <1>5, <2>1
  <2>3. ASSUME NEW k \in 0..n, k < n, k \in G PROVE k + 1 \in G
    BY <1>4, <2>1, <2>3
  <2>4. n \in G
    <3> HIDE DEF G, n
    <3> QED
      BY <1>1, <2>2, <2>3, UpTo
  <2> QED
    BY <2>1, <2>4
<1>7. WalkBook(levels, q) = m[n]
  <2>1. PICK w \in [0..n -> Fill] :
              /\ w[0] = Nothing
              /\ \A k \in 0..n : k < n => w[k + 1] = Walked(w[k], levels[k + 1], q)
              /\ FoldLeft(LAMBDA f, l : Walked(f, l, q), Nothing, levels) = w[n]
    BY WalkFold
  <2> DEFINE G == {k \in 0..n : w[k] = m[k]}
  <2>2. 0 \in G
    BY <1>5, <2>1
  <2>3. ASSUME NEW k \in 0..n, k < n, k \in G PROVE k + 1 \in G
    BY <1>4, <2>1, <2>3
  <2>4. n \in G
    <3> HIDE DEF G, n
    <3> QED
      BY <1>1, <2>2, <2>3, UpTo
  <2> QED
    BY <2>1, <2>4 DEF WalkBook
<1>8. CASE q = 0
  BY <1>2, <1>7, <1>8, NothingAtAll DEF WalkDepth
<1>9. CASE q # 0
  <2>1. ~(q <= 0)
    BY <1>9
  <2> QED
    BY <1>2, <1>6, <1>7, <2>1 DEF WalkDepth
<1> QED
  BY <1>8, <1>9

\* At a level money buys as much as it can pay and the level holds.
LEMMA BuysAt ==
    ASSUME NEW levels \in Levels, NEW i \in DOMAIN levels, NEW f \in Fill, NEW money \in Nat,
           f.cost <= money
    PROVE  \E part \in Nat :
              /\ part <= levels[i].qty /\ f.cost + part * levels[i].price <= money
              /\ Buys(f, levels[i], money) = Add(f, part, levels[i].price)
              /\ part = levels[i].qty \/ money < (f.cost + part * levels[i].price) + levels[i].price
<1> DEFINE a == levels[i].qty
           p == levels[i].price
           c == f.cost
           x == (money - c) \div p
           Good(part) == /\ part <= a /\ c + part * p <= money
                         /\ Buys(f, levels[i], money) = Add(f, part, p)
                         /\ part = a \/ money < (c + part * p) + p
<1>1. a \in Nat /\ p \in Nat /\ p > 0 /\ c \in Nat /\ c <= money
  BY LevelTypes DEF Fill
<1>2. Add(f, 0, p) = f /\ 0 * p = 0 /\ c + 0 = c
  BY <1>1, AddNothing
<1>3. Buys(f, levels[i], money) =
        IF p <= 0 \/ a <= 0 \/ money <= c THEN f ELSE Add(f, Lesser(a, x), p)
  BY DEF Buys
<1>4. CASE a <= 0 \/ money <= c
  <2>1. Buys(f, levels[i], money) = f
    <3> HIDE DEF a, p, c, x
    <3> QED
      BY <1>3, <1>4
  <2>2. 0 <= a /\ c + 0 * p <= money /\ (0 = a \/ money < (c + 0 * p) + p)
    <3> HIDE DEF a, p, c, x
    <3> QED
      BY <1>1, <1>2, <1>4
  <2>3. Good(0)
    <3> HIDE DEF a, p, c, x
    <3> QED
      BY <1>2, <2>1, <2>2
  <2> QED
    BY <2>3
<1>5. CASE ~(a <= 0 \/ money <= c)
  <2>1. Buys(f, levels[i], money) = Add(f, Lesser(a, x), p)
    <3> HIDE DEF a, p, c, x
    <3> QED
      BY <1>1, <1>3, <1>5
  <2>2. money - c \in Nat
    <3> HIDE DEF a, p, c, x
    <3> QED
      BY <1>1
  <2>3. x \in Nat /\ x * p <= money - c /\ money - c < x * p + p
    BY <1>1, <2>2, Quotient
  <2> HIDE DEF a, p, c, x
  <2>4. CASE a < x
    <3>1. Lesser(a, x) = a
      BY <2>4 DEF Lesser
    <3>2. \A y, z \in Nat : y < z => y * p <= z * p /\ y * p \in Nat /\ z * p \in Nat
      BY <1>1, SMTT(30)
    <3>3. a * p <= x * p /\ a * p \in Nat /\ x * p \in Nat
      BY <1>1, <2>3, <2>4, <3>2
    <3>4. c + a * p <= money /\ a <= a
      BY <1>1, <2>3, <3>3
    <3>5. Good(a)
      BY <2>1, <3>1, <3>4
    <3> QED
      BY <1>1, <3>5 DEF a, p, c
  <2>5. CASE ~(a < x)
    <3>1. Lesser(a, x) = x
      BY <2>5 DEF Lesser
    <3>2. x * p \in Nat
      BY <1>1, <2>3, ProductIsNat
    <3>3. x <= a /\ c + x * p <= money /\ money < (c + x * p) + p
      BY <1>1, <2>3, <2>5, <3>2
    <3>4. Good(x)
      BY <2>1, <3>1, <3>3
    <3> QED
      BY <2>3, <3>4 DEF a, p, c
  <2> QED
    BY <2>4, <2>5
<1> QED
  BY <1>4, <1>5

\* Further levels add to the cost of an order until it has all it wants.
LEMMA FillsGrow ==
    ASSUME NEW levels \in Levels, NEW q \in Nat, NEW m, Fills(levels, q, m),
           NEW i \in 0..Len(levels), NEW j \in 0..Len(levels), i <= j
    PROVE  /\ m[i].cost <= m[j].cost
           /\ q <= Ahead(levels)[i] => m[i].cost = m[j].cost
<1> DEFINE n == Len(levels)
           d == Ahead(levels)
           G == {k \in 0..n : i <= k => /\ m[i].cost <= m[k].cost
                                        /\ q <= d[i] => m[i].cost = m[k].cost}
<1>1. n \in Nat /\ i \in 0..n /\ j \in 0..n /\ 0 \in 0..n
  BY LevelTypes
<1>2. \A k \in 0..n : m[k] \in Fill /\ m[k].cost \in Nat /\ d[k] \in Nat
  BY LadderTypes DEF Fills, Fill
<1>3. 0 \in G
  <2>1. i <= 0 => i = 0
    OBVIOUS
  <2> HIDE DEF d, n
  <2> QED
    BY <1>1, <1>2, <2>1
<1>4. ASSUME NEW k \in 0..n, k < n, k \in G PROVE k + 1 \in G
  <2> DEFINE part == Lesser(Positive(q - d[k]), levels[k + 1].qty)
             p == levels[k + 1].price
  <2>1. k + 1 \in 0..n /\ p \in Nat /\ d[k] \in Nat /\ part \in Nat
    BY <1>4, LadderTypes, PartIsNat
  <2>2. m[k + 1].cost = m[k].cost + part * p
    <3>1. m[k + 1] = Add(m[k], part, p)
      BY <1>4 DEF Fills
    <3> HIDE DEF part, p
    <3> QED
      BY <3>1 DEF Add
  <2>3. part * p \in Nat
    BY <2>1, ProductIsNat
  <2>4. ASSUME i <= k, q <= d[i] PROVE part * p = 0
    <3>1. d[i] <= d[k] /\ d[i] \in Nat
      BY <1>1, <2>4, AheadGrows, LadderTypes
    <3>2. levels[k + 1].qty \in Nat
      BY <1>4, LadderTypes
    <3>3. part = 0
      <4> HIDE DEF d
      <4> QED
        BY <2>1, <2>4, <3>1, <3>2 DEF Lesser, Positive
    <3> HIDE DEF part, p
    <3> QED
      BY <2>1, <3>3
  <2>5. i <= k => /\ m[i].cost <= m[k].cost
                  /\ q <= d[i] => m[i].cost = m[k].cost
    BY <1>4
  <2> HIDE DEF part, p, d, n
  <2>6. i <= k + 1 => /\ m[i].cost <= m[k + 1].cost
                      /\ q <= d[i] => m[i].cost = m[k + 1].cost
    <3>1. CASE i = k + 1
      BY <1>1, <1>2, <3>1
    <3>2. CASE i # k + 1
      <4>1. i <= k + 1 => i <= k
        BY <1>1, <3>2
      <4>2. m[i].cost \in Nat /\ m[k].cost \in Nat
        BY <1>1, <1>2
      <4> QED
        BY <2>2, <2>3, <2>4, <2>5, <4>1, <4>2
    <3> QED
      BY <3>1, <3>2
  <2> QED
    BY <2>1, <2>6
<1>5. j \in G
  <2> HIDE DEF G, n
  <2>1. \A k \in 0..n : k \in G
    BY <1>1, <1>3, <1>4, UpTo
  <2> QED
    BY <1>1, <2>1
<1> QED
  BY <1>5

\* What an order costs buys that order.
LEMMA CostBuysBack ==
    ASSUME NEW levels \in Levels, NEW q \in Nat
    PROVE  Spend(levels, Market(levels, q).cost) = Market(levels, q)
<1> DEFINE n == Len(levels)
           d == Ahead(levels)
           money == Market(levels, q).cost
<1>1. n \in Nat /\ n \in 0..n /\ 0 \in 0..n /\ money \in Nat
  BY LevelTypes, MarketTypes
<1>2. PICK m : Fills(levels, q, m) /\ Market(levels, q) = m[n]
  BY MarketFold
<1>3. \A k \in 0..n : m[k] \in Fill /\ m[k].cost \in Nat
  BY <1>2 DEF Fills, Fill
<1>4. ASSUME NEW k \in 0..n, k < n PROVE Buys(m[k], levels[k + 1], money) = m[k + 1]
  <2> DEFINE part == Lesser(Positive(q - d[k]), levels[k + 1].qty)
             p == levels[k + 1].price
             a == levels[k + 1].qty
             c == m[k].cost
  <2>1. /\ k + 1 \in 0..n /\ k + 1 \in DOMAIN levels /\ p \in Nat /\ p > 0 /\ a \in Nat
        /\ d[k] \in Nat /\ d[k + 1] \in Nat /\ d[k + 1] = d[k] + a /\ part \in Nat
    BY <1>4, LadderTypes, PartIsNat
  <2>2. m[k + 1] = Add(m[k], part, p)
    BY <1>2, <1>4 DEF Fills
  <2>3. m[k + 1].cost = c + part * p
    <3> HIDE DEF part, p
    <3> QED
      BY <2>2 DEF Add
  <2>4. part <= a /\ (part < a => q <= d[k + 1])
    <3> HIDE DEF d
    <3> QED
      BY <2>1 DEF Lesser, Positive
  <2>5. k <= n /\ k + 1 <= n
    BY <1>1, <1>4
  <2>6. m[k].cost <= money /\ m[k + 1].cost <= money /\ (q <= d[k + 1] => m[k + 1].cost = money)
    BY <1>1, <1>2, <2>1, <2>5, FillsGrow
  <2>7. PICK x \in Nat : /\ x <= a /\ c + x * p <= money
                         /\ Buys(m[k], levels[k + 1], money) = Add(m[k], x, p)
                         /\ x = a \/ money < (c + x * p) + p
    BY <1>1, <1>3, <2>1, <2>6, BuysAt
  <2>8. c \in Nat
    BY <1>3
  <2> HIDE DEF part, p, a, c, d, money
  <2>9. c + part * p <= money /\ (part < a => money = c + part * p)
    BY <2>3, <2>4, <2>6
  <2>10. part * p \in Nat /\ x * p \in Nat
    BY <2>1, <2>7, ProductIsNat
  <2>11. \A y, z \in Nat : y < z => y * p + p <= z * p
    BY <2>1, SMTT(30)
  <2>12. x = part
    <3>1. CASE x < part
      <4>1. x * p + p <= part * p
        BY <2>1, <2>7, <2>11, <3>1
      <4>2. x # a
        BY <2>1, <2>4, <2>7, <3>1
      <4> QED
        BY <1>1, <2>1, <2>7, <2>8, <2>9, <2>10, <4>1, <4>2
    <3>2. CASE part < x
      <4>1. part * p + p <= x * p
        BY <2>1, <2>7, <2>11, <3>2
      <4>2. part < a
        BY <2>1, <2>7, <3>2
      <4> QED
        BY <1>1, <2>1, <2>7, <2>8, <2>9, <2>10, <4>1, <4>2
    <3> QED
      BY <2>1, <2>7, <3>1, <3>2
  <2> QED
    BY <2>2, <2>7, <2>12
<1>5. Spend(levels, money) = m[n]
  <2>1. PICK w \in [0..n -> Fill] :
              /\ w[0] = Nothing
              /\ \A k \in 0..n : k < n => w[k + 1] = Buys(w[k], levels[k + 1], money)
              /\ FoldLeft(LAMBDA f, l : Buys(f, l, money), Nothing, levels) = w[n]
    BY <1>1, SpendFold
  <2> DEFINE G == {k \in 0..n : w[k] = m[k]}
  <2>2. 0 \in G
    <3>1. m[0] = Nothing
      BY <1>2 DEF Fills
    <3> QED
      BY <1>1, <2>1, <3>1
  <2>3. ASSUME NEW k \in 0..n, k < n, k \in G PROVE k + 1 \in G
    <3>1. k + 1 \in 0..n
      BY <1>1, <2>3
    <3> HIDE DEF money
    <3> QED
      BY <1>4, <2>1, <2>3, <3>1
  <2>4. n \in G
    <3> HIDE DEF G, n
    <3> QED
      BY <1>1, <2>2, <2>3, UpTo
  <2> QED
    BY <2>1, <2>4 DEF Spend
<1> QED
  BY <1>2, <1>5

\* An order that ends in level j + 1, with what is ahead of it and part of it.
LEMMA MarketInLevel ==
    ASSUME NEW levels \in Levels, NEW j \in 0..Len(levels), j < Len(levels),
           NEW part \in Nat, part <= levels[j + 1].qty
    PROVE  Market(levels, Ahead(levels)[j] + part) =
              Add(Market(levels, Ahead(levels)[j]), part, levels[j + 1].price)
<1> DEFINE d == Ahead(levels)
           p == levels[j + 1].price
           q == d[j] + part
           n == Len(levels)
<1>1. /\ d[j] \in Nat /\ d[j + 1] \in Nat /\ d[j + 1] = d[j] + levels[j + 1].qty
      /\ levels[j + 1].qty \in Nat /\ p \in Nat /\ WorthAhead(levels)[j] \in Nat /\ j + 1 \in 0..n
  BY LadderTypes
<1>2. part <= levels[j + 1].qty
  OBVIOUS
<1>3. q \in Nat /\ d[j] <= q /\ q <= d[j + 1] /\ d[j] <= d[j] /\ d[j] <= d[j + 1]
  <2> HIDE DEF d
  <2> QED
    BY <1>1, <1>2
<1>4. j # n /\ n \in 0..n /\ j + 1 <= n
  BY LevelTypes
<1>5. d[j + 1] <= d[n] /\ d[n] \in Nat
  BY <1>1, <1>4, AheadGrows, LadderTypes
<1>6. ASSUME NEW r \in Nat, d[j] <= r, r <= d[j + 1]
      PROVE  /\ Market(levels, r) \in Fill /\ Market(levels, r).qty = r
             /\ Market(levels, r).cost = WorthAhead(levels)[j] + (r - d[j]) * p
  <2>1. /\ Market(levels, r) \in Fill /\ Market(levels, r).qty = Lesser(r, d[n])
        /\ Market(levels, r).cost = WorthAhead(levels)[j] + (r - d[j]) * p
    BY <1>4, <1>6, MarketAt
  <2>2. Lesser(r, d[n]) = r
    <3> HIDE DEF d
    <3> QED
      BY <1>1, <1>5, <1>6 DEF Lesser
  <2> QED
    BY <2>1, <2>2
<1> HIDE DEF d, p, q
<1>7. /\ Market(levels, q) \in Fill /\ Market(levels, q).qty = q
      /\ Market(levels, q).cost = WorthAhead(levels)[j] + (q - d[j]) * p
      /\ Market(levels, d[j]).qty = d[j]
      /\ Market(levels, d[j]).cost = WorthAhead(levels)[j] + (d[j] - d[j]) * p
  BY <1>1, <1>3, <1>6
<1>8. q - d[j] = part /\ (d[j] - d[j]) * p = 0 /\ part * p \in Nat
  <2>1. part * p \in Nat
    BY <1>1, ProductIsNat
  <2> QED
    BY <1>1, <2>1 DEF q
<1>9. /\ Market(levels, q).qty = Market(levels, d[j]).qty + part
      /\ Market(levels, q).cost = Market(levels, d[j]).cost + part * p
  <2>1. Market(levels, q).cost = WorthAhead(levels)[j] + part * p
    BY <1>7, <1>8
  <2>2. Market(levels, d[j]).cost = WorthAhead(levels)[j]
    BY <1>1, <1>7, <1>8
  <2>3. q = d[j] + part
    BY DEF q
  <2> QED
    BY <1>7, <2>1, <2>2, <2>3
<1>10. Market(levels, q) = Add(Market(levels, d[j]), part, p)
  BY <1>7, <1>9 DEF Fill, Add
<1> QED
  BY <1>10 DEF d, p, q

\* f is what money buys of some first units: it is their market order, and
\* unless it holds all of them the next unit would cost too much.
BoughtOf(levels, depth, money, f) ==
    /\ f.qty <= depth /\ f = Market(levels, f.qty) /\ f.cost <= money
    /\ f.qty = depth \/ money < Market(levels, f.qty + 1).cost

\* The next level adds what money buys of it.
LEMMA BuysOn ==
    ASSUME NEW levels \in Levels, Ascending(levels), NEW money \in Nat,
           NEW k \in 0..Len(levels), k < Len(levels), NEW f \in Fill,
           BoughtOf(levels, Ahead(levels)[k], money, f)
    PROVE  BoughtOf(levels, Ahead(levels)[k + 1], money, Buys(f, levels[k + 1], money))
<1> DEFINE d == Ahead(levels)
           p == levels[k + 1].price
           a == levels[k + 1].qty
           n == Len(levels)
           g == Buys(f, levels[k + 1], money)
<1>1. /\ k + 1 \in 0..n /\ k + 1 \in DOMAIN levels /\ p \in Nat /\ p > 0 /\ a \in Nat
      /\ d[k] \in Nat /\ d[k + 1] \in Nat /\ d[k + 1] = d[k] + a
  BY LadderTypes
<1>2. f.qty \in Nat /\ f.cost \in Nat
  BY DEF Fill
<1>3. /\ f.qty <= d[k] /\ f = Market(levels, f.qty) /\ f.cost <= money
      /\ f.qty = d[k] \/ money < Market(levels, f.qty + 1).cost
  BY DEF BoughtOf
<1>4. PICK x \in Nat : /\ x <= a /\ f.cost + x * p <= money
                       /\ g = Add(f, x, p)
                       /\ x = a \/ money < (f.cost + x * p) + p
  BY <1>1, <1>3, BuysAt
<1>5. ASSUME NEW r \in Nat, d[k] <= r, r < d[k + 1] PROVE UnitPrice(levels, r) = p
  BY <1>5, UnitIs
<1>6. d[k + 1] <= Depth(levels) /\ Depth(levels) \in Nat
  <2>1. k + 1 <= n /\ n \in 0..n /\ Depth(levels) = d[n]
    BY LevelTypes, Ladders
  <2> QED
    BY <1>1, <2>1, AheadGrows, MarketTypes, 0 \in Nat
<1>7. g.qty = f.qty + x /\ g.cost = f.cost + x * p /\ x * p \in Nat
  <2>1. x * p \in Nat
    BY <1>1, ProductIsNat
  <2> HIDE DEF g, p
  <2> QED
    BY <1>4, <2>1 DEF Add
<1>8. CASE f.qty = d[k]
  <2>1. Market(levels, d[k] + x) = Add(Market(levels, d[k]), x, p)
    BY <1>4, MarketInLevel
  <2>2. g = Market(levels, g.qty) /\ g.qty = d[k] + x
    <3> HIDE DEF d, g, p
    <3> QED
      BY <1>3, <1>4, <1>7, <1>8, <2>1
  <2>3. g.qty \in Nat /\ d[k] <= g.qty /\ g.qty <= d[k + 1] /\ (x = a => g.qty = d[k + 1])
        /\ (x # a => g.qty < d[k + 1])
    <3> HIDE DEF d, g, a
    <3> QED
      BY <1>1, <1>4, <2>2
  <2>4. ASSUME x # a PROVE money < Market(levels, g.qty + 1).cost
    <3>1. UnitPrice(levels, g.qty) = p
      BY <1>5, <2>3, <2>4
    <3>2. g.qty < Depth(levels)
      BY <1>1, <1>6, <2>3, <2>4
    <3>3. Market(levels, g.qty + 1).cost = Market(levels, g.qty).cost + UnitPrice(levels, g.qty)
      BY <2>3, <3>2, Units
    <3>4. Market(levels, g.qty).cost = g.cost
      BY <2>2
    <3> HIDE DEF d, g, a, p
    <3> QED
      BY <1>4, <1>7, <2>4, <3>1, <3>3, <3>4
  <2>5. g.cost <= money
    <3> HIDE DEF d, g, a, p
    <3> QED
      BY <1>4, <1>7
  <2> HIDE DEF d, g, a, p
  <2>6. BoughtOf(levels, d[k + 1], money, g)
    BY <2>2, <2>3, <2>4, <2>5 DEF BoughtOf
  <2> QED
    BY <2>6 DEF d, g
<1>9. CASE f.qty # d[k]
  <2>1. money < Market(levels, f.qty + 1).cost /\ f.qty < d[k]
    BY <1>1, <1>2, <1>3, <1>9
  <2>2. x = 0
    <3>1. SUFFICES ASSUME x # 0 PROVE FALSE
      OBVIOUS
    <3>2. d[k] <= d[k] /\ d[k] < d[k + 1] /\ d[k] < Depth(levels) /\ f.qty < Depth(levels) /\ f.qty <= d[k]
      <4>1. x <= a
        BY <1>4
      <4> HIDE DEF d, a, p
      <4> QED
        BY <1>1, <1>2, <1>6, <2>1, <3>1, <4>1
    <3>3. UnitPrice(levels, d[k]) = p
      BY <1>1, <1>5, <3>2
    <3>4. UnitPrice(levels, f.qty) <= p
      BY <1>1, <1>2, <3>2, <3>3, Units
    <3>5. /\ Market(levels, f.qty + 1).cost = Market(levels, f.qty).cost + UnitPrice(levels, f.qty)
          /\ UnitPrice(levels, f.qty) \in Nat
      BY <1>2, <3>2, Units
    <3>6. p <= x * p
      <4>1. \A y, z \in Nat : y # 0 => z <= y * z
        BY SMTT(30)
      <4> QED
        BY <1>1, <3>1, <4>1
    <3>7. Market(levels, f.qty).cost = f.cost
      BY <1>3
    <3>8. f.cost + x * p <= money /\ x * p \in Nat
      BY <1>4, <1>7
    <3>9. money < f.cost + UnitPrice(levels, f.qty)
      BY <2>1, <3>5, <3>7
    <3> DEFINE y == x * p
    <3> HIDE DEF p, y
    <3>10. p <= y /\ f.cost + y <= money /\ y \in Nat
      BY <3>6, <3>8 DEF y
    <3> QED
      BY <1>1, <1>2, <3>4, <3>5, <3>9, <3>10
  <2>3. g = f
    <3> HIDE DEF g, p
    <3> QED
      BY <1>1, <1>4, <2>2, AddNothing
  <2>4. f.qty <= d[k + 1]
    <3> HIDE DEF d, a
    <3> QED
      BY <1>1, <1>2, <1>3
  <2> HIDE DEF d, g
  <2>5. BoughtOf(levels, d[k + 1], money, g)
    BY <1>3, <2>1, <2>3, <2>4 DEF BoughtOf
  <2> QED
    BY <2>5 DEF d, g
<1> QED
  BY <1>8, <1>9

\* Money buys the cheapest units, as many as it can pay and the side holds.
LEMMA SpendBuys ==
    ASSUME NEW levels \in Levels, Ascending(levels), NEW money \in Nat
    PROVE  /\ Spend(levels, money).qty \in Nat /\ Spend(levels, money).cost \in Nat
           /\ BoughtOf(levels, Depth(levels), money, Spend(levels, money))
<1> DEFINE n == Len(levels)
<1>1. n \in Nat /\ Depth(levels) = Ahead(levels)[n] /\ 0 \in 0..n /\ n \in 0..n
  BY LevelTypes, Ladders
<1>2. PICK w \in [0..n -> Fill] :
              /\ w[0] = Nothing
              /\ \A k \in 0..n : k < n => w[k + 1] = Buys(w[k], levels[k + 1], money)
              /\ FoldLeft(LAMBDA f, l : Buys(f, l, money), Nothing, levels) = w[n]
  BY SpendFold
<1> DEFINE G == {k \in 0..n : BoughtOf(levels, Ahead(levels)[k], money, w[k])}
<1>3. 0 \in G
  <2>1. Ahead(levels)[0] = 0 /\ Market(levels, 0) = Nothing
    BY Ladders, NothingAtAll DEF Ladder
  <2>2. Nothing.qty = 0 /\ Nothing.cost = 0
    BY DEF Nothing
  <2>3. BoughtOf(levels, 0, money, Nothing)
    BY <2>1, <2>2 DEF BoughtOf
  <2> QED
    BY <1>1, <1>2, <2>1, <2>3
<1>4. ASSUME NEW k \in 0..n, k < n, k \in G PROVE k + 1 \in G
  <2>1. w[k] \in Fill /\ w[k + 1] = Buys(w[k], levels[k + 1], money) /\ k + 1 \in 0..n
    <3>1. k + 1 \in 0..n
      BY <1>1, <1>4
    <3> QED
      BY <1>2, <1>4, <3>1
  <2>2. BoughtOf(levels, Ahead(levels)[k], money, w[k])
    BY <1>4
  <2>3. BoughtOf(levels, Ahead(levels)[k + 1], money, w[k + 1])
    BY <1>4, <2>1, <2>2, BuysOn
  <2> QED
    BY <2>1, <2>3
<1>5. n \in G
  <2> HIDE DEF G, n
  <2> QED
    BY <1>1, <1>3, <1>4, UpTo
<1>6. Spend(levels, money) = w[n] /\ w[n] \in Fill
  BY <1>1, <1>2 DEF Spend
<1>7. BoughtOf(levels, Ahead(levels)[n], money, w[n])
  BY <1>5
<1>8. w[n].qty \in Nat /\ w[n].cost \in Nat
  BY <1>6 DEF Fill
<1> QED
  BY <1>1, <1>6, <1>7, <1>8

-----------------------------------------------------------------------------
(***************************************************************************)
(* Sales.                                                                  *)
(***************************************************************************)
\* A purchase below a price keeps a fill below it.
LEMMA AddsBelow ==
    ASSUME NEW f \in Fill, NEW best \in Nat, f.cost <= f.qty * best,
           NEW a \in Nat, NEW p \in Nat, p <= best
    PROVE  Add(f, a, p).cost <= Add(f, a, p).qty * best
<1>1. f.cost \in Nat /\ f.qty \in Nat
  BY DEF Fill
<1>2. Add(f, a, p).qty = f.qty + a /\ Add(f, a, p).cost = f.cost + a * p
  BY AddTypes
<1>3. \A x, y, z \in Nat : y <= z => x * y <= x * z
  OBVIOUS
<1>4. a * p <= a * best
  BY <1>3
<1>5. (f.qty + a) * best = f.qty * best + a * best
  BY <1>1
<1>6. f.qty * best \in Nat /\ a * best \in Nat /\ a * p \in Nat
  BY <1>1, ProductIsNat
<1> QED
  BY <1>1, <1>2, <1>4, <1>5, <1>6

\* None of the levels is above the price.
NoneAbove(levels, best) == \A i \in DOMAIN levels : levels[i].price <= best

\* A fill of no more than was ordered, and below a price.
FilledBelow(f, q, best) == f.qty <= q /\ f.cost <= f.qty * best

\* A walk fills no more than was ordered, and below a price that none of the
\* levels exceeds.
LEMMA WalksStayBelow ==
    ASSUME NEW levels \in Levels, NEW q \in Nat, NEW best \in Nat, NoneAbove(levels, best)
    PROVE  /\ WalkBook(levels, q) \in Fill /\ WalkBook(levels, q).qty <= q
           /\ WalkBook(levels, q).cost <= WalkBook(levels, q).qty * best
<1> DEFINE n == Len(levels)
<1>1. n \in Nat /\ DOMAIN levels = 1..n
  BY LevelTypes
<1>2. PICK w \in [0..n -> Fill] :
        /\ w[0] = Nothing
        /\ \A k \in 0..n : k < n => w[k + 1] = Walked(w[k], levels[k + 1], q)
        /\ FoldLeft(LAMBDA f, l : Walked(f, l, q), Nothing, levels) = w[n]
  BY WalkFold
<1> DEFINE G == {k \in 0..n : FilledBelow(w[k], q, best)}
<1>3. 0 \in G
  <2>0. 0 \in 0..n
    BY <1>1
  <2>1. w[0] = Nothing
    BY <1>2
  <2>2. Nothing.qty = 0 /\ Nothing.cost = 0
    BY DEF Nothing
  <2>3. 0 * best = 0
    OBVIOUS
  <2> QED
    BY <2>0, <2>1, <2>2, <2>3 DEF FilledBelow
<1>4. ASSUME NEW k \in 0..n, k < n, k \in G PROVE k + 1 \in G
  <2>0. k + 1 \in 0..n /\ k + 1 \in DOMAIN levels
    BY <1>1, <1>4
  <2>1. w[k] \in Fill /\ w[k + 1] = Walked(w[k], levels[k + 1], q)
    BY <1>2, <1>4
  <2>2. levels[k + 1].price \in Nat /\ levels[k + 1].qty \in Nat /\ levels[k + 1].price <= best
    BY <2>0, LevelTypes DEF NoneAbove
  <2>3. FilledBelow(w[k], q, best) /\ w[k].qty \in Nat
    BY <1>4, <2>1 DEF Fill
  <2> DEFINE take == Lesser(levels[k + 1].qty, q - w[k].qty)
  <2>4. CASE w[k].qty < q /\ w[k + 1] = Add(w[k], take, levels[k + 1].price)
    <3>1. take \in Nat /\ w[k].qty + take <= q
      BY <2>2, <2>3, <2>4 DEF Lesser, FilledBelow
    <3> HIDE DEF take
    <3>2. w[k + 1].qty <= q
      <4>1. Add(w[k], take, levels[k + 1].price).qty = w[k].qty + take
        BY <2>1, <2>2, <3>1, AddTypes
      <4> QED
        BY <2>4, <3>1, <4>1
    <3>3. w[k + 1].cost <= w[k + 1].qty * best
      BY <2>1, <2>2, <2>3, <2>4, <3>1, AddsBelow DEF FilledBelow
    <3> QED
      BY <2>0, <3>2, <3>3 DEF FilledBelow
  <2>5. CASE w[k + 1] = w[k]
    BY <2>0, <2>3, <2>5
  <2>6. (w[k].qty < q /\ w[k + 1] = Add(w[k], take, levels[k + 1].price)) \/ w[k + 1] = w[k]
    BY <2>1, <2>3 DEF Walked
  <2> QED
    BY <2>4, <2>5, <2>6
<1>5. n \in G
  <2> HIDE DEF G, n
  <2> QED
    <3>1. n \in Nat /\ \A k \in 0..n : k < n /\ k \in G => k + 1 \in G
      BY <1>1, <1>4
    <3>2. \A k \in 0..n : k \in G
      BY <1>3, <3>1, UpTo, Zenon
    <3> QED
      BY <3>1, <3>2
<1>6. WalkBook(levels, q) = w[n] /\ w[n] \in Fill
  <2>1. WalkBook(levels, q) = w[n]
    BY <1>2, Zenon DEF WalkBook
  <2>2. w[n] \in Fill
    BY <1>1
  <2> QED
    BY <2>1, <2>2
<1> QED
  BY <1>5, <1>6 DEF FilledBelow

\* A walk fills no more than was ordered.
LEMMA WalksFillAtMost ==
    ASSUME NEW levels \in Levels, NEW q \in Nat
    PROVE  WalkBook(levels, q) \in Fill /\ WalkBook(levels, q).qty <= q
<1>1. Market(levels, q) \in Fill /\ Market(levels, q).qty = Lesser(q, Depth(levels))
      /\ Depth(levels) \in Nat
  BY MarketTypes
<1>2. Lesser(q, Depth(levels)) <= q
  BY <1>1 DEF Lesser
<1> QED
  BY <1>1, <1>2, WalksAreMarket

\* A sale fills no more than was ordered, and brings no more than its quantity at
\* the first bid.
LEMMA SalesBringAtMost ==
    ASSUME NEW levels \in Levels, Descending(levels), NEW q \in Nat
    PROVE  /\ WalkBook(levels, q) \in Fill /\ WalkBook(levels, q).qty <= q
           /\ WalkBook(levels, q).qty # 0 =>
                /\ levels # <<>> /\ levels[1].price \in Nat
                /\ WalkBook(levels, q).cost <= WalkBook(levels, q).qty * levels[1].price
<1>1. Len(levels) \in Nat /\ DOMAIN levels = 1..Len(levels)
  BY LevelTypes
<1>2. CASE Len(levels) = 0
  <2>1. DOMAIN levels = {}
    BY <1>1, <1>2
  <2>2. WalkBook(levels, q).cost <= WalkBook(levels, q).qty * 0
        /\ WalkBook(levels, q) \in Fill /\ WalkBook(levels, q).qty <= q
    BY <2>1, WalksStayBelow DEF NoneAbove
  <2>3. PICK w \in [0..Len(levels) -> Fill] :
          /\ w[0] = Nothing
          /\ FoldLeft(LAMBDA f, l : Walked(f, l, q), Nothing, levels) = w[Len(levels)]
    BY WalkFold
  <2>4. WalkBook(levels, q) = Nothing
    BY <1>2, <2>3 DEF WalkBook
  <2> QED
    BY <2>2, <2>4 DEF Nothing
<1>3. CASE Len(levels) # 0
  <2>1. 1 \in DOMAIN levels /\ \A i \in DOMAIN levels : 1 <= i
    BY <1>1, <1>3
  <2>2. levels[1].price \in Nat
    BY <2>1, LevelTypes
  <2>3. NoneAbove(levels, levels[1].price)
    BY <2>1 DEF Descending, NoneAbove
  <2>4. /\ WalkBook(levels, q) \in Fill /\ WalkBook(levels, q).qty <= q
        /\ WalkBook(levels, q).cost <= WalkBook(levels, q).qty * levels[1].price
    BY <2>2, <2>3, WalksStayBelow
  <2>5. levels # <<>>
    BY <1>3
  <2> QED
    BY <2>2, <2>4, <2>5
<1> QED
  BY <1>2, <1>3
=============================================================================
