-------------------------- MODULE PledgePoolProofs --------------------------
(***************************************************************************)
(* What PledgePool guarantees for any number of users, pools, tokens and    *)
(* for any units, terms, prices and fees; first the facts it rests on about *)
(* the arithmetic of PledgeMath and about sums over users and pools: the    *)
(* partial functions stay in Nat where they are defined, shares never add   *)
(* value, and what settle() matches is sound at the prices it reads.        *)
(***************************************************************************)
EXTENDS PledgePool, FiniteSetTheorems, SequenceTheorems, TLAPS

-----------------------------------------------------------------------------
(* Truncating division.                                                     *)

\* Products of amounts are amounts.
LEMMA ProdNat == ASSUME NEW a \in Nat, NEW b \in Nat PROVE a * b \in Nat
  BY SMT

\* Quotients of amounts are amounts.
LEMMA DivNat == ASSUME NEW a \in Nat, NEW b \in Nat \ {0} PROVE a \div b \in Nat
  BY SMT

\* A quotient times its divisor is the dividend truncated by less than the divisor.
LEMMA DivFloor ==
  ASSUME NEW a \in Nat, NEW b \in Nat \ {0}
  PROVE  /\ (a \div b) * b <= a
         /\ a < ((a \div b) + 1) * b
         /\ a % b = 0 => (a \div b) * b = a
  BY SMT

\* Multiplication is monotonic,
LEMMA ProdMono ==
  ASSUME NEW a \in Nat, NEW b \in Nat, NEW c \in Nat, a <= b PROVE a * c <= b * c
  BY SMT

\* and cancels from both sides of an inequality.
LEMMA ProdCancel ==
  ASSUME NEW a \in Nat, NEW b \in Nat, NEW c \in Nat \ {0}, a * c <= b * c PROVE a <= b
  BY SMT

-----------------------------------------------------------------------------
(* Sums over a finite set of users or pools.  What SumFunction computes is   *)
(* proved by induction over the subsets of its domain, from the library's    *)
(* fact that strict inclusion of finite sets is well founded.                *)

\* The element with which a fold over s starts.
pick(s) == CHOOSE x \in s : TRUE

\* it sums f over each subset of S, one picked element after the other.
Sums(it, f, S) ==
  it = [s \in SUBSET S |-> IF s = {} THEN 0 ELSE f[pick(s)] + it[s \ {pick(s)}]]

\* The library's sum is the last value of such an iteration.
LEMMA FoldIsSums ==
  ASSUME NEW f PROVE SumFunction(f) = (CHOOSE it : Sums(it, f, DOMAIN f))[DOMAIN f]
  BY DEF SumFunction, SumFunctionOnSet, FoldFunctionOnSet, MapThenFoldSet, Sums, pick

\* The element that a fold takes next is one of the set's.
LEMMA PickIn == ASSUME NEW s, s # {} PROVE pick(s) \in s
  BY DEF pick

\* Induction over the subsets of a finite set: a set of subsets that holds each
\* subset all of whose proper subsets it holds, holds them all.
LEMMA SubsetInduction ==
  ASSUME NEW S, IsFiniteSet(S), NEW G,
         \A s \in SUBSET S : (\A t \in SUBSET s : t # s => t \in G) => s \in G
  PROVE  \A s \in SUBSET S : s \in G
<1> DEFINE B == {s \in SUBSET S : s \notin G}
<1> SUFFICES ASSUME B # {} PROVE FALSE
  OBVIOUS
<1>1. IsWellFoundedOn(StrictSubsetOrdering(S), SUBSET S)
  <2>1. IsWellFoundedOn(StrictSubsetOrdering(S), FiniteSubsetsOf(S))
    BY FS_StrictSubsetOrderingWellFounded
  <2>2. FiniteSubsetsOf(S) = SUBSET S
    BY FS_FiniteSubsetsOfFinite
  <2> QED
    BY <2>1, <2>2, Zenon
<1>2. PICK m \in B : \A y \in B : <<y, m>> \notin StrictSubsetOrdering(S)
  <2> HIDE DEF B
  <2>1. B \subseteq SUBSET S
    BY DEF B
  <2> QED
    BY <1>1, <2>1, WFMin
<1>3. \A t \in SUBSET m : t # m => t \in G
  BY <1>2 DEF StrictSubsetOrdering
<1> QED
  BY <1>2, <1>3

\* Each sum is unique, and so its restriction to smaller sets is the sum there.
LEMMA SumsUnique ==
  ASSUME NEW f, NEW S, IsFiniteSet(S), NEW T \in SUBSET S, NEW it, NEW jt,
         Sums(it, f, S), Sums(jt, f, T)
  PROVE  \A s \in SUBSET T : it[s] = jt[s]
<1> DEFINE G == {s \in SUBSET T : it[s] = jt[s]}
<1>1. IsFiniteSet(T)
  BY FS_Subset
<1>2. ASSUME NEW s \in SUBSET T, \A t \in SUBSET s : t # s => t \in G PROVE s \in G
  <2>1. /\ it[s] = IF s = {} THEN 0 ELSE f[pick(s)] + it[s \ {pick(s)}]
        /\ jt[s] = IF s = {} THEN 0 ELSE f[pick(s)] + jt[s \ {pick(s)}]
    BY DEF Sums
  <2>2. CASE s = {}
    BY <2>1, <2>2
  <2>3. CASE s # {}
    <3>1. s \ {pick(s)} \in G
      BY <1>2, <2>3, PickIn
    <3> QED
      BY <2>1, <2>3, <3>1
  <2> QED
    BY <2>2, <2>3
<1> HIDE DEF G
<1>3. \A s \in SUBSET T : s \in G
  BY <1>1, <1>2, SubsetInduction
<1> QED
  BY <1>3 DEF G

\* There is such an iteration for every function on a finite set.
LEMMA SumsExist ==
  ASSUME NEW f, NEW S, IsFiniteSet(S) PROVE \E it : Sums(it, f, S)
<1> DEFINE G == {s \in SUBSET S : \E it : Sums(it, f, s)}
<1>1. ASSUME NEW s \in SUBSET S, \A t \in SUBSET s : t # s => t \in G PROVE s \in G
  <2> DEFINE val(t) == (CHOOSE it : Sums(it, f, t))[t]
  <2>1. ASSUME NEW t \in SUBSET s, t # s
        PROVE val(t) = IF t = {} THEN 0 ELSE f[pick(t)] + val(t \ {pick(t)})
    <3> DEFINE it == CHOOSE i : Sums(i, f, t)
    <3>1. Sums(it, f, t)
      BY <1>1, <2>1
    <3>2. it[t] = IF t = {} THEN 0 ELSE f[pick(t)] + it[t \ {pick(t)}]
      <4> HIDE DEF it
      <4> QED BY <3>1 DEF Sums
    <3>3. CASE t # {}
      <4> DEFINE u == t \ {pick(t)}
                 jt == CHOOSE i : Sums(i, f, u)
      <4>1. u \in SUBSET s /\ u # s /\ u \in SUBSET t
        BY <3>3, PickIn, <2>1
      <4>2. Sums(jt, f, u)
        BY <1>1, <4>1
      <4>3. IsFiniteSet(t)
        BY FS_Subset
      <4>4. it[u] = jt[u]
        <5> HIDE DEF it, jt, u
        <5> QED BY <3>1, <4>1, <4>2, <4>3, SumsUnique
      <4> QED
        BY <3>2, <3>3, <4>4
    <3> QED
      BY <3>2, <3>3
  <2> DEFINE total == IF s = {} THEN 0 ELSE f[pick(s)] + val(s \ {pick(s)})
             it == [t \in SUBSET s |-> IF t = s THEN total ELSE val(t)]
  <2>2. ASSUME NEW t \in SUBSET s
        PROVE it[t] = IF t = {} THEN 0 ELSE f[pick(t)] + it[t \ {pick(t)}]
    <3>1. t # {} => t \ {pick(t)} \in SUBSET s /\ t \ {pick(t)} # s
      BY PickIn
    <3>2. t # {} => it[t \ {pick(t)}] = val(t \ {pick(t)})
      <4> HIDE DEF val, total
      <4> QED BY <3>1
    <3>3. CASE t = s
      <4>1. it[t] = total
        <5> HIDE DEF total, val
        <5> QED BY <3>3
      <4> HIDE DEF it, val
      <4> QED BY <3>2, <3>3, <4>1 DEF total
    <3>4. CASE t # s
      <4>1. it[t] = val(t)
        <5> HIDE DEF total, val
        <5> QED BY <3>4
      <4>2. val(t) = IF t = {} THEN 0 ELSE f[pick(t)] + val(t \ {pick(t)})
        BY <2>1, <3>4
      <4> HIDE DEF it, val
      <4> QED BY <3>2, <4>1, <4>2
    <3> QED
      BY <3>3, <3>4
  <2>3. it = [t \in SUBSET s |-> it[t]]
    OBVIOUS
  <2> HIDE DEF it
  <2>4. it = [t \in SUBSET s |-> IF t = {} THEN 0 ELSE f[pick(t)] + it[t \ {pick(t)}]]
    BY <2>2, <2>3
  <2> QED
    BY <2>4 DEF Sums
<1> HIDE DEF G
<1>2. \A s \in SUBSET S : s \in G
  BY <1>1, SubsetInduction
<1> QED
  BY <1>2 DEF G

\* it holds the sums of f over the subsets of S.
Computes(it, f, S) ==
  /\ it[{}] = 0
  /\ \A s \in SUBSET S : s # {} => it[s] = f[pick(s)] + it[s \ {pick(s)}]

\* The sum of an integer function is computed one picked element after the other.
LEMMA SumIs ==
  ASSUME NEW S, IsFiniteSet(S), NEW f \in [S -> Int]
  PROVE  \E it : SumFunction(f) = it[S] /\ Computes(it, f, S)
<1> DEFINE it == CHOOSE i : Sums(i, f, S)
<1>0. DOMAIN f = S
  OBVIOUS
<1>1. Sums(it, f, S)
  BY SumsExist
<1>2. SumFunction(f) = it[S]
  BY <1>0, FoldIsSums
<1> HIDE DEF it
<1>3. \A s \in SUBSET S : it[s] = IF s = {} THEN 0 ELSE f[pick(s)] + it[s \ {pick(s)}]
  BY <1>1 DEF Sums
<1> QED
  BY <1>2, <1>3 DEF Computes

\* A finite sum of integers is an integer.
LEMMA SumInt ==
  ASSUME NEW S, IsFiniteSet(S), NEW f \in [S -> Int] PROVE SumFunction(f) \in Int
<1>1. PICK it : SumFunction(f) = it[S] /\ Computes(it, f, S)
  BY SumIs
<1> DEFINE G == {s \in SUBSET S : it[s] \in Int}
<1>2. ASSUME NEW s \in SUBSET S, \A t \in SUBSET s : t # s => t \in G PROVE s \in G
  <2>1. CASE s = {}
    BY <1>1, <2>1 DEF Computes
  <2>2. CASE s # {}
    <3>1. pick(s) \in S /\ s \ {pick(s)} \in G
      BY <1>2, <2>2, PickIn
    <3>2. f[pick(s)] + it[s \ {pick(s)}] \in Int
      BY <3>1, SMT
    <3> QED
      BY <1>1, <2>2, <3>2 DEF Computes
  <2> QED
    BY <2>1, <2>2
<1> HIDE DEF G
<1>3. \A s \in SUBSET S : s \in G
  BY <1>2, SubsetInduction
<1> QED
  BY <1>1, <1>3 DEF G

\* A sum that is term by term at most another one, each in its unit.
LEMMA SumCompare ==
  ASSUME NEW S, IsFiniteSet(S), NEW f \in [S -> Int], NEW g \in [S -> Int],
         NEW a \in Int, NEW b \in Int, \A u \in S : a * f[u] <= b * g[u]
  PROVE  a * SumFunction(f) <= b * SumFunction(g)
<1>1. PICK it : SumFunction(f) = it[S] /\ Computes(it, f, S)
  BY SumIs
<1>2. PICK jt : SumFunction(g) = jt[S] /\ Computes(jt, g, S)
  BY SumIs
<1> DEFINE G == {s \in SUBSET S : it[s] \in Int /\ jt[s] \in Int /\ a * it[s] <= b * jt[s]}
<1>3. ASSUME NEW s \in SUBSET S, \A t \in SUBSET s : t # s => t \in G PROVE s \in G
  <2>1. CASE s = {}
    BY <1>1, <1>2, <2>1, SMT DEF Computes
  <2>2. CASE s # {}
    <3> DEFINE u == pick(s)
               r == s \ {u}
    <3>1. u \in S /\ r \in G
      BY <1>3, <2>2, PickIn
    <3>2. it[s] = f[u] + it[r] /\ jt[s] = g[u] + jt[r]
      BY <1>1, <1>2, <2>2 DEF Computes
    <3>3. f[u] \in Int /\ g[u] \in Int /\ a * f[u] <= b * g[u]
      BY <3>1
    <3>4. it[r] \in Int /\ jt[r] \in Int /\ a * it[r] <= b * jt[r]
      BY <3>1
    <3> HIDE DEF u, r
    <3>5. it[s] \in Int /\ jt[s] \in Int
      BY <3>2, <3>3, <3>4, SMT
    <3>6. a * it[s] <= b * jt[s]
      <4>1. ASSUME NEW i \in Int, NEW j \in Int, NEW k \in Int, NEW l \in Int,
                   a * i <= b * k, a * j <= b * l
            PROVE  a * (i + j) <= b * (k + l)
        BY <4>1, SMT
      <4> QED
        BY <3>2, <3>3, <3>4, <4>1
    <3> QED
      BY <3>5, <3>6
  <2> QED
    BY <2>1, <2>2
<1> HIDE DEF G
<1>4. \A s \in SUBSET S : s \in G
  BY <1>3, SubsetInduction
<1> QED
  BY <1>1, <1>2, <1>4 DEF G

\* A finite sum of amounts is an amount.
LEMMA SumNat ==
  ASSUME NEW S, IsFiniteSet(S), NEW f \in [S -> Nat] PROVE SumFunction(f) \in Nat
<1>1. f \in [S -> Int] /\ \A u \in S : 0 * f[u] <= 1 * f[u]
  BY SMT
<1>2. SumFunction(f) \in Int /\ 0 * SumFunction(f) <= 1 * SumFunction(f)
  BY <1>1, SumInt, SumCompare
<1> QED
  BY <1>2, SMT

\* A sum grows with its terms.
LEMMA SumMono ==
  ASSUME NEW S, IsFiniteSet(S), NEW f \in [S -> Int], NEW g \in [S -> Int],
         \A u \in S : f[u] <= g[u]
  PROVE  SumFunction(f) <= SumFunction(g)
<1>1. \A u \in S : 1 * f[u] <= 1 * g[u]
  BY SMT
<1>2. 1 \in Int
  OBVIOUS
<1>3. 1 * SumFunction(f) <= 1 * SumFunction(g)
  BY <1>1, <1>2, SumCompare
<1> QED
  BY <1>3, SumInt, SMT

\* A sum of zeros.
LEMMA SumZero ==
  ASSUME NEW S, IsFiniteSet(S), NEW f \in [S -> Int], \A u \in S : f[u] = 0
  PROVE  SumFunction(f) = 0
<1>3. \A u \in S : 2 * f[u] <= 1 * f[u] /\ 1 * f[u] <= 2 * f[u]
  BY SMT
<1>4. 1 \in Int /\ 2 \in Int
  OBVIOUS
<1>5. 2 * SumFunction(f) <= 1 * SumFunction(f)
  BY <1>3, <1>4, SumCompare
<1>6. 1 * SumFunction(f) <= 2 * SumFunction(f)
  BY <1>3, <1>4, SumCompare
<1> QED
  BY <1>5, <1>6, SumInt, SMT

\* A change of one term changes the sum by as much.
LEMMA SumPoint ==
  ASSUME NEW S, IsFiniteSet(S), NEW f \in [S -> Int], NEW g \in [S -> Int], NEW u \in S,
         \A v \in S : v # u => g[v] = f[v]
  PROVE  SumFunction(g) = SumFunction(f) - f[u] + g[u]
<1>1. PICK it : SumFunction(f) = it[S] /\ Computes(it, f, S)
  BY SumIs
<1>2. PICK jt : SumFunction(g) = jt[S] /\ Computes(jt, g, S)
  BY SumIs
<1> DEFINE d == g[u] - f[u]
           G == {s \in SUBSET S : it[s] \in Int /\ jt[s] = it[s] + (IF u \in s THEN d ELSE 0)}
<1>0. d \in Int
  BY SMT
<1>3. ASSUME NEW s \in SUBSET S, \A t \in SUBSET s : t # s => t \in G PROVE s \in G
  <2>1. CASE s = {}
    BY <1>1, <1>2, <2>1, SMT DEF Computes
  <2>2. CASE s # {}
    <3> DEFINE x == pick(s)
               r == s \ {x}
    <3>1. x \in S /\ x \in s /\ r \in G
      BY <1>3, <2>2, PickIn
    <3>2. it[s] = f[x] + it[r] /\ jt[s] = g[x] + jt[r]
      BY <1>1, <1>2, <2>2 DEF Computes
    <3>3. f[x] \in Int /\ g[x] \in Int /\ (x # u => g[x] = f[x])
      BY <3>1
    <3>4. it[r] \in Int /\ jt[r] = it[r] + (IF u \in r THEN d ELSE 0)
      BY <3>1
    <3>5. CASE x = u
      <4>1. u \notin r /\ u \in s
        BY <3>1, <3>5
      <4> HIDE DEF x, r
      <4> QED BY <3>2, <3>3, <3>4, <3>5, <4>1, SMT
    <3>6. CASE x # u
      <4>1. u \in r <=> u \in s
        BY <3>6
      <4> HIDE DEF x, r, d
      <4> QED BY <1>0, <3>2, <3>3, <3>4, <3>6, <4>1, SMT
    <3> QED
      BY <3>5, <3>6
  <2> QED
    BY <2>1, <2>2
<1> HIDE DEF G
<1>4. \A s \in SUBSET S : s \in G
  BY <1>3, SubsetInduction
<1>5. it[S] \in Int /\ jt[S] = it[S] + d
  BY <1>4 DEF G
<1> QED
  BY <1>1, <1>2, <1>5, SMT

\* Any element can be taken out of a sum first.
LEMMA SumTakes ==
  ASSUME NEW S, IsFiniteSet(S), NEW f \in [S -> Int], NEW it, Computes(it, f, S)
  PROVE  \A x \in S : it[S] = f[x] + it[S \ {x}]
<1> DEFINE G == {s \in SUBSET S : it[s] \in Int /\ \A x \in s : it[s] = f[x] + it[s \ {x}]}
<1>1. ASSUME NEW s \in SUBSET S, \A t \in SUBSET s : t # s => t \in G PROVE s \in G
  <2>1. CASE s = {}
    BY <2>1 DEF Computes
  <2>2. CASE s # {}
    <3> DEFINE y == pick(s)
    <3>1. y \in s /\ it[s] = f[y] + it[s \ {y}]
      BY <2>2, PickIn DEF Computes
    <3>2. s \ {y} \in G
      BY <1>1, <3>1
    <3>3. it[s] \in Int
      BY <3>1, <3>2, SMT
    <3>4. ASSUME NEW x \in s, x # y PROVE it[s] = f[x] + it[s \ {x}]
      <4>1. s \ {x} \in G
        BY <1>1
      <4>2. x \in s \ {y} /\ y \in s \ {x}
        BY <3>1, <3>4
      <4>3. it[s \ {y}] = f[x] + it[(s \ {y}) \ {x}]
        BY <3>2, <4>2
      <4>4. it[s \ {x}] = f[y] + it[(s \ {x}) \ {y}]
        BY <4>1, <4>2
      <4>5. (s \ {x}) \ {y} = (s \ {y}) \ {x}
        OBVIOUS
      <4>6. (s \ {x}) \ {y} \in G
        BY <1>1, <4>2
      <4>7. it[(s \ {x}) \ {y}] \in Int /\ f[x] \in Int /\ f[y] \in Int
        BY <3>1, <4>6
      <4>8. ASSUME NEW a \in Int, NEW b \in Int, NEW i \in Int PROVE a + (b + i) = b + (a + i)
        BY SMT
      <4>9. f[y] + (f[x] + it[(s \ {x}) \ {y}]) = f[x] + (f[y] + it[(s \ {x}) \ {y}])
        BY <4>7, <4>8
      <4> QED
        BY <3>1, <4>3, <4>4, <4>5, <4>9
    <3> QED
      BY <3>1, <3>3, <3>4
  <2> QED
    BY <2>1, <2>2
<1> HIDE DEF G
<1>2. \A s \in SUBSET S : s \in G
  BY <1>1, SubsetInduction
<1> QED
  BY <1>2 DEF G

\* A sum over one element more.
LEMMA SumAppend ==
  ASSUME NEW S, IsFiniteSet(S), NEW x, x \notin S,
         NEW f \in [S -> Int], NEW g \in [S \cup {x} -> Int], \A v \in S : g[v] = f[v]
  PROVE  SumFunction(g) = SumFunction(f) + g[x]
<1>0. IsFiniteSet(S \cup {x})
  BY FS_AddElement
<1>1. PICK it : SumFunction(f) = it[S] /\ Computes(it, f, S)
  BY SumIs
<1> DEFINE T == S \cup {x}
<1>2. PICK jt : SumFunction(g) = jt[T] /\ Computes(jt, g, T)
  <2> HIDE DEF T
  <2>1. IsFiniteSet(T) /\ g \in [T -> Int]
    BY <1>0 DEF T
  <2> QED
    BY <2>1, SumIs
<1> DEFINE G == {s \in SUBSET S : it[s] = jt[s]}
<1>3. ASSUME NEW s \in SUBSET S, \A t \in SUBSET s : t # s => t \in G PROVE s \in G
  <2>1. CASE s = {}
    BY <1>1, <1>2, <2>1 DEF Computes
  <2>2. CASE s # {}
    <3>1. pick(s) \in s /\ s \ {pick(s)} \in G
      BY <1>3, <2>2, PickIn
    <3>2. it[s] = f[pick(s)] + it[s \ {pick(s)}] /\ jt[s] = g[pick(s)] + jt[s \ {pick(s)}]
      BY <1>1, <1>2, <2>2 DEF Computes
    <3> QED
      BY <3>1, <3>2
  <2> QED
    BY <2>1, <2>2
<1> HIDE DEF G
<1>4. \A s \in SUBSET S : s \in G
  BY <1>3, SubsetInduction
<1>5. it[S] = jt[S]
  BY <1>4 DEF G
<1>6. jt[T] = g[x] + jt[T \ {x}]
  <2>1. T \in SUBSET T /\ x \in T
    OBVIOUS
  <2>2. IsFiniteSet(T) /\ g \in [T -> Int] /\ Computes(jt, g, T)
    BY <1>0, <1>2
  <2> HIDE DEF T
  <2>3. \A y \in T : jt[T] = g[y] + jt[T \ {y}]
    BY <2>2, SumTakes
  <2> QED
    BY <2>1, <2>3
<1>7. T \ {x} = S
  OBVIOUS
<1>8. SumFunction(f) \in Int /\ g[x] \in Int
  BY SumInt
<1>9. SumFunction(g) = g[x] + SumFunction(f)
  BY <1>1, <1>2, <1>5, <1>6, <1>7
<1> QED
  BY <1>8, <1>9, SMT

-----------------------------------------------------------------------------
(* Shares.                                                                  *)

\* Truncation only ever favours the pool: a stake within the supply entitles
\* to no more of a total than the total, and never to a negative amount.
LEMMA EntitledBounded ==
  ASSUME NEW tot \in Nat, NEW stake \in Nat, NEW supply \in Nat \ {0}
  PROVE  /\ userShare(stake, supply) \in Nat
         /\ Entitled(tot, stake, supply) \in Nat
         /\ stake <= supply => Entitled(tot, stake, supply) <= tot
<1> DEFINE s == userShare(stake, supply)
<1>0. CalDecimal \in Nat \ {0}
  BY UnitsAssumption
<1>1. stake * CalDecimal \in Nat
  BY <1>0, ProdNat
<1>2. s \in Nat
  BY <1>1, DivNat DEF userShare
<1>3. tot * s \in Nat
  BY <1>2, ProdNat
<1>4. Entitled(tot, stake, supply) \in Nat
  BY <1>0, <1>3, DivNat DEF Entitled, Portion
<1>5. ASSUME stake <= supply PROVE Entitled(tot, stake, supply) <= tot
  <2>1. s * supply <= stake * CalDecimal
    BY <1>1, DivFloor DEF userShare
  <2>2. stake * CalDecimal <= supply * CalDecimal
    BY <1>0, <1>5, ProdMono
  <2>3. s * supply <= CalDecimal * supply
    BY <1>0, <1>1, <1>2, <2>1, <2>2, ProdNat, SMT
  <2>4. s <= CalDecimal
    BY <1>0, <1>2, <2>3, ProdCancel
  <2>5. s * tot <= CalDecimal * tot
    BY <1>0, <1>2, <2>4, ProdMono
  <2>6. Entitled(tot, stake, supply) * CalDecimal <= tot * s
    BY <1>0, <1>3, DivFloor DEF Entitled, Portion
  <2>7. Entitled(tot, stake, supply) * CalDecimal <= tot * CalDecimal
    <3> HIDE DEF s
    <3> QED BY <1>0, <1>2, <1>4, <2>5, <2>6, SMT
  <2> QED
    BY <1>0, <1>4, <2>7, ProdCancel
<1> QED
  BY <1>2, <1>4, <1>5

\* A quotient is the greatest number that fits.
LEMMA DivGreatest ==
  ASSUME NEW a \in Nat, NEW b \in Nat \ {0}, NEW x \in Nat, x * b <= a PROVE x <= a \div b
<1> DEFINE q == a \div b
<1>1. q \in Nat /\ a < (q + 1) * b
  BY DivNat, DivFloor
<1> HIDE DEF q
<1>2. x * b \in Nat /\ (q + 1) * b \in Nat
  BY <1>1, ProdNat
<1>3. ASSUME x > q PROVE FALSE
  <2>1. (q + 1) * b <= x * b
    BY <1>1, <1>3, ProdMono
  <2> DEFINE v == (q + 1) * b
             w == x * b
  <2>2. v \in Nat /\ w \in Nat /\ w <= a /\ a < v /\ v <= w
    BY <1>1, <1>2, <2>1
  <2> HIDE DEF v, w
  <2> QED
    BY <2>2, SMT
<1> QED
  BY <1>1, <1>3, SMT DEF q

\* The truncations of an entitlement, as bounds on its products.
LEMMA EntitledFloors ==
  ASSUME NEW tot \in Nat, NEW stake \in Nat, NEW supply \in Nat \ {0}
  PROVE  /\ CalDecimal \in Nat \ {0}
         /\ userShare(stake, supply) \in Nat
         /\ Entitled(tot, stake, supply) \in Nat
         /\ userShare(stake, supply) * supply <= stake * CalDecimal
         /\ Entitled(tot, stake, supply) * CalDecimal <= tot * userShare(stake, supply)
<1>0. CalDecimal \in Nat \ {0}
  BY UnitsAssumption
<1>1. stake * CalDecimal \in Nat
  BY <1>0, ProdNat
<1>2. userShare(stake, supply) \in Nat
  BY <1>1, DivNat DEF userShare
<1>3. tot * userShare(stake, supply) \in Nat
  BY <1>2, ProdNat
<1> QED
  BY <1>0, <1>1, <1>2, <1>3, DivNat, DivFloor DEF userShare, Entitled, Portion

\* The two parts of a supply never entitle a stake to more than itself.
LEMMA EntitledSplit ==
  ASSUME NEW a \in Nat, NEW b \in Nat, NEW stake \in Nat, a + b # 0
  PROVE  Entitled(a, stake, a + b) + Entitled(b, stake, a + b) <= stake
<1> DEFINE supply == a + b
           s == userShare(stake, supply)
           c == CalDecimal
           ea == Entitled(a, stake, supply)
           eb == Entitled(b, stake, supply)
<1>0. supply \in Nat \ {0}
  BY SMT
<1>1. /\ c \in Nat \ {0} /\ s \in Nat /\ ea \in Nat /\ eb \in Nat
      /\ s * supply <= stake * c /\ ea * c <= a * s /\ eb * c <= b * s
  BY <1>0, EntitledFloors
<1> HIDE DEF s, c, ea, eb
<1>2. (ea + eb) * c = ea * c + eb * c /\ s * supply = a * s + b * s
  BY <1>1, SMT
<1>3. /\ ea * c \in Nat /\ eb * c \in Nat /\ a * s \in Nat /\ b * s \in Nat
      /\ stake * c \in Nat
  BY <1>1, ProdNat
<1>4. ASSUME NEW x \in Nat, NEW y \in Nat, NEW v \in Nat, NEW w \in Nat, NEW z \in Nat,
             x <= v, y <= w, v + w <= z
      PROVE  x + y <= z
  BY <1>4, SMT
<1>5. (ea + eb) * c <= stake * c
  BY <1>1, <1>2, <1>3, <1>4
<1>6. ea + eb \in Nat
  BY <1>1
<1>7. ea + eb <= stake
  BY <1>1, <1>5, <1>6, ProdCancel
<1> QED
  BY <1>7 DEF ea, eb

\* Splitting an amount before redeeming it never gains.
LEMMA EntitledAdds ==
  ASSUME NEW tot \in Nat, NEW a \in Nat, NEW b \in Nat, NEW supply \in Nat \ {0}
  PROVE  Entitled(tot, a, supply) + Entitled(tot, b, supply) <= Entitled(tot, a + b, supply)
<1> DEFINE c == CalDecimal
           sa == userShare(a, supply)
           sb == userShare(b, supply)
           sc == userShare(a + b, supply)
           ea == Entitled(tot, a, supply)
           eb == Entitled(tot, b, supply)
<1>0. a + b \in Nat
  OBVIOUS
<1>1. /\ c \in Nat \ {0} /\ sa \in Nat /\ sb \in Nat /\ sc \in Nat /\ ea \in Nat /\ eb \in Nat
      /\ sa * supply <= a * c /\ sb * supply <= b * c
      /\ ea * c <= tot * sa /\ eb * c <= tot * sb
  BY <1>0, EntitledFloors
<1>2. (a + b) * c \in Nat
  BY <1>0, <1>1, ProdNat
<1>3. sa + sb <= sc
  <2> HIDE DEF sa, sb, c
  <2>1. (sa + sb) * supply = sa * supply + sb * supply /\ (a + b) * c = a * c + b * c
    BY <1>1, SMT
  <2>2. sa * supply \in Nat /\ sb * supply \in Nat /\ a * c \in Nat /\ b * c \in Nat
    BY <1>1, ProdNat
  <2>3. (sa + sb) * supply <= (a + b) * c
    BY <1>1, <2>1, <2>2, SMT
  <2>4. sa + sb \in Nat
    BY <1>1
  <2>5. sa + sb <= ((a + b) * c) \div supply
    BY <1>2, <2>3, <2>4, DivGreatest
  <2> QED
    BY <2>5 DEF userShare, c
<1> HIDE DEF c, sa, sb, sc, ea, eb
<1>4. (sa + sb) * tot <= sc * tot
  BY <1>1, <1>3, ProdMono
<1>5. /\ (ea + eb) * c = ea * c + eb * c
      /\ (sa + sb) * tot = tot * sa + tot * sb
      /\ sc * tot = tot * sc
  BY <1>1, SMT
<1>6. /\ ea * c \in Nat /\ eb * c \in Nat /\ tot * sa \in Nat /\ tot * sb \in Nat
      /\ tot * sc \in Nat
  BY <1>1, ProdNat
<1>7. ASSUME NEW x \in Nat, NEW y \in Nat, NEW v \in Nat, NEW w \in Nat, NEW z \in Nat,
             x <= v, y <= w, v + w <= z
      PROVE  x + y <= z
  BY <1>7, SMT
<1>8. (ea + eb) * c <= tot * sc
  BY <1>1, <1>4, <1>5, <1>6, <1>7
<1>9. ea + eb \in Nat
  BY <1>1
<1>10. ea + eb <= (tot * sc) \div c
  BY <1>1, <1>6, <1>8, <1>9, DivGreatest
<1> QED
  BY <1>10 DEF ea, eb, sc, c, Entitled, Portion

\* Shares never add up to more than the total: what all stakes in a supply are
\* entitled to stays within the total that is divided.
LEMMA EntitledSum ==
  ASSUME NEW U, IsFiniteSet(U), NEW tot \in Nat, NEW supply \in Nat \ {0},
         NEW f \in [U -> Nat], SumFunction(f) <= supply,
         NEW g \in [U -> Nat], \A u \in U : g[u] <= Entitled(tot, f[u], supply)
  PROVE  SumFunction(g) <= tot
<1> DEFINE c == CalDecimal
           h == [u \in U |-> userShare(f[u], supply)]
           sf == SumFunction(f)
           sg == SumFunction(g)
           sh == SumFunction(h)
<1>0. c \in Nat \ {0}
  BY UnitsAssumption
<1>1. ASSUME NEW u \in U
      PROVE  /\ f[u] \in Nat /\ g[u] \in Nat /\ h[u] \in Nat
             /\ supply * h[u] <= c * f[u]
             /\ c * g[u] <= tot * h[u]
  <2> DEFINE e == Entitled(tot, f[u], supply)
             s == h[u]
  <2>1. /\ s \in Nat /\ e \in Nat /\ s * supply <= f[u] * c /\ e * c <= tot * s
    BY EntitledFloors
  <2>2. g[u] \in Nat /\ g[u] <= e /\ f[u] \in Nat
    OBVIOUS
  <2> HIDE DEF e, s, c
  <2>3. g[u] * c <= e * c
    BY <1>0, <2>1, <2>2, ProdMono
  <2> DEFINE x == g[u] * c
             y == e * c
             z == tot * s
  <2>4. x \in Nat /\ y \in Nat /\ z \in Nat
    BY <1>0, <2>1, <2>2, ProdNat
  <2>5. x <= y /\ y <= z
    BY <2>1, <2>3
  <2>6. x <= z
    <3> HIDE DEF x, y, z
    <3> QED BY <2>4, <2>5, SMT
  <2>7. c * g[u] = x /\ supply * s = s * supply /\ c * f[u] = f[u] * c
    BY <1>0, <2>1, <2>2, SMT
  <2> QED
    BY <2>1, <2>2, <2>6, <2>7 DEF s
<1>2. f \in [U -> Int] /\ g \in [U -> Int] /\ h \in [U -> Nat] /\ h \in [U -> Int]
  BY <1>1, SMT
<1>3. supply \in Int /\ c \in Int /\ tot \in Int
  BY <1>0
<1> HIDE DEF c, h
<1>4. sf \in Nat /\ sg \in Nat /\ sh \in Nat
  BY <1>2, SumNat
<1>5. supply * sh <= c * sf
  BY <1>1, <1>2, <1>3, SumCompare
<1>6. c * sg <= tot * sh
  BY <1>1, <1>2, <1>3, SumCompare
<1> HIDE DEF sf, sg, sh
<1>7. sh <= c
  <2>1. sf * c <= supply * c
    BY <1>0, <1>4, ProdMono DEF sf
  <2>2. c * sf = sf * c /\ supply * sh = sh * supply /\ supply * c = c * supply
    BY <1>0, <1>4, SMT
  <2> DEFINE x == sh * supply
             y == sf * c
             z == c * supply
  <2>3. x \in Nat /\ y \in Nat /\ z \in Nat
    BY <1>0, <1>4, ProdNat
  <2>4. x <= y /\ y <= z
    BY <1>5, <2>1, <2>2
  <2>5. x <= z
    <3> HIDE DEF x, y, z
    <3> QED BY <2>3, <2>4, SMT
  <2> QED
    BY <1>0, <1>4, <2>5, ProdCancel
<1>8. sh * tot <= c * tot
  BY <1>0, <1>4, <1>7, ProdMono
<1>9. sg * c <= tot * c
  <2>1. c * sg = sg * c /\ tot * sh = sh * tot /\ c * tot = tot * c
    BY <1>0, <1>4, SMT
  <2> DEFINE x == sg * c
             y == sh * tot
             z == tot * c
  <2>2. x \in Nat /\ y \in Nat /\ z \in Nat
    BY <1>0, <1>4, ProdNat
  <2>3. x <= y /\ y <= z
    BY <1>6, <1>8, <2>1
  <2> HIDE DEF x, y, z
  <2>4. x <= z
    BY <2>2, <2>3, SMT
  <2> QED
    BY <2>4 DEF x, z
<1>10. sg <= tot
  BY <1>0, <1>4, <1>9, ProdCancel
<1> QED
  BY <1>10 DEF sg

-----------------------------------------------------------------------------
(* Interest and fees.                                                       *)

\* What lenders are owed, and what must be sold for it with the fee, are amounts
\* when the pool ends after it settles.
LEMMA OwedNat ==
  ASSUME NEW pool, NEW settled \in Nat, NEW fee \in Nat,
         pool.settleTime \in Nat, pool.endTime \in Nat, pool.interestRate \in Nat,
         pool.endTime >= pool.settleTime
  PROVE  /\ lendAmount(pool, settled) \in Nat
         /\ sellAmount(lendAmount(pool, settled), fee) \in Nat
<1>0. BaseDecimal \in Nat \ {0} /\ BaseYear \in Nat \ {0}
  BY UnitsAssumption
<1> DEFINE t == timeRatio(pool)
           i == interest(pool, settled)
           l == lendAmount(pool, settled)
<1>1. (pool.endTime - pool.settleTime) * BaseDecimal \in Nat
  BY <1>0, ProdNat
<1>2. t \in Nat
  BY <1>0, <1>1, DivNat DEF timeRatio
<1>3. t * (pool.interestRate * settled) \in Nat
  BY <1>2, ProdNat
<1>4. BaseDecimal * BaseDecimal \in Nat \ {0}
  BY <1>0, SMT
<1>5. i \in Nat
  BY <1>3, <1>4, DivNat DEF interest
<1>6. l \in Nat
  BY <1>5 DEF lendAmount
<1>7. l * (fee + BaseDecimal) \in Nat
  BY <1>0, <1>6, ProdNat
<1>8. sellAmount(l, fee) \in Nat
  BY <1>0, <1>7, DivNat DEF sellAmount
<1> QED
  BY <1>6, <1>8

\* A fee is an amount.
LEMMA FeeNat ==
  ASSUME NEW amount \in Nat, NEW ratio \in Nat
  PROVE  feeOf(amount, ratio) \in Nat
  BY UnitsAssumption, ProdNat, DivNat DEF feeOf

\* The jp of a settled loan is an amount.
LEMMA JpNat ==
  ASSUME NEW settled \in Nat, NEW rate \in Nat
  PROVE  totalJpAmount(settled, rate) \in Nat
  BY UnitsAssumption, ProdNat, DivNat DEF totalJpAmount

-----------------------------------------------------------------------------
(* Settlement.                                                              *)

\* What a collateral is worth, and the loan that value supports.
LEMMA ValueBounds ==
  ASSUME NEW borrow \in Nat, NEW p0 \in Nat \ {0}, NEW p1 \in Nat, NEW rate \in Nat \ {0}
  PROVE  /\ totalValue(borrow, p0, p1) \in Nat
         /\ totalValue(borrow, p0, p1) * p0 <= borrow * p1
         /\ actualValue(borrow, p0, p1, rate) \in Nat
         /\ actualValue(borrow, p0, p1, rate) * rate <= totalValue(borrow, p0, p1) * BaseDecimal
<1>0. CalDecimal \in Nat \ {0} /\ BaseDecimal \in Nat \ {0}
  BY UnitsAssumption
<1> DEFINE r == (p1 * CalDecimal) \div p0
           v == totalValue(borrow, p0, p1)
           a == actualValue(borrow, p0, p1, rate)
<1>1. p1 * CalDecimal \in Nat
  BY <1>0, ProdNat
<1>2. r \in Nat /\ r * p0 <= p1 * CalDecimal
  BY <1>1, DivNat, DivFloor
<1>3. borrow * r \in Nat
  BY <1>2, ProdNat
<1>4. v \in Nat /\ v * CalDecimal <= borrow * r
  BY <1>0, <1>3, DivNat, DivFloor DEF totalValue
<1>5. v * p0 <= borrow * p1
  <2> HIDE DEF r, v
  <2>1. (v * CalDecimal) * p0 <= (borrow * r) * p0
    BY <1>0, <1>3, <1>4, ProdNat, ProdMono
  <2>2. (r * p0) * borrow <= (p1 * CalDecimal) * borrow
    BY <1>1, <1>2, ProdNat, ProdMono
  <2>3. (borrow * r) * p0 = (r * p0) * borrow
    BY <1>2, SMT
  <2>4. (v * p0) * CalDecimal = (v * CalDecimal) * p0
    BY <1>0, <1>4, SMT
  <2>5. (p1 * CalDecimal) * borrow = (borrow * p1) * CalDecimal
    BY <1>0, SMT
  <2>6. v * p0 \in Nat /\ borrow * p1 \in Nat
    BY <1>4, ProdNat
  <2>7. (v * p0) * CalDecimal <= (borrow * p1) * CalDecimal
    <3> DEFINE w == (v * CalDecimal) * p0
               x == (r * p0) * borrow
               y == (borrow * p1) * CalDecimal
    <3>1. w \in Nat /\ x \in Nat /\ y \in Nat
      BY <1>0, <1>2, <1>4, ProdNat
    <3>2. w <= x /\ x <= y
      BY <2>1, <2>2, <2>3, <2>5
    <3>3. w <= y
      <4> HIDE DEF w, x, y
      <4> QED BY <3>1, <3>2, SMT
    <3> QED BY <3>3, <2>4
  <2> QED
    BY <1>0, <2>6, <2>7, ProdCancel
<1>6. v * BaseDecimal \in Nat
  BY <1>0, <1>4, ProdNat
<1>7. a \in Nat /\ a * rate <= v * BaseDecimal
  BY <1>6, DivNat, DivFloor DEF actualValue
<1> QED
  BY <1>4, <1>5, <1>7

\* Whatever the units, prices and supplies, the loan settle() matches is within
\* the deposits and is covered, to the unit truncation costs, by the collateral
\* it matches; an exact price ratio keeps that collateral within the pledges.
THEOREM SettlementSound ==
  ASSUME NEW lend \in Nat, NEW borrow \in Nat, NEW p0 \in Nat, NEW p1 \in Nat,
         NEW rate \in Nat, SettleDefined(lend, borrow, p0, p1, rate)
  PROVE  LET m == SettleAmounts(lend, borrow, p0, p1, rate)
         IN  /\ m.lend \in Nat /\ m.borrow \in Nat
             /\ m.lend <= lend
             /\ m.lend * rate * p0 <= (m.borrow + 1) * p1 * BaseDecimal
             /\ (p1 * BaseDecimal) % p0 = 0 => m.borrow <= borrow
<1>0. CalDecimal \in Nat \ {0} /\ BaseDecimal \in Nat \ {0}
  BY UnitsAssumption
<1>1. p0 \in Nat \ {0} /\ rate \in Nat \ {0}
  BY DEF SettleDefined
<1> DEFINE v == totalValue(borrow, p0, p1)
           a == actualValue(borrow, p0, p1, rate)
           d == priceRatio(p0, p1)
           m == SettleAmounts(lend, borrow, p0, p1, rate)
           pb == p1 * BaseDecimal
<1>2. /\ v \in Nat /\ v * p0 <= borrow * p1
      /\ a \in Nat /\ a * rate <= v * BaseDecimal
  BY <1>1, ValueBounds
<1>3. pb \in Nat
  BY <1>0, ProdNat
<1>4. d \in Nat /\ d * p0 <= pb /\ (pb % p0 = 0 => d * p0 = pb)
  BY <1>1, <1>3, DivNat, DivFloor DEF priceRatio
<1>5. (a * rate) * p0 <= borrow * pb
  <2> HIDE DEF v, a, pb
  <2>1. (a * rate) * p0 <= (v * BaseDecimal) * p0
    BY <1>0, <1>1, <1>2, ProdNat, ProdMono
  <2>2. (v * p0) * BaseDecimal <= (borrow * p1) * BaseDecimal
    BY <1>0, <1>1, <1>2, ProdNat, ProdMono
  <2>3. (v * BaseDecimal) * p0 = (v * p0) * BaseDecimal
    BY <1>0, <1>1, <1>2, SMT
  <2>4. (borrow * p1) * BaseDecimal = borrow * pb
    BY <1>0, SMT DEF pb
  <2> DEFINE w == (a * rate) * p0
             x == (v * p0) * BaseDecimal
             y == borrow * pb
  <2>5. w \in Nat /\ x \in Nat /\ y \in Nat
    BY <1>0, <1>1, <1>2, <1>3, ProdNat
  <2>6. w <= x /\ x <= y
    BY <2>1, <2>2, <2>3, <2>4
  <2>7. w <= y
    <3> HIDE DEF w, x, y
    <3> QED BY <2>5, <2>6, SMT
  <2> QED BY <2>7
<1>6. (m.borrow + 1) * p1 * BaseDecimal = (m.borrow + 1) * pb
  \* association of the products, in either case an integer
  <2>1. m.borrow \in Int
    BY <1>0, <1>1, <1>2, <1>4, SMT DEF SettleAmounts, SettleDefined
  <2> QED
    BY <1>0, <2>1, SMT
<1>7. CASE lend > a
  <2>1. m.lend = a /\ m.borrow = borrow
    BY <1>7 DEF SettleAmounts
  <2>2. borrow * pb <= (borrow + 1) * pb
    BY <1>3, ProdMono
  <2>3. (a * rate) * p0 <= (borrow + 1) * pb
    <3> DEFINE w == (a * rate) * p0
               x == borrow * pb
               y == (borrow + 1) * pb
    <3>1. w \in Nat /\ x \in Nat /\ y \in Nat
      BY <1>1, <1>2, <1>3, ProdNat
    <3>2. w <= x /\ x <= y
      BY <1>5, <2>2
    <3>3. w <= y
      <4> HIDE DEF w, x, y
      <4> QED BY <3>1, <3>2, SMT
    <3> QED BY <3>3
  <2> HIDE DEF a, m, pb
  <2> QED
    BY <1>2, <1>6, <1>7, <2>1, <2>3 DEF m
<1>8. CASE ~(lend > a)
  <2> DEFINE b == (lend * rate) \div d
  <2>1. m.lend = lend /\ m.borrow = b
    BY <1>8 DEF SettleAmounts
  <2>2. d \in Nat \ {0}
    BY <1>4, <1>8 DEF SettleDefined
  <2>3. lend * rate \in Nat
    BY <1>1, ProdNat
  <2>4. b \in Nat /\ b * d <= lend * rate /\ lend * rate < (b + 1) * d
    BY <2>2, <2>3, DivNat, DivFloor
  <2> HIDE DEF a, b, d, m, pb
  <2>5. (lend * rate) * p0 <= (b + 1) * pb
    <3>1. (lend * rate) * p0 <= ((b + 1) * d) * p0
      <4>1. (b + 1) * d \in Nat
        BY <2>2, <2>4, ProdNat
      <4>2. lend * rate <= (b + 1) * d
        BY <2>3, <2>4, <4>1, SMT
      <4> QED BY <1>1, <2>3, <4>1, <4>2, ProdMono
    <3>2. (d * p0) * (b + 1) <= pb * (b + 1)
      <4>1. d * p0 \in Nat /\ b + 1 \in Nat
        BY <1>1, <2>2, <2>4, ProdNat
      <4> QED BY <1>3, <1>4, <4>1, ProdMono
    <3>3. ((b + 1) * d) * p0 = (d * p0) * (b + 1)
      BY <1>1, <2>2, <2>4, SMT
    <3>4. pb * (b + 1) = (b + 1) * pb
      BY <1>3, <2>4, SMT
    <3> DEFINE w == (lend * rate) * p0
               x == (d * p0) * (b + 1)
               y == (b + 1) * pb
    <3>5. w \in Nat /\ x \in Nat /\ y \in Nat
      <4>1. d * p0 \in Nat /\ b + 1 \in Nat
        BY <1>1, <2>2, <2>4, ProdNat
      <4> QED BY <1>1, <1>3, <2>3, <4>1, ProdNat
    <3>6. w <= x /\ x <= y
      BY <3>1, <3>2, <3>3, <3>4
    <3>7. w <= y
      <4> HIDE DEF w, x, y
      <4> QED BY <3>5, <3>6, SMT
    <3> QED BY <3>7
  <2>6. ASSUME pb % p0 = 0 PROVE b <= borrow
    <3>1. (lend * rate) * p0 <= (a * rate) * p0
      <4>1. lend * rate <= a * rate
        BY <1>1, <1>2, <1>8, ProdMono
      <4> QED BY <1>1, <1>2, <2>3, <4>1, ProdNat, ProdMono
    <3>2. (b * d) * p0 <= (lend * rate) * p0
      BY <1>1, <2>2, <2>3, <2>4, ProdNat, ProdMono
    <3>3. (b * d) * p0 = b * pb
      BY <1>1, <1>4, <2>2, <2>4, <2>6, SMT
    <3> DEFINE w == b * pb
               x == (lend * rate) * p0
               y == (a * rate) * p0
               z == borrow * pb
    <3>4. w \in Nat /\ x \in Nat /\ y \in Nat /\ z \in Nat
      BY <1>1, <1>2, <1>3, <2>3, <2>4, ProdNat
    <3>5. w <= x /\ x <= y /\ y <= z
      BY <1>5, <3>1, <3>2, <3>3
    <3>6. w <= z
      <4> HIDE DEF w, x, y, z
      <4> QED BY <3>4, <3>5, SMT
    <3>7. pb # 0
      BY <1>1, <1>4, <2>2, <2>6, SMT
    <3> QED
      BY <1>3, <2>4, <3>6, <3>7, ProdCancel
  <2> QED
    BY <1>6, <2>1, <2>4, <2>5, <2>6, SMT DEF m, pb
<1> QED
  BY <1>7, <1>8

-----------------------------------------------------------------------------
(* The inductive invariant.  TypeOK is not inductive by itself: a share      *)
(* divides by the pool's supply, which is positive because it is never less  *)
(* than a stake in it, and interest subtracts the settle time from the end.  *)

StakesWithinSupply ==
  \A u \in Users, pid \in Created :
    /\ userLendInfo[u][pid].stakeAmount <= poolBaseInfo[pid].lendSupply
    /\ userBorrowInfo[u][pid].stakeAmount <= poolBaseInfo[pid].borrowSupply

UncreatedUnused ==
  \A u \in Users, pid \in Pids \ Created :
    /\ userLendInfo[u][pid].stakeAmount = 0
    /\ userBorrowInfo[u][pid].stakeAmount = 0

TermsOrdered == \A pid \in Created : poolBaseInfo[pid].settleTime < poolBaseInfo[pid].endTime

IInv == TypeOK /\ StakesWithinSupply /\ UncreatedUnused /\ TermsOrdered

-----------------------------------------------------------------------------
(* Facts about a state that satisfies the invariant.                        *)

\* A created pool's records have their types, and its identifier is bounded.
LEMMA PoolTyped ==
  ASSUME TypeOK, NEW pid \in Created
  PROVE  /\ pid \in Pids
         /\ poolBaseInfo[pid] \in PoolBaseInfo
         /\ poolDataInfo[pid] \in PoolDataInfo
  BY PoolAssumption, SMT DEF TypeOK, Created, Pids

\* Assigning one position of an array keeps its length and type.
LEMMA Update ==
  ASSUME NEW S, NEW s \in Seq(S), NEW i \in 1..Len(s), NEW v \in S
  PROVE  /\ [s EXCEPT ![i] = v] \in Seq(S)
         /\ Len([s EXCEPT ![i] = v]) = Len(s)
  OBVIOUS

\* The same, position by position.
LEMMA ReplaceAt ==
  ASSUME NEW S, NEW s \in Seq(S), NEW i \in 1..Len(s), NEW v \in S
  PROVE  \A b : b = [s EXCEPT ![i] = v] =>
           /\ b \in Seq(S) /\ Len(b) = Len(s)
           /\ b[i] = v
           /\ \A q \in 1..Len(s) : q # i => b[q] = s[q]
  BY Update, SMT

\* A new contract satisfies the invariant.
THEOREM InitOK == Init => IInv
<1> SUFFICES ASSUME Init PROVE IInv
  OBVIOUS
<1>1. TypeOK
  <2>1. price \in [Tokens -> Nat]
    BY PoolAssumption DEF Init
  <2>2. noInfo \in UserInfo
    BY DEF noInfo, UserInfo
  <2>3. poolBaseInfo \in Seq(PoolBaseInfo) /\ poolDataInfo \in Seq(PoolDataInfo)
        /\ Len(poolBaseInfo) = 0 /\ Len(poolDataInfo) = 0
    BY EmptySeq DEF Init
  <2>4. /\ userLendInfo \in [Users -> [Pids -> UserInfo]]
        /\ userBorrowInfo \in [Users -> [Pids -> UserInfo]]
    BY <2>2 DEF Init
  <2>5. minAmount \in Nat
    BY PoolAssumption DEF Init
  <2>6. /\ announced \in [swapRouter : Addresses, feeAddress : Addresses]
        /\ debt \in [DebtCoins -> [Users -> Nat]]
        /\ balance \in [Tokens -> Nat]
    BY SMT DEF Init
  <2>7. /\ now \in 0..MaxTime /\ lendFee \in Nat /\ borrowFee \in Nat
        /\ Len(poolBaseInfo) <= MaxPools
    BY PoolAssumption, <2>3, SMT DEF Init
  <2>8. globalPaused \in BOOLEAN /\ swapRouter \in Addresses /\ feeAddress \in Addresses
    BY DEF Init
  <2> QED
    BY <2>1, <2>3, <2>4, <2>5, <2>6, <2>7, <2>8 DEF TypeOK
<1>2. StakesWithinSupply /\ UncreatedUnused /\ TermsOrdered
  BY SMT DEF Init, StakesWithinSupply, UncreatedUnused, TermsOrdered, Created, noInfo
<1> QED
  BY <1>1, <1>2 DEF IInv

\* A step that leaves the pools and the users' entries alone keeps the rest.
LEMMA BooksKept ==
  ASSUME IInv, UNCHANGED <<poolBaseInfo, userLendInfo, userBorrowInfo>>
  PROVE  StakesWithinSupply' /\ UncreatedUnused' /\ TermsOrdered'
  BY DEF IInv, StakesWithinSupply, UncreatedUnused, TermsOrdered, Created

\* The setters and the creation of a pool keep the invariant.
LEMMA AdministerOK ==
  ASSUME IInv, Administer PROVE IInv'
<1> USE DEF settings, books
<1>1. CASE \E l, b \in Fees : setFee(l, b)
  BY <1>1, BooksKept, PoolAssumption, SMT DEF setFee, IInv, TypeOK
<1>2. CASE \E a \in Addresses : setSwapRouterAddress(a) \/ setFeeAddress(a)
  <2>1. /\ announced' \in [swapRouter : Addresses, feeAddress : Addresses]
        /\ UNCHANGED <<now, globalPaused, lendFee, borrowFee, minAmount, swapRouter, feeAddress,
                       poolBaseInfo, poolDataInfo, books, balance, price>>
    BY <1>2 DEF setSwapRouterAddress, setFeeAddress, IInv, TypeOK
  <2> QED
    BY <2>1, BooksKept DEF IInv, TypeOK
<1>3. CASE \E m \in MinAmounts : setMinAmount(m)
  BY <1>3, BooksKept, PoolAssumption, SMT DEF setMinAmount, IInv, TypeOK
<1>4. CASE setPause
  BY <1>4, BooksKept, SMT DEF setPause, IInv, TypeOK
<1>5. ASSUME NEW terms \in Terms, createPoolInfo(terms) PROVE IInv'
  <2>1. newPool(terms) \in PoolBaseInfo
    BY PoolAssumption DEF newPool, PoolBaseInfo, PoolState
  <2> DEFINE blank == [settleAmountLend |-> 0, settleAmountBorrow |-> 0, finishAmountLend |-> 0,
        finishAmountBorrow |-> 0, liquidationAmounLend |-> 0, liquidationAmounBorrow |-> 0]
  <2>2. blank \in PoolDataInfo
    BY DEF PoolDataInfo
  <2>3. /\ poolBaseInfo' = Append(poolBaseInfo, newPool(terms))
        /\ poolDataInfo' = Append(poolDataInfo, blank)
        /\ Len(poolBaseInfo) < MaxPools
    BY <1>5 DEF createPoolInfo
  <2>4. /\ poolBaseInfo' \in Seq(PoolBaseInfo) /\ poolDataInfo' \in Seq(PoolDataInfo)
        /\ Len(poolBaseInfo') = Len(poolBaseInfo) + 1
        /\ Len(poolDataInfo') = Len(poolDataInfo) + 1
        /\ poolBaseInfo'[Len(poolBaseInfo) + 1] = newPool(terms)
        /\ \A pid \in Created : poolBaseInfo'[pid] = poolBaseInfo[pid]
    <3> HIDE DEF blank
    <3> QED BY <2>1, <2>2, <2>3, SMT DEF IInv, TypeOK, Created
  <2>5. TypeOK'
    BY <1>5, <2>3, <2>4, PoolAssumption, SMT DEF createPoolInfo, IInv, TypeOK
  <2>6. StakesWithinSupply' /\ UncreatedUnused' /\ TermsOrdered'
    <3>1. Len(poolBaseInfo) + 1 \in Pids \ Created
      BY <2>3, PoolAssumption, SMT DEF IInv, TypeOK, Pids, Created
    <3>2. Created' = Created \union {Len(poolBaseInfo) + 1}
      BY <2>4, SMT DEF IInv, TypeOK, Created
    <3>3. /\ newPool(terms).lendSupply = 0 /\ newPool(terms).borrowSupply = 0
          /\ newPool(terms).settleTime < newPool(terms).endTime
      BY <1>5, PoolAssumption, SMT DEF newPool, createPoolInfo
    <3>4. UNCHANGED <<userLendInfo, userBorrowInfo>>
      BY <1>5 DEF createPoolInfo
    <3> QED
      BY <2>4, <3>1, <3>2, <3>3, <3>4, SMT
      DEF IInv, StakesWithinSupply, UncreatedUnused, TermsOrdered
  <2> QED
    BY <2>5, <2>6 DEF IInv
<1> QED
  BY <1>1, <1>2, <1>3, <1>4, <1>5 DEF Administer

-----------------------------------------------------------------------------
(* What the internal functions do to the typed state.                       *)

\* A transfer that the balance covers leaves balances that are amounts.
LEMMA RedeemTyped ==
  ASSUME TypeOK, NEW t \in Tokens, NEW amount \in Nat, _redeem(t, amount)
  PROVE  balance' \in [Tokens -> Nat]
  BY SMT DEF TypeOK, _redeem

\* So does one into the contract.
LEMMA PayableTyped ==
  ASSUME TypeOK, NEW t \in Tokens, NEW amount \in Nat, getPayableAmount(t, amount)
  PROVE  balance' \in [Tokens -> Nat]
  BY SMT DEF TypeOK, getPayableAmount

\* Minting keeps debt coins amounts,
LEMMA MintTyped ==
  ASSUME TypeOK, NEW c \in DebtCoins, NEW u \in Users, NEW amount \in Nat, mint(c, u, amount)
  PROVE  debt' \in [DebtCoins -> [Users -> Nat]]
  BY SMT DEF TypeOK, mint

\* and so does burning what a user has.
LEMMA BurnTyped ==
  ASSUME TypeOK, NEW c \in DebtCoins, NEW u \in Users, NEW amount \in Nat, burn(c, u, amount)
  PROVE  debt' \in [DebtCoins -> [Users -> Nat]]
  BY SMT DEF TypeOK, burn

\* Setting a flag, or adding to a refund, keeps an entry typed and its stake.
LEMMA FlagsTyped ==
  ASSUME NEW info \in UserInfo, NEW amount \in Nat
  PROVE  LET r == [info EXCEPT !.hasNoRefund = TRUE, !.refundAmount = @ + amount]
             w == [info EXCEPT !.hasNoRefund = TRUE]
             c == [info EXCEPT !.hasNoClaim = TRUE]
         IN  /\ r \in UserInfo /\ r.stakeAmount = info.stakeAmount
             /\ w \in UserInfo /\ w.stakeAmount = info.stakeAmount
             /\ c \in UserInfo /\ c.stakeAmount = info.stakeAmount
<1>1. info.refundAmount + amount \in Nat
  BY DEF UserInfo
<1> QED
  BY <1>1 DEF UserInfo

\* A deposit keeps an entry typed and adds to its stake.
LEMMA StakedTyped ==
  ASSUME NEW info \in UserInfo, NEW amount \in Nat
  PROVE  /\ staked(info, amount) \in UserInfo
         /\ staked(info, amount).stakeAmount = info.stakeAmount + amount
<1>1. info.stakeAmount + amount \in Nat
  BY DEF UserInfo
<1> QED
  BY <1>1 DEF staked, UserInfo

\* An entry may change in anything but its stake.
LEMMA LendEntryKept ==
  ASSUME IInv, NEW u \in Users, NEW pid \in Created, NEW e \in UserInfo,
         e.stakeAmount = userLendInfo[u][pid].stakeAmount,
         userLendInfo' = [userLendInfo EXCEPT ![u][pid] = e],
         UNCHANGED <<poolBaseInfo, userBorrowInfo>>
  PROVE  /\ userLendInfo' \in [Users -> [Pids -> UserInfo]]
         /\ StakesWithinSupply' /\ UncreatedUnused' /\ TermsOrdered'
<1>1. pid \in Pids
  BY PoolTyped DEF IInv
<1>2. userLendInfo' \in [Users -> [Pids -> UserInfo]]
  BY <1>1, SMT DEF IInv, TypeOK
<1>3. \A v \in Users, q \in Pids :
        userLendInfo'[v][q].stakeAmount = userLendInfo[v][q].stakeAmount
  BY <1>1, SMT DEF IInv, TypeOK
<1>4. Created' = Created /\ Created \subseteq Pids
  BY PoolTyped DEF IInv, Created
<1> QED
  BY <1>2, <1>3, <1>4 DEF IInv, StakesWithinSupply, UncreatedUnused, TermsOrdered

\* The same of the borrowers' mapping.
LEMMA BorrowEntryKept ==
  ASSUME IInv, NEW u \in Users, NEW pid \in Created, NEW e \in UserInfo,
         e.stakeAmount = userBorrowInfo[u][pid].stakeAmount,
         userBorrowInfo' = [userBorrowInfo EXCEPT ![u][pid] = e],
         UNCHANGED <<poolBaseInfo, userLendInfo>>
  PROVE  /\ userBorrowInfo' \in [Users -> [Pids -> UserInfo]]
         /\ StakesWithinSupply' /\ UncreatedUnused' /\ TermsOrdered'
<1>1. pid \in Pids
  BY PoolTyped DEF IInv
<1>2. userBorrowInfo' \in [Users -> [Pids -> UserInfo]]
  BY <1>1, SMT DEF IInv, TypeOK
<1>3. \A v \in Users, q \in Pids :
        userBorrowInfo'[v][q].stakeAmount = userBorrowInfo[v][q].stakeAmount
  BY <1>1, SMT DEF IInv, TypeOK
<1>4. Created' = Created /\ Created \subseteq Pids
  BY PoolTyped DEF IInv, Created
<1> QED
  BY <1>2, <1>3, <1>4 DEF IInv, StakesWithinSupply, UncreatedUnused, TermsOrdered

\* An entry of a created pool, and the supply above its stake.
LEMMA LendEntryTyped ==
  ASSUME IInv, NEW u \in Users, NEW pid \in Created
  PROVE  /\ userLendInfo[u][pid] \in UserInfo
         /\ userLendInfo[u][pid].stakeAmount <= poolBaseInfo[pid].lendSupply
  BY PoolTyped DEF IInv, TypeOK, StakesWithinSupply

\* The same of a borrower's entry.
LEMMA BorrowEntryTyped ==
  ASSUME IInv, NEW u \in Users, NEW pid \in Created
  PROVE  /\ userBorrowInfo[u][pid] \in UserInfo
         /\ userBorrowInfo[u][pid].stakeAmount <= poolBaseInfo[pid].borrowSupply
  BY PoolTyped DEF IInv, TypeOK, StakesWithinSupply

-----------------------------------------------------------------------------
(* The lender's side.                                                       *)

\* Stake and supply grow by the same amount.
LEMMA DepositLendOK ==
  ASSUME IInv, NEW u \in Users, NEW pid \in Created, NEW amount \in Amounts,
         depositLend(u, pid, amount)
  PROVE  IInv'
<1> DEFINE e == staked(userLendInfo[u][pid], amount)
           pool == [poolBaseInfo[pid] EXCEPT !.lendSupply = @ + amount]
<1>0. amount \in Nat /\ TypeOK
  BY PoolAssumption DEF IInv
<1>1. /\ pid \in Pids
      /\ poolBaseInfo[pid] \in PoolBaseInfo
      /\ userLendInfo[u][pid] \in UserInfo
      /\ userLendInfo[u][pid].stakeAmount <= poolBaseInfo[pid].lendSupply
  BY <1>0, PoolTyped, LendEntryTyped
<1>2. e \in UserInfo /\ e.stakeAmount = userLendInfo[u][pid].stakeAmount + amount
  BY <1>0, <1>1, StakedTyped
<1>3. /\ pool \in PoolBaseInfo
      /\ pool.lendSupply = poolBaseInfo[pid].lendSupply + amount
      /\ pool.borrowSupply = poolBaseInfo[pid].borrowSupply
      /\ pool.settleTime = poolBaseInfo[pid].settleTime
      /\ pool.endTime = poolBaseInfo[pid].endTime
  BY <1>0, <1>1, SMT DEF PoolBaseInfo
<1>4. /\ userLendInfo' = [userLendInfo EXCEPT ![u][pid] = e]
      /\ poolBaseInfo' = [poolBaseInfo EXCEPT ![pid] = pool]
      /\ getPayableAmount(poolBaseInfo[pid].lendToken, amount)
      /\ UNCHANGED <<now, settings, poolDataInfo, userBorrowInfo, debt, price>>
  BY DEF depositLend
<1>5. balance' \in [Tokens -> Nat]
  BY <1>0, <1>1, <1>4, PayableTyped DEF PoolBaseInfo
<1> HIDE DEF e, pool
<1>6. userLendInfo' \in [Users -> [Pids -> UserInfo]]
  BY <1>0, <1>1, <1>2, <1>4, SMT DEF TypeOK
<1>7. /\ poolBaseInfo' \in Seq(PoolBaseInfo) /\ Len(poolBaseInfo') = Len(poolBaseInfo)
      /\ poolBaseInfo'[pid] = pool
      /\ \A q \in Created : q # pid => poolBaseInfo'[q] = poolBaseInfo[q]
  BY <1>0, <1>3, <1>4, Update, SMT DEF TypeOK, Created
<1>8. TypeOK'
  BY <1>0, <1>4, <1>5, <1>6, <1>7 DEF TypeOK, settings
<1>9. Created' = Created
  BY <1>7 DEF Created
<1>10. \A v \in Users, q \in Pids :
         userLendInfo'[v][q] = IF v = u /\ q = pid THEN e ELSE userLendInfo[v][q]
  BY <1>0, <1>1, <1>4, SMT DEF TypeOK
<1>11. StakesWithinSupply'
  <2> SUFFICES ASSUME NEW v \in Users, NEW q \in Created
               PROVE  /\ userLendInfo'[v][q].stakeAmount <= poolBaseInfo'[q].lendSupply
                      /\ userBorrowInfo'[v][q].stakeAmount <= poolBaseInfo'[q].borrowSupply
    BY <1>9 DEF StakesWithinSupply
  <2>1. /\ q \in Pids
        /\ poolBaseInfo[q] \in PoolBaseInfo
        /\ userLendInfo[v][q] \in UserInfo
        /\ userLendInfo[v][q].stakeAmount <= poolBaseInfo[q].lendSupply
        /\ userBorrowInfo[v][q].stakeAmount <= poolBaseInfo[q].borrowSupply
    BY <1>0, PoolTyped, LendEntryTyped, BorrowEntryTyped
  <2>2. /\ userLendInfo[v][q].stakeAmount \in Nat
        /\ poolBaseInfo[q].lendSupply \in Nat
        /\ userLendInfo[u][pid].stakeAmount \in Nat
        /\ poolBaseInfo[pid].lendSupply \in Nat
    BY <1>1, <2>1 DEF UserInfo, PoolBaseInfo
  <2> QED
    BY <1>0, <1>1, <1>2, <1>3, <1>4, <1>7, <1>10, <2>1, <2>2, SMT
<1>12. UncreatedUnused' /\ TermsOrdered'
  BY <1>3, <1>4, <1>7, <1>9, <1>10 DEF IInv, UncreatedUnused, TermsOrdered
<1> QED
  BY <1>8, <1>11, <1>12 DEF IInv

\* A refund leaves the stake, and the supply it is within.
LEMMA RefundLendOK ==
  ASSUME IInv, NEW u \in Users, NEW pid \in Created, refundLend(u, pid)
  PROVE  IInv'
<1> DEFINE e == refunded(userLendInfo[u][pid], lendRefund(u, pid))
<1>0. TypeOK
  BY DEF IInv
<1>1. /\ poolBaseInfo[pid] \in PoolBaseInfo /\ poolDataInfo[pid] \in PoolDataInfo
      /\ userLendInfo[u][pid] \in UserInfo
      /\ userLendInfo[u][pid].stakeAmount <= poolBaseInfo[pid].lendSupply
  BY <1>0, PoolTyped, LendEntryTyped
<1>2. /\ userLendInfo[u][pid].stakeAmount > 0
      /\ poolBaseInfo[pid].lendSupply > poolDataInfo[pid].settleAmountLend
      /\ _redeem(poolBaseInfo[pid].lendToken, lendRefund(u, pid))
      /\ userLendInfo' = [userLendInfo EXCEPT ![u][pid] = e]
      /\ UNCHANGED <<now, settings, poolBaseInfo, poolDataInfo, userBorrowInfo, debt, price>>
  BY DEF refundLend
<1>3. /\ poolBaseInfo[pid].lendSupply \in Nat \ {0}
      /\ poolBaseInfo[pid].lendSupply - poolDataInfo[pid].settleAmountLend \in Nat
      /\ userLendInfo[u][pid].stakeAmount \in Nat
  BY <1>1, <1>2, SMT DEF PoolBaseInfo, PoolDataInfo, UserInfo
<1>4. lendRefund(u, pid) \in Nat
  BY <1>3, EntitledBounded DEF lendRefund
<1>5. balance' \in [Tokens -> Nat]
  BY <1>0, <1>1, <1>2, <1>4, RedeemTyped DEF PoolBaseInfo
<1>6. e \in UserInfo /\ e.stakeAmount = userLendInfo[u][pid].stakeAmount
  BY <1>1, <1>4, FlagsTyped DEF refunded
<1> HIDE DEF e
<1>7. /\ userLendInfo' \in [Users -> [Pids -> UserInfo]]
      /\ StakesWithinSupply' /\ UncreatedUnused' /\ TermsOrdered'
  BY <1>2, <1>6, LendEntryKept
<1> QED
  BY <1>0, <1>2, <1>5, <1>7 DEF IInv, TypeOK, settings

\* So does a claim.
LEMMA ClaimLendOK ==
  ASSUME IInv, NEW u \in Users, NEW pid \in Created, claimLend(u, pid)
  PROVE  IInv'
<1> DEFINE e == [userLendInfo[u][pid] EXCEPT !.hasNoClaim = TRUE]
<1>0. TypeOK
  BY DEF IInv
<1>1. /\ poolBaseInfo[pid] \in PoolBaseInfo /\ poolDataInfo[pid] \in PoolDataInfo
      /\ userLendInfo[u][pid] \in UserInfo
      /\ userLendInfo[u][pid].stakeAmount <= poolBaseInfo[pid].lendSupply
  BY <1>0, PoolTyped, LendEntryTyped
<1>2. /\ userLendInfo[u][pid].stakeAmount > 0
      /\ mint(poolBaseInfo[pid].spCoin, u, spAmount(u, pid))
      /\ userLendInfo' = [userLendInfo EXCEPT ![u][pid] = e]
      /\ UNCHANGED <<now, settings, poolBaseInfo, poolDataInfo, userBorrowInfo, balance, price>>
  BY DEF claimLend
<1>3. /\ poolBaseInfo[pid].lendSupply \in Nat \ {0}
      /\ poolDataInfo[pid].settleAmountLend \in Nat
      /\ userLendInfo[u][pid].stakeAmount \in Nat
  BY <1>1, <1>2, SMT DEF PoolBaseInfo, PoolDataInfo, UserInfo
<1>4. spAmount(u, pid) \in Nat
  BY <1>3, EntitledBounded DEF spAmount
<1>5. debt' \in [DebtCoins -> [Users -> Nat]]
  BY <1>0, <1>1, <1>2, <1>4, MintTyped DEF PoolBaseInfo
<1>6. e \in UserInfo /\ e.stakeAmount = userLendInfo[u][pid].stakeAmount
  BY <1>1, FlagsTyped
<1> HIDE DEF e
<1>7. /\ userLendInfo' \in [Users -> [Pids -> UserInfo]]
      /\ StakesWithinSupply' /\ UncreatedUnused' /\ TermsOrdered'
  BY <1>2, <1>6, LendEntryKept
<1> QED
  BY <1>0, <1>2, <1>5, <1>7 DEF IInv, TypeOK, settings

\* A withdrawal moves balances only.
LEMMA WithdrawLendOK ==
  ASSUME IInv, NEW u \in Users, NEW pid \in Created, NEW amount \in Nat,
         withdrawLend(u, pid, amount)
  PROVE  IInv'
<1>0. TypeOK
  BY DEF IInv
<1>1. poolBaseInfo[pid] \in PoolBaseInfo /\ poolDataInfo[pid] \in PoolDataInfo
  BY <1>0, PoolTyped
<1>2. /\ burn(poolBaseInfo[pid].spCoin, u, amount)
      /\ poolDataInfo[pid].settleAmountLend > 0
      /\ _redeem(poolBaseInfo[pid].lendToken, lendPayout(pid, amount))
      /\ UNCHANGED <<now, settings, poolBaseInfo, poolDataInfo,
                     userLendInfo, userBorrowInfo, price>>
  BY DEF withdrawLend
<1>3. /\ poolDataInfo[pid].settleAmountLend \in Nat \ {0}
      /\ poolDataInfo[pid].finishAmountLend \in Nat
      /\ poolDataInfo[pid].liquidationAmounLend \in Nat
  BY <1>1, <1>2, SMT DEF PoolDataInfo
<1>4. lendPayout(pid, amount) \in Nat
  BY <1>3, EntitledBounded DEF lendPayout
<1>5. balance' \in [Tokens -> Nat] /\ debt' \in [DebtCoins -> [Users -> Nat]]
  BY <1>0, <1>1, <1>2, <1>4, RedeemTyped, BurnTyped DEF PoolBaseInfo
<1> QED
  BY <1>0, <1>2, <1>5, BooksKept DEF IInv, TypeOK, settings

\* An emergency withdrawal leaves the stake on record.
LEMMA EmergencyLendOK ==
  ASSUME IInv, NEW u \in Users, NEW pid \in Created, emergencyLendWithdrawal(u, pid)
  PROVE  IInv'
<1> DEFINE e == withdrawn(userLendInfo[u][pid])
<1>0. TypeOK
  BY DEF IInv
<1>1. poolBaseInfo[pid] \in PoolBaseInfo /\ userLendInfo[u][pid] \in UserInfo
  BY <1>0, PoolTyped, LendEntryTyped
<1>2. /\ _redeem(poolBaseInfo[pid].lendToken, userLendInfo[u][pid].stakeAmount)
      /\ userLendInfo' = [userLendInfo EXCEPT ![u][pid] = e]
      /\ UNCHANGED <<now, settings, poolBaseInfo, poolDataInfo, userBorrowInfo, debt, price>>
  BY DEF emergencyLendWithdrawal
<1>3. balance' \in [Tokens -> Nat]
  BY <1>0, <1>1, <1>2, RedeemTyped DEF PoolBaseInfo, UserInfo
<1>4. e \in UserInfo /\ e.stakeAmount = userLendInfo[u][pid].stakeAmount
  BY <1>1, FlagsTyped DEF withdrawn
<1> HIDE DEF e
<1>5. /\ userLendInfo' \in [Users -> [Pids -> UserInfo]]
      /\ StakesWithinSupply' /\ UncreatedUnused' /\ TermsOrdered'
  BY <1>2, <1>4, LendEntryKept
<1> QED
  BY <1>0, <1>2, <1>3, <1>5 DEF IInv, TypeOK, settings

\* Every transaction of a lender keeps the invariant.
LEMMA LendOK ==
  ASSUME IInv, NEW u \in Users, NEW pid \in Created, Lend(u, pid) PROVE IInv'
<1>1. ASSUME NEW a \in 1..debt[poolBaseInfo[pid].spCoin][u], withdrawLend(u, pid, a)
      PROVE  IInv'
  <2>1. a \in Nat
    BY SMT
  <2> QED
    BY <1>1, <2>1, WithdrawLendOK
<1> QED
  BY <1>1, DepositLendOK, RefundLendOK, ClaimLendOK, EmergencyLendOK DEF Lend

-----------------------------------------------------------------------------
(* The borrower's side.                                                     *)

\* Stake and supply grow by the same amount.
LEMMA DepositBorrowOK ==
  ASSUME IInv, NEW u \in Users, NEW pid \in Created, NEW amount \in Amounts,
         depositBorrow(u, pid, amount)
  PROVE  IInv'
<1> DEFINE e == staked(userBorrowInfo[u][pid], amount)
           pool == [poolBaseInfo[pid] EXCEPT !.borrowSupply = @ + amount]
<1>0. amount \in Nat /\ TypeOK
  BY PoolAssumption DEF IInv
<1>1. /\ pid \in Pids
      /\ poolBaseInfo[pid] \in PoolBaseInfo
      /\ userBorrowInfo[u][pid] \in UserInfo
      /\ userBorrowInfo[u][pid].stakeAmount <= poolBaseInfo[pid].borrowSupply
  BY <1>0, PoolTyped, BorrowEntryTyped
<1>2. e \in UserInfo /\ e.stakeAmount = userBorrowInfo[u][pid].stakeAmount + amount
  BY <1>0, <1>1, StakedTyped
<1>3. /\ pool \in PoolBaseInfo
      /\ pool.borrowSupply = poolBaseInfo[pid].borrowSupply + amount
      /\ pool.lendSupply = poolBaseInfo[pid].lendSupply
      /\ pool.settleTime = poolBaseInfo[pid].settleTime
      /\ pool.endTime = poolBaseInfo[pid].endTime
  BY <1>0, <1>1, SMT DEF PoolBaseInfo
<1>4. /\ userBorrowInfo' = [userBorrowInfo EXCEPT ![u][pid] = e]
      /\ poolBaseInfo' = [poolBaseInfo EXCEPT ![pid] = pool]
      /\ getPayableAmount(poolBaseInfo[pid].borrowToken, amount)
      /\ UNCHANGED <<now, settings, poolDataInfo, userLendInfo, debt, price>>
  BY DEF depositBorrow
<1>5. balance' \in [Tokens -> Nat]
  BY <1>0, <1>1, <1>4, PayableTyped DEF PoolBaseInfo
<1> HIDE DEF e, pool
<1>6. userBorrowInfo' \in [Users -> [Pids -> UserInfo]]
  BY <1>0, <1>1, <1>2, <1>4, SMT DEF TypeOK
<1>7. /\ poolBaseInfo' \in Seq(PoolBaseInfo) /\ Len(poolBaseInfo') = Len(poolBaseInfo)
      /\ poolBaseInfo'[pid] = pool
      /\ \A q \in Created : q # pid => poolBaseInfo'[q] = poolBaseInfo[q]
  BY <1>0, <1>3, <1>4, Update, SMT DEF TypeOK, Created
<1>8. TypeOK'
  BY <1>0, <1>4, <1>5, <1>6, <1>7 DEF TypeOK, settings
<1>9. Created' = Created
  BY <1>7 DEF Created
<1>10. \A v \in Users, q \in Pids :
         userBorrowInfo'[v][q] = IF v = u /\ q = pid THEN e ELSE userBorrowInfo[v][q]
  BY <1>0, <1>1, <1>4, SMT DEF TypeOK
<1>11. StakesWithinSupply'
  <2> SUFFICES ASSUME NEW v \in Users, NEW q \in Created
               PROVE  /\ userBorrowInfo'[v][q].stakeAmount <= poolBaseInfo'[q].borrowSupply
                      /\ userLendInfo'[v][q].stakeAmount <= poolBaseInfo'[q].lendSupply
    BY <1>9 DEF StakesWithinSupply
  <2>1. /\ q \in Pids
        /\ poolBaseInfo[q] \in PoolBaseInfo
        /\ userBorrowInfo[v][q] \in UserInfo
        /\ userBorrowInfo[v][q].stakeAmount <= poolBaseInfo[q].borrowSupply
        /\ userLendInfo[v][q].stakeAmount <= poolBaseInfo[q].lendSupply
    BY <1>0, PoolTyped, LendEntryTyped, BorrowEntryTyped
  <2>2. /\ userBorrowInfo[v][q].stakeAmount \in Nat
        /\ poolBaseInfo[q].borrowSupply \in Nat
        /\ userBorrowInfo[u][pid].stakeAmount \in Nat
        /\ poolBaseInfo[pid].borrowSupply \in Nat
    BY <1>1, <2>1 DEF UserInfo, PoolBaseInfo
  <2> QED
    BY <1>0, <1>1, <1>2, <1>3, <1>4, <1>7, <1>10, <2>1, <2>2, SMT
<1>12. UncreatedUnused' /\ TermsOrdered'
  BY <1>3, <1>4, <1>7, <1>9, <1>10 DEF IInv, UncreatedUnused, TermsOrdered
<1> QED
  BY <1>8, <1>11, <1>12 DEF IInv

\* A refund leaves the stake, and the supply it is within.
LEMMA RefundBorrowOK ==
  ASSUME IInv, NEW u \in Users, NEW pid \in Created, refundBorrow(u, pid)
  PROVE  IInv'
<1> DEFINE e == refunded(userBorrowInfo[u][pid], borrowRefund(u, pid))
<1>0. TypeOK
  BY DEF IInv
<1>1. /\ poolBaseInfo[pid] \in PoolBaseInfo /\ poolDataInfo[pid] \in PoolDataInfo
      /\ userBorrowInfo[u][pid] \in UserInfo
      /\ userBorrowInfo[u][pid].stakeAmount <= poolBaseInfo[pid].borrowSupply
  BY <1>0, PoolTyped, BorrowEntryTyped
<1>2. /\ userBorrowInfo[u][pid].stakeAmount > 0
      /\ poolBaseInfo[pid].borrowSupply > poolDataInfo[pid].settleAmountBorrow
      /\ _redeem(poolBaseInfo[pid].borrowToken, borrowRefund(u, pid))
      /\ userBorrowInfo' = [userBorrowInfo EXCEPT ![u][pid] = e]
      /\ UNCHANGED <<now, settings, poolBaseInfo, poolDataInfo, userLendInfo, debt, price>>
  BY DEF refundBorrow
<1>3. /\ poolBaseInfo[pid].borrowSupply \in Nat \ {0}
      /\ poolBaseInfo[pid].borrowSupply - poolDataInfo[pid].settleAmountBorrow \in Nat
      /\ userBorrowInfo[u][pid].stakeAmount \in Nat
  BY <1>1, <1>2, SMT DEF PoolBaseInfo, PoolDataInfo, UserInfo
<1>4. borrowRefund(u, pid) \in Nat
  BY <1>3, EntitledBounded DEF borrowRefund
<1>5. balance' \in [Tokens -> Nat]
  BY <1>0, <1>1, <1>2, <1>4, RedeemTyped DEF PoolBaseInfo
<1>6. e \in UserInfo /\ e.stakeAmount = userBorrowInfo[u][pid].stakeAmount
  BY <1>1, <1>4, FlagsTyped DEF refunded
<1> HIDE DEF e
<1>7. /\ userBorrowInfo' \in [Users -> [Pids -> UserInfo]]
      /\ StakesWithinSupply' /\ UncreatedUnused' /\ TermsOrdered'
  BY <1>2, <1>6, BorrowEntryKept
<1> QED
  BY <1>0, <1>2, <1>5, <1>7 DEF IInv, TypeOK, settings

\* So does a claim, which pays the loan as well.
LEMMA ClaimBorrowOK ==
  ASSUME IInv, NEW u \in Users, NEW pid \in Created, claimBorrow(u, pid)
  PROVE  IInv'
<1> DEFINE e == [userBorrowInfo[u][pid] EXCEPT !.hasNoClaim = TRUE]
<1>0. TypeOK
  BY DEF IInv
<1>1. /\ poolBaseInfo[pid] \in PoolBaseInfo /\ poolDataInfo[pid] \in PoolDataInfo
      /\ userBorrowInfo[u][pid] \in UserInfo
      /\ userBorrowInfo[u][pid].stakeAmount <= poolBaseInfo[pid].borrowSupply
  BY <1>0, PoolTyped, BorrowEntryTyped
<1>2. /\ userBorrowInfo[u][pid].stakeAmount > 0
      /\ mint(poolBaseInfo[pid].jpCoin, u, jpAmount(u, pid))
      /\ _redeem(poolBaseInfo[pid].lendToken, borrowAmount(u, pid))
      /\ userBorrowInfo' = [userBorrowInfo EXCEPT ![u][pid] = e]
      /\ UNCHANGED <<now, settings, poolBaseInfo, poolDataInfo, userLendInfo, price>>
  BY DEF claimBorrow
<1>3. /\ poolBaseInfo[pid].borrowSupply \in Nat \ {0}
      /\ poolBaseInfo[pid].martgageRate \in Nat
      /\ poolDataInfo[pid].settleAmountLend \in Nat
      /\ userBorrowInfo[u][pid].stakeAmount \in Nat
  BY <1>1, <1>2, SMT DEF PoolBaseInfo, PoolDataInfo, UserInfo
<1>4. poolJp(pid) \in Nat
  BY <1>3, JpNat DEF poolJp
<1>5. jpAmount(u, pid) \in Nat /\ borrowAmount(u, pid) \in Nat
  BY <1>3, <1>4, EntitledBounded DEF jpAmount, borrowAmount
<1>6. balance' \in [Tokens -> Nat] /\ debt' \in [DebtCoins -> [Users -> Nat]]
  BY <1>0, <1>1, <1>2, <1>5, RedeemTyped, MintTyped DEF PoolBaseInfo
<1>7. e \in UserInfo /\ e.stakeAmount = userBorrowInfo[u][pid].stakeAmount
  BY <1>1, FlagsTyped
<1> HIDE DEF e
<1>8. /\ userBorrowInfo' \in [Users -> [Pids -> UserInfo]]
      /\ StakesWithinSupply' /\ UncreatedUnused' /\ TermsOrdered'
  BY <1>2, <1>7, BorrowEntryKept
<1> QED
  BY <1>0, <1>2, <1>6, <1>8 DEF IInv, TypeOK, settings

\* A withdrawal moves balances only.
LEMMA WithdrawBorrowOK ==
  ASSUME IInv, NEW u \in Users, NEW pid \in Created, NEW amount \in Nat,
         withdrawBorrow(u, pid, amount)
  PROVE  IInv'
<1>0. TypeOK
  BY DEF IInv
<1>1. poolBaseInfo[pid] \in PoolBaseInfo /\ poolDataInfo[pid] \in PoolDataInfo
  BY <1>0, PoolTyped
<1>2. /\ burn(poolBaseInfo[pid].jpCoin, u, amount)
      /\ poolJp(pid) > 0
      /\ _redeem(poolBaseInfo[pid].borrowToken, borrowPayout(pid, amount))
      /\ UNCHANGED <<now, settings, poolBaseInfo, poolDataInfo,
                     userLendInfo, userBorrowInfo, price>>
  BY DEF withdrawBorrow
<1>3. /\ poolDataInfo[pid].settleAmountLend \in Nat /\ poolBaseInfo[pid].martgageRate \in Nat
      /\ poolDataInfo[pid].finishAmountBorrow \in Nat
      /\ poolDataInfo[pid].liquidationAmounBorrow \in Nat
  BY <1>1, SMT DEF PoolDataInfo, PoolBaseInfo
<1>4. poolJp(pid) \in Nat \ {0}
  BY <1>2, <1>3, JpNat, SMT DEF poolJp
<1>5. borrowPayout(pid, amount) \in Nat
  BY <1>3, <1>4, EntitledBounded DEF borrowPayout
<1>6. balance' \in [Tokens -> Nat] /\ debt' \in [DebtCoins -> [Users -> Nat]]
  BY <1>0, <1>1, <1>2, <1>5, RedeemTyped, BurnTyped DEF PoolBaseInfo
<1> QED
  BY <1>0, <1>2, <1>6, BooksKept DEF IInv, TypeOK, settings

\* An emergency withdrawal leaves the stake on record.
LEMMA EmergencyBorrowOK ==
  ASSUME IInv, NEW u \in Users, NEW pid \in Created, emergencyBorrowWithdrawal(u, pid)
  PROVE  IInv'
<1> DEFINE e == withdrawn(userBorrowInfo[u][pid])
<1>0. TypeOK
  BY DEF IInv
<1>1. poolBaseInfo[pid] \in PoolBaseInfo /\ userBorrowInfo[u][pid] \in UserInfo
  BY <1>0, PoolTyped, BorrowEntryTyped
<1>2. /\ _redeem(poolBaseInfo[pid].borrowToken, userBorrowInfo[u][pid].stakeAmount)
      /\ userBorrowInfo' = [userBorrowInfo EXCEPT ![u][pid] = e]
      /\ UNCHANGED <<now, settings, poolBaseInfo, poolDataInfo, userLendInfo, debt, price>>
  BY DEF emergencyBorrowWithdrawal
<1>3. balance' \in [Tokens -> Nat]
  BY <1>0, <1>1, <1>2, RedeemTyped DEF PoolBaseInfo, UserInfo
<1>4. e \in UserInfo /\ e.stakeAmount = userBorrowInfo[u][pid].stakeAmount
  BY <1>1, FlagsTyped DEF withdrawn
<1> HIDE DEF e
<1>5. /\ userBorrowInfo' \in [Users -> [Pids -> UserInfo]]
      /\ StakesWithinSupply' /\ UncreatedUnused' /\ TermsOrdered'
  BY <1>2, <1>4, BorrowEntryKept
<1> QED
  BY <1>0, <1>2, <1>3, <1>5 DEF IInv, TypeOK, settings

\* Every transaction of a borrower keeps the invariant.
LEMMA BorrowOK ==
  ASSUME IInv, NEW u \in Users, NEW pid \in Created, Borrow(u, pid) PROVE IInv'
<1>1. ASSUME NEW a \in 1..debt[poolBaseInfo[pid].jpCoin][u], withdrawBorrow(u, pid, a)
      PROVE  IInv'
  <2>1. a \in Nat
    BY SMT
  <2> QED
    BY <1>1, <2>1, WithdrawBorrowOK
<1> QED
  BY <1>1, DepositBorrowOK, RefundBorrowOK, ClaimBorrowOK, EmergencyBorrowOK DEF Borrow

-----------------------------------------------------------------------------
(* Settlement, finish and liquidation.                                      *)

\* A pool may change its state and its figures, and nothing else of it.
LEMMA PoolMoved ==
  ASSUME IInv, NEW pid \in Created, NEW st \in PoolState, NEW data \in PoolDataInfo,
         poolBaseInfo' = [poolBaseInfo EXCEPT ![pid].state = st],
         poolDataInfo' = [poolDataInfo EXCEPT ![pid] = data],
         UNCHANGED <<userLendInfo, userBorrowInfo>>
  PROVE  /\ poolBaseInfo' \in Seq(PoolBaseInfo) /\ Len(poolBaseInfo') = Len(poolBaseInfo)
         /\ poolDataInfo' \in Seq(PoolDataInfo) /\ Len(poolDataInfo') = Len(poolDataInfo)
         /\ StakesWithinSupply' /\ UncreatedUnused' /\ TermsOrdered'
<1> DEFINE pool == [poolBaseInfo[pid] EXCEPT !.state = st]
<1>0. TypeOK
  BY DEF IInv
<1>1. pid \in Pids /\ poolBaseInfo[pid] \in PoolBaseInfo
  BY <1>0, PoolTyped
<1>2. /\ pool \in PoolBaseInfo
      /\ pool.lendSupply = poolBaseInfo[pid].lendSupply
      /\ pool.borrowSupply = poolBaseInfo[pid].borrowSupply
      /\ pool.settleTime = poolBaseInfo[pid].settleTime
      /\ pool.endTime = poolBaseInfo[pid].endTime
  BY <1>1 DEF PoolBaseInfo
<1>3. poolBaseInfo' = [poolBaseInfo EXCEPT ![pid] = pool]
  OBVIOUS
<1> HIDE DEF pool
<1>4. /\ poolBaseInfo' \in Seq(PoolBaseInfo) /\ Len(poolBaseInfo') = Len(poolBaseInfo)
      /\ poolBaseInfo'[pid] = pool
      /\ \A q \in Created : q # pid => poolBaseInfo'[q] = poolBaseInfo[q]
  <2>1. poolBaseInfo \in Seq(PoolBaseInfo) /\ pid \in 1..Len(poolBaseInfo)
    BY <1>0 DEF TypeOK, Created
  <2>2. \A b : b = [poolBaseInfo EXCEPT ![pid] = pool] =>
          /\ b \in Seq(PoolBaseInfo) /\ Len(b) = Len(poolBaseInfo)
          /\ b[pid] = pool
          /\ \A q \in 1..Len(poolBaseInfo) : q # pid => b[q] = poolBaseInfo[q]
    BY <1>2, <2>1, ReplaceAt
  <2> QED
    BY <1>3, <2>2 DEF Created
<1>5. poolDataInfo' \in Seq(PoolDataInfo) /\ Len(poolDataInfo') = Len(poolDataInfo)
  BY <1>0, Update DEF TypeOK, Created
<1>6. Created' = Created
  BY <1>4 DEF Created
<1> QED
  BY <1>2, <1>4, <1>5, <1>6 DEF IInv, StakesWithinSupply, UncreatedUnused, TermsOrdered

\* What settle() writes is typed.
LEMMA SettleOK ==
  ASSUME IInv, NEW pid \in Created, settle(pid) PROVE IInv'
<1> DEFINE pool == poolBaseInfo[pid]
           p == getUnderlyingPriceView(pid)
           m == SettleAmounts(pool.lendSupply, pool.borrowSupply, p[1], p[2], pool.martgageRate)
           data(l, b) == [poolDataInfo[pid] EXCEPT !.settleAmountLend = l, !.settleAmountBorrow = b]
<1>0. TypeOK
  BY DEF IInv
<1>1. pool \in PoolBaseInfo /\ poolDataInfo[pid] \in PoolDataInfo
  BY <1>0, PoolTyped
<1>2. /\ pool.lendSupply \in Nat /\ pool.borrowSupply \in Nat /\ pool.martgageRate \in Nat
      /\ p[1] \in Nat /\ p[2] \in Nat
  BY <1>0, <1>1 DEF PoolBaseInfo, TypeOK, getUnderlyingPriceView
<1>3. ASSUME NEW l \in Nat, NEW b \in Nat PROVE data(l, b) \in PoolDataInfo
  BY <1>1 DEF PoolDataInfo
<1>4. UNCHANGED <<now, settings, books, balance, price>>
  BY DEF settle
<1>5. ASSUME NEW l \in Nat, NEW b \in Nat, NEW st \in PoolState,
             poolDataInfo' = [poolDataInfo EXCEPT ![pid] = data(l, b)],
             poolBaseInfo' = [poolBaseInfo EXCEPT ![pid].state = st]
      PROVE  IInv'
  <2> DEFINE d == data(l, b)
  <2>1. d \in PoolDataInfo
    BY <1>3
  <2>2. poolDataInfo' = [poolDataInfo EXCEPT ![pid] = d]
    BY <1>5
  <2> HIDE DEF d
  <2>3. /\ poolBaseInfo' \in Seq(PoolBaseInfo) /\ Len(poolBaseInfo') = Len(poolBaseInfo)
        /\ poolDataInfo' \in Seq(PoolDataInfo) /\ Len(poolDataInfo') = Len(poolDataInfo)
        /\ StakesWithinSupply' /\ UncreatedUnused' /\ TermsOrdered'
    BY <1>4, <1>5, <2>1, <2>2, PoolMoved DEF books
  <2> QED
    BY <1>0, <1>4, <2>3 DEF IInv, TypeOK, settings, books
<1>6. CASE settleMatched(pid)
  <2>1. m.lend \in Nat /\ m.borrow \in Nat
    BY <1>2, <1>6, SettlementSound DEF settleMatched
  <2>2. /\ poolDataInfo' = [poolDataInfo EXCEPT ![pid] = data(m.lend, m.borrow)]
        /\ poolBaseInfo' = [poolBaseInfo EXCEPT ![pid].state = "EXECUTION"]
    BY <1>6 DEF settleMatched
  <2> HIDE DEF m, data
  <2> QED
    BY <1>5, <2>1, <2>2 DEF PoolState
<1>7. CASE settleUnmatched(pid)
  <2> DEFINE l == pool.lendSupply
             b == pool.borrowSupply
  <2>2. /\ poolDataInfo' = [poolDataInfo EXCEPT ![pid] = data(l, b)]
        /\ poolBaseInfo' = [poolBaseInfo EXCEPT ![pid].state = "UNDONE"]
    BY <1>7 DEF settleUnmatched
  <2>3. l \in Nat /\ b \in Nat
    BY <1>2
  <2> HIDE DEF l, b, data
  <2> QED
    BY <1>5, <2>2, <2>3 DEF PoolState
<1> QED
  BY <1>6, <1>7 DEF settle

\* The figures finish() and liquidate() write, and the balance they leave.
LEMMA SaleTyped ==
  ASSUME IInv, NEW pid \in Created, NEW sold \in Costs, NEW got,
         sellCollateral(pid, sold, got, keptOf(pid, got), feeOf(remaining(pid, sold), borrowFee))
  PROVE  /\ keptOf(pid, got) \in Nat
         /\ remaining(pid, sold) - feeOf(remaining(pid, sold), borrowFee) \in Nat
         /\ balance' \in [Tokens -> Nat]
<1> DEFINE pool == poolBaseInfo[pid]
           kept == keptOf(pid, got)
           fee == feeOf(remaining(pid, sold), borrowFee)
           wanted == sellAmount(owedToLenders(pid), lendFee)
           paid == [[balance EXCEPT ![pool.borrowToken] = @ - sold] EXCEPT ![pool.lendToken] = @ + kept]
<1>0. TypeOK /\ sold \in Nat /\ Slippage \in Nat
  BY PoolAssumption DEF IInv
<1>1. pool \in PoolBaseInfo /\ poolDataInfo[pid] \in PoolDataInfo
  BY <1>0, PoolTyped
<1>2. /\ pool.lendToken \in Tokens /\ pool.borrowToken \in Tokens
      /\ poolDataInfo[pid].settleAmountLend \in Nat
      /\ poolDataInfo[pid].settleAmountBorrow \in Nat
      /\ pool.settleTime \in Nat /\ pool.endTime \in Nat /\ pool.interestRate \in Nat
      /\ pool.endTime >= pool.settleTime
      /\ lendFee \in Nat /\ borrowFee \in Nat
  <2>1. pool.settleTime \in Nat /\ pool.endTime \in Nat
    BY <1>1 DEF PoolBaseInfo
  <2>2. pool.settleTime < pool.endTime
    BY DEF IInv, TermsOrdered
  <2>3. pool.endTime >= pool.settleTime
    <3> HIDE DEF pool
    <3> QED BY <2>1, <2>2, SMT
  <2> QED
    BY <1>0, <1>1, <2>3 DEF PoolBaseInfo, PoolDataInfo, TypeOK
<1>3. owedToLenders(pid) \in Nat /\ wanted \in Nat
  BY <1>2, OwedNat DEF owedToLenders
<1>4. /\ got \in swapProceeds(wanted)
      /\ balance[pool.borrowToken] >= sold
      /\ sold <= poolDataInfo[pid].settleAmountBorrow
      /\ fee <= remaining(pid, sold)
      /\ paid[pool.borrowToken] >= fee
      /\ balance' = [paid EXCEPT ![pool.borrowToken] = @ - fee]
  BY DEF sellCollateral, remaining
<1>5. got \in Nat
  <2> HIDE DEF wanted
  <2> QED BY <1>0, <1>3, <1>4, SMT DEF swapProceeds
<1>6. kept \in Nat
  BY <1>3, <1>5 DEF keptOf
<1>7. remaining(pid, sold) \in Nat
  BY <1>0, <1>2, <1>4, SMT DEF remaining
<1>8. fee \in Nat
  BY <1>2, <1>7, FeeNat
<1>9. remaining(pid, sold) - fee \in Nat
  <2> HIDE DEF fee
  <2> QED BY <1>4, <1>7, <1>8, SMT
<1> HIDE DEF kept, fee
<1>10. paid \in [Tokens -> Nat]
  <2>1. [balance EXCEPT ![pool.borrowToken] = @ - sold] \in [Tokens -> Nat]
    BY <1>0, <1>2, <1>4, SMT DEF TypeOK
  <2> QED BY <1>2, <1>6, <2>1, SMT
<1>11. balance' \in [Tokens -> Nat]
  <2> HIDE DEF paid
  <2> QED BY <1>2, <1>4, <1>8, <1>10, SMT
<1> QED
  BY <1>6, <1>9, <1>11 DEF kept, fee

\* finish() records amounts.
LEMMA FinishOK ==
  ASSUME IInv, NEW pid \in Created, NEW sold \in Costs, NEW got, finish(pid, sold, got)
  PROVE  IInv'
<1> DEFINE kept == keptOf(pid, got)
           left == remaining(pid, sold) - feeOf(remaining(pid, sold), borrowFee)
           d == [poolDataInfo[pid] EXCEPT !.finishAmountLend = kept, !.finishAmountBorrow = left]
<1>0. TypeOK
  BY DEF IInv
<1>1. /\ sellCollateral(pid, sold, got, kept, feeOf(remaining(pid, sold), borrowFee))
      /\ poolDataInfo' = [poolDataInfo EXCEPT ![pid] = d]
      /\ poolBaseInfo' = [poolBaseInfo EXCEPT ![pid].state = "FINISH"]
      /\ UNCHANGED <<now, settings, books, price>>
  BY DEF finish
<1>2. kept \in Nat /\ left \in Nat /\ balance' \in [Tokens -> Nat]
  BY <1>1, SaleTyped
<1> HIDE DEF kept, left
<1>3. d \in PoolDataInfo
  BY <1>0, <1>2, PoolTyped DEF PoolDataInfo
<1> HIDE DEF d
<1>5. /\ poolBaseInfo' \in Seq(PoolBaseInfo) /\ Len(poolBaseInfo') = Len(poolBaseInfo)
      /\ poolDataInfo' \in Seq(PoolDataInfo) /\ Len(poolDataInfo') = Len(poolDataInfo)
      /\ StakesWithinSupply' /\ UncreatedUnused' /\ TermsOrdered'
  BY <1>1, <1>3, PoolMoved DEF PoolState, books
<1> QED
  BY <1>0, <1>1, <1>2, <1>5 DEF IInv, TypeOK, settings, books

\* So does liquidate(), whatever the swap brings.
LEMMA LiquidateOK ==
  ASSUME IInv, NEW pid \in Created, NEW sold \in Costs, NEW got, liquidate(pid, sold, got)
  PROVE  IInv'
<1> DEFINE kept == keptOf(pid, got)
           left == remaining(pid, sold) - feeOf(remaining(pid, sold), borrowFee)
           d == [poolDataInfo[pid] EXCEPT !.liquidationAmounLend = kept,
                                          !.liquidationAmounBorrow = left]
<1>0. TypeOK
  BY DEF IInv
<1>1. /\ sellCollateral(pid, sold, got, kept, feeOf(remaining(pid, sold), borrowFee))
      /\ poolDataInfo' = [poolDataInfo EXCEPT ![pid] = d]
      /\ poolBaseInfo' = [poolBaseInfo EXCEPT ![pid].state = "LIQUIDATION"]
      /\ UNCHANGED <<now, settings, books, price>>
  BY DEF liquidate
<1>2. kept \in Nat /\ left \in Nat /\ balance' \in [Tokens -> Nat]
  BY <1>1, SaleTyped
<1> HIDE DEF kept, left
<1>3. d \in PoolDataInfo
  BY <1>0, <1>2, PoolTyped DEF PoolDataInfo
<1> HIDE DEF d
<1>5. /\ poolBaseInfo' \in Seq(PoolBaseInfo) /\ Len(poolBaseInfo') = Len(poolBaseInfo)
      /\ poolDataInfo' \in Seq(PoolDataInfo) /\ Len(poolDataInfo') = Len(poolDataInfo)
      /\ StakesWithinSupply' /\ UncreatedUnused' /\ TermsOrdered'
  BY <1>1, <1>3, PoolMoved DEF PoolState, books
<1> QED
  BY <1>0, <1>1, <1>2, <1>5 DEF IInv, TypeOK, settings, books

-----------------------------------------------------------------------------
(* Type correctness.                                                        *)

\* The invariant is inductive.
LEMMA NextOK == IInv /\ [Next]_vars => IInv'
<1> SUFFICES ASSUME IInv, [Next]_vars PROVE IInv'
  OBVIOUS
<1>1. CASE Administer
  BY <1>1, AdministerOK
<1>2. CASE \E u \in Users, pid \in Created : Lend(u, pid) \/ Borrow(u, pid)
  BY <1>2, LendOK, BorrowOK
<1>3. CASE \E pid \in Created : Operate(pid)
  BY <1>3, SettleOK, FinishOK, LiquidateOK DEF Operate
<1>4. CASE Tick
  BY <1>4, BooksKept, PoolAssumption, SMT DEF Tick, IInv, TypeOK, settings, books
<1>5. ASSUME NEW t \in Tokens, NEW p \in Prices[t], setPrice(t, p) PROVE IInv'
  <2>1. p \in Nat
    BY PoolAssumption
  <2> QED
    BY <1>5, <2>1, BooksKept, SMT DEF setPrice, IInv, TypeOK, settings, books
<1>6. CASE UNCHANGED vars
  BY <1>6, BooksKept DEF vars, IInv, TypeOK, settings, books
<1> QED
  BY <1>1, <1>2, <1>3, <1>4, <1>5, <1>6 DEF Next

\* The invariant holds in every reachable state of the contract.
THEOREM InductiveInvariant == Spec => []IInv
  BY InitOK, NextOK, PTL DEF Spec

\* Every variable of the contract keeps its type: in particular no subtraction
\* the code relies on goes below zero and no balance is overdrawn.
THEOREM TypeCorrect == Spec => []TypeOK
<1>1. IInv => TypeOK
  BY DEF IInv
<1> QED
  BY <1>1, InductiveInvariant, PTL

-----------------------------------------------------------------------------
(* Settlement is final.                                                     *)

\* A step that leaves a settled pool's records as they are, and no user's
\* entry for it with less, is final for that pool.
LEMMA KeptIsFinal ==
  ASSUME IInv, NEW q \in Created, ~stateMatch(q),
         poolBaseInfo'[q] = poolBaseInfo[q],
         poolDataInfo'[q] = poolDataInfo[q],
         \A u \in Users : /\ keepsFlags(userLendInfo[u][q], userLendInfo'[u][q])
                          /\ keepsFlags(userBorrowInfo[u][q], userBorrowInfo'[u][q])
  PROVE  finalStep(q)
<1>1. poolBaseInfo[q] \in PoolBaseInfo
  BY PoolTyped DEF IInv
<1>2. poolBaseInfo[q] = [poolBaseInfo[q] EXCEPT !.state = poolBaseInfo[q].state]
  BY <1>1 DEF PoolBaseInfo
<1> QED
  BY <1>2 DEF finalStep, stateMatch, inState

\* One entry of a mapping is assigned.
LEMMA EntryAt ==
  ASSUME NEW f \in [Users -> [Pids -> UserInfo]], NEW u \in Users, NEW pid \in Pids, NEW e,
         NEW v \in Users, NEW q \in Pids
  PROVE  [f EXCEPT ![u][pid] = e][v][q] = IF v = u /\ q = pid THEN e ELSE f[v][q]
  BY SMT

\* The setters and new pools change nothing of a settled pool.
LEMMA AdministerFinal ==
  ASSUME IInv, Administer, NEW q \in Created, ~stateMatch(q) PROVE finalStep(q)
<1>1. UNCHANGED books
  BY DEF Administer, setFee, setSwapRouterAddress, setFeeAddress, setMinAmount, setPause,
         createPoolInfo
<1>2. poolBaseInfo'[q] = poolBaseInfo[q] /\ poolDataInfo'[q] = poolDataInfo[q]
  <2>1. CASE UNCHANGED <<poolBaseInfo, poolDataInfo>>
    BY <2>1
  <2>2. CASE \E terms \in Terms : createPoolInfo(terms)
    <3>1. PICK terms \in Terms : createPoolInfo(terms)
      BY <2>2
    <3>2. q \in 1..Len(poolBaseInfo) /\ q \in 1..Len(poolDataInfo)
      BY DEF IInv, TypeOK, Created
    <3>3. \A S : \A s \in Seq(S) : \A v : q \in 1..Len(s) => Append(s, v)[q] = s[q]
      BY SMT
    <3> QED
      BY <3>1, <3>2, <3>3 DEF createPoolInfo, IInv, TypeOK
  <2> QED
    BY <2>1, <2>2
    DEF Administer, setFee, setSwapRouterAddress, setFeeAddress, setMinAmount, setPause
<1> QED
  BY <1>1, <1>2, KeptIsFinal DEF books, keepsFlags

\* A deposit goes to a pool in MATCH, so it is to another pool.
LEMMA DepositFinal ==
  ASSUME IInv, NEW u \in Users, NEW pid \in Created, NEW amount,
         depositLend(u, pid, amount) \/ depositBorrow(u, pid, amount),
         NEW q \in Created, ~stateMatch(q)
  PROVE  finalStep(q)
<1>1. q # pid
  BY DEF depositLend, depositBorrow
<1>2. UNCHANGED poolDataInfo
  BY DEF depositLend, depositBorrow
<1>3. poolBaseInfo'[q] = poolBaseInfo[q]
  <2>1. \E v : poolBaseInfo' = [poolBaseInfo EXCEPT ![pid] = v]
    BY DEF depositLend, depositBorrow
  <2>2. poolBaseInfo \in Seq(PoolBaseInfo) /\ q \in 1..Len(poolBaseInfo)
    BY DEF IInv, TypeOK, Created
  <2> QED
    BY <1>1, <2>1, <2>2, SMT
<1>4. q \in Pids /\ pid \in Pids
  BY PoolTyped DEF IInv
<1>5. \A v \in Users : /\ userLendInfo'[v][q] = userLendInfo[v][q]
                       /\ userBorrowInfo'[v][q] = userBorrowInfo[v][q]
  <2> SUFFICES ASSUME NEW v \in Users
               PROVE  /\ userLendInfo'[v][q] = userLendInfo[v][q]
                      /\ userBorrowInfo'[v][q] = userBorrowInfo[v][q]
    OBVIOUS
  <2>1. /\ userLendInfo \in [Users -> [Pids -> UserInfo]]
        /\ userBorrowInfo \in [Users -> [Pids -> UserInfo]]
    BY DEF IInv, TypeOK
  <2>2. \/ /\ \E e : userLendInfo' = [userLendInfo EXCEPT ![u][pid] = e]
           /\ UNCHANGED userBorrowInfo
        \/ /\ \E e : userBorrowInfo' = [userBorrowInfo EXCEPT ![u][pid] = e]
           /\ UNCHANGED userLendInfo
    BY DEF depositLend, depositBorrow
  <2>3. ASSUME NEW f \in [Users -> [Pids -> UserInfo]], NEW e
        PROVE  [f EXCEPT ![u][pid] = e][v][q] = f[v][q]
    BY <1>1, <1>4, EntryAt
  <2>4. CASE /\ \E e : userLendInfo' = [userLendInfo EXCEPT ![u][pid] = e]
             /\ UNCHANGED userBorrowInfo
    <3>1. PICK e : userLendInfo' = [userLendInfo EXCEPT ![u][pid] = e]
      BY <2>4
    <3>2. userLendInfo'[v][q] = userLendInfo[v][q]
      BY ONLY <2>1, <2>3, <3>1
    <3> QED BY <2>4, <3>2
  <2>5. CASE /\ \E e : userBorrowInfo' = [userBorrowInfo EXCEPT ![u][pid] = e]
             /\ UNCHANGED userLendInfo
    <3>1. PICK e : userBorrowInfo' = [userBorrowInfo EXCEPT ![u][pid] = e]
      BY <2>5
    <3>2. userBorrowInfo'[v][q] = userBorrowInfo[v][q]
      BY ONLY <2>1, <2>3, <3>1
    <3> QED BY <2>5, <3>2
  <2> QED
    BY <2>2, <2>4, <2>5
<1> QED
  BY <1>2, <1>3, <1>5, KeptIsFinal DEF keepsFlags

\* A payment only ever records itself in the entry it is made from.
LEMMA PaymentFinal ==
  ASSUME IInv, NEW u \in Users, NEW pid \in Created, NEW amount,
         \/ refundLend(u, pid) \/ claimLend(u, pid) \/ emergencyLendWithdrawal(u, pid)
         \/ refundBorrow(u, pid) \/ claimBorrow(u, pid) \/ emergencyBorrowWithdrawal(u, pid)
         \/ withdrawLend(u, pid, amount) \/ withdrawBorrow(u, pid, amount),
         NEW q \in Created, ~stateMatch(q)
  PROVE  finalStep(q)
<1>1. UNCHANGED <<poolBaseInfo, poolDataInfo>>
  BY DEF refundLend, claimLend, emergencyLendWithdrawal, refundBorrow, claimBorrow,
         emergencyBorrowWithdrawal, withdrawLend, withdrawBorrow
<1>2. q \in Pids /\ pid \in Pids
  BY PoolTyped DEF IInv
<1>3. ASSUME NEW info \in UserInfo, NEW x
      PROVE  /\ keepsFlags(info, refunded(info, x))
             /\ keepsFlags(info, withdrawn(info))
             /\ keepsFlags(info, [info EXCEPT !.hasNoClaim = TRUE])
             /\ keepsFlags(info, info)
  BY DEF keepsFlags, refunded, withdrawn, UserInfo
<1>4. \A v \in Users : keepsFlags(userLendInfo[v][q], userLendInfo'[v][q])
  <2> SUFFICES ASSUME NEW v \in Users PROVE keepsFlags(userLendInfo[v][q], userLendInfo'[v][q])
    OBVIOUS
  <2>1. userLendInfo[v][q] \in UserInfo
    BY <1>2 DEF IInv, TypeOK
  <2>2. ASSUME NEW x, userLendInfo' = [userLendInfo EXCEPT ![u][pid] = refunded(@, x)]
        PROVE  keepsFlags(userLendInfo[v][q], userLendInfo'[v][q])
    <3> DEFINE e == refunded(userLendInfo[u][pid], x)
    <3>1. userLendInfo \in [Users -> [Pids -> UserInfo]]
      BY DEF IInv, TypeOK
    <3>2. userLendInfo' = [userLendInfo EXCEPT ![u][pid] = e]
      BY <2>2
    <3>3. keepsFlags(userLendInfo[u][pid], e)
      BY <1>2, <1>3, <3>1
    <3> HIDE DEF e
    <3>4. userLendInfo'[v][q] = IF v = u /\ q = pid THEN e ELSE userLendInfo[v][q]
      BY <1>2, <3>1, <3>2, EntryAt
    <3> QED
      BY <1>3, <2>1, <3>3, <3>4
  <2>3. CASE userLendInfo' = [userLendInfo EXCEPT ![u][pid] = withdrawn(@)]
    BY <1>2, <1>3, <2>1, <2>3 DEF IInv, TypeOK
  <2>4. CASE userLendInfo' = [userLendInfo EXCEPT ![u][pid].hasNoClaim = TRUE]
    BY <1>2, <1>3, <2>1, <2>4 DEF IInv, TypeOK
  <2>5. CASE UNCHANGED userLendInfo
    BY <1>3, <2>1, <2>5
  <2> QED
    BY <2>2, <2>3, <2>4, <2>5
    DEF refundLend, claimLend, emergencyLendWithdrawal, refundBorrow, claimBorrow,
        emergencyBorrowWithdrawal, withdrawLend, withdrawBorrow
<1>5. \A v \in Users : keepsFlags(userBorrowInfo[v][q], userBorrowInfo'[v][q])
  <2> SUFFICES ASSUME NEW v \in Users
               PROVE  keepsFlags(userBorrowInfo[v][q], userBorrowInfo'[v][q])
    OBVIOUS
  <2>1. userBorrowInfo[v][q] \in UserInfo
    BY <1>2 DEF IInv, TypeOK
  <2>2. ASSUME NEW x, userBorrowInfo' = [userBorrowInfo EXCEPT ![u][pid] = refunded(@, x)]
        PROVE  keepsFlags(userBorrowInfo[v][q], userBorrowInfo'[v][q])
    <3> DEFINE e == refunded(userBorrowInfo[u][pid], x)
    <3>1. userBorrowInfo \in [Users -> [Pids -> UserInfo]]
      BY DEF IInv, TypeOK
    <3>2. userBorrowInfo' = [userBorrowInfo EXCEPT ![u][pid] = e]
      BY <2>2
    <3>3. keepsFlags(userBorrowInfo[u][pid], e)
      BY <1>2, <1>3, <3>1
    <3> HIDE DEF e
    <3>4. userBorrowInfo'[v][q] = IF v = u /\ q = pid THEN e ELSE userBorrowInfo[v][q]
      BY <1>2, <3>1, <3>2, EntryAt
    <3> QED
      BY <1>3, <2>1, <3>3, <3>4
  <2>3. CASE userBorrowInfo' = [userBorrowInfo EXCEPT ![u][pid] = withdrawn(@)]
    BY <1>2, <1>3, <2>1, <2>3 DEF IInv, TypeOK
  <2>4. CASE userBorrowInfo' = [userBorrowInfo EXCEPT ![u][pid].hasNoClaim = TRUE]
    BY <1>2, <1>3, <2>1, <2>4 DEF IInv, TypeOK
  <2>5. CASE UNCHANGED userBorrowInfo
    BY <1>3, <2>1, <2>5
  <2> QED
    BY <2>2, <2>3, <2>4, <2>5
    DEF refundLend, claimLend, emergencyLendWithdrawal, refundBorrow, claimBorrow,
        emergencyBorrowWithdrawal, withdrawLend, withdrawBorrow
<1> QED
  BY <1>1, <1>4, <1>5, KeptIsFinal

\* settle() is for a pool in MATCH; finish() and liquidate() move the state
\* and write figures that settlement did not.
LEMMA OperateFinal ==
  ASSUME IInv, NEW pid \in Created, Operate(pid), NEW q \in Created, ~stateMatch(q)
  PROVE  finalStep(q)
<1>0. TypeOK
  BY DEF IInv
<1>1. /\ poolBaseInfo \in Seq(PoolBaseInfo) /\ poolDataInfo \in Seq(PoolDataInfo)
      /\ q \in 1..Len(poolBaseInfo) /\ q \in 1..Len(poolDataInfo)
      /\ poolBaseInfo[q] \in PoolBaseInfo /\ poolDataInfo[q] \in PoolDataInfo
  BY <1>0, PoolTyped DEF TypeOK, Created
<1>2. UNCHANGED books
  BY DEF Operate, settle, finish, liquidate
<1>3. CASE q # pid
  <2>1. \E v, d : /\ poolBaseInfo' = [poolBaseInfo EXCEPT ![pid] = v]
                 /\ poolDataInfo' = [poolDataInfo EXCEPT ![pid] = d]
    BY DEF Operate, settle, settleMatched, settleUnmatched, finish, liquidate
  <2>2. poolBaseInfo'[q] = poolBaseInfo[q] /\ poolDataInfo'[q] = poolDataInfo[q]
    BY <1>1, <1>3, <2>1, SMT
  <2> QED
    BY <1>2, <2>2, KeptIsFinal DEF books, keepsFlags
<1>4. CASE q = pid
  <2>1. PICK sold, got : finish(q, sold, got) \/ liquidate(q, sold, got)
    BY <1>4 DEF Operate, settle
  <2>2. PICK st : /\ st \in {"FINISH", "LIQUIDATION"}
                  /\ poolBaseInfo' = [poolBaseInfo EXCEPT ![q].state = st]
    BY <2>1 DEF finish, liquidate
  <2>3. poolBaseInfo'[q] = [poolBaseInfo[q] EXCEPT !.state = st]
    BY <1>1, <2>2
  <2>4. poolBaseInfo'[q].state = st /\ st # "MATCH"
    BY <1>1, <2>2, <2>3 DEF PoolBaseInfo
  <2>5. /\ poolDataInfo'[q].settleAmountLend = poolDataInfo[q].settleAmountLend
        /\ poolDataInfo'[q].settleAmountBorrow = poolDataInfo[q].settleAmountBorrow
    <3> DEFINE kept == keptOf(q, got)
               left == remaining(q, sold) - feeOf(remaining(q, sold), borrowFee)
    <3>1. CASE finish(q, sold, got)
      <4>1. poolDataInfo' = [poolDataInfo EXCEPT ![q] =
              [@ EXCEPT !.finishAmountLend = kept, !.finishAmountBorrow = left]]
        BY <3>1 DEF finish
      <4> HIDE DEF kept, left
      <4> QED
        BY <1>1, <4>1 DEF PoolDataInfo
    <3>2. CASE liquidate(q, sold, got)
      <4>1. poolDataInfo' = [poolDataInfo EXCEPT ![q] =
              [@ EXCEPT !.liquidationAmounLend = kept, !.liquidationAmounBorrow = left]]
        BY <3>2 DEF liquidate
      <4> HIDE DEF kept, left
      <4> QED
        BY <1>1, <4>1 DEF PoolDataInfo
    <3> QED
      BY <2>1, <3>1, <3>2
  <2> QED
    BY <1>2, <2>3, <2>4, <2>5 DEF finalStep, keepsFlags, books
<1> QED
  BY <1>3, <1>4

\* No step of the contract takes back anything about a settled pool.
LEMMA NextFinal ==
  ASSUME IInv, Next, NEW q \in Created, ~stateMatch(q) PROVE finalStep(q)
<1>1. CASE Administer
  BY <1>1, AdministerFinal
<1>2. ASSUME NEW u \in Users, NEW pid \in Created, Lend(u, pid) \/ Borrow(u, pid)
      PROVE  finalStep(q)
  BY <1>2, DepositFinal, PaymentFinal DEF Lend, Borrow
<1>3. CASE \E pid \in Created : Operate(pid)
  BY <1>3, OperateFinal
<1>4. CASE Tick \/ \E t \in Tokens : \E p \in Prices[t] : setPrice(t, p)
  BY <1>4, KeptIsFinal DEF Tick, setPrice, books, keepsFlags
<1> QED
  BY <1>1, <1>2, <1>3, <1>4 DEF Next

\* Once settled, a pool's terms, supplies, stakes and settled amounts never
\* change and a recorded payment is never forgotten, by any function.
THEOREM SettlementFinal == Spec => SettlementIsFinal
<1>1. ASSUME IInv, [Next]_vars
      PROVE  [\A pid \in Created : ~stateMatch(pid) => finalStep(pid)]_vars
  BY <1>1, NextFinal
<1> QED
  BY <1>1, InductiveInvariant, PTL DEF Spec, SettlementIsFinal

-----------------------------------------------------------------------------
(* Settlement is sound, and there is none without collateral.               *)

\* What a step can do to one pool's record.
LEMMA PoolSteps ==
  ASSUME IInv, Next, NEW q \in Created
  PROVE  \/ poolBaseInfo'[q] = poolBaseInfo[q]
         \/ \E x : poolBaseInfo'[q] = [poolBaseInfo[q] EXCEPT !.lendSupply = x]
         \/ /\ BorrowDeposits
            /\ \E x : poolBaseInfo'[q] = [poolBaseInfo[q] EXCEPT !.borrowSupply = x]
         \/ settle(q)
         \/ \E sold, got : finish(q, sold, got) \/ liquidate(q, sold, got)
<1>1. poolBaseInfo \in Seq(PoolBaseInfo) /\ q \in 1..Len(poolBaseInfo)
  BY DEF IInv, TypeOK, Created
<1>2. CASE Administer
  <2>1. poolBaseInfo' = poolBaseInfo \/ \E v : poolBaseInfo' = Append(poolBaseInfo, v)
    BY <1>2 DEF Administer, setFee, setSwapRouterAddress, setFeeAddress, setMinAmount, setPause,
                createPoolInfo
  <2> QED
    BY <1>1, <2>1, SMT
<1>3. ASSUME NEW pid \in Created,
             \E u \in Users : Lend(u, pid) \/ Borrow(u, pid)
      PROVE  \/ poolBaseInfo'[q] = poolBaseInfo[q]
             \/ \E x : poolBaseInfo'[q] = [poolBaseInfo[q] EXCEPT !.lendSupply = x]
             \/ /\ BorrowDeposits
                /\ \E x : poolBaseInfo'[q] = [poolBaseInfo[q] EXCEPT !.borrowSupply = x]
  <2>1. \/ poolBaseInfo' = poolBaseInfo
        \/ \E x : poolBaseInfo' = [poolBaseInfo EXCEPT ![pid] = [@ EXCEPT !.lendSupply = x]]
        \/ /\ BorrowDeposits
           /\ \E x : poolBaseInfo' = [poolBaseInfo EXCEPT ![pid] = [@ EXCEPT !.borrowSupply = x]]
    BY <1>3 DEF Lend, Borrow, depositLend, depositBorrow, refundLend, claimLend, withdrawLend,
                emergencyLendWithdrawal, refundBorrow, claimBorrow, withdrawBorrow,
                emergencyBorrowWithdrawal
  <2>2. ASSUME NEW x, poolBaseInfo' = [poolBaseInfo EXCEPT ![pid] = [@ EXCEPT !.lendSupply = x]]
        PROVE  \/ poolBaseInfo'[q] = poolBaseInfo[q]
               \/ poolBaseInfo'[q] = [poolBaseInfo[q] EXCEPT !.lendSupply = x]
    BY <1>1, <2>2
  <2>3. ASSUME NEW x, poolBaseInfo' = [poolBaseInfo EXCEPT ![pid] = [@ EXCEPT !.borrowSupply = x]]
        PROVE  \/ poolBaseInfo'[q] = poolBaseInfo[q]
               \/ poolBaseInfo'[q] = [poolBaseInfo[q] EXCEPT !.borrowSupply = x]
    BY <1>1, <2>3
  <2> QED
    BY <2>1, <2>2, <2>3
<1>4. ASSUME NEW pid \in Created, Operate(pid)
      PROVE  \/ poolBaseInfo'[q] = poolBaseInfo[q]
             \/ settle(q)
             \/ \E sold, got : finish(q, sold, got) \/ liquidate(q, sold, got)
  <2>1. CASE q = pid
    BY <1>4, <2>1 DEF Operate
  <2>2. CASE q # pid
    <3>1. \E v : poolBaseInfo' = [poolBaseInfo EXCEPT ![pid] = v]
      BY <1>4 DEF Operate, settle, settleMatched, settleUnmatched, finish, liquidate
    <3> QED
      BY <1>1, <2>2, <3>1
  <2> QED
    BY <2>1, <2>2
<1>5. CASE Tick \/ \E t \in Tokens : \E p \in Prices[t] : setPrice(t, p)
  BY <1>5 DEF Tick, setPrice
<1> QED
  BY <1>2, <1>3, <1>4, <1>5 DEF Next

\* A settled loan is within the deposits and covered by the collateral matched
\* with it, for every price, rate and unit: settle() never makes a loan the
\* oracle's prices do not support.
THEOREM SettlementSafe == Spec => SettlesSoundly
<1>1. ASSUME IInv, [Next]_vars
      PROVE  [\A pid \in Created :
                stateMatch(pid) /\ poolBaseInfo'[pid].state = "EXECUTION" => settledSoundly(pid)]_vars
  <2> SUFFICES ASSUME Next, NEW q \in Created, stateMatch(q), poolBaseInfo'[q].state = "EXECUTION"
               PROVE  settledSoundly(q)
    BY <1>1
  <2> DEFINE pool == poolBaseInfo[q]
             p == getUnderlyingPriceView(q)
             m == SettleAmounts(pool.lendSupply, pool.borrowSupply, p[1], p[2], pool.martgageRate)
  <2>1. /\ pool \in PoolBaseInfo /\ poolDataInfo[q] \in PoolDataInfo
        /\ poolBaseInfo \in Seq(PoolBaseInfo) /\ q \in 1..Len(poolBaseInfo)
        /\ poolDataInfo \in Seq(PoolDataInfo) /\ q \in 1..Len(poolDataInfo)
    BY <1>1, PoolTyped DEF IInv, TypeOK, Created
  <2>2. pool.state = "MATCH"
    BY DEF stateMatch, inState
  <2>3. settleMatched(q)
    <3>1. ~(\E sold, got : finish(q, sold, got) \/ liquidate(q, sold, got))
      BY <2>2 DEF finish, liquidate, inState
    <3>2. ~settleUnmatched(q)
      <4> SUFFICES ASSUME settleUnmatched(q) PROVE FALSE
        OBVIOUS
      <4>1. poolBaseInfo'[q].state = "UNDONE"
        BY <2>1 DEF settleUnmatched, PoolBaseInfo
      <4> QED BY <4>1
    <3>3. settle(q) => settleMatched(q)
      BY <3>2 DEF settle
    <3>4. poolBaseInfo'[q] # pool
      BY <2>2
    <3>5. \A x : /\ poolBaseInfo'[q] # [pool EXCEPT !.lendSupply = x]
                 /\ poolBaseInfo'[q] # [pool EXCEPT !.borrowSupply = x]
      BY <2>1, <2>2 DEF PoolBaseInfo
    <3> QED
      BY <1>1, <3>1, <3>3, <3>4, <3>5, PoolSteps
  <2>4. /\ pool.lendSupply \in Nat /\ pool.borrowSupply \in Nat /\ pool.martgageRate \in Nat
        /\ p[1] \in Nat /\ p[2] \in Nat
    BY <1>1, <2>1 DEF PoolBaseInfo, IInv, TypeOK, getUnderlyingPriceView
  <2>5. SettleDefined(pool.lendSupply, pool.borrowSupply, p[1], p[2], pool.martgageRate)
    BY <2>3 DEF settleMatched
  <2>6. /\ m.lend <= pool.lendSupply
        /\ m.lend * pool.martgageRate * p[1] <= (m.borrow + 1) * p[2] * BaseDecimal
        /\ (p[2] * BaseDecimal) % p[1] = 0 => m.borrow <= pool.borrowSupply
    BY <2>4, <2>5, SettlementSound
  <2>7. /\ poolDataInfo'[q].settleAmountLend = m.lend
        /\ poolDataInfo'[q].settleAmountBorrow = m.borrow
    <3> DEFINE l == m.lend
               b == m.borrow
    <3>1. poolDataInfo' = [poolDataInfo EXCEPT ![q] =
                            [@ EXCEPT !.settleAmountLend = l, !.settleAmountBorrow = b]]
      BY <2>3 DEF settleMatched
    <3> HIDE DEF l, b, m
    <3>2. /\ poolDataInfo'[q].settleAmountLend = l /\ poolDataInfo'[q].settleAmountBorrow = b
      BY <2>1, <3>1 DEF PoolDataInfo
    <3> QED BY <3>2 DEF l, b
  <2> QED
    BY <2>6, <2>7 DEF settledSoundly
<1> QED
  BY <1>1, InductiveInvariant, PTL DEF Spec, SettlesSoundly
-----------------------------------------------------------------------------
(* The source as it stands.                                                 *)

\* Without depositBorrow no pool has collateral, and so none is ever executed.
NothingPledged ==
  ~BorrowDeposits => \A pid \in Created :
    inState(pid, {"MATCH", "UNDONE"}) /\ poolBaseInfo[pid].borrowSupply = 0

\* A pool that a step creates is new (createPoolInfo).
LEMMA CreatedNow ==
  ASSUME IInv, Next, NEW q \in Created', q \notin Created
  PROVE  \E terms \in Terms : poolBaseInfo'[q] = newPool(terms)
<1>1. poolBaseInfo \in Seq(PoolBaseInfo)
  BY DEF IInv, TypeOK
<1>2. CASE \E terms \in Terms : createPoolInfo(terms)
  <2>1. PICK terms \in Terms : createPoolInfo(terms)
    BY <1>2
  <2> DEFINE v == newPool(terms)
  <2>2. poolBaseInfo' = Append(poolBaseInfo, v)
    BY <2>1 DEF createPoolInfo
  <2> HIDE DEF v
  <2>3. q = Len(poolBaseInfo) + 1 /\ poolBaseInfo'[q] = v
    BY <1>1, <2>2, SMT DEF Created
  <2> QED
    BY <2>3 DEF v
<1>3. ASSUME Len(poolBaseInfo') = Len(poolBaseInfo) PROVE FALSE
  BY <1>3 DEF Created
<1>4. ASSUME NEW pid \in Created, NEW v, poolBaseInfo' = [poolBaseInfo EXCEPT ![pid] = v]
      PROVE  FALSE
  <2>1. Len(poolBaseInfo') = Len(poolBaseInfo)
    BY <1>1, <1>4, SMT DEF Created
  <2> QED
    BY <1>3, <2>1
<1>5. CASE Administer
  BY <1>2, <1>3, <1>5 DEF Administer, setFee, setSwapRouterAddress, setFeeAddress, setMinAmount, setPause
<1>6. ASSUME NEW pid \in Created, \E u \in Users : Lend(u, pid) \/ Borrow(u, pid) PROVE FALSE
  <2>1. poolBaseInfo' = poolBaseInfo \/ \E v : poolBaseInfo' = [poolBaseInfo EXCEPT ![pid] = v]
    BY <1>6 DEF Lend, Borrow, depositLend, depositBorrow, refundLend, claimLend, withdrawLend,
                emergencyLendWithdrawal, refundBorrow, claimBorrow, withdrawBorrow,
                emergencyBorrowWithdrawal
  <2> QED
    BY <1>3, <1>4, <2>1
<1>7. ASSUME NEW pid \in Created, Operate(pid) PROVE FALSE
  <2>1. \E v : poolBaseInfo' = [poolBaseInfo EXCEPT ![pid] = v]
    BY <1>7, Zenon DEF Operate, settle, settleMatched, settleUnmatched, finish, liquidate
  <2> QED
    BY <1>4, <2>1
<1>8. CASE Tick \/ \E t \in Tokens : \E p \in Prices[t] : setPrice(t, p)
  BY <1>3, <1>8 DEF Tick, setPrice
<1> QED
  BY <1>5, <1>6, <1>7, <1>8 DEF Next

\* No step pledges anything (PoolSteps has what a step can do to a pool).
LEMMA NothingPledgedKept ==
  ASSUME IInv, NothingPledged, [Next]_vars PROVE NothingPledged'
<1> SUFFICES ASSUME ~BorrowDeposits, NEW q \in Created'
             PROVE  poolBaseInfo'[q].state \in {"MATCH", "UNDONE"} /\ poolBaseInfo'[q].borrowSupply = 0
  BY DEF NothingPledged, inState
<1>1. CASE UNCHANGED vars
  <2>1. poolBaseInfo' = poolBaseInfo
    BY <1>1 DEF vars
  <2>2. q \in Created
    BY <2>1 DEF Created
  <2> QED
    BY <2>1, <2>2 DEF NothingPledged, inState
<1>2. CASE Next /\ q \notin Created
  <2>1. PICK terms \in Terms : poolBaseInfo'[q] = newPool(terms)
    BY <1>2, CreatedNow
  <2> QED
    BY <2>1 DEF newPool
<1>3. CASE Next /\ q \in Created
  <2> DEFINE pool == poolBaseInfo[q]
  <2>1. pool.state \in {"MATCH", "UNDONE"} /\ pool.borrowSupply = 0 /\ pool \in PoolBaseInfo
    BY <1>3, PoolTyped DEF NothingPledged, inState, IInv
  <2>2. \A sold, got : ~finish(q, sold, got) /\ ~liquidate(q, sold, got)
    <3>1. ~inState(q, {"EXECUTION"})
      BY <2>1 DEF inState
    <3> QED
      BY <3>1 DEF finish, liquidate
  <2>3. \/ poolBaseInfo'[q] = pool
        \/ \E x : poolBaseInfo'[q] = [pool EXCEPT !.lendSupply = x]
        \/ settle(q)
    BY <1>3, <2>2, PoolSteps
  <2>4. CASE settle(q)
    <3>1. ~bothSides(pool)
      BY <2>1, SMT DEF bothSides
    <3>2. poolBaseInfo' = [poolBaseInfo EXCEPT ![q].state = "UNDONE"]
      BY <2>4, <3>1 DEF settle, settleMatched, settleUnmatched
    <3>3. poolBaseInfo \in Seq(PoolBaseInfo) /\ q \in 1..Len(poolBaseInfo)
      BY <1>3 DEF IInv, TypeOK, Created
    <3>4. poolBaseInfo'[q] = [pool EXCEPT !.state = "UNDONE"]
      BY <3>2, <3>3
    <3> QED
      BY <2>1, <3>4 DEF PoolBaseInfo
  <2>5. CASE \E x : poolBaseInfo'[q] = [pool EXCEPT !.lendSupply = x]
    BY <2>1, <2>5 DEF PoolBaseInfo
  <2> QED
    BY <2>1, <2>3, <2>4, <2>5
<1> QED
  BY <1>1, <1>2, <1>3

\* The contract as its source stands never makes a loan, for any terms, prices
\* and users: nobody can pledge collateral (PledgePool.sol:96), and settle()
\* leaves a pool without collateral UNDONE.
THEOREM NeverLends == Spec => []NoLoanWithoutCollateral
<1>1. Init => NothingPledged
  BY DEF Init, NothingPledged, Created
<1>2. NothingPledged => NoLoanWithoutCollateral
  BY DEF NothingPledged, NoLoanWithoutCollateral
<1> QED
  BY <1>1, <1>2, NothingPledgedKept, InductiveInvariant, PTL DEF Spec
=============================================================================
