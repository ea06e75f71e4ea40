---------------------------- MODULE UtxosProofs ----------------------------
(***************************************************************************)
(* Facts that the proofs about transfers and summaries share: what         *)
(* AmountOf and SumFunction compute for every finite set, in whatever      *)
(* order they pick, and the account's addresses.                           *)
(* The induction is an argument by a smallest counterexample, for which    *)
(* the strict subsets of a finite set are well-founded.                    *)
(***************************************************************************)
EXTENDS Utxos, FiniteSetTheorems, TLAPS

\* Among subsets of a finite set there is one without a smaller one.
LEMMA Smallest ==
  ASSUME NEW S, IsFiniteSet(S), NEW T, T \subseteq SUBSET S, T # {}
  PROVE  \E s \in T : \A t \in T : t \subseteq s => t = s
<1>1. IsWellFoundedOn(StrictSubsetOrdering(S), SUBSET S)
  BY FS_StrictSubsetOrderingWellFounded, FS_FiniteSubsetsOfFinite
<1>2. PICK s \in T : \A t \in T : ~(<<t, s>> \in StrictSubsetOrdering(S))
  BY <1>1, WFMin
<1> QED
  BY <1>2 DEF StrictSubsetOrdering

----------------------------------------------------------------------------
\* The member that the recursion takes from a set.
Pick(s) == CHOOSE x \in s : TRUE

\* it holds the sums of f over the subsets of S, by the recursion of the folds.
Sums(it, f, S) ==
  it = [s \in SUBSET S |-> IF s = {} THEN 0 ELSE f[Pick(s)] + it[s \ {Pick(s)}]]

\* The sum of f over S.
SumOf(f, S) == (CHOOSE it : Sums(it, f, S))[S]

\* What Sums says of one subset.
LEMMA SumsAt ==
  ASSUME NEW it, NEW f, NEW S, Sums(it, f, S), NEW s \in SUBSET S
  PROVE  /\ s = {} => it[s] = 0
         /\ s # {} => /\ Pick(s) \in s
                      /\ s \ {Pick(s)} \in SUBSET S
                      /\ it[s] = f[Pick(s)] + it[s \ {Pick(s)}]
<1>1. s # {} => Pick(s) \in s
  BY DEF Pick
<1>2. it = [t \in SUBSET S |-> IF t = {} THEN 0 ELSE f[Pick(t)] + it[t \ {Pick(t)}]]
  BY DEF Sums
<1>3. it[s] = IF s = {} THEN 0 ELSE f[Pick(s)] + it[s \ {Pick(s)}]
  BY <1>2
<1> QED
  BY <1>1, <1>3

\* Two of them agree wherever both are defined.
LEMMA SumsUnique ==
  ASSUME NEW f, NEW A, NEW B, IsFiniteSet(A), NEW g, NEW h, Sums(g, f, A), Sums(h, f, B),
         NEW s \in SUBSET (A \cap B)
  PROVE  g[s] = h[s]
<1> DEFINE T == {t \in SUBSET A : t \subseteq B /\ g[t] # h[t]}
<1>1. SUFFICES ASSUME T # {} PROVE FALSE
  BY <1>1
<1>2. PICK t \in T : \A u \in T : u \subseteq t => u = t
  <2>1. T \subseteq SUBSET A
    OBVIOUS
  <2> HIDE DEF T
  <2> QED
    BY <1>1, <2>1, Smallest
<1>3. t \in SUBSET A /\ t \in SUBSET B /\ g[t] # h[t]
  OBVIOUS
<1>4. t # {}
  BY <1>3, SumsAt
<1>5. /\ Pick(t) \in t
      /\ g[t] = f[Pick(t)] + g[t \ {Pick(t)}]
      /\ h[t] = f[Pick(t)] + h[t \ {Pick(t)}]
  BY <1>3, <1>4, SumsAt
<1>6. t \ {Pick(t)} \notin T
  BY <1>2, <1>5
<1>7. g[t \ {Pick(t)}] = h[t \ {Pick(t)}]
  BY <1>3, <1>6
<1> QED
  BY <1>3, <1>5, <1>7

\* For a finite set there is one: of the subsets that have none, a smallest one
\* would have one put together from those of its strict subsets.
LEMMA SumsExist ==
  ASSUME NEW f, NEW S, IsFiniteSet(S)
  PROVE  \E it : Sums(it, f, S)
<1> DEFINE T == {s \in SUBSET S : ~ \E it : Sums(it, f, s)}
<1>1. SUFFICES ASSUME T # {} PROVE FALSE
  BY <1>1
<1>2. PICK s \in T : \A t \in T : t \subseteq s => t = s
  <2>1. T \subseteq SUBSET S
    OBVIOUS
  <2> HIDE DEF T
  <2> QED
    BY <1>1, <2>1, Smallest
<1> DEFINE Of(t) == CHOOSE it : Sums(it, f, t)
           At(t) == IF t = {} THEN 0 ELSE f[Pick(t)] + Of(t \ {Pick(t)})[t \ {Pick(t)}]
           it    == [t \in SUBSET s |-> At(t)]
<1>3. ASSUME NEW t \in SUBSET s, t # s PROVE Sums(Of(t), f, t) /\ IsFiniteSet(t)
  <2>1. t \in SUBSET S /\ t \notin T
    BY <1>2, <1>3
  <2>2. \E g : Sums(g, f, t)
    BY <2>1
  <2> QED
    BY <2>1, <2>2, FS_Subset
<1>4. ASSUME NEW t \in SUBSET s, t # s PROVE Of(t)[t] = At(t)
  <2>1. CASE t = {}
    BY <1>3, <1>4, <2>1, SumsAt
  <2>2. CASE t # {}
    <3> DEFINE r == t \ {Pick(t)}
    <3>1. Pick(t) \in t
      BY <2>2 DEF Pick
    <3>2. r \in SUBSET s /\ r # s /\ r \in SUBSET (t \cap r)
      BY <1>4, <3>1
    <3>3. Sums(Of(t), f, t) /\ Sums(Of(r), f, r) /\ IsFiniteSet(t)
      BY <1>3, <1>4, <3>2
    <3>4. Of(t)[r] = Of(r)[r]
      BY <3>2, <3>3, SumsUnique
    <3>5. Of(t)[t] = f[Pick(t)] + Of(t)[r]
      BY <2>2, <3>3, SumsAt
    <3> QED
      BY <2>2, <3>4, <3>5
  <2> QED
    BY <2>1, <2>2
<1>5. ASSUME NEW t \in SUBSET s
      PROVE  it[t] = IF t = {} THEN 0 ELSE f[Pick(t)] + it[t \ {Pick(t)}]
  <2>1. CASE t = {}
    BY <2>1
  <2>2. CASE t # {}
    <3> DEFINE r == t \ {Pick(t)}
    <3>1. Pick(t) \in t
      BY <2>2 DEF Pick
    <3>2. r \in SUBSET s /\ r # s
      BY <3>1
    <3>3. it[r] = Of(r)[r]
      BY <1>4, <3>2
    <3> QED
      BY <2>2, <3>3
  <2> QED
    BY <2>1, <2>2
<1>6. Sums(it, f, s)
  <2> HIDE DEF At, Of
  <2>1. it = [t \in SUBSET s |-> IF t = {} THEN 0 ELSE f[Pick(t)] + it[t \ {Pick(t)}]]
    BY <1>5
  <2> QED
    BY <2>1 DEF Sums
<1> QED
  BY <1>2, <1>6

\* SumOf does what the recursion says, on each finite set.
LEMMA SumOfStep ==
  ASSUME NEW f, NEW S, IsFiniteSet(S)
  PROVE  /\ S = {} => SumOf(f, S) = 0
         /\ S # {} => Pick(S) \in S /\ SumOf(f, S) = f[Pick(S)] + SumOf(f, S \ {Pick(S)})
<1> DEFINE Of(A) == CHOOSE it : Sums(it, f, A)
           r     == S \ {Pick(S)}
<1>1. IsFiniteSet(r) /\ r \subseteq S
  BY FS_Subset
<1>2. Sums(Of(S), f, S) /\ Sums(Of(r), f, r)
  BY <1>1, SumsExist
<1>3. Of(S)[r] = Of(r)[r]
  <2>1. r \in SUBSET (S \cap r)
    BY <1>1
  <2> QED
    BY <1>2, <2>1, SumsUnique
<1>4. SumOf(f, S) = Of(S)[S] /\ SumOf(f, r) = Of(r)[r]
  BY DEF SumOf
<1>5. S \in SUBSET S
  OBVIOUS
<1> HIDE DEF Of, r
<1>6. S = {} => Of(S)[S] = 0
  BY <1>2, <1>5, SumsAt
<1>7. S # {} => Pick(S) \in S /\ Of(S)[S] = f[Pick(S)] + Of(S)[r]
  BY <1>2, <1>5, SumsAt DEF r
<1> QED
  BY <1>3, <1>4, <1>6, <1>7 DEF r

\* Naturals have a natural sum.
LEMMA SumOfType ==
  ASSUME NEW f, NEW S, IsFiniteSet(S), \A x \in S : f[x] \in Nat
  PROVE  SumOf(f, S) \in Nat
<1> DEFINE T == {s \in SUBSET S : SumOf(f, s) \notin Nat}
<1>1. SUFFICES ASSUME T # {} PROVE FALSE
  BY <1>1
<1>2. PICK s \in T : \A t \in T : t \subseteq s => t = s
  <2>1. T \subseteq SUBSET S
    OBVIOUS
  <2> HIDE DEF T
  <2> QED
    BY <1>1, <2>1, Smallest
<1>3. s \in SUBSET S /\ SumOf(f, s) \notin Nat /\ IsFiniteSet(s)
  BY FS_Subset
<1> HIDE DEF T
<1>4. s # {}
  <2>1. s = {} => SumOf(f, s) = 0
    BY <1>3, SumOfStep
  <2> QED
    BY <1>3, <2>1
<1>5. Pick(s) \in s /\ SumOf(f, s) = f[Pick(s)] + SumOf(f, s \ {Pick(s)})
  BY <1>3, <1>4, SumOfStep
<1>6. SumOf(f, s \ {Pick(s)}) \in Nat
  BY <1>2, <1>3, <1>5 DEF T
<1>7. f[Pick(s)] \in Nat
  BY <1>3, <1>5
<1> QED
  BY <1>3, <1>5, <1>6, <1>7

\* The order does not matter: any member may be taken first.
LEMMA SumOfRemove ==
  ASSUME NEW f, NEW S, IsFiniteSet(S), \A x \in S : f[x] \in Nat, NEW m \in S
  PROVE  SumOf(f, S) = f[m] + SumOf(f, S \ {m})
<1> DEFINE T == {s \in SUBSET S : \E x \in s : SumOf(f, s) # f[x] + SumOf(f, s \ {x})}
<1>1. SUFFICES ASSUME T # {} PROVE FALSE
  <2>1. S \notin T
    BY <1>1
  <2> QED
    BY <2>1
<1>2. PICK s \in T : \A t \in T : t \subseteq s => t = s
  <2>1. T \subseteq SUBSET S
    OBVIOUS
  <2> HIDE DEF T
  <2> QED
    BY <1>1, <2>1, Smallest
<1>3. s \in SUBSET S /\ IsFiniteSet(s)
  BY FS_Subset
<1>4. PICK x \in s : SumOf(f, s) # f[x] + SumOf(f, s \ {x})
  OBVIOUS
<1> DEFINE p == Pick(s)
<1>5. p \in s /\ SumOf(f, s) = f[p] + SumOf(f, s \ {p})
  BY <1>3, <1>4, SumOfStep
<1>6. p # x
  BY <1>4, <1>5
<1>7. s \ {p} \notin T /\ s \ {x} \notin T
  BY <1>2, <1>4, <1>5
<1>8. SumOf(f, s \ {p}) = f[x] + SumOf(f, (s \ {p}) \ {x})
  BY <1>3, <1>4, <1>6, <1>7
<1>9. SumOf(f, s \ {x}) = f[p] + SumOf(f, (s \ {x}) \ {p})
  BY <1>3, <1>5, <1>6, <1>7
<1>10. (s \ {p}) \ {x} = (s \ {x}) \ {p}
  OBVIOUS
<1>11. f[x] \in Nat /\ f[p] \in Nat /\ SumOf(f, (s \ {p}) \ {x}) \in Nat
  <2>1. IsFiniteSet((s \ {p}) \ {x})
    BY <1>3, FS_Subset
  <2>2. \A y \in (s \ {p}) \ {x} : f[y] \in Nat
    BY <1>3
  <2> QED
    BY <1>3, <1>5, <2>1, <2>2, SumOfType
<1> DEFINE rest == SumOf(f, (s \ {p}) \ {x})
<1>12. SumOf(f, s) = f[p] + (f[x] + rest) /\ SumOf(f, s \ {x}) = f[p] + rest
  BY <1>5, <1>8, <1>9, <1>10
<1> HIDE DEF T, p, rest
<1>13. f[p] + (f[x] + rest) = f[x] + (f[p] + rest)
  BY <1>11 DEF rest
<1> QED
  BY <1>4, <1>12, <1>13

\* Only the values on the set matter.
LEMMA SumOfAgree ==
  ASSUME NEW f, NEW g, NEW S, IsFiniteSet(S), \A x \in S : f[x] = g[x]
  PROVE  SumOf(f, S) = SumOf(g, S)
<1> DEFINE T == {s \in SUBSET S : SumOf(f, s) # SumOf(g, s)}
<1>1. SUFFICES ASSUME T # {} PROVE FALSE
  BY <1>1
<1>2. PICK s \in T : \A t \in T : t \subseteq s => t = s
  <2>1. T \subseteq SUBSET S
    OBVIOUS
  <2> HIDE DEF T
  <2> QED
    BY <1>1, <2>1, Smallest
<1>3. s \in SUBSET S /\ IsFiniteSet(s) /\ SumOf(f, s) # SumOf(g, s)
  BY FS_Subset
<1>4. s # {}
  BY <1>3, SumOfStep
<1>5. /\ Pick(s) \in s
      /\ SumOf(f, s) = f[Pick(s)] + SumOf(f, s \ {Pick(s)})
      /\ SumOf(g, s) = g[Pick(s)] + SumOf(g, s \ {Pick(s)})
  BY <1>3, <1>4, SumOfStep
<1>6. SumOf(f, s \ {Pick(s)}) = SumOf(g, s \ {Pick(s)})
  BY <1>2, <1>3, <1>5
<1> QED
  BY <1>3, <1>5, <1>6

\* Positive values have a positive sum, unless there are none.
LEMMA SumOfPositive ==
  ASSUME NEW f, NEW S, IsFiniteSet(S), S # {}, \A x \in S : f[x] \in Nat \ {0}
  PROVE  SumOf(f, S) > 0
<1>1. Pick(S) \in S /\ SumOf(f, S) = f[Pick(S)] + SumOf(f, S \ {Pick(S)})
  BY SumOfStep
<1>2. SumOf(f, S \ {Pick(S)}) \in Nat
  <2>1. IsFiniteSet(S \ {Pick(S)})
    BY FS_Subset
  <2> QED
    BY <2>1, SumOfType
<1>3. f[Pick(S)] \in Nat \ {0}
  BY <1>1
<1> QED
  BY <1>1, <1>2, <1>3

----------------------------------------------------------------------------
\* The sum over the domain, as the library folds it.
LEMMA SumFunctionIs == ASSUME NEW f PROVE SumFunction(f) = SumOf(f, DOMAIN f)
  BY DEF SumFunction, SumFunctionOnSet, FoldFunctionOnSet, MapThenFoldSet, SumOf, Sums, Pick

\* The amount of a set of UTXOs, as the library folds it.
LEMMA AmountIs ==
  ASSUME NEW utxos, NEW S
  PROVE  AmountOf(utxos, S) = SumOf([u \in S |-> utxos[u].amount], S)
  BY DEF AmountOf, MapThenSumSet, MapThenFoldSet, SumOf, Sums, Pick

\* Where every UTXO has a positive amount, so has a set of them that is not empty.
LEMMA AmountFacts ==
  ASSUME NEW utxos, NEW S, IsFiniteSet(S), \A u \in S : utxos[u].amount \in Nat \ {0}
  PROVE  /\ AmountOf(utxos, S) \in Nat
         /\ AmountOf(utxos, S) = 0 <=> S = {}
<1> DEFINE f == [u \in S |-> utxos[u].amount]
<1>1. \A u \in S : f[u] \in Nat \ {0}
  OBVIOUS
<1>2. AmountOf(utxos, S) = SumOf(f, S)
  BY AmountIs
<1> HIDE DEF f
<1>3. SumOf(f, S) \in Nat
  BY <1>1, SumOfType
<1>4. S # {} => SumOf(f, S) > 0
  BY <1>1, SumOfPositive
<1>5. S = {} => SumOf(f, S) = 0
  BY SumOfStep
<1> QED
  BY <1>2, <1>3, <1>4, <1>5

\* What a set of UTXOs amounts to.
LEMMA TotalFacts ==
  ASSUME utxo \in [Utxo -> [addr : Address, amount : 1 .. MaxAmount]], NEW S \in SUBSET Utxo
  PROVE  Total(S) \in Nat /\ (Total(S) = 0 <=> S = {})
<1>1. IsFiniteSet(S)
  BY UtxosAssumption, FS_Subset
<1>2. \A u \in S : utxo[u].amount \in Nat \ {0}
  BY UtxosAssumption
<1> QED
  BY <1>1, <1>2, AmountFacts DEF Total

\* The list of addresses, with an index for each.
LEMMA AddressFacts ==
  /\ Addresses \in Seq(Address) /\ Len(Addresses) \in Nat /\ Len(Addresses) >= 1
  /\ \A k \in 1 .. Len(Addresses) : Addresses[k] \in Address
  /\ \A j, k \in 1 .. Len(Addresses) : Addresses[j] = Addresses[k] => j = k
<1>1. Addresses \in Seq(Address) /\ Addresses # <<>>
  BY UtxosAssumption
<1> QED
  BY <1>1, UtxosAssumption
=============================================================================
