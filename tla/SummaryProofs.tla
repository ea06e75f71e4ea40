----------------------------- MODULE SummaryProofs -----------------------------
(***************************************************************************)
(* Proofs about summaries, for any account, UTXOs, calls and limits: what  *)
(* is gathered is gathered once, built soundly, and by the last address.   *)
(***************************************************************************)
EXTENDS Summary, UtxosProofs

----------------------------------------------------------------------------
\* What every step needs to know of the values it updates.

RawTx == [inputs : SUBSET Utxo, amount : {Total(S) : S \in SUBSET Utxo}, asked : Seq(Address)]

Shape ==
  /\ pc \in [Call -> {"idle", "balance", "select", "returned", "panicked"}]
  /\ i \in [Call -> Nat \ {0}]
  /\ sumUnspents \in [Call -> SUBSET Utxo]
  /\ authAddrs \in [Call -> Seq(Address)]
  /\ rawTxArray \in [Call -> Seq(RawTx)]
  /\ result \in [Call -> {"none", "nil", "error"}]
  /\ passed \in [Call -> SUBSET Address]
  /\ \A c \in Call : pc[c] # "returned" => i[c] <= Len(Addresses)
  /\ budget \in [Kinds -> Nat]

\* What the node returns for an address is new, and locked afterwards.
LEMMA AvailableFacts ==
  ASSUME NEW a
  PROVE  /\ Available(a) \in SUBSET Utxo /\ Available(a) \cap locked = {}
         /\ \A u \in Available(a) : Owner(u) = a
  BY DEF Available

\* The inputs after an address: those of before and some of its own, not more
\* than the limit.
LEMMA GatheredFacts ==
  ASSUME NEW sum \in SUBSET Utxo, Cardinality(sum) < MaxTxInputs,
         NEW unspents \in SUBSET Utxo, NEW new \in Gathered(sum, unspents)
  PROVE  /\ new \in SUBSET Utxo /\ sum \subseteq new /\ new \subseteq sum \cup unspents
         /\ Cardinality(new) \in Nat /\ Cardinality(new) <= MaxTxInputs
<1> DEFINE limit == MaxTxInputs - Cardinality(sum)
           n     == IF Cardinality(unspents) > limit THEN limit ELSE Cardinality(unspents)
<1>1. PICK S \in SUBSET unspents : new = sum \cup S /\ Cardinality(S) = n
  BY DEF Gathered
<1>2. IsFiniteSet(sum) /\ IsFiniteSet(S) /\ IsFiniteSet(unspents)
  BY UtxosAssumption, FS_Subset
<1>3. /\ Cardinality(sum) \in Nat /\ Cardinality(S) \in Nat /\ Cardinality(unspents) \in Nat
      /\ Cardinality(sum \cap S) \in Nat
  <2>1. IsFiniteSet(sum \cap S)
    BY <1>2, FS_Intersection
  <2> QED
    BY <1>2, <2>1, FS_CardinalityType
<1>4. n <= limit
  BY <1>3, SummaryAssumption
<1>5. Cardinality(new) = Cardinality(sum) + Cardinality(S) - Cardinality(sum \cap S)
  BY <1>1, <1>2, FS_Union
<1>6. IsFiniteSet(new)
  BY <1>1, <1>2, FS_Union
<1>7. Cardinality(new) \in Nat
  BY <1>6, FS_CardinalityType
<1>8. Cardinality(sum) + Cardinality(S) <= MaxTxInputs
  BY <1>1, <1>3, <1>4, SummaryAssumption
<1> QED
  BY <1>1, <1>3, <1>5, <1>7, <1>8, SummaryAssumption

----------------------------------------------------------------------------
\* What one call does to its own state, in the terms the proofs use.

\* It gathers from the address, and has the raw transaction built or not.
Gathers(c, sum) ==
  /\ sum \in Gathered(sumUnspents[c], Available(Addresses[i[c]]))
  /\ \/ /\ IsTimeToBuild(c, sum)
        /\ Built(c, sum, Append(authAddrs[c], Addresses[i[c]]))
     \/ /\ ~IsTimeToBuild(c, sum)
        /\ sumUnspents' = [sumUnspents EXCEPT ![c] = sum]
        /\ authAddrs' = [authAddrs EXCEPT ![c] = Append(@, Addresses[i[c]])]
        /\ UNCHANGED rawTxArray

LEMMA SelectEffect ==
  ASSUME Shape, NEW c \in Call, SelectUnspents(c)
  PROVE  /\ pc[c] = "select" /\ SelectUTXOBySize(Addresses[i[c]])
         /\ \E sum \in SUBSET Utxo : Gathers(c, sum)
         /\ NextAddress(c) /\ UNCHANGED passed
<1> DEFINE a    == Addresses[i[c]]
           auth == Append(authAddrs[c], a)
<1>1. /\ pc[c] = "select" /\ SelectUTXOBySize(a) /\ NextAddress(c) /\ UNCHANGED passed
  BY DEF SelectUnspents
<1>2. PICK sum \in Gathered(sumUnspents[c], Available(a)) :
        IF IsTimeToBuild(c, sum)
        THEN Built(c, sum, auth)
        ELSE /\ sumUnspents' = [sumUnspents EXCEPT ![c] = sum]
             /\ authAddrs' = [authAddrs EXCEPT ![c] = auth]
             /\ UNCHANGED rawTxArray
  BY DEF SelectUnspents
<1>3. sum \in SUBSET Utxo
  BY AvailableFacts DEF Gathered, Shape
<1>4. Gathers(c, sum)
  BY <1>2 DEF Gathers
<1> QED
  BY <1>1, <1>3, <1>4

\* Spending leaves the other kind.
LEMMA SpendKeeps ==
  ASSUME budget \in [Kinds -> Nat], NEW k \in Kinds, Spend(k)
  PROVE  /\ budget' \in [Kinds -> Nat] /\ budget'[k] = budget[k] - 1
         /\ \A j \in Kinds : j # k => budget'[j] = budget[j]
  BY DEF Spend

\* The types hold at first, and every step keeps them.
LEMMA ShapeInit == Init => Shape
<1> SUFFICES ASSUME Init PROVE Shape
  OBVIOUS
<1>1. budget \in [Kinds -> Nat]
  BY UtxosAssumption DEF Init, UtxosInit, Kinds
<1> QED
  BY <1>1, AddressFacts DEF Init, Shape

LEMMA NextAddressShape ==
  ASSUME Shape, NEW c \in Call, pc[c] # "returned", NextAddress(c)
  PROVE  /\ pc' \in [Call -> {"idle", "balance", "select", "returned", "panicked"}]
         /\ i' \in [Call -> Nat \ {0}] /\ result' \in [Call -> {"none", "nil", "error"}]
         /\ \A d \in Call : pc'[d] # "returned" => i'[d] <= Len(Addresses)
<1>1. i' = [i EXCEPT ![c] = @ + 1] /\ i \in [Call -> Nat \ {0}]
  BY DEF NextAddress, Shape
<1>2. i[c] <= Len(Addresses)
  BY DEF Shape
<1>3. i' \in [Call -> Nat \ {0}]
  BY <1>1
<1>4. CASE i[c] = Len(Addresses)
  <2>1. pc' = [pc EXCEPT ![c] = "returned"] /\ result' = [result EXCEPT ![c] = "nil"]
    BY <1>4 DEF NextAddress
  <2>2. \A d \in Call : pc'[d] # "returned" => i'[d] <= Len(Addresses)
    BY <1>1, <2>1 DEF Shape
  <2> QED
    BY <1>3, <2>1, <2>2 DEF Shape
<1>5. CASE i[c] # Len(Addresses)
  <2>1. pc' = [pc EXCEPT ![c] = "balance"] /\ result' = result
    BY <1>5 DEF NextAddress
  <2>2. i'[c] <= Len(Addresses)
    BY <1>1, <1>2, <1>5, AddressFacts
  <2>3. \A d \in Call : pc'[d] # "returned" => i'[d] <= Len(Addresses)
    BY <1>1, <2>1, <2>2 DEF Shape
  <2> QED
    BY <1>3, <2>1, <2>3 DEF Shape
<1> QED
  BY <1>4, <1>5

LEMMA GathersShape ==
  ASSUME Shape, NEW c \in Call, pc[c] = "select", NEW sum \in SUBSET Utxo, Gathers(c, sum)
  PROVE  /\ sumUnspents' \in [Call -> SUBSET Utxo]
         /\ authAddrs' \in [Call -> Seq(Address)]
         /\ rawTxArray' \in [Call -> Seq(RawTx)]
<1> DEFINE auth == Append(authAddrs[c], Addresses[i[c]])
<1>1. Addresses[i[c]] \in Address
  BY AddressFacts DEF Shape
<1>2. auth \in Seq(Address)
  BY <1>1 DEF Shape
<1>3. [inputs |-> sum, amount |-> Total(sum), asked |-> auth] \in RawTx
  BY <1>2 DEF RawTx
<1> HIDE DEF auth
<1>4. CASE Built(c, sum, auth)
  <2> DEFINE r == IF sum = {} THEN rawTxArray[c]
                  ELSE Append(rawTxArray[c], [inputs |-> sum, amount |-> Total(sum), asked |-> auth])
  <2>1. rawTxArray' = [rawTxArray EXCEPT ![c] = r]
        /\ sumUnspents' = [sumUnspents EXCEPT ![c] = {}] /\ authAddrs' = [authAddrs EXCEPT ![c] = <<>>]
    BY <1>4 DEF Built, Shape
  <2>2. rawTxArray[c] \in Seq(RawTx)
    BY DEF Shape
  <2>3. r \in Seq(RawTx)
    BY <1>3, <2>2
  <2> HIDE DEF r
  <2>4. rawTxArray' \in [Call -> Seq(RawTx)]
    BY <2>1, <2>3 DEF Shape
  <2>5. sumUnspents' \in [Call -> SUBSET Utxo]
    BY <2>1 DEF Shape
  <2>6. <<>> \in Seq(Address)
    OBVIOUS
  <2>7. authAddrs' \in [Call -> Seq(Address)]
    BY <2>1, <2>6 DEF Shape
  <2> QED
    BY <2>4, <2>5, <2>7
<1>5. CASE ~Built(c, sum, auth)
  <2>1. sumUnspents' = [sumUnspents EXCEPT ![c] = sum] /\ authAddrs' = [authAddrs EXCEPT ![c] = auth]
        /\ rawTxArray' = rawTxArray
    BY <1>5 DEF Gathers, auth, Shape
  <2>2. sumUnspents' \in [Call -> SUBSET Utxo]
    BY <2>1 DEF Shape
  <2>3. authAddrs' \in [Call -> Seq(Address)]
    BY <1>2, <2>1 DEF Shape
  <2> QED
    BY <2>1, <2>2, <2>3 DEF Shape
<1> QED
  BY <1>4, <1>5

\* The UTXOs keep their owners and amounts.
LEMMA UtxoStays == [Next]_vars => UNCHANGED utxo
<1>1. ASSUME NEW c \in Call, Step(c) PROVE UNCHANGED utxo
  BY <1>1 DEF Step, Start, GetBalance, SelectFails, SelectUnspents, RpcFails, AnswerIsLost,
              SelectUTXOBySize, node
<1> QED
  BY <1>1 DEF Next, LockExpires, Expire, vars, node

LEMMA ShapeStep == Shape /\ [Next]_vars => Shape'
<1> SUFFICES ASSUME Shape, [Next]_vars PROVE Shape'
  OBVIOUS
<1> DEFINE Moves == /\ pc' \in [Call -> {"idle", "balance", "select", "returned", "panicked"}]
                    /\ i' \in [Call -> Nat \ {0}] /\ result' \in [Call -> {"none", "nil", "error"}]
                    /\ \A d \in Call : pc'[d] # "returned" => i'[d] <= Len(Addresses)
           Works == /\ sumUnspents' \in [Call -> SUBSET Utxo]
                    /\ authAddrs' \in [Call -> Seq(Address)]
                    /\ rawTxArray' \in [Call -> Seq(RawTx)]
           Rest  == passed' \in [Call -> SUBSET Address] /\ budget' \in [Kinds -> Nat]
<1>t. UNCHANGED utxo
  BY UtxoStays
<1>0. Moves /\ Works /\ Rest => Shape'
  <2>1. RawTx' = RawTx
    BY <1>t DEF RawTx, Total
  <2> QED
    BY <2>1 DEF Shape
<1>u. UNCHANGED work => Works
  BY DEF work, Shape
<1>1. ASSUME NEW c \in Call, Start(c) PROVE Moves /\ Works /\ Rest
  <2>1. pc[c] = "idle" /\ pc' = [pc EXCEPT ![c] = "balance"]
        /\ UNCHANGED <<node, i, work, result, passed>>
    BY <1>1 DEF Start
  <2>2. Moves
    BY <2>1 DEF Shape
  <2>3. Rest
    BY <2>1 DEF Shape, node
  <2> QED
    BY <1>u, <2>1, <2>2, <2>3
<1>2. ASSUME NEW c \in Call, GetBalance(c) PROVE Moves /\ Works /\ Rest
  <2>1. budget' \in [Kinds -> Nat]
    BY <1>2, SpendKeeps DEF GetBalance, RpcFails, node, Kinds, Shape
  <2>2. pc[c] = "balance"
    BY <1>2 DEF GetBalance
  <2>3. CASE PassOver(c)
    <3>1. NextAddress(c) /\ UNCHANGED work /\ passed' = [passed EXCEPT ![c] = @ \cup {Addresses[i[c]]}]
      BY <2>3 DEF PassOver
    <3>2. Addresses[i[c]] \in Address
      BY <2>2, AddressFacts DEF Shape
    <3>3. passed' \in [Call -> SUBSET Address]
      BY <3>1, <3>2 DEF Shape
    <3> QED
      BY <1>u, <2>1, <2>2, <3>1, <3>3, NextAddressShape
  <2>4. CASE ~PassOver(c)
    <3>1. /\ pc' = [pc EXCEPT ![c] = "select"] \/ pc' = [pc EXCEPT ![c] = "panicked"]
          /\ UNCHANGED <<i, work, result, passed>>
      BY <1>2, <2>4 DEF GetBalance
    <3>2. Moves
      BY <2>2, <3>1 DEF Shape
    <3> QED
      BY <1>u, <2>1, <3>1, <3>2 DEF Shape
  <2> QED
    BY <2>3, <2>4
<1>3. ASSUME NEW c \in Call, SelectFails(c) PROVE Moves /\ Works /\ Rest
  <2>1. budget' \in [Kinds -> Nat]
    BY <1>3, SpendKeeps DEF SelectFails, RpcFails, AnswerIsLost, Kinds, Shape
  <2>2. pc' = [pc EXCEPT ![c] = "returned"] /\ result' = [result EXCEPT ![c] = "error"]
        /\ UNCHANGED <<i, work, passed>>
    BY <1>3 DEF SelectFails
  <2>3. Moves
    BY <2>2 DEF Shape
  <2> QED
    BY <1>u, <2>1, <2>2, <2>3 DEF Shape
<1>4. ASSUME NEW c \in Call, SelectUnspents(c) PROVE Moves /\ Works /\ Rest
  <2>1. pc[c] = "select" /\ NextAddress(c) /\ passed' = passed /\ budget' = budget
    BY <1>4, SelectEffect DEF SelectUTXOBySize
  <2>2. Works
    BY <1>4, SelectEffect, GathersShape
  <2>3. Moves
    BY <2>1, NextAddressShape
  <2>4. Rest
    BY <2>1 DEF Shape
  <2> QED
    BY <2>2, <2>3, <2>4
<1>5. CASE LockExpires
  <2>1. budget' \in [Kinds -> Nat]
    BY <1>5, SpendKeeps DEF LockExpires, Expire, Kinds, Shape
  <2>2. UNCHANGED <<pc, i, work, result, passed>>
    BY <1>5 DEF LockExpires
  <2>3. Moves
    BY <2>2 DEF Shape
  <2>4. Rest
    BY <2>1, <2>2 DEF Shape
  <2> QED
    BY <1>0, <1>u, <2>2, <2>3, <2>4
<1>6. CASE UNCHANGED vars
  <2>1. UNCHANGED <<pc, i, work, result, passed, budget>>
    BY <1>6 DEF vars, node
  <2>2. Moves
    BY <2>1 DEF Shape
  <2>3. Rest
    BY <2>1 DEF Shape
  <2> QED
    BY <1>0, <1>u, <2>1, <2>2, <2>3
<1> QED
  BY <1>0, <1>1, <1>2, <1>3, <1>4, <1>5, <1>6 DEF Next, Step
----------------------------------------------------------------------------
\* The invariant of one call: what it gathers is below the limit, its owners are
\* asked, and those asked are addresses the loop has left behind.
Asked(c) ==
  /\ \A n \in DOMAIN authAddrs[c] : \E k \in 1 .. Len(Addresses) :
        k < i[c] /\ authAddrs[c][n] = Addresses[k]
  /\ IsInjective(authAddrs[c])

Gathering(c) ==
  /\ Cardinality(sumUnspents[c]) < MaxTxInputs
  /\ \A u \in sumUnspents[c] : Owner(u) \in ToSet(authAddrs[c])

Sound(c) == \A n \in DOMAIN rawTxArray[c] : IsSound(rawTxArray[c][n])

Ended(c) ==
  result[c] = "nil" =>
    pc[c] = "returned" /\ (Addresses[Len(Addresses)] \in passed[c] \/ sumUnspents[c] = {})

CallInv(c) == Asked(c) /\ Gathering(c) /\ Sound(c) /\ Ended(c)

\* Appending a new address keeps a list free of repetitions.
LEMMA AppendNew ==
  ASSUME NEW S, NEW s \in Seq(S), NEW a \in S
  PROVE  /\ ToSet(Append(s, a)) = ToSet(s) \cup {a}
         /\ IsInjective(s) /\ a \notin ToSet(s) => IsInjective(Append(s, a))
<1>1. /\ DOMAIN s = 1 .. Len(s) /\ DOMAIN Append(s, a) = 1 .. Len(s) + 1 /\ Len(s) \in Nat
      /\ Append(s, a)[Len(s) + 1] = a /\ \A n \in 1 .. Len(s) : Append(s, a)[n] = s[n]
  OBVIOUS
<1>2. ToSet(Append(s, a)) = ToSet(s) \cup {a}
  <2>1. ASSUME NEW x \in ToSet(Append(s, a)) PROVE x \in ToSet(s) \cup {a}
    <3>1. PICK n \in 1 .. Len(s) + 1 : x = Append(s, a)[n]
      BY <1>1 DEF ToSet
    <3>2. CASE n = Len(s) + 1
      BY <1>1, <3>1, <3>2
    <3>3. CASE n # Len(s) + 1
      BY <1>1, <3>1, <3>3 DEF ToSet
    <3> QED
      BY <3>2, <3>3
  <2>2. ASSUME NEW x \in ToSet(s) PROVE x \in ToSet(Append(s, a))
    <3>1. PICK n \in 1 .. Len(s) : x = s[n]
      BY <1>1 DEF ToSet
    <3>2. n \in 1 .. Len(s) + 1 /\ Append(s, a)[n] = x
      BY <1>1, <3>1
    <3> QED
      BY <1>1, <3>2 DEF ToSet
  <2>3. a \in ToSet(Append(s, a))
    <3>1. Len(s) + 1 \in 1 .. Len(s) + 1
      BY <1>1
    <3> QED
      BY <1>1, <3>1 DEF ToSet
  <2> QED
    BY <2>1, <2>2, <2>3
<1>3. ASSUME IsInjective(s), a \notin ToSet(s) PROVE IsInjective(Append(s, a))
  <2>1. \A n \in 1 .. Len(s) : s[n] # a
    BY <1>1, <1>3 DEF ToSet
  <2>2. ASSUME NEW m \in 1 .. Len(s) + 1, NEW n \in 1 .. Len(s) + 1,
               Append(s, a)[m] = Append(s, a)[n]
        PROVE  m = n
    <3>1. CASE m = Len(s) + 1
      BY <1>1, <2>1, <2>2, <3>1
    <3>2. CASE n = Len(s) + 1
      BY <1>1, <2>1, <2>2, <3>2
    <3>3. CASE m # Len(s) + 1 /\ n # Len(s) + 1
      <4>1. m \in 1 .. Len(s) /\ n \in 1 .. Len(s)
        BY <1>1, <3>3
      <4> QED
        BY <1>1, <1>3, <2>2, <4>1 DEF IsInjective
    <3> QED
      BY <3>1, <3>2, <3>3
  <2> QED
    BY <1>1, <2>2 DEF IsInjective
<1> QED
  BY <1>2, <1>3

\* A step that leaves a call's work and its index alone, or moves the index on,
\* keeps what it has gathered sound.
LEMMA WorkKeeps ==
  ASSUME Shape, NEW c \in Call, CallInv(c), UNCHANGED utxo,
         sumUnspents'[c] = sumUnspents[c], authAddrs'[c] = authAddrs[c],
         rawTxArray'[c] = rawTxArray[c], i'[c] \in Nat, i'[c] >= i[c]
  PROVE  Asked(c)' /\ Gathering(c)' /\ Sound(c)'
<1>1. Gathering(c)'
  BY DEF CallInv, Gathering, Owner
<1>2. Sound(c)'
  BY DEF CallInv, Sound, IsSound, Owner, Total
<1>3. Asked(c)'
  <2>1. i[c] \in Nat /\ Asked(c)
    BY DEF CallInv, Shape
  <2>2. \A k \in 1 .. Len(Addresses) : k < i[c] => k < i'[c]
    BY <2>1
  <2> QED
    BY <2>1, <2>2 DEF Asked
<1> QED
  BY <1>1, <1>2, <1>3

\* What is not a selection leaves the work alone, and either lets a lock expire
\* or leaves the locks that are there.
Quiet ==
  /\ UNCHANGED work
  /\ \/ Expire
     \/ locked \subseteq locked' /\ budget'["expiry"] = budget["expiry"]

LEMMA StepKinds ==
  ASSUME Shape, [Next]_vars
  PROVE  Quiet \/ \E c \in Call : SelectUnspents(c)
<1> USE DEF Kinds
<1>1. ASSUME NEW c \in Call, Start(c) PROVE Quiet
  BY <1>1 DEF Start, Quiet, node
<1>2. ASSUME RpcFails PROVE locked \subseteq locked' /\ budget'["expiry"] = budget["expiry"]
  BY <1>2, SpendKeeps DEF RpcFails, Shape
<1>3. ASSUME NEW c \in Call, GetBalance(c) PROVE Quiet
  BY <1>2, <1>3 DEF GetBalance, PassOver, Quiet, node
<1>4. ASSUME NEW c \in Call, SelectFails(c) PROVE Quiet
  <2>1. ASSUME NEW a, AnswerIsLost(a)
        PROVE  locked \subseteq locked' /\ budget'["expiry"] = budget["expiry"]
    BY <2>1, SpendKeeps DEF AnswerIsLost, Shape
  <2> QED
    BY <1>2, <1>4, <2>1 DEF SelectFails, Quiet
<1>5. LockExpires => Quiet
  BY DEF LockExpires, Quiet
<1>6. UNCHANGED vars => Quiet
  BY DEF vars, Quiet, node
<1> QED
  BY <1>1, <1>3, <1>4, <1>5, <1>6 DEF Next, Step

\* A selection keeps what the call has gathered and built sound.
LEMMA SelectKeeps ==
  ASSUME Shape, NEW c \in Call, CallInv(c), SelectUnspents(c), UNCHANGED utxo
  PROVE  CallInv(c)'
<1> DEFINE a    == Addresses[i[c]]
           auth == Append(authAddrs[c], a)
<1>1. /\ pc[c] = "select" /\ NextAddress(c) /\ UNCHANGED passed
      /\ \E sum \in SUBSET Utxo : Gathers(c, sum)
  BY SelectEffect
<1>2. PICK sum \in SUBSET Utxo : Gathers(c, sum)
  BY <1>1
<1>3. /\ i[c] \in 1 .. Len(Addresses) /\ a \in Address /\ i'[c] = i[c] + 1
      /\ authAddrs[c] \in Seq(Address) /\ Len(Addresses) \in Nat
  BY <1>1, AddressFacts DEF Shape, NextAddress
<1>4. sum \in Gathered(sumUnspents[c], Available(a))
  BY <1>2 DEF Gathers
<1>5. /\ sumUnspents[c] \in SUBSET Utxo /\ Cardinality(sumUnspents[c]) < MaxTxInputs
      /\ Available(a) \in SUBSET Utxo
  BY AvailableFacts DEF Shape, CallInv, Gathering
<1>6. /\ sum \subseteq sumUnspents[c] \cup Available(a)
      /\ Cardinality(sum) \in Nat /\ Cardinality(sum) <= MaxTxInputs
  BY <1>4, <1>5, GatheredFacts
<1>7. a \notin ToSet(authAddrs[c])
  <2>1. \A n \in DOMAIN authAddrs[c] : authAddrs[c][n] # a
    <3>1. \A n \in DOMAIN authAddrs[c] : \E k \in 1 .. Len(Addresses) :
            k < i[c] /\ authAddrs[c][n] = Addresses[k]
      BY DEF CallInv, Asked
    <3>2. \A k \in 1 .. Len(Addresses) : k < i[c] => Addresses[k] # a
      BY <1>3, AddressFacts
    <3> QED
      BY <3>1, <3>2
  <2> QED
    BY <2>1, <1>3 DEF ToSet
<1>8. ToSet(auth) = ToSet(authAddrs[c]) \cup {a} /\ IsInjective(auth) /\ auth \in Seq(Address)
  BY <1>3, <1>7, AppendNew DEF CallInv, Asked
<1>9. \A u \in sum : Owner(u) \in ToSet(auth)
  BY <1>6, <1>8, AvailableFacts DEF CallInv, Gathering
<1>10. \A n \in DOMAIN auth : \E k \in 1 .. Len(Addresses) : k < i'[c] /\ auth[n] = Addresses[k]
  <2>1. ASSUME NEW n \in DOMAIN auth
        PROVE  \E k \in 1 .. Len(Addresses) : k < i'[c] /\ auth[n] = Addresses[k]
    <3>1. n \in 1 .. Len(authAddrs[c]) + 1
      BY <1>3
    <3>2. CASE n = Len(authAddrs[c]) + 1
      BY <1>3, <3>2
    <3>3. CASE n # Len(authAddrs[c]) + 1
      <4>1. n \in DOMAIN authAddrs[c] /\ auth[n] = authAddrs[c][n]
        BY <1>3, <3>1, <3>3
      <4>2. PICK k \in 1 .. Len(Addresses) : k < i[c] /\ authAddrs[c][n] = Addresses[k]
        BY <4>1 DEF CallInv, Asked
      <4> QED
        BY <1>3, <4>1, <4>2
    <3> QED
      BY <3>2, <3>3
  <2> QED
    BY <2>1
<1> HIDE DEF auth
<1>11. \A u : Owner(u)' = Owner(u)
  BY DEF Owner
<1>12. CASE IsTimeToBuild(c, sum)
  <2>1. Built(c, sum, auth)
    BY <1>2, <1>12 DEF Gathers, auth
  <2>2. sumUnspents'[c] = {} /\ authAddrs'[c] = <<>>
    BY <2>1 DEF Built, Shape
  <2>3. Asked(c)'
    BY <2>2 DEF Asked, IsInjective
  <2>4. Gathering(c)'
    <3>1. Cardinality(sumUnspents'[c]) = 0
      BY <2>2, FS_EmptySet
    <3> QED
      BY <2>2, <3>1, SummaryAssumption DEF Gathering
  <2>5. Sound(c)'
    <3>1. rawTxArray'[c] = IF sum = {} THEN rawTxArray[c]
            ELSE Append(rawTxArray[c], [inputs |-> sum, amount |-> Total(sum), asked |-> auth])
      BY <2>1 DEF Built, Shape
    <3>2. \A x : IsSound(x)' <=> IsSound(x)
      BY DEF IsSound, Owner, Total
    <3>3. CASE sum = {}
      BY <3>1, <3>2, <3>3 DEF CallInv, Sound
    <3>4. CASE sum # {}
      <4> DEFINE x == [inputs |-> sum, amount |-> Total(sum), asked |-> auth]
      <4>1. Cardinality(sum) # 0
        <5>1. IsFiniteSet(sum)
          BY UtxosAssumption, FS_Subset
        <5> QED
          BY <3>4, <5>1, FS_EmptySet
      <4>2. Cardinality(sum) \in 1 .. MaxTxInputs
        BY <1>6, <4>1, SummaryAssumption
      <4>x. x.inputs = sum /\ x.amount = Total(sum) /\ x.asked = auth
        OBVIOUS
      <4>3. IsSound(x)
        <5> HIDE DEF x
        <5>1. Cardinality(x.inputs) \in 1 .. MaxTxInputs
          BY <4>2, <4>x
        <5>2. IsInjective(x.asked)
          BY <1>8, <4>x
        <5>3. \A u \in x.inputs : Owner(u) \in ToSet(x.asked)
          BY <1>9, <4>x
        <5>4. x.amount = Total(x.inputs)
          BY <4>x
        <5> QED
          BY <5>1, <5>2, <5>3, <5>4, Zenon DEF IsSound
      <4> HIDE DEF x
      <4>4. rawTxArray'[c] = Append(rawTxArray[c], x) /\ rawTxArray[c] \in Seq(RawTx)
        BY <3>1, <3>4 DEF x, Shape
      <4>5. ASSUME NEW n \in DOMAIN rawTxArray'[c] PROVE IsSound(rawTxArray'[c][n])
        <5>1. n \in 1 .. Len(rawTxArray[c]) + 1 /\ Len(rawTxArray[c]) \in Nat
          BY <4>4, <4>5
        <5>2. CASE n = Len(rawTxArray[c]) + 1
          BY <4>3, <4>4, <5>1, <5>2
        <5>3. CASE n # Len(rawTxArray[c]) + 1
          <6>1. n \in DOMAIN rawTxArray[c] /\ rawTxArray'[c][n] = rawTxArray[c][n]
            BY <4>4, <5>1, <5>3
          <6> QED
            BY <6>1 DEF CallInv, Sound
        <5> QED
          BY <5>2, <5>3
      <4> QED
        BY <3>2, <4>5 DEF Sound
    <3> QED
      BY <3>3, <3>4
  <2>6. Ended(c)'
    BY <1>1, <2>2 DEF NextAddress, Ended, Shape, CallInv
  <2> QED
    BY <2>3, <2>4, <2>5, <2>6 DEF CallInv
<1>13. CASE ~IsTimeToBuild(c, sum)
  <2>1. /\ sumUnspents' = [sumUnspents EXCEPT ![c] = sum]
        /\ authAddrs' = [authAddrs EXCEPT ![c] = auth] /\ rawTxArray' = rawTxArray
    BY <1>2, <1>13 DEF Gathers, auth, Shape
  <2>2. i[c] # Len(Addresses) /\ Cardinality(sum) < MaxTxInputs
    BY <1>6, <1>13, SummaryAssumption DEF IsTimeToBuild
  <2>3. Asked(c)'
    BY <1>8, <1>10, <2>1 DEF Asked, Shape
  <2>4. Gathering(c)'
    BY <1>9, <1>11, <2>1, <2>2 DEF Gathering, Shape
  <2>5. Sound(c)'
    BY <2>1 DEF CallInv, Sound, IsSound, Owner, Total
  <2>6. Ended(c)'
    BY <1>1, <2>2 DEF NextAddress, Ended, Shape, CallInv
  <2> QED
    BY <2>3, <2>4, <2>5, <2>6 DEF CallInv
<1> QED
  BY <1>12, <1>13

\* A step of one call, or of the node, leaves the other calls alone.
LEMMA OthersStay ==
  ASSUME Shape, NEW c \in Call, NEW d \in Call, c # d, Step(c)
  PROVE  /\ pc'[d] = pc[d] /\ i'[d] = i[d] /\ result'[d] = result[d] /\ passed'[d] = passed[d]
         /\ sumUnspents'[d] = sumUnspents[d] /\ authAddrs'[d] = authAddrs[d]
         /\ rawTxArray'[d] = rawTxArray[d]
<1>1. NextAddress(c) => pc'[d] = pc[d] /\ i'[d] = i[d] /\ result'[d] = result[d]
  BY DEF NextAddress, Shape
<1>2. CASE SelectUnspents(c)
  <2>1. NextAddress(c) /\ UNCHANGED passed /\ \E sum \in SUBSET Utxo : Gathers(c, sum)
    BY <1>2, SelectEffect
  <2> QED
    BY <1>1, <2>1 DEF Gathers, Built, Shape
<1>3. CASE GetBalance(c)
  BY <1>1, <1>3 DEF GetBalance, PassOver, work, Shape
<1>4. CASE Start(c) \/ SelectFails(c)
  BY <1>4 DEF Start, SelectFails, work, Shape
<1> QED
  BY <1>2, <1>3, <1>4 DEF Step

LEMMA CallInvStep ==
  Shape /\ (\A c \in Call : CallInv(c)) /\ [Next]_vars => \A c \in Call : CallInv(c)'
<1> SUFFICES ASSUME Shape, \A c \in Call : CallInv(c), [Next]_vars, NEW d \in Call
             PROVE  CallInv(d)'
  OBVIOUS
<1>1. UNCHANGED utxo
  BY UtxoStays
<1>2. CallInv(d) /\ i[d] \in Nat
  BY DEF Shape
<1>3. ASSUME UNCHANGED <<pc, i, work, result, passed>> PROVE CallInv(d)'
  <2>1. Asked(d)' /\ Gathering(d)' /\ Sound(d)'
    BY <1>1, <1>2, <1>3, WorkKeeps DEF work
  <2>2. Ended(d)'
    BY <1>2, <1>3 DEF CallInv, Ended, work
  <2> QED
    BY <2>1, <2>2 DEF CallInv
<1>4. ASSUME NEW c \in Call, Step(c), c # d PROVE CallInv(d)'
  <2>1. Asked(d)' /\ Gathering(d)' /\ Sound(d)'
    BY <1>1, <1>2, <1>4, OthersStay, WorkKeeps
  <2>2. Ended(d)'
    BY <1>2, <1>4, OthersStay DEF CallInv, Ended
  <2> QED
    BY <2>1, <2>2 DEF CallInv
<1>5. ASSUME UNCHANGED work, i'[d] \in Nat, i'[d] >= i[d], Ended(d)' PROVE CallInv(d)'
  BY <1>1, <1>2, <1>5, WorkKeeps DEF work, CallInv
<1>6. CASE Start(d)
  BY <1>2, <1>5, <1>6 DEF Start, Ended, CallInv, Shape
<1>7. CASE GetBalance(d)
  <2>1. pc[d] = "balance" /\ result[d] # "nil"
    BY <1>2, <1>7 DEF GetBalance, CallInv, Ended
  <2>2. CASE PassOver(d)
    <3>1. UNCHANGED work /\ i' = [i EXCEPT ![d] = @ + 1]
      BY <2>2 DEF PassOver, NextAddress
    <3>2. i'[d] \in Nat /\ i'[d] >= i[d]
      BY <3>1 DEF Shape
    <3>3. Addresses[i[d]] \in passed'[d]
      BY <2>2 DEF PassOver, Shape
    <3>4. Ended(d)'
      <4>1. CASE i[d] = Len(Addresses)
        <5>1. pc'[d] = "returned"
          BY <2>2, <4>1 DEF PassOver, NextAddress, Shape
        <5> QED
          BY <3>3, <4>1, <5>1 DEF Ended
      <4>2. CASE i[d] # Len(Addresses)
        <5>1. result'[d] = result[d]
          BY <2>2, <4>2 DEF PassOver, NextAddress
        <5> QED
          BY <2>1, <5>1 DEF Ended
      <4> QED
        BY <4>1, <4>2
    <3> QED
      BY <1>5, <3>1, <3>2, <3>4
  <2>3. CASE ~PassOver(d)
    BY <1>2, <1>5, <1>7, <2>1, <2>3 DEF GetBalance, Ended
  <2> QED
    BY <2>2, <2>3
<1>8. CASE SelectFails(d)
  BY <1>2, <1>5, <1>8 DEF SelectFails, Ended, Shape
<1>9. CASE SelectUnspents(d)
  BY <1>1, <1>2, <1>9, SelectKeeps
<1> QED
  <2>1. CASE \E c \in Call : Step(c)
    BY <1>4, <1>6, <1>7, <1>8, <1>9, <2>1 DEF Step
  <2>2. CASE LockExpires \/ UNCHANGED vars
    <3>1. UNCHANGED <<pc, i, work, result, passed>>
      BY <2>2 DEF LockExpires, vars
    <3> QED
      BY <1>3, <3>1
  <2> QED
    BY <2>1, <2>2 DEF Next

LEMMA CallInvInit == Init => \A c \in Call : CallInv(c)
<1> SUFFICES ASSUME Init, NEW c \in Call PROVE CallInv(c)
  OBVIOUS
<1>1. sumUnspents[c] = {} /\ authAddrs[c] = <<>> /\ rawTxArray[c] = <<>> /\ result[c] = "none"
  BY DEF Init
<1>2. Cardinality({}) = 0
  BY FS_EmptySet
<1> QED
  BY <1>1, <1>2, SummaryAssumption DEF CallInv, Asked, Gathering, Sound, Ended, IsInjective

THEOREM Calls == Spec => [](Shape /\ \A c \in Call : CallInv(c))
<1>1. Init => Shape /\ \A c \in Call : CallInv(c)
  BY ShapeInit, CallInvInit
<1>2. (Shape /\ \A c \in Call : CallInv(c)) /\ [Next]_vars => (Shape /\ \A c \in Call : CallInv(c))'
  BY ShapeStep, CallInvStep
<1> QED
  BY <1>1, <1>2, PTL DEF Spec

\* However calls interleave and RPCs fail, a summary transaction has between one
\* and MaxTxInputs inputs, sends their sum, and asks every owner to sign once.
THEOREM Batches == Spec => []BatchesAreSound
<1>1. (\A c \in Call : CallInv(c)) => BatchesAreSound
  BY DEF BatchesAreSound, CallInv, Sound
<1> QED
  BY <1>1, Calls, PTL

\* A call that returns without an error has built what it gathered, unless it
\* passed over the last address.
THEOREM LastAddress == Spec => []LastAddressBuilds
<1>1. (\A c \in Call : CallInv(c)) => LastAddressBuilds
  BY DEF LastAddressBuilds, CallInv, Ended
<1> QED
  BY <1>1, Calls, PTL

----------------------------------------------------------------------------
\* What a call has taken, piece by piece, and that it is locked and apart from
\* every other piece.  No piece beyond the current one holds anything.
Piece(c, n) ==
  IF n \in 1 .. Len(rawTxArray[c]) THEN rawTxArray[c][n].inputs
  ELSE IF n = Len(rawTxArray[c]) + 1 THEN sumUnspents[c] ELSE {}

Index == Nat \ {0}

Apart ==
  /\ \A c \in Call : \A m \in Index : Piece(c, m) \subseteq locked
  /\ \A c, d \in Call : \A m, n \in Index :
       <<c, m>> # <<d, n>> => Piece(c, m) \cap Piece(d, n) = {}

LockInv == budget["expiry"] <= MaxExpiries /\ (NoLockExpired => Apart)

\* A selection changes one piece, by UTXOs the node had available.
LEMMA SelectPiece ==
  ASSUME Shape, NEW c \in Call, CallInv(c), SelectUnspents(c)
  PROVE  \E m \in Index :
           /\ Piece(c, m)' \subseteq Piece(c, m) \cup Available(Addresses[i[c]])
           /\ \A d \in Call : \A n \in Index : <<c, m>> # <<d, n>> => Piece(d, n)' = Piece(d, n)
<1> DEFINE a    == Addresses[i[c]]
           auth == Append(authAddrs[c], a)
           raw  == rawTxArray[c]
<1>1. PICK sum \in SUBSET Utxo : Gathers(c, sum)
  BY SelectEffect
<1>r. raw \in Seq(RawTx) /\ Len(raw) \in Nat
  BY DEF Shape
<1>m. PICK m \in Index : m = Len(raw) + 1
  BY <1>r DEF Index
<1>2. raw \in Seq(RawTx) /\ Len(raw) \in Nat /\ m \in Index /\ m = Len(raw) + 1
  BY <1>r, <1>m
<1>3. sum \subseteq sumUnspents[c] \cup Available(a)
  <2>1. /\ sumUnspents[c] \in SUBSET Utxo /\ Cardinality(sumUnspents[c]) < MaxTxInputs
        /\ Available(a) \in SUBSET Utxo
    BY AvailableFacts DEF Shape, CallInv, Gathering
  <2>2. sum \in Gathered(sumUnspents[c], Available(a))
    BY <1>1 DEF Gathers
  <2> QED
    BY <2>1, <2>2, GatheredFacts
<1>4. ASSUME NEW d \in Call, d # c, NEW n \in Index PROVE Piece(d, n)' = Piece(d, n)
  <2>1. sumUnspents'[d] = sumUnspents[d] /\ rawTxArray'[d] = rawTxArray[d]
    BY <1>4, OthersStay DEF Step
  <2> QED
    BY <2>1 DEF Piece
<1>5. Piece(c, m) = sumUnspents[c]
  BY <1>2 DEF Piece
<1>6. CASE rawTxArray'[c] = raw /\ sumUnspents'[c] \subseteq sum
  <2>1. Piece(c, m)' = sumUnspents'[c]
    BY <1>2, <1>6 DEF Piece
  <2>2. ASSUME NEW n \in Index, n # m PROVE Piece(c, n)' = Piece(c, n)
    BY <1>2, <1>6, <2>2 DEF Piece, Index
  <2>3. \A d \in Call : \A n \in Index : <<c, m>> # <<d, n>> => Piece(d, n)' = Piece(d, n)
    BY <1>4, <2>2
  <2> QED
    BY <1>2, <1>3, <1>5, <1>6, <2>1, <2>3
<1>7. ASSUME NEW x \in RawTx, x.inputs = sum, rawTxArray'[c] = Append(raw, x), sumUnspents'[c] = {}
      PROVE  /\ Piece(c, m)' \subseteq Piece(c, m) \cup Available(a)
             /\ \A d \in Call : \A n \in Index : <<c, m>> # <<d, n>> => Piece(d, n)' = Piece(d, n)
  <2>1. /\ Len(rawTxArray'[c]) = m /\ rawTxArray'[c][m] = x
        /\ \A n \in 1 .. Len(raw) : rawTxArray'[c][n] = raw[n]
    BY <1>2, <1>7
  <2>2. Piece(c, m)' = sum
    <3>1. m \in 1 .. m
      BY <1>2
    <3> QED
      BY <1>7, <2>1, <3>1 DEF Piece
  <2>3. ASSUME NEW n \in Index, n # m PROVE Piece(c, n)' = Piece(c, n)
    <3>1. CASE n \in 1 .. Len(raw)
      <4>1. n \in 1 .. m
        BY <1>2, <3>1
      <4> QED
        BY <2>1, <3>1, <4>1 DEF Piece
    <3>2. CASE n > m
      BY <1>2, <1>7, <2>1, <3>2 DEF Piece, Index
    <3> QED
      BY <1>2, <2>3, <3>1, <3>2 DEF Index
  <2>4. \A d \in Call : \A n \in Index : <<c, m>> # <<d, n>> => Piece(d, n)' = Piece(d, n)
    BY <1>4, <2>3
  <2> QED
    BY <1>3, <1>5, <2>2, <2>4
<1>8. CASE Built(c, sum, auth)
  <2>1. /\ sumUnspents'[c] = {}
        /\ rawTxArray'[c] = IF sum = {} THEN raw
             ELSE Append(raw, [inputs |-> sum, amount |-> Total(sum), asked |-> auth])
    BY <1>8 DEF Built, Shape
  <2>2. CASE sum = {}
    BY <1>6, <2>1, <2>2
  <2>3. CASE sum # {}
    <3> DEFINE x == [inputs |-> sum, amount |-> Total(sum), asked |-> auth]
    <3>1. a \in Address
      BY SelectEffect, AddressFacts DEF Shape
    <3>2. auth \in Seq(Address)
      BY <3>1 DEF Shape
    <3> HIDE DEF auth
    <3>3. x \in RawTx /\ x.inputs = sum
      BY <3>2 DEF RawTx
    <3>4. rawTxArray'[c] = Append(raw, x)
      BY <2>1, <2>3
    <3> HIDE DEF x, raw, a
    <3>5. /\ Piece(c, m)' \subseteq Piece(c, m) \cup Available(a)
          /\ \A d \in Call : \A n \in Index : <<c, m>> # <<d, n>> => Piece(d, n)' = Piece(d, n)
      BY <1>7, <2>1, <3>3, <3>4
    <3> QED
      BY <1>2, <3>5 DEF a
  <2> QED
    BY <2>2, <2>3
<1>9. CASE ~Built(c, sum, auth)
  <2>1. sumUnspents'[c] = sum /\ rawTxArray'[c] = raw
    BY <1>1, <1>9 DEF Gathers, Shape
  <2> QED
    BY <1>6, <2>1
<1> QED
  BY <1>8, <1>9

LEMMA LockInvStep ==
  Shape /\ (\A c \in Call : CallInv(c)) /\ LockInv /\ [Next]_vars => LockInv'
<1> SUFFICES ASSUME Shape, \A c \in Call : CallInv(c), LockInv, [Next]_vars PROVE LockInv'
  OBVIOUS
<1>0. budget["expiry"] \in Nat /\ MaxExpiries \in Nat
  BY UtxosAssumption DEF Shape, Kinds
<1>1. CASE Quiet
  <2>1. CASE Expire
    <3>1. budget'["expiry"] = budget["expiry"] - 1
      BY <2>1, SpendKeeps DEF Expire, Shape, Kinds
    <3>2. budget'["expiry"] <= MaxExpiries /\ ~NoLockExpired'
      BY <1>0, <3>1 DEF NoLockExpired, LockInv
    <3> QED
      BY <3>2 DEF LockInv
  <2>2. CASE locked \subseteq locked' /\ budget'["expiry"] = budget["expiry"]
    <3>1. NoLockExpired' = NoLockExpired
      BY <2>2 DEF NoLockExpired
    <3>2. \A c \in Call : \A n \in Index : Piece(c, n)' = Piece(c, n)
      BY <1>1 DEF Quiet, work, Piece
    <3>3. Apart => Apart'
      BY <2>2, <3>2 DEF Apart
    <3> QED
      BY <2>2, <3>1, <3>3 DEF LockInv
  <2> QED
    BY <1>1, <2>1, <2>2 DEF Quiet
<1>2. ASSUME NEW c \in Call, SelectUnspents(c) PROVE LockInv'
  <2> DEFINE A == Available(Addresses[i[c]])
  <2>1. PICK m \in Index :
           /\ Piece(c, m)' \subseteq Piece(c, m) \cup A
           /\ \A d \in Call : \A n \in Index : <<c, m>> # <<d, n>> => Piece(d, n)' = Piece(d, n)
    BY <1>2, SelectPiece
  <2>2. locked' = locked \cup A /\ budget' = budget
    BY <1>2, SelectEffect DEF SelectUTXOBySize
  <2>3. A \cap locked = {}
    BY AvailableFacts
  <2>4. ASSUME Apart PROVE Apart'
    <3> HIDE DEF A
    <3>1. ASSUME NEW d \in Call, NEW n \in Index PROVE Piece(d, n)' \subseteq locked'
      <4>1. Piece(d, n) \subseteq locked
        BY <2>4 DEF Apart
      <4> QED
        BY <2>1, <2>2, <4>1
    <3>2. ASSUME NEW d \in Call, NEW e \in Call, NEW n \in Index, NEW k \in Index,
                 <<d, n>> # <<e, k>>
          PROVE  Piece(d, n)' \cap Piece(e, k)' = {}
      <4>1. /\ Piece(d, n) \subseteq locked /\ Piece(e, k) \subseteq locked
            /\ Piece(d, n) \cap Piece(e, k) = {}
        BY <2>4, <3>2 DEF Apart
      <4>2. CASE <<c, m>> = <<d, n>>
        <5>1. Piece(e, k)' = Piece(e, k) /\ Piece(d, n)' \subseteq Piece(d, n) \cup A
          BY <2>1, <3>2, <4>2
        <5> QED
          BY <2>3, <4>1, <5>1
      <4>3. CASE <<c, m>> = <<e, k>>
        <5>1. Piece(d, n)' = Piece(d, n) /\ Piece(e, k)' \subseteq Piece(e, k) \cup A
          BY <2>1, <3>2, <4>3
        <5> QED
          BY <2>3, <4>1, <5>1
      <4>4. CASE <<c, m>> # <<d, n>> /\ <<c, m>> # <<e, k>>
        BY <2>1, <4>1, <4>4
      <4> QED
        BY <4>2, <4>3, <4>4
    <3> QED
      BY <3>1, <3>2 DEF Apart
  <2> QED
    BY <2>2, <2>4 DEF LockInv, NoLockExpired
<1> QED
  BY <1>1, <1>2, StepKinds

LEMMA LockInvInit == Init => LockInv
<1> SUFFICES ASSUME Init PROVE LockInv
  OBVIOUS
<1>1. \A c \in Call : rawTxArray[c] = <<>> /\ sumUnspents[c] = {}
  BY DEF Init
<1>2. \A c \in Call : \A n \in Index : Piece(c, n) = {}
  BY <1>1 DEF Piece
<1>3. budget["expiry"] = MaxExpiries /\ MaxExpiries \in Nat
  BY UtxosAssumption DEF Init, UtxosInit, Kinds
<1> QED
  BY <1>2, <1>3 DEF LockInv, Apart

\* As long as no lock expires, no UTXO is in two raw transactions, nor in one and
\* in what a call is still gathering, whichever calls they are of.
THEOREM Once == Spec => []GatheredOnce
<1> DEFINE IInv == Shape /\ (\A c \in Call : CallInv(c)) /\ LockInv
<1>1. Init => IInv
  BY ShapeInit, CallInvInit, LockInvInit
<1>2. IInv /\ [Next]_vars => IInv'
  BY ShapeStep, CallInvStep, LockInvStep
<1>3. IInv => GatheredOnce
  <2>1. ASSUME Shape, NEW c \in Call
        PROVE  \A n \in DOMAIN Holdings(c) : n \in Index /\ Holdings(c)[n] = Piece(c, n)
    <3> DEFINE raw == rawTxArray[c]
               ins == [n \in DOMAIN raw |-> raw[n].inputs]
    <3>1. raw \in Seq(RawTx) /\ sumUnspents[c] \in SUBSET Utxo
      BY <2>1 DEF Shape
    <3>2. DOMAIN raw = 1 .. Len(raw) /\ Len(raw) \in Nat
      BY <3>1
    <3>3. ins \in Seq(SUBSET Utxo) /\ Len(ins) = Len(raw)
      <4>1. \A n \in 1 .. Len(raw) : raw[n].inputs \in SUBSET Utxo
        <5>1. \A n \in 1 .. Len(raw) : raw[n] \in RawTx
          BY <3>1, <3>2
        <5> QED
          BY <5>1 DEF RawTx
      <4>2. ins \in [1 .. Len(raw) -> SUBSET Utxo]
        BY <3>2, <4>1
      <4> QED
        BY <3>2, <4>2
    <3>4. \A n \in 1 .. Len(raw) : ins[n] = raw[n].inputs
      BY <3>2
    <3> HIDE DEF ins
    <3>5. Holdings(c) = ins \o <<sumUnspents[c]>>
      BY DEF Holdings, ins
    <3>6. /\ DOMAIN Holdings(c) = 1 .. Len(raw) + 1
          /\ \A n \in 1 .. Len(raw) : Holdings(c)[n] = ins[n]
          /\ Holdings(c)[Len(raw) + 1] = sumUnspents[c]
      BY <3>1, <3>2, <3>3, <3>5
    <3>7. ASSUME NEW n \in 1 .. Len(raw) + 1 PROVE n \in Index /\ Holdings(c)[n] = Piece(c, n)
      <4>1. CASE n \in 1 .. Len(raw)
        BY <3>2, <3>4, <3>6, <4>1 DEF Piece, Index
      <4>2. CASE n = Len(raw) + 1
        BY <3>2, <3>6, <4>2 DEF Piece, Index
      <4> QED
        BY <3>2, <4>1, <4>2
    <3> QED
      BY <3>6, <3>7
  <2> QED
    BY <2>1 DEF GatheredOnce, LockInv, Apart
<1> QED
  BY <1>1, <1>2, <1>3, PTL DEF Spec

----------------------------------------------------------------------------
\* Types.  That the amount of a built transaction is positive follows from it being
\* the total of inputs that are there.

\* What TypeOK says beyond Shape and CallInv.
Rest ==
  /\ utxo \in [Utxo -> [addr : Address, amount : 1 .. MaxAmount]]
  /\ locked \in SUBSET Utxo
  /\ spent \in SUBSET Utxo
  /\ \A c \in Call : i[c] <= Len(Addresses) + 1

TypeInv == Shape /\ (\A c \in Call : CallInv(c)) /\ Rest

\* What a call has built is of the type of a raw transaction.
LEMMA BuiltIsRaw ==
  ASSUME TypeInv, NEW c \in Call, NEW n \in DOMAIN rawTxArray[c]
  PROVE  IsRaw(rawTxArray[c][n])
<1> DEFINE x == rawTxArray[c][n]
<1>1. x \in RawTx /\ IsSound(x)
  BY DEF TypeInv, Shape, CallInv, Sound
<1>2. DOMAIN x = {"inputs", "amount", "asked"} /\ x.inputs \in SUBSET Utxo /\ x.asked \in Seq(Address)
  BY <1>1 DEF RawTx
<1>3. Cardinality(x.inputs) # 0 /\ x.amount = Total(x.inputs)
  BY <1>1, SummaryAssumption DEF IsSound
<1>4. x.inputs # {}
  BY <1>3, FS_EmptySet
<1>5. Total(x.inputs) \in Nat /\ (Total(x.inputs) = 0 <=> x.inputs = {})
  BY <1>2, TotalFacts DEF TypeInv, Rest
<1> HIDE DEF x
<1>6. IsRaw(x)
  BY <1>2, <1>3, <1>4, <1>5 DEF IsRaw
<1> QED
  BY <1>6 DEF x

\* The invariants and the rest make up the type invariant.
LEMMA InvIsTyped == TypeInv => TypeOK
<1> SUFFICES ASSUME TypeInv PROVE TypeOK
  OBVIOUS
<1>1. UtxosTypeOK
  BY DEF TypeInv, Shape, Rest, UtxosTypeOK
<1>2. i \in [Call -> 1 .. Len(Addresses) + 1]
  BY AddressFacts DEF TypeInv, Shape, Rest
<1>3. \A c \in Call : /\ authAddrs[c] \in Seq(Address)
                      /\ \A n \in DOMAIN rawTxArray[c] : IsRaw(rawTxArray[c][n])
  BY BuiltIsRaw DEF TypeInv, Shape
<1> QED
  BY <1>1, <1>2, <1>3 DEF TypeOK, TypeInv, Shape

\* Every step keeps the rest: the loop is left at the last address.
LEMMA RestStep == Shape /\ Rest /\ [Next]_vars => Rest'
<1> SUFFICES ASSUME Shape, Rest, [Next]_vars PROVE Rest'
  OBVIOUS
<1> USE DEF Rest
<1>0. UNCHANGED utxo
  BY UtxoStays
<1>1. ASSUME NEW c \in Call, Step(c) PROVE Rest'
  <2>1. locked' \in SUBSET Utxo /\ UNCHANGED spent
    BY <1>1 DEF Step, Start, GetBalance, SelectFails, SelectUnspents, RpcFails, AnswerIsLost,
                SelectUTXOBySize, Available, node
  <2>2. CASE UNCHANGED i
    BY <1>0, <2>1, <2>2
  <2>3. CASE pc[c] # "returned" /\ NextAddress(c)
    <3>1. i' = [i EXCEPT ![c] = @ + 1] /\ i[c] <= Len(Addresses) /\ i[c] \in Nat
      BY <2>3 DEF NextAddress, Shape
    <3>2. \A d \in Call : i'[d] <= Len(Addresses) + 1
      BY <3>1, AddressFacts DEF Shape
    <3> QED
      BY <1>0, <2>1, <3>2
  <2> QED
    BY <1>1, <2>2, <2>3 DEF Step, Start, GetBalance, PassOver, SelectFails, SelectUnspents
<1>2. CASE LockExpires
  <2>1. locked' \in SUBSET Utxo /\ UNCHANGED spent
    BY <1>2 DEF LockExpires, Expire
  <2> QED
    BY <1>0, <1>2, <2>1 DEF LockExpires
<1>3. CASE UNCHANGED vars
  BY <1>0, <1>3 DEF vars, node
<1> QED
  BY <1>1, <1>2, <1>3 DEF Next

\* The types of the calls and of the node behind them, in every reachable state.
THEOREM TypeCorrect == Spec => []TypeOK
<1>1. Init => TypeInv
  <2>1. Init => Rest
    BY AddressFacts DEF Init, UtxosInit, Rest
  <2> QED
    BY <2>1, ShapeInit, CallInvInit DEF TypeInv
<1>2. TypeInv /\ [Next]_vars => TypeInv'
  BY ShapeStep, CallInvStep, RestStep DEF TypeInv
<1> QED
  BY <1>1, <1>2, InvIsTyped, PTL DEF Spec
=============================================================================
