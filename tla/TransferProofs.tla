--------------------------- MODULE TransferProofs ---------------------------
(***************************************************************************)
(* Proofs about Transfer: raw transactions that are under way at once do   *)
(* not share UTXOs, nothing unsigned is posted, owners are asked to sign,  *)
(* and what is spent is paid.                                              *)
(***************************************************************************)
EXTENDS Transfer, UtxosProofs

\* What every step needs to know of the values it updates.
Shape ==
  /\ pc \in [Request -> {"idle", "collect"}]
  /\ creates \in [Request -> Nat]
  /\ used \in [Request -> SUBSET Utxo]
  /\ completed \in [Request -> BOOLEAN]
  /\ raw = [r \in Request |-> raw[r]]
  /\ \A r \in Request : raw[r] # NoTx =>
       /\ DOMAIN raw[r] = {"inputs", "outputs", "initiator", "signs"}
       /\ raw[r].inputs \in SUBSET Utxo
       /\ raw[r].signs \in Nat
  /\ budget \in [Kinds -> Nat]

\* The types hold at first.
LEMMA ShapeInit == Init => Shape
<1> SUFFICES ASSUME Init PROVE Shape
  OBVIOUS
<1>1. budget \in [Kinds -> Nat]
  BY UtxosAssumption DEF Init, UtxosInit, Kinds, UtxosAssumption
<1>2. raw = [r \in Request |-> raw[r]] /\ \A r \in Request : raw[r] = NoTx
  BY DEF Init
<1> QED BY <1>1, <1>2 DEF Init, Shape

\* Spending from the budget leaves its type, and what the other kind has left.
LEMMA SpendKeeps ==
  ASSUME budget \in [Kinds -> Nat], NEW k \in Kinds, Spend(k)
  PROVE  /\ budget' \in [Kinds -> Nat]
         /\ \A j \in Kinds : budget'[j] <= budget[j]
         /\ budget[k] > 0
  BY DEF Spend, Kinds

\* What VerifyRawTransaction changes in the raw transaction.
LEMMA VerifyEffect ==
  ASSUME Shape, NEW r \in Request, VerifyRawTransaction(r)
  PROVE  /\ raw' = [s \in Request |-> raw'[s]]
         /\ DOMAIN raw'[r] = {"inputs", "outputs", "initiator", "signs"}
         /\ raw'[r].inputs = raw[r].inputs
         /\ raw'[r].inputs \in SUBSET Utxo
         /\ raw'[r].signs = raw[r].signs + 1
         /\ raw'[r].signs \in Nat
         /\ \A s \in Request \ {r} : raw'[s] = raw[s]
<1>1. /\ raw' = [raw EXCEPT ![r].signs = @ + 1]
      /\ raw[r] # NoTx
  BY DEF VerifyRawTransaction
<1>2. /\ raw' = [s \in Request |-> raw'[s]]
      /\ raw'[r] = [raw[r] EXCEPT !.signs = @ + 1]
      /\ \A s \in Request \ {r} : raw'[s] = raw[s]
  BY <1>1 DEF Shape
<1>3. DOMAIN raw'[r] = DOMAIN raw[r]
  BY <1>2
<1> QED BY <1>1, <1>2, <1>3 DEF Shape

\* The types are kept by every step.
LEMMA ShapeStep == Shape /\ [Next]_vars => Shape'
<1> SUFFICES ASSUME Shape, [Next]_vars PROVE Shape'
  OBVIOUS
<1> USE DEF Shape
<1>1. ASSUME NEW r \in Request, Create(r) PROVE Shape'
  BY <1>1 DEF Create, node
<1>2. ASSUME NEW r \in Request, Collect(r) PROVE Shape'
  <2>1. used' \in [Request -> SUBSET Utxo]
    <3>1. \A a : \A S \in Taken(r, Available(a)) : S \in SUBSET Utxo
      BY DEF Available, Taken
    <3>2. used' = used \/ \E S \in SUBSET Utxo : used' = [used EXCEPT ![r] = @ \cup S]
      BY <1>2, <3>1 DEF Collect
    <3> QED BY <3>2
  <2>2. budget' \in [Kinds -> Nat]
    BY <1>2, SpendKeeps DEF Collect, RpcFails, AnswerIsLost, SelectUTXOBySize, node, Kinds
  <2> QED BY <1>2, <2>1, <2>2 DEF Collect
<1>3. ASSUME NEW r \in Request, NotEnough(r) PROVE Shape'
  BY <1>3 DEF NotEnough, node
<1>4. ASSUME NEW r \in Request, Build(r) PROVE Shape'
  BY <1>4 DEF Build, createRawTransaction, node
<1>5. ASSUME NEW r \in Request, SignRawTransaction(r) PROVE Shape'
  BY <1>5 DEF SignRawTransaction, node, call
<1>6. ASSUME NEW r \in Request, VerifyRawTransaction(r) PROVE Shape'
  <2>1. UNCHANGED <<pc, creates, used, budget>> /\ completed' \in [Request -> BOOLEAN]
    BY <1>6 DEF VerifyRawTransaction, node, call
  <2> QED BY <1>6, <2>1, VerifyEffect
<1>7. ASSUME NEW r \in Request, SubmitRawTransaction(r) PROVE Shape'
  <2>1. budget' \in [Kinds -> Nat]
    BY <1>7, SpendKeeps DEF SubmitRawTransaction, RpcFails, Kinds
  <2> QED BY <1>7, <2>1 DEF SubmitRawTransaction, call
<1>8. CASE LockExpires
  <2>1. budget' \in [Kinds -> Nat]
    BY <1>8, SpendKeeps DEF LockExpires, Expire, Kinds
  <2> QED BY <1>8, <2>1 DEF LockExpires, call
<1>9. CASE UNCHANGED vars
  BY <1>9 DEF vars, call, node
<1> QED BY <1>1, <1>2, <1>3, <1>4, <1>5, <1>6, <1>7, <1>8, <1>9 DEF Next, CreateStep

----------------------------------------------------------------------------
\* InputsExclusive is inductive once it is known that, while no lock has expired,
\* what a request holds is locked, so that SelectUTXOBySize gives it to nobody
\* else.
Exclusive == \A r, s \in Request : r # s => Holds(r) \cap Holds(s) = {}

LocksInv ==
  /\ Shape
  /\ budget["expiry"] <= MaxExpiries
  /\ NoLockExpired => Exclusive /\ \A r \in Request : Holds(r) \subseteq locked

\* Only what was not locked is added to what a request holds, and it is locked.
HoldsStep ==
  /\ locked \subseteq locked'
  /\ \A r \in Request : (Holds(r) \subseteq locked)
                           => (Holds(r)' \subseteq locked' /\ Holds(r)' \cap locked \subseteq Holds(r))
  /\ \A r, s \in Request : r # s => Holds(r)' = Holds(r) \/ Holds(s)' = Holds(s)

\* Every step but the expiry of a lock is of that kind.
LEMMA HoldsMoves ==
  ASSUME Shape, NEW r \in Request,
         Create(r) \/ CreateStep(r) \/ SignRawTransaction(r)
         \/ VerifyRawTransaction(r) \/ SubmitRawTransaction(r)
  PROVE  HoldsStep
<1> USE DEF Shape
<1>1. CASE Create(r)
  BY <1>1 DEF Create, node, HoldsStep, Holds
<1>2. CASE Collect(r)
  <2>1. raw' = raw /\ \A s \in Request \ {r} : used'[s] = used[s]
    BY <1>2 DEF Collect
  <2>2. locked \subseteq locked'
    BY <1>2 DEF Collect, RpcFails, AnswerIsLost, SelectUTXOBySize, node
  <2>3. \/ used'[r] = used[r]
        \/ \E S : /\ used'[r] = used[r] \cup S
                  /\ S \cap locked = {}
                  /\ S \subseteq locked'
    BY <1>2 DEF Collect, SelectUTXOBySize, Taken, Available
  <2>4. ASSUME NEW s \in Request, Holds(s) \subseteq locked
        PROVE  Holds(s)' \subseteq locked' /\ Holds(s)' \cap locked \subseteq Holds(s)
    BY <2>1, <2>2, <2>3, <2>4 DEF Holds
  <2>5. \A s \in Request \ {r} : Holds(s)' = Holds(s)
    BY <2>1 DEF Holds
  <2> QED BY <2>2, <2>4, <2>5 DEF HoldsStep
<1>3. CASE NotEnough(r)
  BY <1>3 DEF NotEnough, node, HoldsStep, Holds
<1>4. CASE Build(r)
  <2>1. /\ UNCHANGED <<locked, used>>
        /\ raw'[r].inputs = used[r]
        /\ \A s \in Request \ {r} : raw'[s] = raw[s]
    BY <1>4 DEF Build, createRawTransaction, node
  <2> QED BY <2>1 DEF HoldsStep, Holds
<1>5. CASE SignRawTransaction(r)
  BY <1>5 DEF SignRawTransaction, node, call, HoldsStep, Holds
<1>6. CASE VerifyRawTransaction(r)
  <2>1. /\ UNCHANGED <<locked, used>>
        /\ raw[r] # NoTx
        /\ raw'[r].inputs = raw[r].inputs
        /\ \A s \in Request \ {r} : raw'[s] = raw[s]
    BY <1>6, VerifyEffect DEF VerifyRawTransaction, node, call
  <2> QED BY <2>1 DEF HoldsStep, Holds
<1>7. CASE SubmitRawTransaction(r)
  BY <1>7 DEF SubmitRawTransaction, RpcFails, call, HoldsStep, Holds
<1> QED BY <1>1, <1>2, <1>3, <1>4, <1>5, <1>6, <1>7 DEF CreateStep

\* A step of that kind keeps what requests hold locked and disjoint.
LEMMA HoldsStepKeeps ==
  ASSUME \A r \in Request : Holds(r) \subseteq locked, Exclusive, HoldsStep
  PROVE  Exclusive' /\ \A r \in Request : Holds(r)' \subseteq locked'
<1>1. ASSUME NEW r \in Request, NEW s \in Request, r # s
      PROVE  Holds(r)' \cap Holds(s)' = {}
  <2>1. CASE Holds(r)' = Holds(r)
    BY <1>1, <2>1 DEF HoldsStep, Exclusive
  <2>2. CASE Holds(s)' = Holds(s)
    BY <1>1, <2>2 DEF HoldsStep, Exclusive
  <2> QED BY <1>1, <2>1, <2>2 DEF HoldsStep
<1> QED BY <1>1 DEF HoldsStep, Exclusive

\* What is left of the expiries only decreases, and does when a lock expires.
LEMMA ExpiriesStep ==
  ASSUME Shape, [Next]_vars
  PROVE  /\ budget'["expiry"] <= budget["expiry"]
         /\ LockExpires => budget'["expiry"] < budget["expiry"]
<1>1. CASE UNCHANGED budget
  BY <1>1 DEF Shape, Kinds, LockExpires, Expire, Spend
<1>2. CASE Spend("rpc")
  BY <1>2 DEF Spend, Shape, Kinds, LockExpires, Expire
<1>3. CASE LockExpires
  BY <1>3 DEF LockExpires, Expire, Spend, Shape, Kinds
<1> QED
  BY <1>1, <1>2, <1>3
  DEF Next, CreateStep, Create, Collect, NotEnough, Build, SignRawTransaction,
      VerifyRawTransaction, SubmitRawTransaction, RpcFails, AnswerIsLost,
      SelectUTXOBySize, vars, node

\* Two transfers of an account that are under way at once are never built on the
\* same UTXO, whatever RPCs fail, as long as no lock of the node expires.
THEOREM NoSharedInputs == Spec => []InputsExclusive
<1>1. Init => LocksInv
  BY ShapeInit, UtxosAssumption
  DEF Init, UtxosInit, LocksInv, Exclusive, Holds, Kinds, UtxosAssumption
<1>2. LocksInv /\ [Next]_vars => LocksInv'
  <2> SUFFICES ASSUME LocksInv, [Next]_vars PROVE LocksInv'
    OBVIOUS
  <2>1. Shape'
    BY ShapeStep DEF LocksInv
  <2>2. budget["expiry"] \in Nat /\ budget'["expiry"] \in Nat /\ MaxExpiries \in Nat
    BY <2>1, UtxosAssumption DEF LocksInv, Shape, Kinds, UtxosAssumption
  <2>3. budget'["expiry"] <= MaxExpiries
    BY <2>2, ExpiriesStep DEF LocksInv
  <2>4. ASSUME NoLockExpired'
        PROVE  Exclusive' /\ \A r \in Request : Holds(r)' \subseteq locked'
    <3>1. NoLockExpired /\ ~LockExpires
      BY <2>2, <2>4, ExpiriesStep DEF LocksInv, NoLockExpired
    <3>2. Exclusive /\ \A r \in Request : Holds(r) \subseteq locked
      BY <3>1 DEF LocksInv
    <3>3. HoldsStep \/ UNCHANGED vars
      BY <3>1, HoldsMoves DEF Next, LocksInv
    <3>4. CASE UNCHANGED vars
      BY <3>2, <3>4 DEF vars, node, call, Exclusive, Holds
    <3> QED BY <3>2, <3>3, <3>4, HoldsStepKeeps
  <2> QED BY <2>1, <2>3, <2>4 DEF LocksInv
<1>3. LocksInv => InputsExclusive
  BY DEF LocksInv, InputsExclusive, Exclusive
<1> QED BY <1>1, <1>2, <1>3, PTL DEF Spec

----------------------------------------------------------------------------
\* PostedIsSigned is inductive once it is known that, while every raw transaction
\* has been created at most once, none that passed VerifyRawTransaction is built
\* anew.
SignedInv ==
  /\ Shape
  /\ CreatedOnce => \A x \in posted : x.signs > 0
  /\ CreatedOnce => \A r \in Request :
       /\ creates[r] = 0 => pc[r] = "idle" /\ raw[r] = NoTx
       /\ creates[r] = 0 \/ pc[r] = "collect" => ~completed[r]
       /\ completed[r] => raw[r].signs > 0

\* Nothing without its initiator's signature is handed to PostTx, as long as
\* Create is called at most once for each raw transaction.
THEOREM NothingUnsigned == Spec => []PostedIsSigned
<1>1. Init => SignedInv
  BY ShapeInit DEF Init, SignedInv
<1>2. SignedInv /\ [Next]_vars => SignedInv'
  <2> SUFFICES ASSUME SignedInv, [Next]_vars PROVE SignedInv'
    OBVIOUS
  <2>0. Shape'
    BY ShapeStep DEF SignedInv
  <2> USE <2>0, TransferAssumption DEF SignedInv, Shape, CreatedOnce, TransferAssumption
  <2>1. ASSUME NEW r \in Request, Create(r) PROVE SignedInv'
    BY <2>1 DEF Create
  <2>2. ASSUME NEW r \in Request, Collect(r) PROVE SignedInv'
    BY <2>2 DEF Collect
  <2>3. ASSUME NEW r \in Request, NotEnough(r) PROVE SignedInv'
    BY <2>3 DEF NotEnough
  <2>4. ASSUME NEW r \in Request, Build(r) PROVE SignedInv'
    BY <2>4 DEF Build, createRawTransaction
  <2>5. ASSUME NEW r \in Request, SignRawTransaction(r) PROVE SignedInv'
    BY <2>5 DEF SignRawTransaction, call
  <2>6. ASSUME NEW r \in Request, VerifyRawTransaction(r) PROVE SignedInv'
    <3>1. /\ UNCHANGED <<pc, creates, posted>>
          /\ completed' = [completed EXCEPT ![r] = TRUE]
          /\ pc[r] = "idle"
          /\ raw[r] # NoTx
      BY <2>6 DEF VerifyRawTransaction, call
    <3>2. raw'[r].signs > 0 /\ \A s \in Request \ {r} : raw'[s] = raw[s]
      BY <2>6, <3>1, VerifyEffect
    <3>3. CreatedOnce => creates[r] # 0
      BY <3>1
    <3> QED BY <3>1, <3>2, <3>3
  <2>7. ASSUME NEW r \in Request, SubmitRawTransaction(r) PROVE SignedInv'
    BY <2>7 DEF SubmitRawTransaction, call
  <2>8. CASE LockExpires
    BY <2>8 DEF LockExpires, call
  <2>9. CASE UNCHANGED vars
    BY <2>9 DEF vars, call
  <2> QED BY <2>1, <2>2, <2>3, <2>4, <2>5, <2>6, <2>7, <2>8, <2>9 DEF Next, CreateStep
<1>3. SignedInv => PostedIsSigned
  BY DEF SignedInv, PostedIsSigned
<1> QED BY <1>1, <1>2, <1>3, PTL DEF Spec

----------------------------------------------------------------------------
(***************************************************************************)
(* Whom a transaction asks for signatures.                                 *)
(***************************************************************************)

\* The list names each owner of S in the node's UTXOs, and nobody else, once.
Names(utxos, list, S) ==
  /\ list \in Seq(Address)
  /\ IsInjective(list)
  /\ {list[k] : k \in DOMAIN list} = {utxos[u].addr : u \in S}

\* The list authAddrs names the owners of usedUTXO, and it only has addresses that
\* the loop is past; a raw transaction names those of its inputs.
ListInv(r) ==
  /\ Names(utxo, authAddrs[r], used[r])
  /\ \A k \in DOMAIN authAddrs[r] : \E j \in 1 .. next[r] - 1 : authAddrs[r][k] = Addresses[j]

RawInv(r) ==
  /\ asked[r] \in Seq(Address)
  /\ raw[r] # NoTx => /\ Names(utxo, asked[r], raw[r].inputs)
                      /\ raw[r].initiator = Head(asked[r])
                      /\ raw[r].inputs # {}

AskedInv ==
  /\ utxo \in [Utxo -> [addr : Address, amount : 1 .. MaxAmount]]
  /\ to \in [Request -> Orders]
  /\ next \in [Request -> 1 .. Len(Addresses) + 1]
  /\ authAddrs = [r \in Request |-> authAddrs[r]]
  /\ asked = [r \in Request |-> asked[r]]
  /\ \A r \in Request : ListInv(r) /\ RawInv(r)

\* An empty list names the owners of nothing.
LEMMA NamesNobody == ASSUME NEW utxos PROVE Names(utxos, <<>>, {})
  BY DEF Names, IsInjective

\* A list goes on to name the owners when UTXOs of one new address are added.
LEMMA NamesOneMore ==
  ASSUME NEW utxos, NEW list, NEW S, Names(utxos, list, S),
         NEW a \in Address, \A k \in DOMAIN list : list[k] # a,
         NEW T, T # {}, \A u \in T : utxos[u].addr = a
  PROVE  Names(utxos, Append(list, a), S \cup T)
<1> DEFINE new == Append(list, a)
<1>1. list \in Seq(Address) /\ IsInjective(list)
  BY DEF Names
<1>2. /\ new \in Seq(Address)
      /\ DOMAIN list = 1 .. Len(list) /\ DOMAIN new = 1 .. Len(list) + 1 /\ Len(list) \in Nat
      /\ \A k \in DOMAIN list : new[k] = list[k]
      /\ new[Len(list) + 1] = a
  BY <1>1
<1> HIDE DEF new
<1>3. IsInjective(new)
  BY <1>1, <1>2 DEF IsInjective
<1>4. {new[k] : k \in DOMAIN new} = {list[k] : k \in DOMAIN list} \cup {a}
  <2>1. DOMAIN new = DOMAIN list \cup {Len(list) + 1}
    BY <1>2
  <2> QED
    BY <1>2, <2>1
<1>5. {utxos[u].addr : u \in S \cup T} = {utxos[u].addr : u \in S} \cup {a}
  OBVIOUS
<1> QED
  BY <1>2, <1>3, <1>4, <1>5 DEF Names, new

\* The first of the list owns one of the UTXOs, when there are any.
LEMMA NamesHead ==
  ASSUME NEW utxos, NEW list, NEW S, Names(utxos, list, S), S # {}
  PROVE  list # <<>> /\ Head(list) \in Address /\ Head(list) \in {utxos[u].addr : u \in S}
<1>1. list \in Seq(Address) /\ {list[k] : k \in DOMAIN list} # {}
  BY DEF Names
<1>2. list # <<>>
  BY <1>1
<1>3. 1 \in DOMAIN list /\ Head(list) = list[1]
  BY <1>1, <1>2
<1> QED
  BY <1>1, <1>2, <1>3 DEF Names

\* There are as many owners as names.
LEMMA NamesCount ==
  ASSUME NEW utxos, NEW list, NEW S, Names(utxos, list, S)
  PROVE  Cardinality({utxos[u].addr : u \in S}) = Len(list)
<1> DEFINE T == {list[k] : k \in DOMAIN list}
<1>1. list \in Seq(Address) /\ IsInjective(list) /\ T = {utxos[u].addr : u \in S}
  BY DEF Names
<1>2. Len(list) \in Nat /\ DOMAIN list = 1 .. Len(list)
  BY <1>1
<1>3. list \in Surjection(1 .. Len(list), T) /\ list \in Injection(1 .. Len(list), T)
  <2>1. list \in [1 .. Len(list) -> T]
    BY <1>1, <1>2
  <2> QED
    BY <1>1, <1>2, <2>1 DEF Surjection, Injection, IsInjective
<1>4. IsFiniteSet(1 .. Len(list)) /\ Cardinality(1 .. Len(list)) = Len(list)
  <2>1. Cardinality(1 .. Len(list)) = IF 1 > Len(list) THEN 0 ELSE Len(list) - 1 + 1
    BY <1>2, FS_Interval
  <2>2. IsFiniteSet(1 .. Len(list))
    BY <1>2, FS_Interval
  <2> QED
    BY <1>2, <2>1, <2>2
<1> QED
  BY <1>1, <1>3, <1>4, FS_Surjection

\* No step changes the account's UTXOs or an order.
LEMMA Fixed == [Next]_vars => UNCHANGED <<utxo, to>>
  BY DEF Next, CreateStep, Create, Collect, NotEnough, Build, SignRawTransaction,
     VerifyRawTransaction, SubmitRawTransaction, LockExpires, Expire, Spend, RpcFails,
     AnswerIsLost, SelectUTXOBySize, vars, node, call

\* An order asks for something.
LEMMA OrderFacts == ASSUME NEW o \in Orders PROVE Need(o) \in Nat \ {0}
<1>1. IsFiniteSet(DOMAIN o) /\ DOMAIN o # {} /\ \A d \in DOMAIN o : o[d] \in Nat \ {0}
  BY TransferAssumption
<1>2. SumOf(o, DOMAIN o) \in Nat
  BY <1>1, SumOfType
<1>3. SumOf(o, DOMAIN o) > 0
  BY <1>1, SumOfPositive
<1> QED
  BY <1>2, <1>3, SumFunctionIs DEF Need

\* When the balance reaches the order, there is a UTXO, and so an address.
LEMMA EnoughIsSome ==
  ASSUME Shape, AskedInv, NEW r \in Request, Total(used[r]) >= Need(to[r])
  PROVE  used[r] # {} /\ Total(used[r]) - Need(to[r]) \in Nat
<1>1. to[r] \in Orders /\ used[r] \in SUBSET Utxo
  BY DEF AskedInv, Shape
<1>2. Need(to[r]) \in Nat \ {0}
  BY <1>1, OrderFacts
<1>3. Total(used[r]) \in Nat /\ (Total(used[r]) = 0 <=> used[r] = {})
  BY <1>1, TotalFacts DEF AskedInv
<1> QED
  BY <1>2, <1>3

\* What one address adds to usedUTXO and authAddrs.
LEMMA CollectEffect ==
  ASSUME Shape, AskedInv, NEW r \in Request, Collect(r)
  PROVE  /\ next[r] \in 1 .. Len(Addresses)
         /\ next' = [next EXCEPT ![r] = @ + 1]
         /\ UNCHANGED <<to, raw, asked>>
         /\ \/ UNCHANGED <<used, authAddrs>>
            \/ \E S \in SUBSET Utxo :
                 /\ S # {}
                 /\ \A u \in S : utxo[u].addr = Addresses[next[r]]
                 /\ used' = [used EXCEPT ![r] = @ \cup S]
                 /\ authAddrs' = [authAddrs EXCEPT ![r] = Append(@, Addresses[next[r]])]
<1>1. /\ next[r] \in 1 .. Len(Addresses)
      /\ next' = [next EXCEPT ![r] = @ + 1]
      /\ UNCHANGED <<to, raw, asked>>
  BY AddressFacts DEF Collect, AskedInv
<1>2. \A a : \A S \in Taken(r, Available(a)) :
        S \in SUBSET Utxo /\ S # {} /\ \A u \in S : utxo[u].addr = a
  BY DEF Taken, Available, Owner
<1>3. \/ UNCHANGED <<used, authAddrs>>
      \/ /\ \E S \in Taken(r, Available(Addresses[next[r]])) : used' = [used EXCEPT ![r] = @ \cup S]
         /\ authAddrs' = [authAddrs EXCEPT ![r] = Append(@, Addresses[next[r]])]
  BY DEF Collect
<1> QED
  BY <1>1, <1>2, <1>3

\* A request that a step leaves alone keeps its lists.
LEMMA AskedFrame ==
  ASSUME AskedInv, UNCHANGED <<utxo, to>>, NEW r \in Request,
         next' \in [Request -> 1 .. Len(Addresses) + 1],
         authAddrs' = [s \in Request |-> authAddrs'[s]],
         asked' = [s \in Request |-> asked'[s]],
         ListInv(r)', RawInv(r)',
         \A s \in Request \ {r} : /\ next'[s] = next[s]
                                  /\ used'[s] = used[s]
                                  /\ authAddrs'[s] = authAddrs[s]
                                  /\ asked'[s] = asked[s]
                                  /\ raw'[s] = raw[s]
  PROVE  AskedInv'
<1>1. ASSUME NEW s \in Request PROVE ListInv(s)' /\ RawInv(s)'
  <2>1. CASE s = r
    BY <2>1
  <2>2. CASE s # r
    <3>1. /\ next'[s] = next[s] /\ used'[s] = used[s] /\ authAddrs'[s] = authAddrs[s]
          /\ asked'[s] = asked[s] /\ raw'[s] = raw[s] /\ utxo' = utxo
      BY <2>2
    <3>2. ListInv(s) /\ RawInv(s)
      BY DEF AskedInv
    <3>3. ListInv(s)'
      BY <3>1, <3>2 DEF ListInv
    <3>4. RawInv(s)'
      BY <3>1, <3>2 DEF RawInv
    <3> QED
      BY <3>3, <3>4
  <2> QED
    BY <2>1, <2>2
<1> QED
  BY <1>1 DEF AskedInv

\* Every step keeps the lists in step with the UTXOs.
LEMMA AskedStep == Shape /\ AskedInv /\ [Next]_vars => AskedInv'
<1> SUFFICES ASSUME Shape, AskedInv, [Next]_vars PROVE AskedInv'
  OBVIOUS
<1>0. UNCHANGED <<utxo, to>>
  BY Fixed
<1>1. ASSUME NEW r \in Request, Create(r) PROVE AskedInv'
  <2>1. /\ next' = [next EXCEPT ![r] = 1]
        /\ used' = [used EXCEPT ![r] = {}]
        /\ authAddrs' = [authAddrs EXCEPT ![r] = <<>>]
        /\ UNCHANGED <<raw, asked>>
    BY <1>1 DEF Create
  <2>2. authAddrs'[r] = <<>> /\ used'[r] = {}
    BY <2>1 DEF AskedInv, Shape
  <2>3. ListInv(r)'
    BY <1>0, <2>2, NamesNobody DEF ListInv
  <2>4. RawInv(r)'
    BY <1>0, <2>1 DEF AskedInv, RawInv
  <2>5. next' \in [Request -> 1 .. Len(Addresses) + 1]
    BY <2>1, AddressFacts DEF AskedInv
  <2> QED
    BY <1>0, <2>1, <2>3, <2>4, <2>5, AskedFrame DEF AskedInv, Shape
<1>2. ASSUME NEW r \in Request, Collect(r) PROVE AskedInv'
  <2> DEFINE a == Addresses[next[r]]
  <2>1. /\ next[r] \in 1 .. Len(Addresses)
        /\ next' = [next EXCEPT ![r] = @ + 1]
        /\ UNCHANGED <<raw, asked>>
    BY <1>2, CollectEffect
  <2>2. next' \in [Request -> 1 .. Len(Addresses) + 1] /\ next'[r] = next[r] + 1
    BY <2>1, AddressFacts DEF AskedInv
  <2>3. RawInv(r)'
    BY <1>0, <2>1 DEF AskedInv, RawInv
  <2>4. ListInv(r)
    BY DEF AskedInv
  <2>5. CASE UNCHANGED <<used, authAddrs>>
    <3>1. 1 .. next[r] - 1 \subseteq 1 .. (next[r] + 1) - 1
      BY <2>1, AddressFacts
    <3>2. ListInv(r)'
      BY <1>0, <2>2, <2>4, <2>5, <3>1 DEF ListInv
    <3> QED
      BY <1>0, <2>1, <2>2, <2>3, <2>5, <3>2, AskedFrame DEF AskedInv
  <2>6. ASSUME NEW S \in SUBSET Utxo, S # {}, \A u \in S : utxo[u].addr = a,
               used' = [used EXCEPT ![r] = @ \cup S],
               authAddrs' = [authAddrs EXCEPT ![r] = Append(@, a)]
        PROVE  AskedInv'
    <3>1. authAddrs'[r] = Append(authAddrs[r], a) /\ used'[r] = used[r] \cup S
      BY <2>6 DEF AskedInv, Shape
    <3>2. a \in Address /\ \A k \in DOMAIN authAddrs[r] : authAddrs[r][k] # a
      <4>1. \A j \in 1 .. next[r] - 1 : j \in 1 .. Len(Addresses) /\ j # next[r]
        BY <2>1, AddressFacts
      <4> QED
        BY <2>1, <2>4, <4>1, AddressFacts DEF ListInv
    <3>3. Names(utxo, authAddrs'[r], used'[r])
      BY <2>4, <2>6, <3>1, <3>2, NamesOneMore DEF ListInv
    <3>4. \A k \in DOMAIN authAddrs'[r] : \E j \in 1 .. next'[r] - 1 : authAddrs'[r][k] = Addresses[j]
      <4>1. 1 .. next[r] - 1 \subseteq 1 .. next'[r] - 1 /\ next[r] \in 1 .. next'[r] - 1
        BY <2>1, <2>2, AddressFacts
      <4>2. ASSUME NEW k \in DOMAIN authAddrs'[r]
            PROVE  \/ k \in DOMAIN authAddrs[r] /\ authAddrs'[r][k] = authAddrs[r][k]
                   \/ authAddrs'[r][k] = a
        BY <2>4, <3>1 DEF ListInv, Names
      <4> QED
        BY <2>4, <4>1, <4>2 DEF ListInv
    <3>5. ListInv(r)'
      BY <1>0, <3>3, <3>4 DEF ListInv
    <3> QED
      BY <1>0, <2>1, <2>2, <2>3, <2>6, <3>5, AskedFrame DEF AskedInv, Shape
  <2> QED
    BY <1>2, <2>5, <2>6, CollectEffect
<1>3. ASSUME NEW r \in Request, NotEnough(r) PROVE AskedInv'
  BY <1>0, <1>3 DEF NotEnough, AskedInv, ListInv, RawInv
<1>4. ASSUME NEW r \in Request, Build(r) PROVE AskedInv'
  <2>1. /\ raw'[r].inputs = used[r]
        /\ raw'[r].initiator = Head(authAddrs[r])
        /\ asked' = [asked EXCEPT ![r] = authAddrs[r]]
        /\ \A s \in Request \ {r} : raw'[s] = raw[s]
        /\ UNCHANGED <<next, used, authAddrs>>
    BY <1>4 DEF Build, createRawTransaction, Shape
  <2>2. used[r] # {}
    BY <1>4, EnoughIsSome DEF Build
  <2>3. asked'[r] = authAddrs[r]
    BY <2>1 DEF AskedInv
  <2>4. ListInv(r)' /\ ListInv(r)
    BY <1>0, <2>1 DEF AskedInv, ListInv
  <2>5. Names(utxo, authAddrs[r], used[r]) /\ authAddrs[r] \in Seq(Address)
    BY <2>4 DEF ListInv, Names
  <2>6. RawInv(r)'
    BY <1>0, <2>1, <2>2, <2>3, <2>5 DEF RawInv
  <2> QED
    BY <1>0, <2>1, <2>4, <2>6, AskedFrame DEF AskedInv
<1>5. ASSUME NEW r \in Request, SignRawTransaction(r) PROVE AskedInv'
  BY <1>0, <1>5 DEF SignRawTransaction, call, AskedInv, ListInv, RawInv
<1>6. ASSUME NEW r \in Request, VerifyRawTransaction(r) PROVE AskedInv'
  <2>1. UNCHANGED <<next, used, authAddrs, asked>> /\ raw[r] # NoTx
    BY <1>6 DEF VerifyRawTransaction, call
  <2>2. raw'[r].inputs = raw[r].inputs /\ raw'[r].initiator = raw[r].initiator
    BY <1>6 DEF VerifyRawTransaction, Shape
  <2>3. \A s \in Request \ {r} : raw'[s] = raw[s]
    BY <1>6 DEF VerifyRawTransaction, Shape
  <2>4. ListInv(r)' /\ RawInv(r)'
    BY <1>0, <2>1, <2>2 DEF AskedInv, ListInv, RawInv
  <2> QED
    BY <1>0, <2>1, <2>3, <2>4, AskedFrame DEF AskedInv
<1>7. ASSUME NEW r \in Request, SubmitRawTransaction(r) PROVE AskedInv'
  BY <1>0, <1>7 DEF SubmitRawTransaction, call, AskedInv, ListInv, RawInv
<1>8. CASE LockExpires
  BY <1>0, <1>8 DEF LockExpires, call, AskedInv, ListInv, RawInv
<1>9. CASE UNCHANGED vars
  BY <1>0, <1>9 DEF vars, call, AskedInv, ListInv, RawInv
<1> QED
  BY <1>1, <1>2, <1>3, <1>4, <1>5, <1>6, <1>7, <1>8, <1>9 DEF Next, CreateStep

LEMMA AskedInit == Init => AskedInv
<1> SUFFICES ASSUME Init PROVE AskedInv
  OBVIOUS
<1>1. Names(utxo, <<>>, {}) /\ DOMAIN <<>> = {} /\ <<>> \in Seq(Address)
  BY NamesNobody DEF Names
<1>2. next \in [Request -> 1 .. Len(Addresses) + 1]
  BY AddressFacts DEF Init
<1> QED
  BY <1>1, <1>2 DEF Init, UtxosInit, AskedInv, ListInv, RawInv

\* Whoever owns an input of a raw transaction is asked for a signature, once, and
\* nobody else is: authAddrs stays in step with usedUTXO whatever addresses are
\* passed over.
THEOREM OwnersSign == Spec => []OwnersAreAsked
<1>1. Init => Shape /\ AskedInv
  BY ShapeInit, AskedInit
<1>2. Shape /\ AskedInv /\ [Next]_vars => (Shape /\ AskedInv)'
  BY ShapeStep, AskedStep
<1>3. AskedInv => OwnersAreAsked
  <2> SUFFICES ASSUME AskedInv, NEW r \in Request, raw[r] # NoTx
               PROVE  /\ {asked[r][i] : i \in DOMAIN asked[r]} = {Owner(u) : u \in raw[r].inputs}
                      /\ Cardinality({Owner(u) : u \in raw[r].inputs}) = Len(asked[r])
                      /\ raw[r].initiator = Head(asked[r])
    BY DEF OwnersAreAsked
  <2>1. Names(utxo, asked[r], raw[r].inputs) /\ raw[r].initiator = Head(asked[r])
    BY DEF AskedInv, RawInv
  <2>2. Cardinality({utxo[u].addr : u \in raw[r].inputs}) = Len(asked[r])
    BY <2>1, NamesCount
  <2> QED
    BY <2>1, <2>2 DEF Names, Owner
<1> QED
  BY <1>1, <1>2, <1>3, PTL DEF Spec

----------------------------------------------------------------------------
(***************************************************************************)
(* What a transaction pays.                                                *)
(***************************************************************************)

\* The order with its change: the sum is that of both, nobody gets less than the
\* order says, and only the change address gets more.
LEMMA OutputsFacts ==
  ASSUME NEW o \in Orders, NEW a, NEW n \in Nat, NEW p, p = Outputs(o, a, n)
  PROVE  /\ SumFunction(p) = Need(o) + n
         /\ DOMAIN o \subseteq DOMAIN p
         /\ DOMAIN p \subseteq DOMAIN o \cup {a}
         /\ \A d \in DOMAIN p : p[d] \in Nat \ {0}
         /\ \A d \in DOMAIN o : p[d] >= o[d]
         /\ \A d \in DOMAIN p : d # a => d \in DOMAIN o /\ p[d] = o[d]
<1> DEFINE D == DOMAIN o
<1>1. IsFiniteSet(D) /\ \A d \in D : o[d] \in Nat \ {0}
  BY TransferAssumption
<1>2. Need(o) = SumOf(o, D) /\ Need(o) \in Nat
  BY OrderFacts, SumFunctionIs DEF Need
<1>3. CASE n = 0
  <2>1. p = o
    BY <1>3 DEF Outputs
  <2>2. SumFunction(p) = Need(o) + n
    BY <1>2, <1>3, <2>1 DEF Need
  <2>3. \A d \in D : o[d] >= o[d]
    BY <1>1
  <2> QED
    BY <1>1, <1>3, <2>1, <2>2, <2>3
<1>4. CASE n # 0
  <2>1. /\ DOMAIN p = D \cup {a}
        /\ \A d \in D \ {a} : p[d] = o[d]
        /\ p[a] = (IF a \in D THEN o[a] ELSE 0) + n
    <3>1. p = [d \in D \cup {a} |-> (IF d \in D THEN o[d] ELSE 0) + (IF d = a THEN n ELSE 0)]
      BY <1>4 DEF Outputs
    <3>2. \A d \in D \ {a} : p[d] = o[d] + 0
      BY <3>1
    <3> QED
      BY <1>1, <3>1, <3>2
  <2>2. \A d \in DOMAIN p : p[d] \in Nat \ {0}
    BY <1>1, <1>4, <2>1
  <2>3. SumFunction(p) = p[a] + SumOf(p, D \ {a})
    <3>1. IsFiniteSet(DOMAIN p)
      BY <1>1, <2>1, FS_AddElement
    <3>2. DOMAIN p \ {a} = D \ {a} /\ a \in DOMAIN p
      BY <2>1
    <3>3. SumOf(p, DOMAIN p) = p[a] + SumOf(p, DOMAIN p \ {a})
      BY <2>2, <3>1, <3>2, SumOfRemove
    <3> QED
      BY <3>2, <3>3, SumFunctionIs
  <2>4. SumOf(p, D \ {a}) = SumOf(o, D \ {a}) /\ SumOf(o, D \ {a}) \in Nat
    <3>1. IsFiniteSet(D \ {a})
      BY <1>1, FS_Subset
    <3>2. SumOf(p, D \ {a}) = SumOf(o, D \ {a})
      BY <2>1, <3>1, SumOfAgree
    <3>3. SumOf(o, D \ {a}) \in Nat
      BY <1>1, <3>1, SumOfType
    <3> QED
      BY <3>2, <3>3
  <2>5. SumFunction(p) = Need(o) + n
    <3>1. CASE a \in D
      <4>1. SumOf(o, D) = o[a] + SumOf(o, D \ {a}) /\ o[a] \in Nat
        BY <1>1, <3>1, SumOfRemove
      <4> DEFINE rest == SumOf(o, D \ {a})
      <4>2. SumFunction(p) = (o[a] + n) + rest /\ Need(o) = o[a] + rest /\ rest \in Nat
        BY <1>2, <2>1, <2>3, <2>4, <3>1, <4>1
      <4> HIDE DEF rest
      <4> QED
        BY <4>1, <4>2
    <3>2. CASE a \notin D
      <4>1. D \ {a} = D
        BY <3>2
      <4> QED
        BY <1>2, <2>1, <2>3, <2>4, <3>2, <4>1
    <3> QED
      BY <3>1, <3>2
  <2>6. \A d \in D : p[d] >= o[d]
    BY <1>1, <2>1
  <2> QED
    BY <1>4, <2>1, <2>2, <2>5, <2>6
<1> QED
  BY <1>3, <1>4

\* A raw transaction pays its order, and what its inputs leave to the initiator.
Change(r) == Total(raw[r].inputs) - Need(to[r])

PaidInv ==
  \A r \in Request : raw[r] # NoTx =>
    Change(r) \in Nat /\ raw[r].outputs = Outputs(to[r], raw[r].initiator, Change(r))

\* A raw transaction that a step leaves alone keeps what it pays.
LEMMA PaidFrame ==
  ASSUME PaidInv, UNCHANGED <<utxo, to>>, NEW r \in Request,
         \A s \in Request \ {r} : raw'[s] = raw[s],
         Change(r)' \in Nat,
         raw'[r].outputs = Outputs(to[r], raw'[r].initiator, Change(r)')
  PROVE  PaidInv'
<1>1. ASSUME NEW s \in Request, s # r PROVE raw'[s] = raw[s] /\ Change(s)' = Change(s)
  BY <1>1 DEF Change, Total
<1> QED
  BY <1>1 DEF PaidInv

\* Every step keeps it.
LEMMA PaidStep == Shape /\ AskedInv /\ PaidInv /\ [Next]_vars => PaidInv'
<1> SUFFICES ASSUME Shape, AskedInv, PaidInv, [Next]_vars PROVE PaidInv'
  OBVIOUS
<1>0. UNCHANGED <<utxo, to>>
  BY Fixed
<1>1. CASE UNCHANGED raw
  <2>1. \A r \in Request : Change(r)' = Change(r)
    BY <1>0, <1>1 DEF Change, Total
  <2> QED
    BY <1>0, <1>1, <2>1 DEF PaidInv
<1>2. ASSUME NEW r \in Request, Build(r) PROVE PaidInv'
  <2>1. /\ raw'[r].inputs = used[r]
        /\ raw'[r].initiator = Head(authAddrs[r])
        /\ raw'[r].outputs = Outputs(to[r], Head(authAddrs[r]), Total(used[r]) - Need(to[r]))
        /\ \A s \in Request \ {r} : raw'[s] = raw[s]
    BY <1>2 DEF Build, createRawTransaction, Shape
  <2>2. Total(used[r]) - Need(to[r]) \in Nat
    BY <1>2, EnoughIsSome DEF Build
  <2>3. Change(r)' = Total(used[r]) - Need(to[r])
    BY <1>0, <2>1 DEF Change, Total
  <2> QED
    BY <1>0, <2>1, <2>2, <2>3, PaidFrame
<1>3. ASSUME NEW r \in Request, VerifyRawTransaction(r) PROVE PaidInv'
  <2>1. /\ raw[r] # NoTx
        /\ raw'[r].inputs = raw[r].inputs
        /\ raw'[r].initiator = raw[r].initiator
        /\ raw'[r].outputs = raw[r].outputs
        /\ \A s \in Request \ {r} : raw'[s] = raw[s]
    BY <1>3 DEF VerifyRawTransaction, Shape
  <2>2. Change(r)' = Change(r)
    BY <1>0, <2>1 DEF Change, Total
  <2>3. Change(r) \in Nat /\ raw[r].outputs = Outputs(to[r], raw[r].initiator, Change(r))
    BY <2>1 DEF PaidInv
  <2> QED
    BY <1>0, <2>1, <2>2, <2>3, PaidFrame
<1> QED
  BY <1>1, <1>2, <1>3
  DEF Next, CreateStep, Create, Collect, NotEnough, SignRawTransaction,
      SubmitRawTransaction, LockExpires, vars

\* What a built transaction spends is exactly what it pays: the order, and the
\* change to one of the owners of its inputs.
LEMMA PaidIsConserved ==
  ASSUME AskedInv, Shape, PaidInv
  PROVE  ValueConserved
<1> SUFFICES ASSUME NEW r \in Request, raw[r] # NoTx
             PROVE  LET outputs == raw[r].outputs
                        changes == {d \in DOMAIN outputs :
                                      d \notin DOMAIN to[r] \/ outputs[d] > to[r][d]}
                    IN  /\ Total(raw[r].inputs) = SumFunction(outputs)
                        /\ \A d \in DOMAIN to[r] : d \in DOMAIN outputs /\ outputs[d] >= to[r][d]
                        /\ changes \subseteq {Owner(u) : u \in raw[r].inputs}
                        /\ Cardinality(changes) <= 1
  BY DEF ValueConserved
<1> DEFINE outputs == raw[r].outputs
           changes == {d \in DOMAIN outputs : d \notin DOMAIN to[r] \/ outputs[d] > to[r][d]}
           first   == raw[r].initiator
           n       == Change(r)
<1>1. to[r] \in Orders /\ n \in Nat /\ outputs = Outputs(to[r], first, n)
  BY DEF AskedInv, PaidInv
<1>2. /\ SumFunction(outputs) = Need(to[r]) + n
      /\ DOMAIN to[r] \subseteq DOMAIN outputs
      /\ \A d \in DOMAIN outputs : outputs[d] \in Nat \ {0}
      /\ \A d \in DOMAIN to[r] : outputs[d] >= to[r][d]
      /\ \A d \in DOMAIN outputs : d # first => d \in DOMAIN to[r] /\ outputs[d] = to[r][d]
  <2> HIDE DEF outputs, first, n
  <2> QED
    BY <1>1, OutputsFacts
<1>3. Total(raw[r].inputs) = SumFunction(outputs)
  <2>1. Total(raw[r].inputs) \in Nat
    BY TotalFacts DEF AskedInv, Shape
  <2>2. Need(to[r]) \in Nat
    BY <1>1, OrderFacts
  <2> QED
    BY <1>2, <2>1, <2>2 DEF Change
<1>4. first \in {Owner(u) : u \in raw[r].inputs}
  <2>1. Names(utxo, asked[r], raw[r].inputs) /\ first = Head(asked[r]) /\ raw[r].inputs # {}
    BY DEF AskedInv, RawInv
  <2> HIDE DEF first
  <2> QED
    BY <2>1, NamesHead DEF Owner
<1>5. changes \subseteq {first}
  <2>1. \A d \in DOMAIN to[r] : ~(to[r][d] > to[r][d])
    BY <1>1, TransferAssumption
  <2> QED
    BY <1>2, <2>1
<1>6. Cardinality(changes) <= 1
  <2>1. IsFiniteSet({first}) /\ Cardinality({first}) = 1
    BY FS_Singleton
  <2> QED
    BY <1>5, <2>1, FS_Subset
<1> QED
  BY <1>2, <1>3, <1>4, <1>5, <1>6

\* Every raw transaction balances, for any addresses, UTXOs and orders: no fee, each
\* destination gets its amount, and the rest goes back to one owner of an input.
THEOREM ValueIsConserved == Spec => []ValueConserved
<1>1. Init => Shape /\ AskedInv /\ PaidInv
  BY ShapeInit, AskedInit DEF Init, PaidInv
<1>2. Shape /\ AskedInv /\ PaidInv /\ [Next]_vars => (Shape /\ AskedInv /\ PaidInv)'
  BY ShapeStep, AskedStep, PaidStep
<1> QED
  BY <1>1, <1>2, PaidIsConserved, PTL DEF Spec

----------------------------------------------------------------------------
(***************************************************************************)
(* Types.  That the outputs of a transaction are positive, and that it has *)
(* an initiator at all, is known only from the invariants above.           *)
(***************************************************************************)

\* What TypeOK says beyond them.
Rest ==
  /\ locked \in SUBSET Utxo
  /\ spent \in SUBSET Utxo
  /\ creates \in [Request -> 0 .. MaxCreates]
  /\ signed \in [Request -> SUBSET Address]
  /\ submitted \in [Request -> BOOLEAN]
  /\ \A r \in Request : raw[r] # NoTx => raw[r].signs \in 0 .. MaxVerifies
  /\ \A x \in posted : IsRaw(x)

TypeInv == Shape /\ AskedInv /\ PaidInv /\ Rest

\* A transaction that asks and pays as stated is of the type of one.
LEMMA RawIsRaw ==
  ASSUME TypeInv, NEW r \in Request, raw[r] # NoTx
  PROVE  IsRaw(raw[r])
<1> DEFINE first == raw[r].initiator
           outputs == raw[r].outputs
           n == Change(r)
<1>1. to[r] \in Orders /\ n \in Nat /\ outputs = Outputs(to[r], first, n)
  BY DEF TypeInv, AskedInv, PaidInv
<1>2. DOMAIN outputs \subseteq DOMAIN to[r] \cup {first} /\ \A d \in DOMAIN outputs : outputs[d] \in Nat \ {0}
  <2> HIDE DEF outputs, first, n
  <2> QED
    BY <1>1, OutputsFacts
<1>3. first \in Address
  <2>1. Names(utxo, asked[r], raw[r].inputs) /\ first = Head(asked[r]) /\ raw[r].inputs # {}
    BY DEF TypeInv, AskedInv, RawInv
  <2> HIDE DEF first
  <2> QED
    BY <2>1, NamesHead
<1>4. DOMAIN outputs \in SUBSET (Address \cup Destination)
  BY <1>1, <1>2, <1>3 DEF Destination
<1>5. /\ DOMAIN raw[r] = {"inputs", "outputs", "initiator", "signs"}
      /\ raw[r].inputs \in SUBSET Utxo
      /\ raw[r].signs \in 0 .. MaxVerifies
  BY DEF TypeInv, Shape, Rest
<1> QED
  BY <1>2, <1>3, <1>4, <1>5 DEF IsRaw

\* The invariants and the rest make up the type invariant.
LEMMA InvIsTyped == TypeInv => TypeOK
<1> SUFFICES ASSUME TypeInv PROVE TypeOK
  OBVIOUS
<1>1. UtxosTypeOK
  BY DEF TypeInv, Shape, AskedInv, Rest, UtxosTypeOK
<1>2. \A r \in Request : /\ authAddrs[r] \in Seq(Address)
                         /\ asked[r] \in Seq(Address)
                         /\ raw[r] = NoTx \/ IsRaw(raw[r])
  BY RawIsRaw DEF TypeInv, AskedInv, ListInv, RawInv, Names
<1> QED
  BY <1>1, <1>2 DEF TypeOK, TypeInv, Shape, AskedInv, Rest

\* Every step keeps the rest.
LEMMA RestStep == TypeInv /\ [Next]_vars => Rest'
<1> SUFFICES ASSUME TypeInv, [Next]_vars PROVE Rest'
  OBVIOUS
<1> USE DEF Rest
<1>0. Shape /\ AskedInv /\ Rest /\ \A r \in Request : asked[r] \in Seq(Address)
  BY DEF TypeInv, AskedInv, RawInv
<1>1. ASSUME NEW r \in Request, Create(r) PROVE Rest'
  <2>1. creates' \in [Request -> 0 .. MaxCreates]
    BY <1>0, <1>1, TransferAssumption DEF Create
  <2> QED
    BY <1>0, <1>1, <2>1 DEF Create, node
<1>2. ASSUME NEW r \in Request, Collect(r) PROVE Rest'
  <2>1. locked' \in SUBSET Utxo /\ UNCHANGED spent
    BY <1>0, <1>2 DEF Collect, RpcFails, AnswerIsLost, SelectUTXOBySize, Available, node
  <2> QED
    BY <1>0, <1>2, <2>1 DEF Collect
<1>3. ASSUME NEW r \in Request, NotEnough(r) PROVE Rest'
  BY <1>0, <1>3 DEF NotEnough, node
<1>4. ASSUME NEW r \in Request, Build(r) PROVE Rest'
  <2>1. /\ raw'[r].signs = 0
        /\ \A s \in Request \ {r} : raw'[s] = raw[s]
        /\ signed' = [signed EXCEPT ![r] = {}]
        /\ UNCHANGED <<locked, spent, creates, submitted, posted>>
    BY <1>0, <1>4 DEF Build, createRawTransaction, Shape, node
  <2>2. 0 \in 0 .. MaxVerifies
    BY TransferAssumption
  <2> QED
    BY <1>0, <2>1, <2>2
<1>5. ASSUME NEW r \in Request, SignRawTransaction(r) PROVE Rest'
  <2>1. PICK n \in 0 .. Len(asked[r]) :
          signed' = [signed EXCEPT ![r] = @ \cup {asked[r][i] : i \in 1 .. n}]
    BY <1>5 DEF SignRawTransaction
  <2>2. {asked[r][i] : i \in 1 .. n} \in SUBSET Address
    BY <1>0
  <2>3. signed' \in [Request -> SUBSET Address]
    BY <1>0, <2>1, <2>2
  <2> QED
    BY <1>0, <1>5, <2>3 DEF SignRawTransaction, node, call
<1>6. ASSUME NEW r \in Request, VerifyRawTransaction(r) PROVE Rest'
  <2>1. /\ raw[r] # NoTx /\ raw[r].signs < MaxVerifies
        /\ UNCHANGED <<locked, spent, creates, signed, submitted, posted>>
    BY <1>6 DEF VerifyRawTransaction, node, call
  <2>2. raw'[r].signs = raw[r].signs + 1 /\ \A s \in Request \ {r} : raw'[s] = raw[s]
    BY <1>0, <1>6, VerifyEffect
  <2>3. raw'[r].signs \in 0 .. MaxVerifies
    BY <1>0, <2>1, <2>2, TransferAssumption
  <2> QED
    BY <1>0, <2>1, <2>2, <2>3
<1>7. ASSUME NEW r \in Request, SubmitRawTransaction(r) PROVE Rest'
  <2>1. raw[r] # NoTx /\ posted' = posted \cup {raw[r]}
    BY <1>7 DEF SubmitRawTransaction
  <2>2. \A x \in posted' : IsRaw(x)
    BY <1>0, <2>1, RawIsRaw
  <2>3. raw[r].inputs \in SUBSET Utxo
    BY <1>0, <2>1 DEF Shape
  <2>4. spent' \in SUBSET Utxo /\ UNCHANGED locked /\ submitted' \in [Request -> BOOLEAN]
    BY <1>0, <1>7, <2>3 DEF SubmitRawTransaction, RpcFails
  <2> QED
    BY <1>0, <1>7, <2>2, <2>4 DEF SubmitRawTransaction, call
<1>8. CASE LockExpires
  <2>1. locked' \in SUBSET Utxo /\ UNCHANGED spent
    BY <1>0, <1>8 DEF LockExpires, Expire
  <2> QED
    BY <1>0, <1>8, <2>1 DEF LockExpires, call
<1>9. CASE UNCHANGED vars
  BY <1>0, <1>9 DEF vars, node, call
<1> QED
  BY <1>1, <1>2, <1>3, <1>4, <1>5, <1>6, <1>7, <1>8, <1>9 DEF Next, CreateStep

\* The types of the decoder and of the node behind it, in every reachable state.
THEOREM TypeCorrect == Spec => []TypeOK
<1>1. Init => TypeInv
  <2>1. 0 \in 0 .. MaxCreates
    BY TransferAssumption
  <2> QED
    BY <2>1, ShapeInit, AskedInit DEF Init, UtxosInit, PaidInv, Rest, TypeInv
<1>2. TypeInv /\ [Next]_vars => TypeInv'
  BY ShapeStep, AskedStep, PaidStep, RestStep DEF TypeInv
<1> QED
  BY <1>1, <1>2, InvIsTyped, PTL DEF Spec
=============================================================================
