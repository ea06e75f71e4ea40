---------------------------- MODULE ContractProofs ----------------------------
(***************************************************************************)
(* Proofs about the contract decoder, for any raw transactions, wallets,   *)
(* access control lists and bounds.                                        *)
(***************************************************************************)
EXTENDS Contract, FiniteSetTheorems, FunctionTheorems, TLAPS

----------------------------------------------------------------------------
\* The order the signatures are verified in.

\* The positions of 1..n that come no later than i when rank goes first.
UpTo(n, rank, i) == {j \in 1 .. n : rank[j] < rank[i] \/ (rank[j] = rank[i] /\ j <= i)}

\* Counting them numbers the positions: each gets a number of its own, and every
\* number from 1 to n is given.
LEMMA RanksNumber ==
  ASSUME NEW n \in Nat, NEW rank \in [1 .. n -> Int]
  PROVE  /\ \A i \in 1 .. n : Cardinality(UpTo(n, rank, i)) \in 1 .. n
         /\ \A i, j \in 1 .. n : Cardinality(UpTo(n, rank, i)) = Cardinality(UpTo(n, rank, j)) => i = j
         /\ \A k \in 1 .. n : \E i \in 1 .. n : Cardinality(UpTo(n, rank, i)) = k
<1> DEFINE place == [i \in 1 .. n |-> Cardinality(UpTo(n, rank, i))]
<1>1. IsFiniteSet(1 .. n) /\ Cardinality(1 .. n) = n
  BY FS_Interval
<1>2. ASSUME NEW i \in 1 .. n
      PROVE  /\ UpTo(n, rank, i) \in SUBSET (1 .. n) /\ i \in UpTo(n, rank, i)
             /\ IsFiniteSet(UpTo(n, rank, i)) /\ Cardinality(UpTo(n, rank, i)) \in 1 .. n
  <2>1. UpTo(n, rank, i) \in SUBSET (1 .. n) /\ i \in UpTo(n, rank, i)
    BY DEF UpTo
  <2>2. IsFiniteSet(UpTo(n, rank, i)) /\ Cardinality(UpTo(n, rank, i)) <= n
    BY <1>1, <2>1, FS_Subset
  <2>3. Cardinality(UpTo(n, rank, i)) \in Nat /\ Cardinality(UpTo(n, rank, i)) # 0
    BY <2>1, <2>2, FS_CardinalityType, FS_EmptySet
  <2> QED
    BY <2>1, <2>2, <2>3
<1>3. ASSUME NEW i \in 1 .. n, NEW j \in 1 .. n, i # j, j \in UpTo(n, rank, i)
      PROVE  place[i] # place[j]
  <2>1. UpTo(n, rank, j) \in SUBSET UpTo(n, rank, i)
    BY <1>3 DEF UpTo
  <2>2. i \notin UpTo(n, rank, j)
    BY <1>3 DEF UpTo
  <2>3. UpTo(n, rank, j) # UpTo(n, rank, i)
    BY <1>2, <2>2
  <2> QED
    BY <1>2, <2>1, <2>3, FS_Subset
<1>4. ASSUME NEW i \in 1 .. n, NEW j \in 1 .. n, i # j
      PROVE  j \in UpTo(n, rank, i) \/ i \in UpTo(n, rank, j)
  BY <1>4 DEF UpTo
<1>5. place \in [1 .. n -> 1 .. n]
  BY <1>2
<1>6. \A i, j \in 1 .. n : place[i] = place[j] => i = j
  BY <1>3, <1>4
<1>7. place \in Injection(1 .. n, 1 .. n)
  BY <1>5, <1>6, Fun_IsInj
<1>8. \A k \in 1 .. n : \E i \in 1 .. n : place[i] = k
  <2> HIDE DEF place
  <2>1. place \in Surjection(1 .. n, 1 .. n)
    BY <1>1, <1>7, FS_Injection
  <2> QED
    BY <2>1 DEF Surjection
<1> QED
  BY <1>2, <1>6, <1>8

\* An entry with its owner in the wallet has a rank.
Owned(es) == \A j \in DOMAIN es : owner[es[j].address] \in Account

\* The rank of an entry is a number.
LEMMA RankType ==
  ASSUME NEW es, Owned(es), NEW o \in AccountOrders, NEW j \in DOMAIN es
  PROVE  o[owner[es[j].address]] \in Int
<1>1. o \in [Account -> 1 .. Cardinality(Account)]
  BY Fun_BijectionProperties DEF AccountOrders
<1>2. Cardinality(Account) \in Nat
  BY ContractAssumption, FS_CardinalityType
<1> QED
  BY <1>1, <1>2 DEF Owned

\* Place numbers the entries.
LEMMA PlaceNumbers ==
  ASSUME NEW S, NEW es \in Seq(S), Owned(es), NEW o \in AccountOrders
  PROVE  /\ \A i \in DOMAIN es : Place(es, o, i) \in DOMAIN es
         /\ \A i, j \in DOMAIN es : Place(es, o, i) = Place(es, o, j) => i = j
         /\ \A k \in DOMAIN es : \E i \in DOMAIN es : Place(es, o, i) = k
<1> DEFINE n == Len(es)
           rank == [j \in 1 .. n |-> o[owner[es[j].address]]]
<1>1. n \in Nat /\ DOMAIN es = 1 .. n
  OBVIOUS
<1>2. rank \in [1 .. n -> Int]
  BY <1>1, RankType
<1>3. ASSUME NEW i \in 1 .. n PROVE Place(es, o, i) = Cardinality(UpTo(n, rank, i))
  <2>1. UpTo(n, rank, i) = {j \in DOMAIN es :
          \/ o[owner[es[j].address]] < o[owner[es[i].address]]
          \/ o[owner[es[j].address]] = o[owner[es[i].address]] /\ j <= i}
    BY <1>1 DEF UpTo
  <2> QED
    BY <2>1 DEF Place
<1> HIDE DEF rank, n
<1> QED
  BY <1>1, <1>2, <1>3, RanksNumber

\* Verification neither loses nor duplicates a signature: the entries in their
\* order are the entries.
LEMMA InOrderPermutes ==
  ASSUME NEW S, NEW es \in Seq(S), Owned(es), NEW o \in AccountOrders
  PROVE  /\ InOrder(es, o) \in Seq(S)
         /\ Len(InOrder(es, o)) = Len(es)
         /\ \A i \in DOMAIN es : \E k \in DOMAIN es : InOrder(es, o)[k] = es[i]
         /\ \A k \in DOMAIN es : \E i \in DOMAIN es : InOrder(es, o)[k] = es[i]
<1> DEFINE from(k) == CHOOSE i \in DOMAIN es : Place(es, o, i) = k
<1>1. DOMAIN es = 1 .. Len(es) /\ Len(es) \in Nat /\ \A i \in DOMAIN es : es[i] \in S
  OBVIOUS
<1>2. ASSUME NEW k \in DOMAIN es PROVE from(k) \in DOMAIN es /\ Place(es, o, from(k)) = k
  BY <1>2, PlaceNumbers
<1>3. \A i \in DOMAIN es : from(Place(es, o, i)) = i /\ Place(es, o, i) \in DOMAIN es
  BY <1>2, PlaceNumbers
<1> HIDE DEF from
<1>4. InOrder(es, o) = [k \in DOMAIN es |-> es[from(k)]]
  BY DEF InOrder, from
<1>5. InOrder(es, o) \in Seq(S) /\ Len(InOrder(es, o)) = Len(es)
  BY <1>1, <1>2, <1>4
<1> QED
  BY <1>2, <1>3, <1>4, <1>5

\* Entries of one account keep their order.
LEMMA InOrderKeeps ==
  ASSUME NEW S, NEW es \in Seq(S), Owned(es), NEW o \in AccountOrders,
         \A i, j \in DOMAIN es : owner[es[i].address] = owner[es[j].address]
  PROVE  InOrder(es, o) = es
<1>1. DOMAIN es = 1 .. Len(es) /\ Len(es) \in Nat /\ es = [k \in DOMAIN es |-> es[k]]
  OBVIOUS
<1>2. ASSUME NEW i \in DOMAIN es PROVE Place(es, o, i) = i
  <2>1. {j \in DOMAIN es :
          \/ o[owner[es[j].address]] < o[owner[es[i].address]]
          \/ o[owner[es[j].address]] = o[owner[es[i].address]] /\ j <= i} = 1 .. i
    BY <1>1, RankType
  <2>2. Cardinality(1 .. i) = i
    BY <1>1, FS_Interval
  <2> QED
    BY <2>1, <2>2 DEF Place
<1>3. ASSUME NEW k \in DOMAIN es PROVE (CHOOSE i \in DOMAIN es : Place(es, o, i) = k) = k
  BY <1>2
<1> QED
  BY <1>1, <1>3 DEF InOrder

----------------------------------------------------------------------------
\* What the proofs keep of each raw transaction.  TypeOK is not inductive: that
\* a transaction is posted, and an account signs, depends on these.

Calling == {"post", "await", "ask", "sleep"}

\* The signature the node wants at each place of AuthRequire.
Required(tx) ==
  [i \in DOMAIN tx.authRequire |-> [address |-> tx.authRequire[i], message |-> tx.digest]]

\* A raw transaction that was created has entries for what its transaction
\* requires; one that was not has none.
IsCreated(r) ==
  /\ created[r] = 0 => signatures[r] = <<>> /\ ~isCompleted[r]
  /\ created[r] > 0 => /\ raw[r] \in Txs /\ raw[r].digest.raw = r
                       /\ raw[r].authRequire # <<>> /\ signatures[r] # <<>>
                       /\ \A i \in DOMAIN raw[r].authRequire : \E j \in DOMAIN signatures[r] :
                            SignInfos(signatures[r])[j] = Required(raw[r])[i]
  /\ pc[r] \in Calling => created[r] > 0

\* Only an account of the wallet has signed.
IsOwned(r) ==
  \A i \in DOMAIN signatures[r] :
    signatures[r][i].signed => owner[signatures[r][i].address] \in Account

\* What was created once asks for the required signatures only, and has none put
\* into it before it is submitted.
IsFirst(r) ==
  created[r] = 1 =>
    /\ SignInfos(signatures[r]) = Required(raw[r])
    /\ \E i \in DOMAIN raw[r].authRequire : raw[r].authRequire[i] = DefAddress
    /\ submitted[r] = 0 => raw[r].authRequireSigns = <<>> /\ raw[r].initiatorSigns = {}

\* What was completed and not created again still verifies.
IsVerified(r) == created[r] <= 1 /\ isCompleted[r] => Verifies(r)

\* Once a transaction of r was accepted, any other has too many signatures, or
\* will have when those of r are appended to it.
Coming(r) == IF pc[r] = "post" THEN 0 ELSE Len(signatures[r])

TooManySigns(r) ==
  Len(raw[r].authRequireSigns) + Coming(r) > Len(raw[r].authRequire)

IsSpent(r) ==
  (\E tx \in accepted : tx.digest.raw = r) => created[r] > 0 /\ TooManySigns(r)

\* The call that awaits a receipt awaits that of the transaction it posted.
IsAwaited(r) ==
  /\ pc[r] \in Calling => receipt[r] = NoTx
  /\ pc[r] \in Calling \ {"post"} => txID[r] \in Txs /\ txID[r].digest.raw = r

\* The properties, of one raw transaction.
IsSent(r) ==
  pc[r] = "post" =>
    /\ \A i \in DOMAIN raw[r].authRequire : Required(raw[r])[i] \in Range(raw[r].authRequireSigns)
    /\ created[r] = 1 /\ submitted[r] = 1 /\ OneAccount(r) => WellSigned(raw[r])

IsExecuted(r) ==
  \A tx1, tx2 \in accepted : tx1.digest.raw = r /\ tx2.digest.raw = r => tx1 = tx2

IsReported(r) ==
  budget["lost"] = MaxLostAnswers =>
    \A tx \in accepted : tx.digest.raw = r => isSubmit[r] /\ txID[r] = tx

IsReceipt(r) ==
  receipt[r] # NoTx => receipt[r] \in confirmed /\ receipt[r] = txID[r] /\ receipt[r].digest.raw = r

IsExplained(r) == pc[r] = "panicked" => created[r] > 1 \/ (r \in Deploys /\ ~AclKnown)

Sound(r) == /\ IsCreated(r) /\ IsOwned(r) /\ IsFirst(r) /\ IsVerified(r) /\ IsSpent(r) /\ IsAwaited(r)
            /\ IsSent(r) /\ IsExecuted(r) /\ IsReported(r) /\ IsReceipt(r) /\ IsExplained(r)

IInv == TypeOK /\ budget["lost"] <= MaxLostAnswers /\ \A r \in Raw : Sound(r)

----------------------------------------------------------------------------
\* The operators of creation and verification.

\* AuthRequire ends with the default address, and each of its addresses gets an
\* entry.
LEMMA CreateFacts ==
  ASSUME NEW r \in Raw, NEW auth \in AuthRequires(r), NEW digest \in Digests
  PROVE  /\ auth \in Seq(Addr) /\ Len(auth) > 0 /\ auth[Len(auth)] = DefAddress
         /\ KeySignatures(auth, digest) \in Seq(Entries)
         /\ Len(KeySignatures(auth, digest)) = Len(auth)
         /\ \A i \in 1 .. Len(auth) :
              KeySignatures(auth, digest)[i] = [address |-> auth[i], message |-> digest, signed |-> FALSE]
<1>1. auth \in Seq(Addr) /\ Len(auth) > 0 /\ auth[Len(auth)] = DefAddress
  <2>1. CASE r \in Deploys
    <3>1. PICK keys \in Bijection(1 .. Cardinality(AclKeys), AclKeys) : auth = Append(keys, DefAddress)
      BY <2>1 DEF AuthRequires
    <3>2. keys \in [1 .. Cardinality(AclKeys) -> AclKeys]
      BY Fun_BijectionProperties
    <3>3. Cardinality(AclKeys) \in Nat /\ AclKeys \subseteq Addr /\ DefAddress \in Addr
      BY ContractAssumption, FS_CardinalityType
    <3>4. keys \in Seq(Addr)
      BY <3>2, <3>3
    <3> QED
      BY <3>1, <3>3, <3>4
  <2>2. CASE r \notin Deploys
    <3>1. auth = <<DefAddress>> /\ DefAddress \in Addr
      BY <2>2, ContractAssumption DEF AuthRequires
    <3>2. auth \in Seq(Addr) /\ Len(auth) = 1 /\ auth[1] = DefAddress
      BY <3>1
    <3> QED
      BY <3>2
  <2> QED
    BY <2>1, <2>2
<1>2. \A i \in 1 .. Len(auth) : [address |-> auth[i], message |-> digest, signed |-> FALSE] \in Entries
  BY <1>1 DEF Entries
<1>3. KeySignatures(auth, digest) =
        [i \in 1 .. Len(auth) |-> [address |-> auth[i], message |-> digest, signed |-> FALSE]]
  BY <1>1 DEF KeySignatures
<1>4. Len(auth) \in Nat
  BY <1>1
<1> QED
  BY <1>1, <1>2, <1>3, <1>4

\* A verified transaction carries its earlier signatures and one for every entry.
LEMMA WithSignsFacts ==
  ASSUME NEW tx \in Txs, NEW es \in Seq(Entries), Owned(es), NEW o \in AccountOrders
  PROVE  LET new == WithSigns(tx, InOrder(es, o))
         IN  /\ new \in Txs
             /\ new.digest = tx.digest /\ new.authRequire = tx.authRequire
             /\ Len(new.authRequireSigns) = Len(tx.authRequireSigns) + Len(es)
             /\ \A i \in DOMAIN es : SignInfos(es)[i] \in Range(new.authRequireSigns)
<1> DEFINE infos == SignInfos(InOrder(es, o))
           new == WithSigns(tx, InOrder(es, o))
<1>1. /\ InOrder(es, o) \in Seq(Entries) /\ Len(InOrder(es, o)) = Len(es)
      /\ \A i \in DOMAIN es : \E k \in DOMAIN es : InOrder(es, o)[k] = es[i]
  BY InOrderPermutes
<1>2. infos \in Seq(Signs) /\ Len(infos) = Len(es)
  <2>1. \A i \in 1 .. Len(es) : InOrder(es, o)[i] \in Entries
    BY <1>1
  <2>2. \A i \in 1 .. Len(es) :
          [address |-> InOrder(es, o)[i].address, message |-> InOrder(es, o)[i].message] \in Signs
    BY <2>1 DEF Entries, Signs
  <2> QED
    BY <1>1, <2>2 DEF SignInfos
<1>3. tx.authRequireSigns \in Seq(Signs) /\ tx.initiatorSigns \in SUBSET Signs
  BY DEF Txs
<1>4. {s \in Range(infos) : s.address = DefAddress} \subseteq Signs
  BY <1>2 DEF Range
<1>5. /\ new.authRequireSigns = tx.authRequireSigns \o infos
      /\ new.initiatorSigns = tx.initiatorSigns \cup {s \in Range(infos) : s.address = DefAddress}
      /\ new.digest = tx.digest /\ new.authRequire = tx.authRequire /\ new.reads = tx.reads
  BY DEF WithSigns, Txs
<1>6. new \in Txs
  <2>1. \A a \in Seq(Signs), b \in SUBSET Signs :
          [tx EXCEPT !.authRequireSigns = a, !.initiatorSigns = b] \in Txs
    BY DEF Txs
  <2>2. new.authRequireSigns \in Seq(Signs) /\ new.initiatorSigns \in SUBSET Signs
    <3> HIDE DEF infos, new
    <3> QED
      BY <1>2, <1>3, <1>4, <1>5
  <2>3. new = [tx EXCEPT !.authRequireSigns = tx.authRequireSigns \o infos,
                        !.initiatorSigns = tx.initiatorSigns \cup
                          {s \in Range(infos) : s.address = DefAddress}]
    BY DEF WithSigns
  <2> HIDE DEF new, infos
  <2> QED
    BY <1>5, <2>1, <2>2, <2>3
<1>7. ASSUME NEW i \in DOMAIN es PROVE SignInfos(es)[i] \in Range(new.authRequireSigns)
  <2>1. PICK k \in DOMAIN es : InOrder(es, o)[k] = es[i]
    BY <1>1
  <2>2. k \in 1 .. Len(es) /\ infos[k] = SignInfos(es)[i]
    BY <1>1, <2>1 DEF SignInfos
  <2> HIDE DEF infos, new
  <2>3. /\ Len(tx.authRequireSigns) + k \in DOMAIN new.authRequireSigns
        /\ new.authRequireSigns[Len(tx.authRequireSigns) + k] = infos[k]
    BY <1>2, <1>3, <1>5, <2>2
  <2> QED
    BY <2>2, <2>3 DEF Range
<1>8. Len(new.authRequireSigns) = Len(tx.authRequireSigns) + Len(es)
  <2> HIDE DEF infos, new
  <2>1. \A u, v \in Seq(Signs) : Len(u \o v) = Len(u) + Len(v)
    OBVIOUS
  <2>2. Len(tx.authRequireSigns \o infos) = Len(tx.authRequireSigns) + Len(infos)
    BY <1>2, <1>3, <2>1
  <2> QED
    BY <1>2, <1>5, <2>2
<1> QED
  BY <1>5, <1>6, <1>7, <1>8

\* The signatures of one account are appended in the order of AuthRequire.
LEMMA OneAccountSigns ==
  ASSUME NEW tx \in Txs, NEW es \in Seq(Entries), Owned(es), NEW o \in AccountOrders,
         SignInfos(es) = Required(tx), tx.authRequireSigns = <<>>, tx.initiatorSigns = {},
         \E i \in DOMAIN tx.authRequire : tx.authRequire[i] = DefAddress,
         \A i, j \in DOMAIN tx.authRequire : owner[tx.authRequire[i]] = owner[tx.authRequire[j]]
  PROVE  WellSigned(WithSigns(tx, InOrder(es, o)))
<1> DEFINE new == WithSigns(tx, InOrder(es, o))
<1>1. DOMAIN es = DOMAIN tx.authRequire
      /\ \A i \in DOMAIN es : es[i].address = tx.authRequire[i] /\ es[i].message = tx.digest
  <2>1. DOMAIN es = DOMAIN SignInfos(es) /\ DOMAIN Required(tx) = DOMAIN tx.authRequire
    BY DEF SignInfos, Required
  <2>2. \A i \in DOMAIN es : /\ SignInfos(es)[i] = [address |-> es[i].address, message |-> es[i].message]
                             /\ Required(tx)[i] = [address |-> tx.authRequire[i], message |-> tx.digest]
    BY <2>1 DEF SignInfos, Required
  <2>3. \A i \in DOMAIN es : SignInfos(es)[i] = Required(tx)[i]
    OBVIOUS
  <2>4. \A i \in DOMAIN es :
          [address |-> es[i].address, message |-> es[i].message]
            = [address |-> tx.authRequire[i], message |-> tx.digest]
    BY <2>2, <2>3
  <2>5. \A i \in DOMAIN es : es[i].address = tx.authRequire[i] /\ es[i].message = tx.digest
    BY <2>4
  <2> QED
    BY <2>1, <2>5
<1>2. InOrder(es, o) = es
  BY <1>1, InOrderKeeps
<1>3. Required(tx) \in Seq(Signs)
  <2>1. tx.authRequire \in Seq(Addr) /\ tx.digest \in Digests
    BY DEF Txs
  <2>2. \A i \in 1 .. Len(tx.authRequire) :
          [address |-> tx.authRequire[i], message |-> tx.digest] \in Signs
    BY <2>1 DEF Signs
  <2>3. Required(tx) = [i \in 1 .. Len(tx.authRequire) |->
                         [address |-> tx.authRequire[i], message |-> tx.digest]]
    BY <2>1 DEF Required
  <2>4. Len(tx.authRequire) \in Nat
    BY <2>1
  <2> DEFINE sign(i) == [address |-> tx.authRequire[i], message |-> tx.digest]
  <2>5. \A i \in 1 .. Len(tx.authRequire) : sign(i) \in Signs
    BY <2>2
  <2>6. Required(tx) = [i \in 1 .. Len(tx.authRequire) |-> sign(i)]
    BY <2>3
  <2> HIDE DEF sign
  <2>7. [i \in 1 .. Len(tx.authRequire) |-> sign(i)] \in Seq(Signs)
    BY <2>4, <2>5
  <2> QED
    BY <2>6, <2>7
<1>4. /\ new.authRequireSigns = Required(tx)
      /\ new.initiatorSigns = {s \in Range(Required(tx)) : s.address = DefAddress}
      /\ new.digest = tx.digest /\ new.authRequire = tx.authRequire
  BY <1>2, <1>3 DEF WithSigns, Txs
<1>5. \A s \in Range(Required(tx)) : s = [address |-> s.address, message |-> tx.digest]
  BY DEF Range, Required
<1>6. [address |-> DefAddress, message |-> tx.digest] \in Range(Required(tx))
  BY DEF Range, Required
<1>7. new.initiatorSigns = {[address |-> DefAddress, message |-> tx.digest]}
  BY <1>4, <1>5, <1>6
<1> HIDE DEF new
<1> QED
  BY <1>4, <1>7 DEF WellSigned, Required, new

----------------------------------------------------------------------------
\* Types.

\* The environment is allowed a number of each kind of failure.
LEMMA AllowanceType == Allowance \in [Kinds -> Nat] /\ Allowance["lost"] = MaxLostAnswers
  BY ContractAssumption DEF Allowance, Kinds

\* Spending one leaves a number, and fewer of that kind.
LEMMA SpendFacts ==
  ASSUME budget \in [Kinds -> Nat], NEW k \in Kinds, Spend(k)
  PROVE  /\ budget' \in [Kinds -> Nat] /\ budget'[k] = budget[k] - 1
         /\ \A j \in Kinds : j # k => budget'[j] = budget[j]
  BY DEF Spend

\* The deadline is a time.
LEMMA DeadlineType == Deadline \in Nat /\ SleepSecond \in Nat
  BY ContractAssumption DEF Deadline

\* What verifies has its owners in the wallet.
LEMMA VerifiedIsOwned ==
  ASSUME NEW r \in Raw, IsOwned(r), Verifies(r)
  PROVE  Owned(signatures[r])
  BY DEF IsOwned, Verifies, Owned

\* The first states are typed.
LEMMA TypeInit == Init => TypeOK
  BY AllowanceType, DeadlineType, ContractAssumption DEF Init, TypeOK

\* A created transaction is typed, and so are the signatures of its raw
\* transaction.
LEMMA CreateType ==
  ASSUME TypeOK, NEW r \in Raw, Create(r)
  PROVE  TypeOK'
<1> DEFINE digest == [raw |-> r, nonce |-> created[r] + 1]
<1>1. digest \in Digests /\ created[r] + 1 \in 0 .. MaxCreates
  BY ContractAssumption DEF TypeOK, Create, Digests
<1>2. PICK auth \in AuthRequires(r) :
        /\ raw' = [raw EXCEPT ![r] =
                    [digest |-> digest, authRequire |-> auth, reads |-> version,
                     initiatorSigns |-> {}, authRequireSigns |-> <<>>]]
        /\ signatures' = [signatures EXCEPT ![r] = @ \o KeySignatures(auth, digest)]
  BY DEF Create
<1> HIDE DEF digest
<1>3. auth \in Seq(Addr) /\ KeySignatures(auth, digest) \in Seq(Entries)
  BY <1>1, CreateFacts
<1>4. raw' \in [Raw -> Txs \cup {NoTx}]
  <2>1. [digest |-> digest, authRequire |-> auth, reads |-> version,
         initiatorSigns |-> {}, authRequireSigns |-> <<>>] \in Txs
    BY <1>1, <1>3 DEF Txs, TypeOK
  <2> QED
    BY <1>2, <2>1 DEF TypeOK
<1>5. signatures' \in [Raw -> Seq(Entries)]
  <2>1. signatures[r] \o KeySignatures(auth, digest) \in Seq(Entries)
    BY <1>3 DEF TypeOK
  <2> QED
    BY <1>2, <2>1 DEF TypeOK
<1>6. created' \in [Raw -> 0 .. MaxCreates]
  BY <1>1 DEF Create, TypeOK
<1> QED
  BY <1>4, <1>5, <1>6 DEF Create, TypeOK, rawTx, call, node

\* Signing keeps the entries.
LEMMA SignFacts ==
  ASSUME TypeOK, NEW r \in Raw, NEW a \in Account, Sign(r, a)
  PROVE  /\ TypeOK'
         /\ Len(signatures'[r]) = Len(signatures[r])
         /\ DOMAIN signatures'[r] = DOMAIN signatures[r]
         /\ SignInfos(signatures'[r]) = SignInfos(signatures[r])
         /\ \A i \in DOMAIN signatures[r] :
              /\ signatures'[r][i].address = signatures[r][i].address
              /\ signatures[r][i].signed => signatures'[r][i].signed
              /\ signatures'[r][i].signed =>
                   signatures[r][i].signed \/ owner[signatures[r][i].address] \in Account
<1> DEFINE es == signatures[r]
           new == [i \in DOMAIN es |-> IF owner[es[i].address] = a THEN [es[i] EXCEPT !.signed = TRUE] ELSE es[i]]
<1>1. es \in Seq(Entries)
  BY DEF TypeOK
<1>2. signatures' = [signatures EXCEPT ![r] = new] /\ UNCHANGED <<owner, raw, isCompleted, isSubmit, txID, call, node, count, budget>>
  BY DEF Sign
<1>3. ASSUME NEW i \in DOMAIN es
      PROVE  /\ new[i] \in Entries
             /\ new[i].address = es[i].address /\ new[i].message = es[i].message
             /\ es[i].signed => new[i].signed
             /\ new[i].signed => es[i].signed \/ owner[es[i].address] \in Account
  <2>1. es[i] \in Entries
    BY <1>1
  <2>2. new[i] = IF owner[es[i].address] = a THEN [es[i] EXCEPT !.signed = TRUE] ELSE es[i]
    OBVIOUS
  <2> HIDE DEF new, es
  <2> QED
    BY <2>1, <2>2 DEF Entries
<1>4. DOMAIN new = DOMAIN es
  OBVIOUS
<1>5. signatures'[r] = new
  BY <1>2 DEF TypeOK
<1> HIDE DEF new
<1>6. new \in Seq(Entries) /\ Len(new) = Len(es)
  <2>1. DOMAIN es = 1 .. Len(es) /\ Len(es) \in Nat
    BY <1>1
  <2>2. new = [i \in 1 .. Len(es) |-> new[i]]
    BY <1>4, <2>1 DEF new
  <2> HIDE DEF es
  <2> QED
    BY <1>3, <2>1, <2>2
<1>7. SignInfos(new) = SignInfos(es)
  BY <1>3, <1>4 DEF SignInfos
<1>8. TypeOK'
  BY <1>2, <1>6 DEF TypeOK, call, node, count
<1> QED
  BY <1>3, <1>4, <1>5, <1>6, <1>7, <1>8

\* The verified transaction is typed.
LEMMA SubmitType ==
  ASSUME TypeOK, NEW r \in Raw, Sound(r), SubmitVerified(r)
  PROVE  TypeOK'
<1>1. PICK o \in AccountOrders : raw' = [raw EXCEPT ![r] = WithSigns(raw[r], InOrder(signatures[r], o))]
  BY DEF SubmitVerified
<1>2. raw[r] \in Txs
  BY DEF SubmitVerified, Verifies, Sound, IsCreated, TypeOK
<1>3. signatures[r] \in Seq(Entries) /\ Owned(signatures[r])
  BY VerifiedIsOwned DEF SubmitVerified, Sound, TypeOK
<1>4. WithSigns(raw[r], InOrder(signatures[r], o)) \in Txs
  BY <1>2, <1>3, WithSignsFacts
<1>5. raw' \in [Raw -> Txs \cup {NoTx}]
  BY <1>1, <1>4 DEF TypeOK
<1>6. submitted' \in [Raw -> 0 .. MaxSubmits]
  BY ContractAssumption DEF SubmitVerified, TypeOK
<1> QED
  BY <1>5, <1>6 DEF SubmitVerified, TypeOK, node

\* Every step keeps the types.
LEMMA TypeStep == IInv /\ [Next]_vars => TypeOK'
<1> SUFFICES ASSUME IInv, [Next]_vars PROVE TypeOK'
  OBVIOUS
<1> USE DEF IInv
<1>1. ASSUME NEW r \in Raw, Use(r) PROVE TypeOK'
  <2>1. CASE CreateFails(r)
    BY <2>1, SpendFacts DEF CreateFails, TypeOK, rawTx, call, node, count, Kinds
  <2>2. CASE CreatePanics(r)
    BY <2>2 DEF CreatePanics, TypeOK, rawTx, node, count
  <2>3. CASE SubmitUnverified(r)
    BY <2>3, ContractAssumption DEF SubmitUnverified, TypeOK, rawTx, node
  <2> QED
    BY <1>1, <2>1, <2>2, <2>3, CreateType, SignFacts, SubmitType DEF Use
<1>2. ASSUME NEW r \in Raw, Proceed(r) PROVE TypeOK'
  <2>a. pc[r] = "post" => raw[r] \in Txs
    BY DEF Sound, IsCreated, Calling, TypeOK
  <2>1. CASE Posted(r)
    <3>1. pc' \in [Raw -> {"idle", "post", "await", "ask", "sleep", "panicked"}]
          /\ expires' \in [Raw -> 0 .. Deadline]
      <4>1. CASE Return(r)
        BY <4>1, DeadlineType DEF Return, TypeOK
      <4>2. CASE pc' = [pc EXCEPT ![r] = "await"] /\ expires' = [expires EXCEPT ![r] = Deadline]
        BY <4>2, DeadlineType DEF TypeOK
      <4> QED
        BY <2>1, <4>1, <4>2 DEF Posted
    <3>2. accepted' \subseteq Txs /\ confirmed' \subseteq accepted' /\ version' \in Nat
      BY <2>1, <2>a DEF Posted, NodeTakes, TypeOK
    <3>3. txID' \in [Raw -> Txs \cup {NoTx}] /\ isSubmit' \in [Raw -> BOOLEAN]
      BY <2>1, <2>a DEF Posted, TypeOK
    <3> QED
      BY <2>1, <3>1, <3>2, <3>3 DEF Posted, TypeOK, count
  <2>2. CASE PostedUnheard(r)
    BY <2>2, <2>a, DeadlineType, SpendFacts DEF PostedUnheard, NodeTakes, Return, TypeOK, rawTx, count, Kinds
  <2>3. CASE PostFails(r)
    BY <2>3, DeadlineType, SpendFacts DEF PostFails, Return, TypeOK, rawTx, node, count, Kinds
  <2>4. CASE AwaitExpires(r)
    BY <2>4, DeadlineType DEF AwaitExpires, Return, TypeOK, rawTx, node, count
  <2>5. CASE AwaitAsks(r)
    BY <2>5 DEF AwaitAsks, TypeOK, rawTx, node, count
  <2>6. CASE AskFails(r)
    BY <2>6, SpendFacts DEF AskFails, TypeOK, rawTx, node, count, Kinds
  <2>7. CASE AskAnswers(r)
    BY <2>7, DeadlineType DEF AskAnswers, Return, TypeOK, rawTx, node, count
  <2>8. CASE AskFindsNothing(r)
    BY <2>8, DeadlineType DEF AskFindsNothing, TypeOK, rawTx, node, count
  <2>9. CASE Wake(r)
    BY <2>9 DEF Wake, TypeOK, rawTx, node, count
  <2> QED
    BY <1>2, <2>1, <2>2, <2>3, <2>4, <2>5, <2>6, <2>7, <2>8, <2>9 DEF Proceed
<1>3. CASE Confirm
  BY <1>3 DEF Confirm, TypeOK, rawTx, call, count
<1>4. CASE Tick
  <2>1. Less(expires) \in [Raw -> 0 .. Deadline] /\ Less(sleeps) \in [Raw -> 0 .. SleepSecond]
    BY DeadlineType DEF Less, TypeOK
  <2> QED
    BY <1>4, <2>1 DEF Tick, TypeOK, rawTx, node, count
<1>5. CASE UNCHANGED vars
  BY <1>5 DEF vars, TypeOK, rawTx, call, node, count
<1> QED
  BY <1>1, <1>2, <1>3, <1>4, <1>5 DEF Next

----------------------------------------------------------------------------
\* The strengthened invariant.

\* A raw transaction that a step does not touch stays sound.
LEMMA Untouched ==
  ASSUME NEW q \in Raw, Sound(q), UNCHANGED owner,
         raw'[q] = raw[q], signatures'[q] = signatures[q], isCompleted'[q] = isCompleted[q],
         isSubmit'[q] = isSubmit[q], txID'[q] = txID[q], pc'[q] = pc[q],
         receipt'[q] = receipt[q], created'[q] = created[q], submitted'[q] = submitted[q],
         \A tx \in accepted' : tx \in accepted \/ tx.digest.raw # q,
         confirmed \subseteq confirmed',
         budget'["lost"] = MaxLostAnswers => budget["lost"] = MaxLostAnswers
  PROVE  Sound(q)'
<1>1. (IsCreated(q) /\ IsOwned(q) /\ IsFirst(q) /\ IsVerified(q))'
  BY DEF Sound, IsCreated, IsOwned, IsFirst, IsVerified, Verifies
<1>2. (IsSpent(q) /\ IsAwaited(q))'
  BY DEF Sound, IsSpent, TooManySigns, Coming, IsAwaited
<1>3. (IsSent(q) /\ IsExecuted(q))'
  BY DEF Sound, IsSent, OneAccount, IsExecuted
<1>4. (IsReported(q) /\ IsReceipt(q) /\ IsExplained(q))'
  BY DEF Sound, IsReported, IsReceipt, IsExplained, AclKnown
<1> QED
  BY <1>1, <1>2, <1>3, <1>4 DEF Sound

\* The first states are sound.
LEMMA SoundInit == Init => \A r \in Raw : Sound(r)
  BY DEF Init, Sound, IsCreated, IsOwned, IsFirst, IsVerified, IsSpent, IsAwaited, IsSent,
    IsExecuted, IsReported, IsReceipt, IsExplained, Calling

\* Creation: the new transaction requires the new entries, and those left from
\* before are too many for it.
LEMMA CreateStep ==
  ASSUME IInv, NEW r \in Raw, Create(r)
  PROVE  Sound(r)'
<1> DEFINE digest == [raw |-> r, nonce |-> created[r] + 1]
<1>1. digest \in Digests /\ digest.raw = r
  BY ContractAssumption DEF IInv, TypeOK, Create, Digests
<1>2. PICK auth \in AuthRequires(r) :
        /\ raw' = [raw EXCEPT ![r] =
                    [digest |-> digest, authRequire |-> auth, reads |-> version,
                     initiatorSigns |-> {}, authRequireSigns |-> <<>>]]
        /\ signatures' = [signatures EXCEPT ![r] = @ \o KeySignatures(auth, digest)]
  BY DEF Create
<1>3. /\ pc[r] = "idle" /\ created' = [created EXCEPT ![r] = @ + 1] /\ created[r] \in Nat
      /\ UNCHANGED <<owner, isCompleted, isSubmit, txID, pc, receipt, accepted, confirmed, submitted, budget>>
  BY DEF Create, call, node, IInv, TypeOK
<1> HIDE DEF digest
<1> DEFINE new == KeySignatures(auth, digest)
<1>4. /\ auth \in Seq(Addr) /\ Len(auth) > 0 /\ auth[Len(auth)] = DefAddress
      /\ new \in Seq(Entries) /\ Len(new) = Len(auth)
      /\ \A i \in 1 .. Len(auth) : new[i] = [address |-> auth[i], message |-> digest, signed |-> FALSE]
  BY <1>1, CreateFacts
<1> HIDE DEF new
<1>5. signatures[r] \in Seq(Entries) /\ signatures'[r] = signatures[r] \o new
  BY <1>2 DEF new, IInv, TypeOK
<1>6. /\ raw'[r] \in Txs /\ raw'[r].digest = digest /\ raw'[r].authRequire = auth
      /\ raw'[r].authRequireSigns = <<>> /\ raw'[r].initiatorSigns = {}
  BY <1>1, <1>2, <1>4 DEF IInv, TypeOK, Txs
<1>7. created'[r] = created[r] + 1
  BY <1>3 DEF IInv, TypeOK
<1>8. /\ Len(signatures'[r]) = Len(signatures[r]) + Len(auth)
      /\ DOMAIN signatures'[r] = 1 .. Len(signatures[r]) + Len(auth)
      /\ \A i \in 1 .. Len(auth) : signatures'[r][Len(signatures[r]) + i] = new[i]
      /\ \A i \in 1 .. Len(signatures[r]) : signatures'[r][i] = signatures[r][i]
      /\ Len(auth) \in Nat /\ Len(signatures[r]) \in Nat /\ DOMAIN auth = 1 .. Len(auth)
      /\ DOMAIN signatures[r] = 1 .. Len(signatures[r])
  <2>1. \A u, v \in Seq(Entries) :
          /\ Len(u \o v) = Len(u) + Len(v) /\ Len(u) \in Nat /\ Len(v) \in Nat
          /\ DOMAIN u = 1 .. Len(u) /\ DOMAIN (u \o v) = 1 .. Len(u) + Len(v)
          /\ \A i \in 1 .. Len(v) : (u \o v)[Len(u) + i] = v[i]
          /\ \A i \in 1 .. Len(u) : (u \o v)[i] = u[i]
    OBVIOUS
  <2>2. Len(auth) \in Nat /\ DOMAIN auth = 1 .. Len(auth)
    BY <1>4
  <2>3. /\ Len(signatures[r] \o new) = Len(signatures[r]) + Len(new)
        /\ Len(signatures[r]) \in Nat /\ DOMAIN signatures[r] = 1 .. Len(signatures[r])
        /\ DOMAIN (signatures[r] \o new) = 1 .. Len(signatures[r]) + Len(new)
        /\ \A i \in 1 .. Len(new) : (signatures[r] \o new)[Len(signatures[r]) + i] = new[i]
        /\ \A i \in 1 .. Len(signatures[r]) : (signatures[r] \o new)[i] = signatures[r][i]
    BY <1>4, <1>5, <2>1, Zenon
  <2>4. Len(new) = Len(auth)
    BY <1>4
  <2> QED
    BY <1>5, <2>2, <2>3, <2>4, Zenon
<1>9. \A i \in 1 .. Len(auth) :
        SignInfos(signatures'[r])[Len(signatures[r]) + i] = [address |-> auth[i], message |-> digest]
  <2> SUFFICES ASSUME NEW i \in 1 .. Len(auth)
               PROVE  SignInfos(signatures'[r])[Len(signatures[r]) + i] = [address |-> auth[i], message |-> digest]
    OBVIOUS
  <2>1. Len(signatures[r]) + i \in DOMAIN signatures'[r]
    BY <1>8
  <2>2. signatures'[r][Len(signatures[r]) + i] = [address |-> auth[i], message |-> digest, signed |-> FALSE]
    BY <1>4, <1>8
  <2>3. \A es : \A j \in DOMAIN es :
          SignInfos(es)[j] = [address |-> es[j].address, message |-> es[j].message]
    BY DEF SignInfos
  <2>4. SignInfos(signatures'[r])[Len(signatures[r]) + i] =
          [address |-> signatures'[r][Len(signatures[r]) + i].address,
           message |-> signatures'[r][Len(signatures[r]) + i].message]
    BY <2>1, <2>3
  <2> QED
    BY <2>2, <2>4
<1>10. Required(raw[r])' = [i \in 1 .. Len(auth) |-> [address |-> auth[i], message |-> digest]]
  BY <1>6, <1>8 DEF Required
<1>11. IsCreated(r)'
  <2>1. \A i \in DOMAIN auth : \E j \in DOMAIN signatures'[r] :
          SignInfos(signatures'[r])[j] = Required(raw[r])'[i]
    BY <1>8, <1>9, <1>10
  <2>2. auth # <<>> /\ signatures'[r] # <<>>
    BY <1>4, <1>8
  <2> QED
    BY <1>1, <1>3, <1>6, <1>7, <2>1, <2>2 DEF IsCreated, Calling
<1>12. IsOwned(r)'
  <2> SUFFICES ASSUME NEW i \in DOMAIN signatures'[r], signatures'[r][i].signed
               PROVE  owner[signatures'[r][i].address] \in Account
    BY <1>3 DEF IsOwned
  <2>1. CASE i \in 1 .. Len(signatures[r])
    BY <1>8, <2>1 DEF IInv, Sound, IsOwned
  <2>2. CASE i \notin 1 .. Len(signatures[r])
    <3>1. i \in 1 .. Len(signatures[r]) + Len(auth) /\ Len(signatures[r]) \in Nat /\ Len(auth) \in Nat
      BY <1>8
    <3>2. PICK k \in 1 .. Len(auth) : i = Len(signatures[r]) + k
      <4>1. i - Len(signatures[r]) \in 1 .. Len(auth) /\ i = Len(signatures[r]) + (i - Len(signatures[r]))
        BY <2>2, <3>1
      <4> QED
        BY <4>1
    <3>3. signatures'[r][i] = new[k]
      BY <1>8, <3>2, Zenon
    <3>4. ~new[k].signed
      <4>1. new[k] = [address |-> auth[k], message |-> digest, signed |-> FALSE]
        BY <1>4, Zenon
      <4> QED
        BY <4>1
    <3> QED
      BY <3>3, <3>4
  <2> QED
    BY <2>1, <2>2
<1>13. IsFirst(r)'
  <2> SUFFICES ASSUME created[r] = 0
               PROVE  /\ SignInfos(signatures[r])' = Required(raw[r])'
                      /\ \E i \in DOMAIN auth : auth[i] = DefAddress
    BY <1>3, <1>6, <1>7 DEF IsFirst
  <2>1. Len(signatures[r]) = 0
    BY DEF IInv, Sound, IsCreated
  <2>2. SignInfos(signatures[r])' = [i \in 1 .. Len(auth) |-> SignInfos(signatures'[r])[i]]
    BY <1>8, <2>1 DEF SignInfos
  <2>3. \A i \in 1 .. Len(auth) : SignInfos(signatures'[r])[i] = [address |-> auth[i], message |-> digest]
    BY <1>8, <1>9, <2>1
  <2> QED
    BY <1>4, <1>8, <1>10, <2>2, <2>3
<1>14. IsVerified(r)'
  <2>1. created'[r] <= 1 => created[r] = 0
    BY <1>3, <1>7
  <2>2. created[r] = 0 => ~isCompleted[r]
    BY DEF IInv, Sound, IsCreated
  <2> QED
    BY <1>3, <2>1, <2>2 DEF IsVerified
<1>15. IsSpent(r)'
  <2> SUFFICES ASSUME \E tx \in accepted : tx.digest.raw = r
               PROVE  created'[r] > 0 /\ TooManySigns(r)'
    BY <1>3 DEF IsSpent
  <2>1. created[r] > 0
    BY DEF IInv, Sound, IsSpent
  <2>2. Len(signatures[r]) > 0
    BY <1>5, <2>1 DEF IInv, Sound, IsCreated
  <2> QED
    BY <1>3, <1>6, <1>7, <1>8, <2>1, <2>2 DEF TooManySigns, Coming
<1>16. (IsAwaited(r) /\ IsSent(r) /\ IsExecuted(r) /\ IsReported(r) /\ IsReceipt(r) /\ IsExplained(r))'
  BY <1>3, <1>7 DEF IInv, Sound, IsAwaited, IsSent, IsExecuted, IsReported, IsReceipt, IsExplained, Calling
<1> QED
  BY <1>11, <1>12, <1>13, <1>14, <1>15, <1>16 DEF Sound

\* Signing: the entries are those of before, and an account of the wallet signed.
LEMMA SignStep ==
  ASSUME IInv, NEW r \in Raw, NEW a \in Account, Sign(r, a)
  PROVE  Sound(r)'
<1>1. /\ Len(signatures'[r]) = Len(signatures[r]) /\ DOMAIN signatures'[r] = DOMAIN signatures[r]
      /\ SignInfos(signatures'[r]) = SignInfos(signatures[r])
      /\ \A i \in DOMAIN signatures[r] :
           /\ signatures'[r][i].address = signatures[r][i].address
           /\ signatures[r][i].signed => signatures'[r][i].signed
           /\ signatures'[r][i].signed => signatures[r][i].signed \/ owner[signatures[r][i].address] \in Account
  BY SignFacts DEF IInv
<1>2. /\ pc[r] = "idle" /\ DOMAIN signatures[r] # {}
      /\ UNCHANGED <<owner, raw, isCompleted, isSubmit, txID, pc, receipt, accepted, confirmed, created, submitted, budget>>
  BY DEF Sign, call, node, count
<1>3. signatures[r] # <<>> /\ signatures'[r] # <<>> /\ Sound(r)
  BY <1>1, <1>2 DEF IInv
<1>4. (IsCreated(r) /\ IsFirst(r))'
  <2>1. Required(raw[r])' = Required(raw[r])
    BY <1>2 DEF Required
  <2> QED
    BY <1>1, <1>2, <1>3, <2>1 DEF Sound, IsCreated, IsFirst
<1>5. (IsOwned(r) /\ IsVerified(r))'
  BY <1>1, <1>2, <1>3 DEF Sound, IsOwned, IsVerified, Verifies
<1>6. (IsSpent(r) /\ IsAwaited(r))'
  BY <1>1, <1>2, <1>3 DEF Sound, IsSpent, TooManySigns, Coming, IsAwaited
<1>7. (IsSent(r) /\ IsExecuted(r) /\ IsReported(r) /\ IsReceipt(r) /\ IsExplained(r))'
  BY <1>2, <1>3 DEF Sound, IsSent, IsExecuted, IsReported, IsReceipt, IsExplained, AclKnown
<1> QED
  BY <1>4, <1>5, <1>6, <1>7 DEF Sound

\* Submission of what verifies: every required address has signed, and if there
\* is one account and it is the first time, the order is the node's.
LEMMA SubmitStep ==
  ASSUME IInv, NEW r \in Raw, SubmitVerified(r)
  PROVE  Sound(r)'
<1> DEFINE tx == raw[r]
           es == signatures[r]
<1>1. PICK o \in AccountOrders : raw' = [raw EXCEPT ![r] = WithSigns(tx, InOrder(es, o))]
  BY DEF SubmitVerified
<1> DEFINE new == WithSigns(tx, InOrder(es, o))
<1>2. /\ pc[r] = "idle" /\ Verifies(r) /\ pc'[r] = "post" /\ receipt'[r] = NoTx
      /\ submitted'[r] = submitted[r] + 1 /\ submitted[r] \in Nat /\ raw'[r] = new
      /\ UNCHANGED <<owner, signatures, isSubmit, txID, accepted, confirmed, created, budget>>
  BY <1>1 DEF SubmitVerified, node, IInv, TypeOK
<1>3. /\ Sound(r) /\ created[r] \in Nat /\ created[r] > 0
      /\ tx \in Txs /\ es \in Seq(Entries) /\ Owned(es)
  BY <1>2, VerifiedIsOwned DEF IInv, TypeOK, Sound, IsCreated, Verifies
<1>4. /\ new \in Txs /\ new.digest = tx.digest /\ new.authRequire = tx.authRequire
      /\ Len(new.authRequireSigns) = Len(tx.authRequireSigns) + Len(es)
      /\ \A i \in DOMAIN es : SignInfos(es)[i] \in Range(new.authRequireSigns)
  BY <1>3, WithSignsFacts
<1>5. created[r] = 1 /\ submitted'[r] = 1 /\ OneAccount(r) => WellSigned(new)
  <2>1. ASSUME created[r] = 1, submitted'[r] = 1, OneAccount(r)
        PROVE  WellSigned(new)
    <3>1. /\ SignInfos(es) = Required(tx) /\ tx.authRequireSigns = <<>> /\ tx.initiatorSigns = {}
          /\ \E i \in DOMAIN tx.authRequire : tx.authRequire[i] = DefAddress
      BY <1>2, <1>3, <2>1 DEF Sound, IsFirst
    <3>2. \A i, j \in DOMAIN tx.authRequire : owner[tx.authRequire[i]] = owner[tx.authRequire[j]]
      BY <2>1 DEF OneAccount
    <3> HIDE DEF tx, es
    <3> QED
      BY <1>3, <3>1, <3>2, OneAccountSigns
  <2> QED
    BY <2>1
<1> HIDE DEF new
<1>6. Required(raw[r])' = Required(tx)
  BY <1>2, <1>4 DEF Required
<1>7. (IsCreated(r) /\ IsFirst(r))'
  <2>1. IsCreated(r)'
    BY <1>2, <1>3, <1>4, <1>6 DEF Sound, IsCreated
  <2>2. IsFirst(r)'
    BY <1>2, <1>3, <1>4, <1>6 DEF Sound, IsFirst
  <2> QED
    BY <2>1, <2>2
<1>8. (IsOwned(r) /\ IsVerified(r))'
  BY <1>2, <1>3 DEF Sound, IsOwned, IsVerified, Verifies
<1>9. (IsSpent(r) /\ IsAwaited(r))'
  <2>1. TooManySigns(r) => Len(tx.authRequireSigns) + Len(es) > Len(tx.authRequire)
    BY <1>2 DEF TooManySigns, Coming
  <2>2. TooManySigns(r) => TooManySigns(r)'
    <3>1. TooManySigns(r)' <=> Len(new.authRequireSigns) + 0 > Len(new.authRequire)
      BY <1>2 DEF TooManySigns, Coming
    <3>2. Len(new.authRequireSigns) \in Nat
      <4>1. new.authRequireSigns \in Seq(Signs)
        BY <1>4 DEF Txs
      <4> QED
        BY <4>1
    <3>3. Len(new.authRequireSigns) + 0 = Len(new.authRequireSigns)
      BY <3>2
    <3> QED
      BY <1>4, <2>1, <3>1, <3>3, Zenon
  <2>3. IsSpent(r)'
    BY <1>2, <1>3, <2>2 DEF Sound, IsSpent
  <2> QED
    BY <1>2, <2>3 DEF IsAwaited
<1>10. IsSent(r)'
  <2>1. \A i \in DOMAIN tx.authRequire : Required(tx)[i] \in Range(new.authRequireSigns)
    <3>1. \A i \in DOMAIN tx.authRequire : \E j \in DOMAIN es : SignInfos(es)[j] = Required(tx)[i]
      BY <1>3 DEF Sound, IsCreated
    <3> HIDE DEF tx, es
    <3> QED
      BY <1>4, <3>1
  <2>2. OneAccount(r)' <=> OneAccount(r)
    BY <1>2, <1>4 DEF OneAccount
  <2> QED
    BY <1>2, <1>4, <1>5, <1>6, <2>1, <2>2 DEF IsSent
<1>11. (IsExecuted(r) /\ IsReported(r) /\ IsReceipt(r) /\ IsExplained(r))'
  BY <1>2, <1>3 DEF Sound, IsExecuted, IsReported, IsReceipt, IsExplained
<1> QED
  BY <1>7, <1>8, <1>9, <1>10, <1>11 DEF Sound

\* Submission of what does not verify, a creation that fails or panics.
LEMMA RefusedStep ==
  ASSUME IInv, NEW r \in Raw, CreateFails(r) \/ CreatePanics(r) \/ SubmitUnverified(r)
  PROVE  Sound(r)'
<1>1. /\ pc[r] = "idle" /\ Sound(r)
      /\ UNCHANGED <<owner, raw, signatures, isCompleted, isSubmit, txID, accepted, confirmed, created>>
  BY DEF IInv, CreateFails, CreatePanics, SubmitUnverified, rawTx, call, node, count
<1>2. /\ pc'[r] \in {"idle", "panicked"} /\ receipt'[r] \in {receipt[r], NoTx}
      /\ submitted'[r] \in {submitted[r], submitted[r] + 1} /\ submitted[r] \in Nat
  BY DEF CreateFails, CreatePanics, SubmitUnverified, call, count, IInv, TypeOK
<1>3. budget'["lost"] = budget["lost"]
  BY SpendFacts DEF IInv, TypeOK, CreateFails, CreatePanics, SubmitUnverified, Kinds
<1>4. pc'[r] = "panicked" => created[r] > 1 \/ (r \in Deploys /\ ~AclKnown)
  <2>1. CASE CreateFails(r)
    BY <1>1, <2>1 DEF CreateFails, call
  <2>2. CASE CreatePanics(r)
    BY <2>2 DEF CreatePanics
  <2>3. CASE SubmitUnverified(r)
    <3>1. pc'[r] = "panicked" => isCompleted[r] /\ ~Verifies(r)
      BY <2>3 DEF SubmitUnverified, IInv, TypeOK
    <3>2. created[r] \in Nat
      BY DEF IInv, TypeOK
    <3> QED
      BY <1>1, <3>1, <3>2 DEF Sound, IsVerified
  <2> QED
    BY <2>1, <2>2, <2>3
<1>5. (IsCreated(r) /\ IsOwned(r) /\ IsFirst(r) /\ IsVerified(r))'
  <2>1. Required(raw[r])' = Required(raw[r])
    BY <1>1 DEF Required
  <2>2. submitted'[r] = 0 => submitted[r] = 0
    BY <1>2
  <2>3. pc'[r] \notin Calling
    BY <1>2 DEF Calling
  <2> QED
    BY <1>1, <2>1, <2>2, <2>3 DEF Sound, IsCreated, IsOwned, IsFirst, IsVerified, Verifies
<1>6. (IsSpent(r) /\ IsAwaited(r))'
  BY <1>1, <1>2 DEF Sound, IsSpent, TooManySigns, Coming, IsAwaited, Calling
<1>7. (IsSent(r) /\ IsExecuted(r) /\ IsReported(r) /\ IsReceipt(r) /\ IsExplained(r))'
  BY <1>1, <1>2, <1>3, <1>4 DEF Sound, IsSent, IsExecuted, IsReported, IsReceipt, IsExplained, AclKnown
<1> QED
  BY <1>5, <1>6, <1>7 DEF Sound

\* The node takes no second transaction of a raw transaction.
LEMMA FirstAccepted ==
  ASSUME IInv, NEW r \in Raw, pc[r] = "post", NodeTakes(raw[r])
  PROVE  /\ raw[r].digest.raw = r /\ created[r] > 0
         /\ \A tx \in accepted : tx.digest.raw # r
         /\ Len(raw[r].authRequireSigns) + Len(signatures[r]) > Len(raw[r].authRequire)
<1>1. Sound(r) /\ created[r] > 0 /\ raw[r] \in Txs /\ raw[r].digest.raw = r /\ signatures[r] # <<>>
  BY DEF IInv, Sound, IsCreated, Calling
<1>2. Len(raw[r].authRequireSigns) = Len(raw[r].authRequire) /\ Len(raw[r].authRequire) \in Nat
  <2>1. raw[r].authRequire \in Seq(Addr)
    BY <1>1 DEF Txs
  <2>2. raw[r].authRequireSigns =
          [i \in 1 .. Len(raw[r].authRequire) |-> [address |-> raw[r].authRequire[i], message |-> raw[r].digest]]
    BY <2>1 DEF NodeTakes, NodeAccepts, WellSigned
  <2>3. \A n \in Nat : \A f : Len([i \in 1 .. n |-> f[i]]) = n
    OBVIOUS
  <2> QED
    BY <2>1, <2>2
<1>3. Len(signatures[r]) \in Nat /\ Len(signatures[r]) > 0
  <2>1. signatures[r] \in Seq(Entries)
    BY DEF IInv, TypeOK
  <2> QED
    BY <1>1, <2>1
<1>4. ~TooManySigns(r)
  BY <1>2 DEF TooManySigns, Coming
<1>5. Len(raw[r].authRequireSigns) + Len(signatures[r]) > Len(raw[r].authRequire)
  <2>1. \A m, n \in Nat : n > 0 => m + n > m
    OBVIOUS
  <2>2. Len(raw[r].authRequire) + Len(signatures[r]) > Len(raw[r].authRequire)
    BY <1>2, <1>3, <2>1, Zenon
  <2> QED
    BY <1>2, <2>2, Zenon
<1>6. \A tx \in accepted : tx.digest.raw # r
  BY <1>1, <1>4 DEF Sound, IsSpent
<1> QED
  BY <1>1, <1>5, <1>6

\* The node takes the transaction: it is the first of r, and the last.
LEMMA PostedStep ==
  ASSUME IInv, NEW r \in Raw, Posted(r) \/ PostedUnheard(r)
  PROVE  Sound(r)'
<1>1. pc[r] = "post" /\ NodeTakes(raw[r]) /\ Sound(r)
  BY DEF Posted, PostedUnheard, IInv
<1>2. /\ UNCHANGED <<owner, raw, signatures, isCompleted, confirmed, receipt, created, submitted>>
      /\ accepted' = accepted \cup {raw[r]}
      /\ pc'[r] \in {"idle", "await"}
  BY DEF Posted, PostedUnheard, NodeTakes, Return, rawTx, call, count, IInv, TypeOK
<1>3. /\ raw[r].digest.raw = r /\ created[r] > 0
      /\ \A tx \in accepted : tx.digest.raw # r
      /\ Len(raw[r].authRequireSigns) + Len(signatures[r]) > Len(raw[r].authRequire)
  BY <1>1, FirstAccepted
<1>4. receipt[r] = NoTx /\ raw[r] \in Txs
  BY <1>1, <1>3 DEF Sound, IsAwaited, IsCreated, Calling
<1>5. pc'[r] = "await" => txID'[r] = raw[r]
  <2>1. PostedUnheard(r) => pc'[r] = "idle"
    BY DEF PostedUnheard, Return, IInv, TypeOK
  <2>2. Posted(r) => txID'[r] = raw[r]
    BY DEF Posted, IInv, TypeOK
  <2> QED
    BY <2>1, <2>2
<1>6. IsReported(r)'
  <2>1. CASE Posted(r)
    <3>1. isSubmit'[r] /\ txID'[r] = raw[r]
      BY <2>1 DEF Posted, IInv, TypeOK
    <3> QED
      BY <1>2, <1>3, <3>1 DEF IsReported
  <2>2. CASE PostedUnheard(r)
    <3>1. budget'["lost"] = budget["lost"] - 1 /\ budget["lost"] \in Nat
      BY <2>2, SpendFacts DEF PostedUnheard, IInv, TypeOK, Kinds
    <3>2. budget'["lost"] # MaxLostAnswers
      BY <3>1, ContractAssumption DEF IInv
    <3> QED
      BY <3>2 DEF IsReported
  <2> QED
    BY <2>1, <2>2
<1>7. (IsCreated(r) /\ IsOwned(r) /\ IsFirst(r) /\ IsVerified(r))'
  BY <1>1, <1>2, <1>3 DEF Sound, IsCreated, IsOwned, IsFirst, IsVerified, Verifies, Required
<1>8. (IsSpent(r) /\ IsAwaited(r))'
  BY <1>2, <1>3, <1>4, <1>5 DEF IsSpent, TooManySigns, Coming, IsAwaited, Calling
<1>9. (IsSent(r) /\ IsExecuted(r) /\ IsReceipt(r) /\ IsExplained(r))'
  BY <1>2, <1>3, <1>4 DEF IsSent, IsExecuted, IsReceipt, IsExplained
<1> QED
  BY <1>6, <1>7, <1>8, <1>9 DEF Sound

\* The steps of a submission that the node refuses, or that awaits its receipt.
Waits(r) ==
  \/ PostFails(r) \/ AwaitExpires(r) \/ AwaitAsks(r) \/ AskFails(r) \/ AskAnswers(r)
  \/ AskFindsNothing(r) \/ Wake(r)

LEMMA WaitStep ==
  ASSUME IInv, NEW r \in Raw, Waits(r)
  PROVE  Sound(r)'
<1>1. /\ pc[r] \in Calling /\ Sound(r) /\ created[r] > 0
      /\ UNCHANGED <<owner, raw, signatures, isCompleted, isSubmit, txID, accepted, confirmed, created, submitted>>
  BY DEF Waits, IInv, Sound, IsCreated, Calling, PostFails, AwaitExpires, AwaitAsks, AskFails,
    AskAnswers, AskFindsNothing, Wake, rawTx, node, count
<1>2. pc'[r] \in {"idle", "await", "ask", "sleep"} /\ (pc[r] = "post" => pc'[r] = "idle")
  BY DEF Waits, IInv, TypeOK, PostFails, AwaitExpires, AwaitAsks, AskFails, AskAnswers,
    AskFindsNothing, Wake, Return
<1>3. budget'["lost"] = budget["lost"]
  BY SpendFacts DEF Waits, IInv, TypeOK, PostFails, AwaitExpires, AwaitAsks, AskFails, AskAnswers,
    AskFindsNothing, Wake, Kinds
<1>4. /\ receipt[r] = NoTx
      /\ receipt'[r] # NoTx =>
           /\ pc'[r] = "idle" /\ pc[r] = "ask"
           /\ receipt'[r] = txID[r] /\ txID[r] \in confirmed /\ txID[r].digest.raw = r
  <2>1. receipt[r] = NoTx /\ (pc[r] = "ask" => txID[r].digest.raw = r)
    BY <1>1 DEF Sound, IsAwaited, Calling
  <2>2. CASE AskAnswers(r)
    BY <2>1, <2>2 DEF AskAnswers, Return, IInv, TypeOK
  <2>3. CASE ~AskAnswers(r)
    BY <2>1, <2>3 DEF Waits, PostFails, AwaitExpires, AwaitAsks, AskFails, AskFindsNothing, Wake
  <2> QED
    BY <2>2, <2>3
<1>5. (IsCreated(r) /\ IsOwned(r) /\ IsFirst(r) /\ IsVerified(r))'
  <2>1. IsCreated(r)' /\ IsOwned(r)'
    BY <1>1 DEF Sound, IsCreated, IsOwned, SignInfos, Required
  <2>2. IsFirst(r)'
    BY <1>1 DEF Sound, IsFirst, SignInfos, Required
  <2>3. IsVerified(r)'
    BY <1>1 DEF Sound, IsVerified, Verifies
  <2> QED
    BY <2>1, <2>2, <2>3
<1>6. IsSpent(r)'
  <2> SUFFICES ASSUME TooManySigns(r) PROVE TooManySigns(r)'
    BY <1>1 DEF Sound, IsSpent
  <2>1. Coming(r)' = Len(signatures[r]) /\ Coming(r) \in {0, Len(signatures[r])}
    BY <1>1, <1>2 DEF Coming
  <2>2. /\ Len(raw[r].authRequireSigns) \in Nat /\ Len(raw[r].authRequire) \in Nat
        /\ Len(signatures[r]) \in Nat
    <3>1. raw[r] \in Txs /\ signatures[r] \in Seq(Entries)
      BY <1>1 DEF Sound, IsCreated, IInv, TypeOK
    <3>2. raw[r].authRequireSigns \in Seq(Signs) /\ raw[r].authRequire \in Seq(Addr)
      BY <3>1 DEF Txs
    <3> QED
      BY <3>1, <3>2
  <2>3. \A a, b, c, d \in Nat : a + b > c /\ b \in {0, d} => a + d > c
    OBVIOUS
  <2>4. Len(raw[r].authRequireSigns) + Len(signatures[r]) > Len(raw[r].authRequire)
    <3>1. Coming(r) \in Nat
      BY <2>1, <2>2
    <3> QED
      BY <2>1, <2>2, <2>3, <3>1 DEF TooManySigns
  <2> QED
    BY <1>1, <2>1, <2>4 DEF TooManySigns
<1>7. IsAwaited(r)'
  BY <1>1, <1>2, <1>4 DEF Sound, IsAwaited, Calling
<1>8. (IsSent(r) /\ IsExecuted(r) /\ IsReported(r) /\ IsReceipt(r) /\ IsExplained(r))'
  BY <1>1, <1>2, <1>3, <1>4 DEF Sound, IsSent, IsExecuted, IsReported, IsReceipt, IsExplained
<1> QED
  BY <1>5, <1>6, <1>7, <1>8 DEF Sound

\* The environment's budget only shrinks, and the wallet stays as it is.
LEMMA BudgetStep ==
  ASSUME IInv, [Next]_vars
  PROVE  /\ budget'["lost"] <= MaxLostAnswers /\ UNCHANGED owner
         /\ budget'["lost"] = MaxLostAnswers => budget["lost"] = MaxLostAnswers
<1>1. budget["lost"] \in Nat /\ budget["lost"] <= MaxLostAnswers /\ MaxLostAnswers \in Nat
  BY ContractAssumption DEF IInv, TypeOK, Kinds
<1>2. budget'["lost"] \in {budget["lost"], budget["lost"] - 1} /\ UNCHANGED owner
  <2>1. ASSUME NEW k \in Kinds, Spend(k) PROVE budget'["lost"] \in {budget["lost"], budget["lost"] - 1}
    BY <2>1, SpendFacts DEF IInv, TypeOK, Kinds
  <2>2. ASSUME NEW r \in Raw, Use(r)
        PROVE  budget'["lost"] \in {budget["lost"], budget["lost"] - 1} /\ UNCHANGED owner
    BY <2>1, <2>2 DEF Use, Create, CreateFails, CreatePanics, Sign, SubmitVerified, SubmitUnverified, Kinds
  <2>3. ASSUME NEW r \in Raw, Proceed(r)
        PROVE  budget'["lost"] \in {budget["lost"], budget["lost"] - 1} /\ UNCHANGED owner
    BY <2>1, <2>3 DEF Proceed, Posted, PostedUnheard, PostFails, AwaitExpires, AwaitAsks, AskFails,
      AskAnswers, AskFindsNothing, Wake, Kinds
  <2> QED
    BY <2>2, <2>3 DEF Next, Confirm, Tick, vars
<1> QED
  BY <1>1, <1>2

\* A step of r touches no other raw transaction.
LEMMA OthersStep ==
  ASSUME IInv, NEW r \in Raw, Use(r) \/ Proceed(r), NEW q \in Raw, q # r
  PROVE  Sound(q)'
<1>1. Sound(q) /\ UNCHANGED owner /\ (budget'["lost"] = MaxLostAnswers => budget["lost"] = MaxLostAnswers)
  BY BudgetStep DEF IInv, Next
<1>2. /\ raw'[q] = raw[q] /\ signatures'[q] = signatures[q] /\ isCompleted'[q] = isCompleted[q]
      /\ isSubmit'[q] = isSubmit[q] /\ txID'[q] = txID[q] /\ pc'[q] = pc[q]
      /\ receipt'[q] = receipt[q] /\ created'[q] = created[q] /\ submitted'[q] = submitted[q]
  <2>1. CASE Use(r)
    BY <2>1 DEF IInv, TypeOK, Use, Create, CreateFails, CreatePanics, Sign, SubmitVerified,
      SubmitUnverified, rawTx, call, count
  <2>2. CASE Proceed(r)
    BY <2>2 DEF IInv, TypeOK, Proceed, Posted, PostedUnheard, PostFails, AwaitExpires, AwaitAsks,
      AskFails, AskAnswers, AskFindsNothing, Wake, Return, rawTx, count
  <2> QED
    BY <2>1, <2>2
<1>3. (\A tx \in accepted' : tx \in accepted \/ tx.digest.raw # q) /\ confirmed \subseteq confirmed'
  <2>1. CASE Posted(r) \/ PostedUnheard(r)
    <3>1. pc[r] = "post" /\ NodeTakes(raw[r])
      BY <2>1 DEF Posted, PostedUnheard
    <3> QED
      BY <3>1, FirstAccepted DEF NodeTakes
  <2>2. CASE ~(Posted(r) \/ PostedUnheard(r))
    BY <2>2 DEF Use, Proceed, Create, CreateFails, CreatePanics, Sign, SubmitVerified,
      SubmitUnverified, PostFails, AwaitExpires, AwaitAsks, AskFails, AskAnswers, AskFindsNothing,
      Wake, node
  <2> QED
    BY <2>1, <2>2
<1> QED
  BY <1>1, <1>2, <1>3, Untouched

\* Every step keeps the invariant.
LEMMA InvStep == IInv /\ [Next]_vars => IInv'
<1> SUFFICES ASSUME IInv, [Next]_vars PROVE IInv'
  OBVIOUS
<1>1. TypeOK' /\ budget'["lost"] <= MaxLostAnswers
  BY TypeStep, BudgetStep
<1>2. ASSUME NEW q \in Raw PROVE Sound(q)'
  <2>1. ASSUME NEW r \in Raw, Use(r) \/ Proceed(r) PROVE Sound(q)'
    <3>1. CASE q # r
      BY <2>1, <3>1, OthersStep
    <3>2. ASSUME q = r PROVE Sound(q)'
      <4>1. Sound(r)'
        BY <2>1, CreateStep, SignStep, SubmitStep, RefusedStep, PostedStep, WaitStep
        DEF Use, Proceed, Waits
      <4> QED
        BY <3>2, <4>1
    <3> QED
      BY <3>1, <3>2
  <2>2. CASE Confirm \/ Tick \/ UNCHANGED vars
    <3>1. /\ UNCHANGED <<owner, raw, signatures, isCompleted, isSubmit, txID, pc, receipt, accepted, created, submitted, budget>>
          /\ confirmed \subseteq confirmed'
      BY <2>2 DEF Confirm, Tick, vars, rawTx, call, node, count
    <3> QED
      BY <3>1, Untouched DEF IInv
  <2> QED
    BY <2>1, <2>2 DEF Next
<1> QED
  BY <1>1, <1>2 DEF IInv

\* The invariant holds in every reachable state.
LEMMA Invariant == Spec => []IInv
<1>1. Init => IInv
  BY TypeInit, SoundInit, AllowanceType, ContractAssumption DEF Init, IInv
<1> QED
  BY <1>1, InvStep, PTL DEF Spec

----------------------------------------------------------------------------
\* The theorems.

\* Every reachable state is typed.
THEOREM TypeCorrect == Spec => []TypeOK
<1>1. IInv => TypeOK
  BY DEF IInv
<1> QED
  BY <1>1, Invariant, PTL

\* What is posted carries the signature of every address it requires, and with
\* one account, the first time, exactly those in the node's order.
THEOREM Sent == Spec => []SentIsSigned
<1>1. IInv => SentIsSigned
  BY DEF IInv, Sound, IsSent, SentIsSigned, Required
<1> QED
  BY <1>1, Invariant, PTL

\* No raw transaction is executed twice, whatever is repeated after whatever
\* failure.
THEOREM Once == Spec => []ExecutedOnce
<1>1. IInv => ExecutedOnce
  <2> SUFFICES ASSUME IInv, NEW tx1 \in accepted, NEW tx2 \in accepted,
                      tx1.digest.raw = tx2.digest.raw
               PROVE  tx1 = tx2
    BY DEF ExecutedOnce
  <2>1. tx1.digest.raw \in Raw
    BY DEF IInv, TypeOK, Txs, Digests
  <2> QED
    BY <2>1 DEF IInv, Sound, IsExecuted
<1> QED
  BY <1>1, Invariant, PTL

\* While no answer was lost, the raw transaction names what the node executed.
THEOREM Reported == Spec => []AcceptedIsReported
<1>1. IInv => AcceptedIsReported
  <2> SUFFICES ASSUME IInv, budget["lost"] = MaxLostAnswers, NEW tx \in accepted
               PROVE  isSubmit[tx.digest.raw] /\ txID[tx.digest.raw] = tx
    BY DEF AcceptedIsReported
  <2>1. tx.digest.raw \in Raw
    BY DEF IInv, TypeOK, Txs, Digests
  <2> QED
    BY <2>1 DEF IInv, Sound, IsReported
<1> QED
  BY <1>1, Invariant, PTL

\* A receipt is that of the transaction the raw transaction posted.
THEOREM Receipts == Spec => []ReceiptIsOwn
<1>1. IInv => ReceiptIsOwn
  BY DEF IInv, Sound, IsReceipt, ReceiptIsOwn
<1> QED
  BY <1>1, Invariant, PTL

\* Panics come from a second creation or from a key the wallet does not have.
THEOREM Panics == Spec => []PanicsOnReuseOnly
<1>1. IInv => PanicsOnReuseOnly
  BY DEF IInv, Sound, IsExplained, PanicsOnReuseOnly
<1> QED
  BY <1>1, Invariant, PTL
=============================================================================
