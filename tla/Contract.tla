------------------------------ MODULE Contract ------------------------------
(***************************************************************************)
(* The smart contract decoder of xuperchain/contract_decoder.go: raw       *)
(* contract transactions are created (pre-executed by the node), signed    *)
(* account by account, submitted, and their receipts awaited, while the    *)
(* others change the state a pre-execution has read.                       *)
(*                                                                         *)
(* Each raw transaction is driven by one thread of the application, which  *)
(* may create, sign and submit it in any order and again.  What a raw      *)
(* transaction is asked to do is fixed; the arguments of the call, the fee *)
(* and the change are left out.                                            *)
(***************************************************************************)
EXTENDS Integers, Sequences, FiniteSets, Functions

CONSTANTS
  Raw,             \* openwallet.SmartContractRawTransaction objects
  ContractAddress, \* the contract of each, split at the colons
  Deploys,         \* those that call xkernel's Deploy
  Addr,            \* addresses
  Account,         \* accounts of the wallet
  NoAccount,       \* the account of an address the wallet does not have
  Caller,          \* the account that calls, rawTx.Account
  DefAddress,      \* its first address
  AclKeys,         \* the addresses in the ACL of the account deployed to
  AwaitTimeout,    \* rawTx.AwaitTimeout, in seconds, 0 for the default
  DefaultTimeout,  \* that default (90)
  SleepSecond,     \* sleepSecond (2)
  NoTx,            \* no transaction: an empty Raw, TxID or receipt, a nil *pb.Transaction
  \* Modelling bounds.
  MaxCreates,      \* how often one raw transaction is created
  MaxSubmits,      \* how often it is submitted
  MaxRpcFailures,  \* RPCs that return an error before the node acts on them
  MaxLostAnswers   \* transactions the node accepts without the answer arriving

ASSUME ContractAssumption ==
  /\ ContractAddress \in [Raw -> Seq(STRING)]
  /\ Deploys \subseteq Raw
  /\ IsFiniteSet(Account) /\ Caller \in Account /\ NoAccount \notin Account
  /\ DefAddress \in Addr
  /\ IsFiniteSet(AclKeys) /\ AclKeys \subseteq Addr
  /\ AwaitTimeout \in Nat
  /\ DefaultTimeout \in Nat \ {0}
  /\ SleepSecond \in Nat \ {0}
  /\ MaxCreates \in Nat
  /\ MaxSubmits \in Nat
  /\ MaxRpcFailures \in Nat
  /\ MaxLostAnswers \in Nat

VARIABLES
  owner,       \* the account of each address in the wallet
  raw,         \* rawTx.Raw: the transaction, with the signatures put into it so far
  signatures,  \* rawTx.Signatures, all accounts in one sequence
  isCompleted, \* rawTx.IsCompleted
  isSubmit,    \* rawTx.IsSubmit
  txID,        \* rawTx.TxID, as the transaction it names
  pc,          \* where the call on the raw transaction is
  expires,     \* seconds until expiredTime
  sleeps,      \* seconds left of time.Sleep
  receipt,     \* the receipt the last submit returned
  version,     \* node: version of the state and the UTXOs a pre-execution reads
  accepted,    \* node: the transactions it took
  confirmed,   \* node: those of them in a block
  created,     \* history: how often each was created
  submitted,   \* history: how often each was submitted
  budget       \* what the environment may still do

rawTx == <<raw, signatures, isCompleted, isSubmit, txID>>
call  == <<pc, expires, sleeps, receipt>>
node  == <<version, accepted, confirmed>>
count == <<created, submitted>>
vars  == <<owner, rawTx, call, node, count, budget>>

Kinds == {"rpc", "lost"}

Allowance == [k \in Kinds |->
  CASE k = "rpc"  -> MaxRpcFailures
    [] k = "lost" -> MaxLostAnswers]

Spend(k) == budget[k] > 0 /\ budget' = [budget EXCEPT ![k] = @ - 1]

Digests == [raw : Raw, nonce : 1 .. MaxCreates]
Signs   == [address : Addr, message : Digests]
Entries == [address : Addr, message : Digests, signed : BOOLEAN]
Txs     == [digest : Digests, authRequire : Seq(Addr), reads : Nat,
            initiatorSigns : SUBSET Signs, authRequireSigns : Seq(Signs)]

----------------------------------------------------------------------------
\* Creation.

\* EncodeInvokeRequest: module and name of the address when it has two parts,
\* otherwise the first part and no name.
EncodeInvokeRequest(address) ==
  IF Len(address) = 2 THEN [module |-> address[1], contract |-> address[2]]
                      ELSE [module |-> address[1], contract |-> ""]

\* The address extractSmartContractTransaction looks a request up by.
ExtractedAddress(address) ==
  LET request == EncodeInvokeRequest(address)
  IN  <<request.module, request.contract>>

\* The addresses that must sign: for a deployment the keys of the ACL in the
\* order of a Go map, then the default address.
AuthRequires(r) ==
  IF r \in Deploys
  THEN {Append(keys, DefAddress) : keys \in Bijection(1 .. Cardinality(AclKeys), AclKeys)}
  ELSE {<<DefAddress>>}

\* The wallet has every key the ACL names.
AclKnown == \A k \in AclKeys : owner[k] # NoAccount

\* One KeySignature per address, over the digest of the new transaction.
KeySignatures(auth, digest) ==
  [i \in DOMAIN auth |-> [address |-> auth[i], message |-> digest, signed |-> FALSE]]

\* Mutant of Create: the signatures of an earlier creation are dropped.
CreateAnew(r) ==
  LET digest == [raw |-> r, nonce |-> created[r] + 1]
  IN  /\ pc[r] = "idle"
      /\ created[r] < MaxCreates
      /\ r \in Deploys => AclKnown
      /\ \E auth \in AuthRequires(r) :
           /\ raw' = [raw EXCEPT ![r] =
                        [digest |-> digest, authRequire |-> auth, reads |-> version,
                         initiatorSigns |-> {}, authRequireSigns |-> <<>>]]
           /\ signatures' = [signatures EXCEPT ![r] = KeySignatures(auth, digest)]
      /\ created' = [created EXCEPT ![r] = @ + 1]
      /\ UNCHANGED <<owner, isCompleted, isSubmit, txID, call, node, submitted, budget>>

\* PreInvokeContract and the rest of CreateSmartContractRawTransaction.  The
\* new KeySignatures are appended to those of an earlier creation; IsCompleted
\* keeps its value.
Create(r) ==
  LET digest == [raw |-> r, nonce |-> created[r] + 1]
  IN  /\ pc[r] = "idle"
      /\ created[r] < MaxCreates
      /\ r \in Deploys => AclKnown
      /\ \E auth \in AuthRequires(r) :
           /\ raw' = [raw EXCEPT ![r] =
                        [digest |-> digest, authRequire |-> auth, reads |-> version,
                         initiatorSigns |-> {}, authRequireSigns |-> <<>>]]
           /\ signatures' = [signatures EXCEPT ![r] = @ \o KeySignatures(auth, digest)]
      /\ created' = [created EXCEPT ![r] = @ + 1]
      /\ UNCHANGED <<owner, isCompleted, isSubmit, txID, call, node, submitted, budget>>

\* PreInvokeContract returns an error, of an RPC or of EncodeInvokeRequest:
\* nothing has been written yet.
CreateFails(r) ==
  /\ pc[r] = "idle"
  /\ created[r] < MaxCreates
  /\ Spend("rpc")
  /\ UNCHANGED <<owner, rawTx, call, node, count>>

\* A key of the ACL is not in the wallet: the error message is formatted with
\* the address of the nil result of GetAddress.
CreatePanics(r) ==
  /\ pc[r] = "idle"
  /\ created[r] < MaxCreates
  /\ r \in Deploys /\ ~AclKnown
  /\ pc' = [pc EXCEPT ![r] = "panicked"]
  /\ UNCHANGED <<owner, rawTx, expires, sleeps, receipt, node, count, budget>>

\* The wallet signs the entries of one account, each over its own Message.
Sign(r, a) ==
  /\ pc[r] = "idle"
  /\ \E i \in DOMAIN signatures[r] : owner[signatures[r][i].address] = a /\ ~signatures[r][i].signed
  /\ signatures' = [signatures EXCEPT ![r] =
       [i \in DOMAIN @ |-> IF owner[@[i].address] = a THEN [@[i] EXCEPT !.signed = TRUE] ELSE @[i]]]
  /\ UNCHANGED <<owner, raw, isCompleted, isSubmit, txID, call, node, count, budget>>

----------------------------------------------------------------------------
\* Submission.

\* VerifyRawTransaction ranges over the accounts of Signatures in the order of
\* a Go map, and over the entries of each account in theirs.  Place(es, o, i)
\* is where entry i of es comes when o ranks the accounts.
AccountOrders == Bijection(Account, 1 .. Cardinality(Account))

Place(es, o, i) ==
  LET rank(j) == o[owner[es[j].address]]
  IN  Cardinality({j \in DOMAIN es : rank(j) < rank(i) \/ (rank(j) = rank(i) /\ j <= i)})

InOrder(es, o) ==
  [k \in DOMAIN es |-> es[CHOOSE i \in DOMAIN es : Place(es, o, i) = k]]

SignInfos(es) == [i \in DOMAIN es |-> [address |-> es[i].address, message |-> es[i].message]]

\* Mutant of WithSigns: the initiator's signature only goes to its own list.
WithSignsApart(tx, es) ==
  [tx EXCEPT
     !.authRequireSigns = @ \o SelectSeq(SignInfos(es), LAMBDA s : s.address # DefAddress),
     !.initiatorSigns   = @ \cup {s \in Range(SignInfos(es)) : s.address = DefAddress}]

\* tx with the signatures of es appended, the initiator's to both lists.
WithSigns(tx, es) ==
  [tx EXCEPT
     !.authRequireSigns = @ \o SignInfos(es),
     !.initiatorSigns   = @ \cup {s \in Range(SignInfos(es)) : s.address = DefAddress}]

\* VerifyRawTransaction succeeds: every entry is signed over its Message.
Verifies(r) ==
  /\ signatures[r] # <<>>
  /\ \A i \in DOMAIN signatures[r] : signatures[r][i].signed

\* The signatures go into Raw, and the transaction is posted.
SubmitVerified(r) ==
  /\ pc[r] = "idle"
  /\ submitted[r] < MaxSubmits
  /\ Verifies(r)
  /\ \E o \in AccountOrders :
       raw' = [raw EXCEPT ![r] = WithSigns(@, InOrder(signatures[r], o))]
  /\ isCompleted' = [isCompleted EXCEPT ![r] = TRUE]
  /\ receipt' = [receipt EXCEPT ![r] = NoTx]
  /\ pc' = [pc EXCEPT ![r] = "post"]
  /\ submitted' = [submitted EXCEPT ![r] = @ + 1]
  /\ UNCHANGED <<owner, signatures, isSubmit, txID, expires, sleeps, node, created, budget>>

\* Mutant of SubmitUnverified: IsCompleted is set before the check.
SubmitUnverifiedCompletes(r) ==
  /\ pc[r] = "idle"
  /\ submitted[r] < MaxSubmits
  /\ ~Verifies(r)
  /\ isCompleted' = [isCompleted EXCEPT ![r] = TRUE]
  /\ pc' = [pc EXCEPT ![r] = "panicked"]
  /\ receipt' = [receipt EXCEPT ![r] = NoTx]
  /\ submitted' = [submitted EXCEPT ![r] = @ + 1]
  /\ UNCHANGED <<owner, raw, signatures, isSubmit, txID, expires, sleeps, node, created, budget>>

\* It fails.  The error is not looked at: only IsCompleted is, and with the
\* IsCompleted of an earlier submission PostTx is given the nil transaction.
SubmitUnverified(r) ==
  /\ pc[r] = "idle"
  /\ submitted[r] < MaxSubmits
  /\ ~Verifies(r)
  /\ receipt' = [receipt EXCEPT ![r] = NoTx]
  /\ pc' = [pc EXCEPT ![r] = IF isCompleted[r] THEN "panicked" ELSE "idle"]
  /\ submitted' = [submitted EXCEPT ![r] = @ + 1]
  /\ UNCHANGED <<owner, rawTx, expires, sleeps, node, created, budget>>

\* What the node asks of a transaction: one signature per required address, in
\* the order of AuthRequire, the initiator's, all over its own digest.
WellSigned(tx) ==
  /\ tx.authRequireSigns =
       [i \in DOMAIN tx.authRequire |-> [address |-> tx.authRequire[i], message |-> tx.digest]]
  /\ tx.initiatorSigns = {[address |-> DefAddress, message |-> tx.digest]}

\* The node takes a well-signed transaction when nothing it has read or spends
\* has changed since.
NodeAccepts(tx) == WellSigned(tx) /\ tx.reads = version

NodeTakes(tx) ==
  /\ NodeAccepts(tx)
  /\ accepted' = accepted \cup {tx}
  /\ version' = version + 1
  /\ UNCHANGED confirmed

Return(r) ==
  /\ pc' = [pc EXCEPT ![r] = "idle"]
  /\ expires' = [expires EXCEPT ![r] = 0]

Deadline == IF AwaitTimeout = 0 THEN DefaultTimeout ELSE AwaitTimeout

\* Mutant of Posted: TxID and IsSubmit are set when the receipt arrives.
PostedUnmarked(r) ==
  /\ pc[r] = "post"
  /\ NodeTakes(raw[r])
  /\ \/ Return(r)
     \/ /\ pc' = [pc EXCEPT ![r] = "await"]
        /\ expires' = [expires EXCEPT ![r] = Deadline]
  /\ UNCHANGED <<owner, rawTx, sleeps, receipt, count, budget>>

\* PostTx answers the TxID.  With AwaitResult the receipt is awaited, without
\* it the call returns.
Posted(r) ==
  /\ pc[r] = "post"
  /\ NodeTakes(raw[r])
  /\ txID' = [txID EXCEPT ![r] = raw[r]]
  /\ isSubmit' = [isSubmit EXCEPT ![r] = TRUE]
  /\ \/ Return(r)
     \/ /\ pc' = [pc EXCEPT ![r] = "await"]
        /\ expires' = [expires EXCEPT ![r] = Deadline]
  /\ UNCHANGED <<owner, raw, signatures, isCompleted, sleeps, receipt, count, budget>>

\* The node takes the transaction, the answer is lost: an error is returned.
PostedUnheard(r) ==
  /\ pc[r] = "post"
  /\ NodeTakes(raw[r])
  /\ Spend("lost")
  /\ Return(r)
  /\ UNCHANGED <<owner, rawTx, sleeps, receipt, count>>

\* The node refuses the transaction, or does not get it.
PostFails(r) ==
  /\ pc[r] = "post"
  /\ \/ ~NodeAccepts(raw[r]) /\ UNCHANGED budget
     \/ Spend("rpc")
  /\ Return(r)
  /\ UNCHANGED <<owner, rawTx, sleeps, receipt, node, count>>

----------------------------------------------------------------------------
\* The loop that awaits the receipt.

AwaitExpires(r) ==
  /\ pc[r] = "await" /\ expires[r] = 0
  /\ Return(r)
  /\ UNCHANGED <<owner, rawTx, sleeps, receipt, node, count, budget>>

\* Mutant of AwaitAsks: the deadline is computed in the loop.
AwaitAsksAnew(r) ==
  /\ pc[r] = "await" /\ expires[r] > 0
  /\ pc' = [pc EXCEPT ![r] = "ask"]
  /\ expires' = [expires EXCEPT ![r] = Deadline]
  /\ UNCHANGED <<owner, rawTx, sleeps, receipt, node, count, budget>>

\* The deadline is only looked at here: the answer may come after it.
AwaitAsks(r) ==
  /\ pc[r] = "await" /\ expires[r] > 0
  /\ pc' = [pc EXCEPT ![r] = "ask"]
  /\ UNCHANGED <<owner, rawTx, expires, sleeps, receipt, node, count, budget>>

\* ExtractTransactionAndReceiptData fails, as it does for a transaction that is
\* in no block yet: the loop continues at once.
AskFails(r) ==
  /\ pc[r] = "ask"
  /\ \/ txID[r] \notin confirmed /\ UNCHANGED budget
     \/ Spend("rpc")
  /\ pc' = [pc EXCEPT ![r] = "await"]
  /\ UNCHANGED <<owner, rawTx, expires, sleeps, receipt, node, count>>

\* The contract of the raw transaction is the one the extraction finds.
ReceiptFound(r) == ExtractedAddress(ContractAddress[r]) = ContractAddress[r]

\* Mutant of AskAnswers: a transaction that is in no block has a receipt.
AskAnswersUnconfirmed(r) ==
  /\ pc[r] = "ask"
  /\ ReceiptFound(r)
  /\ receipt' = [receipt EXCEPT ![r] = txID[r]]
  /\ Return(r)
  /\ UNCHANGED <<owner, rawTx, sleeps, node, count, budget>>

AskAnswers(r) ==
  /\ pc[r] = "ask"
  /\ txID[r] \in confirmed
  /\ ReceiptFound(r)
  /\ receipt' = [receipt EXCEPT ![r] = txID[r]]
  /\ Return(r)
  /\ UNCHANGED <<owner, rawTx, sleeps, node, count, budget>>

\* The transaction is in a block and has no receipt for the contract.
AskFindsNothing(r) ==
  /\ pc[r] = "ask"
  /\ txID[r] \in confirmed
  /\ ~ReceiptFound(r)
  /\ pc' = [pc EXCEPT ![r] = "sleep"]
  /\ sleeps' = [sleeps EXCEPT ![r] = SleepSecond]
  /\ UNCHANGED <<owner, rawTx, expires, receipt, node, count, budget>>

Wake(r) ==
  /\ pc[r] = "sleep" /\ sleeps[r] = 0
  /\ pc' = [pc EXCEPT ![r] = "await"]
  /\ UNCHANGED <<owner, rawTx, expires, sleeps, receipt, node, count, budget>>

----------------------------------------------------------------------------
\* The node and the clock.

Confirm ==
  /\ \E tx \in accepted \ confirmed : confirmed' = confirmed \cup {tx}
  /\ UNCHANGED <<owner, rawTx, call, version, accepted, count, budget>>

\* Mutant of Less: the time left goes below zero.
LessBelowZero(f) == [r \in Raw |-> f[r] - 1]

Less(f) == [r \in Raw |-> IF f[r] > 0 THEN f[r] - 1 ELSE 0]

\* A second passes.
Tick ==
  /\ \E r \in Raw : expires[r] > 0 \/ sleeps[r] > 0
  /\ expires' = Less(expires)
  /\ sleeps' = Less(sleeps)
  /\ UNCHANGED <<owner, rawTx, pc, receipt, node, count, budget>>

----------------------------------------------------------------------------
Init ==
  /\ owner \in [Addr -> Account \cup {NoAccount}] /\ owner[DefAddress] = Caller
  /\ raw = [r \in Raw |-> NoTx]
  /\ signatures = [r \in Raw |-> <<>>]
  /\ isCompleted = [r \in Raw |-> FALSE]
  /\ isSubmit = [r \in Raw |-> FALSE]
  /\ txID = [r \in Raw |-> NoTx]
  /\ pc = [r \in Raw |-> "idle"]
  /\ expires = [r \in Raw |-> 0]
  /\ sleeps = [r \in Raw |-> 0]
  /\ receipt = [r \in Raw |-> NoTx]
  /\ version = 0
  /\ accepted = {}
  /\ confirmed = {}
  /\ created = [r \in Raw |-> 0]
  /\ submitted = [r \in Raw |-> 0]
  /\ budget = Allowance

\* The steps of a submission once it is posting.
Proceed(r) ==
  \/ Posted(r) \/ PostedUnheard(r) \/ PostFails(r)
  \/ AwaitExpires(r) \/ AwaitAsks(r) \/ AskFails(r) \/ AskAnswers(r) \/ AskFindsNothing(r) \/ Wake(r)

Use(r) ==
  \/ Create(r) \/ CreateFails(r) \/ CreatePanics(r)
  \/ \E a \in Account : Sign(r, a)
  \/ SubmitVerified(r) \/ SubmitUnverified(r)

Next ==
  \/ \E r \in Raw : Use(r) \/ Proceed(r)
  \/ Confirm \/ Tick

Spec == Init /\ [][Next]_vars

\* A call that is made proceeds and time passes; nothing else is certain.
FairSpec ==
  /\ Spec
  /\ \A r \in Raw : WF_vars(Proceed(r))
  /\ WF_vars(Tick)

----------------------------------------------------------------------------
\* Properties.

TypeOK ==
  /\ owner \in [Addr -> Account \cup {NoAccount}]
  /\ version \in Nat
  /\ accepted \subseteq Txs /\ confirmed \subseteq accepted
  /\ raw \in [Raw -> Txs \cup {NoTx}]
  /\ signatures \in [Raw -> Seq(Entries)]
  /\ isCompleted \in [Raw -> BOOLEAN]
  /\ isSubmit \in [Raw -> BOOLEAN]
  /\ txID \in [Raw -> Txs \cup {NoTx}]
  /\ pc \in [Raw -> {"idle", "post", "await", "ask", "sleep", "panicked"}]
  /\ expires \in [Raw -> 0 .. Deadline]
  /\ sleeps \in [Raw -> 0 .. SleepSecond]
  /\ receipt \in [Raw -> Txs \cup {NoTx}]
  /\ created \in [Raw -> 0 .. MaxCreates]
  /\ submitted \in [Raw -> 0 .. MaxSubmits]
  /\ budget \in [Kinds -> Nat]

\* All the addresses that sign for a raw transaction are in one account.
OneAccount(r) ==
  \A i, j \in DOMAIN raw[r].authRequire : owner[raw[r].authRequire[i]] = owner[raw[r].authRequire[j]]

\* Whatever is posted, every address in AuthRequire has signed its digest; and a
\* transaction created and submitted once, whose signers share an account, is
\* signed as the node asks: one signature each, in the order of AuthRequire
\* (CreateSmartContractRawTransaction lines 253-274, VerifyRawTransaction).
\* With several accounts the order is that of a Go map, after a second creation
\* or submission the earlier signatures are still there.
SentIsSigned ==
  \A r \in Raw : pc[r] = "post" =>
    /\ \A i \in DOMAIN raw[r].authRequire :
         [address |-> raw[r].authRequire[i], message |-> raw[r].digest] \in Range(raw[r].authRequireSigns)
    /\ created[r] = 1 /\ submitted[r] = 1 /\ OneAccount(r) => WellSigned(raw[r])

\* A raw transaction is executed at most once, however often it is created,
\* signed and submitted again, also after a submission that returned an error
\* because the answer of PostTx was lost.  It is the signatures left in Raw and
\* in Signatures that make the node refuse the others.
ExecutedOnce ==
  \A tx1, tx2 \in accepted : tx1.digest.raw = tx2.digest.raw => tx1 = tx2

\* When no answer is lost the raw transaction names what was executed: IsSubmit
\* is set and TxID is the transaction the node took (lines 303-304).
AcceptedIsReported ==
  budget["lost"] = MaxLostAnswers =>
    \A tx \in accepted : isSubmit[tx.digest.raw] /\ txID[tx.digest.raw] = tx

\* A receipt is that of the transaction this raw transaction posted, and the
\* transaction is in a block (lines 369-381).
ReceiptIsOwn ==
  \A r \in Raw : receipt[r] # NoTx =>
    receipt[r] \in confirmed /\ receipt[r] = txID[r] /\ receipt[r].digest.raw = r

\* Creating and submitting never panic for an application that creates each raw
\* transaction once and has the keys of the ACL (lines 97 and 291-298).
PanicsOnReuseOnly ==
  \A r \in Raw : pc[r] = "panicked" => created[r] > 1 \/ (r \in Deploys /\ ~AclKnown)

\* A submission returns: the wait ends with a receipt or by its deadline, also
\* when the node never answers (lines 345-384).
SubmitReturns ==
  \A r \in Raw : pc[r] \in {"post", "await", "ask", "sleep"} ~> pc[r] = "idle"
=============================================================================
