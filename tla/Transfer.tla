------------------------------ MODULE Transfer ------------------------------
(***************************************************************************)
(* Transfers through the TransactionDecoder of xuperchain/tx_decoder.go:   *)
(* CreateRawTransaction collects UTXOs from the account's addresses, one   *)
(* RPC each, and builds the raw transaction; SignRawTransaction,           *)
(* VerifyRawTransaction and SubmitRawTransaction are then called by the    *)
(* application, in any order and any number of times.  Several raw         *)
(* transactions of one account are under way at once.                      *)
(***************************************************************************)
EXTENDS Utxos

CONSTANTS
  Request,     \* the raw transactions (*openwallet.RawTransaction)
  Orders,      \* the rawTx.To that applications ask for: address -> amount
  NoTx,        \* stands for an empty rawTx.RawHex
  \* Modelling bounds.
  MaxCreates,  \* calls of CreateRawTransaction for one raw transaction
  MaxVerifies  \* successful calls of VerifyRawTransaction for one

ASSUME TransferAssumption ==
  /\ \A o \in Orders : /\ IsFiniteSet(DOMAIN o) /\ DOMAIN o # {}
                       /\ \A d \in DOMAIN o : o[d] \in Nat \ {0}
  /\ MaxCreates \in Nat
  /\ MaxVerifies \in Nat

VARIABLES
  pc,         \* per raw transaction: "idle", or "collect" in its Create
  creates,    \* how often Create was called
  to,         \* rawTx.To
  next,       \* index of the next address in the loop of Create
  used,       \* usedUTXO
  authAddrs,  \* authAddrs
  raw,        \* rawTx.RawHex: the transaction, or NoTx
  asked,      \* rawTx.Signatures: the addresses asked to sign, in order
  signed,     \* those of them that have signed
  completed,  \* rawTx.IsCompleted
  submitted,  \* rawTx.IsSubmit
  posted      \* history: transactions handed to PostTx

call == <<pc, creates, to, next, used, authAddrs>>
vars == <<node, call, raw, asked, signed, completed, submitted, posted>>

Need(o) == SumFunction(o)

\* Mutant of Outputs: the change replaces what the order sends to that address.
OutputsReplaced(o, changeAddress, change) ==
  IF change = 0 THEN o
  ELSE [d \in DOMAIN o \cup {changeAddress} |-> IF d = changeAddress THEN change ELSE o[d]]

\* rawTx.To with the change added: appendOutput merges the two when the change
\* address is itself a destination.
Outputs(o, changeAddress, change) ==
  IF change = 0 THEN o
  ELSE [d \in DOMAIN o \cup {changeAddress} |->
          (IF d \in DOMAIN o THEN o[d] ELSE 0) + (IF d = changeAddress THEN change ELSE 0)]

----------------------------------------------------------------------------
Init ==
  /\ UtxosInit
  /\ pc = [r \in Request |-> "idle"]
  /\ creates = [r \in Request |-> 0]
  /\ to \in [Request -> Orders]
  /\ next = [r \in Request |-> 1]
  /\ used = [r \in Request |-> {}]
  /\ authAddrs = [r \in Request |-> <<>>]
  /\ raw = [r \in Request |-> NoTx]
  /\ asked = [r \in Request |-> <<>>]
  /\ signed = [r \in Request |-> {}]
  /\ completed = [r \in Request |-> FALSE]
  /\ submitted = [r \in Request |-> FALSE]
  /\ posted = {}

\* CreateSimpleRawTransaction, up to its loop over the addresses.
Create(r) ==
  /\ pc[r] = "idle"
  /\ creates[r] < MaxCreates
  /\ pc' = [pc EXCEPT ![r] = "collect"]
  /\ creates' = [creates EXCEPT ![r] = @ + 1]
  /\ next' = [next EXCEPT ![r] = 1]
  /\ used' = [used EXCEPT ![r] = {}]
  /\ authAddrs' = [authAddrs EXCEPT ![r] = <<>>]
  /\ UNCHANGED <<node, to, raw, asked, signed, completed, submitted, posted>>

\* What the inner loop takes of the unspents of one address: one UTXO after
\* another, in the node's order, until the running balance reaches the total.
\* Only this loop is left then: the next address still gives its first UTXO.
Taken(r, unspents) ==
  {S \in SUBSET unspents :
     \E last \in S :
       /\ S = {last} \/ Total(used[r] \cup (S \ {last})) < Need(to[r])
       /\ S = unspents \/ Total(used[r] \cup S) >= Need(to[r])}

\* One address of the loop: an error, or no unspents, and it is passed over.
Collect(r) ==
  /\ pc[r] = "collect"
  /\ next[r] <= Len(Addresses)
  /\ LET a == Addresses[next[r]]
     IN  \/ /\ RpcFails
            /\ UNCHANGED <<used, authAddrs>>
         \/ /\ AnswerIsLost(a)
            /\ UNCHANGED <<used, authAddrs>>
         \/ /\ Available(a) = {}
            /\ UNCHANGED <<node, used, authAddrs>>
         \/ /\ SelectUTXOBySize(a)
            /\ \E S \in Taken(r, Available(a)) : used' = [used EXCEPT ![r] = @ \cup S]
            /\ authAddrs' = [authAddrs EXCEPT ![r] = Append(@, a)]
  /\ next' = [next EXCEPT ![r] = @ + 1]
  /\ UNCHANGED <<pc, creates, to, raw, asked, signed, completed, submitted, posted>>

\* Mutant of createRawTransaction: only the initiator is asked to sign.
createAsksInitiator(r, outputs) ==
  /\ raw' = [raw EXCEPT ![r] = [inputs    |-> used[r],
                                outputs   |-> outputs,
                                initiator |-> Head(authAddrs[r]),
                                signs     |-> 0]]
  /\ asked' = [asked EXCEPT ![r] = <<Head(authAddrs[r])>>]
  /\ signed' = [signed EXCEPT ![r] = {}]

\* createRawTransaction: the transaction, without signatures, and one key
\* signature to fill for each address that gave UTXOs.
createRawTransaction(r, outputs) ==
  /\ raw' = [raw EXCEPT ![r] = [inputs    |-> used[r],
                                outputs   |-> outputs,
                                initiator |-> Head(authAddrs[r]),
                                signs     |-> 0]]
  /\ asked' = [asked EXCEPT ![r] = authAddrs[r]]
  /\ signed' = [signed EXCEPT ![r] = {}]

\* After the loop: the balance does not reach, and Create fails.
NotEnough(r) ==
  /\ pc[r] = "collect"
  /\ next[r] > Len(Addresses)
  /\ Total(used[r]) < Need(to[r])
  /\ pc' = [pc EXCEPT ![r] = "idle"]
  /\ UNCHANGED <<node, creates, to, next, used, authAddrs, raw, asked, signed,
                 completed, submitted, posted>>

\* Mutant of Build: the balance may be one short.
BuildOneShort(r) ==
  /\ pc[r] = "collect"
  /\ next[r] > Len(Addresses)
  /\ Total(used[r]) + 1 >= Need(to[r])
  /\ LET change == Total(used[r]) - Need(to[r])
     IN  createRawTransaction(r, Outputs(to[r], Head(authAddrs[r]), change))
  /\ pc' = [pc EXCEPT ![r] = "idle"]
  /\ UNCHANGED <<node, creates, to, next, used, authAddrs, completed, submitted, posted>>

\* Or it does, and the change goes to the address of the first UTXO.
Build(r) ==
  /\ pc[r] = "collect"
  /\ next[r] > Len(Addresses)
  /\ Total(used[r]) >= Need(to[r])
  /\ LET change == Total(used[r]) - Need(to[r])
     IN  createRawTransaction(r, Outputs(to[r], Head(authAddrs[r]), change))
  /\ pc' = [pc EXCEPT ![r] = "idle"]
  /\ UNCHANGED <<node, creates, to, next, used, authAddrs, completed, submitted, posted>>

\* SignRawTransaction: the key signatures are filled one after the other, and an
\* error leaves those that were.
SignRawTransaction(r) ==
  /\ pc[r] = "idle"
  /\ asked[r] # <<>>
  /\ \E n \in 0 .. Len(asked[r]) :
       signed' = [signed EXCEPT ![r] = @ \cup {asked[r][i] : i \in 1 .. n}]
  /\ UNCHANGED <<node, call, raw, asked, completed, submitted, posted>>

\* Mutant of VerifyRawTransaction: the signed transaction is not written back.
VerifyForgetsRawHex(r) ==
  /\ pc[r] = "idle"
  /\ asked[r] # <<>>
  /\ {asked[r][i] : i \in DOMAIN asked[r]} \subseteq signed[r]
  /\ completed' = [completed EXCEPT ![r] = TRUE]
  /\ UNCHANGED <<node, call, raw, asked, signed, submitted, posted>>

\* VerifyRawTransaction: an error when a key signature is missing; otherwise the
\* initiator's is added to the transaction, again at every call.
VerifyRawTransaction(r) ==
  /\ pc[r] = "idle"
  /\ asked[r] # <<>>
  /\ raw[r] # NoTx
  /\ {asked[r][i] : i \in DOMAIN asked[r]} \subseteq signed[r]
  /\ raw[r].signs < MaxVerifies
  /\ raw' = [raw EXCEPT ![r].signs = @ + 1]
  /\ completed' = [completed EXCEPT ![r] = TRUE]
  /\ UNCHANGED <<node, call, asked, signed, submitted, posted>>

\* SubmitRawTransaction.  The node refuses a transaction with a spent input, and
\* may refuse any; it may also accept one and the answer be lost.
SubmitRawTransaction(r) ==
  /\ pc[r] = "idle"
  /\ raw[r] # NoTx
  /\ completed[r]
  /\ posted' = posted \cup {raw[r]}
  /\ \/ /\ raw[r].inputs \cap spent = {}
        /\ spent' = spent \cup raw[r].inputs
        /\ submitted' = [submitted EXCEPT ![r] = TRUE]
        /\ UNCHANGED <<utxo, locked, budget>>
     \/ /\ raw[r].inputs \cap spent = {}
        /\ spent' = spent \cup raw[r].inputs
        /\ Spend("rpc")
        /\ UNCHANGED <<utxo, locked, submitted>>
     \/ /\ RpcFails
        /\ UNCHANGED submitted
  /\ UNCHANGED <<call, raw, asked, signed, completed>>

LockExpires == Expire /\ UNCHANGED <<call, raw, asked, signed, completed, submitted, posted>>

CreateStep(r) == Collect(r) \/ NotEnough(r) \/ Build(r)

Next ==
  \/ \E r \in Request : \/ Create(r) \/ CreateStep(r)
                        \/ SignRawTransaction(r)
                        \/ VerifyRawTransaction(r)
                        \/ SubmitRawTransaction(r)
  \/ LockExpires

Spec == Init /\ [][Next]_vars

----------------------------------------------------------------------------
Destination == UNION {DOMAIN o : o \in Orders}

IsRaw(x) ==
  /\ DOMAIN x = {"inputs", "outputs", "initiator", "signs"}
  /\ x.inputs \in SUBSET Utxo
  /\ DOMAIN x.outputs \in SUBSET (Address \cup Destination)
  /\ \A d \in DOMAIN x.outputs : x.outputs[d] \in Nat \ {0}
  /\ x.initiator \in Address
  /\ x.signs \in 0 .. MaxVerifies

\* The type of the state of the decoder and of the node behind it.
TypeOK ==
  /\ UtxosTypeOK
  /\ pc \in [Request -> {"idle", "collect"}]
  /\ creates \in [Request -> 0 .. MaxCreates]
  /\ to \in [Request -> Orders]
  /\ next \in [Request -> 1 .. Len(Addresses) + 1]
  /\ used \in [Request -> SUBSET Utxo]
  /\ \A r \in Request :
       /\ authAddrs[r] \in Seq(Address)
       /\ asked[r] \in Seq(Address)
       /\ raw[r] = NoTx \/ IsRaw(raw[r])
  /\ signed \in [Request -> SUBSET Address]
  /\ completed \in [Request -> BOOLEAN]
  /\ submitted \in [Request -> BOOLEAN]
  /\ \A x \in posted : IsRaw(x)

\* A built transaction spends exactly what it pays (createRawTransaction gives no
\* fee), every destination of the order gets its amount, and what is left goes
\* to an address that an input came from, merged with the order's own output
\* when that address is a destination (tx_decoder.go 105-179, 591-599).
ValueConserved ==
  \A r \in Request : raw[r] # NoTx =>
    LET outputs == raw[r].outputs
        changes == {d \in DOMAIN outputs : d \notin DOMAIN to[r] \/ outputs[d] > to[r][d]}
    IN  /\ Total(raw[r].inputs) = SumFunction(outputs)
        /\ \A d \in DOMAIN to[r] : d \in DOMAIN outputs /\ outputs[d] >= to[r][d]
        /\ changes \subseteq {Owner(u) : u \in raw[r].inputs}
        /\ Cardinality(changes) <= 1

\* The UTXOs one request holds, in its raw transaction or while collecting.
Holds(r) == used[r] \cup (IF raw[r] = NoTx THEN {} ELSE raw[r].inputs)

\* As long as no lock expires, two transfers of an account under way at once are
\* never built on the same UTXO: what the loop of Create selects is locked, and
\* neither an error nor a lost answer makes it available again.
InputsExclusive ==
  NoLockExpired => \A r, s \in Request : r # s => Holds(r) \cap Holds(s) = {}

\* Whoever owns an input of a raw transaction is asked for its signature, nobody
\* else is, nobody twice, and the initiator is the first of them: the list
\* authAddrs the loop builds beside usedUTXO stays in step with it although
\* addresses are passed over.
OwnersAreAsked ==
  \A r \in Request : raw[r] # NoTx =>
    /\ {asked[r][i] : i \in DOMAIN asked[r]} = {Owner(u) : u \in raw[r].inputs}
    /\ Cardinality({Owner(u) : u \in raw[r].inputs}) = Len(asked[r])
    /\ raw[r].initiator = Head(asked[r])

\* As long as no raw transaction has been created twice, only a transaction that
\* carries its initiator's signature is handed to PostTx: IsCompleted, on which
\* SubmitRawTransaction relies, tells of the raw transaction at hand (lines 300,
\* 312).  A second Create would not reset it.
CreatedOnce == \A r \in Request : creates[r] <= 1

PostedIsSigned == CreatedOnce => \A x \in posted : x.signs > 0

\* Whoever owns an input of a posted transaction has signed in it. The decoder
\* asks for these signatures (authAddrs) but fills in the initiator's alone.
InputsAuthorised ==
  \A x \in posted : \A u \in x.inputs : x.signs > 0 /\ Owner(u) = x.initiator
=============================================================================
