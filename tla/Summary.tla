------------------------------ MODULE Summary ------------------------------
(***************************************************************************)
(* CreateSimpleSummaryRawTransaction of xuperchain/tx_decoder.go: it walks *)
(* the account's addresses, two RPCs each, gathers their UTXOs, and builds *)
(* a raw transaction to the summary address whenever it has enough inputs. *)
(* Several calls for one account may be under way at once.                 *)
(***************************************************************************)
EXTENDS Utxos, SequencesExt

CONSTANTS
  Call,         \* calls of CreateSimpleSummaryRawTransaction
  MaxTxInputs,  \* Config.MaxTxInputs
  MinTransfer   \* sumRawTx.MinTransfer

ASSUME SummaryAssumption ==
  /\ MaxTxInputs \in Nat \ {0}
  /\ MinTransfer \in Nat

VARIABLES
  pc,           \* per call: "idle", "balance" or "select" in the loop, at an end
  i,            \* index of the address the loop is at
  sumUnspents,  \* sumUnspents
  authAddrs,    \* authAddrs
  rawTxArray,   \* the raw transactions built so far
  result,       \* what the call returned: "none" before, "nil" or "error"
  passed        \* history: addresses the loop passed over with continue

work == <<sumUnspents, authAddrs, rawTxArray>>
vars == <<node, pc, i, work, result, passed>>

Init ==
  /\ UtxosInit
  /\ pc = [c \in Call |-> "idle"]
  /\ i = [c \in Call |-> 1]
  /\ sumUnspents = [c \in Call |-> {}]
  /\ authAddrs = [c \in Call |-> <<>>]
  /\ rawTxArray = [c \in Call |-> <<>>]
  /\ result = [c \in Call |-> "none"]
  /\ passed = [c \in Call |-> {}]

Start(c) ==
  /\ pc[c] = "idle"
  /\ pc' = [pc EXCEPT ![c] = "balance"]
  /\ UNCHANGED <<node, i, work, result, passed>>

\* On to the next address, or the loop is over and the call returns.
NextAddress(c) ==
  /\ i' = [i EXCEPT ![c] = @ + 1]
  /\ IF i[c] = Len(Addresses)
     THEN pc' = [pc EXCEPT ![c] = "returned"] /\ result' = [result EXCEPT ![c] = "nil"]
     ELSE pc' = [pc EXCEPT ![c] = "balance"] /\ UNCHANGED result

\* continue: the address is passed over, and with it the end of the loop body.
PassOver(c) ==
  /\ passed' = [passed EXCEPT ![c] = @ \cup {Addresses[i[c]]}]
  /\ NextAddress(c)
  /\ UNCHANGED work

\* A node that does not know the chain answers without a balance and without an
\* error: the loop dereferences nil.  (That ends the process; here the other calls
\* may go on.)
GetBalance(c) ==
  /\ pc[c] = "balance"
  /\ \/ RpcFails /\ PassOver(c)
     \/ /\ RpcFails
        /\ pc' = [pc EXCEPT ![c] = "panicked"]
        /\ UNCHANGED <<i, work, result, passed>>
     \/ /\ Balance(Addresses[i[c]]) < MinTransfer
        /\ PassOver(c)
        /\ UNCHANGED node
     \/ /\ Balance(Addresses[i[c]]) >= MinTransfer
        /\ pc' = [pc EXCEPT ![c] = "select"]
        /\ UNCHANGED <<node, i, work, result, passed>>

\* An error of SelectUTXOBySize ends the call: it returns nil and the error, not
\* the raw transactions it has built.  The node may have locked all the same.
SelectFails(c) ==
  /\ pc[c] = "select"
  /\ RpcFails \/ AnswerIsLost(Addresses[i[c]])
  /\ pc' = [pc EXCEPT ![c] = "returned"]
  /\ result' = [result EXCEPT ![c] = "error"]
  /\ UNCHANGED <<i, work, passed>>

\* Mutant of Gathered: it does not count the inputs that are already there.
GatheredOverLimit(sum, unspents) ==
  {sum \cup S : S \in {T \in SUBSET unspents :
     Cardinality(T) = IF Cardinality(unspents) > MaxTxInputs
                      THEN MaxTxInputs ELSE Cardinality(unspents)}}

\* unspents, in the node's order, up to MaxTxInputs - len(sumUnspents) of them.
Gathered(sum, unspents) ==
  LET limit == MaxTxInputs - Cardinality(sum)
      n     == IF Cardinality(unspents) > limit THEN limit ELSE Cardinality(unspents)
  IN  {sum \cup S : S \in {T \in SUBSET unspents : Cardinality(T) = n}}

\* Mutant of Built: the temporary variables are not cleared.
BuiltWithoutReset(c, sum, auth) ==
  /\ rawTxArray' = [rawTxArray EXCEPT ![c] =
       IF sum = {} THEN @
       ELSE Append(@, [inputs |-> sum, amount |-> Total(sum), asked |-> auth])]
  /\ sumUnspents' = [sumUnspents EXCEPT ![c] = sum]
  /\ authAddrs' = [authAddrs EXCEPT ![c] = auth]

\* Mutant of Built: a raw transaction is built even when nothing is to be sent.
BuiltFromNothing(c, sum, auth) ==
  /\ rawTxArray' = [rawTxArray EXCEPT ![c] =
       Append(@, [inputs |-> sum, amount |-> Total(sum), asked |-> auth])]
  /\ sumUnspents' = [sumUnspents EXCEPT ![c] = {}]
  /\ authAddrs' = [authAddrs EXCEPT ![c] = <<>>]

\* createRawTransaction, unless there is nothing to send; then all is cleared.
Built(c, sum, auth) ==
  /\ rawTxArray' = [rawTxArray EXCEPT ![c] =
       IF sum = {} THEN @
       ELSE Append(@, [inputs |-> sum, amount |-> Total(sum), asked |-> auth])]
  /\ sumUnspents' = [sumUnspents EXCEPT ![c] = {}]
  /\ authAddrs' = [authAddrs EXCEPT ![c] = <<>>]

\* Mutant of IsTimeToBuild: the end of the addresses is forgotten.
FullOnly(c, sum) == Cardinality(sum) >= MaxTxInputs

\* The last address, or enough inputs.
IsTimeToBuild(c, sum) == i[c] = Len(Addresses) \/ Cardinality(sum) >= MaxTxInputs

SelectUnspents(c) ==
  /\ pc[c] = "select"
  /\ LET a    == Addresses[i[c]]
         auth == Append(authAddrs[c], a)
     IN  /\ SelectUTXOBySize(a)
         /\ \E sum \in Gathered(sumUnspents[c], Available(a)) :
              IF IsTimeToBuild(c, sum)
              THEN Built(c, sum, auth)
              ELSE /\ sumUnspents' = [sumUnspents EXCEPT ![c] = sum]
                   /\ authAddrs' = [authAddrs EXCEPT ![c] = auth]
                   /\ UNCHANGED rawTxArray
  /\ NextAddress(c)
  /\ UNCHANGED passed

LockExpires == Expire /\ UNCHANGED <<pc, i, work, result, passed>>

Step(c) == Start(c) \/ GetBalance(c) \/ SelectFails(c) \/ SelectUnspents(c)

Next == (\E c \in Call : Step(c)) \/ LockExpires

Spec == Init /\ [][Next]_vars

----------------------------------------------------------------------------
IsRaw(x) ==
  /\ DOMAIN x = {"inputs", "amount", "asked"}
  /\ x.inputs \in SUBSET Utxo
  /\ x.amount \in Nat \ {0}
  /\ x.asked \in Seq(Address)

\* The type of the state of the calls and of the node behind them.
TypeOK ==
  /\ UtxosTypeOK
  /\ pc \in [Call -> {"idle", "balance", "select", "returned", "panicked"}]
  /\ i \in [Call -> 1 .. Len(Addresses) + 1]
  /\ sumUnspents \in [Call -> SUBSET Utxo]
  /\ result \in [Call -> {"none", "nil", "error"}]
  /\ passed \in [Call -> SUBSET Address]
  /\ \A c \in Call : /\ authAddrs[c] \in Seq(Address)
                     /\ \A n \in DOMAIN rawTxArray[c] : IsRaw(rawTxArray[c][n])

\* What a call has taken, in the order it took it: its raw transactions, then
\* what it is gathering.
Holdings(c) ==
  [n \in DOMAIN rawTxArray[c] |-> rawTxArray[c][n].inputs] \o <<sumUnspents[c]>>

\* No UTXO is gathered twice, by one call or by two, as long as no lock expires:
\* the variables are cleared between two raw transactions, and what SelectUTXO
\* returned is locked whether or not the limit left room for it.
GatheredOnce ==
  NoLockExpired => \A c, d \in Call : \A m \in DOMAIN Holdings(c), n \in DOMAIN Holdings(d) :
    <<c, m>> # <<d, n>> => Holdings(c)[m] \cap Holdings(d)[n] = {}

IsSound(x) ==
  /\ Cardinality(x.inputs) \in 1 .. MaxTxInputs
  /\ x.amount = Total(x.inputs)
  /\ \A u \in x.inputs : Owner(u) \in ToSet(x.asked)
  /\ IsInjective(x.asked)

\* A summary transaction has between one and MaxTxInputs inputs, sends exactly
\* their sum, and every owner of one of them is asked to sign, once.  (Addresses
\* whose UTXOs others have locked are asked as well, and may be the initiator.)
BatchesAreSound == \A c \in Call : \A n \in DOMAIN rawTxArray[c] : IsSound(rawTxArray[c][n])

\* When a call returns without an error after the loop reached the end of its
\* body for the last address, everything it gathered is in a raw transaction.
LastAddressBuilds ==
  \A c \in Call :
    result[c] = "nil" /\ Addresses[Len(Addresses)] \notin passed[c] => sumUnspents[c] = {}

\* When a call returns without an error, everything it gathered is in a raw
\* transaction: "once the addresses are exhausted the transaction can be built"
\* (tx_decoder.go 416).
NothingStranded == \A c \in Call : result[c] = "nil" => sumUnspents[c] = {}
=============================================================================
