------------------------------- MODULE Utxos -------------------------------
(***************************************************************************)
(* The node's UTXOs as the transaction decoder (xuperchain/tx_decoder.go)  *)
(* meets them through xuperchain_rpc/api.go: SelectUTXOBySize locks what   *)
(* it returns so that no other request is given it, the lock expires, and  *)
(* PostTx spends.  The node itself is external: only what the decoder      *)
(* relies on is modelled.  UTXOs that posted transactions create are left  *)
(* out.                                                                    *)
(***************************************************************************)
EXTENDS Integers, Sequences, FiniteSetsExt

CONSTANTS
  Addresses,      \* the account's addresses in the order of GetAddressList
  Utxo,           \* names of the account's UTXOs
  \* Modelling bounds.
  MaxAmount,      \* amount of a UTXO
  MaxRpcFailures, \* how often an RPC returns an error
  MaxExpiries     \* how often the lock of a UTXO expires

Address == {Addresses[i] : i \in DOMAIN Addresses}

ASSUME UtxosAssumption ==
  /\ Addresses \in Seq(Address) /\ Addresses # <<>>
  /\ \A i, j \in DOMAIN Addresses : Addresses[i] = Addresses[j] => i = j
  /\ IsFiniteSet(Utxo)
  /\ MaxAmount \in Nat \ {0}
  /\ MaxRpcFailures \in Nat
  /\ MaxExpiries \in Nat

VARIABLES
  utxo,    \* the address and the amount of each UTXO
  locked,  \* UTXOs the node has locked for a request
  spent,   \* UTXOs an accepted transaction has spent
  budget   \* how many RPC failures and expiries are left

node == <<utxo, locked, spent, budget>>

Kinds == {"rpc", "expiry"}

Owner(u)  == utxo[u].addr

AmountOf(utxos, S) == MapThenSumSet(LAMBDA u : utxos[u].amount, S)

Total(S) == AmountOf(utxo, S)

UtxosInit ==
  /\ utxo \in [Utxo -> [addr : Address, amount : 1 .. MaxAmount]]
  /\ locked = {}
  /\ spent = {}
  /\ budget = [k \in Kinds |-> IF k = "rpc" THEN MaxRpcFailures ELSE MaxExpiries]

Spend(k) == budget[k] > 0 /\ budget' = [budget EXCEPT ![k] = @ - 1]

\* An RPC that returns an error, or times out before the node acted on it.
RpcFails == Spend("rpc") /\ UNCHANGED <<utxo, locked, spent>>

\* What the node has left for the address.
Available(a) == {u \in Utxo : Owner(u) = a} \ (locked \cup spent)

\* Mutant of SelectUTXOBySize: needLock is FALSE.
SelectWithoutLock(a) == a \in Address /\ UNCHANGED node

\* SelectUTXOBySize(a, true): all that is available is returned, and locked.
SelectUTXOBySize(a) ==
  /\ locked' = locked \cup Available(a)
  /\ UNCHANGED <<utxo, spent, budget>>

\* The same, but the caller gets an error: the answer is lost.
AnswerIsLost(a) ==
  /\ Spend("rpc")
  /\ locked' = locked \cup Available(a)
  /\ UNCHANGED <<utxo, spent>>

\* GetBalance(a): locks do not count.
Balance(a) == Total({u \in Utxo : Owner(u) = a} \ spent)

\* The lock of a UTXO expires in the node.
Expire ==
  /\ Spend("expiry")
  /\ \E u \in locked : locked' = locked \ {u}
  /\ UNCHANGED <<utxo, spent>>

\* History: no lock has expired so far.
NoLockExpired == budget["expiry"] = MaxExpiries

UtxosTypeOK ==
  /\ utxo \in [Utxo -> [addr : Address, amount : 1 .. MaxAmount]]
  /\ locked \in SUBSET Utxo
  /\ spent \in SUBSET Utxo
  /\ budget \in [Kinds -> Nat]
=============================================================================
