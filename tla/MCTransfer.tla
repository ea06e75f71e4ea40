----------------------------- MODULE MCTransfer -----------------------------
(***************************************************************************)
(* Instance of Transfer: an account with the addresses "a" and "b", and    *)
(* orders that pay a stranger, the account itself, or both.                *)
(***************************************************************************)
EXTENDS Transfer, TLC

TwoAddresses == <<"a", "b">>

\* The amounts make one UTXO enough or not, the change zero or not, and the
\* change address a destination or not.
MCOrders == {("x" :> 2), ("a" :> 2), ("x" :> 2) @@ ("b" :> 1)}

\* Soundness: neither requests nor UTXOs are ordered.
Symmetric == Permutations(Request) \cup Permutations(Utxo)
=============================================================================
