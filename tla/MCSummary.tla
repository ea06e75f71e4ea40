----------------------------- MODULE MCSummary -----------------------------
(***************************************************************************)
(* Instance of Summary: an account with three addresses.                   *)
(***************************************************************************)
EXTENDS Summary, TLC

MCAddresses == <<"a", "b", "c">>

\* Soundness: neither calls nor UTXOs are ordered.
Symmetric == Permutations(Call) \cup Permutations(Utxo)
=============================================================================
