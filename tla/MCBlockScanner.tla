--------------------------- MODULE MCBlockScanner ---------------------------
(***************************************************************************)
(* The block scanner on small chains.  The cfg files give the constants    *)
(* their values; each names the part of the environment it lets act.       *)
(***************************************************************************)
EXTENDS BlockScanner, TLC

TagSymmetry == Permutations(Tag)

=============================================================================
