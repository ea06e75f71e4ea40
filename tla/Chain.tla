------------------------------- MODULE Chain -------------------------------
(***************************************************************************)
(* Blocks as the adapter sees them through pb.InternalBlock: a height, a   *)
(* Blockid that identifies the block, and PreHash, the Blockid of its      *)
(* parent.  A Blockid commits to the whole history of its block, so a      *)
(* block is represented by that history: the sequence of tags on the path  *)
(* from the genesis block (the empty sequence, height 0) to the block.     *)
(* Two blocks with the same parent differ in their last tag.               *)
(***************************************************************************)
EXTENDS Integers, Sequences

CONSTANTS
  Tag,         \* what tells the children of one block apart
  MaxHeight,   \* modelling bound: the greatest height the chain may reach
  NoBlock      \* the nil block (and the hash of no block)

Heights == 0 .. MaxHeight

\* Every block some branch may contain.  TLC enumerates it as the functions
\* from 1..n to Tag, which are the sequences of length n.
Blocks == UNION {[1 .. n -> Tag] : n \in Heights}

ASSUME ChainAssumption ==
  /\ MaxHeight \in Nat
  /\ NoBlock \notin Blocks

Genesis == <<>>

Height(b) == Len(b)

\* The ancestor of block b at height h, b itself when h is its height.  When b
\* is the tip of the main chain this is the block GetBlockByHeight answers.
At(b, h) == SubSeq(b, 1, h)

PreHash(b) == At(b, Height(b) - 1)

IsAncestor(a, b) == Height(a) <= Height(b) /\ At(b, Height(a)) = a

\* The child of b with tag t.
Child(b, t) == Append(b, t)
=============================================================================
