--------------------------- MODULE ChainFollower ---------------------------
(***************************************************************************)
(* What an application expects of a block scanner, without tasks, stores   *)
(* or RPCs: something follows one branch of a chain that may fork, block   *)
(* by block, and owes its observers the data of every block of that branch *)
(* above the height it was asked to scan from.  It may fall behind and     *)
(* step back, but it goes forward only to a branch all of whose blocks     *)
(* were delivered or are queued to be scanned again.                       *)
(* BlockScanner.tla implements this.                                       *)
(***************************************************************************)
EXTENDS Chain

VARIABLES
  tip,        \* the last block followed, NoBlock before the first
  base,       \* scanning was asked for above this height
  delivered,  \* blocks whose data reached every observer
  queued      \* heights that will be scanned again

vars == <<tip, base, delivered, queued>>

\* The blocks the observers are owed when b is followed.  Block 1 is not
\* promised: see the clamp of the rewind in BlockScanner.
Owed(b) == IF b = NoBlock THEN {}
           ELSE {At(b, h) : h \in {k \in base + 1 .. Height(b) : k > 1}}

Kept(b) == b \in delivered \/ Height(b) \in queued

Init ==
  /\ tip = NoBlock
  /\ base = 0
  /\ delivered = {}
  /\ queued = {}

\* The follower goes on along its branch, past blocks that are all kept.
Extend(b) ==
  /\ tip' = b
  /\ tip = NoBlock \/ IsAncestor(tip, b)
  /\ \A a \in Owed(b) : Kept(a)
  /\ UNCHANGED <<base, delivered, queued>>

\* It steps back, along its branch or to where it was asked to begin, below
\* which it may land on another branch.
Retreat(b) ==
  /\ tip' = b
  /\ (tip # NoBlock /\ IsAncestor(b, tip)) \/ Height(b) <= base
  /\ UNCHANGED <<base, delivered, queued>>

\* It is asked to scan above height h, where a block may be known already.
Rebase(h) ==
  /\ base' = h
  /\ tip' = NoBlock \/ (tip' \in Blocks /\ Height(tip') = h)
  /\ UNCHANGED <<delivered, queued>>

Deliver(b) ==
  /\ delivered' = delivered \cup {b}
  /\ UNCHANGED <<tip, base, queued>>

Queue(h) ==
  /\ queued' = queued \cup {h}
  /\ UNCHANGED <<tip, base, delivered>>

\* A height leaves the queue only if the block owed at that height was delivered.
Settle(h) ==
  /\ queued' = queued \ {h}
  /\ \A a \in Owed(tip) : Height(a) = h => a \in delivered
  /\ UNCHANGED <<tip, base, delivered>>

Next ==
  \/ \E b \in Blocks : Extend(b) \/ Retreat(b) \/ Deliver(b)
  \/ \E h \in Heights : Rebase(h) \/ Queue(h) \/ Settle(h)

Spec == Init /\ [][Next]_vars

\* What a follower promises: every block the observers are owed is kept.
NothingMissed == \A a \in Owed(tip) : Kept(a)
=============================================================================
