--------------------------- MODULE BatchContract ---------------------------
(***************************************************************************)
(* What BatchExtractTransaction promises its callers (ScanBlockTask,       *)
(* scanBlock, RescanFailedRecord): every transaction of the block is       *)
(* handled once, in any order, and then the call returns, with an error if *)
(* and only if an extraction failed.  BatchExtract.tla implements this     *)
(* with goroutines and channels; BlockScanner.tla uses it as one step.     *)
(***************************************************************************)
EXTENDS Naturals

CONSTANTS
  Caller,  \* concurrent calls: the scan task, and ScanBlock beside it
  Tx       \* the transactions a block may hold

VARIABLES
  phase,     \* per call: "idle", "running" or "returned"
  left,      \* per call: transactions of its block not handled yet
  delivered, \* per call: transactions every observer accepted
  recorded,  \* per call: was an unscan record saved for the block?
  failed,    \* per call: how many extractions failed
  result     \* per call: what it returned, "none" before

vars == <<phase, left, delivered, recorded, failed, result>>

Init ==
  /\ phase = [c \in Caller |-> "idle"]
  /\ left = [c \in Caller |-> {}]
  /\ delivered = [c \in Caller |-> {}]
  /\ recorded = [c \in Caller |-> FALSE]
  /\ failed = [c \in Caller |-> 0]
  /\ result = [c \in Caller |-> "none"]

Call(c, B) ==
  /\ phase[c] # "running"
  /\ left' = [left EXCEPT ![c] = B]
  /\ delivered' = [delivered EXCEPT ![c] = {}]
  /\ recorded' = [recorded EXCEPT ![c] = FALSE]
  /\ failed' = [failed EXCEPT ![c] = 0]
  /\ phase' = [phase EXCEPT ![c] = IF B = {} THEN "returned" ELSE "running"]
  /\ result' = [result EXCEPT ![c] = IF B = {} THEN "nil" ELSE "none"]

\* The transaction is extracted and its data delivered to every observer.
Deliver(c, t) ==
  /\ t \in left[c]
  /\ left' = [left EXCEPT ![c] = @ \ {t}]
  /\ delivered' = [delivered EXCEPT ![c] = @ \cup {t}]
  /\ UNCHANGED <<phase, recorded, failed, result>>

\* It is extracted, but an observer refuses the data: the block is recorded.
Refuse(c, t) ==
  /\ t \in left[c]
  /\ left' = [left EXCEPT ![c] = @ \ {t}]
  /\ recorded' = [recorded EXCEPT ![c] = TRUE]
  /\ UNCHANGED <<phase, delivered, failed, result>>

\* It cannot be extracted: the block is recorded and the call will fail.
Fail(c, t) ==
  /\ t \in left[c]
  /\ left' = [left EXCEPT ![c] = @ \ {t}]
  /\ recorded' = [recorded EXCEPT ![c] = TRUE]
  /\ failed' = [failed EXCEPT ![c] = @ + 1]
  /\ UNCHANGED <<phase, delivered, result>>

Return(c) ==
  /\ phase[c] = "running"
  /\ left[c] = {}
  /\ phase' = [phase EXCEPT ![c] = "returned"]
  /\ result' = [result EXCEPT ![c] = IF failed[c] > 0 THEN "error" ELSE "nil"]
  /\ UNCHANGED <<left, delivered, recorded, failed>>

Next ==
  \E c \in Caller :
    \/ \E B \in SUBSET Tx : Call(c, B)
    \/ \E t \in Tx : Deliver(c, t) \/ Refuse(c, t) \/ Fail(c, t)
    \/ Return(c)

Spec == Init /\ [][Next]_vars
=============================================================================
