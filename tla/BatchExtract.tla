---------------------------- MODULE BatchExtract ----------------------------
(***************************************************************************)
(* BatchExtractTransaction of xuperchain/blockscanner.go (lines 317-439)   *)
(* with its goroutines: extractWork, which starts one goroutine for each   *)
(* transaction, at most maxExtractingSize of them at a time over all       *)
(* calls (the channel bs.extractingCH is shared); saveWork, which hands    *)
(* the results to the observers or records the block; and extractRuntime,  *)
(* which moves results between the two over unbuffered channels and a      *)
(* queue until quit is closed.                                             *)
(*                                                                         *)
(* The stage of a transaction is the goroutine that has it.  Transactions  *)
(* carry no data and pass through the queue in any order: no property      *)
(* depends on which is first.                                              *)
(***************************************************************************)
EXTENDS Integers, FiniteSets

CONSTANTS
  Caller,            \* concurrent calls: the scan task, and ScanBlock beside it
  Tx,                \* the transactions a block may hold
  maxExtractingSize  \* capacity of bs.extractingCH

ASSUME BatchAssumption ==
  /\ IsFiniteSet(Caller)
  /\ IsFiniteSet(Tx)
  /\ maxExtractingSize \in Nat \ {0}

VARIABLES
  pc,         \* per call: "idle", "running" (in extractRuntime) or "returned"
  stage,      \* per call: where each transaction of its block is
  good,       \* per call: the transactions that were extracted with success
  done,       \* per call: done
  failed,     \* per call: failed
  quit,       \* per call: has quit been closed?
  tokens,     \* number of elements in bs.extractingCH
  releasing,  \* goroutines that sent their result and still hold a token
  delivered,  \* per call: transactions whose data every observer accepted
  recorded,   \* per call: was an unscan record saved for its block?
  result      \* per call: the value returned, "none" before

vars == <<pc, stage, good, done, failed, quit, tokens, releasing, delivered,
          recorded, result>>

Stages == {"absent", "waiting", "extracting", "sending", "queued", "saving",
           "counting", "saved"}

Block(c) == {t \in Tx : stage[c][t] # "absent"}

shouldDone(c) == Cardinality(Block(c))

In(c, S) == {t \in Tx : stage[c][t] \in S}

Move(c, t, s) == stage' = [stage EXCEPT ![c][t] = s]

\* The goroutines of transactions that hold a token and have not sent yet.
Working == {ct \in Caller \X Tx : stage[ct[1]][ct[2]] \in {"extracting", "sending"}}

----------------------------------------------------------------------------
Init ==
  /\ pc = [c \in Caller |-> "idle"]
  /\ stage = [c \in Caller |-> [t \in Tx |-> "absent"]]
  /\ good = [c \in Caller |-> {}]
  /\ done = [c \in Caller |-> 0]
  /\ failed = [c \in Caller |-> 0]
  /\ quit = [c \in Caller |-> FALSE]
  /\ tokens = 0
  /\ releasing = 0
  /\ delivered = [c \in Caller |-> {}]
  /\ recorded = [c \in Caller |-> FALSE]
  /\ result = [c \in Caller |-> "none"]

\* The call starts its goroutines; without transactions it returns at once.
BatchExtractTransaction(c, B) ==
  /\ pc[c] # "running"
  /\ stage' = [stage EXCEPT ![c] = [t \in Tx |-> IF t \in B THEN "waiting" ELSE "absent"]]
  /\ good' = [good EXCEPT ![c] = {}]
  /\ done' = [done EXCEPT ![c] = 0]
  /\ failed' = [failed EXCEPT ![c] = 0]
  /\ quit' = [quit EXCEPT ![c] = FALSE]
  /\ delivered' = [delivered EXCEPT ![c] = {}]
  /\ recorded' = [recorded EXCEPT ![c] = FALSE]
  /\ pc' = [pc EXCEPT ![c] = IF B = {} THEN "returned" ELSE "running"]
  /\ result' = [result EXCEPT ![c] = IF B = {} THEN "nil" ELSE "none"]
  /\ UNCHANGED <<tokens, releasing>>

\* Mutant of extractWork: one goroutine more than the channel has room for.
extractWorkOverfull(c) ==
  /\ tokens <= maxExtractingSize
  /\ \E t \in In(c, {"waiting"}) : Move(c, t, "extracting")
  /\ tokens' = tokens + 1
  /\ UNCHANGED <<pc, good, done, failed, quit, releasing, delivered, recorded, result>>

\* extractWork: bs.extractingCH <- struct{}{}, which blocks while the channel
\* is full, and the go statement.
extractWork(c) ==
  /\ tokens < maxExtractingSize
  /\ \E t \in In(c, {"waiting"}) : Move(c, t, "extracting")
  /\ tokens' = tokens + 1
  /\ UNCHANGED <<pc, good, done, failed, quit, releasing, delivered, recorded, result>>

\* The goroutine of a transaction: ExtractTransaction, with either outcome.
ExtractTransaction(c, t) ==
  /\ stage[c][t] = "extracting"
  /\ Move(c, t, "sending")
  /\ good' \in {good, [good EXCEPT ![c] = @ \cup {t}]}
  /\ UNCHANGED <<pc, done, failed, quit, tokens, releasing, delivered, recorded, result>>

\* Mutant of Produce: the goroutine ends without <-end.
ProduceAndLeak(c, t) ==
  /\ stage[c][t] = "sending"
  /\ pc[c] = "running"
  /\ Move(c, t, "queued")
  /\ UNCHANGED <<pc, good, done, failed, quit, tokens, releasing, delivered, recorded, result>>

\* mProducer <- result meets pa := <-producer, while extractRuntime is selecting.
Produce(c, t) ==
  /\ stage[c][t] = "sending"
  /\ pc[c] = "running"
  /\ Move(c, t, "queued")
  /\ releasing' = releasing + 1
  /\ UNCHANGED <<pc, good, done, failed, quit, tokens, delivered, recorded, result>>

\* <-end in the goroutine, whichever call it belongs to.
Release ==
  /\ releasing > 0
  /\ releasing' = releasing - 1
  /\ tokens' = tokens - 1
  /\ UNCHANGED <<pc, stage, good, done, failed, quit, delivered, recorded, result>>

\* activeWorker <- activeValue meets the range of saveWork, when that is waiting.
Consume(c, t) ==
  /\ stage[c][t] = "queued"
  /\ pc[c] = "running"
  /\ In(c, {"saving", "counting"}) = {}
  /\ Move(c, t, "saving")
  /\ UNCHANGED <<pc, good, done, failed, quit, tokens, releasing, delivered, recorded, result>>

\* saveWork, a result that was extracted: newExtractDataNotify gives the data
\* to every observer.  A refusal leaves an unscan record and no error.
NotifyAccepted(c, t) ==
  /\ stage[c][t] = "saving" /\ t \in good[c]
  /\ delivered' = [delivered EXCEPT ![c] = @ \cup {t}]
  /\ Move(c, t, "counting")
  /\ UNCHANGED <<pc, good, done, failed, quit, tokens, releasing, recorded, result>>

\* Mutant of NotifyRefused: no record is saved.
NotifyRefusedSilently(c, t) ==
  /\ stage[c][t] = "saving" /\ t \in good[c]
  /\ Move(c, t, "counting")
  /\ UNCHANGED <<pc, good, done, failed, quit, tokens, releasing, delivered, recorded, result>>

NotifyRefused(c, t) ==
  /\ stage[c][t] = "saving" /\ t \in good[c]
  /\ recorded' = [recorded EXCEPT ![c] = TRUE]
  /\ Move(c, t, "counting")
  /\ UNCHANGED <<pc, good, done, failed, quit, tokens, releasing, delivered, result>>

\* Mutant of SaveFailure: the result is queued again and not counted.
SaveFailureRetries(c, t) ==
  /\ stage[c][t] = "saving" /\ t \notin good[c]
  /\ Move(c, t, "queued")
  /\ UNCHANGED <<pc, good, done, failed, quit, tokens, releasing, delivered, recorded, result>>

\* saveWork, a result that was not: the block is recorded and failed++.
SaveFailure(c, t) ==
  /\ stage[c][t] = "saving" /\ t \notin good[c]
  /\ recorded' = [recorded EXCEPT ![c] = TRUE]
  /\ failed' = [failed EXCEPT ![c] = @ + 1]
  /\ Move(c, t, "counting")
  /\ UNCHANGED <<pc, good, done, quit, tokens, releasing, delivered, result>>

\* Mutant of CountDone: quit is closed one transaction early.
CountDoneEarly(c, t) ==
  /\ stage[c][t] = "counting"
  /\ done' = [done EXCEPT ![c] = @ + 1]
  /\ quit' = [quit EXCEPT ![c] = @ \/ done'[c] + 1 >= shouldDone(c)]
  /\ Move(c, t, "saved")
  /\ UNCHANGED <<pc, good, failed, tokens, releasing, delivered, recorded, result>>

\* done++, and close(quit) after the last one.
CountDone(c, t) ==
  /\ stage[c][t] = "counting"
  /\ done' = [done EXCEPT ![c] = @ + 1]
  /\ quit' = [quit EXCEPT ![c] = @ \/ done'[c] = shouldDone(c)]
  /\ Move(c, t, "saved")
  /\ UNCHANGED <<pc, good, failed, tokens, releasing, delivered, recorded, result>>

\* Mutant of Quit: a single failure is not reported.
QuitIgnoresOne(c) ==
  /\ pc[c] = "running"
  /\ quit[c]
  /\ pc' = [pc EXCEPT ![c] = "returned"]
  /\ result' = [result EXCEPT ![c] = IF failed[c] > 1 THEN "error" ELSE "nil"]
  /\ UNCHANGED <<stage, good, done, failed, quit, tokens, releasing, delivered, recorded>>

\* <-quit in extractRuntime, then the deferred closes and the result.
Quit(c) ==
  /\ pc[c] = "running"
  /\ quit[c]
  /\ pc' = [pc EXCEPT ![c] = "returned"]
  /\ result' = [result EXCEPT ![c] = IF failed[c] > 0 THEN "error" ELSE "nil"]
  /\ UNCHANGED <<stage, good, done, failed, quit, tokens, releasing, delivered, recorded>>

saveWork(c, t) == NotifyAccepted(c, t) \/ NotifyRefused(c, t) \/ SaveFailure(c, t) \/ CountDone(c, t)

Next ==
  \/ \E c \in Caller :
       \/ \E B \in SUBSET Tx : BatchExtractTransaction(c, B)
       \/ extractWork(c)
       \/ \E t \in Tx : ExtractTransaction(c, t) \/ Produce(c, t) \/ Consume(c, t) \/ saveWork(c, t)
       \/ Quit(c)
  \/ Release

Spec == Init /\ [][Next]_vars

\* Every goroutine that can go on does.  A goroutine blocked in a send on
\* bs.extractingCH is served in turn (the Go runtime queues blocked senders), so
\* extractWork cannot be overtaken for ever by another call: strong fairness.
Fairness ==
  /\ WF_vars(Release)
  /\ \A c \in Caller :
       /\ SF_vars(extractWork(c))
       /\ WF_vars(Quit(c))
       /\ \A t \in Tx :
            /\ WF_vars(ExtractTransaction(c, t))
            /\ WF_vars(Produce(c, t))
            /\ WF_vars(Consume(c, t))
            /\ WF_vars(saveWork(c, t))

FairSpec == Spec /\ Fairness

----------------------------------------------------------------------------
\* Properties.

\* The type of the state; with it, that neither the channel's elements nor done
\* exceed what the code sized them for (lines 321-326, 372-379).
TypeOK ==
  /\ pc \in [Caller -> {"idle", "running", "returned"}]
  /\ stage \in [Caller -> [Tx -> Stages]]
  /\ good \in [Caller -> SUBSET Tx]
  /\ done \in [Caller -> 0 .. Cardinality(Tx)]
  /\ failed \in [Caller -> Nat]
  /\ quit \in [Caller -> BOOLEAN]
  /\ tokens \in 0 .. maxExtractingSize
  /\ releasing \in 0 .. maxExtractingSize
  /\ delivered \in [Caller -> SUBSET Tx]
  /\ recorded \in [Caller -> BOOLEAN]
  /\ result \in [Caller -> {"none", "nil", "error"}]

\* The channel bs.extractingCH bounds the extractions of all calls together:
\* each of its elements belongs to one goroutine that is extracting, sending or
\* about to release, so none is leaked or released twice (lines 372-379).
TokensConserved == tokens = Cardinality(Working) + releasing

\* When a call returns, and closes producer and worker on its way out, every
\* transaction of its block has gone through saveWork: no goroutine is left that
\* would send on a closed channel, and none is counted twice (lines 334-394).
NothingLeftBehind == \A c \in Caller : pc[c] # "running" => In(c, Stages \ {"absent", "saved"}) = {}

\* A call that returned nil and left no unscan record has delivered the data of
\* the whole block, and one that returned an error has left a record, so that the
\* caller may ignore the error as ScanBlockTask does (lines 180-183, 343-359).
LostMeansRecorded ==
  \A c \in Caller : pc[c] = "returned" =>
    /\ delivered[c] = Block(c) \/ recorded[c]
    /\ result[c] = "error" => recorded[c]

\* The contract of BatchContract.tla, which BlockScanner.tla takes for the whole
\* call: a transaction is handled when saveWork has notified or recorded it.
Contract == INSTANCE BatchContract WITH
  phase <- pc,
  left  <- [c \in Caller |-> In(c, Stages \ {"absent", "counting", "saved"})]

\* Each call keeps that contract in every interleaving of its goroutines.
KeepsContract == Contract!Spec

\* Every call returns, though calls share the pool of extraction goroutines and
\* may be made again and again (lines 370-394).
EveryCallReturns == \A c \in Caller : pc[c] = "running" ~> pc[c] = "returned"
=============================================================================
