----------------------------- MODULE Extraction -----------------------------
(***************************************************************************)
(* The extraction of one transaction (xuperchain/blockscanner.go):         *)
(* ExtractTransaction with its loops over the inputs, the outputs and the  *)
(* contract requests, and what its three callers do with the result: the   *)
(* batch of a block, which notifies the observers, ExtractTransactionData, *)
(* and ExtractTransactionAndReceiptData.                                   *)
(*                                                                         *)
(* Every address and contract is looked up by a call of the application's  *)
(* ScanTargetFunc, so the application may begin to watch another one       *)
(* between two lookups: each turn of a loop is a step, also of the loop    *)
(* over the logs inside the one over the requests.                         *)
(***************************************************************************)
EXTENDS Integers, Sequences, FiniteSets, Functions

CONSTANTS
  Address,        \* addresses of accounts
  Module,         \* modules that run contracts
  Name,           \* contractName and Bucket: names within a module
  Key,            \* SourceKeys: accounts and contracts of the application
  Observer,       \* bs.Observers
  Tx,             \* transactions to extract
  Wallet,         \* what the application may watch when an extraction begins
  NotWatched,     \* the answer {Exist: false} of ScanTargetFunc
  NoReceipt,      \* the nil receipt
  \* Modelling bounds.
  MaxWatches,     \* targets the application begins to watch meanwhile
  MaxRefusals,    \* observers' errors
  MaxSaveFailures \* SaveUnscanRecord fails

\* Contracts, moduleName:contractName.
Contract == Module \X Name

Target == Address \cup Contract

\* TargetInfo of a contract: a *openwallet.SmartContract with or without an
\* ABI, or anything else.  For an address it is not looked at.
Infos == {"abi", "noabi", "other"}

Watches(t) ==
  [key : Key, info : IF t \in Contract THEN Infos ELSE {"other"}]

ASSUME ExtractionAssumption ==
  /\ Address \cap Contract = {}
  /\ Tx \subseteq [inputs : Seq(Address), outputs : Seq(Address),
                   requests : Seq(Contract), buckets : Seq(Name)]
  /\ Wallet \subseteq {w \in [Target -> [key : Key, info : Infos] \cup {NotWatched}] :
                         \A t \in Target : w[t] \in Watches(t) \cup {NotWatched}}
  /\ NotWatched \notin [key : Key, info : Infos]
  /\ NoReceipt \notin [contract : Contract, events : SUBSET Nat]
  /\ MaxWatches \in Nat
  /\ MaxRefusals \in Nat
  /\ MaxSaveFailures \in Nat

VARIABLES
  caller,    \* who extracts: the batch, or one of the two API calls
  tx,        \* the transaction
  watch,     \* what ScanTargetFunc answers for each target
  watch0,    \* history: what it answered when the extraction began
  pc,        \* where the extraction is
  i,         \* the index of the loop
  j,         \* the index of the loop over the logs, inside that over the requests
  targetResult, \* the answer for the request whose logs are read
  events,    \* the logs with events of a watched contract, so far
  data,      \* extractData: <<key, "in" or "out", index>> for each TxInput, TxOutPut
  receipts,  \* extractContractData
  success,   \* result.Success
  told,      \* <<observer, key>> notified, with the answer: did it accept?
  record,    \* has an unscan record been saved?
  budget     \* what the environment may still do

logs   == <<j, targetResult, events>>
result == <<data, receipts, success>>
effect == <<told, record>>
vars   == <<caller, tx, watch, watch0, pc, i, logs, result, effect, budget>>

Callers == {"batch", "data", "receipt"}
Kinds   == {"watch", "refusal", "save"}

Allowance == [k \in Kinds |->
  CASE k = "watch"   -> MaxWatches
    [] k = "refusal" -> MaxRefusals
    [] k = "save"    -> MaxSaveFailures]

Spend(k) == budget[k] > 0 /\ budget' = [budget EXCEPT ![k] = @ - 1]

Receipts == [contract : Contract, events : SUBSET Nat]

----------------------------------------------------------------------------
\* ScanTargetFunc.  The wrapper of ExtractTransactionData passes on the key
\* and drops the TargetInfo.

ScanTarget(t) ==
  IF watch[t] # NotWatched /\ caller = "data" THEN [watch[t] EXCEPT !.info = "other"] ELSE watch[t]

IsSmartContract(answer) == answer.info \in {"abi", "noabi"}

----------------------------------------------------------------------------
\* extractTransaction.

\* The turn of a loop for a target: a watched one adds its entry.
AddEntry(t, side) ==
  data' = IF ScanTarget(t) = NotWatched THEN data
          ELSE data \cup {<<ScanTarget(t).key, side, i>>}

ExtractTxInput ==
  /\ pc = "inputs" /\ i <= Len(tx.inputs)
  /\ AddEntry(tx.inputs[i], "in")
  /\ i' = i + 1
  /\ UNCHANGED <<caller, tx, watch, watch0, pc, logs, receipts, success, effect, budget>>

\* Mutant of InputsDone: the next loop starts at 0.
InputsDoneAtZero ==
  /\ pc = "inputs" /\ i > Len(tx.inputs)
  /\ pc' = "outputs" /\ i' = 0
  /\ UNCHANGED <<caller, tx, watch, watch0, logs, result, effect, budget>>

InputsDone ==
  /\ pc = "inputs" /\ i > Len(tx.inputs)
  /\ pc' = "outputs" /\ i' = 1
  /\ UNCHANGED <<caller, tx, watch, watch0, logs, result, effect, budget>>

\* Mutant of ExtractTxOutput: the loop stops before the last output.
ExtractTxOutputSkipsLast ==
  /\ pc = "outputs" /\ i <= Len(tx.outputs)
  /\ IF i < Len(tx.outputs) THEN AddEntry(tx.outputs[i], "out") ELSE UNCHANGED data
  /\ i' = i + 1
  /\ UNCHANGED <<caller, tx, watch, watch0, pc, logs, receipts, success, effect, budget>>

ExtractTxOutput ==
  /\ pc = "outputs" /\ i <= Len(tx.outputs)
  /\ AddEntry(tx.outputs[i], "out")
  /\ i' = i + 1
  /\ UNCHANGED <<caller, tx, watch, watch0, pc, logs, receipts, success, effect, budget>>

OutputsDone ==
  /\ pc = "outputs" /\ i > Len(tx.outputs)
  /\ success' = TRUE
  /\ pc' = "requests" /\ i' = 1
  /\ UNCHANGED <<caller, tx, watch, watch0, logs, data, receipts, effect, budget>>

----------------------------------------------------------------------------
\* extractSmartContractTransaction.

\* The call returns: the caller looks at Success.
Extracted == pc' = "extracted" /\ i' = 1

RequestNotWatched ==
  /\ pc = "requests" /\ i <= Len(tx.requests)
  /\ ScanTarget(tx.requests[i]) = NotWatched
  /\ i' = i + 1
  /\ UNCHANGED <<caller, tx, watch, watch0, pc, logs, result, effect, budget>>

\* Mutant of RequestNotContract: continue instead of return.
RequestNotContractSkipped ==
  /\ pc = "requests" /\ i <= Len(tx.requests)
  /\ LET answer == ScanTarget(tx.requests[i])
     IN  answer # NotWatched /\ ~IsSmartContract(answer)
  /\ i' = i + 1
  /\ UNCHANGED <<caller, tx, watch, watch0, pc, logs, result, effect, budget>>

\* The TargetInfo is not a contract: the extraction fails.
RequestNotContract ==
  /\ pc = "requests" /\ i <= Len(tx.requests)
  /\ LET answer == ScanTarget(tx.requests[i])
     IN  answer # NotWatched /\ ~IsSmartContract(answer)
  /\ success' = FALSE
  /\ Extracted
  /\ UNCHANGED <<caller, tx, watch, watch0, logs, data, receipts, effect, budget>>

\* The contract has no ABI: the whole call returns, without an error.
RequestWithoutABI ==
  /\ pc = "requests" /\ i <= Len(tx.requests)
  /\ ScanTarget(tx.requests[i]) # NotWatched
  /\ ScanTarget(tx.requests[i]).info = "noabi"
  /\ Extracted
  /\ UNCHANGED <<caller, tx, watch, watch0, logs, result, effect, budget>>

\* Mutant of RequestWithABI: the events are declared outside the loop.
RequestWithABIKeepsEvents ==
  /\ pc = "requests" /\ i <= Len(tx.requests)
  /\ LET answer == ScanTarget(tx.requests[i])
     IN  answer # NotWatched /\ answer.info = "abi" /\ targetResult' = answer
  /\ pc' = "logs" /\ j' = 1
  /\ UNCHANGED <<caller, tx, watch, watch0, i, events, result, effect, budget>>

\* A contract with an ABI: its logs are read.
RequestWithABI ==
  /\ pc = "requests" /\ i <= Len(tx.requests)
  /\ LET answer == ScanTarget(tx.requests[i])
     IN  answer # NotWatched /\ answer.info = "abi" /\ targetResult' = answer
  /\ pc' = "logs" /\ j' = 1 /\ events' = {}
  /\ UNCHANGED <<caller, tx, watch, watch0, i, result, effect, budget>>

\* The contract of a log: its bucket is a name in the module of the request, in
\* whichever module it has written.
LogContract(request, bucket) == <<request[1], bucket>>

\* Its answer, in the turn of the loop over the logs.
LogTarget == ScanTarget(LogContract(tx.requests[i], tx.buckets[j]))

LogNotWatched ==
  /\ pc = "logs" /\ j <= Len(tx.buckets)
  /\ LogTarget = NotWatched
  /\ j' = j + 1
  /\ UNCHANGED <<caller, tx, watch, watch0, pc, i, targetResult, events, result, effect, budget>>

\* The contract of the log is none: the extraction fails.
LogNotContract ==
  /\ pc = "logs" /\ j <= Len(tx.buckets)
  /\ LogTarget # NotWatched /\ ~IsSmartContract(LogTarget)
  /\ success' = FALSE
  /\ Extracted
  /\ UNCHANGED <<caller, tx, watch, watch0, logs, data, receipts, effect, budget>>

\* The events of the log; their contract needs no ABI.
LogEvents ==
  /\ pc = "logs" /\ j <= Len(tx.buckets)
  /\ LogTarget # NotWatched /\ IsSmartContract(LogTarget)
  /\ events' = events \cup {j}
  /\ j' = j + 1
  /\ UNCHANGED <<caller, tx, watch, watch0, pc, i, targetResult, result, effect, budget>>

\* Mutant of LogsDone: a receipt that is there is kept, as for the entries of
\* inputs and outputs.
LogsDoneOnce ==
  /\ pc = "logs" /\ j > Len(tx.buckets)
  /\ receipts' = [receipts EXCEPT ![targetResult.key] =
       IF @ # NoReceipt THEN @ ELSE [contract |-> tx.requests[i], events |-> events]]
  /\ pc' = "requests" /\ i' = i + 1
  /\ UNCHANGED <<caller, tx, watch, watch0, logs, data, success, effect, budget>>

\* The receipt of the request.  It replaces an earlier one under the same key.
LogsDone ==
  /\ pc = "logs" /\ j > Len(tx.buckets)
  /\ receipts' = [receipts EXCEPT ![targetResult.key] =
       [contract |-> tx.requests[i], events |-> events]]
  /\ pc' = "requests" /\ i' = i + 1
  /\ UNCHANGED <<caller, tx, watch, watch0, logs, data, success, effect, budget>>

RequestsDone ==
  /\ pc = "requests" /\ i > Len(tx.requests)
  /\ Extracted
  /\ UNCHANGED <<caller, tx, watch, watch0, logs, result, effect, budget>>

----------------------------------------------------------------------------
\* The callers.

SourceKeys == {entry[1] : entry \in data}

\* SaveUnscanRecord; its error is only logged.
SaveUnscanRecord ==
  \/ record' = TRUE /\ UNCHANGED budget
  \/ Spend("save") /\ UNCHANGED record

\* saveWork: a failed extraction is recorded, a good one is delivered.
BatchFails ==
  /\ pc = "extracted" /\ caller = "batch" /\ ~success
  /\ SaveUnscanRecord
  /\ pc' = "error"
  /\ UNCHANGED <<caller, tx, watch, watch0, i, logs, result, told>>

BatchNotifies ==
  /\ pc = "extracted" /\ caller = "batch" /\ success
  /\ pc' = "notify"
  /\ UNCHANGED <<caller, tx, watch, watch0, i, logs, result, effect, budget>>

\* The two API calls return an error or what was extracted.
ApiReturns ==
  /\ pc = "extracted" /\ caller # "batch"
  /\ pc' = IF success THEN "done" ELSE "error"
  /\ UNCHANGED <<caller, tx, watch, watch0, i, logs, result, effect, budget>>

\* newExtractDataNotify: the observers in any order, and for each the keys in
\* any order.
Asked(o) == {k \in SourceKeys : \E a \in BOOLEAN : <<o, k, a>> \in told}

Turn(o) == \A p \in Observer \ {o} : Asked(p) \in {{}, SourceKeys}

Accepts ==
  /\ pc = "notify"
  /\ \E o \in Observer : \E k \in SourceKeys \ Asked(o) :
       Turn(o) /\ told' = told \cup {<<o, k, TRUE>>}
  /\ UNCHANGED <<caller, tx, watch, watch0, pc, i, logs, result, record, budget>>

\* An observer returns an error: the height is recorded, the loop goes on.
Refuses ==
  /\ pc = "notify"
  /\ budget["refusal"] > 0
  /\ \E o \in Observer : \E k \in SourceKeys \ Asked(o) :
       Turn(o) /\ told' = told \cup {<<o, k, FALSE>>}
  /\ \/ /\ record' = TRUE
        /\ budget' = [budget EXCEPT !["refusal"] = @ - 1]
     \/ /\ budget["save"] > 0
        /\ budget' = [budget EXCEPT !["refusal"] = @ - 1, !["save"] = @ - 1]
        /\ UNCHANGED record
  /\ UNCHANGED <<caller, tx, watch, watch0, pc, i, logs, result>>

NotifyDone ==
  /\ pc = "notify"
  /\ \A o \in Observer : Asked(o) = SourceKeys
  /\ pc' = "done"
  /\ UNCHANGED <<caller, tx, watch, watch0, i, logs, result, effect, budget>>

----------------------------------------------------------------------------
\* The application begins to watch a target.
Watch ==
  /\ pc \notin {"done", "error"}
  /\ Spend("watch")
  /\ \E t \in Target :
       /\ watch[t] = NotWatched
       /\ \E answer \in Watches(t) : watch' = [watch EXCEPT ![t] = answer]
  /\ UNCHANGED <<caller, tx, watch0, pc, i, logs, result, effect>>

Init ==
  /\ caller \in Callers
  /\ tx \in Tx
  /\ watch \in Wallet
  /\ watch0 = watch
  /\ pc = "inputs"
  /\ i = 1
  /\ j = 1 /\ targetResult = NotWatched /\ events = {}
  /\ data = {}
  /\ receipts = [k \in Key |-> NoReceipt]
  /\ success = FALSE
  /\ told = {}
  /\ record = FALSE
  /\ budget = Allowance

extractTransaction == ExtractTxInput \/ InputsDone \/ ExtractTxOutput \/ OutputsDone

extractSmartContractTransaction ==
  \/ RequestNotWatched \/ RequestNotContract \/ RequestWithoutABI \/ RequestWithABI \/ RequestsDone
  \/ LogNotWatched \/ LogNotContract \/ LogEvents \/ LogsDone

Next ==
  \/ extractTransaction \/ extractSmartContractTransaction
  \/ BatchFails \/ BatchNotifies \/ ApiReturns \/ Accepts \/ Refuses \/ NotifyDone
  \/ Watch

Spec == Init /\ [][Next]_vars

----------------------------------------------------------------------------
\* Properties.

TypeOK ==
  /\ caller \in Callers
  /\ tx \in Tx
  /\ \A t \in Target : {watch[t], watch0[t]} \subseteq Watches(t) \cup {NotWatched}
  /\ pc \in {"inputs", "outputs", "requests", "logs", "extracted", "notify", "done", "error"}
  /\ {i, j} \subseteq Nat \ {0}
  /\ targetResult \in [key : Key, info : Infos] \cup {NotWatched}
  /\ events \subseteq Nat
  /\ data \subseteq Key \X {"in", "out"} \X Nat
  /\ receipts \in [Key -> Receipts \cup {NoReceipt}]
  /\ success \in BOOLEAN
  /\ told \subseteq Observer \X Key \X BOOLEAN
  /\ record \in BOOLEAN
  /\ budget \in [Kinds -> Nat]

\* Where the data of a transaction shows an address: in its inputs or outputs.
Places(t) ==
  {<<"in", n>> : n \in {n \in DOMAIN tx.inputs : tx.inputs[n] = t}} \cup
  {<<"out", n>> : n \in {n \in DOMAIN tx.outputs : tx.outputs[n] = t}}

\* However the application adds to what it watches meanwhile: an address it
\* watched from the beginning is extracted in all its places, under its key,
\* and nothing is extracted that is not there and watched (extractTxInput and
\* extractTxOutput).
WatchedIsExtracted ==
  pc \in {"extracted", "notify", "done"} =>
    /\ \A t \in Address : watch0[t] # NotWatched =>
         \A p \in Places(t) : <<watch0[t].key, p[1], p[2]>> \in data
    /\ \A entry \in data : \E t \in Address :
         <<entry[2], entry[3]>> \in Places(t) /\ watch[t] # NotWatched /\ watch[t].key = entry[1]

\* A request before the n-th ends the loop: its contract is watched without an
\* ABI (lines 674-676 return instead of continuing).
EndsBefore(n) ==
  \E m \in 1 .. n - 1 : watch[tx.requests[m]] # NotWatched /\ watch[tx.requests[m]].info = "noabi"

\* A contract that was watched with its ABI from the beginning has a receipt
\* under its key, of its own request or of a later one, unless an earlier
\* request of the transaction ends the loop.
ReceiptsComplete ==
  pc \in {"extracted", "notify", "done"} /\ success /\ caller # "data" =>
    \A n \in DOMAIN tx.requests :
      watch0[tx.requests[n]] # NotWatched /\ watch0[tx.requests[n]].info = "abi" =>
        \/ \E m \in n .. Len(tx.requests) :
             /\ receipts[watch0[tx.requests[n]].key] # NoReceipt
             /\ receipts[watch0[tx.requests[n]].key].contract = tx.requests[m]
        \/ EndsBefore(n)

\* A receipt has all the events of the contracts that its own module has under
\* the names in the logs, if they were watched from the beginning: none is lost
\* to a lookup for another request, and none is of a contract that is not
\* watched, or that is watched as something else (lines 687-723).
ReceiptsHaveOwnEvents ==
  \A k \in Key : receipts[k] # NoReceipt =>
    /\ receipts[k].events \subseteq DOMAIN tx.buckets
    /\ \A b \in DOMAIN tx.buckets :
         LET t == LogContract(receipts[k].contract, tx.buckets[b])
         IN  /\ watch0[t] # NotWatched => b \in receipts[k].events
             /\ b \in receipts[k].events => watch[t] # NotWatched /\ watch[t].info # "other"

\* The n-th request is of a contract that is watched as something else - as all
\* are for ExtractTransactionData, whose wrapper drops the TargetInfo - or is of
\* one with an ABI and its module has such a contract under the name of a log.
Misfit(w, n) ==
  LET c == tx.requests[n]
  IN  w[c] # NotWatched /\
        \/ caller = "data" \/ w[c].info = "other"
        \/ /\ w[c].info = "abi"
           /\ \E b \in DOMAIN tx.buckets :
                LET t == LogContract(c, tx.buckets[b])
                IN  w[t] # NotWatched /\ w[t].info = "other"

\* An extraction fails only for a request that does not fit what is watched, and
\* does fail for one that did not from the beginning and that the loop comes to.
\* It fails as a whole: nothing reaches an observer, and the block is recorded
\* for a rescan unless the store fails too (lines 353-359, 665-671, 704-709).
FailuresHaveACause ==
  /\ pc = "error" => /\ \E n \in DOMAIN tx.requests : Misfit(watch, n)
                     /\ told = {}
                     /\ caller = "batch" => record \/ budget["save"] < MaxSaveFailures
  /\ pc \in {"extracted", "notify", "done"} /\ success =>
       \A n \in DOMAIN tx.requests : Misfit(watch0, n) => EndsBefore(n)
=============================================================================
