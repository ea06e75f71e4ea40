--------------------------- MODULE ExtractionProofs ---------------------------
(***************************************************************************)
(* Proofs about the extraction of a transaction, for any transactions,     *)
(* targets, observers and bounds.                                          *)
(***************************************************************************)
EXTENDS Extraction, TLAPS

----------------------------------------------------------------------------
\* What the proofs keep: the turns of the loops that are over have done their
\* part, and what was watched from the beginning is watched as it was.

WatchGrows ==
  /\ watch \in [Target -> [key : Key, info : Infos] \cup {NotWatched}]
  /\ \A t \in Target : watch0[t] # NotWatched => watch[t] = watch0[t]

Found(t, side, n) == watch0[t] # NotWatched => <<watch0[t].key, side, n>> \in data

InputsFound ==
  \A n \in DOMAIN tx.inputs : pc # "inputs" \/ n < i => Found(tx.inputs[n], "in", n)

OutputsFound ==
  \A n \in DOMAIN tx.outputs :
    pc \notin {"inputs", "outputs"} \/ (pc = "outputs" /\ n < i) => Found(tx.outputs[n], "out", n)

\* An entry has an address, with the place it is in.
OfAddress(entry, t) ==
  /\ \/ entry[2] = "in" /\ entry[3] \in DOMAIN tx.inputs /\ tx.inputs[entry[3]] = t
     \/ entry[2] = "out" /\ entry[3] \in DOMAIN tx.outputs /\ tx.outputs[entry[3]] = t
  /\ watch[t] # NotWatched /\ watch[t].key = entry[1]

OnlyWatched == \A entry \in data : \E t \in Address : OfAddress(entry, t)

HasABI(n) == watch0[tx.requests[n]] # NotWatched /\ watch0[tx.requests[n]].info = "abi"

HasReceipt(n) ==
  HasABI(n) => \E m \in n .. Len(tx.requests) :
                 /\ receipts[watch0[tx.requests[n]].key] # NoReceipt
                 /\ receipts[watch0[tx.requests[n]].key].contract = tx.requests[m]

\* The turn for the n-th request is over and has not ended the loop.
Passed(n) == ~Misfit(watch0, n) /\ HasReceipt(n)

RequestsPassed ==
  /\ pc \in {"requests", "logs"} => success /\ \A n \in DOMAIN tx.requests : n < i => Passed(n)
  /\ pc \in {"extracted", "notify", "done"} /\ success =>
       \A n \in DOMAIN tx.requests : Passed(n) \/ EndsBefore(n)

\* What fails has a cause, and what is notified has not failed.
Caused ==
  /\ pc \in {"extracted", "error"} /\ ~success => \E n \in DOMAIN tx.requests : Misfit(watch, n)
  /\ pc = "error" => ~success
  /\ pc \in {"notify", "done"} => success

\* Whether the log belongs to the events E of a receipt of contract c.
OwnEvent(c, b, E) ==
  /\ watch0[LogContract(c, tx.buckets[b])] # NotWatched => b \in E
  /\ b \in E => /\ watch[LogContract(c, tx.buckets[b])] # NotWatched
                 /\ watch[LogContract(c, tx.buckets[b])].info # "other"

\* The turns of the loop over the logs that are over.
LogsPassed ==
  pc = "logs" =>
    /\ i \in DOMAIN tx.requests /\ caller # "data"
    /\ targetResult = watch[tx.requests[i]] /\ targetResult # NotWatched /\ targetResult.info = "abi"
    /\ \A b \in events : b \in DOMAIN tx.buckets /\ b < j
    /\ \A b \in DOMAIN tx.buckets : b < j => OwnEvent(tx.requests[i], b, events)

\* Nothing is told before everything is extracted, and every failure has tried
\* to save a record.
Tried == record \/ budget["save"] < MaxSaveFailures

Telling ==
  /\ pc \notin {"notify", "done"} => told = {}
  /\ pc = "error" /\ caller = "batch" => Tried

IInv == /\ TypeOK /\ WatchGrows /\ budget["save"] <= MaxSaveFailures
        /\ InputsFound /\ OutputsFound /\ OnlyWatched
        /\ RequestsPassed /\ LogsPassed /\ ReceiptsHaveOwnEvents /\ Caused /\ Telling

----------------------------------------------------------------------------
\* The operators.

\* The parts of a transaction are sequences of targets.
LEMMA TxFacts ==
  ASSUME TypeOK
  PROVE  /\ tx.inputs \in Seq(Address) /\ tx.outputs \in Seq(Address)
         /\ tx.requests \in Seq(Contract) /\ tx.buckets \in Seq(Name)
         /\ DOMAIN tx.inputs = 1 .. Len(tx.inputs) /\ DOMAIN tx.outputs = 1 .. Len(tx.outputs)
         /\ DOMAIN tx.requests = 1 .. Len(tx.requests) /\ DOMAIN tx.buckets = 1 .. Len(tx.buckets)
         /\ \A n \in DOMAIN tx.inputs : tx.inputs[n] \in Address
         /\ \A n \in DOMAIN tx.outputs : tx.outputs[n] \in Address
         /\ \A n \in DOMAIN tx.requests : tx.requests[n] \in Contract
         /\ \A n \in DOMAIN tx.buckets : tx.buckets[n] \in Name
         /\ \A c \in Contract : \A b \in DOMAIN tx.buckets : LogContract(c, tx.buckets[b]) \in Target
<1>1. tx \in [inputs : Seq(Address), outputs : Seq(Address),
              requests : Seq(Contract), buckets : Seq(Name)]
  BY ExtractionAssumption DEF TypeOK
<1>2. /\ tx.inputs \in Seq(Address) /\ tx.outputs \in Seq(Address)
      /\ tx.requests \in Seq(Contract) /\ tx.buckets \in Seq(Name)
  BY <1>1
<1>3. \A S : \A s \in Seq(S) : DOMAIN s = 1 .. Len(s) /\ \A n \in DOMAIN s : s[n] \in S
  OBVIOUS
<1>4. \A c \in Contract : \A m \in Name : LogContract(c, m) \in Target
  BY DEF LogContract, Contract, Target
<1> QED
  BY <1>2, <1>3, <1>4

\* The lookup finds what is watched, with its key; the wrapper drops the info.
LEMMA ScanTargetFacts ==
  ASSUME WatchGrows, NEW t \in Target
  PROVE  /\ ScanTarget(t) = NotWatched <=> watch[t] = NotWatched
         /\ ScanTarget(t) \in [key : Key, info : Infos] \cup {NotWatched}
         /\ watch[t] # NotWatched => /\ watch[t].key \in Key
                                     /\ ScanTarget(t).key = watch[t].key
                                     /\ ScanTarget(t).info = IF caller = "data" THEN "other" ELSE watch[t].info
<1>1. watch[t] \in [key : Key, info : Infos] \cup {NotWatched}
  BY DEF WatchGrows
<1>2. \A w \in [key : Key, info : Infos] :
        /\ [w EXCEPT !.info = "other"] \in [key : Key, info : Infos]
        /\ [w EXCEPT !.info = "other"].key = w.key /\ [w EXCEPT !.info = "other"].info = "other"
        /\ w.key \in Key
  BY DEF Infos
<1> QED
  BY <1>1, <1>2, ExtractionAssumption DEF ScanTarget

\* A turn of the first two loops.
LEMMA AddEntryFacts ==
  ASSUME TypeOK, WatchGrows, OnlyWatched, NEW t \in Address, NEW side \in {"in", "out"},
         AddEntry(t, side), UNCHANGED <<watch, watch0, tx>>,
         \/ side = "in" /\ i \in DOMAIN tx.inputs /\ tx.inputs[i] = t
         \/ side = "out" /\ i \in DOMAIN tx.outputs /\ tx.outputs[i] = t
  PROVE  /\ data \subseteq data'
         /\ watch0[t] # NotWatched => <<watch0[t].key, side, i>> \in data'
         /\ data' \subseteq Key \X {"in", "out"} \X Nat
         /\ OnlyWatched'
<1> DEFINE entry == <<watch[t].key, side, i>>
<1>1. t \in Target
  BY DEF Target
<1>2. data' = IF watch[t] = NotWatched THEN data ELSE data \cup {entry}
  BY <1>1, ScanTargetFacts DEF AddEntry
<1>3. watch[t] # NotWatched => entry \in Key \X {"in", "out"} \X Nat /\ OfAddress(entry, t)
  BY <1>1, ScanTargetFacts DEF TypeOK, OfAddress
<1>4. \A e, q : OfAddress(e, q)' = OfAddress(e, q)
  BY DEF OfAddress
<1>5. watch0[t] # NotWatched => entry = <<watch0[t].key, side, i>> /\ watch[t] # NotWatched
  BY <1>1 DEF WatchGrows
<1> HIDE DEF entry
<1>6. data \subseteq data' /\ data' \subseteq Key \X {"in", "out"} \X Nat
  BY <1>2, <1>3 DEF TypeOK
<1>7. OnlyWatched'
  BY <1>2, <1>3, <1>4 DEF OnlyWatched
<1>8. watch0[t] # NotWatched => <<watch0[t].key, side, i>> \in data'
  BY <1>2, <1>5
<1> QED
  BY <1>6, <1>7, <1>8

----------------------------------------------------------------------------
\* The steps.

\* The two parts of the type invariant: the targets and the rest.
WatchTyped == \A t \in Target : {watch[t], watch0[t]} \subseteq Watches(t) \cup {NotWatched}

Steps == {"inputs", "outputs", "requests", "logs", "extracted", "notify", "done", "error"}

RestTyped ==
  /\ caller \in Callers
  /\ tx \in Tx
  /\ pc \in Steps
  /\ {i, j} \subseteq Nat \ {0}
  /\ targetResult \in [key : Key, info : Infos] \cup {NotWatched}
  /\ events \subseteq Nat
  /\ data \subseteq Key \X {"in", "out"} \X Nat
  /\ receipts \in [Key -> Receipts \cup {NoReceipt}]
  /\ success \in BOOLEAN
  /\ told \subseteq Observer \X Key \X BOOLEAN
  /\ record \in BOOLEAN
  /\ budget \in [Kinds -> Nat]

LEMMA TypeParts == TypeOK <=> WatchTyped /\ RestTyped
  BY DEF TypeOK, WatchTyped, RestTyped, Steps

\* What is spent was there.
LEMMA SpendFacts ==
  ASSUME budget \in [Kinds -> Nat]
  PROVE  /\ \A k \in Kinds : Spend(k) => budget' \in [Kinds -> Nat]
         /\ \A k \in Kinds : Spend(k) => budget'[k] = budget[k] - 1 /\ \A q \in Kinds \ {k} : budget'[q] = budget[q]
         /\ Refuses => /\ budget' \in [Kinds -> Nat]
                       /\ \/ record' /\ budget'["save"] = budget["save"]
                          \/ budget'["save"] = budget["save"] - 1
<1>1. /\ \A k \in Kinds : Spend(k) => budget' \in [Kinds -> Nat]
      /\ \A k \in Kinds : Spend(k) => budget'[k] = budget[k] - 1 /\ \A q \in Kinds \ {k} : budget'[q] = budget[q]
  BY DEF Spend
<1>2. ASSUME Refuses
      PROVE  /\ budget' \in [Kinds -> Nat]
             /\ \/ record' /\ budget'["save"] = budget["save"]
                \/ budget'["save"] = budget["save"] - 1
  <2>1. budget["refusal"] > 0
    BY <1>2 DEF Refuses
  <2>2. CASE record' = TRUE /\ budget' = [budget EXCEPT !["refusal"] = @ - 1]
    BY <2>1, <2>2 DEF Kinds
  <2>3. CASE budget["save"] > 0 /\ budget' = [budget EXCEPT !["refusal"] = @ - 1, !["save"] = @ - 1]
    BY <2>1, <2>3 DEF Kinds
  <2> QED
    BY <1>2, <2>2, <2>3 DEF Refuses
<1> QED
  BY <1>1, <1>2

\* Every step keeps the types.
LEMMA RestStep == IInv /\ [Next]_vars => RestTyped'
<1> SUFFICES ASSUME IInv, [Next]_vars PROVE RestTyped'
  OBVIOUS
<1> USE DEF result, effect, logs
<1>a. TypeOK /\ RestTyped /\ WatchGrows /\ OnlyWatched
  BY TypeParts DEF IInv
<1>1. CASE extractTransaction
  <2>1. CASE ExtractTxInput
    <3>1. i \in DOMAIN tx.inputs /\ tx.inputs[i] \in Address
      BY <1>a, <2>1, TxFacts DEF ExtractTxInput, RestTyped
    <3>2. data' \subseteq Key \X {"in", "out"} \X Nat
      BY <1>a, <2>1, <3>1, AddEntryFacts DEF ExtractTxInput
    <3> QED
      BY <1>a, <2>1, <3>2 DEF ExtractTxInput, RestTyped
  <2>2. CASE ExtractTxOutput
    <3>1. i \in DOMAIN tx.outputs /\ tx.outputs[i] \in Address
      BY <1>a, <2>2, TxFacts DEF ExtractTxOutput, RestTyped
    <3>2. data' \subseteq Key \X {"in", "out"} \X Nat
      BY <1>a, <2>2, <3>1, AddEntryFacts DEF ExtractTxOutput
    <3> QED
      BY <1>a, <2>2, <3>2 DEF ExtractTxOutput, RestTyped
  <2>3. CASE InputsDone
    BY <1>a, <2>3 DEF InputsDone, RestTyped, Steps
  <2>4. CASE OutputsDone
    BY <1>a, <2>4 DEF OutputsDone, RestTyped, Steps
  <2> QED
    BY <1>1, <2>1, <2>2, <2>3, <2>4 DEF extractTransaction
<1>2. CASE extractSmartContractTransaction
  <2>0. UNCHANGED <<caller, tx, data, told, record, budget>>
    BY <1>2 DEF extractSmartContractTransaction, RequestNotWatched, RequestNotContract,
      RequestWithoutABI, RequestWithABI, RequestsDone, LogNotWatched, LogNotContract, LogEvents,
      LogsDone
  <2>1. /\ caller' \in Callers /\ tx' \in Tx /\ data' \subseteq Key \X {"in", "out"} \X Nat
        /\ told' \subseteq Observer \X Key \X BOOLEAN /\ record' \in BOOLEAN /\ budget' \in [Kinds -> Nat]
    BY <1>a, <2>0 DEF RestTyped
  <2>2. i' \in {i, i + 1, 1} /\ j' \in {j, j + 1, 1} /\ pc' \in {pc, "extracted", "logs", "requests"}
    BY <1>2 DEF Extracted, extractSmartContractTransaction, RequestNotWatched, RequestNotContract,
      RequestWithoutABI, RequestWithABI, RequestsDone, LogNotWatched, LogNotContract, LogEvents,
      LogsDone
  <2>3. {i', j'} \subseteq Nat \ {0} /\ pc' \in Steps
    <3>1. i \in Nat \ {0} /\ j \in Nat \ {0} /\ pc \in Steps
      BY <1>a DEF RestTyped
    <3> QED
      BY <2>2, <3>1 DEF Steps
  <2>4. success' \in BOOLEAN
    <3>1. success' = success \/ success' = FALSE
      BY <1>2, Zenon DEF extractSmartContractTransaction, RequestNotWatched, RequestNotContract,
        RequestWithoutABI, RequestWithABI, RequestsDone, LogNotWatched, LogNotContract, LogEvents,
        LogsDone
    <3> QED
      BY <1>a, <3>1, Zenon DEF RestTyped
  <2>5. targetResult' \in [key : Key, info : Infos] \cup {NotWatched}
    <3>1. CASE RequestWithABI
      <4>1. i \in DOMAIN tx.requests /\ tx.requests[i] \in Target
        BY <1>a, <3>1, TxFacts DEF RequestWithABI, RestTyped, Target
      <4>2. ScanTarget(tx.requests[i]) \in [key : Key, info : Infos] \cup {NotWatched}
        BY <1>a, <4>1, ScanTargetFacts
      <4> QED
        BY <3>1, <4>2 DEF RequestWithABI
    <3>2. CASE ~RequestWithABI
      <4>1. targetResult' = targetResult
        BY <1>2, <3>2 DEF extractSmartContractTransaction, RequestNotWatched, RequestNotContract,
          RequestWithoutABI, RequestsDone, LogNotWatched, LogNotContract, LogEvents, LogsDone
      <4> QED
        BY <1>a, <4>1 DEF RestTyped
    <3> QED
      BY <3>1, <3>2
  <2>6. events' \subseteq Nat
    <3>1. events' \in {events, {}, events \cup {j}}
      BY <1>2 DEF extractSmartContractTransaction, RequestNotWatched, RequestNotContract,
        RequestWithoutABI, RequestWithABI, RequestsDone, LogNotWatched, LogNotContract, LogEvents,
        LogsDone
    <3> QED
      BY <1>a, <3>1 DEF RestTyped
  <2>7. receipts' \in [Key -> Receipts \cup {NoReceipt}]
    <3>0. receipts \in [Key -> Receipts \cup {NoReceipt}] /\ events \subseteq Nat
      BY <1>a DEF RestTyped
    <3>1. CASE LogsDone
      <4>1. i \in DOMAIN tx.requests /\ tx.requests[i] \in Contract
        BY <1>a, <3>1, TxFacts DEF IInv, LogsPassed, LogsDone
      <4>2. [contract |-> tx.requests[i], events |-> events] \in Receipts
        BY <3>0, <4>1 DEF Receipts
      <4> QED
        BY <3>0, <3>1, <4>2 DEF LogsDone
    <3>2. CASE ~LogsDone
      <4>1. receipts' = receipts
        BY <1>2, <3>2 DEF extractSmartContractTransaction, RequestNotWatched, RequestNotContract,
          RequestWithoutABI, RequestWithABI, RequestsDone, LogNotWatched, LogNotContract, LogEvents
      <4> QED
        BY <3>0, <4>1
    <3> QED
      BY <3>1, <3>2
  <2> QED
    BY <2>1, <2>3, <2>4, <2>5, <2>6, <2>7 DEF RestTyped
<1>3. CASE BatchFails \/ BatchNotifies \/ ApiReturns \/ NotifyDone
  <2>1. budget' \in [Kinds -> Nat]
    BY <1>3, <1>a, SpendFacts DEF BatchFails, BatchNotifies, ApiReturns, NotifyDone,
      SaveUnscanRecord, RestTyped, Kinds
  <2> QED
    BY <1>3, <1>a, <2>1 DEF BatchFails, BatchNotifies, ApiReturns, NotifyDone, SaveUnscanRecord, RestTyped, Steps
<1>4. CASE Accepts \/ Refuses
  <2>1. SourceKeys \subseteq Key
    <3>1. data \subseteq Key \X {"in", "out"} \X Nat
      BY <1>a DEF RestTyped
    <3> QED
      BY <3>1 DEF SourceKeys
  <2>2. told' \subseteq Observer \X Key \X BOOLEAN
    <3>1. PICK o \in Observer, k \in SourceKeys, a \in BOOLEAN : told' = told \cup {<<o, k, a>>}
      BY <1>4 DEF Accepts, Refuses
    <3>2. told \subseteq Observer \X Key \X BOOLEAN
      BY <1>a DEF RestTyped
    <3> QED
      BY <2>1, <3>1, <3>2
  <2>3. budget' \in [Kinds -> Nat]
    BY <1>4, <1>a, SpendFacts DEF Accepts, RestTyped
  <2>4. record' \in BOOLEAN /\ UNCHANGED <<caller, tx, pc, i, j, targetResult, events, data, receipts, success>>
    BY <1>4, <1>a DEF Accepts, Refuses, RestTyped
  <2> QED
    BY <1>a, <2>2, <2>3, <2>4 DEF RestTyped
<1>5. CASE Watch
  <2>1. budget' \in [Kinds -> Nat]
    BY <1>5, <1>a, SpendFacts DEF Watch, RestTyped, Kinds
  <2> QED
    BY <1>5, <1>a, <2>1 DEF Watch, RestTyped
<1>6. CASE UNCHANGED vars
  BY <1>6, <1>a DEF vars, RestTyped
<1> QED
  BY <1>1, <1>2, <1>3, <1>4, <1>5, <1>6 DEF Next

\* The application only adds to what it watches, and the budget shrinks.
LEMMA WatchStep ==
  ASSUME IInv, [Next]_vars
  PROVE  /\ TypeOK' /\ WatchGrows' /\ watch0' = watch0 /\ tx' = tx /\ caller' = caller
         /\ \A t \in Target : watch[t] # NotWatched => watch'[t] = watch[t]
         /\ ~Watch => watch' = watch
         /\ budget'["save"] <= budget["save"] /\ budget'["save"] \in Nat
<1> USE DEF IInv, result, effect
<1>1. watch0' = watch0 /\ tx' = tx /\ caller' = caller /\ (~Watch => watch' = watch)
  BY DEF Next, extractTransaction, ExtractTxInput, InputsDone, ExtractTxOutput, OutputsDone,
    extractSmartContractTransaction, RequestNotWatched, RequestNotContract, RequestWithoutABI,
    RequestWithABI, LogNotWatched, LogNotContract,
      LogEvents, LogsDone, RequestsDone, BatchFails, BatchNotifies, ApiReturns, Accepts, Refuses,
    NotifyDone, Watch, vars
<1>2. WatchTyped' /\ WatchGrows' /\ \A t \in Target : watch[t] # NotWatched => watch'[t] = watch[t]
  <2>a. WatchTyped /\ WatchGrows
    BY TypeParts
  <2>1. CASE ~Watch
    BY <1>1, <2>a, <2>1 DEF WatchGrows, WatchTyped
  <2>2. CASE Watch
    <3>1. PICK t \in Target : watch[t] = NotWatched /\ \E answer \in Watches(t) : watch' = [watch EXCEPT ![t] = answer]
      BY <2>2 DEF Watch
    <3>2. PICK answer \in Watches(t) : watch' = [watch EXCEPT ![t] = answer]
      BY <3>1
    <3>3. answer \in [key : Key, info : Infos]
      BY DEF Watches, Infos
    <3>4. \A q \in Target : watch'[q] = IF q = t THEN answer ELSE watch[q]
      BY <2>a, <3>2 DEF WatchGrows
    <3>5. WatchTyped'
      BY <1>1, <2>a, <3>4 DEF WatchTyped
    <3> QED
      BY <1>1, <2>a, <3>1, <3>2, <3>3, <3>4, <3>5 DEF WatchGrows
  <2> QED
    BY <2>1, <2>2
<1>3. RestTyped' /\ TypeOK'
  BY <1>2, RestStep DEF TypeOK, WatchTyped, RestTyped, Steps
<1>4. budget["save"] \in Nat /\ budget'["save"] \in {budget["save"], budget["save"] - 1} /\ budget'["save"] \in Nat
  <2>1. budget \in [Kinds -> Nat] /\ budget' \in [Kinds -> Nat]
    BY <1>3 DEF TypeOK
  <2>2. budget'["save"] \in {budget["save"], budget["save"] - 1}
    BY <2>1, SpendFacts DEF Next, extractTransaction, ExtractTxInput, InputsDone, ExtractTxOutput,
      OutputsDone, extractSmartContractTransaction, RequestNotWatched, RequestNotContract,
      RequestWithoutABI, RequestWithABI, LogNotWatched, LogNotContract, LogEvents, LogsDone,
      RequestsDone, BatchFails, BatchNotifies, ApiReturns, Accepts, NotifyDone, Watch,
      SaveUnscanRecord, vars, Kinds
  <2> QED
    BY <2>1, <2>2 DEF Kinds
<1> QED
  BY <1>1, <1>2, <1>3, <1>4

\* The loops over the inputs and the outputs.
LEMMA DataStep == IInv /\ [Next]_vars => (InputsFound /\ OutputsFound /\ OnlyWatched)'
<1> SUFFICES ASSUME IInv, [Next]_vars PROVE (InputsFound /\ OutputsFound /\ OnlyWatched)'
  OBVIOUS
<1> USE DEF IInv, result, effect
<1>1. CASE ExtractTxInput
  <2>1. /\ i \in Nat /\ i \in DOMAIN tx.inputs /\ tx.inputs[i] \in Address
        /\ pc = "inputs" /\ i' = i + 1 /\ UNCHANGED <<tx, watch, watch0, pc>>
    BY <1>1, TxFacts DEF ExtractTxInput, TypeOK
  <2>2. /\ data \subseteq data' /\ OnlyWatched'
        /\ watch0[tx.inputs[i]] # NotWatched => <<watch0[tx.inputs[i]].key, "in", i>> \in data'
    BY <1>1, <2>1, AddEntryFacts DEF ExtractTxInput
  <2>3. ASSUME NEW n \in DOMAIN tx.inputs, n < i + 1 PROVE n = i \/ n < i
    BY <2>1, <2>3, TxFacts
  <2> QED
    BY <2>1, <2>2, <2>3 DEF InputsFound, OutputsFound, Found
<1>2. CASE ExtractTxOutput
  <2>1. /\ i \in Nat /\ i \in DOMAIN tx.outputs /\ tx.outputs[i] \in Address
        /\ pc = "outputs" /\ i' = i + 1 /\ UNCHANGED <<tx, watch, watch0, pc>>
    BY <1>2, TxFacts DEF ExtractTxOutput, TypeOK
  <2>2. /\ data \subseteq data' /\ OnlyWatched'
        /\ watch0[tx.outputs[i]] # NotWatched => <<watch0[tx.outputs[i]].key, "out", i>> \in data'
    BY <1>2, <2>1, AddEntryFacts DEF ExtractTxOutput
  <2>3. ASSUME NEW n \in DOMAIN tx.outputs, n < i + 1 PROVE n = i \/ n < i
    BY <2>1, <2>3, TxFacts
  <2> QED
    BY <2>1, <2>2, <2>3 DEF InputsFound, OutputsFound, Found
<1>3. CASE ~ExtractTxInput /\ ~ExtractTxOutput
  <2>1. data' = data /\ tx' = tx /\ watch0' = watch0
        /\ \A t \in Target : watch[t] # NotWatched => watch'[t] = watch[t]
    BY <1>3, WatchStep DEF Next, extractTransaction, InputsDone, OutputsDone,
      extractSmartContractTransaction, RequestNotWatched, RequestNotContract, RequestWithoutABI,
      RequestWithABI, LogNotWatched, LogNotContract, LogEvents, LogsDone, RequestsDone, BatchFails,
      BatchNotifies, ApiReturns, Accepts, Refuses, NotifyDone, Watch, vars
  <2>2. OnlyWatched'
    <3>1. ASSUME NEW entry \in data, NEW t \in Address, OfAddress(entry, t) PROVE OfAddress(entry, t)'
      BY <2>1, <3>1 DEF OfAddress, Target
    <3> QED
      BY <2>1, <3>1 DEF OnlyWatched
  <2>3. \/ pc' = pc /\ (pc \in {"inputs", "outputs"} => i' = i)
        \/ pc = "inputs" /\ pc' = "outputs" /\ i' = 1 /\ i > Len(tx.inputs)
        \/ pc = "outputs" /\ pc' = "requests" /\ i > Len(tx.outputs)
        \/ pc \notin {"inputs", "outputs"} /\ pc' \notin {"inputs", "outputs"}
    BY <1>3 DEF Next, extractTransaction, InputsDone, OutputsDone, extractSmartContractTransaction,
      RequestNotWatched, RequestNotContract, RequestWithoutABI, RequestWithABI, LogNotWatched,
      LogNotContract, LogEvents, LogsDone, RequestsDone, Extracted, BatchFails, BatchNotifies,
      ApiReturns, Accepts, Refuses, NotifyDone, Watch, vars
  <2>4. (i > Len(tx.inputs) => \A n \in DOMAIN tx.inputs : n < i)
        /\ (i > Len(tx.outputs) => \A n \in DOMAIN tx.outputs : n < i)
        /\ \A n \in DOMAIN tx.outputs : ~(n < 1)
    BY TxFacts DEF TypeOK
  <2> QED
    BY <2>1, <2>2, <2>3, <2>4 DEF InputsFound, OutputsFound, Found
<1> QED
  BY <1>1, <1>2, <1>3

\* What is so stays so while the application adds to what it watches.
LEMMA Stable ==
  ASSUME IInv, [Next]_vars
  PROVE  /\ \A n \in DOMAIN tx.requests : EndsBefore(n) => EndsBefore(n)'
         /\ \A n \in DOMAIN tx.requests : Misfit(watch, n) => Misfit(watch, n)'
         /\ \A n \in DOMAIN tx.requests : Misfit(watch0, n)' <=> Misfit(watch0, n)
         /\ \A c \in Contract : \A b \in DOMAIN tx.buckets : \A E :
              OwnEvent(c, b, E) => OwnEvent(c, b, E)'
<1>a. /\ watch0' = watch0 /\ tx' = tx /\ caller' = caller
      /\ \A t \in Target : watch[t] # NotWatched => watch'[t] = watch[t]
  BY WatchStep
<1>b. /\ \A n \in DOMAIN tx.requests :
           n \in 1 .. Len(tx.requests) /\ tx.requests[n] \in Contract /\ tx.requests[n] \in Target
      /\ DOMAIN tx.requests = 1 .. Len(tx.requests) /\ Len(tx.requests) \in Nat
      /\ \A c \in Contract : \A b \in DOMAIN tx.buckets : LogContract(c, tx.buckets[b]) \in Target
  BY TxFacts DEF IInv, Target
<1>1. ASSUME NEW n \in DOMAIN tx.requests, EndsBefore(n) PROVE EndsBefore(n)'
  <2>1. PICK m \in 1 .. n - 1 : watch[tx.requests[m]] # NotWatched /\ watch[tx.requests[m]].info = "noabi"
    BY <1>1 DEF EndsBefore
  <2>2. tx.requests[m] \in Target
    BY <1>b
  <2> QED
    BY <1>a, <2>1, <2>2 DEF EndsBefore
<1>2. ASSUME NEW n \in DOMAIN tx.requests, Misfit(watch, n) PROVE Misfit(watch, n)'
  <2> DEFINE c == tx.requests[n]
  <2>1. c \in Contract /\ c \in Target /\ tx' = tx /\ watch[c] # NotWatched /\ watch'[c] = watch[c]
    BY <1>a, <1>b, <1>2 DEF Misfit
  <2>2. CASE caller = "data" \/ watch[c].info = "other"
    BY <1>a, <2>1, <2>2 DEF Misfit
  <2>3. CASE ~(caller = "data" \/ watch[c].info = "other")
    <3>1. PICK b \in DOMAIN tx.buckets :
            /\ watch[c].info = "abi"
            /\ watch[LogContract(c, tx.buckets[b])] # NotWatched
            /\ watch[LogContract(c, tx.buckets[b])].info = "other"
      BY <1>2, <2>3 DEF Misfit
    <3>2. watch'[LogContract(c, tx.buckets[b])] = watch[LogContract(c, tx.buckets[b])]
      BY <1>a, <1>b, <2>1, <3>1
    <3> QED
      BY <2>1, <3>1, <3>2 DEF Misfit, LogContract
  <2> QED
    BY <2>2, <2>3
<1>3. \A n \in DOMAIN tx.requests : Misfit(watch0, n)' <=> Misfit(watch0, n)
  BY <1>a DEF Misfit, LogContract
<1>4. ASSUME NEW c \in Contract, NEW b \in DOMAIN tx.buckets, NEW E, OwnEvent(c, b, E)
      PROVE  OwnEvent(c, b, E)'
  <2>1. LogContract(c, tx.buckets[b]) \in Target
    BY <1>b
  <2> QED
    BY <1>a, <1>4, <2>1 DEF OwnEvent, LogContract
<1> QED
  BY <1>1, <1>2, <1>3, <1>4

\* The lookup for a request.
LEMMA RequestAnswer ==
  ASSUME IInv, pc = "requests", i <= Len(tx.requests)
  PROVE  /\ i \in DOMAIN tx.requests /\ tx.requests[i] \in Contract
         /\ ScanTarget(tx.requests[i]) = NotWatched <=> watch[tx.requests[i]] = NotWatched
         /\ watch[tx.requests[i]] # NotWatched =>
              /\ watch[tx.requests[i]].key \in Key /\ watch[tx.requests[i]].info \in Infos
              /\ ScanTarget(tx.requests[i]).key = watch[tx.requests[i]].key
              /\ ScanTarget(tx.requests[i]).info =
                   IF caller = "data" THEN "other" ELSE watch[tx.requests[i]].info
         /\ watch0[tx.requests[i]] # NotWatched => watch[tx.requests[i]] = watch0[tx.requests[i]]
<1> DEFINE c == tx.requests[i]
<1>1. i \in DOMAIN tx.requests /\ c \in Contract
  BY TxFacts DEF IInv, TypeOK
<1>2. c \in Target /\ WatchGrows
  BY <1>1 DEF Target, IInv
<1> HIDE DEF c
<1>3. watch[c] \in [key : Key, info : Infos] \cup {NotWatched}
  BY <1>2 DEF WatchGrows
<1>4. watch[c] # NotWatched => watch[c].key \in Key /\ watch[c].info \in Infos
  BY <1>3
<1>5. /\ ScanTarget(c) = NotWatched <=> watch[c] = NotWatched
      /\ watch[c] # NotWatched =>
           /\ ScanTarget(c).key = watch[c].key
           /\ ScanTarget(c).info = IF caller = "data" THEN "other" ELSE watch[c].info
  BY <1>2, ScanTargetFacts
<1>6. watch0[c] # NotWatched => watch[c] = watch0[c]
  BY <1>2 DEF WatchGrows
<1> QED
  BY <1>1, <1>4, <1>5, <1>6 DEF c

\* The lookup for a log.
LEMMA LogAnswer ==
  ASSUME IInv, pc = "logs", j <= Len(tx.buckets), NEW t,
         t = LogContract(tx.requests[i], tx.buckets[j])
  PROVE  /\ j \in DOMAIN tx.buckets /\ LogTarget = watch[t]
         /\ watch[t] # NotWatched => watch[t].info \in Infos
         /\ watch0[t] # NotWatched => watch[t] = watch0[t]
<1>1. /\ j \in DOMAIN tx.buckets /\ i \in DOMAIN tx.requests /\ caller # "data" /\ WatchGrows
      /\ tx.requests[i] \in Contract
  BY TxFacts DEF IInv, TypeOK, LogsPassed
<1>2. t \in Target
  BY <1>1, TxFacts DEF IInv
<1>3. LogTarget = watch[t]
  BY <1>1 DEF LogTarget, ScanTarget
<1>4. watch[t] \in [key : Key, info : Infos] \cup {NotWatched}
  BY <1>1, <1>2 DEF WatchGrows
<1>5. watch[t] # NotWatched => watch[t].info \in Infos
  BY <1>4
<1> QED
  BY <1>1, <1>2, <1>3, <1>5 DEF WatchGrows

\* The loops over the requests and their logs: the turns that are over have left
\* their receipts, with their own events, or have ended the extraction.
LEMMA ReceiptStep ==
  IInv /\ [Next]_vars => (RequestsPassed /\ LogsPassed /\ ReceiptsHaveOwnEvents /\ Caused)'
<1> SUFFICES ASSUME IInv, [Next]_vars
             PROVE  (RequestsPassed /\ LogsPassed /\ ReceiptsHaveOwnEvents /\ Caused)'
  OBVIOUS
<1> USE DEF result, effect, logs
<1>a. /\ TypeOK /\ WatchGrows /\ RequestsPassed /\ LogsPassed /\ ReceiptsHaveOwnEvents /\ Caused
      /\ watch0' = watch0 /\ tx' = tx /\ caller' = caller
      /\ pc \in Steps /\ success \in BOOLEAN /\ i \in Nat \ {0} /\ j \in Nat \ {0}
  BY WatchStep DEF IInv, TypeOK, Steps
<1>b. /\ DOMAIN tx.requests = 1 .. Len(tx.requests) /\ Len(tx.requests) \in Nat
      /\ DOMAIN tx.buckets = 1 .. Len(tx.buckets) /\ Len(tx.buckets) \in Nat
      /\ \A n \in DOMAIN tx.requests : tx.requests[n] \in Contract /\ tx.requests[n] \in Target
  BY <1>a, TxFacts DEF Target
<1>c. \A n \in DOMAIN tx.requests : watch0[tx.requests[n]] # NotWatched => watch0[tx.requests[n]].key \in Key
  <2>1. ASSUME NEW c \in Target, watch0[c] # NotWatched PROVE watch0[c].key \in Key
    <3>1. watch[c] \in [key : Key, info : Infos] \cup {NotWatched} /\ watch[c] = watch0[c]
      BY <1>a, <2>1 DEF WatchGrows
    <3> QED
      BY <2>1, <3>1
  <2> QED
    BY <1>b, <2>1
<1>d. ASSUME receipts' = receipts
      PROVE  /\ ReceiptsHaveOwnEvents'
             /\ \A n \in DOMAIN tx.requests : Passed(n) => Passed(n)'
  <2>1. ASSUME NEW k \in Key, receipts[k] # NoReceipt
        PROVE  /\ receipts[k].contract \in Contract
               /\ \A b \in DOMAIN tx.buckets : OwnEvent(receipts[k].contract, b, receipts[k].events)'
    <3>1. receipts[k] \in Receipts
      BY <1>a, <2>1 DEF TypeOK
    <3>2. receipts[k].contract \in Contract
      BY <3>1 DEF Receipts
    <3>3. \A b \in DOMAIN tx.buckets : OwnEvent(receipts[k].contract, b, receipts[k].events)
      BY <1>a, <2>1, Zenon DEF ReceiptsHaveOwnEvents, OwnEvent
    <3>4. ASSUME NEW b \in DOMAIN tx.buckets, NEW c, NEW E, c = receipts[k].contract, E = receipts[k].events
          PROVE  OwnEvent(c, b, E)'
      BY <3>2, <3>3, <3>4, Stable
    <3> QED
      BY <1>d, <3>2, <3>4 DEF OwnEvent
  <2>2. ReceiptsHaveOwnEvents'
    BY <1>a, <1>d, <2>1 DEF ReceiptsHaveOwnEvents, OwnEvent
  <2>3. ASSUME NEW n \in DOMAIN tx.requests, Passed(n) PROVE Passed(n)'
    BY <1>a, <1>d, <2>3, Stable DEF Passed, HasReceipt, HasABI
  <2> QED
    BY <2>2, <2>3
<1>1. CASE extractTransaction
  <2>1. /\ receipts' = receipts
        /\ pc' \in {"inputs", "outputs"} \/ (pc' = "requests" /\ i' = 1 /\ success')
    BY <1>1 DEF extractTransaction, ExtractTxInput, InputsDone, ExtractTxOutput, OutputsDone
  <2>2. \A n \in DOMAIN tx.requests : ~(n < 1)
    BY <1>b
  <2> QED
    BY <1>a, <1>d, <2>1, <2>2 DEF RequestsPassed, LogsPassed, Caused
<1>2. CASE RequestNotWatched
  <2>1. /\ pc = "requests" /\ pc' = "requests" /\ i' = i + 1 /\ success' = success /\ receipts' = receipts
        /\ i \in DOMAIN tx.requests /\ watch[tx.requests[i]] = NotWatched /\ watch0[tx.requests[i]] = NotWatched
    BY <1>2, RequestAnswer DEF RequestNotWatched
  <2>2. Passed(i)
    BY <2>1 DEF Passed, Misfit, HasReceipt, HasABI
  <2>3. \A n \in DOMAIN tx.requests : n < i + 1 => n = i \/ n < i
    BY <1>a, <1>b
  <2>4. success /\ \A n \in DOMAIN tx.requests : n < i' => Passed(n)'
    BY <1>a, <1>d, <2>1, <2>2, <2>3 DEF RequestsPassed
  <2> QED
    BY <1>a, <1>d, <2>1, <2>4 DEF RequestsPassed, LogsPassed, Caused
<1>3. CASE RequestNotContract
  <2> DEFINE c == tx.requests[i]
  <2>1. /\ pc = "requests" /\ pc' = "extracted" /\ ~success' /\ receipts' = receipts
        /\ ScanTarget(c) # NotWatched /\ ~IsSmartContract(ScanTarget(c))
        /\ i <= Len(tx.requests)
    BY <1>3 DEF RequestNotContract, Extracted
  <2>2. i \in DOMAIN tx.requests /\ Misfit(watch, i)
    BY <2>1, RequestAnswer DEF IsSmartContract, Misfit, Infos
  <2>3. \E n \in DOMAIN tx.requests : Misfit(watch, n)'
    BY <2>2, Stable
  <2> QED
    BY <1>a, <1>d, <2>1, <2>3 DEF RequestsPassed, LogsPassed, Caused
<1>4. CASE RequestWithoutABI
  <2> DEFINE c == tx.requests[i]
  <2>1. /\ pc = "requests" /\ pc' = "extracted" /\ success' = success /\ receipts' = receipts /\ watch' = watch
        /\ ScanTarget(c) # NotWatched /\ ScanTarget(c).info = "noabi"
        /\ i <= Len(tx.requests)
    BY <1>4 DEF RequestWithoutABI, Extracted
  <2>2. /\ i \in DOMAIN tx.requests /\ watch[c] # NotWatched /\ watch[c].info = "noabi" /\ caller # "data"
        /\ watch0[c] # NotWatched => watch0[c].info = "noabi"
    BY <2>1, RequestAnswer
  <2>3. Passed(i)
    BY <2>2 DEF Passed, Misfit, HasReceipt, HasABI
  <2>4. ASSUME NEW n \in DOMAIN tx.requests, ~(n < i), n # i PROVE EndsBefore(n)'
    <3>1. i \in 1 .. n - 1
      BY <1>a, <1>b, <2>4
    <3> QED
      BY <1>a, <2>1, <2>2, <3>1 DEF EndsBefore
  <2>5. success /\ \A n \in DOMAIN tx.requests : Passed(n)' \/ EndsBefore(n)'
    BY <1>a, <1>d, <2>1, <2>2, <2>3, <2>4 DEF RequestsPassed
  <2> QED
    BY <1>a, <1>d, <2>1, <2>5 DEF RequestsPassed, LogsPassed, Caused
<1>5. CASE RequestWithABI
  <2> DEFINE c == tx.requests[i]
  <2>1. /\ pc = "requests" /\ pc' = "logs" /\ i' = i /\ j' = 1 /\ events' = {}
        /\ success' = success /\ receipts' = receipts /\ watch' = watch
        /\ ScanTarget(c) # NotWatched /\ ScanTarget(c).info = "abi" /\ targetResult' = ScanTarget(c)
        /\ i <= Len(tx.requests)
    BY <1>5 DEF RequestWithABI
  <2>2. /\ i \in DOMAIN tx.requests /\ watch[c] # NotWatched /\ watch[c].info = "abi" /\ caller # "data"
    BY <2>1, RequestAnswer
  <2>3. targetResult' = watch[c]
    BY <2>1, <2>2 DEF ScanTarget
  <2>4. \A b \in DOMAIN tx.buckets : ~(b < 1)
    BY <1>b
  <2>5. LogsPassed'
    BY <1>a, <2>1, <2>2, <2>3, <2>4 DEF LogsPassed
  <2>6. RequestsPassed'
    BY <1>a, <1>d, <2>1 DEF RequestsPassed
  <2> QED
    BY <1>a, <1>d, <2>1, <2>5, <2>6 DEF Caused
<1>6. CASE LogNotWatched \/ LogEvents
  <2> DEFINE c == tx.requests[i]
             t == LogContract(c, tx.buckets[j])
  <2>1. /\ pc = "logs" /\ pc' = "logs" /\ i' = i /\ j' = j + 1 /\ success' = success /\ receipts' = receipts
        /\ watch' = watch /\ targetResult' = targetResult /\ j <= Len(tx.buckets)
        /\ \/ LogTarget = NotWatched /\ events' = events
           \/ LogTarget # NotWatched /\ IsSmartContract(LogTarget) /\ events' = events \cup {j}
    BY <1>6 DEF LogNotWatched, LogEvents
  <2>2. /\ j \in DOMAIN tx.buckets /\ LogTarget = watch[t]
        /\ watch0[t] # NotWatched => watch[t] = watch0[t]
    BY <2>1, LogAnswer
  <2>3. i \in DOMAIN tx.requests /\ caller # "data" /\ targetResult = watch[c] /\ targetResult # NotWatched
        /\ targetResult.info = "abi" /\ (\A b \in events : b \in DOMAIN tx.buckets /\ b < j)
        /\ \A b \in DOMAIN tx.buckets : b < j => OwnEvent(c, b, events)
    BY <1>a, <2>1 DEF LogsPassed
  <2>4. \A b \in events' : b \in DOMAIN tx.buckets /\ b < j + 1
    BY <1>a, <1>b, <2>1, <2>2, <2>3
  <2>5. OwnEvent(c, j, events')
    <3>1. j \notin events
      BY <1>a, <2>3
    <3>2. LogTarget # NotWatched => events' = events \cup {j} /\ LogTarget.info # "other"
      BY <2>1 DEF IsSmartContract
    <3>3. LogTarget = NotWatched => events' = events
      BY <2>1
    <3> QED
      BY <2>2, <3>1, <3>2, <3>3 DEF OwnEvent
  <2>6. ASSUME NEW b \in DOMAIN tx.buckets, b < j + 1 PROVE OwnEvent(c, b, events')
    <3>1. CASE b = j
      BY <2>5, <3>1
    <3>2. CASE b # j
      <4>1. b < j /\ (b \in events' <=> b \in events)
        BY <1>a, <1>b, <2>1, <2>6, <3>2
      <4> QED
        BY <2>3, <4>1 DEF OwnEvent
    <3> QED
      BY <3>1, <3>2
  <2>7. \A b \in DOMAIN tx.buckets : b < j' => OwnEvent(tx.requests[i], b, events)'
    BY <1>a, <2>1, <2>6 DEF OwnEvent, LogContract
  <2>8. LogsPassed'
    BY <1>a, <2>1, <2>3, <2>4, <2>7 DEF LogsPassed
  <2>9. RequestsPassed'
    BY <1>a, <1>d, <2>1 DEF RequestsPassed
  <2> QED
    BY <1>a, <1>d, <2>1, <2>8, <2>9 DEF Caused
<1>7. CASE LogNotContract
  <2> DEFINE c == tx.requests[i]
             t == LogContract(c, tx.buckets[j])
  <2>1. /\ pc = "logs" /\ pc' = "extracted" /\ ~success' /\ receipts' = receipts /\ j <= Len(tx.buckets)
        /\ LogTarget # NotWatched /\ ~IsSmartContract(LogTarget)
    BY <1>7 DEF LogNotContract, Extracted
  <2>2. j \in DOMAIN tx.buckets /\ LogTarget = watch[t] /\ (watch[t] # NotWatched => watch[t].info \in Infos)
    BY <2>1, LogAnswer
  <2>3. i \in DOMAIN tx.requests /\ watch[c] # NotWatched /\ watch[c].info = "abi"
    BY <1>a, <2>1 DEF LogsPassed
  <2>4. watch[t] # NotWatched /\ watch[t].info = "other"
    BY <2>1, <2>2 DEF IsSmartContract, Infos
  <2>5. Misfit(watch, i)
    BY <2>2, <2>3, <2>4 DEF Misfit
  <2>6. \E n \in DOMAIN tx.requests : Misfit(watch, n)'
    BY <2>3, <2>5, Stable
  <2> QED
    BY <1>a, <1>d, <2>1, <2>6 DEF RequestsPassed, LogsPassed, Caused
<1>8. CASE LogsDone
  <2> DEFINE c == tx.requests[i]
             receipt == [contract |-> c, events |-> events]
  <2>1. /\ pc = "logs" /\ pc' = "requests" /\ i' = i + 1 /\ success' = success /\ watch' = watch
        /\ j > Len(tx.buckets) /\ receipts' = [receipts EXCEPT ![targetResult.key] = receipt]
    BY <1>8 DEF LogsDone
  <2>2. /\ i \in DOMAIN tx.requests /\ c \in Contract /\ caller # "data" /\ targetResult = watch[c]
        /\ targetResult # NotWatched /\ targetResult.info = "abi" /\ events \subseteq DOMAIN tx.buckets
        /\ \A b \in DOMAIN tx.buckets : b < j => OwnEvent(c, b, events)
    BY <1>a, <1>b, <2>1 DEF LogsPassed
  <2>3. /\ targetResult.key \in Key
        /\ watch0[c] # NotWatched => watch[c] = watch0[c]
    <3>1. targetResult \in [key : Key, info : Infos]
      BY <1>a, <2>2 DEF TypeOK
    <3> QED
      BY <1>a, <1>b, <2>2, <3>1 DEF WatchGrows
  <2>4. receipt # NoReceipt /\ receipt.contract = c /\ receipt.events = events
    <3>1. events \subseteq Nat
      BY <1>a DEF TypeOK
    <3>2. receipt \in [contract : Contract, events : SUBSET Nat]
      BY <2>2, <3>1
    <3> QED
      BY <3>2, ExtractionAssumption
  <2> HIDE DEF receipt
  <2>5. \A k \in Key : receipts'[k] = IF k = targetResult.key THEN receipt ELSE receipts[k]
    BY <1>a, <2>1, <2>3 DEF TypeOK
  <2>6. \A b \in DOMAIN tx.buckets : OwnEvent(c, b, events)
    <3>1. \A b \in DOMAIN tx.buckets : b < j
      BY <1>a, <1>b, <2>1
    <3> QED
      BY <2>2, <3>1
  <2>7. ReceiptsHaveOwnEvents'
    <3>1. ASSUME NEW k \in Key, receipts'[k] # NoReceipt
          PROVE  /\ receipts'[k].events \subseteq DOMAIN tx.buckets
                 /\ \A b \in DOMAIN tx.buckets : OwnEvent(receipts'[k].contract, b, receipts'[k].events)
      <4>1. CASE k = targetResult.key
        BY <2>2, <2>4, <2>5, <2>6, <4>1
      <4>2. CASE k # targetResult.key
        <5>1. receipts'[k] = receipts[k]
          BY <2>5, <4>2
        <5> QED
          BY <1>a, <3>1, <5>1, Zenon DEF ReceiptsHaveOwnEvents, OwnEvent
      <4> QED
        BY <4>1, <4>2
    <3> QED
      BY <1>a, <2>1, <3>1 DEF ReceiptsHaveOwnEvents, OwnEvent, LogContract
  <2>8. ASSUME NEW n \in DOMAIN tx.requests, n < i + 1 PROVE Passed(n)'
    <3>1. ~Misfit(watch0, n)
      <4>1. CASE n < i
        BY <1>a, <2>1, <4>1 DEF RequestsPassed, Passed
      <4>2. CASE n = i /\ watch0[c] # NotWatched
        <5>1. watch0[c].info = "abi"
          BY <2>2, <2>3, <4>2
        <5>2. ASSUME NEW b \in DOMAIN tx.buckets, watch0[LogContract(c, tx.buckets[b])] # NotWatched
              PROVE  watch0[LogContract(c, tx.buckets[b])].info # "other"
          <6>1. watch[LogContract(c, tx.buckets[b])].info # "other"
            BY <2>6, <5>2 DEF OwnEvent
          <6>2. LogContract(c, tx.buckets[b]) \in Target
            BY <1>a, <2>2, TxFacts
          <6> QED
            BY <1>a, <5>2, <6>1, <6>2 DEF WatchGrows
        <5> QED
          BY <2>2, <4>2, <5>1, <5>2 DEF Misfit
      <4>3. CASE n = i /\ watch0[c] = NotWatched
        BY <4>3 DEF Misfit
      <4> QED
        BY <1>a, <1>b, <2>8, <4>1, <4>2, <4>3
    <3>2. ~Misfit(watch0, n)'
      BY <3>1, Stable
    <3>3. ASSUME HasABI(n)
          PROVE  \E m \in n .. Len(tx.requests) :
                   /\ receipts'[watch0[tx.requests[n]].key] # NoReceipt
                   /\ receipts'[watch0[tx.requests[n]].key].contract = tx.requests[m]
      <4> DEFINE k == watch0[tx.requests[n]].key
      <4>1. k \in Key
        BY <1>c, <3>3 DEF HasABI
      <4>2. CASE k = targetResult.key
        <5>1. i \in n .. Len(tx.requests)
          BY <1>a, <1>b, <2>2, <2>8
        <5>2. receipts'[k] = receipt
          BY <2>5, <4>1, <4>2
        <5> QED
          BY <2>4, <5>1, <5>2
      <4>3. CASE k # targetResult.key
        <5>1. n < i
          <6>1. n # i
            BY <2>2, <2>3, <3>3, <4>3 DEF HasABI
          <6> QED
            BY <1>a, <1>b, <2>8, <6>1
        <5>2. HasReceipt(n)
          BY <1>a, <2>1, <5>1 DEF RequestsPassed, Passed
        <5>3. receipts'[k] = receipts[k]
          BY <2>5, <4>1, <4>3
        <5> QED
          BY <3>3, <5>2, <5>3 DEF HasReceipt
      <4> QED
        BY <4>2, <4>3
    <3>4. HasReceipt(n)'
      BY <1>a, <3>3 DEF HasReceipt, HasABI
    <3> QED
      BY <3>2, <3>4 DEF Passed
  <2>9. success /\ \A n \in DOMAIN tx.requests : n < i' => Passed(n)'
    BY <1>a, <2>1, <2>8 DEF RequestsPassed
  <2>10. RequestsPassed'
    BY <1>a, <2>1, <2>9 DEF RequestsPassed
  <2> QED
    BY <2>1, <2>7, <2>10 DEF LogsPassed, Caused
<1>9. CASE RequestsDone
  <2>1. /\ pc = "requests" /\ pc' = "extracted" /\ success' = success /\ receipts' = receipts
        /\ i > Len(tx.requests)
    BY <1>9 DEF RequestsDone, Extracted
  <2>2. \A n \in DOMAIN tx.requests : n < i
    BY <1>a, <1>b, <2>1
  <2>3. success /\ \A n \in DOMAIN tx.requests : Passed(n)'
    BY <1>a, <1>d, <2>1, <2>2 DEF RequestsPassed
  <2> QED
    BY <1>a, <1>d, <2>1, <2>3 DEF RequestsPassed, LogsPassed, Caused
<1>10. CASE BatchFails \/ BatchNotifies \/ ApiReturns \/ Accepts \/ Refuses \/ NotifyDone
  <2>1. /\ pc \in {"extracted", "notify"} /\ pc' \in {"notify", "done", "error"}
        /\ success' = success /\ receipts' = receipts
        /\ pc' = "error" => pc = "extracted" /\ ~success
        /\ pc' # "error" => success
    BY <1>a, <1>10 DEF BatchFails, BatchNotifies, ApiReturns, Accepts, Refuses, NotifyDone, Caused
  <2>2. \A n \in DOMAIN tx.requests : EndsBefore(n) => EndsBefore(n)'
    BY Stable
  <2>3. ~success => \E n \in DOMAIN tx.requests : Misfit(watch, n)'
    BY <1>a, <2>1, Stable DEF Caused
  <2> QED
    BY <1>a, <1>d, <2>1, <2>2, <2>3 DEF RequestsPassed, LogsPassed, Caused
<1>11. CASE Watch \/ UNCHANGED vars
  <2>1. UNCHANGED <<pc, i, j, targetResult, events, success, receipts>>
    BY <1>11 DEF Watch, vars
  <2>2. \A n \in DOMAIN tx.requests :
          (EndsBefore(n) => EndsBefore(n)') /\ (Misfit(watch, n) => Misfit(watch, n)')
    BY Stable
  <2>3. RequestsPassed' /\ Caused'
    BY <1>a, <1>d, <2>1, <2>2 DEF RequestsPassed, Caused
  <2>4. ASSUME pc = "logs" PROVE LogsPassed'
    <3>1. /\ i \in DOMAIN tx.requests /\ watch[tx.requests[i]] # NotWatched
          /\ \A b \in DOMAIN tx.buckets : b < j => OwnEvent(tx.requests[i], b, events)
      BY <1>a, <2>4 DEF LogsPassed
    <3>2. watch'[tx.requests[i]] = watch[tx.requests[i]]
      BY <1>b, <3>1, WatchStep
    <3>3. ASSUME NEW b \in DOMAIN tx.buckets, b < j, NEW c, NEW E, c = tx.requests[i], E = events
          PROVE  OwnEvent(c, b, E)'
      BY <1>b, <3>1, <3>3, Stable
    <3>4. \A b \in DOMAIN tx.buckets : b < j => OwnEvent(tx.requests[i], b, events)'
      BY <1>a, <2>1, <3>3 DEF OwnEvent
    <3> QED
      BY <1>a, <2>1, <2>4, <3>2, <3>4 DEF LogsPassed
  <2> QED
    BY <1>d, <2>1, <2>3, <2>4 DEF LogsPassed
<1> QED
  BY <1>1, <1>2, <1>3, <1>4, <1>5, <1>6, <1>7, <1>8, <1>9, <1>10, <1>11
    DEF Next, extractSmartContractTransaction

\* The callers: what fails is told to nobody.
LEMMA TellingStep == IInv /\ [Next]_vars => Telling'
<1> SUFFICES ASSUME IInv, [Next]_vars PROVE Telling'
  OBVIOUS
<1> USE DEF result, effect, logs
<1>a. TypeOK /\ Telling /\ caller' = caller /\ budget \in [Kinds -> Nat]
  BY WatchStep DEF IInv, TypeOK
<1>b. ASSUME record' = record \/ record' = TRUE PROVE Tried => Tried'
  <2>1. /\ budget["save"] \in Nat /\ budget'["save"] \in Nat /\ budget'["save"] <= budget["save"]
        /\ MaxSaveFailures \in Nat
    BY <1>a, WatchStep, ExtractionAssumption DEF Kinds
  <2>2. budget["save"] < MaxSaveFailures => budget'["save"] < MaxSaveFailures
    BY <2>1
  <2> QED
    BY <1>b, <2>2 DEF Tried
<1>c. ASSUME \/ record' = TRUE
             \/ budget'["save"] = budget["save"] - 1
      PROVE  Tried'
  <2>1. budget["save"] \in Nat /\ budget["save"] <= MaxSaveFailures /\ MaxSaveFailures \in Nat
    BY <1>a, ExtractionAssumption DEF IInv, Kinds
  <2>2. budget'["save"] = budget["save"] - 1 => budget'["save"] < MaxSaveFailures
    BY <2>1
  <2> QED
    BY <1>c, <2>2 DEF Tried
<1>1. CASE extractTransaction \/ extractSmartContractTransaction
  <2>1. /\ told' = told /\ record' = record
        /\ pc \in {"inputs", "outputs", "requests", "logs"}
        /\ pc' \in {"inputs", "outputs", "requests", "logs", "extracted"}
    <3>1. CASE extractTransaction
      BY <3>1 DEF extractTransaction, ExtractTxInput, InputsDone, ExtractTxOutput, OutputsDone
    <3>2. CASE extractSmartContractTransaction
      BY <3>2 DEF extractSmartContractTransaction, RequestNotWatched, RequestNotContract,
        RequestWithoutABI, RequestWithABI, RequestsDone, LogNotWatched, LogNotContract, LogEvents,
        LogsDone, Extracted
    <3> QED
      BY <1>1, <3>1, <3>2
  <2> QED
    BY <1>a, <1>b, <2>1 DEF Telling
<1>2. CASE BatchFails
  <2>1. pc = "extracted" /\ pc' = "error" /\ told' = told
    BY <1>2 DEF BatchFails
  <2>2. record' = TRUE \/ budget'["save"] = budget["save"] - 1
    BY <1>2, <1>a, SpendFacts DEF BatchFails, SaveUnscanRecord, Kinds
  <2> QED
    BY <1>a, <1>c, <2>1, <2>2 DEF Telling
<1>3. CASE BatchNotifies \/ ApiReturns
  <2>1. /\ pc = "extracted" /\ told' = told /\ record' = record /\ success' = success
        /\ \/ pc' = "notify" /\ success
           \/ pc' = "done" /\ success /\ caller # "batch"
           \/ pc' = "error" /\ caller # "batch"
    BY <1>3 DEF BatchNotifies, ApiReturns
  <2> QED
    BY <1>a, <1>b, <2>1 DEF Telling
<1>4. CASE Accepts
  BY <1>4 DEF Accepts, Telling
<1>5. CASE Refuses
  BY <1>5 DEF Refuses, Telling
<1>6. CASE NotifyDone
  BY <1>6 DEF NotifyDone, Telling
<1>7. CASE Watch \/ UNCHANGED vars
  <2>1. told' = told /\ record' = record /\ pc' = pc
    BY <1>7 DEF Watch, vars
  <2> QED
    BY <1>a, <1>b, <2>1 DEF Telling
<1> QED
  BY <1>1, <1>2, <1>3, <1>4, <1>5, <1>6, <1>7 DEF Next

\* The invariant holds in every reachable state.
LEMMA Invariant == Spec => []IInv
<1>1. Init => IInv
  <2> SUFFICES ASSUME Init PROVE IInv
    OBVIOUS
  <2>1. budget \in [Kinds -> Nat] /\ budget["save"] = MaxSaveFailures
    BY ExtractionAssumption DEF Init, Allowance, Kinds
  <2>2. TypeOK
    <3>1. \A t \in Target : watch[t] \in Watches(t) \cup {NotWatched}
      BY ExtractionAssumption DEF Init
    <3>2. WatchTyped
      BY <3>1 DEF Init, WatchTyped
    <3>3. RestTyped
      <4>1. /\ caller \in Callers /\ tx \in Tx /\ pc = "inputs" /\ i = 1
            /\ j = 1 /\ targetResult = NotWatched /\ events = {}
            /\ data = {} /\ told = {} /\ success = FALSE /\ record = FALSE
        BY DEF Init
      <4>2. receipts \in [Key -> Receipts \cup {NoReceipt}]
        BY DEF Init
      <4>3. pc \in Steps /\ {i, j} \subseteq Nat \ {0} /\ events \subseteq Nat
            /\ targetResult \in [key : Key, info : Infos] \cup {NotWatched}
            /\ data \subseteq Key \X {"in", "out"} \X Nat /\ told \subseteq Observer \X Key \X BOOLEAN
        BY <4>1 DEF Steps
      <4>4. success \in BOOLEAN /\ record \in BOOLEAN
        BY <4>1
      <4> QED
        BY <2>1, <4>1, <4>2, <4>3, <4>4, Zenon DEF RestTyped
    <3> QED
      BY <3>2, <3>3, TypeParts
  <2>3. WatchGrows
    BY ExtractionAssumption DEF Init, WatchGrows
  <2>4. \A n \in DOMAIN tx.inputs : ~(n < 1)
    BY <2>2, TxFacts
  <2>5. InputsFound /\ OutputsFound /\ OnlyWatched
    BY <2>4 DEF Init, InputsFound, OutputsFound, OnlyWatched
  <2>6. RequestsPassed /\ LogsPassed /\ ReceiptsHaveOwnEvents /\ Caused /\ Telling
    BY DEF Init, RequestsPassed, LogsPassed, ReceiptsHaveOwnEvents, Caused, Telling
  <2> QED
    BY <2>1, <2>2, <2>3, <2>5, <2>6, ExtractionAssumption DEF IInv
<1>2. IInv /\ [Next]_vars => IInv'
  <2> SUFFICES ASSUME IInv, [Next]_vars PROVE IInv'
    OBVIOUS
  <2>1. TypeOK' /\ WatchGrows' /\ budget'["save"] <= budget["save"] /\ budget'["save"] \in Nat
    BY WatchStep
  <2>2. budget["save"] \in Nat /\ budget["save"] <= MaxSaveFailures /\ MaxSaveFailures \in Nat
    BY ExtractionAssumption DEF IInv, TypeOK, Kinds
  <2>3. budget'["save"] <= MaxSaveFailures
    BY <2>1, <2>2
  <2> QED
    BY <2>1, <2>3, DataStep, ReceiptStep, TellingStep DEF IInv
<1> QED
  BY <1>1, <1>2, PTL DEF Spec

----------------------------------------------------------------------------
\* The theorems.

\* Every reachable state is typed.
THEOREM TypeCorrect == Spec => []TypeOK
<1>1. IInv => TypeOK
  BY DEF IInv
<1> QED
  BY <1>1, Invariant, PTL

\* What was watched from the beginning is extracted in all its places, and
\* nothing else than what is there and watched.
THEOREM Extracts == Spec => []WatchedIsExtracted
<1>1. IInv => WatchedIsExtracted
  <2> SUFFICES ASSUME IInv, pc \in {"extracted", "notify", "done"} PROVE WatchedIsExtracted
    BY DEF WatchedIsExtracted
  <2>1. ASSUME NEW t \in Address, watch0[t] # NotWatched, NEW p \in Places(t)
        PROVE  <<watch0[t].key, p[1], p[2]>> \in data
    <3>1. CASE p[1] = "in" /\ p[2] \in DOMAIN tx.inputs /\ tx.inputs[p[2]] = t
      BY <2>1, <3>1 DEF IInv, InputsFound, Found
    <3>2. CASE p[1] = "out" /\ p[2] \in DOMAIN tx.outputs /\ tx.outputs[p[2]] = t
      BY <2>1, <3>2 DEF IInv, OutputsFound, Found
    <3> QED
      BY <2>1, <3>1, <3>2 DEF Places
  <2>2. ASSUME NEW entry \in data
        PROVE  \E t \in Address : <<entry[2], entry[3]>> \in Places(t) /\ watch[t] # NotWatched
                                  /\ watch[t].key = entry[1]
    BY DEF IInv, OnlyWatched, OfAddress, Places
  <2> QED
    BY <2>1, <2>2 DEF WatchedIsExtracted
<1> QED
  BY <1>1, Invariant, PTL

\* A contract watched with its ABI from the beginning has a receipt, unless a
\* request before it ends the extraction.
THEOREM Completes == Spec => []ReceiptsComplete
<1>1. IInv => ReceiptsComplete
  BY DEF IInv, RequestsPassed, Passed, HasReceipt, HasABI, ReceiptsComplete
<1> QED
  BY <1>1, Invariant, PTL

\* A receipt has the events of the contracts its own module has under the names
\* in the logs, and no others: whatever the application begins to watch between
\* two lookups, and whatever the receipts of other requests.
THEOREM OwnEvents == Spec => []ReceiptsHaveOwnEvents
<1>1. IInv => ReceiptsHaveOwnEvents
  BY DEF IInv
<1> QED
  BY <1>1, Invariant, PTL

\* An extraction fails for a request that does not fit what is watched, does fail
\* for one that never did, and then leaves nothing with an observer and a record
\* of the block, unless the store fails.
THEOREM Fails == Spec => []FailuresHaveACause
<1>1. IInv => FailuresHaveACause
  BY DEF IInv, RequestsPassed, Passed, Caused, Telling, Tried, FailuresHaveACause
<1> QED
  BY <1>1, Invariant, PTL
=============================================================================
