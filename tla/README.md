# A TLA+ model of the xuperchain adapter

The adapter connects the openwallet framework to a xuperchain node: a *block
scanner* follows the node's chain and hands the transactions of the wallet's
addresses to observers, and *decoders* create, sign, verify and submit
transactions.  This directory models those parts, checks them with TLC on small
instances, and proves the main results with TLAPS for every value of the
constants.  `PROJECT.json` ties definitions to lines of the source, runs to
properties, and hazards to what covers them.

Line numbers without a file are those of `src/xuperchain/blockscanner.go` where the
scanner, the batch or the extraction is discussed, of `tx_decoder.go` for transfers
and summaries, of `contract_decoder.go` for contracts, and of
`src/xuperchain_rpc/api.go` for the RPC client.

## 1. Inventory

| Component | State it keeps | Operations | Talks to |
|---|---|---|---|
| Block scanner task (`blockscanner.go`) | `Scanning`; the locals of the task: `currentHeight`, `currentHash` | `ScanBlockTask`, `ScanBlock`, `RescanFailedRecord`, `SetRescanBlockHeight`, `GetScannedBlockHeader`, `Run`/`Pause` of the base | node (RPC), store, observers |
| Scanner store (`blockscanner_db.go`, external `BlockchainDAI`) | block head, local blocks, unscan records; survives a crash | save, get, delete | called by the task and by `ScanBlock` |
| Batch extraction (`BatchExtractTransaction`, 317-439) | `extractingCH`, shared by all calls; `done`, `failed`, `quit`, two unbuffered channels and a queue per call | one goroutine per transaction, `extractWork`, `saveWork`, `extractRuntime` | observers, store |
| Extraction of data (`ExtractTransaction`, 442-873) | the result of one call | inputs, outputs and contract receipts of one transaction, for the batch and for two API calls | `ScanTargetFunc` of the application, observers |
| Transaction decoder (`tx_decoder.go`) | the `RawTransaction` of the caller | `CreateRawTransaction`, `CreateSummaryRawTransaction`, `SignRawTransaction`, `VerifyRawTransaction`, `SubmitRawTransaction` | node (`SelectUTXOBySize`, `GetBalance`, `PostTx`), wallet |
| Contract decoder (`contract_decoder.go`) | the `SmartContractRawTransaction` of the caller | call, create, verify, submit and await the receipt | node (`PreExecWithSelectUTXO`, `QueryACL`, `PostTx`, `QueryTx`), wallet, extraction |
| RPC client (`xuperchain_rpc/api.go`) | the lazily made `xchainClient`, its `timeout` | `connect`, one method per RPC | node; used by all of the above |
| Address decoder (`xuperchain_addrdec`) | none | public key to address | - |
| Manager, configuration (`manager.go`, `config.go`, `xuperchain.go`) | pointers set at construction, the client | constructors, getters, `LoadAssetsConfig`, `EncodeInvokeRequest` | RPC client |
| `openwtester` | none | registers the adapter for tests | - |

How they interact: a timer runs the scan task; the application may at the same
time call `ScanBlock`, `SetRescanBlockHeight` and `Pause`.  Both the task and
`ScanBlock` run batches, and all batches draw on one `extractingCH`.  The store
is written by all of them and outlives the process.  The decoder's calls
run for several raw transactions at once and meet only in the node, whose locks
on UTXOs keep them apart.

What is hard, and what must be true:

- **The scanner** reads the chain height, a block and the parent hash in
  different RPCs while the node forks, fails RPCs or the process dies between two
  writes.  *The saved head must never pass a lost block; observers must end with the
  head's branch; a record of a failed block may go only when the block was
  delivered; a rescan must start where it was asked to; in the end the head is the
  tip and no record is left over.*
- **The batch** is four kinds of goroutines over four channels, with closes
  that would make a late sender panic, and counters read by another goroutine than
  the one that writes them.  *Every call returns; it leaves no goroutine
  behind; it leaks no element of the pool; what it did not deliver is recorded; for
  its caller it acts like a single sequential step.*
- **The decoder** collects UTXOs address by address; an RPC may fail, or its
  answer may be lost after the node has locked; the application may call the four
  operations in any order and repeat them.  *Value is conserved; two transfers
  share no input; the owners of the inputs sign; nothing unsigned is posted.*
- **Contracts** are created twice, submitted twice, signed by accounts in the order of
  a Go map, refused when the state they read has changed, and awaited against a
  deadline.  *What is posted is signed as the node asks; one raw transaction is
  executed at most once, also after a lost answer; it names what was executed; a receipt is its
  own; a submission returns.*
- **Extraction** asks the application for each input, output, request and log, and may
  be answered from different states of the wallet, or fail in the middle; a log is looked up
  again for each request, under the request's module.  *What was watched from the start is
  extracted; a receipt has the events of its own module's contracts and no others; a failure has a
  cause and leaves nothing half delivered.*
- **The RPC client** is connected by whichever call comes first, without a lock.
  *Once connected it stays usable; panics have a known cause; connections are
  bounded; each call returns.*
- **Summaries** gather UTXOs in batches with a limit and three `continue`s.
  *No UTXO is gathered twice; a batch respects the limit; nothing gathered is
  left out.*

All the hazards, each at its line, are in `PROJECT.json`, those that no property
covers with the reason.

## 2. Modules

| Module | Models | Extends / uses |
|---|---|---|
| `Chain` | blocks as `pb.InternalBlock`: height, `Blockid`, `PreHash` | |
| `ChainFollower` | abstract: what an application expects of a scanner | `Chain` |
| `BlockScanner` | scan task, store, API calls, node, crashes | `Chain`; implements `ChainFollower` |
| `BatchContract` | abstract: what a batch promises its callers | |
| `BatchExtract` | the goroutines of a batch | implements `BatchContract` |
| `Utxos` | the node's UTXOs, locks, RPC outcomes (external) | |
| `Transfer` | Create, Sign, Verify, Submit of several raw transactions | `Utxos` |
| `Summary` | `CreateSimpleSummaryRawTransaction`, several calls | `Utxos` |
| `Extraction` | `ExtractTransaction` and its three callers | |
| `Contract` | Create, Sign, Verify, Submit, await of several contract transactions | |
| `RpcClient` | `connect` and the shape of each RPC method, for several threads | |
| `BlockScannerProofs`, `BatchExtractProofs`, `UtxosProofs`, `TransferProofs`, `SummaryProofs`, `ExtractionProofs`, `ContractProofs`, `RpcClientProofs` | lemmas and theorems | the module of that name, `TLAPS` |
| `MCBlockScanner`, `MCTransfer`, `MCSummary`, `MCExtraction`, `MCContract` | instances for TLC; `BatchExtract` and `RpcClient` are checked as they are | |

The composition: `BlockScanner` is shown to implement `ChainFollower`, the scanner as its
application sees it.  `BatchExtract` is shown to implement `BatchContract`, and
`BlockScanner` uses what that contract says of a finished call - all delivered;
recorded with `nil`; recorded with an error - as one step
(`BatchExtractTransaction`).  `Extraction` is the inside of one goroutine of
`BatchExtract`: its `extracting` stage and, for the transaction, the notification that
`saveWork` makes.  `Transfer` and `Summary` are two clients of `Utxos`.  `RpcClient`
is below all of them: what its calls can end in is an RPC that answers or fails in the others.

Each module ends with its properties.  Definitions named as mutants ("Mutant of
X") are plausible wrong versions of X; the specification does not use them. They
show, for each property, a change of the code that the property detects.

### Chain

A `Blockid` commits to the history of its block, so a block *is* its history:
the sequence of tags from genesis.  The hash comparison of line 129 becomes
`PreHash(b) = curHash`, the node's main chain is named by its tip, and
`GetBlockByHeight(h)` is `At(main, h)`.

### BlockScanner

One action is the code between two points at which another actor can interfere.

| Action | Code |
|---|---|
| `StartFromHead`, `StartFromTip`, `FetchFirst` | `GetScannedBlockHeader` (1015-1053), called at the start of the task (77-88); a saved head of height 0 counts as none |
| `LoopPaused`, `Loop` | 97-116: `Scanning`, `GetBlockHeight`, the tip |
| `FetchNext`, `FetchFails`, `FetchForked` | 116-147: `GetBlockByHeight`, the hash, the unscan record, the rewind and its clamp |
| `RewindStep` | 149-169: local block or the node's, head saved |
| `ForkNotify` | 171-176 |
| `Extract`, `SaveHead`, `SaveBlock`, `Notify` | 180-194, in this order; a crash may come between any two |
| `RescanLast`, `LastExtract` | 200-203 with `scanBlock` |
| `ReadUnscanRecords`, `RescanFailed`, `FailedExtract`, `DeleteRecord`, `TaskEnds` | `RescanFailedRecord` (251-301) |
| `CallScanBlock`, `ScanBlockExtract`, `ScanBlockNotify` | `ScanBlock` (211-248) beside the task |
| `CallSetRescanBlockHeight`, `SetRescanBlockHeightSaves` | 1096-1113 |
| `Grow`, `Fork` | the node: a block more; another, longer branch |
| `Crash` | the store stays, the task and the call are gone |
| `Run`, `Pause` | of the scanner base |

`base`, `asked`, `extracted` and `announced` are history variables: where
scanning was to begin, the pending rescan, what reached the observers and what they
were told.  `budget` is what the environment may still do.  The store keeps
one unscan record per height, because `NewUnscanRecord` is always called with an
empty transaction id for heights, and deletion is by height.

### ChainFollower

The scanner without tasks, stores and RPCs: a `tip` that is followed, the height `base`
above which scanning was asked for, the blocks `delivered`, the heights `queued` to be
scanned again.  The tip goes on along its branch if all blocks it is then owed
to the observers (`Owed`) are delivered or queued (`Extend`); it steps back along the
branch, or to where the scan began (`Retreat`); a scan is asked for (`Rebase`); a height
leaves the queue only if the block owed there was delivered (`Settle`).  The node's chain is
no part of it: what the follower may do does not depend on where the main chain is.

The mapping (`Follower` in `BlockScanner`): the tip is the saved head, none if its height is
0; `delivered` is `extracted`; `queued` are the unscan records.

| Action of the follower | Steps of the scanner |
|---|---|
| `Extend` | `SaveHead`; `RewindStep` after skipped heights, to a block above the head |
| `Retreat` | `RewindStep` after a fork |
| `Rebase` | `FetchFirst`, `SetRescanBlockHeightSaves` |
| `Deliver`, `Queue` | every batch: `Extract`, `LastExtract`, `FailedExtract`, `ScanBlockExtract`; `Queue` also `FetchFails`, `RescanLast`, `CallScanBlock` |
| `Settle` | `DeleteRecord`, and `FetchForked`, which drops the record of the block below (143) |

### BatchExtract and BatchContract

The state of a call is the *stage* of each of its transactions - which goroutine
or channel has it: `waiting` (`extractWork` has not started it), `extracting`,
`sending` (on `producer`), `queued` (`values` in `extractRuntime`), `saving` and
`counting` (in `saveWork`), `saved`.  `tokens` counts the elements of
`extractingCH`.  A goroutine that has sent its result still holds its element
until `<-end`; it may do so after its call has returned, hence `releasing`.
An unbuffered send and its receive are one step.  The refinement mapping takes
a transaction as handled once `saveWork` has notified or recorded it.

### Utxos, Transfer, Summary

The node: `SelectUTXOBySize` locks all it returns, the lock expires, `GetBalance`
ignores locks, `PostTx` spends.  An RPC answers, fails, or fails *after* the
node acted.  `Transfer` has an action per address of the loop in Create
(`Collect`), then `NotEnough` or `Build`, and an action per call of Sign,
Verify and Submit, enabled in any order as the application may call them.
`Taken` is the inner loop at 135-146: its `break` leaves only that loop,
so that each later address still gives one input.  `Outputs` is
`appendOutput`.  `Summary` has the two RPCs of an address as two actions; its
`continue`s are `PassOver`, and a nil balance ends the call in a
panic.  Fees are zero in the code, as in the model.

### Extraction

`i` is the index of the loop over inputs, outputs or requests, `j` that of the loop over the
logs inside the last.  Each turn of a loop is a step, because each asks
`ScanTargetFunc` anew while `Watch` may add a target.

| Action | Code |
|---|---|
| `ExtractTxInput`, `ExtractTxOutput`, `InputsDone`, `OutputsDone` | the loops over inputs and outputs (`extractTxInput`, `extractTxOutput`); then `Success` |
| `RequestNotWatched`, `RequestNotContract`, `RequestWithoutABI`, `RequestWithABI`, `RequestsDone` | the loop over the requests (650-676), with its `continue`, its failure and its `return` |
| `LogNotWatched`, `LogNotContract`, `LogEvents`, `LogsDone` | the loop over the logs (689-723), with its `continue` and its failure, and the receipt (725-745) |
| `BatchFails`, `BatchNotifies`, `ApiReturns` | the three callers |
| `Accepts`, `Refuses`, `NotifyDone` | `newExtractDataNotify` (876-894) for the transaction |
| `Watch` | the application, between any two lookups |

A transaction is its sequence of input and output addresses, of requested contracts - a module
and a name - and of the buckets of its logs, which are names only: `LogContract` puts
the module of the current request before the bucket (694), so that a contract of another module
is not found, or another of that name is.  Amounts, times and the contents of events are
left out.  `watch0` is a history variable: what was watched at the start.

### Contract

| Action | Code |
|---|---|
| `Create`, `CreateFails`, `CreatePanics` | `CreateSmartContractRawTransaction` with `PreInvokeContract`: signatures are appended to those of an earlier Create; an unknown key of the ACL dereferences nil |
| `Sign` | the wallet, one account at a time |
| `SubmitVerified`, `SubmitUnverified` | `VerifyRawTransaction` and its ignored error (291); the order of accounts is a Go map's (`AccountOrders`) |
| `Posted`, `PostedUnheard`, `PostFails` | `PostTx`; `TxID`, `IsSubmit` |
| `AwaitExpires`, `AwaitAsks`, `AskFails`, `AskFindsNothing`, `AskAnswers`, `Wake` | the loop that awaits the receipt (365-384), against `expiredTime` |
| `Confirm`, `Tick` | the node puts a transaction into a block; a second passes |

The node keeps a `version` of all a pre-execution reads and of the UTXOs it selects -
it does not lock them - and takes a transaction if that has not changed and the
signatures are the required ones in their order (`WellSigned`).  This is an external
part: the adapter sends `AuthRequireSigns` by position, and the node that
compares them is not in the repository.  Every accepted transaction changes the version, so of
two created from the same state one is refused; a real node refuses fewer.

### RpcClient

`connect` writes the two words of the interface `xchainClient`, and the timeout, without
a lock; another thread may see them in any order, which is `Stores`: one word at a
time, any of those left.  `Checks`, `Dials`, `ConnectFails` are the rest of `connect`,
`MakesContext`, `Invokes`, `Answers`, `AnswersNothing`, `Expires` what each RPC
method does then.  `LoadAssetsConfig` puts a new client in the place of the old one.

## 3. What TLC checks

| Run | Properties | Distinct states |
|---|---|---|
| `scanner_forks` | `TypeOK`, `FollowedBlocksCovered`, `ObserversFollowHead`, `RescanStartsWhereAsked` | 7.3 M |
| `scanner_failures` | `FollowsWhileReliable`, `CatchesUp`, `FailedBlocksAreRescanned`, `RecordsDropWhenDelivered` | 4.7 M |
| `batch_calls` | `TypeOK`, `TokensConserved`, `NothingLeftBehind`, `LostMeansRecorded`, `KeepsContract`, `EveryCallReturns` | 0.1 M |
| `transfer_pair` | `TypeOK`, `ValueConserved`, `InputsExclusive`, `OwnersAreAsked`, `PostedIsSigned` | 2.6 M |
| `summary_pair` | `TypeOK`, `GatheredOnce`, `BatchesAreSound`, `LastAddressBuilds` | 0.2 M |
| `contract_pair` | `TypeOK`, `SentIsSigned`, `ExecutedOnce`, `AcceptedIsReported`, `ReceiptIsOwn`, `PanicsOnReuseOnly`, `SubmitReturns` | 0.8 M |
| `extraction_tx` | `TypeOK`, `WatchedIsExtracted`, `ReceiptsComplete`, `ReceiptsHaveOwnEvents`, `FailuresHaveACause` | 3.7 M |
| `rpc_calls` | `TypeOK`, `PanicsAreExplained`, `SettledIsSafe`, `FewConnections`, `CallsReturn` | 0.06 M |
| `scanner_bug_notify`, `scanner_bug_first`, `transfer_bug_authorised`, `summary_bug_stranded` | one each, violated: section 4 | |

**Scanner, `scanner_forks`.**  Chains up to height 4 that start with two blocks, two tags,
two forks, one call of `ScanBlock` or `SetRescanBlockHeight`, one pause.  A fork
below the tip needs height 4 to be followed by two rewinds and a return to the tip,
and a second fork can come during the rewind of the first.  The pause and the call show a
rescan that was asked for while the chain forks.  Symmetry under permutation of tags
is used here, where nothing but safety is checked.

**Scanner, `scanner_failures`.**  Height 3, one fork, two failed RPCs, a crash, a failed
extraction and a refused notification, in any order: enough to skip two heights in a row, lose the
answer to the recovery of the first, or crash between any two saves of the block
after a skipped one.  The run is also the liveness check, which needs all
of these to happen and end: the chain grows at most to `MaxHeight` and the
budgets run out, so the `<>[]` properties say "once the environment is at rest".

The properties name the environments in which the code achieves them, in their
antecedents: `FollowedBlocksCovered` is for chains that have not forked so far, or
for a history without failures, because the code does not survive both
together.  When a fork meets a height whose local block is missing, the node's block
of the *new* branch becomes the starting point and the block is never extracted.
`scanner_failures` goes beyond these conditions; section 6 says what is lost there.
The refinement of `ChainFollower` has the same condition, `Reliable`, and an observer's
refusal ends it (finding 1): `FollowsWhileReliable` asks it of each step that ends in a
state where it still holds, and `scanner_failures` has histories of both kinds,
and those that leave them.  It says more than `FollowedBlocksCovered`, which is checked in
the larger run: above `base` the head never changes to a sibling of the block it names
without going back first, and no record goes for a block not delivered.
`FollowsChain`, the abstract specification itself, is proved for the environments that stay
`Reliable`.

**Batch.**  Two calls with up to two transactions each and a pool of two: both
calls can hold the whole pool, block in `extractWork`, and have a goroutine
that releases late into the next call.  With two transactions, `done` differs from
the total by one and a failure may be the first or the last.

**Transfer.**  Two requests over one account of two addresses and three UTXOs,
amounts 1 and 2, with orders that pay a stranger, the account itself, or both, so
that one UTXO is enough or not, the change is zero or not, and the change
address is a destination or not; one RPC failure, one expired lock, each raw
transaction created up to twice.  `InputsExclusive` says what holds while no lock
has expired and `PostedIsSigned` what holds while nothing is created twice;
runs and bounds contain states beyond both conditions.

**Summary.**  Two calls over three addresses and five UTXOs, two inputs to a
transaction: a batch fills up in the middle of an address and is started over,
the limit cuts an address short, and one call's locks empty another call's
address between its two RPCs.

**Contract.**  A deployment through `xkernel` (an address in one part) under an ACL of two
keys, and a call of a user contract, in a wallet of two accounts that own the
three addresses in any way, one key perhaps not at all; each is created and submitted
up to twice, one RPC fails, one answer of `PostTx` is lost.  The deadline of two
seconds with a sleep of one gives the loop turns before, at and after it.

**Extraction.**  All transactions with up to two inputs and one output, and all with one
input, up to two requests and up to two logs, over two addresses, two modules and two names in
each; all wallets that watch up to two targets under two keys, and one target that is watched
late; all three callers, two observers, one refusal, one write error.  Two requests and two
modules are needed for a receipt to lose or gain the events of another, and for the `return` in
the loop to hide the second request; two logs for a failure behind an event already read;
two watched targets for a request to be watched as a contract and its log as something else,
and the late one for a lookup that is answered differently in the next turn.  With requests in two modules and one log, one
receipt has the event and the other has not, if only the first module has a watched contract of that name.
`FailuresHaveACause` says when an extraction fails (`Misfit`) and when it must: a misfit from
the beginning may be passed over only behind the `return` (`EndsBefore`).

**RPC client.**  Two threads and two configurations: both dial one client at the same
time, each sees the other's words in any order, and a client is replaced under a
call.  More threads add no new pair of writer and reader.

**Bounds.**  `MaxHeight`, `MaxForks`, `MaxRpcFailures`, `MaxCrashes`,
`MaxExtractFailures`, `MaxNotifyFailures`, `MaxCalls`, `MaxPauses`, `MaxAmount`,
`MaxExpiries`, `MaxCreates`, `MaxVerifies`, `MaxSubmits`, `MaxLostAnswers`, `MaxWatches`,
`MaxRefusals`, `MaxSaveFailures` and `MaxLoads` are modelling bounds, each in the
guard of the action it limits.  `maxExtractingSize`, `RescanLastBlockCount`,
`MaxTxInputs`, `MinTransfer`, `AwaitTimeout`, `DefaultTimeout`, `SleepSecond` and
`Timeout` are the code's own parameters, the times scaled down.  `RescanWhileRunning`
and `MinRescanHeight` say how the application uses `SetRescanBlockHeight`.

**Deadlock** is checked in the scanner and the batch: a timer or a caller can
always go on.  `Transfer`, `Summary` and `Contract` set `CHECK_DEADLOCK FALSE`: an application
that makes no further call, or whose calls have returned, leaves the decoder
at rest, and the bounds on its calls bring that about.  `Extraction` is one
transaction and ends; in `RpcClient` every thread may have panicked, which ends the process.
That no call hangs is `EveryCallReturns`, `SubmitReturns` and `CallsReturn`.

**Fairness.**  In `BlockScanner`: weak fairness of the task (a goroutine started by
a timer; each RPC has a timeout and returns), of a call in progress, and of
`Run` (the application starts the scanner again after a pause or a
crash).  No fairness for calls, for the growth of the chain, nor for any failure.  In
`BatchExtract`: weak fairness for each goroutine, as the Go scheduler gives it,
and strong fairness for `extractWork`, which blocks in a send on the shared
`extractingCH`: the Go runtime serves blocked senders in the order of their arrival,
so a call cannot be overtaken for ever by another that is made again and again.  In
`Contract`: weak fairness of a submission's next step, since its goroutine runs and
each RPC answers or times out, and of time.  In `RpcClient`: weak fairness of what a thread
does itself, and of time; the node need never answer.  Apart from
`Run`, no fairness anywhere for the application, nor for the node's confirmation of a
transaction.

## 4. Where the code departs from what it says

1. **A refused block is forgotten** (`scanner_bug_notify`).  `newExtractDataNotify`
   always returns `nil` (893), also after it has recorded the block as unscanned.
   `RescanFailedRecord` takes this `nil` for success and deletes the record (298).
   (`RecordsDropOnlyWhenDelivered` is `RecordsDropWhenDelivered` without its condition.)
   A block whose data is refused again in the rescan is never delivered, against
   the comments at 205, 349 and 882.
2. **A rescan from block 1 starts at the tip** (`scanner_bug_first`).
   `SetRescanBlockHeight(1)` saves a head of height 0, which
   `GetScannedBlockHeader` (1031) takes for "no head"; the error text at 1099
   admits every height but 0.
3. **Only the initiator authorises** (`transfer_bug_authorised`).  Signatures
   are collected from every owner of an input, and only the initiator's is put
   into the transaction (`tx_decoder.go` 286-291), against the comment at 135.
4. **Gathered UTXOs are stranded** (`summary_bug_stranded`).  The `continue`s at
   `tx_decoder.go` 387-389 and 394-396 also skip the test for the last address:
   if the last address has too little, what was gathered from the others is
   in no transaction, stays locked, and the call returns no error, against the
   comment at 416.  `LastAddressBuilds` is what holds instead.

## 5. What is proved

All proofs are for every value of the constants: any chain height, number of
forks, failures, calls, transactions, requests and addresses.

**Assumptions.**  `ChainAssumption`, `ScannerAssumption`, `BatchAssumption`,
`UtxosAssumption`, `TransferAssumption`, `SummaryAssumption`, `ContractAssumption`,
`ExtractionAssumption`, `RpcAssumption` give the constants their types: bounds
are naturals, `NoBlock` is no block, the pool has room for one, sets of calls, UTXOs,
accounts and threads are finite, an account lists an address once, orders are finite,
not empty and pay positive amounts, times are positive.  Five theorems on the scanner
also state how the application uses it as their own `ASSUME`, below.

**`BlockScannerProofs`**

- `TypeCorrect`: `TypeOK`.  It is not inductive: that `currentHeight - 2` stays in
  range needs to know that a fetched height is at least 1 and lies between the heights
  of the loop.  `InRange` states this per `pc`, and `Sane == TypeOK /\ InRange` is
  inductive; every later proof uses it.
- `Coverage`: `FollowedBlocksCovered`, if the head is set only while the scanner is
  stopped (`~RescanWhileRunning`).  Two different reasons, for the two environments
  of the property:
  without forks (`FailuresInv`) everything the scanner holds is on the main chain,
  and each height between `currentHash` and `currentHeight` has a record - the
  rewind to the local block after a skipped height deletes just the record
  it will extract again; without failures (`ForksInv`) each block of the
  head's branch above `base` is extracted and is the local block of its height,
  so that a rewind lands on a block of that branch.
- `FollowsReliably` (`FollowsWhileReliable`) and `Refinement` (`FollowsChain`), under the
  same assumption; `Refinement` has to know that the environment stays one of the two,
  and assumes it of the bounds (no refusals; no forks, or no RPC errors, failed
  extractions and crashes).  There is one lemma for each action of the follower
  (`FollowerExtends` and so on), which most steps of the scanner meet at once.  Four depend on the
  invariants of `Coverage`: `SaveHead`, `RewindStep`, `FetchForked` and `DeleteRecord`,
  in `FailuresFollow` and in `ForksFollow`.  After a skipped height the rewind goes *up* from
  the head, over blocks that are all recorded; after a fork it goes down to an
  ancestor, because the local blocks are the head's ancestors.
- `Promise`: the abstract specification alone implies that no owed block is missed
  (`NothingMissed`), so that implementing it is worth something.
- `ObserversFollow`: `ObserversFollowHead`, if moreover the chain the scanner first
  meets has two blocks: a fork of block 1 is never left again (section 6).
  `ForksInv` makes the local blocks the head's ancestors; `ObserversInv` makes
  the announced blocks the local ones, except for those between two steps of the loop.
- `RecordsKept`: `RecordsDropWhenDelivered`, unconditionally; the property itself is
  about histories without refusals, and finding 1 shows that it must be.
  `DeliveredInv` carries the delivery from the batch to the deletion.
- `RescanAsAsked`: `RescanStartsWhereAsked`, if the scanner is stopped and the
  height is 2 or more; finding 2 shows that the latter is needed.  `AskedInv`: no
  step between the call and the next task touches the head.

**`BatchExtractProofs`**, without further assumptions, from one inductive invariant
`IInv`: `TypeOK`; `TokensConserved`; `Counted` (`done` is the number of saved
transactions); `QuitIsEarned` (`quit` is closed only when no transaction is left
on its way); `NothingLeftBehind`; `Handled` (what each counted transaction left
behind: delivery or a record, and `failed` with a record).  From it:

- `TypeCorrect`, `PoolIsConserved`, `NoGoroutineLeft`, `NoSilentLoss`: the
  properties of the run, for any number of calls, transactions and pool size.
- `Refinement`: `Spec => KeepsContract`.  Each step of a goroutine is a step of
  the contract or a stutter: `NotifyAccepted`, `NotifyRefused`, `SaveFailure` handle a
  transaction, `Quit` returns, and `QuitIsEarned` is what makes nothing left
  when it does.

**`UtxosProofs`** has what the next two modules need of amounts.  A total is a fold over a
set, in an order that the definition chooses, and the facts about it need induction on the
set.  The library's induction theorems take an operator as a parameter; here the
induction is a smallest counterexample instead: the subsets of a finite set are
well-founded under inclusion (a theorem of the library without such a parameter), so
that among the subsets for which a statement fails there is a minimal one
(`Smallest`), and a step leads from it to a smaller one.  That gives the existence and the
uniqueness of the recursive function behind the fold (`SumsExist`, `SumsUnique`), that the order does
not matter (`SumOfRemove`), that sums are naturals, and agree on functions that agree
(`SumOfType`, `SumOfAgree`).  These are lemmas about the fold and say nothing of the program;
`ValueIsConserved` rests on them.

**`TransferProofs`**, without further assumptions:

- `TypeCorrect`: `TypeOK`.
- `OwnersSign`: `OwnersAreAsked`.  `AskedInv`: between any two RPCs of Create the list of
  those asked names exactly the owners of the UTXOs collected so far, each once
  (`Names`), through addresses that are passed over; a built transaction keeps that list.
- `ValueIsConserved`: `ValueConserved`.  `PaidInv`: the balance is the total of the UTXOs
  taken, and what is built pays it out; `OutputsFacts` follows `appendOutput` in its
  three cases: no change, change to a new address, change merged with a destination.
- `NoSharedInputs`: `InputsExclusive`.  `LocksInv`: as long as no lock has expired,
  what a request holds is locked and no two requests hold the same; a
  step adds to a request only what was not locked before.
- `NothingUnsigned`: `PostedIsSigned`.  `SignedInv`: a raw transaction created at
  most once is completed only with a signature in it, and Create, which
  alone takes signatures away, runs before the first Verify.

**`SummaryProofs`**, without further assumptions:

- `TypeCorrect`: `TypeOK`, from `CallInv` below: what is built is a transaction.
- `Calls`: the inductive invariant of one call, `CallInv`: whom it has asked, that what
  it has gathered is below the limit and owned by them, that what it has built is
  sound, how it ended.  `Batches` (`BatchesAreSound`) and `LastAddress`
  (`LastAddressBuilds`) follow.  That a batch fits the limit rests on cardinalities of unions,
  for which the library's theorems on finite sets are cited.
- `Once`: `GatheredOnce`.  `LockInv`: while no lock has expired, the *pieces* of all calls -
  each built transaction, and what is being gathered - are locked and pairwise
  disjoint; a selection changes one piece, by UTXOs that were not locked.

**`ContractProofs`**, from one inductive invariant: `TypeOK` and, for each raw
transaction, the parts of `Sound`.

- `TypeCorrect`; `Sent` (`SentIsSigned`); `Once` (`ExecutedOnce`); `Reported`
  (`AcceptedIsReported`); `Receipts` (`ReceiptIsOwn`); `Panics` (`PanicsOnReuseOnly`).
- The argument for `Once` is not that the code prevents a second execution, which it
  does not try to, but that signatures only accumulate: once a transaction of a raw
  transaction was accepted, whatever it posts later carries more signatures than
  `AuthRequire` has addresses (`TooManySigns`), and the node refuses it
  (`FirstAccepted`).
- The order of accounts enters through `InOrder`, which is shown to be a permutation of the
  entries, and the identity on those of one account.

**`ExtractionProofs`**: `TypeCorrect`; `Extracts` (`WatchedIsExtracted`); `Completes`
(`ReceiptsComplete`); `OwnEvents` (`ReceiptsHaveOwnEvents`); `Fails` (`FailuresHaveACause`).  The
invariants say of each loop what the turns that are over have found (`InputsFound`,
`OutputsFound`; `RequestsPassed`: each request before the `i`-th has left its receipt, under
its key or a later one's, and fitted what was watched; `LogsPassed`: each log before the
`j`-th is an event of the current request if and only if its lookup said so), and that
what is watched stays watched (`WatchGrows`), so that what held for an earlier lookup still
does (`Stable`).

**`RpcClientProofs`**: `TypeCorrect`; `Settled` (`SettledIsSafe`); `Explained`
(`PanicsAreExplained`), from an invariant on which words are written before a thread
can use them; `Few` (`FewConnections`), which counts the threads that have dialled.

**Model-checked only**: all liveness (`CatchesUp`, `FailedBlocksAreRescanned`,
`EveryCallReturns`, `SubmitReturns`, `CallsReturn`), which TLAPS does not prove.  Every
invariant and every action property of a passing run is a theorem.

## 6. Known limits of the code, seen in the model

These are behaviours of the code that no statement of the repository
contradicts; the models have them, and the properties name the exception.

- Forks together with failures may lose a block (section 3).
- The clamp at 145-147 makes block 1 special: when block 1 could not be fetched,
  the rewind from height 2 takes it as scanned (`FollowedBlocksCovered` excepts
  it); and when block 1, once scanned, is replaced, the comparison fails for
  ever, since the rewind never goes below it.
- A crash between 143 and 175 loses the notice of a fork: notifications are not
  stored.  `ObserversFollowHead` is checked without crashes.
- `SetRescanBlockHeight` while the task runs is overwritten by the task's next
  `SaveLocalBlockHead` (`RescanWhileRunning` is `FALSE` in the runs).
- A record of height 0 is skipped by each rescan and stays.
- With fewer blocks than `RescanLastBlockCount` the loop at 201 wraps and rescans
  nothing.
- A raw transaction that is created a second time keeps `IsCompleted`, so that
  Submit accepts it unsigned (`PostedIsSigned` is for those created once).
- UTXOs that were selected and not used, or whose Create failed, stay locked in
  the node until the lock expires.
- A failed `SelectUTXOBySize` makes a summary return none of the transactions it
  has built.
- Contract receipts are extracted and not passed on to the observers: `told` has the
  keys of `data` only.  `ExtractTransactionAndReceiptData` alone returns them.
- Every receipt of a transaction gets the events of all the logs whose names its own module has
  watched, whichever request wrote them; a log written in another module counts for a
  contract of that name in this one, and is otherwise lost.  A second request of one contract, or of
  another under the same key, replaces the receipt of the first.
- `ExtractTransactionData` fails on a transaction that calls a watched contract: its
  wrapper of the scan target function drops the `TargetInfo`.
- A watched contract without an ABI ends the loop over the requests (674-676), so
  that later ones have no receipt: `ReceiptsComplete` excepts them.
- The receipt of a call of `xkernel` is never found: the address in one part
  is looked up with a colon behind it, and the wait ends by its deadline.
- After an error the wait for a receipt asks again at once, without the sleep.
- A raw contract transaction that is created again, or submitted again, keeps its
  earlier signatures, and the node refuses it; with signers in two accounts the
  signatures may come in another order than `AuthRequire` (`SentIsSigned` is
  for one account).  The UTXOs of a pre-execution are not locked.
- Submitting again what no longer verifies calls `PostTx` with nil, and an ACL key
  that the wallet does not have is reported through a nil pointer: both panic.
- `GetBalance` returns nil without an error for a chain the node does not know; its callers
  dereference it (998, and `tx_decoder.go` 392 in a summary).
- Each thread that finds no client dials a connection nobody closes, and a call
  between the two writes of `connect` may have a timeout of zero.

## 7. Not modelled

- **Decimals**: the conversion of amounts between decimal strings and big-endian bytes, and what it does
  with more decimals than the chain has; amounts are naturals here.
- **A node that breaks its own protocol**: an answer without a header, which each RPC method
  dereferences, and what `PostTx(nil)` does in the RPC layer; `Contract` counts it as a panic.
- **Contents**: amounts and times of extracted entries (an output's `BlockHash` is the
  `Txid`, 623), arguments of calls and their conversion in `EncodeInvokeRequest`, events.
- **RPC methods without a caller**: `GetBlockChains`, `GetSystemStatus`,
  `GetBalanceDetail`, `SelectUTXO`; and those that only read: `CallSmartContractABI`,
  `GetTokenBalanceByAddress`.
- **Store errors of the task**: `SaveLocalBlockHead` and the others ignore them; a store that
  fails silently keeps no promise.  A failed `SaveUnscanRecord` of the batch is in `Extraction`.
- **Address decoder, `openwtester`, constructors, getters**: no state that changes
  after construction; hashing and encoding are the libraries'.
- **An order of zero** with no UTXO panics at `tx_decoder.go` 154; orders are positive here.
- **UTXOs created by posted transactions**, and the contents of transactions.

## 8. Plan

Done, in the order of importance: `Chain`, `BlockScanner`; `BatchContract`,
`BatchExtract`, refinement; `Utxos`, `Transfer`, `Summary`; `Contract`, `Extraction`,
`RpcClient`; the proofs of each; `ChainFollower`, which `BlockScanner` implements.

What would come next:

1. `ObserversFollow` for a scanner that first meets a chain of one block, with block 1
   excepted as in `FollowedBlocksCovered`.
2. An abstract specification of the node's locks - each UTXO free, held by one
   caller or spent - that `Transfer` and `Summary` implement while no lock expires.
