---------------------------- MODULE BlockScanner ----------------------------
(***************************************************************************)
(* The block scanner of xuperchain/blockscanner.go: the periodic task      *)
(* ScanBlockTask that follows the node's main chain, its local store       *)
(* (blockscanner_db.go over the BlockchainDAI), the API calls that run     *)
(* beside it (ScanBlock, SetRescanBlockHeight, Pause), and the node it     *)
(* asks, whose chain grows and forks while the task runs.                  *)
(*                                                                         *)
(* One action is one step between two points where another actor can       *)
(* interfere: an RPC to the node, a write to the store, a notification.    *)
(* BatchExtractTransaction is one step here; BatchExtract.tla models its   *)
(* goroutines and shows that it acts as that one step.                     *)
(***************************************************************************)
EXTENDS Chain, FiniteSets

CONSTANTS
  StartHeight,           \* height of the chain when the scanner first runs
  RescanLastBlockCount,  \* bs.RescanLastBlockCount
  RescanWhileRunning,    \* may SetRescanBlockHeight be called while the task runs?
  MinRescanHeight,       \* least height the application asks to rescan from
  \* Modelling bounds: how often the environment may do each of these.
  MaxForks,              \* the node switches to another branch
  MaxRpcFailures,        \* an RPC of the task returns an error
  MaxCrashes,            \* the process dies and is started again
  MaxExtractFailures,    \* a transaction of a block cannot be extracted
  MaxNotifyFailures,     \* an observer refuses the data of a block
  MaxCalls,              \* ScanBlock or SetRescanBlockHeight is called
  MaxPauses              \* Pause is called

ASSUME ScannerAssumption ==
  /\ StartHeight \in Heights
  /\ RescanLastBlockCount \in Nat
  /\ MinRescanHeight \in Nat
  /\ RescanWhileRunning \in BOOLEAN
  /\ MaxForks \in Nat
  /\ MaxRpcFailures \in Nat
  /\ MaxCrashes \in Nat
  /\ MaxExtractFailures \in Nat
  /\ MaxNotifyFailures \in Nat
  /\ MaxCalls \in Nat
  /\ MaxPauses \in Nat

VARIABLES
  main,       \* the node's main chain, named by its tip
  head,       \* store: the current block head [height, hash]
  local,      \* store: the local block saved for each height, or NoBlock
  unscan,     \* store: the heights that have an unscan record
  scanning,   \* bs.Scanning
  pc,         \* where the scan task is
  cur,        \* currentHeight
  curHash,    \* currentHash
  block,      \* the block the task fetched last
  forkBlock,  \* forkBlock, the local block that was replaced
  todo,       \* the heights the task still has to rescan
  apiPc,      \* where the API call beside the task is
  apiBlock,   \* the block that call fetched
  base,       \* history: scanning was asked for above this height
  asked,      \* history: height a rescan was asked from, 0 once it was started
  extracted,  \* history: blocks whose data reached every observer
  announced,  \* history: blocks announced to the observers and not retracted
  budget      \* what the environment may still do

store == <<head, local, unscan>>
task  == <<cur, curHash, block, forkBlock, todo>>
api   == <<apiPc, apiBlock>>
told  == <<extracted, announced>>
vars  == <<main, store, scanning, pc, task, api, base, asked, told, budget>>

TaskPc == {"idle", "first", "loop", "fetch", "rewind", "forkNotify", "extract",
           "saveHead", "saveBlock", "notify", "rescanLast", "lastExtract",
           "rescanFailed", "failedExtract", "deleteRecord"}

ApiPc == {"idle", "extract", "notify", "saveHead"}

Kinds == {"fork", "rpc", "crash", "extract", "observer", "call", "pause"}

----------------------------------------------------------------------------
\* Helpers.

Allowance == [k \in Kinds |->
  CASE k = "fork"     -> MaxForks
    [] k = "rpc"      -> MaxRpcFailures
    [] k = "crash"    -> MaxCrashes
    [] k = "extract"  -> MaxExtractFailures
    [] k = "observer" -> MaxNotifyFailures
    [] k = "call"     -> MaxCalls
    [] k = "pause"    -> MaxPauses]

Spend(k) == budget[k] > 0 /\ budget' = [budget EXCEPT ![k] = @ - 1]

\* An RPC that answers, and one that returns an error.
RpcAnswers == UNCHANGED budget
RpcFails   == Spend("rpc")

\* SaveLocalBlockHead: height and hash are written as given.
SaveLocalBlockHead(h, b) == head' = [height |-> h, hash |-> b]

\* Mutant of Rewind: by three blocks.
RewindByThree(h) == IF h = 3 THEN 1 ELSE h - 3

\* currentHeight - 2 on uint64, with the clamp of the code: 0 becomes 1.  At
\* height 1 the subtraction would wrap; -1 stands for the wrapped value, which
\* TypeOK excludes.
Rewind(h) == IF h = 2 THEN 1 ELSE h - 2

\* The heights of "for i := cur - N; i < cur; i++" on uint64: when N > cur the
\* start wraps to a value above cur and the body never runs.
LastBlocks(h) ==
  IF RescanLastBlockCount <= h THEN (h - RescanLastBlockCount) .. (h - 1) ELSE {}

\* BatchExtractTransaction(b) as its callers see it.  It returns nil when every
\* transaction was extracted, even if an observer refused the data (the refusal
\* only leaves an unscan record), and an error when an extraction failed.
Delivered(b) ==
  /\ extracted' = extracted \cup {b}
  /\ UNCHANGED <<unscan, budget>>

ObserverRefuses(b) ==
  /\ Spend("observer")
  /\ unscan' = unscan \cup {Height(b)}
  /\ UNCHANGED extracted

BatchReturnsNil(b) == Delivered(b) \/ ObserverRefuses(b)

BatchReturnsError(b) ==
  /\ Spend("extract")
  /\ unscan' = unscan \cup {Height(b)}
  /\ UNCHANGED extracted

BatchExtractTransaction(b) == BatchReturnsNil(b) \/ BatchReturnsError(b)

\* newBlockNotify(b, isFork): a new block is announced, a fork retracts it.
NewBlockNotify(b, isFork) ==
  announced' = IF isFork THEN announced \ {b} ELSE announced \cup {b}

\* The task's local variables die with the call.
ForgetTask ==
  /\ cur' = 0
  /\ curHash' = NoBlock
  /\ block' = NoBlock
  /\ forkBlock' = NoBlock
  /\ todo' = {}

EndTask == pc' = "idle" /\ ForgetTask

\* The loop is left at height h: the rescan of the last blocks is next.
LeaveLoop(h) ==
  /\ pc' = "rescanLast"
  /\ todo' = LastBlocks(h)
  /\ cur' = 0
  /\ curHash' = NoBlock
  /\ block' = NoBlock
  /\ forkBlock' = NoBlock

----------------------------------------------------------------------------
\* The node and the process the scanner lives in.

\* A block is appended to the main chain.
Grow ==
  /\ Height(main) < MaxHeight
  /\ \E t \in Tag : main' = Child(main, t)
  /\ UNCHANGED <<store, scanning, pc, task, api, base, asked, told, budget>>

\* The node switches to a longer branch.
Fork ==
  /\ Spend("fork")
  /\ \E b \in Blocks : /\ Height(b) > Height(main)
                       /\ ~IsAncestor(main, b)
                       /\ main' = b
  /\ UNCHANGED <<store, scanning, pc, task, api, base, asked, told>>

\* The process dies: the store survives, the task and the API call do not.
Crash ==
  /\ Spend("crash")
  /\ EndTask
  /\ scanning' = FALSE
  /\ apiPc' = "idle"
  /\ apiBlock' = NoBlock
  /\ UNCHANGED <<main, store, base, asked, told>>

\* Run and Restart of the scanner base: the timer may start tasks.
Run ==
  /\ ~scanning
  /\ RescanWhileRunning \/ apiPc # "saveHead"
  /\ scanning' = TRUE
  /\ UNCHANGED <<main, store, pc, task, api, base, asked, told, budget>>

\* Pause and Stop of the scanner base.
Pause ==
  /\ scanning
  /\ Spend("pause")
  /\ scanning' = FALSE
  /\ UNCHANGED <<main, store, pc, task, api, base, asked, told>>

----------------------------------------------------------------------------
\* ScanBlockTask.

\* GetScannedBlockHeader with a saved head: the task starts from it.
StartFromHead ==
  /\ pc = "idle" /\ scanning
  /\ head.height # 0
  /\ cur' = head.height
  /\ curHash' = head.hash
  /\ asked' = 0
  /\ pc' = "loop"
  /\ UNCHANGED <<main, store, scanning, block, forkBlock, todo, api, base, told, budget>>

\* GetScannedBlockHeader without one (height 0): the task starts one block
\* below the tip.  On an empty chain the height wraps and the node has no such
\* block, so the task gives up.
StartFromTip ==
  /\ pc = "idle" /\ scanning
  /\ head.height = 0
  /\ \/ /\ RpcAnswers
        /\ Height(main) > 0
        /\ cur' = Height(main) - 1
        /\ pc' = "first"
        /\ UNCHANGED <<curHash, block, forkBlock, todo>>
     \/ /\ RpcFails
        /\ UNCHANGED <<pc, task>>
  /\ UNCHANGED <<main, store, scanning, api, base, asked, told>>

\* The second RPC of GetScannedBlockHeader, for the hash of that block.
FetchFirst ==
  /\ pc = "first"
  /\ \/ /\ RpcAnswers
        /\ curHash' = At(main, cur)
        /\ base' = cur
        /\ asked' = 0
        /\ pc' = "loop"
        /\ UNCHANGED <<cur, block, forkBlock, todo>>
     \/ /\ RpcFails
        /\ EndTask
        /\ UNCHANGED <<base, asked>>
  /\ UNCHANGED <<main, store, scanning, api, told>>

\* One turn of the loop up to its exit: the task was paused, the node does not
\* tell its height, or the task has reached the tip.
LoopPaused ==
  /\ pc = "loop" /\ ~scanning
  /\ EndTask
  /\ UNCHANGED <<main, store, scanning, api, base, asked, told, budget>>

\* Mutant of Loop: the loop is left one block below the tip.
LoopStopsShort ==
  /\ pc = "loop" /\ scanning
  /\ RpcAnswers
  /\ IF cur + 1 < Height(main)
       THEN /\ cur' = cur + 1
            /\ pc' = "fetch"
            /\ UNCHANGED <<curHash, block, forkBlock, todo>>
       ELSE LeaveLoop(cur)
  /\ UNCHANGED <<main, store, scanning, api, base, asked, told>>

\* The height of the chain is asked, then the next block is due.
Loop ==
  /\ pc = "loop" /\ scanning
  /\ \/ /\ RpcAnswers
        /\ cur < Height(main)
        /\ cur' = cur + 1
        /\ pc' = "fetch"
        /\ UNCHANGED <<curHash, block, forkBlock, todo>>
     \/ /\ (cur >= Height(main) /\ RpcAnswers) \/ RpcFails
        /\ LeaveLoop(cur)
  /\ UNCHANGED <<main, store, scanning, api, base, asked, told>>

\* The block at the new height is fetched.  On an error its height is recorded
\* and the loop continues: currentHeight has advanced, currentHash has not.
FetchFails ==
  /\ pc = "fetch"
  /\ RpcFails
  /\ unscan' = unscan \cup {cur}
  /\ pc' = "loop"
  /\ UNCHANGED <<main, head, local, scanning, task, api, base, asked, told>>

\* The block continues the last one.
FetchNext ==
  /\ pc = "fetch"
  /\ PreHash(At(main, cur)) = curHash
  /\ block' = At(main, cur)
  /\ pc' = "extract"
  /\ UNCHANGED <<main, store, scanning, cur, curHash, forkBlock, todo, api,
                 base, asked, told, budget>>

\* It does not: the branch "block has been fork" up to the rewound height.
FetchForked ==
  /\ pc = "fetch"
  /\ PreHash(At(main, cur)) # curHash
  /\ forkBlock' = local[cur - 1]
  /\ unscan' = unscan \ {cur - 1}
  /\ cur' = Rewind(cur)
  /\ pc' = "rewind"
  /\ UNCHANGED <<main, head, local, scanning, curHash, block, todo, api,
                 base, asked, told, budget>>

\* Mutant of RewindTo: the saved head stays where it is.
RewindToForgetsHead(b) ==
  /\ curHash' = b
  /\ pc' = "forkNotify"
  /\ UNCHANGED <<head, cur, block, forkBlock, todo>>

\* The new starting point: the local block of the rewound height, or the
\* node's when there is none.
RewindTo(b) ==
  /\ curHash' = b
  /\ SaveLocalBlockHead(Height(b), b)
  /\ pc' = "forkNotify"
  /\ UNCHANGED <<cur, block, forkBlock, todo>>

\* Mutant of RewindStep: the node's block even if there is a local one.
RewindStepToNode ==
  /\ pc = "rewind"
  /\ \/ RpcAnswers /\ RewindTo(At(main, cur))
     \/ RpcFails /\ LeaveLoop(cur) /\ UNCHANGED head
  /\ UNCHANGED <<main, local, unscan, scanning, api, base, asked, told>>

RewindStep ==
  /\ pc = "rewind"
  /\ \/ /\ local[cur] # NoBlock
        /\ RewindTo(local[cur])
        /\ UNCHANGED budget
     \/ /\ local[cur] = NoBlock
        /\ \/ RpcAnswers /\ RewindTo(At(main, cur))
           \/ RpcFails /\ LeaveLoop(cur) /\ UNCHANGED head
  /\ UNCHANGED <<main, local, unscan, scanning, api, base, asked, told>>

\* Mutant of ForkNotify: the replaced block is not retracted.
ForkNotifyForgets ==
  /\ pc = "forkNotify"
  /\ forkBlock' = NoBlock
  /\ pc' = "loop"
  /\ UNCHANGED <<main, store, scanning, cur, curHash, block, todo, api,
                 base, asked, told, budget>>

ForkNotify ==
  /\ pc = "forkNotify"
  /\ IF forkBlock # NoBlock THEN NewBlockNotify(forkBlock, TRUE) ELSE UNCHANGED announced
  /\ forkBlock' = NoBlock
  /\ pc' = "loop"
  /\ UNCHANGED <<main, store, scanning, cur, curHash, block, todo, api,
                 base, asked, extracted, budget>>

\* The block is extracted; the error of the batch is only logged.
Extract ==
  /\ pc = "extract"
  /\ BatchExtractTransaction(block)
  /\ pc' = "saveHead"
  /\ UNCHANGED <<main, head, local, scanning, task, api, base, asked, announced>>

SaveHead ==
  /\ pc = "saveHead"
  /\ curHash' = block
  /\ SaveLocalBlockHead(cur, block)
  /\ pc' = "saveBlock"
  /\ UNCHANGED <<main, local, unscan, scanning, cur, block, forkBlock, todo,
                 api, base, asked, told, budget>>

SaveBlock ==
  /\ pc = "saveBlock"
  /\ local' = [local EXCEPT ![Height(block)] = block]
  /\ pc' = "notify"
  /\ UNCHANGED <<main, head, unscan, scanning, task, api, base, asked, told, budget>>

Notify ==
  /\ pc = "notify"
  /\ NewBlockNotify(block, FALSE)
  /\ block' = NoBlock
  /\ pc' = "loop"
  /\ UNCHANGED <<main, store, scanning, cur, curHash, forkBlock, todo, api,
                 base, asked, extracted, budget>>

----------------------------------------------------------------------------
\* The rescans after the loop: the last N blocks in order, then the failed ones.

RescanLast ==
  /\ pc = "rescanLast"
  /\ \E i \in todo :
       /\ \A j \in todo : i <= j
       /\ todo' = todo \ {i}
       /\ \/ /\ RpcAnswers
             /\ block' = At(main, i)
             /\ pc' = "lastExtract"
             /\ UNCHANGED unscan
          \/ /\ RpcFails
             /\ unscan' = unscan \cup {i}
             /\ UNCHANGED <<pc, block>>
  /\ UNCHANGED <<main, head, local, scanning, cur, curHash, forkBlock, api,
                 base, asked, told>>

LastExtract ==
  /\ pc = "lastExtract"
  /\ BatchExtractTransaction(block)
  /\ block' = NoBlock
  /\ pc' = "rescanLast"
  /\ UNCHANGED <<main, head, local, scanning, cur, curHash, forkBlock, todo,
                 api, base, asked, announced>>

\* RescanFailedRecord reads the records once, then takes their heights in the
\* order of a Go map: any order.
ReadUnscanRecords ==
  /\ pc = "rescanLast" /\ todo = {}
  /\ todo' = unscan
  /\ pc' = "rescanFailed"
  /\ UNCHANGED <<main, store, scanning, cur, curHash, block, forkBlock, api,
                 base, asked, told, budget>>

\* Height 0 and a height the node does not answer are left for the next task.
RescanFailed ==
  /\ pc = "rescanFailed"
  /\ \E h \in todo :
       /\ todo' = todo \ {h}
       /\ \/ /\ h = 0 \/ h > Height(main)
             /\ UNCHANGED <<pc, block, budget>>
          \/ /\ h # 0
             /\ RpcFails
             /\ UNCHANGED <<pc, block>>
          \/ /\ h # 0 /\ h <= Height(main)
             /\ RpcAnswers
             /\ block' = At(main, h)
             /\ pc' = "failedExtract"
  /\ UNCHANGED <<main, store, scanning, cur, curHash, forkBlock, api, base,
                 asked, told>>

\* Mutant of FailedExtract: the error of the batch does not keep the record.
FailedExtractIgnoresError ==
  /\ pc = "failedExtract"
  /\ BatchExtractTransaction(block)
  /\ pc' = "deleteRecord"
  /\ UNCHANGED <<main, head, local, scanning, task, api, base, asked, announced>>

\* Only the error of the batch keeps the record.
FailedExtract ==
  /\ pc = "failedExtract"
  /\ \/ /\ BatchReturnsNil(block)
        /\ pc' = "deleteRecord"
        /\ UNCHANGED block
     \/ /\ BatchReturnsError(block)
        /\ block' = NoBlock
        /\ pc' = "rescanFailed"
  /\ UNCHANGED <<main, head, local, scanning, cur, curHash, forkBlock, todo,
                 api, base, asked, announced>>

\* Mutant of DeleteRecord: the record stays.
DeleteRecordForgets ==
  /\ pc = "deleteRecord"
  /\ block' = NoBlock
  /\ pc' = "rescanFailed"
  /\ UNCHANGED <<main, store, scanning, cur, curHash, forkBlock, todo,
                 api, base, asked, told, budget>>

DeleteRecord ==
  /\ pc = "deleteRecord"
  /\ unscan' = unscan \ {Height(block)}
  /\ block' = NoBlock
  /\ pc' = "rescanFailed"
  /\ UNCHANGED <<main, head, local, scanning, cur, curHash, forkBlock, todo,
                 api, base, asked, told, budget>>

TaskEnds ==
  /\ pc = "rescanFailed" /\ todo = {}
  /\ EndTask
  /\ UNCHANGED <<main, store, scanning, api, base, asked, told, budget>>

----------------------------------------------------------------------------
\* The API calls beside the task.

\* ScanBlock(h): fetch, extract whatever the outcome, announce.  A height the
\* node does not have, or an RPC that fails, leaves an unscan record; the bound
\* on calls bounds these failures too.
CallScanBlock ==
  /\ apiPc = "idle"
  /\ Spend("call")
  /\ \E h \in Heights :
       \/ /\ h <= Height(main)
          /\ apiBlock' = At(main, h)
          /\ apiPc' = "extract"
          /\ UNCHANGED unscan
       \/ /\ unscan' = unscan \cup {h}
          /\ UNCHANGED api
  /\ UNCHANGED <<main, head, local, scanning, pc, task, base, asked, told>>

ScanBlockExtract ==
  /\ apiPc = "extract"
  /\ BatchExtractTransaction(apiBlock)
  /\ apiPc' = "notify"
  /\ UNCHANGED <<main, head, local, scanning, pc, task, apiBlock, base, asked, announced>>

ScanBlockNotify ==
  /\ apiPc = "notify"
  /\ NewBlockNotify(apiBlock, FALSE)
  /\ apiPc' = "idle"
  /\ apiBlock' = NoBlock
  /\ UNCHANGED <<main, store, scanning, pc, task, base, asked, extracted, budget>>

\* SetRescanBlockHeight(r): fetch the block below r, then save it as the head.
\* A height the node does not have (0 wraps to such a one) is an error and
\* changes nothing.  An application that keeps RescanWhileRunning FALSE stops
\* the scanner first and runs it again afterwards.
TaskIsQuiet == ~scanning /\ pc = "idle"

CallSetRescanBlockHeight ==
  /\ apiPc = "idle"
  /\ RescanWhileRunning \/ TaskIsQuiet
  /\ Spend("call")
  /\ \E r \in MinRescanHeight .. Height(main) + 1 :
       /\ r # 0
       /\ apiBlock' = At(main, r - 1)
  /\ apiPc' = "saveHead"
  /\ UNCHANGED <<main, store, scanning, pc, task, base, asked, told>>

\* Mutant of SetRescanBlockHeightSaves: one is subtracted twice.
SetRescanBlockHeightTooLow ==
  /\ apiPc = "saveHead"
  /\ SaveLocalBlockHead(Height(apiBlock) - 1, PreHash(apiBlock))
  /\ base' = Height(apiBlock)
  /\ asked' = Height(apiBlock) + 1
  /\ apiPc' = "idle"
  /\ apiBlock' = NoBlock
  /\ UNCHANGED <<main, local, unscan, scanning, pc, task, told, budget>>

SetRescanBlockHeightSaves ==
  /\ apiPc = "saveHead"
  /\ SaveLocalBlockHead(Height(apiBlock), apiBlock)
  /\ base' = Height(apiBlock)
  /\ asked' = Height(apiBlock) + 1
  /\ apiPc' = "idle"
  /\ apiBlock' = NoBlock
  /\ UNCHANGED <<main, local, unscan, scanning, pc, task, told, budget>>

----------------------------------------------------------------------------
Init ==
  /\ main \in [1 .. StartHeight -> Tag]
  /\ head = [height |-> 0, hash |-> NoBlock]
  /\ local = [h \in Heights |-> NoBlock]
  /\ unscan = {}
  /\ scanning = FALSE
  /\ pc = "idle"
  /\ cur = 0 /\ curHash = NoBlock /\ block = NoBlock /\ forkBlock = NoBlock /\ todo = {}
  /\ apiPc = "idle" /\ apiBlock = NoBlock
  /\ base = 0
  /\ asked = 0
  /\ extracted = {}
  /\ announced = {}
  /\ budget = Allowance

Follow  == Loop \/ LoopPaused \/ FetchFails \/ FetchNext \/ FetchForked
           \/ RewindStep \/ ForkNotify \/ Extract \/ SaveHead \/ SaveBlock \/ Notify

Rescan  == RescanLast \/ LastExtract \/ ReadUnscanRecords \/ RescanFailed
           \/ FailedExtract \/ DeleteRecord \/ TaskEnds

ScanBlockTask == StartFromHead \/ StartFromTip \/ FetchFirst \/ Follow \/ Rescan

ApiReturns == ScanBlockExtract \/ ScanBlockNotify \/ SetRescanBlockHeightSaves

Api == CallScanBlock \/ CallSetRescanBlockHeight \/ ApiReturns

Environment == Grow \/ Fork \/ Crash \/ Run \/ Pause

Next == ScanBlockTask \/ Api \/ Environment

Spec == Init /\ [][Next]_vars

\* The timer and the Go scheduler keep the task running, a call once made
\* proceeds, and the application runs the scanner again after a pause.
FairSpec ==
  /\ Spec
  /\ WF_vars(ScanBlockTask)
  /\ WF_vars(ApiReturns)
  /\ WF_vars(Run)

----------------------------------------------------------------------------
\* Properties.

\* The parts of the type invariant: what the scanner keeps across restarts, the
\* locals of the task, the API call, the history, and what the environment may
\* still do.
StoreTypeOK ==
  /\ head \in [height : Heights, hash : Blocks \cup {NoBlock}]
  /\ local \in [Heights -> Blocks \cup {NoBlock}]
  /\ unscan \in SUBSET Heights

TaskTypeOK ==
  /\ pc \in TaskPc
  /\ cur \in Heights
  /\ curHash \in Blocks \cup {NoBlock}
  /\ block \in Blocks \cup {NoBlock}
  /\ forkBlock \in Blocks \cup {NoBlock}
  /\ todo \in SUBSET Heights

ApiTypeOK ==
  /\ apiPc \in ApiPc
  /\ apiBlock \in Blocks \cup {NoBlock}

HistoryTypeOK ==
  /\ base \in Heights
  /\ asked \in 0 .. MaxHeight + 1
  /\ extracted \in SUBSET Blocks
  /\ announced \in SUBSET Blocks

BudgetOK ==
  /\ budget \in [Kinds -> Nat]
  /\ \A k \in Kinds : budget[k] <= Allowance[k]

\* Types, and with them a fact of the code's unsigned arithmetic: currentHeight
\* never wraps when a fork rewinds it by two (lines 143-147).
TypeOK ==
  /\ main \in Blocks
  /\ scanning \in BOOLEAN
  /\ StoreTypeOK
  /\ TaskTypeOK
  /\ ApiTypeOK
  /\ HistoryTypeOK
  /\ BudgetOK

\* What the environment has not done so far: forked; failed, that is, an RPC of
\* the task, an extraction or the process; refused data; called beside the task.
Untouched(k) == budget[k] = Allowance[k]

NoFork    == Untouched("fork")
NoFailure == Untouched("rpc") /\ Untouched("extract") /\ Untouched("crash")
NoRefusal == Untouched("observer")
NoCall    == Untouched("call")

\* What the scanner copes with: the chain forks or the task fails, not both, and
\* no observer refuses data.
Reliable == NoRefusal /\ (NoFork \/ NoFailure)

\* A block is not lost: its data was delivered, or its height will be rescanned.
Covered(b) == b \in extracted \/ Height(b) \in unscan

\* The scanner never moves its saved head past a block it has lost: every block
\* on the head's own branch, above the height scanning was asked for, is
\* covered.  Across crashes, RPC errors and skipped heights as long as the chain
\* has not forked, and across reorganisations as long as nothing has failed,
\* this is what the order extract - save head - save block, the unscan records
\* and the rewind by two (lines 116-193) must achieve together.  The clamp of
\* the rewind (lines 145-147) excepts the block at height 1: when it could not be
\* fetched, the rewind from height 2 takes it as scanned.
FollowedBlocksCovered ==
  Reliable =>
    \A h \in base + 1 .. head.height : h > 1 => Covered(At(head.hash, h))

\* The scanner as a follower of the chain: its saved head is the tip, a head of
\* height 0 none, and the unscan records are the queue.
Follower == INSTANCE ChainFollower WITH
  tip       <- IF head.height = 0 THEN NoBlock ELSE head.hash,
  delivered <- extracted,
  queued    <- unscan

\* Every step of the scanner is a step of the follower or changes nothing it
\* knows: the saved head (lines 163-168, 185-189 and 1108 of blockscanner.go) moves
\* along one branch, to the next kept block or back, or to where a scan was
\* asked for, and a record goes only when its block was delivered, whether by
\* the rescan or by the rewind of a fork (line 143).  The extraction, the saves,
\* the records and the rewind must agree on this across every interleaving.
FollowsChain == Follower!Spec

\* The same as long as Reliable holds, where more than that may happen later.
FollowsWhileReliable ==
  Follower!Init /\ [][Reliable' => Follower!Next]_(Follower!vars)

\* Observers that apply the notifications in order know the head's branch: in
\* the loop, no announced block is on an abandoned branch, and every block from
\* base to the head was announced (lines 139-140, 171-175, 193), as long as
\* nothing has failed and nobody has called beside the task.
ObserversFollowHead ==
  NoFailure /\ NoRefusal /\ NoCall /\ pc = "loop" /\ head.height # 0 =>
    /\ \A b \in announced : IsAncestor(b, head.hash)
    /\ \A h \in base + 1 .. head.height : At(head.hash, h) \in announced

\* A step drops a record in the rescan only for a block whose data reached every
\* observer.
DropsDelivered ==
  \A h \in unscan \ unscan' : pc = "deleteRecord" => block \in extracted

\* An unscan record is deleted by the rescan only for a block whose data reached
\* every observer (RescanFailedRecord, lines 281-300), as long as no observer has
\* refused data: crashes, RPC errors, failed extractions and forks in any order.
RecordsDropWhenDelivered == [][NoRefusal => DropsDelivered]_vars

\* The same whatever the observers do, which is what a record is kept for: the
\* comment of RescanFailedRecord (line 265) promises "rescan failed blocks".
RecordsDropOnlyWhenDelivered == [][DropsDelivered]_vars

\* The task that starts after SetRescanBlockHeight(r) scans from r
\* (SetRescanBlockHeight, "reset the height the block chain is scanned from").
RescanStartsWhereAsked ==
  [][asked # 0 /\ asked' = 0 => cur' = asked - 1]_vars

\* Once the node's chain and the failures come to rest, the saved head reaches
\* the tip of the main chain and stays there.
CatchesUp == <>[](head = [height |-> Height(main), hash |-> main])

\* Once they do, no failed block stays unscanned: only records the node has no
\* block for, and the record of height 0, which the code skips, may remain.
FailedBlocksAreRescanned == <>[](\A h \in unscan : h = 0 \/ h > Height(main))
=============================================================================
