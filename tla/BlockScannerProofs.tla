-------------------------- MODULE BlockScannerProofs --------------------------
(***************************************************************************)
(* Proofs about the block scanner, for chains of any height, any number of *)
(* tags and any numbers of failures.                                       *)
(***************************************************************************)
EXTENDS BlockScanner, SequenceTheorems, TLAPS

----------------------------------------------------------------------------
(***************************************************************************)
(* Facts about blocks and their ancestors: the proofs below never look     *)
(* into a block themselves.                                                *)
(***************************************************************************)

\* The heights are an initial segment of the naturals.
LEMMA HeightsAreNat == Heights \subseteq Nat /\ 0 \in Heights /\ MaxHeight \in Heights
  BY ChainAssumption DEF Heights

\* Blocks are the sequences of tags whose length is a height.
LEMMA BlockIsSeq ==
  \A b : b \in Blocks <=> b \in Seq(Tag) /\ Len(b) \in Heights
<1>1. ASSUME NEW b \in Blocks PROVE b \in Seq(Tag) /\ Len(b) \in Heights
  <2>1. PICK n \in Heights : b \in [1 .. n -> Tag]
    BY DEF Blocks
  <2>2. n \in Nat
    BY HeightsAreNat
  <2>3. b \in Seq(Tag)
    BY <2>1, <2>2, SeqDef
  <2>4. Len(b) = n
    BY <2>1, <2>2, <2>3, LenProperties
  <2> QED
    BY <2>3, <2>4
<1>2. ASSUME NEW b \in Seq(Tag), Len(b) \in Heights PROVE b \in Blocks
  BY <1>2, LenProperties DEF Blocks
<1> QED
  BY <1>1, <1>2

\* The height of a block is one of the heights.
LEMMA HeightType == ASSUME NEW b \in Blocks PROVE Height(b) \in Heights
  BY BlockIsSeq DEF Height

\* The ancestor of a block at a height it has is a block of that height.
LEMMA AtType ==
  ASSUME NEW b \in Blocks, NEW h \in 0 .. Height(b)
  PROVE  At(b, h) \in Blocks /\ Height(At(b, h)) = h
<1>1. b \in Seq(Tag) /\ Len(b) \in Heights
  BY BlockIsSeq
<1>2. h \in Nat /\ h <= Len(b) /\ h \in Heights
  BY <1>1, ChainAssumption DEF Height, Heights
<1>3. \A i \in 1 .. h : b[i] \in Tag
  BY <1>1, <1>2, LenProperties
<1>4. SubSeq(b, 1, h) \in Seq(Tag) /\ Len(SubSeq(b, 1, h)) = h
  BY <1>2, <1>3, SubSeqProperties
<1> QED
  BY <1>2, <1>4, BlockIsSeq DEF At, Height

\* A block is its own ancestor at its height.
LEMMA AtSelf == ASSUME NEW b \in Blocks PROVE At(b, Height(b)) = b
  BY BlockIsSeq, SubSeqFull DEF At, Height

\* At height 0 it is the genesis block.
LEMMA AtZero == ASSUME NEW b PROVE At(b, 0) = Genesis
  BY SubSeqEmpty DEF At, Genesis

\* The genesis block is a block, at height 0.
LEMMA GenesisIsBlock == Genesis \in Blocks /\ Height(Genesis) = 0
  BY EmptySeq, BlockIsSeq, HeightsAreNat DEF Genesis, Height

\* An ancestor of an ancestor is an ancestor.
LEMMA AtAt ==
  ASSUME NEW b \in Blocks, NEW k \in 0 .. Height(b), NEW h \in 0 .. k
  PROVE  At(At(b, k), h) = At(b, h)
<1>1. b \in Seq(Tag) /\ Len(b) \in Nat
  BY BlockIsSeq, HeightsAreNat
<1>2. k \in Nat /\ h \in Nat /\ k <= Len(b) /\ h <= k
  BY <1>1 DEF Height
<1>3. CASE h = 0
  BY <1>3, AtZero
<1>4. CASE h # 0
  <2>1. 1 \in 1 .. Len(b) /\ k \in 1 .. Len(b) /\ 1 \in 1 .. k - 1 + 1 /\ h \in 1 .. k - 1 + 1
    BY <1>1, <1>2, <1>4
  <2>2. SubSeq(SubSeq(b, 1, k), 1, h) = SubSeq(b, 1 + 1 - 1, 1 + h - 1)
    BY <1>1, <2>1, SubSeqOfSubSeq
  <2> QED
    BY <1>2, <2>2 DEF At
<1> QED
  BY <1>3, <1>4

\* A child is a block one higher, with the ancestors of its parent.
LEMMA ChildType ==
  ASSUME NEW b \in Blocks, NEW t \in Tag, Height(b) < MaxHeight
  PROVE  Child(b, t) \in Blocks /\ Height(Child(b, t)) = Height(b) + 1
<1>1. b \in Seq(Tag) /\ Len(b) \in Heights /\ Len(b) \in Nat
  BY BlockIsSeq, HeightsAreNat
<1>2. Append(b, t) \in Seq(Tag) /\ Len(Append(b, t)) = Len(b) + 1
  BY <1>1, AppendProperties
<1>3. Len(b) + 1 \in Heights
  BY <1>1, ChainAssumption DEF Heights, Height
<1> QED
  BY <1>2, <1>3, BlockIsSeq DEF Child, Height

\* Below its own height a child has the ancestors of its parent.
LEMMA ChildAt ==
  ASSUME NEW b \in Blocks, NEW t \in Tag, NEW h \in 0 .. Height(b)
  PROVE  At(Child(b, t), h) = At(b, h)
<1>1. b \in Seq(Tag) /\ Len(b) \in Nat
  BY BlockIsSeq, HeightsAreNat
<1>2. CASE h = 0
  BY <1>2, AtZero
<1>3. CASE h # 0
  <2>1. h \in 1 .. Len(b) /\ 1 \in 1 .. Len(b)
    BY <1>1, <1>3 DEF Height
  <2>2. <<t>> \in Seq(Tag)
    BY SMT
  <2>3. SubSeq(b \o <<t>>, 1, h) = SubSeq(b, 1, h)
    BY <1>1, <2>1, <2>2, SubSeqOfConcat1
  <2>4. Append(b, t) = b \o <<t>>
    BY <1>1, AppendIsConcat
  <2> QED
    BY <2>3, <2>4 DEF At, Child
<1> QED
  BY <1>2, <1>3

----------------------------------------------------------------------------
\* Types.  TypeOK is not inductive: that an RPC for a height of the chain is
\* answered with a block, and that a rewind never starts from height 1, depend
\* on the facts below.

\* The pcs at which the task holds a block it fetched.
HoldsBlock == {"extract", "saveHead", "saveBlock", "notify", "lastExtract",
               "failedExtract", "deleteRecord"}

\* The pcs after currentHeight was advanced or rewound, where it is not 0.
PastGenesis == {"fetch", "rewind", "forkNotify", "extract", "saveHead",
                "saveBlock", "notify"}

InRange ==
  /\ cur <= Height(main)
  /\ head.height <= Height(main)
  /\ head.height # 0 => head.hash \in Blocks
  /\ pc \in HoldsBlock => block \in Blocks
  /\ pc \in PastGenesis => cur # 0
  /\ pc = "loop" /\ cur = 0 => curHash = Genesis
  /\ pc = "fetch" /\ cur = 1 => curHash = Genesis
  /\ pc \in {"rescanLast", "lastExtract"} => \A i \in todo : i <= Height(main)
  /\ \A h \in Heights : local[h] # NoBlock => Height(local[h]) = h
  /\ apiPc # "idle" => apiBlock \in Blocks
  /\ apiPc = "saveHead" => Height(apiBlock) <= Height(main)

Sane == TypeOK /\ InRange

\* What the proofs use of blocks, in one place.
LEMMA BlockFacts ==
  /\ MaxHeight \in Nat
  /\ \A h : h \in Heights <=> h \in Nat /\ h <= MaxHeight
  /\ NoBlock \notin Blocks
  /\ Genesis \in Blocks /\ Height(Genesis) = 0
  /\ \A b \in Blocks : Height(b) \in Heights
  /\ \A b \in Blocks : At(b, Height(b)) = b
  /\ \A b \in Blocks : At(b, 0) = Genesis
  /\ \A b \in Blocks, h \in Heights :
       h <= Height(b) => At(b, h) \in Blocks /\ Height(At(b, h)) = h
<1>1. /\ MaxHeight \in Nat /\ NoBlock \notin Blocks
      /\ \A h : h \in Heights <=> h \in Nat /\ h <= MaxHeight
  BY ChainAssumption DEF Heights
<1>2. ASSUME NEW b \in Blocks, NEW h \in Heights, h <= Height(b)
      PROVE  At(b, h) \in Blocks /\ Height(At(b, h)) = h
  <2>1. h \in 0 .. Height(b)
    BY <1>1, <1>2, HeightType
  <2> QED
    BY <2>1, AtType
<1> QED
  BY <1>1, <1>2, GenesisIsBlock, HeightType, AtSelf, AtZero

\* A height below another is at most one below it.
LEMMA HeightBelow == \A h, k \in Heights : h <= k /\ h # k => h <= k - 1
  BY BlockFacts

\* The environment is allowed a number of each kind of interference.
LEMMA AllowanceType == Allowance \in [Kinds -> Nat]
<1>1. \A k \in Kinds : Allowance[k] \in Nat
  BY ScannerAssumption DEF Allowance, Kinds
<1> QED
  BY <1>1 DEF Allowance

\* Spending one of them leaves a number of each, none greater than before.
LEMMA SpendType ==
  ASSUME budget \in [Kinds -> Nat], \A k \in Kinds : budget[k] <= Allowance[k],
         NEW j \in Kinds, Spend(j)
  PROVE  budget' \in [Kinds -> Nat] /\ \A k \in Kinds : budget'[k] <= Allowance[k]
<1>1. budget' = [budget EXCEPT ![j] = budget[j] - 1] /\ budget[j] > 0
  BY DEF Spend
<1>2. \A k \in Kinds : budget'[k] = IF k = j THEN budget[k] - 1 ELSE budget[k]
  BY <1>1
<1>3. \A k \in Kinds : budget[k] \in Nat /\ Allowance[k] \in Nat
  BY AllowanceType
<1>4. \A k \in Kinds : budget'[k] \in Nat /\ budget'[k] <= Allowance[k]
  BY <1>1, <1>2, <1>3
<1>5. budget' \in [Kinds -> Nat]
  BY <1>1, <1>3
<1> QED
  BY <1>4, <1>5

\* The strengthened type invariant holds at first.
LEMMA SaneInit == Init => Sane
<1> SUFFICES ASSUME Init PROVE Sane
  OBVIOUS
<1>1. main \in Blocks
  BY ScannerAssumption DEF Init, Blocks
<1>2. scanning \in BOOLEAN
  BY DEF Init
<1>7. BudgetOK
  BY AllowanceType DEF Init, BudgetOK
<1>3. StoreTypeOK
  BY BlockFacts DEF Init, StoreTypeOK
<1>4. TaskTypeOK /\ ApiTypeOK
  BY BlockFacts DEF Init, TaskTypeOK, ApiTypeOK, TaskPc, ApiPc
<1>5. HistoryTypeOK
  BY BlockFacts DEF Init, HistoryTypeOK
<1>6. InRange
  BY <1>1, BlockFacts DEF Init, InRange, HoldsBlock, PastGenesis
<1> QED
  BY <1>1, <1>2, <1>3, <1>4, <1>5, <1>6, <1>7 DEF Sane, TypeOK

\* The rescanned heights lie below the height the loop was left at.
LEMMA LastBlocksType ==
  ASSUME NEW h \in Heights
  PROVE  LastBlocks(h) \subseteq Heights /\ \A i \in LastBlocks(h) : i < h
  BY BlockFacts, ScannerAssumption DEF LastBlocks

\* The main chain only gets longer.
LEMMA MainGrows ==
  ASSUME main \in Blocks, Grow \/ Fork
  PROVE  main' \in Blocks /\ Height(main) < Height(main')
<1>1. CASE Grow
  <2>1. PICK t \in Tag : main' = Child(main, t)
    BY <1>1 DEF Grow
  <2>2. Height(main) < MaxHeight
    BY <1>1 DEF Grow
  <2> QED
    BY <2>1, <2>2, ChildType, BlockFacts
<1>2. CASE Fork
  BY <1>2, BlockFacts DEF Fork
<1> QED
  BY <1>1, <1>2

\* A fork is seen at height 2 at the earliest: currentHeight - 2 does not wrap.
LEMMA RewindInRange ==
  ASSUME Sane, FetchForked
  PROVE  Rewind(cur) \in Heights /\ Rewind(cur) # 0 /\ Rewind(cur) < cur /\ cur - 1 \in Heights
<1>1. /\ pc = "fetch" /\ PreHash(At(main, cur)) # curHash
      /\ cur \in Heights /\ cur # 0 /\ cur <= Height(main) /\ main \in Blocks
      /\ cur = 1 => curHash = Genesis
  BY DEF FetchForked, Sane, TypeOK, TaskTypeOK, InRange, PastGenesis
<1>2. At(main, cur) \in Blocks /\ Height(At(main, cur)) = cur
  BY <1>1, BlockFacts
<1>3. cur # 1
  <2> SUFFICES ASSUME cur = 1 PROVE FALSE
    OBVIOUS
  <2>1. PreHash(At(main, cur)) = At(At(main, cur), 0)
    BY <1>2 DEF PreHash
  <2> QED
    BY <1>1, <1>2, <2>1, BlockFacts
<1> QED
  BY <1>1, <1>3, BlockFacts DEF Rewind

\* The actions of the scanner, for case analyses.
NextAction ==
  \/ StartFromHead \/ StartFromTip \/ FetchFirst \/ Loop \/ LoopPaused
  \/ FetchFails \/ FetchNext \/ FetchForked \/ RewindStep \/ ForkNotify
  \/ Extract \/ SaveHead \/ SaveBlock \/ Notify
  \/ RescanLast \/ LastExtract \/ ReadUnscanRecords \/ RescanFailed
  \/ FailedExtract \/ DeleteRecord \/ TaskEnds
  \/ CallScanBlock \/ ScanBlockExtract \/ ScanBlockNotify
  \/ CallSetRescanBlockHeight \/ SetRescanBlockHeightSaves
  \/ Grow \/ Fork \/ Crash \/ Run \/ Pause

\* Next is a choice between the actions, named one by one.
LEMMA NextIsAction == Next => NextAction
  BY DEF Next, ScanBlockTask, Follow, Rescan, Api, ApiReturns, Environment, NextAction

\* bs.Scanning stays a Boolean.
LEMMA ScanningStep == scanning \in BOOLEAN /\ [Next]_vars => scanning' \in BOOLEAN
  BY Zenon DEF Next, ScanBlockTask, Follow, Rescan, Api, ApiReturns, Environment, vars,
    StartFromHead, StartFromTip, FetchFirst, Loop, LoopPaused, FetchFails, FetchNext,
    FetchForked, RewindStep, ForkNotify, Extract, SaveHead, SaveBlock, Notify,
    RescanLast, LastExtract, ReadUnscanRecords, RescanFailed, FailedExtract,
    DeleteRecord, TaskEnds, CallScanBlock, ScanBlockExtract, ScanBlockNotify,
    CallSetRescanBlockHeight, SetRescanBlockHeightSaves, Grow, Fork, Crash, Run, Pause


\* What a step may do to the budget: nothing, or spend one item of it.
LEMMA BudgetSpent == [Next]_vars => UNCHANGED budget \/ \E k \in Kinds : Spend(k)
<1> SUFFICES ASSUME [Next]_vars PROVE UNCHANGED budget \/ \E k \in Kinds : Spend(k)
  OBVIOUS
<1> "fork" \in Kinds /\ "rpc" \in Kinds /\ "crash" \in Kinds /\ "extract" \in Kinds
    /\ "observer" \in Kinds /\ "call" \in Kinds /\ "pause" \in Kinds
  BY DEF Kinds
<1>1. ASSUME NEW b, BatchExtractTransaction(b) PROVE UNCHANGED budget \/ \E k \in Kinds : Spend(k)
  BY <1>1 DEF BatchExtractTransaction, BatchReturnsNil, BatchReturnsError, Delivered, ObserverRefuses
<1>2. CASE Follow
  BY <1>1, <1>2 DEF Follow, Loop, LoopPaused, FetchFails, FetchNext, FetchForked, RewindStep,
    ForkNotify, Extract, SaveHead, SaveBlock, Notify, RpcAnswers, RpcFails
<1>3. CASE Rescan
  BY <1>1, <1>3 DEF Rescan, RescanLast, LastExtract, ReadUnscanRecords, RescanFailed,
    FailedExtract, DeleteRecord, TaskEnds, RpcAnswers, RpcFails, BatchExtractTransaction
<1>4. CASE StartFromHead \/ StartFromTip \/ FetchFirst
  BY <1>4 DEF StartFromHead, StartFromTip, FetchFirst, RpcAnswers, RpcFails
<1>5. CASE Api
  BY <1>1, <1>5 DEF Api, ApiReturns, CallScanBlock, ScanBlockExtract, ScanBlockNotify,
    CallSetRescanBlockHeight, SetRescanBlockHeightSaves
<1>6. CASE Environment
  BY <1>6 DEF Environment, Grow, Fork, Crash, Run, Pause
<1> QED
  BY <1>2, <1>3, <1>4, <1>5, <1>6 DEF Next, ScanBlockTask, vars

\* So the budget keeps its type and its limits.
LEMMA BudgetStep == BudgetOK /\ [Next]_vars => BudgetOK'
<1>1. CASE UNCHANGED budget
  BY <1>1 DEF BudgetOK
<1>2. ASSUME NEW k \in Kinds, Spend(k), BudgetOK PROVE BudgetOK'
  BY <1>2, SpendType DEF BudgetOK
<1> QED
  BY <1>1, <1>2, BudgetSpent

\* And what a later state says has not been done was not done before, nor in the
\* step between them.
LEMMA UntouchedStep ==
  ASSUME BudgetOK, [Next]_vars, NEW k \in Kinds, Untouched(k)'
  PROVE  Untouched(k) /\ ~Spend(k)
<1>1. budget[k] \in Nat /\ Allowance[k] \in Nat /\ budget[k] <= Allowance[k] /\ budget'[k] = Allowance[k]
  BY AllowanceType DEF BudgetOK, Untouched, Allowance
<1>2. ASSUME NEW j \in Kinds, Spend(j) PROVE budget'[j] = budget[j] - 1 /\ (j # k => budget'[k] = budget[k])
  BY <1>2 DEF Spend, BudgetOK
<1>3. ~Spend(k)
  <2> SUFFICES ASSUME Spend(k) PROVE FALSE
    OBVIOUS
  <2> QED
    BY <1>1, <1>2
<1>4. budget[k] = Allowance[k]
  BY <1>1, <1>2, <1>3, BudgetSpent
<1> QED
  BY <1>3, <1>4 DEF Untouched

\* Every step keeps the types and the ranges, action by action.
LEMMA SaneStep == Sane /\ [Next]_vars => Sane'
<1> SUFFICES ASSUME Sane, [Next]_vars PROVE Sane'
  OBVIOUS
<1> DEFINE Kept == main \in Blocks /\ StoreTypeOK /\ TaskTypeOK /\ ApiTypeOK /\ HistoryTypeOK /\ InRange
<1> USE BlockFacts DEF Sane, TypeOK, StoreTypeOK, TaskTypeOK, ApiTypeOK, HistoryTypeOK, InRange,
      TaskPc, ApiPc, HoldsBlock, PastGenesis, store, task, api, told, vars
<1>1. ASSUME StartFromHead PROVE Kept'
  BY <1>1 DEF StartFromHead
<1>2. ASSUME StartFromTip PROVE Kept'
  BY <1>2 DEF StartFromTip, RpcAnswers, RpcFails
<1>3. ASSUME FetchFirst PROVE Kept'
  BY <1>3 DEF FetchFirst, RpcAnswers, RpcFails, EndTask, ForgetTask
<1>4. ASSUME Loop PROVE Kept'
  <2>1. CASE cur < Height(main) /\ cur' = cur + 1 /\ pc' = "fetch" /\ UNCHANGED <<curHash, block, forkBlock, todo>>
    <3>1. cur' \in Heights /\ cur' # 0 /\ cur' <= Height(main)
      BY <2>1
    <3> QED
      BY <1>4, <2>1, <3>1 DEF Loop
  <2>2. CASE LeaveLoop(cur)
    BY <1>4, <2>2, LastBlocksType DEF Loop, LeaveLoop
  <2> QED
    BY <1>4, <2>1, <2>2 DEF Loop
<1>5. ASSUME LoopPaused PROVE Kept'
  BY <1>5 DEF LoopPaused, EndTask, ForgetTask
<1>6. ASSUME FetchFails PROVE Kept'
  BY <1>6 DEF FetchFails
<1>7. ASSUME FetchNext PROVE Kept'
  BY <1>7 DEF FetchNext
<1>8. ASSUME FetchForked PROVE Kept'
  <2>1. cur' \in Heights /\ cur' # 0 /\ cur' <= Height(main)
    BY <1>8, RewindInRange DEF FetchForked
  <2>2. forkBlock' \in Blocks \cup {NoBlock}
    BY <1>8, RewindInRange DEF FetchForked
  <2> QED
    BY <1>8, <2>1, <2>2 DEF FetchForked
<1>9. ASSUME RewindStep PROVE Kept'
  <2>1. ASSUME NEW b \in Blocks, Height(b) = cur, RewindTo(b) PROVE Kept'
    BY <1>9, <2>1 DEF RewindStep, RewindTo, SaveLocalBlockHead
  <2>2. ASSUME LeaveLoop(cur), UNCHANGED head PROVE Kept'
    BY <1>9, <2>2, LastBlocksType DEF RewindStep, LeaveLoop
  <2>3. CASE local[cur] # NoBlock
    <3>1. local[cur] \in Blocks /\ Height(local[cur]) = cur
      BY <2>3
    <3> QED
      BY <1>9, <2>1, <2>3, <3>1 DEF RewindStep
  <2>4. CASE local[cur] = NoBlock
    <3>1. At(main, cur) \in Blocks /\ Height(At(main, cur)) = cur
      BY SMT
    <3> QED
      BY <1>9, <2>1, <2>2, <2>4, <3>1 DEF RewindStep
  <2> QED
    BY <2>3, <2>4
<1>10. ASSUME ForkNotify PROVE Kept'
  BY <1>10 DEF ForkNotify, NewBlockNotify
<1>11. ASSUME Extract PROVE Kept'
  BY <1>11 DEF Extract, BatchExtractTransaction, BatchReturnsNil, BatchReturnsError, Delivered, ObserverRefuses
<1>12. ASSUME SaveHead PROVE Kept'
  BY <1>12 DEF SaveHead, SaveLocalBlockHead
<1>13. ASSUME SaveBlock PROVE Kept'
  BY <1>13 DEF SaveBlock
<1>14. ASSUME Notify PROVE Kept'
  BY <1>14 DEF Notify, NewBlockNotify
<1>15. ASSUME RescanLast PROVE Kept'
  <2>1. PICK i \in todo : /\ todo' = todo \ {i}
                          /\ \/ block' = At(main, i) /\ pc' = "lastExtract" /\ UNCHANGED unscan
                             \/ unscan' = unscan \cup {i} /\ UNCHANGED <<pc, block>>
    BY <1>15 DEF RescanLast
  <2>2. i \in Heights /\ At(main, i) \in Blocks /\ \A j \in todo' : j \in todo
    BY <1>15, <2>1 DEF RescanLast
  <2> QED
    BY <1>15, <2>1, <2>2 DEF RescanLast
<1>16. ASSUME LastExtract PROVE Kept'
  BY <1>16 DEF LastExtract, BatchExtractTransaction, BatchReturnsNil, BatchReturnsError, Delivered, ObserverRefuses
<1>17. ASSUME ReadUnscanRecords PROVE Kept'
  BY <1>17 DEF ReadUnscanRecords
<1>18. ASSUME RescanFailed PROVE Kept'
  BY <1>18 DEF RescanFailed
<1>19. ASSUME FailedExtract PROVE Kept'
  BY <1>19 DEF FailedExtract, BatchReturnsNil, BatchReturnsError, Delivered, ObserverRefuses
<1>20. ASSUME DeleteRecord PROVE Kept'
  BY <1>20 DEF DeleteRecord
<1>21. ASSUME TaskEnds PROVE Kept'
  BY <1>21 DEF TaskEnds, EndTask, ForgetTask
<1>22. ASSUME CallScanBlock PROVE Kept'
  BY <1>22 DEF CallScanBlock
<1>23. ASSUME ScanBlockExtract PROVE Kept'
  BY <1>23 DEF ScanBlockExtract, BatchExtractTransaction, BatchReturnsNil, BatchReturnsError, Delivered, ObserverRefuses
<1>24. ASSUME ScanBlockNotify PROVE Kept'
  BY <1>24 DEF ScanBlockNotify, NewBlockNotify
<1>25. ASSUME CallSetRescanBlockHeight PROVE Kept'
  <2>1. PICK r \in MinRescanHeight .. Height(main) + 1 : r # 0 /\ apiBlock' = At(main, r - 1)
    BY <1>25 DEF CallSetRescanBlockHeight
  <2>2. r - 1 \in Heights /\ r - 1 <= Height(main)
    BY <2>1, ScannerAssumption
  <2>3. apiBlock' \in Blocks /\ Height(apiBlock') <= Height(main)
    BY <2>1, <2>2
  <2> QED
    BY <1>25, <2>3 DEF CallSetRescanBlockHeight
<1>26. ASSUME SetRescanBlockHeightSaves PROVE Kept'
  BY <1>26 DEF SetRescanBlockHeightSaves, SaveLocalBlockHead
<1>27. ASSUME Grow \/ Fork PROVE Kept'
  <2>1. main' \in Blocks /\ Height(main) < Height(main')
    BY <1>27, MainGrows
  <2>2. UNCHANGED <<store, scanning, pc, task, api, base, asked, told>>
    BY <1>27 DEF Grow, Fork
  <2> QED
    BY <2>1, <2>2
<1>28. ASSUME Crash PROVE Kept'
  BY <1>28 DEF Crash, EndTask, ForgetTask
<1>29. ASSUME Run PROVE Kept'
  BY <1>29 DEF Run
<1>30. ASSUME Pause PROVE Kept'
  BY <1>30 DEF Pause
<1>31. ASSUME UNCHANGED vars PROVE Kept'
  <2>1. /\ UNCHANGED <<main, head, local, unscan, scanning>>
        /\ UNCHANGED <<pc, cur, curHash, block, forkBlock, todo>>
        /\ UNCHANGED <<apiPc, apiBlock, base, asked, extracted, announced, budget>>
    BY <1>31
  <2> QED
    BY <2>1
<1>32. Next => NextAction
  BY NextIsAction
<1> HIDE DEF Kept, Sane, TypeOK, StoreTypeOK, TaskTypeOK, ApiTypeOK, HistoryTypeOK, InRange,
      TaskPc, ApiPc, HoldsBlock, PastGenesis, store, task, api, told, vars
<1>33. Kept'
  BY <1>1, <1>2, <1>3, <1>4, <1>5, <1>6, <1>7, <1>8, <1>9, <1>10, <1>11, <1>12,
      <1>13, <1>14, <1>15, <1>16, <1>17, <1>18, <1>19, <1>20, <1>21, <1>22,
      <1>23, <1>24, <1>25, <1>26, <1>27, <1>28, <1>29, <1>30, <1>31, <1>32 DEF NextAction
<1> QED
  BY <1>33, ScanningStep, BudgetStep DEF Kept, Sane, TypeOK

\* TypeOK holds in every reachable state, for chains, failures and calls
\* without bound: in particular currentHeight never wraps.
THEOREM TypeCorrect == Spec => []TypeOK
<1>1. Spec => []Sane
  BY SaneInit, SaneStep, PTL DEF Spec
<1>2. Sane => TypeOK
  BY DEF Sane
<1> QED
  BY <1>1, <1>2, PTL

----------------------------------------------------------------------------
\* Coverage.  FollowedBlocksCovered is proved in two environments that the code
\* copes with for different reasons: a chain that never forks, with RPC errors,
\* crashes and failed extractions in any number, and a chain that forks
\* arbitrarily while nothing fails.  (With both, it does not hold.)

\* An application that respects the protocol: the head is set while no task runs.
QuietRescan == apiPc = "saveHead" => ~scanning /\ pc = "idle"

\* From the hash at which currentHash stands to the first height not yet tried,
\* the pcs at which the task follows the chain.
Following == {"loop", "fetch", "rewind", "forkNotify", "extract", "saveHead",
              "saveBlock", "notify"}

\* The block currentHash names is the saved head, or, before a first head is
\* saved, the block the scanning started from.
HeadIs(h) ==
  \/ head.height # 0 /\ head.height = h
  \/ head.height = 0 /\ base = h

\* Without forks: everything the scanner holds lies on the main chain, and the
\* heights between currentHash and currentHeight are all recorded.
OnMain(b) == b \in Blocks /\ Height(b) <= Height(main) /\ b = At(main, Height(b))

Recorded(low, high) == \A h \in Heights : low < h /\ h <= high => h \in unscan

StoreOnMain ==
  /\ head.height # 0 => OnMain(head.hash) /\ Height(head.hash) = head.height
  /\ \A h \in Heights : local[h] # NoBlock => OnMain(local[h])

HeadCovered == \A h \in Heights : base < h /\ h <= head.height /\ h > 1 => Covered(At(main, h))

FollowOnMain ==
  /\ pc = "first" => head.height = 0
  /\ pc \in Following => OnMain(curHash)
  /\ pc \in Following \ {"saveBlock", "notify"} => HeadIs(Height(curHash))
  /\ pc = "loop" => Height(curHash) <= cur /\ Recorded(Height(curHash), cur)
  /\ pc = "fetch" => Height(curHash) < cur /\ Recorded(Height(curHash), cur - 1)
  /\ pc = "rewind" =>
       /\ Height(curHash) <= cur
       /\ \A h \in Heights : Height(curHash) < h /\ h <= cur /\ h > 1 => h \in unscan
  /\ pc = "forkNotify" => Height(curHash) = cur
  /\ pc \in {"extract", "saveHead"} =>
       OnMain(block) /\ Height(block) = cur /\ Height(curHash) = cur - 1
  /\ pc = "saveHead" => Covered(block)
  /\ pc \in {"saveBlock", "notify"} =>
       curHash = block /\ Height(block) = cur /\ head.height = cur

RescansOnMain ==
  /\ pc \in {"failedExtract", "deleteRecord"} => OnMain(block)
  /\ pc = "deleteRecord" => block \in extracted
  /\ apiPc = "saveHead" => OnMain(apiBlock)

FailuresInv == QuietRescan /\ StoreOnMain /\ HeadCovered /\ FollowOnMain /\ RescansOnMain

\* Without failures: the blocks of the head's branch above base are delivered
\* and are the local blocks, and currentHash is the head.
ForksInv ==
  /\ QuietRescan
  /\ head.height # 0 => Height(head.hash) = head.height
  /\ \A h \in Heights : base < h /\ h <= head.height =>
       /\ At(head.hash, h) \in extracted
       /\ local[h] = At(head.hash, h) \/ (pc = "saveBlock" /\ h = head.height)
  /\ pc = "first" => head.height = 0
  /\ pc \in Following => curHash \in Blocks
  /\ pc \in Following \ {"rewind"} /\ head.height # 0 => head.hash = curHash
  /\ pc = "loop" => Height(curHash) = cur /\ HeadIs(cur)
  /\ pc = "fetch" => Height(curHash) = cur - 1 /\ HeadIs(cur - 1)
  /\ pc = "rewind" => \E h \in Heights : cur <= h /\ HeadIs(h)
  /\ pc = "forkNotify" => Height(curHash) = cur /\ HeadIs(cur)
  /\ pc \in {"extract", "saveHead"} =>
       Height(block) = cur /\ PreHash(block) = curHash /\ HeadIs(cur - 1)
  /\ pc = "saveHead" => block \in extracted
  /\ pc \in {"saveBlock", "notify"} =>
       curHash = block /\ Height(block) = cur /\ head.height = cur

\* Blocks of the main chain, by height.
LEMMA MainFacts ==
  ASSUME main \in Blocks
  PROVE  /\ \A h \in Heights : h <= Height(main) => OnMain(At(main, h)) /\ Height(At(main, h)) = h
         /\ \A h \in Heights : h <= Height(main) /\ h # 0 => PreHash(At(main, h)) = At(main, h - 1)
<1>1. ASSUME NEW h \in Heights, h <= Height(main)
      PROVE  OnMain(At(main, h)) /\ Height(At(main, h)) = h
  BY <1>1, BlockFacts DEF OnMain
<1>2. ASSUME NEW h \in Heights, h <= Height(main), h # 0
      PROVE  PreHash(At(main, h)) = At(main, h - 1)
  <2>1. Height(At(main, h)) = h
    BY <1>1, <1>2
  <2>2. h \in 0 .. Height(main) /\ h - 1 \in 0 .. h
    BY <1>2, BlockFacts
  <2> QED
    BY <2>1, <2>2, AtAt DEF PreHash
<1> QED
  BY <1>1, <1>2

\* The main chain keeps its blocks when it grows.
LEMMA OnMainStable ==
  ASSUME main \in Blocks, Grow, NEW b, OnMain(b)
  PROVE  OnMain(b)'
<1>1. PICK t \in Tag : main' = Child(main, t)
  BY DEF Grow
<1>2. Height(b) \in 0 .. Height(main)
  BY BlockFacts DEF OnMain
<1>3. At(main', Height(b)) = At(main, Height(b))
  BY <1>1, <1>2, ChildAt
<1>4. Height(main) < Height(main')
  BY MainGrows
<1>5. Height(b) <= Height(main')
  <2>1. Height(main) \in Nat /\ Height(main') \in Nat /\ Height(b) \in Nat
    BY <1>2, MainGrows, BlockFacts
  <2> QED
    BY <1>2, <1>4, <2>1
<1> QED
  BY <1>3, <1>5 DEF OnMain

\* The invariant for runs without forks holds at first.
LEMMA FailuresInvInit == Init => FailuresInv
  BY BlockFacts DEF Init, FailuresInv, QuietRescan, Following, StoreOnMain, HeadCovered,
    FollowOnMain, RescansOnMain

\* No step loses a block while the chain does not fork.
LEMMA FailuresInvStep ==
  ASSUME NoFork', NoRefusal', ~RescanWhileRunning,
         Sane, Sane', FailuresInv, [Next]_vars
  PROVE  FailuresInv'
<1>a. ~Spend("fork") /\ ~Spend("observer")
  BY UntouchedStep DEF Sane, TypeOK, NoFork, NoRefusal, Kinds
<1> USE <1>a
<1> USE BlockFacts, MainFacts
      DEF Sane, TypeOK, StoreTypeOK, TaskTypeOK, ApiTypeOK, HistoryTypeOK,
      InRange, TaskPc, ApiPc, HoldsBlock, PastGenesis, store, task, api, told,
      vars, QuietRescan, Following, HeadIs, Recorded, FailuresInv,
      StoreOnMain, HeadCovered, FollowOnMain, RescansOnMain, Covered,
      Kinds
<1>1. ASSUME StartFromHead PROVE FailuresInv'
  BY <1>1 DEF StartFromHead, OnMain
<1>2. ASSUME StartFromTip PROVE FailuresInv'
  BY <1>2 DEF StartFromTip, RpcAnswers, RpcFails, OnMain
<1>3. ASSUME FetchFirst PROVE FailuresInv'
  BY <1>3 DEF FetchFirst, RpcAnswers, RpcFails, EndTask, ForgetTask, OnMain
<1>4. ASSUME Loop PROVE FailuresInv'
  BY <1>4 DEF Loop, RpcAnswers, RpcFails, LeaveLoop, OnMain
<1>5. ASSUME LoopPaused PROVE FailuresInv'
  BY <1>5 DEF LoopPaused, EndTask, ForgetTask, OnMain
<1>6. ASSUME FetchFails PROVE FailuresInv'
  <2>1. unscan' = unscan \cup {cur} /\ cur \in Nat /\ Recorded(Height(curHash), cur - 1)
    BY <1>6 DEF FetchFails
  <2>2. ASSUME NEW h \in Heights, Height(curHash) < h, h <= cur PROVE h \in unscan'
    BY <2>1, <2>2
  <2>3. \A b : Covered(b) => Covered(b)'
    BY <1>6 DEF FetchFails
  <2>4. Recorded(Height(curHash), cur)' /\ Height(curHash) < cur
    BY <1>6, <2>2 DEF FetchFails
  <2>5. HeadCovered'
    BY <1>6, <2>3 DEF FetchFails
  <2> QED
    BY <1>6, <2>3, <2>4, <2>5 DEF FetchFails, OnMain
<1>7. ASSUME FetchNext PROVE FailuresInv'
  BY <1>7 DEF FetchNext, OnMain
<1>8. ASSUME FetchForked PROVE FailuresInv'
  <2>1. /\ Rewind(cur) \in Heights /\ Rewind(cur) # 0 /\ cur - 1 \in Heights
        /\ Rewind(cur) = cur - 2 \/ (cur = 2 /\ Rewind(cur) = 1)
    BY <1>8, RewindInRange DEF Rewind
  <2>2. PreHash(At(main, cur)) # curHash /\ PreHash(At(main, cur)) = At(main, cur - 1)
    BY <1>8 DEF FetchForked
  <2>3. Height(curHash) # cur - 1 /\ Height(curHash) < cur /\ Height(curHash) \in Nat
    BY <1>8, <2>2 DEF FetchForked, OnMain
  <2>4. Height(curHash) <= Rewind(cur)
    BY <2>1, <2>3
  <2>5. unscan' = unscan \ {cur - 1} /\ cur' = Rewind(cur) /\ pc' = "rewind"
        /\ UNCHANGED <<main, head, local, scanning, curHash, block, todo, apiPc, apiBlock, base, extracted>>
    BY <1>8 DEF FetchForked
  <2>6. ASSUME NEW h \in Heights, Height(curHash) < h, h <= cur', h > 1 PROVE h \in unscan'
    BY <1>8, <2>1, <2>5, <2>6 DEF FetchForked
  <2>7. HeadCovered'
    <3> SUFFICES ASSUME NEW h \in Heights, base < h, h <= head.height, h > 1
                 PROVE  Covered(At(main, h))'
      BY <2>5
    <3>1. h <= Height(curHash) /\ Covered(At(main, h)) /\ Height(At(main, h)) = h
      BY <1>8 DEF FetchForked
    <3>2. h # cur - 1
      BY <2>1, <2>3, <3>1
    <3> QED
      BY <2>5, <3>1, <3>2
  <2>8. FollowOnMain'
    BY <1>8, <2>4, <2>5, <2>6 DEF FetchForked, OnMain
  <2>9. (QuietRescan /\ StoreOnMain /\ RescansOnMain)'
    BY <1>8, <2>5 DEF FetchForked, OnMain
  <2> QED
    BY <2>7, <2>8, <2>9
<1>9. ASSUME RewindStep PROVE FailuresInv'
  BY <1>9 DEF RewindStep, RewindTo, RpcAnswers, RpcFails, LeaveLoop, SaveLocalBlockHead, OnMain
<1>10. ASSUME ForkNotify PROVE FailuresInv'
  BY <1>10 DEF ForkNotify, NewBlockNotify, OnMain
<1>11. ASSUME Extract PROVE FailuresInv'
  BY <1>11 DEF Extract, BatchExtractTransaction, BatchReturnsNil, BatchReturnsError, Delivered, ObserverRefuses, OnMain
<1>12. ASSUME SaveHead PROVE FailuresInv'
  <2>1. /\ OnMain(block) /\ Height(block) = cur /\ Height(curHash) = cur - 1
        /\ HeadIs(cur - 1) /\ Covered(block) /\ cur \in Heights /\ cur # 0 /\ block \in Blocks
    BY <1>12 DEF SaveHead, OnMain
  <2>2. /\ head'.height = cur /\ head'.hash = block /\ curHash' = block /\ pc' = "saveBlock"
        /\ UNCHANGED <<main, local, unscan, scanning, cur, block, apiPc, apiBlock, base, extracted>>
    BY <1>12 DEF SaveHead, SaveLocalBlockHead
  <2>3. HeadCovered'
    <3> SUFFICES ASSUME NEW h \in Heights, base < h, h <= cur, h > 1
                 PROVE  Covered(At(main, h))
      BY <2>2
    <3>1. CASE h = cur
      BY <2>1, <3>1 DEF OnMain
    <3>2. CASE h # cur
      <4>a. h \in Nat /\ cur \in Nat /\ h <= cur /\ h # cur
        BY <2>1, <3>2
      <4>1. h <= cur - 1
        BY <4>a
      <4>2. h <= head.height
        BY <2>1, <4>1
      <4> QED
        BY <4>2
    <3> QED
      BY <3>1, <3>2
  <2>4. StoreOnMain' /\ FollowOnMain'
    BY <2>1, <2>2 DEF OnMain
  <2>5. QuietRescan' /\ RescansOnMain'
    BY <1>12, <2>2 DEF SaveHead, OnMain
  <2> QED
    BY <2>3, <2>4, <2>5
<1>13. ASSUME SaveBlock PROVE FailuresInv'
  BY <1>13 DEF SaveBlock, OnMain
<1>14. ASSUME Notify PROVE FailuresInv'
  BY <1>14 DEF Notify, NewBlockNotify, OnMain
<1>15. ASSUME RescanLast PROVE FailuresInv'
  BY <1>15 DEF RescanLast, OnMain
<1>16. ASSUME LastExtract PROVE FailuresInv'
  BY <1>16 DEF LastExtract, BatchExtractTransaction, BatchReturnsNil, BatchReturnsError, Delivered, ObserverRefuses, OnMain
<1>17. ASSUME ReadUnscanRecords PROVE FailuresInv'
  BY <1>17 DEF ReadUnscanRecords, OnMain
<1>18. ASSUME RescanFailed PROVE FailuresInv'
  BY <1>18 DEF RescanFailed, OnMain
<1>19. ASSUME FailedExtract PROVE FailuresInv'
  BY <1>19 DEF FailedExtract, BatchReturnsNil, BatchReturnsError, Delivered, ObserverRefuses, OnMain
<1>20. ASSUME DeleteRecord PROVE FailuresInv'
  BY <1>20 DEF DeleteRecord, OnMain
<1>21. ASSUME TaskEnds PROVE FailuresInv'
  BY <1>21 DEF TaskEnds, EndTask, ForgetTask, OnMain
<1>22. ASSUME CallScanBlock PROVE FailuresInv'
  BY <1>22 DEF CallScanBlock, OnMain
<1>23. ASSUME ScanBlockExtract PROVE FailuresInv'
  BY <1>23 DEF ScanBlockExtract, BatchExtractTransaction, BatchReturnsNil, BatchReturnsError, Delivered, ObserverRefuses, OnMain
<1>24. ASSUME ScanBlockNotify PROVE FailuresInv'
  BY <1>24 DEF ScanBlockNotify, NewBlockNotify, OnMain
<1>25. ASSUME CallSetRescanBlockHeight PROVE FailuresInv'
  <2>1. PICK r \in MinRescanHeight .. Height(main) + 1 : r # 0 /\ apiBlock' = At(main, r - 1)
    BY <1>25 DEF CallSetRescanBlockHeight
  <2>2. r - 1 \in Heights /\ r - 1 <= Height(main)
    BY <2>1, ScannerAssumption
  <2>3. OnMain(apiBlock')
    BY <2>1, <2>2
  <2> QED
    BY <1>25, <2>3 DEF CallSetRescanBlockHeight, TaskIsQuiet, OnMain
<1>26. ASSUME SetRescanBlockHeightSaves PROVE FailuresInv'
  BY <1>26 DEF SetRescanBlockHeightSaves, SaveLocalBlockHead, OnMain
<1>27. ASSUME Grow PROVE FailuresInv'
  <2>1. UNCHANGED <<store, scanning, pc, task, api, base, asked, told, budget>>
    BY <1>27 DEF Grow
  <2>2. \A b : OnMain(b) => OnMain(b)'
    BY <1>27, OnMainStable
  <2>3. ASSUME NEW h \in Heights, h <= Height(main) PROVE At(main', h) = At(main, h)
    <3>1. PICK b : b = At(main, h)
      OBVIOUS
    <3>2. OnMain(b) /\ Height(b) = h
      BY <2>3, <3>1
    <3>3. OnMain(b)'
      BY <2>2, <3>2
    <3> QED
      BY <3>1, <3>2, <3>3 DEF OnMain
  <2>4. ASSUME NEW h \in Heights, base < h, h <= head.height, h > 1 PROVE Covered(At(main, h))'
    <3>1. h <= Height(main)
      BY <2>4
    <3> QED
      BY <2>1, <2>3, <2>4, <3>1
  <2> QED
    BY <2>1, <2>2, <2>4
<1>28. ASSUME Fork PROVE FailuresInv'
  BY <1>28 DEF Fork
<1>29. ASSUME Crash PROVE FailuresInv'
  BY <1>29 DEF Crash, EndTask, ForgetTask, OnMain
<1>30. ASSUME Run PROVE FailuresInv'
  BY <1>30 DEF Run, OnMain
<1>31. ASSUME Pause PROVE FailuresInv'
  BY <1>31 DEF Pause, OnMain
<1>32. ASSUME UNCHANGED vars PROVE FailuresInv'
  BY <1>32 DEF OnMain
<1> HIDE DEF Sane, TypeOK, StoreTypeOK, TaskTypeOK, ApiTypeOK, HistoryTypeOK,
      InRange, TaskPc, ApiPc, HoldsBlock, PastGenesis, store, task, api, told,
      vars, QuietRescan, Following, HeadIs, Recorded, FailuresInv,
      StoreOnMain, HeadCovered, FollowOnMain, RescansOnMain, Covered,
      Kinds
<1> QED
  BY NextIsAction, <1>1, <1>2, <1>3, <1>4, <1>5, <1>6, <1>7, <1>8, <1>9, <1>10, <1>11,
      <1>12, <1>13, <1>14, <1>15, <1>16, <1>17, <1>18, <1>19, <1>20, <1>21,
      <1>22, <1>23, <1>24, <1>25, <1>26, <1>27, <1>28, <1>29, <1>30, <1>31,
      <1>32
  DEF NextAction

\* The invariant for runs without failures holds at first.
LEMMA ForksInvInit == Init => ForksInv
  BY BlockFacts DEF Init, ForksInv, QuietRescan, Following

\* What the proof uses of ancestors.
LEMMA AncestorFacts ==
  /\ \A b \in Blocks, h, k \in Heights : h <= k /\ k <= Height(b) => At(At(b, k), h) = At(b, h)
  /\ \A b \in Blocks : Height(b) # 0 => Height(PreHash(b)) = Height(b) - 1
<1>1. ASSUME NEW b \in Blocks, NEW h \in Heights, NEW k \in Heights, h <= k, k <= Height(b)
      PROVE  At(At(b, k), h) = At(b, h)
  <2>1. k \in 0 .. Height(b) /\ h \in 0 .. k
    BY <1>1, BlockFacts
  <2> QED
    BY <2>1, AtAt
<1>2. ASSUME NEW b \in Blocks, Height(b) # 0 PROVE Height(PreHash(b)) = Height(b) - 1
  BY <1>2, BlockFacts DEF PreHash
<1> QED
  BY <1>1, <1>2

\* No step loses a block while nothing fails.
LEMMA ForksInvStep ==
  ASSUME NoFailure', NoRefusal', ~RescanWhileRunning,
         Sane, Sane', ForksInv, [Next]_vars
  PROVE  ForksInv'
<1>a. ~Spend("rpc") /\ ~Spend("crash") /\ ~Spend("extract") /\ ~Spend("observer")
  BY UntouchedStep DEF Sane, TypeOK, NoFailure, NoRefusal, Kinds
<1> USE <1>a
<1> USE BlockFacts, AncestorFacts
      DEF Sane, TypeOK, StoreTypeOK, TaskTypeOK, ApiTypeOK, HistoryTypeOK,
      InRange, TaskPc, ApiPc, HoldsBlock, PastGenesis, store, task, api, told,
      vars, QuietRescan, Following, HeadIs, ForksInv
<1>1. ASSUME StartFromHead PROVE ForksInv'
  BY <1>1 DEF StartFromHead
<1>2. ASSUME StartFromTip PROVE ForksInv'
  BY <1>2 DEF StartFromTip, RpcAnswers, RpcFails
<1>3. ASSUME FetchFirst PROVE ForksInv'
  BY <1>3 DEF FetchFirst, RpcAnswers, RpcFails, EndTask, ForgetTask
<1>4. ASSUME Loop PROVE ForksInv'
  BY <1>4 DEF Loop, RpcAnswers, RpcFails, LeaveLoop
<1>5. ASSUME LoopPaused PROVE ForksInv'
  BY <1>5 DEF LoopPaused, EndTask, ForgetTask
<1>6. ASSUME FetchFails PROVE ForksInv'
  BY <1>6 DEF FetchFails, RpcFails
<1>7. ASSUME FetchNext PROVE ForksInv'
  BY <1>7 DEF FetchNext
<1>8. ASSUME FetchForked PROVE ForksInv'
  <2>1. Rewind(cur) \in Heights /\ Rewind(cur) <= cur - 1 /\ cur - 1 \in Heights
    BY <1>8, RewindInRange
  <2>2. cur' = Rewind(cur) /\ HeadIs(cur - 1)
    BY <1>8 DEF FetchForked
  <2>3. \E h \in Heights : cur' <= h /\ HeadIs(h)
    BY <2>1, <2>2
  <2> QED
    BY <1>8, <2>3 DEF FetchForked
<1>9. ASSUME RewindStep PROVE ForksInv'
  BY <1>9 DEF RewindStep, RewindTo, RpcAnswers, RpcFails, LeaveLoop, SaveLocalBlockHead
<1>10. ASSUME ForkNotify PROVE ForksInv'
  BY <1>10 DEF ForkNotify, NewBlockNotify
<1>11. ASSUME Extract PROVE ForksInv'
  BY <1>11 DEF Extract, BatchExtractTransaction, BatchReturnsNil, BatchReturnsError, Delivered, ObserverRefuses
<1>12. ASSUME SaveHead PROVE ForksInv'
  <2>1. /\ block \in Blocks /\ Height(block) = cur /\ PreHash(block) = curHash
        /\ block \in extracted /\ HeadIs(cur - 1) /\ (head.height # 0 => head.hash = curHash)
        /\ cur \in Heights /\ cur # 0
    BY <1>12 DEF SaveHead
  <2>2. /\ head'.height = cur /\ head'.hash = block /\ curHash' = block /\ pc' = "saveBlock"
        /\ UNCHANGED <<local, scanning, cur, block, apiPc, base, extracted>>
    BY <1>12 DEF SaveHead, SaveLocalBlockHead
  <2>3. ASSUME NEW h \in Heights, base < h, h <= cur
        PROVE  At(block, h) \in extracted /\ (local[h] = At(block, h) \/ h = cur)
    <3>1. CASE h = cur
      BY <2>1, <3>1
    <3>2. CASE h # cur
      <4>1. h <= cur - 1 /\ cur - 1 \in Heights
        BY <2>1, <2>3, <3>2
      <4>2. head.height = cur - 1 /\ head.hash = curHash
        BY <2>1, <2>3, <4>1
      <4>3. At(block, h) = At(head.hash, h)
        BY <2>1, <4>1, <4>2 DEF PreHash
      <4>4. At(head.hash, h) \in extracted /\ local[h] = At(head.hash, h)
        BY <1>12, <2>3, <4>1, <4>2 DEF SaveHead
      <4> QED
        BY <4>3, <4>4
    <3> QED
      BY <3>1, <3>2
  <2> QED
    BY <1>12, <2>1, <2>2, <2>3 DEF SaveHead
<1>13. ASSUME SaveBlock PROVE ForksInv'
  BY <1>13 DEF SaveBlock
<1>14. ASSUME Notify PROVE ForksInv'
  BY <1>14 DEF Notify, NewBlockNotify
<1>15. ASSUME RescanLast PROVE ForksInv'
  BY <1>15 DEF RescanLast
<1>16. ASSUME LastExtract PROVE ForksInv'
  BY <1>16 DEF LastExtract, BatchExtractTransaction, BatchReturnsNil, BatchReturnsError, Delivered, ObserverRefuses
<1>17. ASSUME ReadUnscanRecords PROVE ForksInv'
  BY <1>17 DEF ReadUnscanRecords
<1>18. ASSUME RescanFailed PROVE ForksInv'
  BY <1>18 DEF RescanFailed
<1>19. ASSUME FailedExtract PROVE ForksInv'
  BY <1>19 DEF FailedExtract, BatchReturnsNil, BatchReturnsError, Delivered, ObserverRefuses
<1>20. ASSUME DeleteRecord PROVE ForksInv'
  BY <1>20 DEF DeleteRecord
<1>21. ASSUME TaskEnds PROVE ForksInv'
  BY <1>21 DEF TaskEnds, EndTask, ForgetTask
<1>22. ASSUME CallScanBlock PROVE ForksInv'
  BY <1>22 DEF CallScanBlock
<1>23. ASSUME ScanBlockExtract PROVE ForksInv'
  BY <1>23 DEF ScanBlockExtract, BatchExtractTransaction, BatchReturnsNil, BatchReturnsError, Delivered, ObserverRefuses
<1>24. ASSUME ScanBlockNotify PROVE ForksInv'
  BY <1>24 DEF ScanBlockNotify, NewBlockNotify
<1>25. ASSUME CallSetRescanBlockHeight PROVE ForksInv'
  BY <1>25 DEF CallSetRescanBlockHeight, TaskIsQuiet
<1>26. ASSUME SetRescanBlockHeightSaves PROVE ForksInv'
  BY <1>26 DEF SetRescanBlockHeightSaves, SaveLocalBlockHead
<1>27. ASSUME Grow PROVE ForksInv'
  BY <1>27 DEF Grow
<1>28. ASSUME Fork PROVE ForksInv'
  BY <1>28 DEF Fork
<1>29. ASSUME Crash PROVE ForksInv'
  BY <1>29 DEF Crash
<1>30. ASSUME Run PROVE ForksInv'
  BY <1>30 DEF Run
<1>31. ASSUME Pause PROVE ForksInv'
  BY <1>31 DEF Pause
<1>32. ASSUME UNCHANGED vars PROVE ForksInv'
  BY <1>32
<1> HIDE DEF Sane, TypeOK, StoreTypeOK, TaskTypeOK, ApiTypeOK, HistoryTypeOK,
      InRange, TaskPc, ApiPc, HoldsBlock, PastGenesis, store, task, api, told,
      vars, QuietRescan, Following, HeadIs, ForksInv
<1> QED
  BY NextIsAction, <1>1, <1>2, <1>3, <1>4, <1>5, <1>6, <1>7, <1>8, <1>9, <1>10, <1>11,
      <1>12, <1>13, <1>14, <1>15, <1>16, <1>17, <1>18, <1>19, <1>20, <1>21,
      <1>22, <1>23, <1>24, <1>25, <1>26, <1>27, <1>28, <1>29, <1>30, <1>31,
      <1>32
  DEF NextAction

\* The inductive invariant of both environments.
ReliableInv ==
  /\ Sane
  /\ NoRefusal /\ NoFork => FailuresInv
  /\ NoRefusal /\ NoFailure => ForksInv

\* It holds at first and every step keeps it.
LEMMA ReliableInvInit == Init => ReliableInv
  BY SaneInit, FailuresInvInit, ForksInvInit DEF ReliableInv

LEMMA ReliableInvStep ==
  ASSUME ~RescanWhileRunning, ReliableInv, [Next]_vars
  PROVE  ReliableInv' /\ (Reliable' => Reliable)
<1>1. Sane /\ Sane'
  BY SaneStep DEF ReliableInv
<1>2. \A k \in Kinds : Untouched(k)' => Untouched(k)
  BY <1>1, UntouchedStep DEF Sane, TypeOK
<1>3. (NoFork' => NoFork) /\ (NoRefusal' => NoRefusal) /\ (NoFailure' => NoFailure)
  BY <1>2 DEF NoFork, NoRefusal, NoFailure, Kinds
<1>4. (NoRefusal /\ NoFork)' => FailuresInv'
  BY <1>1, <1>3, FailuresInvStep DEF ReliableInv
<1>5. (NoRefusal /\ NoFailure)' => ForksInv'
  BY <1>1, <1>3, ForksInvStep DEF ReliableInv
<1> QED
  BY <1>1, <1>3, <1>4, <1>5 DEF ReliableInv, Reliable

\* FollowedBlocksCovered, when the head is set only while the scanner is
\* stopped: whatever the node, the crashes and the failed extractions do, the
\* saved head does not move past a block whose data was neither delivered nor
\* recorded before the chain has forked; and it does not when the chain has
\* forked and nothing has failed.
THEOREM Coverage ==
  ASSUME ~RescanWhileRunning
  PROVE  Spec => []FollowedBlocksCovered
<1>1. Init => ReliableInv
  BY ReliableInvInit
<1>2. ReliableInv /\ [Next]_vars => ReliableInv'
  BY ReliableInvStep
<1>3. ReliableInv => FollowedBlocksCovered
  <2>1. ASSUME Sane, FailuresInv, NEW h \in base + 1 .. head.height, h > 1
        PROVE  Covered(At(head.hash, h))
    <3>1. /\ h \in Heights /\ base < h /\ h <= head.height /\ head.height # 0
          /\ head.height \in Heights /\ main \in Blocks
      BY <2>1, BlockFacts DEF Sane, TypeOK, StoreTypeOK, HistoryTypeOK
    <3>2. head.hash = At(main, head.height) /\ head.height <= Height(main)
      BY <2>1, <3>1 DEF FailuresInv, StoreOnMain, OnMain
    <3>3. At(head.hash, h) = At(main, h)
      BY <3>1, <3>2, AncestorFacts
    <3> QED
      BY <2>1, <3>1, <3>3 DEF FailuresInv, HeadCovered
  <2>2. ASSUME Sane, ForksInv, NEW h \in base + 1 .. head.height, h > 1
        PROVE  Covered(At(head.hash, h))
    BY <2>2, BlockFacts DEF Sane, TypeOK, StoreTypeOK, HistoryTypeOK, ForksInv, Covered
  <2> QED
    BY <2>1, <2>2 DEF FollowedBlocksCovered, ReliableInv, Reliable
<1> QED
  BY <1>1, <1>2, <1>3, PTL DEF Spec

----------------------------------------------------------------------------
\* The scanner implements ChainFollower.

\* The saved head as the follower sees it.
Tip == IF head.height = 0 THEN NoBlock ELSE head.hash

\* The follower's blocks are the scanner's.
LEMMA FollowerTerms ==
  /\ Follower!Blocks = Blocks
  /\ Follower!Heights = Heights
  /\ \A b : Follower!Height(b) = Height(b)
  /\ \A b, h : Follower!At(b, h) = At(b, h)
  /\ \A a, b : Follower!IsAncestor(a, b) <=> IsAncestor(a, b)
<1>1. Follower!Blocks = Blocks /\ Follower!Heights = Heights
  BY DEF Follower!Blocks, Follower!Heights, Blocks, Heights
<1>2. \A b : Follower!Height(b) = Height(b)
  BY DEF Follower!Height, Height
<1>3. \A b, h : Follower!At(b, h) = At(b, h)
  BY DEF Follower!At, At
<1>4. \A a, b : Follower!IsAncestor(a, b) <=> IsAncestor(a, b)
  BY <1>2, <1>3 DEF Follower!IsAncestor, IsAncestor
<1> QED
  BY <1>1, <1>2, <1>3, <1>4

\* What is owed when b is followed: its ancestors above base and block 1.
LEMMA OwedFacts ==
  ASSUME base \in Heights, NEW b \in Blocks, NEW a \in Follower!Owed(b)
  PROVE  \E h \in Heights : /\ base < h /\ h <= Height(b) /\ h > 1
                            /\ a = At(b, h) /\ a \in Blocks /\ Height(a) = h
<1>1. b # NoBlock
  BY BlockFacts
<1>2. PICK h \in base + 1 .. Height(b) : h > 1 /\ a = At(b, h)
  BY <1>1, FollowerTerms DEF Follower!Owed
<1>3. h \in Heights /\ base < h /\ h <= Height(b)
  BY <1>2, BlockFacts
<1> QED
  BY <1>2, <1>3, BlockFacts

\* Nothing is owed before there is a head.
LEMMA NothingOwed == Follower!Owed(NoBlock) = {}
  BY DEF Follower!Owed

\* What changes none of the follower's state is a step that stutters.
LEMMA FollowerStutters ==
  ASSUME UNCHANGED <<head, base, extracted, unscan>>
  PROVE  UNCHANGED Follower!vars
  BY DEF Follower!vars

\* A batch delivers its block or queues its height.
LEMMA FollowerDelivers ==
  ASSUME NEW b \in Blocks, BatchExtractTransaction(b), UNCHANGED <<head, base>>
  PROVE  Follower!Next
<1>1. CASE extracted' = extracted \cup {b} /\ UNCHANGED unscan
  <2>1. Follower!Deliver(b)
    BY <1>1 DEF Follower!Deliver
  <2> QED
    BY <2>1, FollowerTerms DEF Follower!Next
<1>2. CASE unscan' = unscan \cup {Height(b)} /\ UNCHANGED extracted
  <2>1. Follower!Queue(Height(b)) /\ Height(b) \in Heights
    BY <1>2, BlockFacts DEF Follower!Queue
  <2> QED
    BY <2>1, FollowerTerms DEF Follower!Next
<1> QED
  BY <1>1, <1>2 DEF BatchExtractTransaction, BatchReturnsNil, BatchReturnsError,
    Delivered, ObserverRefuses

\* A height recorded alone is queued.
LEMMA FollowerQueues ==
  ASSUME NEW h \in Heights, unscan' = unscan \cup {h}, UNCHANGED <<head, base, extracted>>
  PROVE  Follower!Next
<1>1. Follower!Queue(h)
  BY DEF Follower!Queue
<1> QED
  BY <1>1, FollowerTerms DEF Follower!Next

\* A record is settled if the block owed at its height was delivered.
LEMMA FollowerSettles ==
  ASSUME NEW h \in Heights, unscan' = unscan \ {h}, UNCHANGED <<head, base, extracted>>,
         base \in Heights, head.height # 0 => head.hash \in Blocks,
         head.height # 0 /\ base < h /\ h <= Height(head.hash) => At(head.hash, h) \in extracted
  PROVE  Follower!Next
<1>1. ASSUME NEW a \in Follower!Owed(Tip), Height(a) = h PROVE a \in extracted
  <2>1. head.height # 0 /\ Tip = head.hash
    BY <1>1, NothingOwed DEF Tip
  <2> QED
    BY <1>1, <2>1, OwedFacts
<1>2. Follower!Settle(h)
  BY <1>1, FollowerTerms DEF Follower!Settle, Tip
<1> QED
  BY <1>2, FollowerTerms DEF Follower!Next

\* The head moves on to a block whose branch it is on and whose owed blocks are
\* covered.
LEMMA FollowerExtends ==
  ASSUME NEW b \in Blocks, Height(b) # 0, base \in Heights,
         head' = [height |-> Height(b), hash |-> b], UNCHANGED <<base, extracted, unscan>>,
         head.height # 0 => IsAncestor(head.hash, b),
         \A h \in Heights : base < h /\ h <= Height(b) /\ h > 1 => Covered(At(b, h))
  PROVE  Follower!Next
<1>1. \A a \in Follower!Owed(b) : Covered(a)
  BY OwedFacts
<1>2. Tip' = b
  BY DEF Tip
<1>3. Follower!Extend(b)
  BY <1>1, <1>2, FollowerTerms DEF Follower!Extend, Follower!Kept, Covered, Tip
<1> QED
  BY <1>3, FollowerTerms DEF Follower!Next

\* The head moves back.
LEMMA FollowerRetreats ==
  ASSUME NEW b \in Blocks, Height(b) # 0,
         head' = [height |-> Height(b), hash |-> b], UNCHANGED <<base, extracted, unscan>>,
         (head.height # 0 /\ head.hash \in Blocks /\ IsAncestor(b, head.hash)) \/ Height(b) <= base
  PROVE  Follower!Next
<1>1. Tip' = b
  BY DEF Tip
<1>2. head.height # 0 /\ head.hash \in Blocks => Tip # NoBlock /\ Tip = head.hash
  BY BlockFacts DEF Tip
<1>3. Follower!Retreat(b)
  BY <1>1, <1>2, FollowerTerms DEF Follower!Retreat, Tip
<1> QED
  BY <1>3, FollowerTerms DEF Follower!Next

\* The four steps whose place in the follower depends on where the task stands,
\* first on a chain that does not fork: a fork is seen only above the head, the
\* rewind does not reach below the head, and what was skipped is recorded.
LEMMA FailuresFollow ==
  ASSUME Sane, FailuresInv, FetchForked \/ SaveHead \/ RewindStep \/ DeleteRecord
  PROVE  [Follower!Next]_(Follower!vars)
<1> USE BlockFacts DEF Sane, TypeOK, StoreTypeOK, TaskTypeOK, ApiTypeOK, HistoryTypeOK, InRange,
      HoldsBlock, PastGenesis, store, task, api, told, Following, HeadIs, Recorded,
      FailuresInv, StoreOnMain, HeadCovered, FollowOnMain, RescansOnMain
<1>1. CASE FetchForked
  <2>1. cur - 1 \in Heights /\ cur \in Heights /\ cur # 0 /\ cur <= Height(main) /\ main \in Blocks
    BY <1>1, RewindInRange DEF FetchForked
  <2>2. PreHash(At(main, cur)) = At(main, cur - 1)
    BY <2>1, MainFacts
  <2>3. Height(curHash) < cur /\ Height(curHash) # cur - 1 /\ Height(curHash) \in Heights
    BY <1>1, <2>2 DEF FetchForked, OnMain
  <2>4. head.height # 0 => Height(head.hash) < cur - 1 /\ head.hash \in Blocks
    BY <1>1, <2>1, <2>3 DEF FetchForked
  <2>5. unscan' = unscan \ {cur - 1} /\ UNCHANGED <<head, base, extracted>>
    BY <1>1 DEF FetchForked
  <2> QED
    BY <2>1, <2>4, <2>5, FollowerSettles
<1>2. CASE SaveHead
  <2>1. /\ OnMain(block) /\ Height(block) = cur /\ Height(curHash) = cur - 1 /\ main \in Blocks
        /\ HeadIs(cur - 1) /\ Covered(block) /\ cur \in Heights /\ cur # 0 /\ block \in Blocks
    BY <1>2 DEF SaveHead, OnMain
  <2>2. \A h \in Heights : h <= cur => At(block, h) = At(main, h)
    BY <2>1, AncestorFacts DEF OnMain
  <2>3. head.height # 0 => IsAncestor(head.hash, block)
    <3> SUFFICES ASSUME head.height # 0 PROVE IsAncestor(head.hash, block)
      OBVIOUS
    <3>1. head.height = cur - 1 /\ Height(head.hash) = cur - 1 /\ head.hash = At(main, cur - 1)
      BY <2>1 DEF OnMain
    <3> QED
      BY <2>1, <2>2, <3>1 DEF IsAncestor
  <2>4. ASSUME NEW h \in Heights, base < h, h <= Height(block), h > 1 PROVE Covered(At(block, h))
    <3>1. CASE h = cur
      BY <2>1, <3>1
    <3>2. CASE h # cur
      <4>1. h <= cur - 1
        BY <2>1, <2>4, <3>2
      <4>2. h <= head.height /\ head.height \in Heights
        BY <2>1, <2>4, <4>1
      <4>3. Covered(At(main, h))
        BY <2>4, <4>2
      <4> QED
        BY <2>1, <2>2, <2>4, <4>3
    <3> QED
      BY <3>1, <3>2
  <2>5. head' = [height |-> Height(block), hash |-> block] /\ UNCHANGED <<base, extracted, unscan>>
    BY <1>2, <2>1 DEF SaveHead, SaveLocalBlockHead
  <2> QED
    BY <2>1, <2>3, <2>4, <2>5, FollowerExtends
<1>3. CASE RewindStep
  <2>1. UNCHANGED <<base, extracted, unscan>>
    BY <1>3 DEF RewindStep
  <2>2. CASE UNCHANGED head
    BY <2>1, <2>2, FollowerStutters
  <2>3. ASSUME NEW b, (b = local[cur] /\ local[cur] # NoBlock) \/ b = At(main, cur), RewindTo(b)
        PROVE  Follower!Next
    <3>1. /\ cur \in Heights /\ cur # 0 /\ cur <= Height(main) /\ main \in Blocks
          /\ Height(curHash) <= cur /\ HeadIs(Height(curHash)) /\ Height(curHash) \in Heights
          /\ \A h \in Heights : Height(curHash) < h /\ h <= cur /\ h > 1 => h \in unscan
      BY <1>3 DEF RewindStep, OnMain
    <3>2. b = At(main, cur) /\ b \in Blocks /\ Height(b) = cur
      BY <2>3, <3>1, MainFacts DEF OnMain
    <3>3. \A h \in Heights : h <= cur => At(b, h) = At(main, h)
      BY <3>1, <3>2, AncestorFacts
    <3>4. head.height # 0 => IsAncestor(head.hash, b)
      BY <3>1, <3>2, <3>3 DEF OnMain, IsAncestor
    <3>5. ASSUME NEW h \in Heights, base < h, h <= Height(b), h > 1 PROVE Covered(At(b, h))
      <4>1. At(b, h) = At(main, h) /\ Height(At(main, h)) = h
        BY <3>1, <3>2, <3>3, <3>5
      <4>2. CASE h <= head.height
        BY <3>5, <4>1, <4>2
      <4>3. CASE ~(h <= head.height)
        <5>1. Height(curHash) < h
          BY <3>1, <3>5, <4>3
        <5> QED
          BY <3>1, <3>2, <3>5, <4>1, <5>1 DEF Covered
      <4> QED
        BY <4>2, <4>3
    <3>6. head' = [height |-> Height(b), hash |-> b]
      BY <2>3 DEF RewindTo, SaveLocalBlockHead
    <3> QED
      BY <2>1, <3>1, <3>2, <3>4, <3>5, <3>6, FollowerExtends
  <2> QED
    BY <1>3, <2>2, <2>3 DEF RewindStep
<1>4. CASE DeleteRecord
  <2>1. /\ unscan' = unscan \ {Height(block)} /\ UNCHANGED <<head, base, extracted>>
        /\ OnMain(block) /\ block \in extracted /\ Height(block) \in Heights
    BY <1>4 DEF DeleteRecord, OnMain
  <2>2. head.height # 0 /\ Height(block) <= Height(head.hash) => At(head.hash, Height(block)) = block
    BY <2>1, AncestorFacts DEF OnMain
  <2> QED
    BY <2>1, <2>2, FollowerSettles DEF OnMain
<1> QED
  BY <1>1, <1>2, <1>3, <1>4

\* Then when nothing fails: the blocks of the head's branch are delivered, so a
\* record of theirs may go, and they are the local blocks, so the rewind stays on
\* the branch.
LEMMA ForksFollow ==
  ASSUME Sane, ForksInv, ~Spend("rpc"),
         FetchForked \/ SaveHead \/ RewindStep \/ DeleteRecord
  PROVE  [Follower!Next]_(Follower!vars)
<1> USE BlockFacts DEF Sane, TypeOK, StoreTypeOK, TaskTypeOK, ApiTypeOK, HistoryTypeOK, InRange,
      HoldsBlock, PastGenesis, store, task, api, told, Following, HeadIs, ForksInv
<1>1. ASSUME NEW h \in Heights, base < h, h <= Height(head.hash), head.height # 0
      PROVE  At(head.hash, h) \in extracted
  BY <1>1
<1>2. CASE FetchForked
  <2>1. cur - 1 \in Heights /\ unscan' = unscan \ {cur - 1} /\ UNCHANGED <<head, base, extracted>>
    BY <1>2, RewindInRange DEF FetchForked
  <2> QED
    BY <1>1, <2>1, FollowerSettles
<1>3. CASE SaveHead
  <2>1. /\ Height(block) = cur /\ PreHash(block) = curHash /\ HeadIs(cur - 1)
        /\ block \in extracted /\ cur \in Heights /\ cur # 0 /\ block \in Blocks
        /\ head.height # 0 => head.hash = curHash
    BY <1>3 DEF SaveHead
  <2>2. \A h \in Heights : h <= cur - 1 => At(curHash, h) = At(block, h)
    BY <2>1, AncestorFacts DEF PreHash
  <2>3. head.height # 0 => IsAncestor(head.hash, block)
    BY <2>1 DEF IsAncestor, PreHash
  <2>4. ASSUME NEW h \in Heights, base < h, h <= Height(block), h > 1 PROVE Covered(At(block, h))
    <3>1. CASE h = cur
      BY <2>1, <3>1 DEF Covered
    <3>2. CASE h # cur
      <4>1. h <= cur - 1 /\ head.height = cur - 1 /\ head.height # 0
        BY <2>1, <2>4, <3>2
      <4> QED
        BY <1>1, <2>1, <2>2, <2>4, <4>1 DEF Covered
    <3> QED
      BY <3>1, <3>2
  <2>5. head' = [height |-> Height(block), hash |-> block] /\ UNCHANGED <<base, extracted, unscan>>
    BY <1>3, <2>1 DEF SaveHead, SaveLocalBlockHead
  <2> QED
    BY <2>1, <2>3, <2>4, <2>5, FollowerExtends
<1>4. CASE RewindStep
  <2>1. PICK b : /\ \/ b = local[cur] /\ local[cur] # NoBlock
                    \/ b = At(main, cur) /\ local[cur] = NoBlock
                 /\ RewindTo(b)
    BY <1>4 DEF RewindStep, RpcFails
  <2>2. cur \in Heights /\ cur # 0 /\ cur <= Height(main) /\ main \in Blocks
    BY <1>4 DEF RewindStep
  <2>3. b \in Blocks /\ Height(b) = cur
    BY <2>1, <2>2
  <2>4. PICK k \in Heights : cur <= k /\ HeadIs(k)
    BY <1>4 DEF RewindStep
  <2>5. (head.height # 0 /\ head.hash \in Blocks /\ IsAncestor(b, head.hash)) \/ Height(b) <= base
    <3>1. CASE cur <= base
      BY <2>3, <3>1
    <3>2. CASE ~(cur <= base)
      <4>1. head.height # 0 /\ head.height = k /\ base < cur /\ cur <= head.height
        BY <2>2, <2>4, <3>2
      <4>2. local[cur] = At(head.hash, cur) /\ At(head.hash, cur) \in Blocks
        BY <1>4, <2>2, <4>1 DEF RewindStep
      <4>3. b = At(head.hash, cur)
        BY <2>1, <4>2
      <4> QED
        BY <2>3, <4>1, <4>3 DEF IsAncestor
    <3> QED
      BY <3>1, <3>2
  <2>6. head' = [height |-> Height(b), hash |-> b] /\ UNCHANGED <<base, extracted, unscan>>
    BY <1>4, <2>1 DEF RewindStep, RewindTo, SaveLocalBlockHead
  <2> QED
    BY <2>2, <2>3, <2>5, <2>6, FollowerRetreats
<1>5. CASE DeleteRecord
  <2>1. Height(block) \in Heights /\ unscan' = unscan \ {Height(block)} /\ UNCHANGED <<head, base, extracted>>
    BY <1>5 DEF DeleteRecord
  <2> QED
    BY <1>1, <2>1, FollowerSettles
<1> QED
  BY <1>2, <1>3, <1>4, <1>5

\* Every step of a reliable scanner is a step of the follower, action by action.
LEMMA FollowerStep ==
  ASSUME ~RescanWhileRunning, Reliable', ReliableInv, [Next]_vars
  PROVE  [Follower!Next]_(Follower!vars)
<1> DEFINE Goal == [Follower!Next]_(Follower!vars)
<1>a. Reliable /\ Sane
  BY ReliableInvStep DEF ReliableInv
<1>b. (NoFork /\ FailuresInv) \/ (NoFailure' /\ ForksInv)
  <2>1. NoFork' => NoFork
    BY <1>a, UntouchedStep DEF Sane, TypeOK, NoFork, Kinds
  <2>2. NoFailure' => NoFailure
    BY <1>a, UntouchedStep DEF Sane, TypeOK, NoFailure, Kinds
  <2> QED
    BY <1>a, <2>1, <2>2 DEF Reliable, ReliableInv
<1>c. NoFailure' => ~Spend("rpc")
  BY <1>a, UntouchedStep DEF Sane, TypeOK, NoFailure, Kinds
<1>d. pc = "first" => head.height = 0
  BY <1>b DEF FailuresInv, FollowOnMain, ForksInv
<1>1. ASSUME FetchForked \/ SaveHead \/ RewindStep \/ DeleteRecord PROVE Goal
  BY <1>1, <1>a, <1>b, <1>c, FailuresFollow, ForksFollow
<1>2. ASSUME \/ StartFromHead \/ StartFromTip \/ Loop \/ LoopPaused \/ FetchNext
             \/ ForkNotify \/ SaveBlock \/ Notify \/ ReadUnscanRecords \/ RescanFailed
             \/ TaskEnds \/ ScanBlockNotify \/ CallSetRescanBlockHeight
             \/ Grow \/ Fork \/ Crash \/ Run \/ Pause \/ UNCHANGED vars
      PROVE  Goal
  <2>1. UNCHANGED <<head, base, extracted, unscan>>
    BY <1>2 DEF StartFromHead, StartFromTip, Loop, LoopPaused, FetchNext, ForkNotify, SaveBlock,
      Notify, ReadUnscanRecords, RescanFailed, TaskEnds, ScanBlockNotify,
      CallSetRescanBlockHeight, Grow, Fork, Crash, Run, Pause, store, told, vars
  <2> QED
    BY <2>1, FollowerStutters
<1>3. ASSUME Extract \/ LastExtract \/ FailedExtract \/ ScanBlockExtract PROVE Goal
  <2>1. \/ block \in Blocks /\ BatchExtractTransaction(block)
        \/ apiBlock \in Blocks /\ BatchExtractTransaction(apiBlock)
    BY <1>3, <1>a DEF Sane, InRange, HoldsBlock, Extract, LastExtract, FailedExtract,
      ScanBlockExtract, BatchExtractTransaction
  <2>2. UNCHANGED <<head, base>>
    BY <1>3 DEF Extract, LastExtract, FailedExtract, ScanBlockExtract
  <2> QED
    BY <2>1, <2>2, FollowerDelivers
<1>4. ASSUME FetchFails \/ RescanLast \/ CallScanBlock PROVE Goal
  <2>1. UNCHANGED <<head, base, extracted>>
    BY <1>4 DEF FetchFails, RescanLast, CallScanBlock, told
  <2>2. UNCHANGED unscan \/ \E h \in Heights : unscan' = unscan \cup {h}
    BY <1>4, <1>a DEF FetchFails, RescanLast, CallScanBlock, Sane, TypeOK, TaskTypeOK
  <2> QED
    BY <2>1, <2>2, FollowerStutters, FollowerQueues
<1>5. ASSUME FetchFirst PROVE Goal
  <2>1. UNCHANGED <<head, extracted, unscan>> /\ head.height = 0 /\ cur \in Heights
    BY <1>5, <1>a, <1>d DEF FetchFirst, store, told, Sane, TypeOK, TaskTypeOK
  <2>2. CASE base' = cur
    <3>1. Follower!Rebase(cur)
      BY <2>1, <2>2 DEF Follower!Rebase
    <3> QED
      BY <2>1, <3>1, FollowerTerms DEF Follower!Next
  <2>3. CASE UNCHANGED base
    BY <2>1, <2>3, FollowerStutters
  <2> QED
    BY <1>5, <2>2, <2>3 DEF FetchFirst
<1>6. ASSUME SetRescanBlockHeightSaves PROVE Goal
  <2>1. apiBlock \in Blocks /\ Height(apiBlock) \in Heights
    BY <1>6, <1>a, BlockFacts DEF SetRescanBlockHeightSaves, Sane, InRange
  <2>2. /\ head' = [height |-> Height(apiBlock), hash |-> apiBlock]
        /\ base' = Height(apiBlock) /\ UNCHANGED <<extracted, unscan>>
    BY <1>6 DEF SetRescanBlockHeightSaves, SaveLocalBlockHead, told
  <2>3. Follower!Rebase(Height(apiBlock))
    BY <2>1, <2>2, FollowerTerms DEF Follower!Rebase
  <2> QED
    BY <2>1, <2>3, FollowerTerms DEF Follower!Next
<1> HIDE DEF Goal
<1>7. Goal
  BY NextIsAction, <1>1, <1>2, <1>3, <1>4, <1>5, <1>6 DEF NextAction
<1> QED
  BY <1>7 DEF Goal

\* The scanner starts as a follower of nothing.
LEMMA FollowerInit == Init => Follower!Init
  BY DEF Init, Follower!Init

\* FollowsWhileReliable, when the head is set only while the scanner is stopped:
\* as long as no observer refused data, and the chain has not forked or nothing
\* has failed, the scanner implements ChainFollower, for chains of any height and
\* any numbers of forks, failures, crashes and calls.
THEOREM FollowsReliably ==
  ASSUME ~RescanWhileRunning
  PROVE  Spec => FollowsWhileReliable
<1>1. Init => ReliableInv /\ Follower!Init
  BY ReliableInvInit, FollowerInit
<1>2. ReliableInv /\ [Next]_vars => ReliableInv'
  BY ReliableInvStep
<1>3. ReliableInv /\ [Next]_vars => [Reliable' => Follower!Next]_(Follower!vars)
  BY FollowerStep
<1> QED
  BY <1>1, <1>2, <1>3, PTL DEF Spec, FollowsWhileReliable

\* FollowsChain: an environment that only forks the chain, or only fails, leaves
\* the scanner Reliable for ever, and then it implements ChainFollower.
THEOREM Refinement ==
  ASSUME ~RescanWhileRunning, MaxNotifyFailures = 0,
         \/ MaxForks = 0
         \/ MaxRpcFailures = 0 /\ MaxExtractFailures = 0 /\ MaxCrashes = 0
  PROVE  Spec => FollowsChain
<1>1. Init => ReliableInv /\ Follower!Init
  BY ReliableInvInit, FollowerInit
<1>2. ReliableInv /\ [Next]_vars => ReliableInv'
  BY ReliableInvStep
<1>3. ReliableInv => Reliable
  <2> SUFFICES ASSUME ReliableInv PROVE Reliable
    OBVIOUS
  <2>1. ASSUME NEW k \in Kinds, Allowance[k] = 0 PROVE Untouched(k)
    BY <2>1 DEF ReliableInv, Sane, TypeOK, BudgetOK, Untouched
  <2>2. /\ Allowance["observer"] = MaxNotifyFailures /\ Allowance["fork"] = MaxForks
        /\ Allowance["rpc"] = MaxRpcFailures /\ Allowance["crash"] = MaxCrashes
        /\ Allowance["extract"] = MaxExtractFailures
    BY DEF Allowance, Kinds
  <2> QED
    BY <2>1, <2>2 DEF Reliable, NoRefusal, NoFork, NoFailure, Kinds
<1> QED
  BY <1>1, <1>2, <1>3, FollowsReliably, PTL DEF Spec, FollowsChain, FollowsWhileReliable, Follower!Spec

\* What is owed at an ancestor is owed.
LEMMA OwedShrinks ==
  ASSUME base \in Heights, NEW b \in Blocks, NEW c \in Blocks, IsAncestor(c, b)
  PROVE  Follower!Owed(c) \subseteq Follower!Owed(b)
<1> SUFFICES ASSUME NEW a \in Follower!Owed(c) PROVE a \in Follower!Owed(b)
  OBVIOUS
<1>1. PICK h \in Heights : base < h /\ h <= Height(c) /\ h > 1 /\ a = At(c, h)
  BY OwedFacts
<1>2. Height(c) <= Height(b) /\ c = At(b, Height(c)) /\ Height(c) \in Heights /\ Height(b) \in Heights
  BY BlockFacts DEF IsAncestor
<1>3. a = At(b, h)
  BY <1>1, <1>2, AncestorFacts
<1>4. h \in base + 1 .. Height(b) /\ h > 1
  BY <1>1, <1>2, BlockFacts
<1> QED
  BY <1>3, <1>4, FollowerTerms, BlockFacts DEF Follower!Owed

\* What a follower may do next keeps its promise.
LEMMA PromiseStep ==
  ASSUME base \in Heights, Tip \in Blocks \cup {NoBlock}, Follower!NothingMissed,
         [Follower!Next]_(Follower!vars)
  PROVE  base' \in Heights /\ Tip' \in Blocks \cup {NoBlock} /\ Follower!NothingMissed'
<1> DEFINE Keeps == base' \in Heights /\ Tip' \in Blocks \cup {NoBlock} /\ Follower!NothingMissed'
<1>a. Follower!NothingMissed <=> \A a \in Follower!Owed(Tip) : Covered(a)
  BY FollowerTerms DEF Follower!NothingMissed, Follower!Kept, Covered, Tip
<1>b. Follower!NothingMissed' <=> \A a \in Follower!Owed(Tip)' : Covered(a)'
  BY FollowerTerms DEF Follower!NothingMissed, Follower!Kept, Covered, Tip
<1>c. \A b : base' = base => Follower!Owed(b)' = Follower!Owed(b)
  BY DEF Follower!Owed
<1>d. ASSUME UNCHANGED <<extracted, unscan>>, NEW a, Covered(a) PROVE Covered(a)'
  BY <1>d DEF Covered
<1>1. ASSUME NEW b \in Blocks, Follower!Extend(b) PROVE Keeps
  <2>1. Tip' = b /\ base' = base /\ UNCHANGED <<extracted, unscan>> /\ \A a \in Follower!Owed(b) : Covered(a)
    BY <1>1, FollowerTerms DEF Follower!Extend, Follower!Kept, Covered, Tip
  <2> QED
    BY <1>b, <1>c, <1>d, <2>1
<1>2. ASSUME NEW b \in Blocks, Follower!Retreat(b) PROVE Keeps
  <2>1. /\ Tip' = b /\ base' = base /\ UNCHANGED <<extracted, unscan>>
        /\ (Tip # NoBlock /\ IsAncestor(b, Tip)) \/ Height(b) <= base
    BY <1>2, FollowerTerms DEF Follower!Retreat, Tip
  <2>2. \A a \in Follower!Owed(b) : Covered(a)
    <3>1. CASE Tip # NoBlock /\ IsAncestor(b, Tip)
      BY <1>a, <3>1, OwedShrinks
    <3>2. CASE Height(b) <= base
      BY <3>2, OwedFacts, BlockFacts
    <3> QED
      BY <2>1, <3>1, <3>2
  <2> QED
    BY <1>b, <1>c, <1>d, <2>1, <2>2
<1>3. ASSUME NEW h \in Heights, Follower!Rebase(h) PROVE Keeps
  <2>1. /\ base' = h
        /\ Tip' = NoBlock \/ (Tip' \in Blocks /\ Height(Tip') = h)
    BY <1>3, FollowerTerms DEF Follower!Rebase, Tip
  <2>2. ASSUME NEW b \in Blocks, Height(b) = h PROVE Follower!Owed(b)' = {}
    <3>1. h + 1 .. Len(b) = {}
      BY <1>3, <2>2, BlockFacts DEF Height
    <3> QED
      BY <2>1, <3>1 DEF Follower!Owed, Follower!Height
  <2>3. Follower!Owed(NoBlock)' = {}
    BY DEF Follower!Owed
  <2>4. Follower!Owed(Tip)' = {}
    <3>1. PICK b : b = Tip'
      OBVIOUS
    <3>2. Follower!Owed(Tip)' = Follower!Owed(b)'
      BY <3>1 DEF Follower!Owed
    <3> QED
      BY <2>1, <2>2, <2>3, <3>1, <3>2
  <2>5. Follower!NothingMissed'
    BY <1>b, <2>4
  <2> QED
    BY <1>3, <2>1, <2>5
<1>4. ASSUME UNCHANGED <<Tip, base>>, \A a \in Follower!Owed(Tip) : Covered(a) => Covered(a)' PROVE Keeps
  BY <1>4, <1>a, <1>b, <1>c
<1>5. ASSUME NEW b \in Blocks, Follower!Deliver(b) PROVE Keeps
  BY <1>4, <1>5 DEF Follower!Deliver, Tip, Covered
<1>6. ASSUME NEW h \in Heights, Follower!Queue(h) PROVE Keeps
  BY <1>4, <1>6 DEF Follower!Queue, Tip, Covered
<1>7. ASSUME NEW h \in Heights, Follower!Settle(h) PROVE Keeps
  <2>1. /\ UNCHANGED <<Tip, base, extracted>> /\ unscan' = unscan \ {h}
        /\ \A a \in Follower!Owed(Tip) : Height(a) = h => a \in extracted
    BY <1>7, FollowerTerms DEF Follower!Settle, Tip
  <2> QED
    BY <1>4, <2>1 DEF Covered
<1>8. ASSUME UNCHANGED Follower!vars PROVE Keeps
  BY <1>4, <1>8 DEF Follower!vars, Tip, Covered
<1> HIDE DEF Keeps
<1>9. Keeps
  BY <1>1, <1>2, <1>3, <1>5, <1>6, <1>7, <1>8, FollowerTerms DEF Follower!Next
<1> QED
  BY <1>9 DEF Keeps

\* The abstract specification says enough: whatever implements it misses no block
\* its observers are owed.  With Refinement this is FollowedBlocksCovered again,
\* from what a follower may do and not from what the scanner is.
THEOREM Promise == Follower!Spec => []Follower!NothingMissed
<1> DEFINE FInv == base \in Heights /\ Tip \in Blocks \cup {NoBlock} /\ Follower!NothingMissed
<1>1. Follower!Init => FInv
  <2> SUFFICES ASSUME Follower!Init PROVE FInv
    OBVIOUS
  <2>1. Tip = NoBlock /\ base \in Heights
    BY BlockFacts DEF Follower!Init, Tip
  <2>2. Follower!NothingMissed
    BY <2>1, NothingOwed DEF Follower!NothingMissed, Tip
  <2> QED
    BY <2>1, <2>2
<1>2. FInv /\ [Follower!Next]_(Follower!vars) => FInv'
  BY PromiseStep
<1> QED
  BY <1>1, <1>2, PTL DEF Follower!Spec

----------------------------------------------------------------------------
\* What the observers were told.  The local blocks and the announced ones are the
\* same blocks, up to the head; a step between the two writes is accounted for.

\* The height up to which blocks were saved and announced.
Top == IF pc \in {"saveBlock", "notify"} THEN head.height - 1 ELSE head.height

\* An announced block is the local block of its height, unless it is the one
\* about to be retracted.
AnnouncedLocal ==
  \A b \in announced : /\ local[Height(b)] = b
                       /\ Height(b) <= Top \/ (pc = "forkNotify" /\ b = forkBlock)

\* A local block up to there was announced and is on the head's branch.
LocalAnnounced ==
  \A h \in Heights : 0 < h /\ h <= Top /\ local[h] # NoBlock =>
    local[h] \in announced /\ local[h] = At(head.hash, h)

\* The scan leaves no gap below a local block.
LocalContiguous ==
  \A k, h \in Heights : k < h /\ h <= Top /\ local[h] = NoBlock => local[k] = NoBlock

\* The first block is never scanned, so the clamp of the rewind retracts nothing.
AboveOne ==
  /\ Height(main) >= 2
  /\ local[0] = NoBlock /\ local[1] = NoBlock
  /\ head.height = 0 => \A h \in Heights : local[h] = NoBlock
  /\ pc \in {"first", "loop", "rewind", "forkNotify"} => cur >= 1
  /\ pc \in {"fetch", "extract", "saveHead", "saveBlock", "notify"} => cur >= 2
  /\ pc = "notify" => local[cur] = block

\* The replaced block is the one above the height the task rewinds to.
Replaced ==
  /\ pc = "rewind" =>
       /\ head.height = 0 => forkBlock = NoBlock
       /\ head.height # 0 => /\ forkBlock = local[head.height]
                             /\ head.height = cur + 1 \/ (head.height = 1 /\ cur = 1)
  /\ pc = "forkNotify" /\ forkBlock # NoBlock => Height(forkBlock) = cur + 1
  /\ pc = "forkNotify" => head.height = cur

ObserversInv == /\ AnnouncedLocal /\ LocalAnnounced /\ LocalContiguous
                /\ AboveOne /\ Replaced /\ apiPc = "idle"

\* They were told nothing at first.
LEMMA ObserversInvInit == StartHeight >= 2 /\ Init => ObserversInv
<1> SUFFICES ASSUME StartHeight >= 2, Init PROVE ObserversInv
  OBVIOUS
<1>1. Height(main) >= 2
  BY ScannerAssumption, BlockFacts DEF Init, Height
<1>2. 0 \in Heights /\ 1 \in Heights
  BY ScannerAssumption, BlockFacts
<1> QED
  BY <1>1, <1>2, BlockFacts DEF Init, ObserversInv, AnnouncedLocal, LocalAnnounced,
    LocalContiguous, AboveOne, Replaced, Top

\* No step tells the observers anything else while nothing fails.
LEMMA ObserversInvStep ==
  ASSUME NoFailure', NoRefusal', NoCall', Sane, Sane', ForksInv, ObserversInv, [Next]_vars
  PROVE  ObserversInv'
<1>a. ~Spend("rpc") /\ ~Spend("crash") /\ ~Spend("extract") /\ ~Spend("observer") /\ ~Spend("call")
  BY UntouchedStep DEF Sane, TypeOK, NoFailure, NoRefusal, NoCall, Kinds
<1>b. 0 \in Heights /\ 1 \in Heights
  BY BlockFacts DEF Sane, TypeOK, ObserversInv, AboveOne
<1> USE <1>a, <1>b
<1> USE BlockFacts, AncestorFacts
      DEF Sane, TypeOK, StoreTypeOK, TaskTypeOK, ApiTypeOK, HistoryTypeOK,
      InRange, TaskPc, ApiPc, HoldsBlock, PastGenesis, store, task, api, told,
      vars, QuietRescan, Following, HeadIs, ForksInv, ObserversInv,
      AnnouncedLocal, LocalAnnounced, LocalContiguous, AboveOne, Replaced, Top
<1>1. ASSUME StartFromHead PROVE ObserversInv'
  BY <1>1 DEF StartFromHead
<1>2. ASSUME StartFromTip PROVE ObserversInv'
  BY <1>2 DEF StartFromTip, RpcAnswers, RpcFails
<1>3. ASSUME FetchFirst PROVE ObserversInv'
  BY <1>3 DEF FetchFirst, RpcAnswers, RpcFails, EndTask, ForgetTask
<1>4. ASSUME Loop PROVE ObserversInv'
  BY <1>4 DEF Loop, RpcAnswers, RpcFails, LeaveLoop
<1>5. ASSUME LoopPaused PROVE ObserversInv'
  BY <1>5 DEF LoopPaused, EndTask, ForgetTask
<1>6. ASSUME FetchFails PROVE ObserversInv'
  BY <1>6 DEF FetchFails, RpcFails
<1>7. ASSUME FetchNext PROVE ObserversInv'
  BY <1>7 DEF FetchNext
<1>8. ASSUME FetchForked PROVE ObserversInv'
  <2>1. /\ cur - 1 \in Heights /\ 2 <= cur /\ HeadIs(cur - 1) /\ Top = head.height
        /\ Rewind(cur) = cur - 2 \/ (cur = 2 /\ Rewind(cur) = 1)
    BY <1>8, RewindInRange DEF FetchForked, Rewind
  <2>2. /\ forkBlock' = local[cur - 1] /\ cur' = Rewind(cur) /\ pc' = "rewind"
        /\ UNCHANGED <<main, head, local, apiPc, announced>>
    BY <1>8 DEF FetchForked
  <2>3. Top' = Top /\ cur' \in Heights /\ 1 <= cur'
    BY <1>8, <2>1, <2>2, RewindInRange
  <2>4. Replaced'
    BY <2>1, <2>2, <2>3
  <2> QED
    BY <2>1, <2>2, <2>3, <2>4
<1>9. ASSUME RewindStep PROVE ObserversInv'
  <2>1. /\ cur \in Heights /\ 1 <= cur /\ Top = head.height
        /\ UNCHANGED <<main, local, cur, forkBlock, apiPc, announced>>
        /\ pc' = "forkNotify"
        /\ head'.height = cur /\ head'.hash = IF local[cur] # NoBlock THEN local[cur] ELSE At(main, cur)
    BY <1>9 DEF RewindStep, RewindTo, RpcAnswers, RpcFails, SaveLocalBlockHead
  <2>2. head.height # 0 => (head.height = cur + 1 \/ (head.height = 1 /\ cur = 1))
    BY <1>9 DEF RewindStep
  <2>3. Top' = cur
    BY <2>1
  <2>4. ASSUME NEW h \in Heights, 0 < h, h <= cur, local[h] # NoBlock
        PROVE  local[h] \in announced /\ local[h] = At(head'.hash, h)
    <3>1. head.height = cur + 1 /\ local[cur] # NoBlock
      BY <2>1, <2>2, <2>4
    <3>2. local[h] \in announced /\ local[h] = At(head.hash, h) /\ local[cur] = At(head.hash, cur)
      BY <2>1, <2>4, <3>1
    <3>3. head.hash \in Blocks /\ Height(head.hash) = cur + 1
      BY <3>1
    <3>4. At(At(head.hash, cur), h) = At(head.hash, h)
      BY <2>1, <2>4, <3>3
    <3> QED
      BY <2>1, <3>1, <3>2, <3>4
  <2>5. ASSUME NEW b \in announced PROVE Height(b) <= cur \/ b = forkBlock
    <3>1. Height(b) \in Nat /\ Height(b) <= head.height /\ local[Height(b)] = b /\ Height(b) # 1 /\ Height(b) # 0
      BY <1>9, <2>1, <2>5 DEF RewindStep
    <3>2. head.height = cur + 1 /\ forkBlock = local[head.height]
      BY <1>9, <2>1, <2>2, <3>1 DEF RewindStep
    <3> QED
      BY <2>1, <3>1, <3>2
  <2>6. forkBlock # NoBlock => Height(forkBlock) = cur + 1
    <3>1. CASE head.height = 0
      BY <1>9, <3>1 DEF RewindStep
    <3>2. CASE head.height = 1 /\ cur = 1
      BY <1>9, <3>2 DEF RewindStep
    <3>3. CASE head.height = cur + 1 /\ head.height # 0
      BY <1>9, <3>3 DEF RewindStep
    <3> QED
      BY <2>2, <3>1, <3>2, <3>3
  <2>7. LocalAnnounced' /\ AnnouncedLocal'
    BY <2>1, <2>3, <2>4, <2>5
  <2>8. LocalContiguous'
    BY <2>1, <2>2, <2>3
  <2>9. AboveOne' /\ Replaced'
    BY <2>1, <2>6
  <2> QED
    BY <2>1, <2>7, <2>8, <2>9
<1>10. ASSUME ForkNotify PROVE ObserversInv'
  <2>1. /\ pc = "forkNotify" /\ pc' = "loop" /\ forkBlock' = NoBlock
        /\ announced' = announced \ {forkBlock}
        /\ UNCHANGED <<main, head, local, cur, apiPc>>
    BY <1>10 DEF ForkNotify, NewBlockNotify
  <2>2. Top' = head.height /\ Top = head.height /\ head.height = cur
    BY <2>1
  <2>3. ASSUME NEW h \in Heights, h <= Top, local[h] # NoBlock PROVE local[h] # forkBlock
    BY <2>1, <2>2, <2>3
  <2> QED
    BY <2>1, <2>2, <2>3
<1>11. ASSUME Extract PROVE ObserversInv'
  BY <1>11 DEF Extract, BatchExtractTransaction, BatchReturnsNil, BatchReturnsError, Delivered, ObserverRefuses
<1>12. ASSUME SaveHead PROVE ObserversInv'
  <2>1. /\ block \in Blocks /\ Height(block) = cur /\ PreHash(block) = curHash
        /\ HeadIs(cur - 1) /\ (head.height # 0 => head.hash = curHash)
        /\ cur \in Heights /\ 2 <= cur /\ Top = head.height
    BY <1>12 DEF SaveHead
  <2>2. /\ head'.height = cur /\ head'.hash = block /\ pc' = "saveBlock"
        /\ UNCHANGED <<main, local, cur, block, forkBlock, apiPc, announced>>
    BY <1>12 DEF SaveHead, SaveLocalBlockHead
  <2>3. Top' = cur - 1 /\ (head.height # 0 => Top = cur - 1)
    BY <2>1, <2>2
  <2>4. ASSUME NEW h \in Heights, 0 < h, h <= cur - 1, local[h] # NoBlock
        PROVE  local[h] \in announced /\ local[h] = At(block, h)
    <3>1. head.height # 0 /\ head.height = cur - 1 /\ head.hash = curHash
      BY <2>1, <2>4
    <3>2. local[h] \in announced /\ local[h] = At(head.hash, h)
      BY <2>1, <2>4, <3>1
    <3>3. At(At(block, cur - 1), h) = At(block, h)
      BY <2>1, <2>4
    <3> QED
      BY <2>1, <3>1, <3>2, <3>3 DEF PreHash
  <2>5. LocalAnnounced'
    BY <2>2, <2>3, <2>4
  <2>6. (AnnouncedLocal /\ LocalContiguous)'
    BY <2>1, <2>2, <2>3
  <2>7. AboveOne'
    BY <2>1, <2>2
  <2>8. Replaced'
    BY <1>12, <2>1, <2>2 DEF SaveHead
  <2> QED
    BY <2>2, <2>5, <2>6, <2>7, <2>8
<1>13. ASSUME SaveBlock PROVE ObserversInv'
  <2>1. /\ block \in Blocks /\ Height(block) = cur /\ cur = head.height /\ Top = cur - 1
        /\ cur \in Heights /\ 2 <= cur /\ curHash = block
    BY <1>13 DEF SaveBlock
  <2>2. /\ local' = [local EXCEPT ![cur] = block] /\ pc' = "notify"
        /\ UNCHANGED <<main, head, cur, block, forkBlock, apiPc, announced>>
    BY <1>13, <2>1 DEF SaveBlock
  <2>3. Top' = Top /\ \A h \in Heights : h # cur => local'[h] = local[h]
    BY <2>1, <2>2
  <2>4. (LocalAnnounced /\ AnnouncedLocal /\ LocalContiguous)'
    BY <2>1, <2>2, <2>3
  <2>5. AboveOne' /\ Replaced'
    BY <2>1, <2>2, <2>3
  <2> QED
    BY <2>2, <2>4, <2>5
<1>14. ASSUME Notify PROVE ObserversInv'
  <2>1. /\ block \in Blocks /\ Height(block) = cur /\ cur = head.height /\ Top = cur - 1
        /\ cur \in Heights /\ 2 <= cur /\ curHash = block /\ head.hash = curHash
        /\ local[cur] = block
    BY <1>14 DEF Notify
  <2>2. /\ announced' = announced \cup {block} /\ pc' = "loop"
        /\ UNCHANGED <<main, head, local, cur, forkBlock, apiPc>>
    BY <1>14 DEF Notify, NewBlockNotify
  <2>3. Top' = cur /\ At(head.hash, cur) = block
    BY <2>1, <2>2
  <2>8. ASSUME NEW h \in Heights, h <= cur, h # cur PROVE h <= Top
    <3>1. cur \in Heights /\ Top = cur - 1
      BY <2>1
    <3> HIDE DEF Top
    <3> QED
      BY <2>8, <3>1, HeightBelow
  <2>4. LocalAnnounced'
    <3> SUFFICES ASSUME NEW h \in Heights, 0 < h, h <= cur, local[h] # NoBlock
                 PROVE  local[h] \in announced' /\ local[h] = At(head.hash, h)
      BY <2>2, <2>3
    <3>1. CASE h = cur
      BY <2>1, <2>2, <2>3, <3>1
    <3>2. CASE h # cur
      BY <2>2, <2>8, <3>2
    <3> QED
      BY <3>1, <3>2
  <2>6. AnnouncedLocal'
    BY <2>1, <2>2, <2>3
  <2>7. LocalContiguous'
    <3> SUFFICES ASSUME NEW k \in Heights, NEW h \in Heights, k < h, h <= cur, local[h] = NoBlock
                 PROVE  local[k] = NoBlock
      BY <2>2, <2>3
    <3>1. h # cur
      BY <2>1
    <3> QED
      BY <2>8, <3>1
  <2>5. AboveOne' /\ Replaced'
    BY <2>1, <2>2
  <2> QED
    BY <2>2, <2>4, <2>5, <2>6, <2>7
<1>15. ASSUME RescanLast PROVE ObserversInv'
  BY <1>15 DEF RescanLast, RpcAnswers, RpcFails
<1>16. ASSUME LastExtract PROVE ObserversInv'
  BY <1>16 DEF LastExtract, BatchExtractTransaction, BatchReturnsNil, BatchReturnsError, Delivered, ObserverRefuses
<1>17. ASSUME ReadUnscanRecords PROVE ObserversInv'
  BY <1>17 DEF ReadUnscanRecords
<1>18. ASSUME RescanFailed PROVE ObserversInv'
  BY <1>18 DEF RescanFailed, RpcAnswers, RpcFails
<1>19. ASSUME FailedExtract PROVE ObserversInv'
  BY <1>19 DEF FailedExtract, BatchReturnsNil, BatchReturnsError, Delivered, ObserverRefuses
<1>20. ASSUME DeleteRecord PROVE ObserversInv'
  BY <1>20 DEF DeleteRecord
<1>21. ASSUME TaskEnds PROVE ObserversInv'
  BY <1>21 DEF TaskEnds, EndTask, ForgetTask
<1>22. ASSUME CallScanBlock PROVE ObserversInv'
  BY <1>22 DEF CallScanBlock
<1>23. ASSUME ScanBlockExtract PROVE ObserversInv'
  BY <1>23 DEF ScanBlockExtract, BatchExtractTransaction, BatchReturnsNil, BatchReturnsError, Delivered, ObserverRefuses
<1>24. ASSUME ScanBlockNotify PROVE ObserversInv'
  BY <1>24 DEF ScanBlockNotify
<1>25. ASSUME CallSetRescanBlockHeight PROVE ObserversInv'
  BY <1>25 DEF CallSetRescanBlockHeight
<1>26. ASSUME SetRescanBlockHeightSaves PROVE ObserversInv'
  BY <1>26 DEF SetRescanBlockHeightSaves
<1>27. ASSUME Grow PROVE ObserversInv'
  BY <1>27, MainGrows DEF Grow
<1>28. ASSUME Fork PROVE ObserversInv'
  BY <1>28, MainGrows DEF Fork
<1>29. ASSUME Crash PROVE ObserversInv'
  BY <1>29 DEF Crash
<1>30. ASSUME Run PROVE ObserversInv'
  BY <1>30 DEF Run
<1>31. ASSUME Pause PROVE ObserversInv'
  BY <1>31 DEF Pause
<1>32. ASSUME UNCHANGED vars PROVE ObserversInv'
  BY <1>32
<1> HIDE DEF Sane, TypeOK, StoreTypeOK, TaskTypeOK, ApiTypeOK, HistoryTypeOK,
      InRange, TaskPc, ApiPc, HoldsBlock, PastGenesis, store, task, api, told,
      vars, QuietRescan, Following, HeadIs, ForksInv, ObserversInv,
      AnnouncedLocal, LocalAnnounced, LocalContiguous, AboveOne, Replaced, Top
<1> QED
  BY NextIsAction, <1>1, <1>2, <1>3, <1>4, <1>5, <1>6, <1>7, <1>8, <1>9, <1>10, <1>11, <1>12, <1>13, <1>14, <1>15, <1>16, <1>17, <1>18, <1>19, <1>20, <1>21, <1>22, <1>23, <1>24, <1>25, <1>26, <1>27, <1>28, <1>29, <1>30, <1>31, <1>32
  DEF NextAction

\* ObserversFollowHead, when the chain the scanner first meets has at least two
\* blocks and the head is set only while the scanner is stopped: however often the
\* chain forks, and whenever the task is paused, in the loop the observers know
\* exactly the head's branch.  ForksInv makes the local blocks the head's
\* ancestors; ObserversInv makes the announced blocks the local ones.
THEOREM ObserversFollow ==
  ASSUME ~RescanWhileRunning, StartHeight >= 2
  PROVE  Spec => []ObserversFollowHead
<1> DEFINE Quiet == NoFailure /\ NoRefusal /\ NoCall
           IInv == Sane /\ (Quiet => ForksInv /\ ObserversInv)
<1>1. Init => IInv
  BY SaneInit, ForksInvInit, ObserversInvInit
<1>2. IInv /\ [Next]_vars => IInv'
  <2> SUFFICES ASSUME IInv, [Next]_vars PROVE IInv'
    OBVIOUS
  <2>1. Sane'
    BY SaneStep
  <2>2. \A k \in Kinds : Untouched(k)' => Untouched(k)
    BY UntouchedStep DEF Sane, TypeOK
  <2>3. Quiet' => Quiet
    BY <2>2 DEF NoFailure, NoRefusal, NoCall, Kinds
  <2>4. Quiet' => ForksInv'
    BY <2>1, <2>3, ForksInvStep
  <2>5. Quiet' => ObserversInv'
    BY <2>1, <2>3, ObserversInvStep
  <2> QED
    BY <2>1, <2>4, <2>5
<1>3. IInv => ObserversFollowHead
  <2> SUFFICES ASSUME Sane, ForksInv, ObserversInv, pc = "loop", head.height # 0
               PROVE  /\ \A b \in announced : IsAncestor(b, head.hash)
                      /\ \A h \in base + 1 .. head.height : At(head.hash, h) \in announced
    BY DEF ObserversFollowHead
  <2>1. /\ head.hash \in Blocks /\ Height(head.hash) = head.height /\ Top = head.height
        /\ head.height \in Heights /\ base \in Heights /\ announced \subseteq Blocks
    BY DEF Sane, TypeOK, InRange, StoreTypeOK, HistoryTypeOK, ForksInv, Top
  <2>2. ASSUME NEW b \in announced PROVE IsAncestor(b, head.hash)
    <3>1. b \in Blocks /\ local[Height(b)] = b /\ Height(b) <= head.height /\ Height(b) \in Heights
      BY <2>1, BlockFacts DEF ObserversInv, AnnouncedLocal
    <3>2. b # NoBlock /\ (Height(b) = 0 => b = local[0])
      BY <3>1, BlockFacts
    <3>3. Height(b) # 0
      BY <3>2 DEF ObserversInv, AboveOne
    <3>4. 0 < Height(b)
      BY <3>1, <3>3, BlockFacts
    <3>5. b = At(head.hash, Height(b))
      BY <2>1, <3>1, <3>2, <3>4 DEF ObserversInv, LocalAnnounced
    <3> QED
      BY <2>1, <3>1, <3>5 DEF IsAncestor
  <2>3. ASSUME NEW h \in base + 1 .. head.height PROVE At(head.hash, h) \in announced
    <3>1. h \in Heights /\ base < h /\ h <= head.height /\ 0 < h
      BY <2>1, BlockFacts
    <3>2. local[h] = At(head.hash, h) /\ At(head.hash, h) \in Blocks
      BY <2>1, <3>1, BlockFacts DEF ForksInv
    <3> QED
      BY <2>1, <3>1, <3>2, BlockFacts DEF ObserversInv, LocalAnnounced
  <2> QED
    BY <2>2, <2>3
<1> QED
  BY <1>1, <1>2, <1>3, PTL DEF Spec

----------------------------------------------------------------------------
\* The rescan deletes a record only after a batch that delivered the block,
\* while no observer has refused data.
DeliveredInv == pc = "deleteRecord" => block \in extracted

\* Every step keeps what DeliveredInv says of the block whose record goes.
LEMMA DeliveredInvStep ==
  ASSUME NoRefusal', Sane, DeliveredInv, [Next]_vars
  PROVE  DeliveredInv'
<1>a. ~Spend("observer")
  BY UntouchedStep DEF Sane, TypeOK, NoRefusal, Kinds
<1> USE <1>a
<1> USE DEF Sane, TypeOK, TaskTypeOK, TaskPc, store, task, api, told, vars,
      DeliveredInv
<1>1. ASSUME StartFromHead PROVE DeliveredInv'
  BY <1>1 DEF StartFromHead
<1>2. ASSUME StartFromTip PROVE DeliveredInv'
  BY <1>2 DEF StartFromTip, RpcAnswers, RpcFails
<1>3. ASSUME FetchFirst PROVE DeliveredInv'
  BY <1>3 DEF FetchFirst, RpcAnswers, RpcFails, EndTask, ForgetTask
<1>4. ASSUME Loop PROVE DeliveredInv'
  BY <1>4 DEF Loop, RpcAnswers, RpcFails, LeaveLoop
<1>5. ASSUME LoopPaused PROVE DeliveredInv'
  BY <1>5 DEF LoopPaused, EndTask, ForgetTask
<1>6. ASSUME FetchFails PROVE DeliveredInv'
  BY <1>6 DEF FetchFails
<1>7. ASSUME FetchNext PROVE DeliveredInv'
  BY <1>7 DEF FetchNext
<1>8. ASSUME FetchForked PROVE DeliveredInv'
  BY <1>8 DEF FetchForked
<1>9. ASSUME RewindStep PROVE DeliveredInv'
  BY <1>9 DEF RewindStep, RewindTo, RpcAnswers, RpcFails, LeaveLoop, SaveLocalBlockHead
<1>10. ASSUME ForkNotify PROVE DeliveredInv'
  BY <1>10 DEF ForkNotify, NewBlockNotify
<1>11. ASSUME Extract PROVE DeliveredInv'
  BY <1>11 DEF Extract, BatchExtractTransaction, BatchReturnsNil, BatchReturnsError, Delivered, ObserverRefuses
<1>12. ASSUME SaveHead PROVE DeliveredInv'
  BY <1>12 DEF SaveHead, SaveLocalBlockHead
<1>13. ASSUME SaveBlock PROVE DeliveredInv'
  BY <1>13 DEF SaveBlock
<1>14. ASSUME Notify PROVE DeliveredInv'
  BY <1>14 DEF Notify, NewBlockNotify
<1>15. ASSUME RescanLast PROVE DeliveredInv'
  BY <1>15 DEF RescanLast
<1>16. ASSUME LastExtract PROVE DeliveredInv'
  BY <1>16 DEF LastExtract, BatchExtractTransaction, BatchReturnsNil, BatchReturnsError, Delivered, ObserverRefuses
<1>17. ASSUME ReadUnscanRecords PROVE DeliveredInv'
  BY <1>17 DEF ReadUnscanRecords
<1>18. ASSUME RescanFailed PROVE DeliveredInv'
  BY <1>18 DEF RescanFailed
<1>19. ASSUME FailedExtract PROVE DeliveredInv'
  BY <1>19 DEF FailedExtract, BatchReturnsNil, BatchReturnsError, Delivered, ObserverRefuses
<1>20. ASSUME DeleteRecord PROVE DeliveredInv'
  BY <1>20 DEF DeleteRecord
<1>21. ASSUME TaskEnds PROVE DeliveredInv'
  BY <1>21 DEF TaskEnds, EndTask, ForgetTask
<1>22. ASSUME CallScanBlock PROVE DeliveredInv'
  BY <1>22 DEF CallScanBlock
<1>23. ASSUME ScanBlockExtract PROVE DeliveredInv'
  BY <1>23 DEF ScanBlockExtract, BatchExtractTransaction, BatchReturnsNil, BatchReturnsError, Delivered, ObserverRefuses
<1>24. ASSUME ScanBlockNotify PROVE DeliveredInv'
  BY <1>24 DEF ScanBlockNotify, NewBlockNotify
<1>25. ASSUME CallSetRescanBlockHeight PROVE DeliveredInv'
  BY <1>25 DEF CallSetRescanBlockHeight, TaskIsQuiet
<1>26. ASSUME SetRescanBlockHeightSaves PROVE DeliveredInv'
  BY <1>26 DEF SetRescanBlockHeightSaves, SaveLocalBlockHead
<1>27. ASSUME Grow PROVE DeliveredInv'
  BY <1>27 DEF Grow
<1>28. ASSUME Fork PROVE DeliveredInv'
  BY <1>28 DEF Fork
<1>29. ASSUME Crash PROVE DeliveredInv'
  BY <1>29 DEF Crash, EndTask, ForgetTask
<1>30. ASSUME Run PROVE DeliveredInv'
  BY <1>30 DEF Run
<1>31. ASSUME Pause PROVE DeliveredInv'
  BY <1>31 DEF Pause
<1>32. ASSUME UNCHANGED vars PROVE DeliveredInv'
  BY <1>32
<1> HIDE DEF Sane, TypeOK, TaskTypeOK, TaskPc, store, task, api, told, vars,
      DeliveredInv
<1> QED
  BY NextIsAction, <1>1, <1>2, <1>3, <1>4, <1>5, <1>6, <1>7, <1>8, <1>9, <1>10, <1>11,
      <1>12, <1>13, <1>14, <1>15, <1>16, <1>17, <1>18, <1>19, <1>20, <1>21,
      <1>22, <1>23, <1>24, <1>25, <1>26, <1>27, <1>28, <1>29, <1>30, <1>31,
      <1>32
  DEF NextAction

\* RecordsDropWhenDelivered, whatever the crashes, the failures and the forks.
THEOREM RecordsKept == Spec => RecordsDropWhenDelivered
<1> DEFINE IInv == Sane /\ (NoRefusal => DeliveredInv)
<1>1. Init => IInv
  BY SaneInit DEF Init, DeliveredInv
<1>2. IInv /\ [Next]_vars => IInv'
  <2> SUFFICES ASSUME IInv, [Next]_vars PROVE IInv'
    OBVIOUS
  <2>1. Sane'
    BY SaneStep
  <2>2. NoRefusal' => NoRefusal
    BY UntouchedStep DEF Sane, TypeOK, NoRefusal, Kinds
  <2>3. NoRefusal' => DeliveredInv'
    BY <2>2, DeliveredInvStep
  <2> QED
    BY <2>1, <2>3
<1>3. IInv => (NoRefusal => DropsDelivered)
  BY DEF DeliveredInv, DropsDelivered
<1> QED
  BY <1>1, <1>2, <1>3, PTL DEF Spec, RecordsDropWhenDelivered

----------------------------------------------------------------------------
\* A rescan asked for while the scanner is stopped is what the next task finds:
\* until it starts, the head stands just below the height that was asked for.
AskedInv ==
  /\ QuietRescan
  /\ pc = "first" => head.height = 0
  /\ asked # 0 => pc = "idle" /\ head.height = asked - 1 /\ head.height # 0
  /\ apiPc = "saveHead" => Height(apiBlock) # 0

\* Every step keeps what AskedInv says of a rescan that was asked for.
LEMMA AskedInvStep ==
  ASSUME ~RescanWhileRunning, MinRescanHeight >= 2, Sane, Sane', AskedInv, [Next]_vars
  PROVE  AskedInv'

<1> USE BlockFacts
      DEF Sane, TypeOK, StoreTypeOK, TaskTypeOK, ApiTypeOK, HistoryTypeOK, TaskPc,
      ApiPc, InRange, store, task, api, told, vars, AskedInv, QuietRescan
<1>1. ASSUME StartFromHead PROVE AskedInv'
  BY <1>1 DEF StartFromHead
<1>2. ASSUME StartFromTip PROVE AskedInv'
  BY <1>2 DEF StartFromTip, RpcAnswers, RpcFails
<1>3. ASSUME FetchFirst PROVE AskedInv'
  BY <1>3 DEF FetchFirst, RpcAnswers, RpcFails, EndTask, ForgetTask
<1>4. ASSUME Loop PROVE AskedInv'
  BY <1>4 DEF Loop, RpcAnswers, RpcFails, LeaveLoop
<1>5. ASSUME LoopPaused PROVE AskedInv'
  BY <1>5 DEF LoopPaused, EndTask, ForgetTask
<1>6. ASSUME FetchFails PROVE AskedInv'
  BY <1>6 DEF FetchFails
<1>7. ASSUME FetchNext PROVE AskedInv'
  BY <1>7 DEF FetchNext
<1>8. ASSUME FetchForked PROVE AskedInv'
  BY <1>8 DEF FetchForked
<1>9. ASSUME RewindStep PROVE AskedInv'
  BY <1>9 DEF RewindStep, RewindTo, RpcAnswers, RpcFails, LeaveLoop, SaveLocalBlockHead
<1>10. ASSUME ForkNotify PROVE AskedInv'
  BY <1>10 DEF ForkNotify, NewBlockNotify
<1>11. ASSUME Extract PROVE AskedInv'
  BY <1>11 DEF Extract, BatchExtractTransaction, BatchReturnsNil, BatchReturnsError, Delivered, ObserverRefuses
<1>12. ASSUME SaveHead PROVE AskedInv'
  BY <1>12 DEF SaveHead, SaveLocalBlockHead
<1>13. ASSUME SaveBlock PROVE AskedInv'
  BY <1>13 DEF SaveBlock
<1>14. ASSUME Notify PROVE AskedInv'
  BY <1>14 DEF Notify, NewBlockNotify
<1>15. ASSUME RescanLast PROVE AskedInv'
  BY <1>15 DEF RescanLast
<1>16. ASSUME LastExtract PROVE AskedInv'
  BY <1>16 DEF LastExtract, BatchExtractTransaction, BatchReturnsNil, BatchReturnsError, Delivered, ObserverRefuses
<1>17. ASSUME ReadUnscanRecords PROVE AskedInv'
  BY <1>17 DEF ReadUnscanRecords
<1>18. ASSUME RescanFailed PROVE AskedInv'
  BY <1>18 DEF RescanFailed
<1>19. ASSUME FailedExtract PROVE AskedInv'
  BY <1>19 DEF FailedExtract, BatchReturnsNil, BatchReturnsError, Delivered, ObserverRefuses
<1>20. ASSUME DeleteRecord PROVE AskedInv'
  BY <1>20 DEF DeleteRecord
<1>21. ASSUME TaskEnds PROVE AskedInv'
  BY <1>21 DEF TaskEnds, EndTask, ForgetTask
<1>22. ASSUME CallScanBlock PROVE AskedInv'
  BY <1>22 DEF CallScanBlock
<1>23. ASSUME ScanBlockExtract PROVE AskedInv'
  BY <1>23 DEF ScanBlockExtract, BatchExtractTransaction, BatchReturnsNil, BatchReturnsError, Delivered, ObserverRefuses
<1>24. ASSUME ScanBlockNotify PROVE AskedInv'
  BY <1>24 DEF ScanBlockNotify, NewBlockNotify
<1>25. ASSUME CallSetRescanBlockHeight PROVE AskedInv'
  <2>1. PICK r \in MinRescanHeight .. Height(main) + 1 : r # 0 /\ apiBlock' = At(main, r - 1)
    BY <1>25 DEF CallSetRescanBlockHeight
  <2>2. r - 1 \in Heights /\ r - 1 <= Height(main) /\ r - 1 # 0
    BY <2>1, ScannerAssumption
  <2>3. Height(apiBlock') # 0
    BY <2>1, <2>2
  <2> QED
    BY <1>25, <2>3 DEF CallSetRescanBlockHeight, TaskIsQuiet
<1>26. ASSUME SetRescanBlockHeightSaves PROVE AskedInv'
  BY <1>26 DEF SetRescanBlockHeightSaves, SaveLocalBlockHead
<1>27. ASSUME Grow PROVE AskedInv'
  BY <1>27 DEF Grow
<1>28. ASSUME Fork PROVE AskedInv'
  BY <1>28 DEF Fork
<1>29. ASSUME Crash PROVE AskedInv'
  BY <1>29 DEF Crash, EndTask, ForgetTask
<1>30. ASSUME Run PROVE AskedInv'
  BY <1>30 DEF Run
<1>31. ASSUME Pause PROVE AskedInv'
  BY <1>31 DEF Pause
<1>32. ASSUME UNCHANGED vars PROVE AskedInv'
  BY <1>32
<1> HIDE DEF Sane, TypeOK, StoreTypeOK, TaskTypeOK, ApiTypeOK, HistoryTypeOK, TaskPc,
      ApiPc, InRange, store, task, api, told, vars, AskedInv, QuietRescan
<1> QED
  BY NextIsAction, <1>1, <1>2, <1>3, <1>4, <1>5, <1>6, <1>7, <1>8, <1>9, <1>10, <1>11,
      <1>12, <1>13, <1>14, <1>15, <1>16, <1>17, <1>18, <1>19, <1>20, <1>21,
      <1>22, <1>23, <1>24, <1>25, <1>26, <1>27, <1>28, <1>29, <1>30, <1>31,
      <1>32
  DEF NextAction

\* RescanStartsWhereAsked, when SetRescanBlockHeight is called on a stopped
\* scanner, for a height above 1.
THEOREM RescanAsAsked ==
  ASSUME ~RescanWhileRunning, MinRescanHeight >= 2
  PROVE  Spec => RescanStartsWhereAsked
<1>1. Init => Sane /\ AskedInv
  BY SaneInit DEF Init, AskedInv, QuietRescan
<1>2. Sane /\ AskedInv /\ [Next]_vars => (Sane /\ AskedInv)'
  BY SaneStep, AskedInvStep
<1>3. ASSUME Sane, AskedInv, Next, asked # 0, asked' = 0 PROVE cur' = asked - 1
  <2>1. pc = "idle" /\ head.height = asked - 1 /\ head.height # 0
    BY <1>3 DEF AskedInv
  <2>2. \/ StartFromHead
        \/ asked' = asked
        \/ apiPc = "saveHead" /\ asked' = Height(apiBlock) + 1
    <3>1. CASE ScanBlockTask
      BY <2>1, <3>1 DEF ScanBlockTask, Follow, Rescan, StartFromTip, FetchFirst, Loop, LoopPaused,
        FetchFails, FetchNext, FetchForked, RewindStep, ForkNotify, Extract, SaveHead,
        SaveBlock, Notify, RescanLast, LastExtract, ReadUnscanRecords, RescanFailed,
        FailedExtract, DeleteRecord, TaskEnds
    <3>2. CASE Api
      BY <3>2 DEF Api, ApiReturns, CallScanBlock, ScanBlockExtract, ScanBlockNotify,
        CallSetRescanBlockHeight, SetRescanBlockHeightSaves
    <3>3. CASE Environment
      BY <3>3 DEF Environment, Grow, Fork, Crash, Run, Pause
    <3> QED
      BY <1>3, <3>1, <3>2, <3>3 DEF Next
  <2>3. CASE StartFromHead
    BY <2>1, <2>3 DEF StartFromHead
  <2>4. apiPc = "saveHead" => Height(apiBlock) \in Nat
    BY <1>3, BlockFacts DEF Sane, InRange
  <2> QED
    BY <1>3, <2>2, <2>3, <2>4
<1>4. Sane /\ AskedInv /\ [Next]_vars => (asked # 0 /\ asked' = 0 => cur' = asked - 1)
  BY <1>3 DEF vars
<1> QED
  BY <1>1, <1>2, <1>4, PTL DEF Spec, RescanStartsWhereAsked
=============================================================================
