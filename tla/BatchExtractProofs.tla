------------------------- MODULE BatchExtractProofs -------------------------
(***************************************************************************)
(* Proofs about BatchExtract.tla for any finite sets of calls and          *)
(* transactions and any capacity of the pool.  The inductive invariant is  *)
(* IInv: the channel holds one element per working goroutine, done counts  *)
(* the saved transactions, quit is closed only when all are saved, and     *)
(* what was handled was delivered or recorded.                             *)
(***************************************************************************)
EXTENDS BatchExtract, FiniteSetTheorems, TLAPS

Active == Stages \ {"absent", "saved"}

Counted == \A c \in Caller : done[c] = Cardinality(In(c, {"saved"}))

QuitIsEarned == \A c \in Caller : quit[c] => In(c, Active) = {}

Handled ==
  \A c \in Caller :
    /\ delivered[c] \in SUBSET Block(c)
    /\ In(c, {"counting", "saved"}) \in SUBSET delivered[c] \/ recorded[c]
    /\ failed[c] > 0 => recorded[c]
    /\ result[c] = "error" => recorded[c]

IInv ==
  /\ TypeOK
  /\ TokensConserved
  /\ Counted
  /\ QuitIsEarned
  /\ NothingLeftBehind
  /\ Handled

----------------------------------------------------------------------------
\* What one goroutine's progress does to the sets of transactions.

\* Moving a transaction of one call to a stage changes the sets of that call by
\* this transaction and leaves those of the others alone.
LEMMA InMoves ==
  ASSUME TypeOK, NEW c \in Caller, NEW t \in Tx, NEW s \in Stages, Move(c, t, s),
         NEW CONSTANT S, NEW d \in Caller
  PROVE  In(d, S)' = IF d # c THEN In(d, S)
                     ELSE IF s \in S THEN In(c, S) \cup {t} ELSE In(c, S) \ {t}
BY DEF TypeOK, Move, In

\* A move between two stages of S, or two outside it, leaves the sets alone.
LEMMA InStays ==
  ASSUME TypeOK, NEW c \in Caller, NEW t \in Tx, NEW s \in Stages, Move(c, t, s),
         NEW CONSTANT S, s \in S <=> stage[c][t] \in S
  PROVE  \A d \in Caller : In(d, S)' = In(d, S)
<1>1. \A d \in Caller, u \in Tx : stage'[d][u] \in S <=> stage[d][u] \in S
  BY DEF TypeOK, Move
<1> QED
  BY <1>1 DEF In

\* A transaction that is in its block stays in it, and no other joins.
LEMMA BlockStays ==
  ASSUME TypeOK, NEW c \in Caller, NEW t \in Tx, NEW s \in Stages \ {"absent"},
         Move(c, t, s), stage[c][t] # "absent", NEW d \in Caller
  PROVE  Block(d)' = Block(d)
BY DEF TypeOK, Move, Block, Stages

\* The goroutines that hold a token change by the one that moves.
LEMMA WorkingMoves ==
  ASSUME TypeOK, NEW c \in Caller, NEW t \in Tx, NEW s \in Stages, Move(c, t, s)
  PROVE  Working' = IF s \in {"extracting", "sending"} THEN Working \cup {<<c, t>>}
                    ELSE Working \ {<<c, t>>}
<1> DEFINE W(ct) == stage[ct[1]][ct[2]] \in {"extracting", "sending"}
<1>1. ASSUME NEW d \in Caller, NEW u \in Tx
      PROVE  stage'[d][u] = IF d = c /\ u = t THEN s ELSE stage[d][u]
  BY DEF TypeOK, Move
<1>2. ASSUME NEW ct \in Caller \X Tx
      PROVE  ct \in Working' <=> IF ct = <<c, t>> THEN s \in {"extracting", "sending"}
                                 ELSE ct \in Working
  BY <1>1 DEF Working
<1>3. Working \in SUBSET (Caller \X Tx) /\ Working' \in SUBSET (Caller \X Tx)
  BY DEF Working
<1> QED
  BY <1>2, <1>3

\* All the sets that are counted are finite.
LEMMA SetsAreFinite ==
  /\ IsFiniteSet(Working) /\ Cardinality(Working) \in Nat
  /\ Cardinality(Tx) \in Nat
  /\ \A c \in Caller : IsFiniteSet(Block(c))
  /\ \A c \in Caller : \A S : IsFiniteSet(In(c, S)) /\ Cardinality(In(c, S)) \in 0 .. Cardinality(Tx)
<1>1. IsFiniteSet(Caller \X Tx)
  BY FS_Product, BatchAssumption
<1>2. Working \in SUBSET (Caller \X Tx)
  BY DEF Working
<1>3. IsFiniteSet(Working) /\ Cardinality(Working) \in Nat
  BY <1>1, <1>2, FS_Subset, FS_CardinalityType
<1>4. IsFiniteSet(Tx) /\ Cardinality(Tx) \in Nat
  BY BatchAssumption, FS_CardinalityType
<1>5. ASSUME NEW T \in SUBSET Tx
      PROVE  IsFiniteSet(T) /\ Cardinality(T) \in 0 .. Cardinality(Tx)
  BY <1>4, FS_Subset, FS_CardinalityType
<1>6. \A c \in Caller : Block(c) \in SUBSET Tx
  BY DEF Block
<1>7. \A c \in Caller : \A S : In(c, S) \in SUBSET Tx
  BY DEF In
<1> QED
  BY <1>3, <1>4, <1>5, <1>6, <1>7

----------------------------------------------------------------------------
\* The inductive invariant, one conjunct at a time.

\* An element enters the channel with a goroutine and leaves with it.
LEMMA TokensStep ==
  ASSUME TypeOK, TokensConserved, NothingLeftBehind, [Next]_vars
  PROVE  TokensConserved'
<1>1. Working = Working' /\ tokens' = tokens /\ releasing' = releasing => TokensConserved'
  BY DEF TokensConserved
<1>2. tokens \in Nat /\ releasing \in Nat
  BY BatchAssumption DEF TypeOK
<1>3. ASSUME NEW c \in Caller, NEW t \in Tx, NEW s \in Stages, Move(c, t, s),
             s \in {"extracting", "sending"} <=> stage[c][t] \in {"extracting", "sending"},
             tokens' = tokens, releasing' = releasing
      PROVE  TokensConserved'
  <2>1. <<c, t>> \in Working <=> s \in {"extracting", "sending"}
    BY <1>3 DEF Working
  <2> QED
    BY <1>1, <1>3, <2>1, WorkingMoves
<1>4. ASSUME NEW c \in Caller, NEW B \in SUBSET Tx, BatchExtractTransaction(c, B)
      PROVE  TokensConserved'
  <2>1. \A u \in Tx : stage[c][u] \notin {"extracting", "sending"}
    BY <1>4 DEF BatchExtractTransaction, NothingLeftBehind, In, Stages
  <2>2. \A d \in Caller, u \in Tx :
          stage'[d][u] \in {"extracting", "sending"} <=> stage[d][u] \in {"extracting", "sending"}
    BY <1>4, <2>1 DEF BatchExtractTransaction, TypeOK
  <2>3. Working' = Working
    BY <2>2 DEF Working
  <2> QED
    BY <1>1, <1>4, <2>3 DEF BatchExtractTransaction
<1>5. ASSUME NEW c \in Caller, extractWork(c)
      PROVE  TokensConserved'
  <2>1. PICK t \in In(c, {"waiting"}) : Move(c, t, "extracting")
    BY <1>5 DEF extractWork
  <2>2. t \in Tx /\ stage[c][t] = "waiting"
    BY DEF In
  <2>3. <<c, t>> \notin Working
    BY <2>2 DEF Working
  <2>4. Working' = Working \cup {<<c, t>>}
    BY <2>1, <2>2, WorkingMoves DEF Stages
  <2>5. Cardinality(Working') = Cardinality(Working) + 1
    BY <2>3, <2>4, SetsAreFinite, FS_AddElement
  <2>6. tokens' = tokens + 1 /\ releasing' = releasing
    BY <1>5 DEF extractWork
  <2> QED
    BY <1>2, <2>5, <2>6, SetsAreFinite DEF TokensConserved
<1>6. ASSUME NEW c \in Caller, NEW t \in Tx, Produce(c, t)
      PROVE  TokensConserved'
  <2>1. <<c, t>> \in Working
    BY <1>6 DEF Produce, Working
  <2>2. Working' = Working \ {<<c, t>>}
    BY <1>6, WorkingMoves DEF Produce, Stages
  <2>3. Cardinality(Working') = Cardinality(Working) - 1
    BY <2>1, <2>2, SetsAreFinite, FS_RemoveElement
  <2>4. tokens' = tokens /\ releasing' = releasing + 1
    BY <1>6 DEF Produce
  <2> QED
    BY <1>2, <2>3, <2>4, SetsAreFinite DEF TokensConserved
<1>7. CASE Release
  <2>1. Working' = Working
    BY <1>7 DEF Release, Working
  <2> QED
    BY <1>2, <1>7, <2>1, SetsAreFinite DEF Release, TokensConserved
<1>8. ASSUME NEW c \in Caller, NEW t \in Tx,
             ExtractTransaction(c, t) \/ Consume(c, t) \/ saveWork(c, t)
      PROVE  TokensConserved'
  <2>1. CASE ExtractTransaction(c, t)
    BY <2>1, <1>3 DEF ExtractTransaction, Stages
  <2>2. CASE Consume(c, t)
    BY <2>2, <1>3 DEF Consume, Stages
  <2>3. CASE NotifyAccepted(c, t)
    BY <2>3, <1>3 DEF NotifyAccepted, Stages
  <2>4. CASE NotifyRefused(c, t)
    BY <2>4, <1>3 DEF NotifyRefused, Stages
  <2>5. CASE SaveFailure(c, t)
    BY <2>5, <1>3 DEF SaveFailure, Stages
  <2>6. CASE CountDone(c, t)
    BY <2>6, <1>3 DEF CountDone, Stages
  <2> QED
    BY <1>8, <2>1, <2>2, <2>3, <2>4, <2>5, <2>6 DEF saveWork
<1>9. ASSUME NEW c \in Caller, Quit(c)
      PROVE  TokensConserved'
  <2>1. Working' = Working
    BY <1>9 DEF Quit, Working
  <2> QED
    BY <1>1, <1>9, <2>1 DEF Quit
<1>10. CASE UNCHANGED vars
  <2>1. Working' = Working
    BY <1>10 DEF vars, Working
  <2> QED
    BY <1>1, <1>10, <2>1 DEF vars
<1> QED
  BY <1>4, <1>5, <1>6, <1>7, <1>8, <1>9, <1>10 DEF Next

\* done counts the saved transactions of its call.
LEMMA CountedStep ==
  ASSUME TypeOK, Counted, [Next]_vars
  PROVE  Counted'
<1>1. \A c \in Caller : done[c] \in Nat
  BY SetsAreFinite DEF TypeOK
<1>2. ASSUME NEW c \in Caller, NEW t \in Tx, NEW s \in Stages \ {"saved"}, Move(c, t, s),
             stage[c][t] # "saved", done' = done
      PROVE  Counted'
  <2>1. ASSUME NEW d \in Caller PROVE In(d, {"saved"})' = In(d, {"saved"})
    <3>1. t \notin In(c, {"saved"})
      BY <1>2 DEF In
    <3> QED
      BY <1>2, <3>1, InMoves
  <2> QED
    BY <1>2, <2>1 DEF Counted
<1>3. ASSUME NEW c \in Caller, NEW B \in SUBSET Tx, BatchExtractTransaction(c, B)
      PROVE  Counted'
  <2>1. ASSUME NEW d \in Caller
        PROVE  In(d, {"saved"})' = IF d = c THEN {} ELSE In(d, {"saved"})
    BY <1>3 DEF BatchExtractTransaction, In, TypeOK
  <2>2. \A d \in Caller : done'[d] = IF d = c THEN 0 ELSE done[d]
    BY <1>3 DEF BatchExtractTransaction, TypeOK
  <2> QED
    BY <2>1, <2>2, FS_EmptySet DEF Counted
<1>4. ASSUME NEW c \in Caller, NEW t \in Tx, CountDone(c, t)
      PROVE  Counted'
  <2>1. t \notin In(c, {"saved"})
    BY <1>4 DEF CountDone, In
  <2>2. ASSUME NEW d \in Caller
        PROVE  In(d, {"saved"})' = IF d = c THEN In(d, {"saved"}) \cup {t} ELSE In(d, {"saved"})
    <3>1. Move(c, t, "saved") /\ "saved" \in Stages /\ "saved" \in {"saved"}
      BY <1>4 DEF CountDone, Stages
    <3> QED
      BY <3>1, InMoves
  <2>3. Cardinality(In(c, {"saved"}) \cup {t}) = Cardinality(In(c, {"saved"})) + 1
    BY <2>1, SetsAreFinite, FS_AddElement
  <2>4. \A d \in Caller : done'[d] = IF d = c THEN done[d] + 1 ELSE done[d]
    BY <1>4 DEF CountDone, TypeOK
  <2> QED
    BY <2>2, <2>3, <2>4 DEF Counted
<1>5. ASSUME NEW c \in Caller, extractWork(c)
      PROVE  Counted'
  <2>1. PICK t \in In(c, {"waiting"}) : Move(c, t, "extracting")
    BY <1>5 DEF extractWork
  <2>2. t \in Tx /\ stage[c][t] = "waiting"
    BY DEF In
  <2> QED
    BY <1>2, <1>5, <2>1, <2>2 DEF extractWork, Stages
<1>6. ASSUME NEW c \in Caller, NEW t \in Tx,
             ExtractTransaction(c, t) \/ Produce(c, t) \/ Consume(c, t)
             \/ NotifyAccepted(c, t) \/ NotifyRefused(c, t) \/ SaveFailure(c, t)
      PROVE  Counted'
  <2>1. CASE ExtractTransaction(c, t)
    BY <2>1, <1>2 DEF ExtractTransaction, Stages
  <2>2. CASE Produce(c, t)
    BY <2>2, <1>2 DEF Produce, Stages
  <2>3. CASE Consume(c, t)
    BY <2>3, <1>2 DEF Consume, Stages
  <2>4. CASE NotifyAccepted(c, t)
    BY <2>4, <1>2 DEF NotifyAccepted, Stages
  <2>5. CASE NotifyRefused(c, t)
    BY <2>5, <1>2 DEF NotifyRefused, Stages
  <2>6. CASE SaveFailure(c, t)
    BY <2>6, <1>2 DEF SaveFailure, Stages
  <2> QED
    BY <1>6, <2>1, <2>2, <2>3, <2>4, <2>5, <2>6
<1>7. CASE Release \/ (\E c \in Caller : Quit(c)) \/ UNCHANGED vars
  BY <1>7 DEF Release, Quit, vars, Counted, In
<1> QED
  BY <1>3, <1>4, <1>5, <1>6, <1>7 DEF Next, saveWork

\* Subsets of the calls' transactions are finite, in this state or the next.
LEMMA SubsetsAreFinite ==
  /\ \A W \in SUBSET (Caller \X Tx) : Cardinality(W) \in Nat
  /\ \A T \in SUBSET Tx : Cardinality(T) \in 0 .. Cardinality(Tx)
  /\ Cardinality(Tx) \in Nat
<1>1. IsFiniteSet(Caller \X Tx) /\ IsFiniteSet(Tx)
  BY FS_Product, BatchAssumption
<1> QED
  BY <1>1, FS_Subset, FS_CardinalityType

\* The counters stay in their bounds: tokens and releasing because of
\* TokensConserved and the guard of extractWork, done because of Counted.
LEMMA CountersStep ==
  ASSUME TypeOK, TokensConserved', Counted', [Next]_vars
  PROVE  /\ done' \in [Caller -> 0 .. Cardinality(Tx)]
         /\ tokens' \in 0 .. maxExtractingSize
         /\ releasing' \in 0 .. maxExtractingSize
<1>1. done' = [c \in Caller |-> done'[c]]
  BY DEF TypeOK, Next, vars, BatchExtractTransaction, extractWork, saveWork, Release, Quit,
         ExtractTransaction, Produce, Consume, NotifyAccepted, NotifyRefused, SaveFailure, CountDone
<1>2. ASSUME NEW c \in Caller PROVE done'[c] \in 0 .. Cardinality(Tx)
  <2>1. In(c, {"saved"})' \in SUBSET Tx
    BY DEF In
  <2> QED
    BY <2>1, SubsetsAreFinite DEF Counted
<1>3. Cardinality(Working') \in Nat
  <2>1. Working' \in SUBSET (Caller \X Tx)
    BY DEF Working
  <2> QED
    BY <2>1, SubsetsAreFinite
<1>4. releasing' \in Nat /\ tokens' \in Int /\ tokens' <= maxExtractingSize
  BY BatchAssumption
  DEF TypeOK, Next, vars, BatchExtractTransaction, extractWork, saveWork, Release, Quit,
      ExtractTransaction, Produce, Consume, NotifyAccepted, NotifyRefused, SaveFailure, CountDone
<1> QED
  BY <1>1, <1>2, <1>3, <1>4, BatchAssumption DEF TokensConserved

\* Every step keeps the types.
LEMMA TypeStep ==
  ASSUME TypeOK, TokensConserved', Counted', [Next]_vars
  PROVE  TypeOK'
<1> USE CountersStep
<1>1. ASSUME NEW c \in Caller, NEW B \in SUBSET Tx, BatchExtractTransaction(c, B)
      PROVE  TypeOK'
  BY <1>1 DEF BatchExtractTransaction, TypeOK, Stages
<1>2. ASSUME NEW c \in Caller, extractWork(c)
      PROVE  TypeOK'
  BY <1>2 DEF extractWork, Move, In, TypeOK, Stages
<1>3. ASSUME NEW c \in Caller, NEW t \in Tx, ExtractTransaction(c, t)
      PROVE  TypeOK'
  <2>1. good' \in [Caller -> SUBSET Tx]
    <3>1. [good EXCEPT ![c] = @ \cup {t}] \in [Caller -> SUBSET Tx]
      BY DEF TypeOK
    <3> QED
      BY <1>3, <3>1 DEF ExtractTransaction, TypeOK
  <2>2. stage' \in [Caller -> [Tx -> Stages]]
    BY <1>3 DEF ExtractTransaction, Move, TypeOK, Stages
  <2> QED
    BY <1>3, <2>1, <2>2 DEF ExtractTransaction, TypeOK
<1>4. ASSUME NEW c \in Caller, NEW t \in Tx, Produce(c, t)
      PROVE  TypeOK'
  BY <1>4 DEF Produce, Move, TypeOK, Stages
<1>5. ASSUME NEW c \in Caller, NEW t \in Tx, Consume(c, t)
      PROVE  TypeOK'
  BY <1>5 DEF Consume, Move, TypeOK, Stages
<1>6. ASSUME NEW c \in Caller, NEW t \in Tx, NotifyAccepted(c, t)
      PROVE  TypeOK'
  BY <1>6 DEF NotifyAccepted, Move, TypeOK, Stages
<1>7. ASSUME NEW c \in Caller, NEW t \in Tx, NotifyRefused(c, t)
      PROVE  TypeOK'
  BY <1>7 DEF NotifyRefused, Move, TypeOK, Stages
<1>8. ASSUME NEW c \in Caller, NEW t \in Tx, SaveFailure(c, t)
      PROVE  TypeOK'
  BY <1>8 DEF SaveFailure, Move, TypeOK, Stages
<1>9. ASSUME NEW c \in Caller, NEW t \in Tx, CountDone(c, t)
      PROVE  TypeOK'
  BY <1>9 DEF CountDone, Move, TypeOK, Stages
<1>10. CASE Release
  BY <1>10 DEF Release, TypeOK
<1>11. ASSUME NEW c \in Caller, Quit(c)
      PROVE  TypeOK'
  BY <1>11 DEF Quit, TypeOK
<1>12. CASE UNCHANGED vars
  BY <1>12 DEF vars, TypeOK
<1> QED
  BY <1>1, <1>2, <1>3, <1>4, <1>5, <1>6, <1>7, <1>8, <1>9, <1>10, <1>11, <1>12 DEF Next, saveWork

\* The goroutine of one transaction makes a step.
Moves(c, t) ==
  /\ stage[c][t] \in Active
  /\ \E s \in Active \cup {"saved"} : Move(c, t, s)
  /\ pc' = pc
  /\ quit' = quit \/ CountDone(c, t)

\* A step is a call, a step of one goroutine, a return, or a release.
LEMMA StepKinds ==
  ASSUME Next
  PROVE  \/ \E c \in Caller : \E B \in SUBSET Tx : BatchExtractTransaction(c, B)
         \/ \E c \in Caller : \E t \in Tx : Moves(c, t)
         \/ \E c \in Caller : Quit(c)
         \/ Release
<1>1. ASSUME NEW c \in Caller, extractWork(c)
      PROVE  \E t \in Tx : Moves(c, t)
  BY <1>1 DEF extractWork, In, Moves, Active, Stages
<1>2. ASSUME NEW c \in Caller, NEW t \in Tx, ExtractTransaction(c, t)
      PROVE  Moves(c, t)
  BY <1>2 DEF ExtractTransaction, Moves, Active, Stages
<1>3. ASSUME NEW c \in Caller, NEW t \in Tx, Produce(c, t)
      PROVE  Moves(c, t)
  BY <1>3 DEF Produce, Moves, Active, Stages
<1>4. ASSUME NEW c \in Caller, NEW t \in Tx, Consume(c, t)
      PROVE  Moves(c, t)
  BY <1>4 DEF Consume, Moves, Active, Stages
<1>5. ASSUME NEW c \in Caller, NEW t \in Tx, NotifyAccepted(c, t)
      PROVE  Moves(c, t)
  BY <1>5 DEF NotifyAccepted, Moves, Active, Stages
<1>6. ASSUME NEW c \in Caller, NEW t \in Tx, NotifyRefused(c, t)
      PROVE  Moves(c, t)
  BY <1>6 DEF NotifyRefused, Moves, Active, Stages
<1>7. ASSUME NEW c \in Caller, NEW t \in Tx, SaveFailure(c, t)
      PROVE  Moves(c, t)
  BY <1>7 DEF SaveFailure, Moves, Active, Stages
<1>8. ASSUME NEW c \in Caller, NEW t \in Tx, CountDone(c, t)
      PROVE  Moves(c, t)
  BY <1>8 DEF CountDone, Moves, Active, Stages
<1> QED
  BY <1>1, <1>2, <1>3, <1>4, <1>5, <1>6, <1>7, <1>8 DEF Next, saveWork

\* A goroutine's step leaves the sets of the other calls alone, and its own
\* transaction is active before it.
LEMMA MovesOne ==
  ASSUME TypeOK, NEW c \in Caller, NEW t \in Tx, Moves(c, t)
  PROVE  /\ t \in In(c, Active)
         /\ \A d \in Caller \ {c} : stage'[d] = stage[d]
         /\ \A d \in Caller : Block(d)' = Block(d)
<1>1. PICK s \in Active \cup {"saved"} : Move(c, t, s)
  BY DEF Moves
<1>2. t \in In(c, Active) /\ stage[c][t] # "absent"
  BY DEF Moves, In, Active
<1>3. \A d \in Caller \ {c} : stage'[d] = stage[d]
  BY <1>1 DEF Move, TypeOK
<1>4. \A d \in Caller : Block(d)' = Block(d)
  BY <1>1, <1>2, BlockStays DEF Active, Stages
<1> QED
  BY <1>2, <1>3, <1>4

\* quit is closed when the saved transactions are as many as the block has,
\* and so are the block; no transaction of the call moves after that.
LEMMA QuitStep ==
  ASSUME TypeOK, Counted', QuitIsEarned, [Next]_vars
  PROVE  QuitIsEarned'
<1>1. ASSUME NEW c \in Caller, NEW B \in SUBSET Tx, BatchExtractTransaction(c, B)
      PROVE  QuitIsEarned'
  <2>1. \A d \in Caller : d # c => stage'[d] = stage[d] /\ quit'[d] = quit[d]
    BY <1>1 DEF BatchExtractTransaction, TypeOK
  <2>2. ~quit'[c]
    BY <1>1 DEF BatchExtractTransaction, TypeOK
  <2> QED
    BY <2>1, <2>2 DEF QuitIsEarned, In
<1>2. ASSUME NEW c \in Caller, NEW t \in Tx, Moves(c, t)
      PROVE  QuitIsEarned'
  <2>1. t \in In(c, Active) /\ ~quit[c]
    BY <1>2, MovesOne DEF QuitIsEarned
  <2>2. \A d \in Caller : d # c => quit'[d] = quit[d] /\ In(d, Active)' = In(d, Active)
    BY <1>2, MovesOne DEF Moves, CountDone, In, TypeOK
  <2>3. CASE quit' = quit
    BY <2>1, <2>2, <2>3 DEF QuitIsEarned
  <2>4. CASE CountDone(c, t)
    <3>1. ASSUME quit'[c]
          PROVE  In(c, Active)' = {}
      <4>1. done'[c] = Cardinality(Block(c)) /\ Block(c)' = Block(c)
        BY <1>2, <2>1, <2>4, <3>1, MovesOne DEF CountDone, shouldDone, TypeOK
      <4>2. Cardinality(In(c, {"saved"})') = Cardinality(Block(c))
        BY <4>1 DEF Counted
      <4>3. In(c, {"saved"})' \in SUBSET Block(c)
        BY <4>1 DEF In, Block
      <4>4. In(c, {"saved"})' = Block(c)'
        BY <4>1, <4>2, <4>3, SetsAreFinite, FS_Subset
      <4> QED
        BY <4>4 DEF In, Block, Active
    <3> QED
      BY <2>1, <2>2, <3>1 DEF QuitIsEarned
  <2> QED
    BY <1>2, <2>3, <2>4 DEF Moves
<1>3. CASE Release \/ (\E c \in Caller : Quit(c)) \/ UNCHANGED vars
  BY <1>3 DEF Release, Quit, vars, QuitIsEarned, In
<1> QED
  BY <1>1, <1>2, <1>3, StepKinds

\* While a call is not running, none of its transactions moves, and it returns
\* only when quit is closed.
LEMMA NothingLeftStep ==
  ASSUME TypeOK, QuitIsEarned, NothingLeftBehind, [Next]_vars
  PROVE  NothingLeftBehind'
<1> USE DEF Active
<1>1. ASSUME NEW c \in Caller, NEW B \in SUBSET Tx, BatchExtractTransaction(c, B)
      PROVE  NothingLeftBehind'
  <2>1. \A d \in Caller : d # c => stage'[d] = stage[d] /\ pc'[d] = pc[d]
    BY <1>1 DEF BatchExtractTransaction, TypeOK
  <2>2. pc'[c] # "running" => stage'[c] = [t \in Tx |-> "absent"]
    BY <1>1 DEF BatchExtractTransaction, TypeOK
  <2>3. \A t \in Tx : pc'[c] # "running" => stage'[c][t] = "absent"
    BY <2>2
  <2> QED
    BY <2>1, <2>3 DEF NothingLeftBehind, In
<1>2. ASSUME NEW c \in Caller, NEW t \in Tx, Moves(c, t)
      PROVE  NothingLeftBehind'
  <2>1. pc[c] = "running" /\ pc' = pc
    BY <1>2, MovesOne DEF NothingLeftBehind, Moves
  <2>2. \A d \in Caller \ {c} : In(d, Active)' = In(d, Active)
    BY <1>2, MovesOne DEF In
  <2> QED
    BY <2>1, <2>2 DEF NothingLeftBehind
<1>3. ASSUME NEW c \in Caller, Quit(c)
      PROVE  NothingLeftBehind'
  <2>1. In(c, Active) = {} /\ stage' = stage
    BY <1>3 DEF Quit, QuitIsEarned
  <2>2. \A d \in Caller : d # c => pc'[d] = pc[d]
    BY <1>3 DEF Quit, TypeOK
  <2> QED
    BY <2>1, <2>2 DEF NothingLeftBehind, In
<1>4. CASE Release \/ UNCHANGED vars
  BY <1>4 DEF Release, vars, NothingLeftBehind, In
<1> QED
  BY <1>1, <1>2, <1>3, <1>4, StepKinds

\* What saveWork has taken is delivered or its block recorded, and whoever counts
\* a failure has recorded it first.
LEMMA HandledStep ==
  ASSUME TypeOK, Handled, [Next]_vars
  PROVE  Handled'
<1>1. ASSUME NEW c \in Caller, NEW B \in SUBSET Tx, BatchExtractTransaction(c, B)
      PROVE  Handled'
  <2>1. \A d \in Caller : d # c =>
          /\ stage'[d] = stage[d] /\ delivered'[d] = delivered[d]
          /\ recorded'[d] = recorded[d] /\ failed'[d] = failed[d] /\ result'[d] = result[d]
    BY <1>1 DEF BatchExtractTransaction, TypeOK
  <2>2. /\ delivered'[c] = {} /\ failed'[c] = 0 /\ result'[c] # "error"
        /\ \A t \in Tx : stage'[c][t] \in {"waiting", "absent"}
    BY <1>1 DEF BatchExtractTransaction, TypeOK
  <2>3. In(c, {"counting", "saved"})' = {}
    BY <2>2 DEF In
  <2> QED
    BY <2>1, <2>2, <2>3 DEF Handled, In, Block
<1>2. ASSUME NEW c \in Caller, NEW t \in Tx, Moves(c, t),
             delivered' = delivered, recorded' = recorded, failed' = failed, result' = result,
             In(c, {"counting", "saved"})' = In(c, {"counting", "saved"})
      PROVE  Handled'
  <2>1. \A d \in Caller : Block(d)' = Block(d)
    BY <1>2, MovesOne
  <2>2. \A d \in Caller : In(d, {"counting", "saved"})' = In(d, {"counting", "saved"})
    BY <1>2, MovesOne DEF In
  <2> QED
    BY <1>2, <2>1, <2>2 DEF Handled
<1>3. ASSUME NEW c \in Caller, extractWork(c)
      PROVE  Handled'
  <2>1. PICK t \in In(c, {"waiting"}) : Move(c, t, "extracting")
    BY <1>3 DEF extractWork
  <2>2. t \in Tx /\ stage[c][t] = "waiting"
    BY DEF In
  <2>3. In(c, {"counting", "saved"})' = In(c, {"counting", "saved"})
    BY <2>1, <2>2, InStays DEF Stages
  <2>4. Moves(c, t)
    BY <1>3, <2>1, <2>2 DEF extractWork, Moves, Active, Stages
  <2> QED
    BY <1>2, <1>3, <2>2, <2>3, <2>4 DEF extractWork
<1>4. ASSUME NEW c \in Caller, NEW t \in Tx,
             ExtractTransaction(c, t) \/ Produce(c, t) \/ Consume(c, t) \/ CountDone(c, t)
      PROVE  Handled'
  <2>1. Moves(c, t)
    BY <1>4 DEF ExtractTransaction, Produce, Consume, CountDone, Moves, Active, Stages
  <2>2. In(c, {"counting", "saved"})' = In(c, {"counting", "saved"})
    <3>1. \E s \in {"sending", "queued", "saving", "saved"} :
            /\ Move(c, t, s)
            /\ s \in {"counting", "saved"} <=> stage[c][t] \in {"counting", "saved"}
      BY <1>4 DEF ExtractTransaction, Produce, Consume, CountDone
    <3> QED
      BY <3>1, InStays DEF Stages
  <2> QED
    BY <1>2, <1>4, <2>1, <2>2 DEF ExtractTransaction, Produce, Consume, CountDone
<1>5. ASSUME NEW c \in Caller, NEW t \in Tx,
             NotifyAccepted(c, t) \/ NotifyRefused(c, t) \/ SaveFailure(c, t)
      PROVE  Handled'
  <2>1. Moves(c, t) /\ Move(c, t, "counting") /\ result' = result
    BY <1>5 DEF NotifyAccepted, NotifyRefused, SaveFailure, Moves, Active, Stages
  <2>2. t \in Block(c) /\ \A d \in Caller : Block(d)' = Block(d)
    BY <2>1, MovesOne DEF Moves, Active, Block
  <2>3. In(c, {"counting", "saved"})' = In(c, {"counting", "saved"}) \cup {t}
    BY <2>1, InMoves DEF Stages
  <2>4. \A d \in Caller : d # c =>
          In(d, {"counting", "saved"})' = In(d, {"counting", "saved"})
    BY <2>1, MovesOne DEF In
  <2>5. CASE NotifyAccepted(c, t)
    <3>1. /\ recorded' = recorded /\ failed' = failed
          /\ \A d \in Caller : delivered'[d] = IF d = c THEN delivered[d] \cup {t} ELSE delivered[d]
      BY <2>5 DEF NotifyAccepted, TypeOK
    <3> QED
      BY <2>1, <2>2, <2>3, <2>4, <3>1 DEF Handled
  <2>6. CASE NotifyRefused(c, t) \/ SaveFailure(c, t)
    <3>1. /\ delivered' = delivered
          /\ recorded'[c]
          /\ \A d \in Caller : d # c => recorded'[d] = recorded[d] /\ failed'[d] = failed[d]
      BY <2>6 DEF NotifyRefused, SaveFailure, TypeOK
    <3> QED
      BY <2>1, <2>2, <2>4, <3>1 DEF Handled
  <2> QED
    BY <1>5, <2>5, <2>6
<1>6. ASSUME NEW c \in Caller, Quit(c)
      PROVE  Handled'
  <2>1. /\ stage' = stage /\ delivered' = delivered /\ recorded' = recorded /\ failed' = failed
        /\ \A d \in Caller : result'[d] = "error" => result[d] = "error" \/ failed[d] > 0
    BY <1>6 DEF Quit, TypeOK
  <2> QED
    BY <2>1 DEF Handled, In, Block
<1>7. CASE Release \/ UNCHANGED vars
  BY <1>7 DEF Release, vars, Handled, In, Block
<1> QED
  BY <1>1, <1>3, <1>4, <1>5, <1>6, <1>7 DEF Next, saveWork

----------------------------------------------------------------------------
\* Theorems.

\* No call runs at first, and no element is in the channel.
LEMMA InitIInv == Init => IInv
<1> SUFFICES ASSUME Init PROVE IInv
  OBVIOUS
<1>1. \A c \in Caller : \A t \in Tx : stage[c][t] = "absent"
  BY DEF Init
<1>2. Working = {} /\ \A c \in Caller : \A S : "absent" \notin S => In(c, S) = {}
  BY <1>1 DEF Working, In
<1>3. TypeOK
  BY SetsAreFinite, BatchAssumption DEF Init, TypeOK, Stages
<1>4. TokensConserved
  BY <1>2, FS_EmptySet DEF Init, TokensConserved
<1>5. Counted /\ QuitIsEarned /\ NothingLeftBehind
  BY <1>2, FS_EmptySet DEF Init, Counted, QuitIsEarned, NothingLeftBehind, Active
<1>6. Handled
  BY <1>2 DEF Init, Handled
<1> QED
  BY <1>3, <1>4, <1>5, <1>6 DEF IInv

\* IInv is inductive.
LEMMA NextIInv == IInv /\ [Next]_vars => IInv'
BY TokensStep, CountedStep, TypeStep, QuitStep, NothingLeftStep, HandledStep DEF IInv

\* IInv holds in every state.
THEOREM Invariance == Spec => []IInv
BY InitIInv, NextIInv, PTL DEF Spec

\* Type correctness; the bounds on the counters are those of the code's channel
\* and loop (lines 321-326, 372-379).
THEOREM TypeCorrect == Spec => []TypeOK
<1>1. IInv => TypeOK
  BY DEF IInv
<1> QED
  BY <1>1, Invariance, PTL

\* The pool never leaks an element, whatever the calls and their failures.
THEOREM PoolIsConserved == Spec => []TokensConserved
<1>1. IInv => TokensConserved
  BY DEF IInv
<1> QED
  BY <1>1, Invariance, PTL

\* No goroutine of a call survives its return, so none sends on a channel that
\* the return has closed.
THEOREM NoGoroutineLeft == Spec => []NothingLeftBehind
<1>1. IInv => NothingLeftBehind
  BY DEF IInv
<1> QED
  BY <1>1, Invariance, PTL

\* A returned call has delivered its block or left a record for it.
THEOREM NoSilentLoss == Spec => []LostMeansRecorded
<1>1. ASSUME IInv, NEW c \in Caller, pc[c] = "returned"
      PROVE  /\ delivered[c] = Block(c) \/ recorded[c]
             /\ result[c] = "error" => recorded[c]
  <2>1. In(c, Active) = {}
    BY <1>1 DEF IInv, NothingLeftBehind, Active
  <2>2. Block(c) \in SUBSET In(c, {"counting", "saved"})
    BY <1>1, <2>1 DEF Block, In, Active, IInv, TypeOK
  <2> QED
    BY <1>1, <2>2 DEF IInv, Handled
<1>2. IInv => LostMeansRecorded
  BY <1>1 DEF LostMeansRecorded
<1> QED
  BY <1>2, Invariance, PTL

----------------------------------------------------------------------------
\* Refinement of BatchContract.

\* The stages of the transactions saveWork has still to handle, and the value
\* the contract's variable left takes.
Unhandled == Stages \ {"absent", "counting", "saved"}

Left == [c \in Caller |-> In(c, Unhandled)]

\* A step that handles no transaction and does not return is a stutter.
LEMMA Stutters ==
  ASSUME Left' = Left, failed' = failed,
         UNCHANGED <<pc, delivered, recorded, result>>
  PROVE  UNCHANGED Contract!vars
BY DEF Contract!vars, Left, Unhandled

\* Initial states are the contract's.
LEMMA InitRefines == Init => Contract!Init
<1> SUFFICES ASSUME Init PROVE Contract!Init
  OBVIOUS
<1>1. \A c \in Caller : In(c, Unhandled) = {}
  BY DEF Init, In, Unhandled
<1>2. Left = [c \in Caller |-> {}]
  BY <1>1 DEF Left
<1> QED
  BY <1>2 DEF Init, Contract!Init, Left, Unhandled

\* saveWork takes one transaction out of those left.
LEMMA OneIsHandled ==
  ASSUME TypeOK, NEW c \in Caller, NEW t \in Tx, stage[c][t] = "saving", Move(c, t, "counting")
  PROVE  t \in Left[c] /\ Left' = [Left EXCEPT ![c] = @ \ {t}]
<1>1. \A d \in Caller :
        In(d, Unhandled)' = IF d = c THEN In(d, Unhandled) \ {t} ELSE In(d, Unhandled)
  BY InMoves DEF Stages, Unhandled
<1>2. t \in In(c, Unhandled)
  BY DEF In, Unhandled, Stages
<1> QED
  BY <1>1, <1>2 DEF Left

\* Every step of the goroutines is a step of the contract or a stutter.
LEMMA StepRefines ==
  ASSUME TypeOK, QuitIsEarned, [Next]_vars
  PROVE  [Contract!Next]_(Contract!vars)
<1> USE DEF Contract!Next
<1>1. ASSUME NEW c \in Caller, NEW B \in SUBSET Tx, BatchExtractTransaction(c, B)
      PROVE  Contract!Next
  <2>1. \A d \in Caller : In(d, Unhandled)' = IF d = c THEN B ELSE In(d, Unhandled)
    <3>1. \A d \in Caller, t \in Tx :
            stage'[d][t] = IF d # c THEN stage[d][t]
                           ELSE IF t \in B THEN "waiting" ELSE "absent"
      BY <1>1 DEF BatchExtractTransaction, TypeOK
    <3> QED
      BY <3>1 DEF In, Unhandled, Stages
  <2>2. Left' = [Left EXCEPT ![c] = B]
    BY <2>1 DEF Left
  <2>3. Contract!Call(c, B)
    BY <1>1, <2>2 DEF BatchExtractTransaction, Contract!Call, Left, Unhandled
  <2> QED
    BY <2>3
<1>2. ASSUME NEW c \in Caller, NEW t \in Tx, NotifyAccepted(c, t)
      PROVE  Contract!Next
  <2>1. t \in Left[c] /\ Left' = [Left EXCEPT ![c] = @ \ {t}]
    BY <1>2, OneIsHandled DEF NotifyAccepted
  <2>2. Contract!Deliver(c, t)
    BY <1>2, <2>1 DEF NotifyAccepted, Contract!Deliver, Left, Unhandled
  <2> QED
    BY <2>2
<1>3. ASSUME NEW c \in Caller, NEW t \in Tx, NotifyRefused(c, t)
      PROVE  Contract!Next
  <2>1. t \in Left[c] /\ Left' = [Left EXCEPT ![c] = @ \ {t}]
    BY <1>3, OneIsHandled DEF NotifyRefused
  <2>2. Contract!Refuse(c, t)
    BY <1>3, <2>1 DEF NotifyRefused, Contract!Refuse, Left, Unhandled
  <2> QED
    BY <2>2
<1>4. ASSUME NEW c \in Caller, NEW t \in Tx, SaveFailure(c, t)
      PROVE  Contract!Next
  <2>1. t \in Left[c] /\ Left' = [Left EXCEPT ![c] = @ \ {t}]
    BY <1>4, OneIsHandled DEF SaveFailure
  <2>2. Contract!Fail(c, t)
    BY <1>4, <2>1 DEF SaveFailure, Contract!Fail, Left, Unhandled
  <2> QED
    BY <2>2
<1>5. ASSUME NEW c \in Caller, Quit(c)
      PROVE  Contract!Next
  <2>1. In(c, Unhandled) = {}
    BY <1>5 DEF Quit, QuitIsEarned, In, Unhandled, Active
  <2>2. Left' = Left
    BY <1>5 DEF Quit, Left, In
  <2>3. Contract!Return(c)
    BY <1>5, <2>1, <2>2 DEF Quit, Contract!Return, Left, Unhandled, TypeOK
  <2> QED
    BY <2>3
<1>6. ASSUME NEW c \in Caller, NEW t \in Tx, NEW s \in Stages, Move(c, t, s),
             s \in Unhandled <=> stage[c][t] \in Unhandled, failed' = failed,
             UNCHANGED <<pc, delivered, recorded, result>>
      PROVE  UNCHANGED Contract!vars
  <2>1. Left' = Left
    BY <1>6, InStays DEF Left
  <2> QED
    BY <1>6, <2>1, Stutters
<1>7. ASSUME NEW c \in Caller, extractWork(c)
      PROVE  UNCHANGED Contract!vars
  BY <1>6, <1>7 DEF extractWork, In, Stages, Unhandled
<1>8. ASSUME NEW c \in Caller, NEW t \in Tx,
             ExtractTransaction(c, t) \/ Produce(c, t) \/ Consume(c, t) \/ CountDone(c, t)
      PROVE  UNCHANGED Contract!vars
  BY <1>6, <1>8 DEF ExtractTransaction, Produce, Consume, CountDone, Stages, Unhandled
<1>9. CASE Release \/ UNCHANGED vars
  <2>1. Left' = Left
    BY <1>9 DEF Release, vars, Left, In
  <2> QED
    BY <1>9, <2>1, Stutters DEF Release, vars
<1> QED
  BY <1>1, <1>2, <1>3, <1>4, <1>5, <1>7, <1>8, <1>9 DEF Next, saveWork

\* BatchExtractTransaction keeps the contract its callers rely on, whatever the
\* interleaving of its goroutines (lines 317-439).
THEOREM Refinement == Spec => KeepsContract
<1>1. IInv /\ [Next]_vars => [Contract!Next]_(Contract!vars)
  BY StepRefines DEF IInv
<1> QED
  BY <1>1, InitRefines, Invariance, PTL DEF Spec, KeepsContract, Contract!Spec
=============================================================================
