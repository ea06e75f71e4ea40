---------------------------- MODULE RpcClientProofs ----------------------------
(***************************************************************************)
(* Proofs about the RPC client, for any number of threads, loads of the    *)
(* configuration and timeout.                                              *)
(***************************************************************************)
EXTENDS RpcClient, FiniteSetTheorems, TLAPS

----------------------------------------------------------------------------
\* What the proofs keep of each call and each client.

\* A call that dials or writes has a client; one that writes has dialled, and
\* what it has no longer to write is written.
Writing(t) ==
  /\ pc[t] \in {"check", "dial", "store"} => client[t] \in Clients
  /\ pc[t] = "store" =>
       /\ conns[client[t]] > 0
       /\ "itab" \in unstored[t] \/ client[t] \in itab
       /\ "stub" \in unstored[t] \/ client[t] \in stub
       /\ "timeout" \in unstored[t] \/ client[t] \in timeout

\* A call past connect uses a client that is not nil.
Using(t) == pc[t] \in {"context", "invoke", "wait"} => client[t] \in itab

\* A client with a word has been dialled.
Dialled == \A c \in itab \cup stub \cup timeout : conns[c] > 0

\* The two properties, of one thread.
IsSettled(t) ==
  settled[t] => /\ Connected(client[t])
                /\ pc[t] \notin {"dial", "store"}
                /\ pc[t] = "panicked" => ~serves

IsExplained(t) ==
  pc[t] = "panicked" => client[t] = 0 \/ ~serves \/ (~settled[t] /\ conns[client[t]] > 0)

IInv == /\ TypeOK /\ Dialled
        /\ \A t \in Thread : Writing(t) /\ Using(t) /\ IsSettled(t) /\ IsExplained(t)

----------------------------------------------------------------------------
\* The steps.

\* Every step keeps the types.
LEMMA TypeStep == IInv /\ [Next]_vars => TypeOK'
<1> SUFFICES ASSUME IInv, [Next]_vars PROVE TypeOK'
  OBVIOUS
<1> USE DEF IInv, TypeOK, config, fields, call, Goto
<1>1. CASE LoadAssetsConfig
  BY <1>1, RpcAssumption DEF LoadAssetsConfig
<1>2. ASSUME NEW t \in Thread, Begins(t) PROVE TypeOK'
  BY <1>2 DEF Begins, Connected
<1>3. ASSUME NEW t \in Thread, Proceeds(t) PROVE TypeOK'
  <2>1. CASE Checks(t) \/ ConnectFails(t) \/ Invokes(t) \/ Expires(t)
    BY <2>1 DEF Checks, ConnectFails, Invokes, Expires
  <2>2. CASE Dials(t)
    BY <2>2 DEF Dials, Words
  <2>3. CASE Stores(t)
    <3>1. PICK w \in unstored[t] :
            /\ itab'    = IF w = "itab"    THEN itab \cup {client[t]}    ELSE itab
            /\ stub'    = IF w = "stub"    THEN stub \cup {client[t]}    ELSE stub
            /\ timeout' = IF w = "timeout" THEN timeout \cup {client[t]} ELSE timeout
            /\ unstored' = [unstored EXCEPT ![t] = @ \ {w}]
            /\ Goto(t, IF unstored[t] = {w} THEN "context" ELSE "store")
      BY <2>3 DEF Stores
    <3>2. client[t] \in Clients
      BY <2>3 DEF Stores, Writing
    <3> QED
      BY <2>3, <3>1, <3>2 DEF Stores
  <2>4. CASE MakesContext(t)
    BY <2>4, RpcAssumption DEF MakesContext
  <2> QED
    BY <1>3, <2>1, <2>2, <2>3, <2>4 DEF Proceeds
<1>4. ASSUME NEW t \in Thread, Answers(t) \/ AnswersNothing(t) PROVE TypeOK'
  BY <1>4 DEF Answers, AnswersNothing
<1>5. CASE Tick
  BY <1>5, RpcAssumption DEF Tick
<1>6. CASE UNCHANGED vars
  BY <1>6 DEF vars
<1> QED
  BY <1>1, <1>2, <1>3, <1>4, <1>5, <1>6 DEF Next

\* What is written stays written, and what is dialled dialled; a node that does
\* not know the chain goes on not knowing it.
LEMMA Monotone ==
  ASSUME IInv, [Next]_vars
  PROVE  /\ itab \subseteq itab' /\ stub \subseteq stub' /\ timeout \subseteq timeout'
         /\ \A c \in Clients : conns[c] > 0 => conns'[c] > 0
         /\ serves' = serves
<1> USE DEF IInv, TypeOK, config, fields
<1>1. ASSUME NEW t \in Thread, Proceeds(t)
      PROVE  /\ itab \subseteq itab' /\ stub \subseteq stub' /\ timeout \subseteq timeout'
             /\ \A c \in Clients : conns[c] > 0 => conns'[c] > 0
             /\ serves' = serves
  <2>1. CASE Dials(t)
    <3>1. \A c \in Clients : conns[c] \in Nat /\ conns'[c] \in {conns[c], conns[c] + 1}
      BY <2>1 DEF Dials
    <3> QED
      BY <2>1, <3>1 DEF Dials
  <2>2. CASE Stores(t)
    BY <2>2 DEF Stores
  <2>3. CASE ~Dials(t) /\ ~Stores(t)
    BY <1>1, <2>3 DEF Proceeds, Checks, ConnectFails, MakesContext, Invokes, Expires
  <2> QED
    BY <2>1, <2>2, <2>3
<1> QED
  BY <1>1 DEF Next, LoadAssetsConfig, Begins, Answers, AnswersNothing, Tick, vars

\* A call that a step does not touch keeps what is known of it.
LEMMA OtherCalls ==
  ASSUME IInv, [Next]_vars, NEW t \in Thread,
         pc'[t] = pc[t], client'[t] = client[t], unstored'[t] = unstored[t], settled'[t] = settled[t]
  PROVE  (Writing(t) /\ Using(t) /\ IsSettled(t) /\ IsExplained(t))'
<1>1. /\ itab \subseteq itab' /\ stub \subseteq stub' /\ timeout \subseteq timeout' /\ serves' = serves
      /\ \A c \in Clients : conns[c] > 0 => conns'[c] > 0
  BY Monotone
<1>2. client[t] = 0 \/ client[t] \in Clients
  BY RpcAssumption DEF IInv, TypeOK, Clients
<1> QED
  BY <1>1, <1>2 DEF IInv, Writing, Using, IsSettled, Connected, IsExplained

\* The step of a call itself.
LEMMA BeginsStep ==
  ASSUME IInv, NEW t \in Thread, Begins(t)
  PROVE  (Writing(t) /\ Using(t) /\ IsSettled(t) /\ IsExplained(t))'
<1>1. /\ client'[t] = rpc /\ settled'[t] = Connected(rpc) /\ pc'[t] = (IF rpc = 0 THEN "panicked" ELSE "check")
      /\ UNCHANGED <<itab, stub, timeout, serves, conns>>
  BY DEF Begins, Goto, IInv, TypeOK, fields, config
<1>2. Connected(rpc) => rpc # 0
  BY DEF Connected, IInv, TypeOK, Clients
<1>3. rpc # 0 => rpc \in Clients
  BY RpcAssumption DEF IInv, TypeOK, Clients
<1> QED
  BY <1>1, <1>2, <1>3 DEF Writing, Using, IsSettled, Connected, IsExplained

LEMMA ProceedsStep ==
  ASSUME IInv, NEW t \in Thread, Proceeds(t) \/ Answers(t) \/ AnswersNothing(t)
  PROVE  (Writing(t) /\ Using(t) /\ IsSettled(t) /\ IsExplained(t))'
<1>1. /\ itab \subseteq itab' /\ stub \subseteq stub' /\ timeout \subseteq timeout' /\ serves' = serves
      /\ \A c \in Clients : conns[c] > 0 => conns'[c] > 0
  BY Monotone DEF Next
<1>2. client'[t] = client[t] /\ settled'[t] = settled[t]
  BY DEF Proceeds, Checks, ConnectFails, Dials, Stores, MakesContext, Invokes, Answers,
    AnswersNothing, Expires, call
<1>3. Writing(t) /\ Using(t) /\ IsSettled(t) /\ IsExplained(t)
  BY DEF IInv
<1>4. pc[t] \in {"context", "invoke", "wait"} => client[t] \in Clients
  BY <1>3 DEF IInv, TypeOK, Using
<1>5. CASE Checks(t)
  <2>1. pc[t] = "check" /\ pc'[t] = (IF client[t] \in itab THEN "context" ELSE "dial")
    BY <1>5 DEF Checks, Goto, IInv, TypeOK
  <2>2. (Writing(t) /\ Using(t))'
    BY <1>1, <1>2, <1>3, <2>1 DEF Writing, Using
  <2> QED
    BY <1>1, <1>2, <1>3, <2>1, <2>2 DEF IsSettled, Connected, IsExplained
<1>6. CASE ConnectFails(t) \/ Answers(t) \/ Expires(t) \/ AnswersNothing(t)
  <2>1. pc'[t] = "idle" \/ (pc'[t] = "panicked" /\ ~serves)
    BY <1>6 DEF ConnectFails, Answers, Expires, AnswersNothing, Goto, IInv, TypeOK
  <2> QED
    BY <1>1, <1>2, <1>3, <2>1 DEF Writing, Using, IsSettled, Connected, IsExplained
<1>7. CASE Dials(t)
  <2>1. /\ pc[t] = "dial" /\ pc'[t] = "store" /\ unstored'[t] = Words
        /\ conns' = [conns EXCEPT ![client[t]] = @ + 1]
    BY <1>7 DEF Dials, Goto, IInv, TypeOK
  <2>2. client[t] \in Clients /\ ~settled[t]
    BY <1>3, <2>1 DEF Writing, IsSettled
  <2>3. conns[client[t]] \in Nat /\ conns'[client[t]] = conns[client[t]] + 1
    BY <2>1, <2>2 DEF IInv, TypeOK
  <2> QED
    BY <1>2, <2>1, <2>2, <2>3 DEF Writing, Using, IsSettled, IsExplained, Words
<1>8. CASE Stores(t)
  <2>1. PICK w \in unstored[t] :
          /\ itab'    = IF w = "itab"    THEN itab \cup {client[t]}    ELSE itab
          /\ stub'    = IF w = "stub"    THEN stub \cup {client[t]}    ELSE stub
          /\ timeout' = IF w = "timeout" THEN timeout \cup {client[t]} ELSE timeout
          /\ unstored' = [unstored EXCEPT ![t] = @ \ {w}]
          /\ Goto(t, IF unstored[t] = {w} THEN "context" ELSE "store")
    BY <1>8 DEF Stores
  <2>2. /\ pc[t] = "store" /\ pc'[t] = (IF unstored[t] = {w} THEN "context" ELSE "store")
        /\ unstored'[t] = unstored[t] \ {w} /\ ~settled[t] /\ client[t] \in Clients
    BY <1>3, <1>8, <2>1 DEF Stores, Goto, IInv, TypeOK, IsSettled, Writing
  <2>3. /\ "itab" \in unstored'[t] \/ client[t] \in itab'
        /\ "stub" \in unstored'[t] \/ client[t] \in stub'
        /\ "timeout" \in unstored'[t] \/ client[t] \in timeout'
    BY <1>3, <2>1, <2>2 DEF Writing
  <2>4. pc'[t] = "context" => client[t] \in itab'
    BY <2>2, <2>3
  <2> QED
    BY <1>1, <1>2, <1>3, <2>2, <2>3, <2>4 DEF Writing, Using, IsSettled, IsExplained
<1>9. CASE MakesContext(t)
  <2>1. pc[t] = "context" /\ pc'[t] = "invoke"
    BY <1>9 DEF MakesContext, Goto, IInv, TypeOK
  <2> QED
    BY <1>1, <1>2, <1>3, <2>1 DEF Writing, Using, IsSettled, Connected, IsExplained
<1>10. CASE Invokes(t)
  <2>1. pc[t] = "invoke" /\ pc'[t] = (IF client[t] \in stub THEN "wait" ELSE "panicked")
    BY <1>10 DEF Invokes, Goto, IInv, TypeOK
  <2>2. client[t] \in itab /\ conns[client[t]] > 0
    BY <1>3, <2>1 DEF Using, IInv, Dialled
  <2>3. settled[t] => client[t] \in stub
    BY <1>3 DEF IsSettled, Connected
  <2> QED
    BY <1>1, <1>2, <1>3, <1>4, <2>1, <2>2, <2>3 DEF Writing, Using, IsSettled, Connected, IsExplained
<1> QED
  BY <1>5, <1>6, <1>7, <1>8, <1>9, <1>10 DEF Proceeds

\* The other calls of a step are not touched by it.
LEMMA CallsStep ==
  ASSUME IInv, [Next]_vars, NEW q \in Thread
  PROVE  (Writing(q) /\ Using(q) /\ IsSettled(q) /\ IsExplained(q))'
<1>1. ASSUME NEW t \in Thread, Begins(t) \/ Proceeds(t) \/ Answers(t) \/ AnswersNothing(t)
      PROVE  (Writing(q) /\ Using(q) /\ IsSettled(q) /\ IsExplained(q))'
  <2>1. CASE q = t
    BY <1>1, <2>1, BeginsStep, ProceedsStep
  <2>2. CASE q # t
    <3>1. pc'[q] = pc[q] /\ client'[q] = client[q] /\ unstored'[q] = unstored[q] /\ settled'[q] = settled[q]
      BY <1>1, <2>2 DEF Begins, Proceeds, Checks, ConnectFails, Dials, Stores, MakesContext, Invokes,
        Answers, AnswersNothing, Expires, call, Goto, IInv, TypeOK
    <3> QED
      BY <3>1, OtherCalls
  <2> QED
    BY <2>1, <2>2
<1>2. CASE LoadAssetsConfig \/ Tick \/ UNCHANGED vars
  <2>1. pc'[q] = pc[q] /\ client'[q] = client[q] /\ unstored'[q] = unstored[q] /\ settled'[q] = settled[q]
    BY <1>2 DEF LoadAssetsConfig, Tick, vars, call
  <2> QED
    BY <2>1, OtherCalls
<1> QED
  BY <1>1, <1>2 DEF Next

\* A word is only written by a call that has dialled.
LEMMA DialledStep == IInv /\ [Next]_vars => Dialled'
<1> SUFFICES ASSUME IInv, [Next]_vars, NEW c \in (itab \cup stub \cup timeout)'
             PROVE  conns'[c] > 0
  BY DEF Dialled
<1>1. CASE c \in itab \cup stub \cup timeout
  BY <1>1, Monotone DEF IInv, Dialled, TypeOK
<1>2. CASE c \notin itab \cup stub \cup timeout
  <2>1. PICK t \in Thread : Stores(t)
    BY <1>2 DEF Next, LoadAssetsConfig, Begins, Proceeds, Checks, ConnectFails, Dials, MakesContext,
      Invokes, Answers, AnswersNothing, Expires, Tick, vars, fields
  <2>2. c = client[t] /\ conns' = conns /\ pc[t] = "store"
    BY <1>2, <2>1 DEF Stores
  <2> QED
    BY <2>2 DEF IInv, Writing
<1> QED
  BY <1>1, <1>2

\* The invariant holds in every reachable state.
LEMMA Invariant == Spec => []IInv
<1>1. Init => IInv
  BY RpcAssumption DEF Init, IInv, TypeOK, Dialled, Writing, Using, IsSettled, IsExplained
<1>2. IInv /\ [Next]_vars => IInv'
  BY TypeStep, DialledStep, CallsStep DEF IInv
<1> QED
  BY <1>1, <1>2, PTL DEF Spec

----------------------------------------------------------------------------
\* Counting the connections.

Dialling(c) == {t \in Thread : pc[t] = "dial" /\ client[t] = c}
Storing(c)  == {t \in Thread : pc[t] = "store" /\ client[t] = c}

\* Until xchainClient is seen, those who dialled are still writing; afterwards
\* only those who are about to dial will.
Counted(c) ==
  /\ c \notin itab => conns[c] = Cardinality(Storing(c))
  /\ c \in itab => conns[c] + Cardinality(Dialling(c)) <= Cardinality(Thread)

\* Sets of threads are finite, and those that dial do not write.
LEMMA CountFacts ==
  ASSUME NEW c
  PROVE  /\ Cardinality(Thread) \in Nat
         /\ IsFiniteSet(Storing(c)) /\ IsFiniteSet(Dialling(c))
         /\ Cardinality(Storing(c)) \in Nat /\ Cardinality(Dialling(c)) \in Nat
         /\ Cardinality(Storing(c)) + Cardinality(Dialling(c)) <= Cardinality(Thread)
<1>1. IsFiniteSet(Thread) /\ Storing(c) \subseteq Thread /\ Dialling(c) \subseteq Thread
      /\ Storing(c) \cap Dialling(c) = {}
  BY RpcAssumption DEF Storing, Dialling
<1>2. IsFiniteSet(Storing(c)) /\ IsFiniteSet(Dialling(c))
  BY <1>1, FS_Subset
<1>3. /\ Cardinality(Thread) \in Nat /\ Cardinality(Storing(c)) \in Nat
      /\ Cardinality(Dialling(c)) \in Nat
  BY <1>1, <1>2, FS_CardinalityType
<1>4. Cardinality(Storing(c) \cup Dialling(c)) = Cardinality(Storing(c)) + Cardinality(Dialling(c)) - 0
  BY <1>1, <1>2, FS_Union, FS_EmptySet
<1>5. Cardinality(Storing(c) \cup Dialling(c)) <= Cardinality(Thread)
  BY <1>1, FS_Subset
<1> QED
  BY <1>1, <1>2, <1>3, <1>4, <1>5

LEMMA CountedStep ==
  ASSUME IInv, [Next]_vars, NEW c \in Clients, Counted(c)
  PROVE  Counted(c)'
<1>1. conns[c] \in Nat /\ (c \in itab => c \in itab')
  BY Monotone DEF IInv, TypeOK
<1>2. CASE \E t \in Thread : Dials(t) /\ client[t] = c
  <2>1. PICK t \in Thread : Dials(t) /\ client[t] = c
    BY <1>2
  <2>2. /\ pc[t] = "dial" /\ pc' = [pc EXCEPT ![t] = "store"] /\ client' = client /\ itab' = itab
        /\ conns'[c] = conns[c] + 1
    BY <2>1 DEF Dials, Goto, fields, IInv, TypeOK
  <2>3. CASE c \notin itab
    <3>1. Storing(c)' = Storing(c) \cup {t} /\ t \notin Storing(c)
      BY <2>1, <2>2 DEF Storing, IInv, TypeOK
    <3>2. Cardinality(Storing(c)') = Cardinality(Storing(c)) + 1
      BY <3>1, CountFacts, FS_AddElement
    <3> QED
      BY <2>2, <2>3, <3>2 DEF Counted
  <2>4. CASE c \in itab
    <3>1. Dialling(c)' = Dialling(c) \ {t} /\ t \in Dialling(c)
      BY <2>1, <2>2 DEF Dialling, IInv, TypeOK
    <3>2. Cardinality(Dialling(c)') = Cardinality(Dialling(c)) - 1
      BY <3>1, CountFacts, FS_RemoveElement
    <3>3. conns'[c] + Cardinality(Dialling(c)') = conns[c] + Cardinality(Dialling(c))
      BY <1>1, <2>2, <3>2, CountFacts
    <3> QED
      BY <2>2, <2>4, <3>3 DEF Counted
  <2> QED
    BY <2>3, <2>4
<1>3. CASE ~\E t \in Thread : Dials(t) /\ client[t] = c
  <2>1. conns'[c] = conns[c]
    BY <1>3 DEF Next, LoadAssetsConfig, Begins, Proceeds, Checks, ConnectFails, Dials, Stores,
      MakesContext, Invokes, Answers, AnswersNothing, Expires, Tick, vars, IInv, TypeOK
  <2>2. CASE c \notin itab /\ c \notin itab'
    <3>1. ASSUME NEW q \in Thread
          PROVE  q \in Storing(c)' <=> q \in Storing(c)
      <4>1. ASSUME NEW t \in Thread, Stores(t) PROVE q \in Storing(c)' <=> q \in Storing(c)
        <5>1. PICK w \in unstored[t] :
                /\ itab'    = IF w = "itab"    THEN itab \cup {client[t]}    ELSE itab
                /\ unstored' = [unstored EXCEPT ![t] = @ \ {w}]
                /\ Goto(t, IF unstored[t] = {w} THEN "context" ELSE "store")
          BY <4>1 DEF Stores
        <5>2. client[t] = c => "itab" \in unstored[t] /\ w # "itab"
          BY <2>2, <4>1, <5>1 DEF Stores, IInv, Writing
        <5>3. pc[t] = "store" /\ client' = client /\ (client[t] = c => pc'[t] = "store")
          BY <4>1, <5>1, <5>2 DEF Stores, Goto, IInv, TypeOK
        <5>4. q # t => pc'[q] = pc[q]
          BY <5>1 DEF Goto, IInv, TypeOK
        <5> QED
          BY <5>3, <5>4 DEF Storing
      <4>2. ASSUME NEW t \in Thread, Begins(t) PROVE q \in Storing(c)' <=> q \in Storing(c)
        BY <4>2 DEF Begins, Goto, Storing, IInv, TypeOK
      <4>3. ASSUME NEW t \in Thread, Proceeds(t) \/ Answers(t) \/ AnswersNothing(t), ~Stores(t)
            PROVE  q \in Storing(c)' <=> q \in Storing(c)
        BY <1>3, <4>3 DEF Proceeds, Checks, ConnectFails, Dials, MakesContext, Invokes, Answers,
          AnswersNothing, Expires, call, Goto, Storing, IInv, TypeOK
      <4>4. CASE LoadAssetsConfig \/ Tick \/ UNCHANGED vars
        BY <4>4 DEF LoadAssetsConfig, Tick, vars, call, Storing
      <4> QED
        BY <4>1, <4>2, <4>3, <4>4 DEF Next
    <3>2. Storing(c)' = Storing(c)
      BY <3>1 DEF Storing
    <3> QED
      BY <2>1, <2>2, <3>2 DEF Counted
  <2>3. CASE c \in itab'
    <3>1. ASSUME NEW q \in Dialling(c)' PROVE q \in Dialling(c)
      <4>1. q \in Thread /\ pc'[q] = "dial" /\ client'[q] = c
        BY DEF Dialling
      <4>2. ASSUME NEW t \in Thread, Checks(t) PROVE q \in Dialling(c)
        <5>1. itab' = itab /\ client' = client /\ (q # t => pc'[q] = pc[q])
          BY <4>2 DEF Checks, Goto, fields, call, IInv, TypeOK
        <5>2. client[t] = c => pc'[t] = "context"
          BY <2>3, <4>2, <5>1 DEF Checks, Goto, IInv, TypeOK
        <5> QED
          BY <4>1, <5>1, <5>2 DEF Dialling
      <4>3. ASSUME NEW t \in Thread, Begins(t) \/ Proceeds(t) \/ Answers(t) \/ AnswersNothing(t), ~Checks(t)
            PROVE  q \in Dialling(c)
        BY <4>1, <4>3 DEF Begins, Proceeds, ConnectFails, Dials, Stores, MakesContext, Invokes,
          Answers, AnswersNothing, Expires, call, Goto, Dialling, IInv, TypeOK
      <4>4. CASE LoadAssetsConfig \/ Tick \/ UNCHANGED vars
        BY <4>1, <4>4 DEF LoadAssetsConfig, Tick, vars, call, Dialling
      <4> QED
        BY <4>2, <4>3, <4>4 DEF Next
    <3>2. Cardinality(Dialling(c)') <= Cardinality(Dialling(c)) /\ Cardinality(Dialling(c)') \in Nat
      BY <3>1, CountFacts, FS_Subset, FS_CardinalityType
    <3>3. conns[c] + Cardinality(Dialling(c)) <= Cardinality(Thread)
      BY CountFacts DEF Counted
    <3>4. conns'[c] + Cardinality(Dialling(c)') <= Cardinality(Thread)
      BY <1>1, <2>1, <3>2, <3>3, CountFacts
    <3> QED
      BY <2>3, <3>4 DEF Counted
  <2> QED
    BY <1>1, <2>2, <2>3
<1> QED
  BY <1>2, <1>3

----------------------------------------------------------------------------
\* The theorems.

\* Every reachable state is typed.
THEOREM TypeCorrect == Spec => []TypeOK
<1>1. IInv => TypeOK
  BY DEF IInv
<1> QED
  BY <1>1, Invariant, PTL

\* A call that begins once its client is connected is not disturbed by the
\* threads that are still connecting.
THEOREM Settled == Spec => []SettledIsSafe
<1>1. IInv => SettledIsSafe
  BY DEF IInv, IsSettled, SettledIsSafe
<1> QED
  BY <1>1, Invariant, PTL

\* A call panics without a client, beside a first connect, or with a node that
\* does not know the chain.
THEOREM Explained == Spec => []PanicsAreExplained
<1>1. IInv => PanicsAreExplained
  BY DEF IInv, IsExplained, PanicsAreExplained
<1> QED
  BY <1>1, Invariant, PTL

\* No client dials more often than there are threads.
THEOREM Few == Spec => []FewConnections
<1> DEFINE All == \A c \in Clients : Counted(c)
<1>1. Init => All
  <2> SUFFICES ASSUME Init, NEW c \in Clients PROVE Counted(c)
    OBVIOUS
  <2>1. Storing(c) = {} /\ conns[c] = 0 /\ c \notin itab
    BY DEF Init, Storing
  <2> QED
    BY <2>1, FS_EmptySet DEF Counted
<1>2. IInv /\ All /\ [Next]_vars => All'
  <2> SUFFICES ASSUME IInv, All, [Next]_vars, NEW c \in Clients PROVE Counted(c)'
    BY DEF Clients
  <2> QED
    BY CountedStep
<1>3. IInv /\ All => FewConnections
  <2> SUFFICES ASSUME IInv, All, NEW c \in Clients PROVE conns[c] <= Cardinality(Thread)
    BY DEF FewConnections
  <2>1. Counted(c) /\ conns[c] \in Nat
    BY DEF IInv, TypeOK
  <2> QED
    BY <2>1, CountFacts DEF Counted
<1> QED
  BY <1>1, <1>2, <1>3, Invariant, PTL DEF Spec
=============================================================================
