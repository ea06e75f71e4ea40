----------------------------- MODULE RpcClient ------------------------------
(***************************************************************************)
(* The RPC client of xuperchain_rpc/api.go, shared by the scanner's task,  *)
(* the decoders and the API calls.  Every method first calls connect,      *)
(* which dials the node the first time, then makes a context with the      *)
(* client's timeout and invokes the stub.  Nothing is locked.              *)
(*                                                                         *)
(* connect writes an interface, which is two words, and a duration; the    *)
(* calls of other threads that run meanwhile may see the three words       *)
(* written in any order.                                                   *)
(***************************************************************************)
EXTENDS Integers, FiniteSets

CONSTANTS
  Thread,   \* goroutines that call the node
  Timeout,  \* xc.timeout once connected, in units of time (60 s)
  \* Modelling bound.
  MaxLoads  \* how often LoadAssetsConfig is called

ASSUME RpcAssumption ==
  /\ IsFiniteSet(Thread)
  /\ Timeout \in Nat \ {0}
  /\ MaxLoads \in Nat

VARIABLES
  rpc,      \* wm.RPC: the client the last LoadAssetsConfig made, 0 for nil
  valid,    \* is the configuration of a client complete, and can it be dialled?
  serves,   \* does the node know the chain of the configuration?
  itab,     \* clients whose xchainClient has its type word: it is not nil
  stub,     \* clients whose xchainClient has its data word
  timeout,  \* clients whose timeout is set
  conns,    \* connections dialled for each client
  pc,       \* where the call of each thread is
  client,   \* the client it uses
  unstored, \* the words connect has not written yet
  left,     \* time left in its context
  settled   \* history: was the client connected when the call began?

fields == <<itab, stub, timeout>>
config == <<rpc, valid, serves>>
call   == <<client, unstored, left, settled>>
vars   == <<config, fields, conns, pc, call>>

Clients == 1 .. MaxLoads
Words   == {"itab", "stub", "timeout"}

Goto(t, where) == pc' = [pc EXCEPT ![t] = where]

----------------------------------------------------------------------------
\* LoadAssetsConfig: a new client takes the place of the one before.  Calls
\* under way keep theirs.
LoadAssetsConfig ==
  /\ rpc < MaxLoads
  /\ rpc' = rpc + 1
  /\ UNCHANGED <<valid, serves, fields, conns, pc, call>>

Connected(c) == c \in itab \cap stub \cap timeout

\* A call begins.  Without a client connect dereferences the nil receiver.
Begins(t) ==
  /\ pc[t] = "idle"
  /\ Goto(t, IF rpc = 0 THEN "panicked" ELSE "check")
  /\ client' = [client EXCEPT ![t] = rpc]
  /\ settled' = [settled EXCEPT ![t] = Connected(rpc)]
  /\ UNCHANGED <<config, fields, conns, unstored, left>>

\* connect returns when xchainClient is not nil.
Checks(t) ==
  /\ pc[t] = "check"
  /\ Goto(t, IF client[t] \in itab THEN "context" ELSE "dial")
  /\ UNCHANGED <<config, fields, conns, call>>

\* Mutant of ConnectFails: the error is not looked at.
ConnectFailsUnseen(t) ==
  /\ pc[t] = "dial" /\ client[t] \notin valid
  /\ Goto(t, "context")
  /\ UNCHANGED <<config, fields, conns, call>>

\* An empty BaseURL or ChainName, or an error of grpc.Dial.
ConnectFails(t) ==
  /\ pc[t] = "dial" /\ client[t] \notin valid
  /\ Goto(t, "idle")
  /\ UNCHANGED <<config, fields, conns, call>>

Dials(t) ==
  /\ pc[t] = "dial" /\ client[t] \in valid
  /\ conns' = [conns EXCEPT ![client[t]] = @ + 1]
  /\ unstored' = [unstored EXCEPT ![t] = Words]
  /\ Goto(t, "store")
  /\ UNCHANGED <<config, fields, client, left, settled>>

\* Mutant of Stores: the old stub is dropped before the new one is written.
StoresAnew(t) ==
  /\ pc[t] = "store"
  /\ \E w \in unstored[t] :
       /\ itab'    = IF w = "itab"    THEN itab \cup {client[t]}    ELSE itab
       /\ stub'    = IF w = "stub"    THEN stub \cup {client[t]}
                     ELSE IF "stub" \in unstored[t] THEN stub \ {client[t]} ELSE stub
       /\ timeout' = IF w = "timeout" THEN timeout \cup {client[t]} ELSE timeout
       /\ unstored' = [unstored EXCEPT ![t] = @ \ {w}]
       /\ Goto(t, IF unstored[t] = {w} THEN "context" ELSE "store")
  /\ UNCHANGED <<config, conns, client, left, settled>>

\* Mutant of Stores: the stub is only kept by the call.
StoresNothing(t) ==
  /\ pc[t] = "store"
  /\ Goto(t, "context")
  /\ unstored' = [unstored EXCEPT ![t] = {}]
  /\ stub' = stub \cup {client[t]}
  /\ timeout' = timeout \cup {client[t]}
  /\ UNCHANGED <<config, itab, conns, client, left, settled>>

\* One word of xchainClient and timeout becomes visible.
Stores(t) ==
  /\ pc[t] = "store"
  /\ \E w \in unstored[t] :
       /\ itab'    = IF w = "itab"    THEN itab \cup {client[t]}    ELSE itab
       /\ stub'    = IF w = "stub"    THEN stub \cup {client[t]}    ELSE stub
       /\ timeout' = IF w = "timeout" THEN timeout \cup {client[t]} ELSE timeout
       /\ unstored' = [unstored EXCEPT ![t] = @ \ {w}]
       /\ Goto(t, IF unstored[t] = {w} THEN "context" ELSE "store")
  /\ UNCHANGED <<config, conns, client, left, settled>>

\* context.WithTimeout; with a timeout of zero the context is born expired.
MakesContext(t) ==
  /\ pc[t] = "context"
  /\ left' = [left EXCEPT ![t] = IF client[t] \in timeout THEN Timeout ELSE 0]
  /\ Goto(t, "invoke")
  /\ UNCHANGED <<config, fields, conns, client, unstored, settled>>

\* The method of the stub; a nil data word is dereferenced.
Invokes(t) ==
  /\ pc[t] = "invoke"
  /\ Goto(t, IF client[t] \in stub THEN "wait" ELSE "panicked")
  /\ UNCHANGED <<config, fields, conns, call>>

\* The node answers in time, with a result or an error.
Answers(t) ==
  /\ pc[t] = "wait" /\ left[t] > 0
  /\ Goto(t, "idle")
  /\ UNCHANGED <<config, fields, conns, call>>

\* A node that does not know the chain answers GetBalance without an entry for
\* it: the result is nil, no error, and GetBalanceByAddress dereferences it.
AnswersNothing(t) ==
  /\ pc[t] = "wait" /\ left[t] > 0
  /\ ~serves
  /\ Goto(t, "panicked")
  /\ UNCHANGED <<config, fields, conns, call>>

\* Mutant of Expires: the call is retried with a new context.
ExpiresRetries(t) ==
  /\ pc[t] = "wait" /\ left[t] = 0
  /\ Goto(t, "context")
  /\ UNCHANGED <<config, fields, conns, call>>

\* The context is done.
Expires(t) ==
  /\ pc[t] = "wait" /\ left[t] = 0
  /\ Goto(t, "idle")
  /\ UNCHANGED <<config, fields, conns, call>>

\* Mutant of Tick: time is taken from expired contexts too.
TickBelowZero ==
  /\ \E t \in Thread : pc[t] = "wait"
  /\ left' = [t \in Thread |-> left[t] - 1]
  /\ UNCHANGED <<config, fields, conns, pc, client, unstored, settled>>

\* Time passes.
Tick ==
  /\ \E t \in Thread : pc[t] = "wait" /\ left[t] > 0
  /\ left' = [t \in Thread |-> IF left[t] > 0 THEN left[t] - 1 ELSE 0]
  /\ UNCHANGED <<config, fields, conns, pc, client, unstored, settled>>

----------------------------------------------------------------------------
Init ==
  /\ rpc = 0
  /\ valid \in SUBSET Clients
  /\ serves \in BOOLEAN
  /\ itab = {} /\ stub = {} /\ timeout = {}
  /\ conns = [c \in Clients |-> 0]
  /\ pc = [t \in Thread |-> "idle"]
  /\ client = [t \in Thread |-> 0]
  /\ unstored = [t \in Thread |-> {}]
  /\ left = [t \in Thread |-> 0]
  /\ settled = [t \in Thread |-> FALSE]

\* What a thread does by itself once its call has begun.
Proceeds(t) ==
  Checks(t) \/ ConnectFails(t) \/ Dials(t) \/ Stores(t) \/ MakesContext(t) \/ Invokes(t) \/ Expires(t)

Next ==
  \/ LoadAssetsConfig
  \/ \E t \in Thread : Begins(t) \/ Proceeds(t) \/ Answers(t) \/ AnswersNothing(t)
  \/ Tick

Spec == Init /\ [][Next]_vars

\* The goroutines run and time passes; the node need never answer.
FairSpec ==
  /\ Spec
  /\ \A t \in Thread : WF_vars(Proceeds(t))
  /\ WF_vars(Tick)

----------------------------------------------------------------------------
\* Properties.

TypeOK ==
  /\ rpc \in 0 .. MaxLoads
  /\ valid \subseteq Clients
  /\ serves \in BOOLEAN
  /\ itab \subseteq Clients /\ stub \subseteq Clients /\ timeout \subseteq Clients
  /\ conns \in [Clients -> Nat]
  /\ pc \in [Thread -> {"idle", "check", "dial", "store", "context", "invoke", "wait", "panicked"}]
  /\ client \in [Thread -> 0 .. MaxLoads]
  /\ unstored \in [Thread -> SUBSET Words]
  /\ left \in [Thread -> 0 .. Timeout]
  /\ settled \in [Thread -> BOOLEAN]

\* A call panics only before LoadAssetsConfig, beside the first connect of its
\* client by another thread, or with a node that does not know the chain.
PanicsAreExplained ==
  \A t \in Thread : pc[t] = "panicked" =>
    \/ client[t] = 0
    \/ ~serves
    \/ ~settled[t] /\ conns[client[t]] > 0

\* A call that begins once its client is connected neither dials nor writes the
\* client again, finds the stub and the timeout, and does not panic with a node that
\* knows the chain, whatever the calls that connected late still do (connect,
\* lines 45-70).
SettledIsSafe ==
  \A t \in Thread : settled[t] =>
    /\ Connected(client[t])
    /\ pc[t] \notin {"dial", "store"}
    /\ pc[t] = "panicked" => ~serves

\* A client dials at most once for each thread: the connections that the
\* unlocked check of connect leaks are bounded.
FewConnections ==
  \A c \in Clients : conns[c] <= Cardinality(Thread)

\* Every call returns, also when the node never answers.
CallsReturn ==
  \A t \in Thread : pc[t] \notin {"idle", "panicked"} ~> pc[t] \in {"idle", "panicked"}
=============================================================================
