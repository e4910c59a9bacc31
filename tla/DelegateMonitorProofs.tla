------------------------ MODULE DelegateMonitorProofs ------------------------
(* Proofs about DelegateMonitor: its types, and that the busy flags keep every *)
(* update of the data in one piece, that what is shown only moves on, and the  *)
(* round flags, for any delegates, getters and bounds.                         *)
EXTENDS DelegateMonitor, FiniteSetTheorems, WellFoundedInduction, NaturalsInduction, TLAPS

-----------------------------------------------------------------------------
(* Lemmas about the pure parts. *)

\* A set of numbers up to h that is not empty has a maximum, and Max finds it.
LEMMA MaxUpTo ==
    ASSUME NEW h \in Nat, NEW S \in SUBSET (0 .. h), S # {}
    PROVE  Max(S) \in S /\ \A s \in S : Max(S) >= s
<1> DEFINE T == {t \in 0 .. h : h - t \in S}
<1>1. T \subseteq Nat /\ T # {}
  <2>1. PICK s \in S : TRUE
    OBVIOUS
  <2>2. h - s \in T
    BY <2>1
  <2>3. T \subseteq Nat
    OBVIOUS
  <2>4. T # {}
    <3> HIDE DEF T
    <3> QED BY <2>2
  <2> QED BY <2>3, <2>4
<1> DEFINE R == OpToRel(<, Nat)
<1>2. \A x, y \in Nat : <<x, y>> \in R <=> x < y
  BY DEF OpToRel
<1>3. IsWellFoundedOn(R, Nat)
  BY NatLessThanWellFounded
<1>4. PICK t \in T : \A u \in T : ~ (<<u, t>> \in R)
  <2> HIDE DEF T, R
  <2> QED BY <1>1, <1>3, WFMin
<1>5. \A u \in T : t <= u
  <2> HIDE DEF R, T
  <2>1. ASSUME NEW u \in T PROVE t <= u
    <3>1. t \in Nat /\ u \in Nat /\ ~ (u < t)
      BY <1>1, <1>2, <1>4
    <3> QED BY <3>1
  <2> QED BY <2>1
<1>6. ASSUME NEW s \in S PROVE h - t >= s
  <2>1. h - s \in T
    OBVIOUS
  <2>2. t <= h - s /\ t \in Nat
    BY <1>1, <1>5, <2>1
  <2> QED BY <2>2
<1> QED BY <1>6 DEF Max

\* The block NewestBlock finds is a block of the chain, or none.
LEMMA NewestBlockType ==
    ASSUME NEW h \in Height, NEW n \in Nat, NEW d \in Delegate
    PROVE  NewestBlock(d, h, n) \in 0 .. h
<1> DEFINE S == {s \in 1 .. h : s > h - n /\ Forger[s] = d} \cup {0}
<1>1. S \in SUBSET (0 .. h) /\ S # {} /\ h \in Nat
  BY BoundAssumption DEF Height
<1>2. Max(S) \in S
  <2> HIDE DEF S
  <2> QED BY <1>1, MaxUpTo
<1> QED BY <1>1, <1>2 DEF NewestBlock

-----------------------------------------------------------------------------
(* Type correctness. *)

\* The call of getLastBlocks that StartChain begins.
LEMMA TypeStartChain ==
    ASSUME TypeOK, StartChain
    PROVE  chains' \subseteq Chain /\ runningBlocks' \in BOOLEAN
<1>1. [stage |-> "fetch", val |-> None, cur |-> {}, todo |-> {}] \in Chain
  BY DEF Chain, Snapshot
<1> QED BY <1>1 DEF StartChain, TypeOK

\* R: what the getters G, asked on behalf of call b, put into flight.
Asked(R, G, b) ==
    /\ net' = net \cup R
    /\ \A m \in R : m.getter \in G /\ m.batch = b
    /\ \A g \in G : \E m \in R : m.getter = g
    /\ \A m, n \in R : m.getter = n.getter => m = n
    /\ \A m \in R : IF m.getter = "Active" THEN m.stage = "get" => m.val # None
                   ELSE m.val = None
    /\ b \in BatchId \cup {Discarded} => R \subseteq Request

\* Every getter asked sends one request, in the name of the call.
LEMMA AskFacts ==
    ASSUME TypeOK, NEW G \in SUBSET Getter, NEW b, Ask(G, b)
    PROVE  \E R : Asked(R, G, b)
<1>1. PICK req \in [G -> UNION {NewRequests(g, b) : g \in G}] :
        /\ \A g \in G : req[g] \in NewRequests(g, b)
        /\ net' = net \cup {req[g] : g \in G}
  BY DEF Ask
<1>2. \A g \in G : \A m \in NewRequests(g, b) :
        /\ m.getter = g /\ m.batch = b
        /\ IF g = "Active" THEN m.stage = "get" => m.val # None ELSE m.val = None
        /\ b \in BatchId \cup {Discarded} => m \in Request
  BY DEF NewRequests, Request, TypeOK, Snapshot
<1> DEFINE R == {req[g] : g \in G}
<1>3. \A m \in R : m.getter \in G /\ m.batch = b
  BY <1>1, <1>2
<1>4. \A g \in G : req[g] \in R /\ req[g].getter = g
  BY <1>1, <1>2
<1>5. ASSUME NEW m \in R, NEW n \in R, m.getter = n.getter PROVE m = n
  <2>1. PICK g \in G : m = req[g]
    OBVIOUS
  <2>2. PICK h \in G : n = req[h]
    OBVIOUS
  <2> QED BY <1>4, <1>5, <2>1, <2>2
<1>6. b \in BatchId \cup {Discarded} => R \subseteq Request
  BY <1>1, <1>2
<1>7. net' = net \cup R
  BY <1>1
<1>8. \A g \in G : \E m \in R : m.getter = g
  BY <1>4
<1>9. \A m \in R : IF m.getter = "Active" THEN m.stage = "get" => m.val # None
                   ELSE m.val = None
  BY <1>1, <1>2
<1> HIDE DEF R
<1>10. Asked(R, G, b)
  BY <1>3, <1>5, <1>6, <1>7, <1>8, <1>9 DEF Asked
<1> QED BY <1>10

LEMMA TypeAsk ==
    ASSUME TypeOK, NEW G \in SUBSET Getter, NEW b \in BatchId \cup {Discarded}, Ask(G, b)
    PROVE  net' \subseteq Request /\ running' \in [Getter -> BOOLEAN]
<1>1. PICK R : Asked(R, G, b)
  BY AskFacts
<1>2. net' \subseteq Request
  BY <1>1 DEF TypeOK, Asked
<1>3. running' \in [Getter -> BOOLEAN]
  BY DEF TypeOK, Ask
<1> QED BY <1>2, <1>3

LEMMA TypeInit == Init => TypeOK
<1> SUFFICES ASSUME Init PROVE TypeOK
  OBVIOUS
<1>1. height \in Height /\ faults \in 0 .. MaxFaults
  BY BoundAssumption DEF Init, Height
<1>2. None \in Snapshot
  BY DEF Snapshot
<1>3. results \in [BatchId -> [Getter -> Snapshot]]
  BY <1>2 DEF Init
<1>4. blocks \in [Delegate -> Snapshot \cup {Unset}]
  BY DEF Init
<1> QED BY <1>1, <1>2, <1>3, <1>4 DEF Init, TypeOK

\* The part of TypeOK that NewBlock and failures change.
LEMMA TypeEnv ==
    ASSUME TypeOK, NewBlock PROVE TypeOK'
BY BoundAssumption DEF TypeOK, NewBlock, Height, calls, data, Snapshot, Request, Chain

LEMMA TypeBlank ==
    ASSUME TypeOK, Fault, Crash, UNCHANGED height
    PROVE  TypeOK'
<1>1. faults' \in 0 .. MaxFaults
  BY BoundAssumption DEF Fault, TypeOK
<1>2. None \in Snapshot
  BY DEF Snapshot
<1>3. results' \in [BatchId -> [Getter -> Snapshot]]
  BY <1>2 DEF Crash, Blank
<1>4. blocks' \in [Delegate -> Snapshot \cup {Unset}]
  BY DEF Crash, Blank
<1> QED BY <1>1, <1>2, <1>3, <1>4 DEF TypeOK, Crash, Blank

LEMMA TypeStart == ASSUME TypeOK, Start PROVE TypeOK'
<1>1. PICK b \in BatchId \ open : Ask(InitGetters, b) /\ open' = open \cup {b}
  BY DEF Start
<1>2. InitGetters \in SUBSET Getter
  BY DEF Getter
<1>3. net' \subseteq Request /\ running' \in [Getter -> BOOLEAN]
  BY <1>1, <1>2, TypeAsk
<1> QED BY <1>1, <1>2, <1>3 DEF TypeOK, Start, env, data, Snapshot, None

LEMMA TypeSendUpdates ==
    ASSUME TypeOK, SendUpdates, UNCHANGED <<height, faults, phase>>,
           events' \subseteq {"blocks/change", "rounds/change"}
    PROVE  TypeOK'
<1>1. Idle \in SUBSET Getter
  BY DEF Idle, Getter, InitGetters
<1>2. open' \subseteq BatchId /\ \E b \in BatchId \cup {Discarded} : Ask(Idle, b)
  BY DEF SendUpdates, EmitData, TypeOK
<1>3. PICK G \in SUBSET Getter, b \in BatchId \cup {Discarded} : Ask(G, b)
  BY <1>1, <1>2
<1>4. net' \subseteq Request /\ running' \in [Getter -> BOOLEAN]
  BY <1>3, TypeAsk
<1>5. chains' \subseteq Chain /\ runningBlocks' \in BOOLEAN
  BY TypeStartChain DEF SendUpdates
<1> QED BY <1>2, <1>4, <1>5 DEF TypeOK, SendUpdates, data

\* The answer to a request, whatever it is, replaces it by one of the same kind.
LEMMA TypeServe ==
    ASSUME TypeOK, NEW m \in net, Serve(m) \/ ListLoaded(m)
    PROVE  TypeOK'
<1>1. m \in Request /\ height \in Snapshot
  BY DEF TypeOK, Snapshot
<1>2. [m EXCEPT !.val = height] \in Request /\ [m EXCEPT !.stage = "get"] \in Request
  BY <1>1 DEF Request
<1>3. net' \subseteq Request
  BY <1>2 DEF Serve, ListLoaded, TypeOK
<1>4. cache' \in Snapshot
  BY <1>1 DEF Serve, ListLoaded, TypeOK, Request
<1> QED BY <1>3, <1>4 DEF Serve, ListLoaded, TypeOK, env, data

LEMMA TypeUpdateActive ==
    ASSUME TypeOK, NEW a \in Snapshot, NEW f \in Snapshot, NEW h \in Snapshot,
           UpdateActive(a, f, h)
    PROVE  /\ forgers' \in Snapshot /\ active' \in Snapshot
           /\ roundDelegates' \subseteq Delegate
           /\ blocks' \in [Delegate -> Snapshot \cup {Unset}]
           /\ flag' \in [Delegate -> {"unset", "yes", "no"}]
<1>1. RoundDelegates(f, h) \subseteq Delegate
  <2>1. \A i \in 1 .. RoundLength : f + i \in Slot
    BY RoundAssumption, BoundAssumption DEF Slot, Snapshot, Height, None
  <2> QED BY <2>1, NodeAssumption DEF RoundDelegates
<1>2. blocks' \in [Delegate -> Snapshot \cup {Unset}]
  BY DEF UpdateActive, TypeOK
<1>3. flag' \in [Delegate -> {"unset", "yes", "no"}]
  BY DEF UpdateActive, TypeOK
<1> QED BY <1>1, <1>2, <1>3 DEF UpdateActive

LEMMA TypeForget ==
    ASSUME TypeOK, NEW b, Forget(b)
    PROVE  open' \subseteq BatchId /\ results' \in [BatchId -> [Getter -> Snapshot]]
BY DEF Forget, NoResult, TypeOK, Snapshot

LEMMA TypeDeliver ==
    ASSUME TypeOK, NEW m \in net, Deliver(m)
    PROVE  TypeOK'
<1>1. m \in Request /\ m.val \in Snapshot /\ m.getter \in Getter
  BY DEF TypeOK, Request
<1>2. net' \subseteq Request /\ running' \in [Getter -> BOOLEAN]
  BY <1>1 DEF Deliver, TypeOK
<1> DEFINE r == [results[m.batch] EXCEPT ![m.getter] = m.val]
<1>3. CASE m.batch \notin open
  BY <1>2, <1>3 DEF Deliver, TypeOK, env, data
<1>4. CASE m.batch \in open /\ Waiting(m.batch) # {m}
  <2>1. results' \in [BatchId -> [Getter -> Snapshot]]
    BY <1>1, <1>4 DEF Deliver, TypeOK
  <2> QED BY <1>2, <1>4, <2>1 DEF Deliver, TypeOK, env, data
<1>5. CASE m.batch \in open /\ Waiting(m.batch) = {m}
  <2>1. r \in [Getter -> Snapshot]
    BY <1>1, <1>5 DEF TypeOK
  <2>2. Forget(m.batch) /\ Complete(r)
    BY <1>5 DEF Deliver
  <2>3. {"Active", "NextForgers", "LastBlock"} \subseteq Getter
    BY DEF Getter, InitGetters, UpdateGetters
  <2>4. lastBlock' \in Snapshot /\ view' \in Snapshot
    BY <2>1, <2>2, <2>3 DEF Complete, TypeOK
  <2>5. /\ forgers' \in Snapshot /\ active' \in Snapshot
        /\ roundDelegates' \subseteq Delegate
        /\ blocks' \in [Delegate -> Snapshot \cup {Unset}]
        /\ flag' \in [Delegate -> {"unset", "yes", "no"}]
    <3>1. \E h \in Snapshot : UpdateActive(r["Active"], r["NextForgers"], h)
      BY <2>2, <2>4 DEF Complete, TypeOK
    <3> QED BY <2>1, <2>3, <3>1, TypeUpdateActive
  <2>6. chains' \subseteq Chain /\ runningBlocks' \in BOOLEAN
    BY <2>2, TypeStartChain DEF Complete, TypeOK
  <2>7. phase' \in {"down", "starting", "live", "failed"}
    BY <1>5, <2>2 DEF Complete, Deliver, TypeOK
  <2> QED BY <1>2, <2>2, <2>4, <2>5, <2>6, <2>7, TypeForget DEF Deliver, TypeOK, env
<1> QED BY <1>3, <1>4, <1>5

LEMMA TypeFail ==
    ASSUME TypeOK, NEW m \in net, Fail(m)
    PROVE  TypeOK'
<1>1. \A q \in net : q \in Request /\ [q EXCEPT !.batch = Discarded] \in Request
  BY DEF TypeOK, Request
<1>2. net' \subseteq Request
  BY <1>1 DEF Fail
<1>3. running' \in [Getter -> BOOLEAN]
  BY DEF Fail, TypeOK
<1>4. faults' \in 0 .. MaxFaults
  BY BoundAssumption DEF Fail, Fault, TypeOK
<1> QED BY <1>2, <1>3, <1>4, TypeForget DEF Fail, TypeOK, data

\* The delegates of a set show the blocks of B.
LEMMA TypeShowBlocks ==
    ASSUME TypeOK, NEW B, \A d \in DOMAIN B : B[d] \in Snapshot, ShowBlocks(B)
    PROVE  /\ blocks' \in [Delegate -> Snapshot \cup {Unset}]
           /\ flag' \in [Delegate -> {"unset", "yes", "no"}]
BY DEF ShowBlocks, Flags, TypeOK

LEMMA TypeNextDelegate ==
    ASSUME TypeOK, NEW c \in chains, NEW S \in SUBSET Delegate, NextDelegate(c, S)
    PROVE  chains' \subseteq Chain /\ runningBlocks' \in BOOLEAN
<1>1. \A d \in S :
        [stage |-> "each", val |-> None, cur |-> {d}, todo |-> S \ {d}] \in Chain
  BY DEF Chain, Snapshot
<1>2. CASE S = {}
  BY <1>2 DEF NextDelegate, TypeOK
<1>3. CASE S # {}
  <2>1. PICK d \in S :
          chains' = (chains \ {c}) \cup
            {[stage |-> "each", val |-> None, cur |-> {d}, todo |-> S \ {d}]}
    BY <1>3 DEF NextDelegate
  <2> QED BY <1>1, <1>3, <2>1 DEF NextDelegate, TypeOK
<1> QED BY <1>2, <1>3

\* The block of a delegate that getLastBlocks finds is one of the chain, or none.
LEMMA NewestBlockSnapshot ==
    ASSUME NEW h \in Snapshot, h # None, NEW n \in Nat, NEW d \in Delegate
    PROVE  NewestBlock(d, h, n) \in Snapshot
<1>1. h \in Height /\ h \in Nat /\ h <= MaxHeight
  BY BoundAssumption DEF Snapshot, Height
<1>2. NewestBlock(d, h, n) \in 0 .. h
  BY <1>1, NewestBlockType
<1> QED BY <1>1, <1>2, BoundAssumption DEF Snapshot, Height, None

LEMMA ActiveSetType == ASSUME TypeOK PROVE ActiveSet \subseteq Delegate
BY NodeAssumption DEF ActiveSet, TypeOK, Snapshot

LEMMA TypeServeChain ==
    ASSUME TypeOK, NEW c \in chains, ServeChain(c)
    PROVE  TypeOK'
<1>1. [c EXCEPT !.val = height] \in Chain
  BY DEF TypeOK, Chain, Snapshot
<1> QED BY <1>1 DEF TypeOK, ServeChain, env, data

LEMMA TypeChainBlocks ==
    ASSUME TypeOK, NEW c \in chains, ChainBlocks(c)
    PROVE  TypeOK'
<1> DEFINE Found(d) == NewestBlock(d, c.val, BlocksLimit)
           newer == {d \in ActiveSet : Found(d) > 0 /\ Found(d) > blocks[d]}
           B == [d \in newer |-> Found(d)]
<1>1. c.val \in Snapshot /\ c.val # None
  BY DEF TypeOK, Chain, ChainBlocks
<1>2. \A d \in Delegate : Found(d) \in Snapshot
  BY <1>1, RoundAssumption, NewestBlockSnapshot
<1>3. newer \subseteq Delegate
  BY ActiveSetType
<1>4. \A d \in DOMAIN B : B[d] \in Snapshot
  <2> HIDE DEF Found
  <2> QED BY <1>2, <1>3
<1>5. ShowBlocks(B) /\ NextDelegate(c, {d \in ActiveSet : blocks'[d] = Unset})
  BY DEF ChainBlocks
<1>6. /\ blocks' \in [Delegate -> Snapshot \cup {Unset}]
      /\ flag' \in [Delegate -> {"unset", "yes", "no"}]
  <2> HIDE DEF B
  <2> QED BY <1>4, <1>5, TypeShowBlocks
<1>7. chains' \subseteq Chain /\ runningBlocks' \in BOOLEAN
  <2>1. {d \in ActiveSet : blocks'[d] = Unset} \in SUBSET Delegate
    BY ActiveSetType
  <2> QED BY <1>5, <2>1, TypeNextDelegate
<1> QED BY <1>1, <1>6, <1>7 DEF TypeOK, ChainBlocks, env

LEMMA TypeChainDelegate ==
    ASSUME TypeOK, NEW c \in chains, ChainDelegate(c)
    PROVE  TypeOK'
<1> DEFINE B == [d \in c.cur \cap ActiveSet |-> NewestBlock(d, c.val, c.val)]
<1>1. c.val \in Snapshot /\ c.val # None /\ c.todo \in SUBSET Delegate
  BY DEF TypeOK, Chain, ChainDelegate
<1>2. c.val \in Nat
  BY <1>1, BoundAssumption DEF Snapshot, Height, None
<1>3. \A d \in DOMAIN B : B[d] \in Snapshot
  BY <1>1, <1>2, NewestBlockSnapshot, ActiveSetType
<1>4. ShowBlocks(B) /\ NextDelegate(c, c.todo)
  BY DEF ChainDelegate
<1>5. /\ blocks' \in [Delegate -> Snapshot \cup {Unset}]
      /\ flag' \in [Delegate -> {"unset", "yes", "no"}]
  <2> HIDE DEF B
  <2> QED BY <1>3, <1>4, TypeShowBlocks
<1>6. chains' \subseteq Chain /\ runningBlocks' \in BOOLEAN
  BY <1>1, <1>4, TypeNextDelegate
<1> QED BY <1>5, <1>6 DEF TypeOK, ChainDelegate, env

LEMMA TypeFault == ASSUME TypeOK, Fault PROVE faults' \in 0 .. MaxFaults
BY BoundAssumption DEF Fault, TypeOK

LEMMA TypeChainFailures ==
    ASSUME TypeOK, NEW c \in chains, ChainFails(c) \/ ChainDelegateFails(c)
    PROVE  TypeOK'
<1>1. CASE ChainFails(c)
  BY <1>1, TypeFault DEF ChainFails, TypeOK, data
<1>2. CASE ChainDelegateFails(c)
  BY <1>2, TypeFault DEF ChainDelegateFails, TypeOK, data
<1> QED BY <1>1, <1>2

LEMMA TypeLoads ==
    ASSUME TypeOK, ServeLoad \/ (\E v \in loads : LoadDone(v)) \/ LoadFails
    PROVE  TypeOK'
<1>1. CASE ServeLoad
  BY <1>1 DEF ServeLoad, TypeOK, env, data, Snapshot
<1>2. CASE \E v \in loads : LoadDone(v)
  BY <1>2 DEF LoadDone, TypeOK, env, data
<1>3. CASE LoadFails
  BY <1>3, TypeBlank DEF LoadFails
<1> QED BY <1>1, <1>2, <1>3

\* Every step keeps the types.
LEMMA TypeStep == TypeOK /\ [Next]_vars => TypeOK'
<1> SUFFICES ASSUME TypeOK, [Next]_vars PROVE TypeOK'
  OBVIOUS
<1>1. CASE Start
  BY <1>1, TypeStart
<1>2. CASE BlocksChange
  <2>1. events' \subseteq {"blocks/change", "rounds/change"}
    BY <1>2 DEF BlocksChange, TypeOK
  <2> QED BY <1>2, <2>1, TypeSendUpdates DEF BlocksChange
<1>3. CASE Timer
  <2>1. events' \subseteq {"blocks/change", "rounds/change"}
    BY <1>3 DEF Timer, env, TypeOK
  <2> QED BY <1>3, <2>1, TypeSendUpdates DEF Timer, env
<1>4. CASE RoundsChange
  BY <1>4 DEF RoundsChange, TypeOK, data, Snapshot
<1>5. CASE Connect
  BY <1>5 DEF Connect, TypeOK, env, calls, data
<1>6. CASE Answer
  BY <1>6, TypeServe, TypeDeliver, TypeServeChain, TypeChainBlocks,
     TypeChainDelegate, TypeLoads DEF Answer
<1>7. CASE Failure
  <2>1. CASE \E m \in net : ListLoadFails(m)
    BY <2>1, TypeBlank DEF ListLoadFails
  <2> QED BY <1>7, <2>1, TypeFail, TypeChainFailures, TypeLoads DEF Failure
<1>8. CASE NewBlock
  BY <1>8, TypeEnv
<1>9. CASE UNCHANGED vars
  BY <1>9 DEF vars, TypeOK
<1> QED BY <1>1, <1>2, <1>3, <1>4, <1>5, <1>6, <1>7, <1>8, <1>9 DEF Next

\* The monitor's state keeps its types, for every node, set of delegates, getters
\* and bounds.
THEOREM TypeCorrect == Spec => []TypeOK
BY TypeInit, TypeStep, PTL DEF Spec

-----------------------------------------------------------------------------
(* The busy flags. *)

LEMMA CallsInit == Init => CallsInv
BY DEF Init, CallsInv, SingleFlight, OneOpenCall

\* Steps that leave the calls alone.
LEMMA CallsUnchanged ==
    ASSUME CallsInv, UNCHANGED <<net, open, running, phase>>
    PROVE  CallsInv'
BY DEF CallsInv, SingleFlight, OneOpenCall

LEMMA CallsBlank ==
    ASSUME Crash
    PROVE  CallsInv'
BY DEF Crash, Blank, CallsInv, SingleFlight, OneOpenCall

\* Requests R of getters that were idle, sent for a call of their own or for
\* nobody.
LEMMA SingleFlightAsked ==
    ASSUME SingleFlight, NEW G \in SUBSET Getter, NEW b, NEW R, Asked(R, G, b),
           \A g \in G : ~running[g],
           running' = [g \in Getter |-> running[g] \/ g \in G]
    PROVE  SingleFlight'
<1>1. \A m \in net : m.getter \notin G \/ m.getter \notin Getter
  BY DEF SingleFlight
<1>2. ASSUME NEW g \in Getter PROVE running'[g] <=> \E m \in net' : m.getter = g
  <2>1. running'[g] <=> running[g] \/ g \in G
    OBVIOUS
  <2>2. g \in G <=> \E m \in R : m.getter = g
    BY DEF Asked
  <2>3. running[g] <=> \E m \in net : m.getter = g
    BY DEF SingleFlight
  <2> QED BY <2>1, <2>2, <2>3 DEF Asked
<1>3. \A m, n \in net' : m.getter = n.getter => m = n
  BY <1>1 DEF SingleFlight, Asked
<1> QED BY <1>2, <1>3 DEF SingleFlight

LEMMA CallsStart == ASSUME TypeOK, CallsInv, Start PROVE CallsInv'
<1>1. PICK b \in BatchId \ open : Ask(InitGetters, b) /\ open' = open \cup {b}
  BY DEF Start
<1>2. net = {} /\ open = {} /\ \A g \in Getter : ~running[g]
  BY DEF Start, CallsInv, SingleFlight, OneOpenCall
<1>3. InitGetters \in SUBSET Getter /\ InitGetters # {}
  BY DEF Getter, InitGetters
<1>4. PICK R : Asked(R, InitGetters, b)
  BY <1>1, <1>3, AskFacts
<1>5. running' = [g \in Getter |-> running[g] \/ g \in InitGetters]
  BY <1>1 DEF Ask
<1>6. SingleFlight'
  BY <1>2, <1>3, <1>4, <1>5, SingleFlightAsked DEF CallsInv
<1>7. OneOpenCall' /\ \A m \in net' : m.batch \in open'
  BY <1>1, <1>2, <1>3, <1>4 DEF Asked, OneOpenCall
<1> QED BY <1>6, <1>7 DEF CallsInv, Start

\* emitData starts to collect only when no other call does.
LEMMA CallsSendUpdates ==
    ASSUME TypeOK, CallsInv, SendUpdates, phase = "live", phase' = phase
    PROVE  CallsInv'
<1>1. PICK G \in SUBSET Getter : G = Idle
  BY DEF Idle, Getter, InitGetters
<1>2. \A g \in G : ~running[g]
  BY <1>1 DEF Idle
<1>3. CASE Idle = UpdateGetters
  <2>1. PICK b \in BatchId \ open : Ask(G, b) /\ open' = open \cup {b}
    BY <1>1, <1>3 DEF SendUpdates, EmitData
  <2>2. PICK R : Asked(R, G, b)
    BY <2>1, AskFacts
  <2>3. SingleFlight'
    BY <1>2, <2>1, <2>2, SingleFlightAsked DEF Ask, CallsInv
  <2>4. \A m \in net : m.getter \notin G
    BY <1>2 DEF CallsInv, SingleFlight
  <2>5. open = {}
    BY <1>1, <1>3, <2>4 DEF CallsInv, OneOpenCall
  <2>6. b # Discarded
    BY BatchAssumption
  <2>7. G # {} /\ G = UpdateGetters
    BY <1>1, <1>3 DEF UpdateGetters
  <2>8. OneOpenCall'
    BY <2>1, <2>2, <2>5, <2>7 DEF OneOpenCall, Asked
  <2>9. \A m \in net' : m.batch \in open' \cup {Discarded}
    BY <2>1, <2>2 DEF CallsInv, Asked
  <2>10. \A m \in net' : m.batch \in open' => m.getter \in UpdateGetters
    BY <2>1, <2>2, <2>5, <2>6, <2>7 DEF CallsInv, Asked
  <2> QED BY <2>3, <2>8, <2>9, <2>10 DEF CallsInv
<1>4. CASE Idle # UpdateGetters
  <2>1. Ask(G, Discarded) /\ open' = open
    BY <1>1, <1>4 DEF SendUpdates, EmitData
  <2>2. PICK R : Asked(R, G, Discarded)
    BY <2>1, AskFacts
  <2>3. SingleFlight'
    BY <1>2, <2>1, <2>2, SingleFlightAsked DEF Ask, CallsInv
  <2>4. Discarded \notin open
    BY BatchAssumption DEF TypeOK
  <2>5. OneOpenCall'
    BY <2>1, <2>2 DEF CallsInv, OneOpenCall, Asked
  <2>6. \A m \in net' : /\ m.batch \in open' \cup {Discarded}
                        /\ m.batch \in open' => m.getter \in UpdateGetters
    BY <2>1, <2>2, <2>4 DEF CallsInv, Asked
  <2> QED BY <2>3, <2>5, <2>6 DEF CallsInv
<1> QED BY <1>3, <1>4

\* An answer on its way, or a list loaded, changes no call.
LEMMA CallsServe ==
    ASSUME TypeOK, CallsInv, NEW m \in net, Serve(m) \/ ListLoaded(m)
    PROVE  CallsInv'
<1>1. PICK n : /\ n.getter = m.getter /\ n.batch = m.batch
               /\ net' = (net \ {m}) \cup {n}
  <2>1. m \in Request
    BY DEF TypeOK
  <2>2. /\ [m EXCEPT !.val = height].getter = m.getter
        /\ [m EXCEPT !.val = height].batch = m.batch
        /\ [m EXCEPT !.stage = "get"].getter = m.getter
        /\ [m EXCEPT !.stage = "get"].batch = m.batch
    BY <2>1 DEF Request
  <2> QED BY <2>2 DEF Serve, ListLoaded
<1>2. UNCHANGED <<open, running, phase>>
  BY DEF Serve, ListLoaded
<1>3. SingleFlight'
  BY <1>1, <1>2 DEF CallsInv, SingleFlight
<1>4. OneOpenCall'
  BY <1>1, <1>2 DEF CallsInv, OneOpenCall
<1> QED BY <1>1, <1>2, <1>3, <1>4 DEF CallsInv

\* The flag of a getter is cleared together with its only request.
LEMMA SingleFlightDone ==
    ASSUME TypeOK, SingleFlight, NEW m \in net, net' = net \ {m},
           running' = [running EXCEPT ![m.getter] = FALSE]
    PROVE  SingleFlight'
BY DEF SingleFlight, TypeOK, Request

LEMMA CallsDeliver ==
    ASSUME TypeOK, CallsInv, NEW m \in net, Deliver(m)
    PROVE  CallsInv'
<1>1. net' = net \ {m} /\ SingleFlight'
  BY SingleFlightDone DEF Deliver, CallsInv
<1>2. phase # "down"
  BY DEF CallsInv
<1>3. CASE m.batch \notin open
  BY <1>1, <1>2, <1>3 DEF Deliver, CallsInv, OneOpenCall
<1>4. CASE m.batch \in open /\ Waiting(m.batch) # {m}
  <2>1. open' = open /\ phase' = phase
    BY <1>4 DEF Deliver
  <2>2. PICK q \in net : q # m /\ q.batch = m.batch
    BY <1>4 DEF Waiting
  <2>3. OneOpenCall'
    BY <1>1, <1>4, <2>1, <2>2 DEF CallsInv, OneOpenCall
  <2> QED BY <1>1, <1>2, <2>1, <2>3 DEF CallsInv
<1>5. CASE m.batch \in open /\ Waiting(m.batch) = {m}
  <2>1. open' = {}
    BY <1>5 DEF Deliver, Forget, CallsInv, OneOpenCall
  <2>2. phase' # "down"
    BY <1>2, <1>5 DEF Deliver, Complete
  <2>3. \A q \in net' : q.batch = Discarded
    BY <1>1, <1>5 DEF CallsInv, OneOpenCall, Waiting
  <2> QED BY <1>1, <2>1, <2>2, <2>3 DEF CallsInv, OneOpenCall
<1> QED BY <1>3, <1>4, <1>5

\* A failed call collects no more; its requests go on for nobody.
LEMMA CallsFail ==
    ASSUME TypeOK, CallsInv, NEW m \in net, Fail(m)
    PROVE  CallsInv'
<1> DEFINE Orphan(q) == IF q.batch = m.batch THEN [q EXCEPT !.batch = Discarded] ELSE q
<1>1. net' = {Orphan(q) : q \in net \ {m}} /\ open' = open \ {m.batch}
  BY DEF Fail, Forget
<1>2. \A q \in net : Orphan(q).getter = q.getter
  BY DEF TypeOK, Request
<1>3. \A q \in net : Orphan(q).batch = IF q.batch = m.batch THEN Discarded ELSE q.batch
  BY DEF TypeOK, Request
<1>4. \A p \in net' : \E q \in net : q # m /\ p = Orphan(q)
  BY <1>1
<1>5. \A q \in net : q # m => Orphan(q) \in net'
  BY <1>1
<1> HIDE DEF Orphan
<1>6. SingleFlight'
  <2>1. ASSUME NEW g \in Getter PROVE running'[g] <=> \E p \in net' : p.getter = g
    <3>1. running'[g] <=> running[g] /\ g # m.getter
      BY DEF Fail, TypeOK
    <3>2. running[g] <=> \E q \in net : q.getter = g
      BY DEF CallsInv, SingleFlight
    <3>3. \A q \in net : q.getter = m.getter => q = m
      BY DEF CallsInv, SingleFlight
    <3> QED BY <1>2, <1>4, <1>5, <3>1, <3>2, <3>3
  <2>2. \A p, n \in net' : p.getter = n.getter => p = n
    BY <1>2, <1>4 DEF CallsInv, SingleFlight
  <2> QED BY <2>1, <2>2 DEF SingleFlight
<1>7. OneOpenCall'
  BY <1>1, <1>3, <1>5 DEF CallsInv, OneOpenCall
<1>8. \A p \in net' : p.batch \in open' \cup {Discarded}
  BY <1>1, <1>3, <1>4 DEF CallsInv
<1>9. phase' # "down"
  BY DEF Fail, CallsInv
<1>10. phase' # "starting" =>
         \A p \in net' : p.batch \in open' => p.getter \in UpdateGetters
  <2>1. CASE phase = "starting" /\ m.batch \in open
    BY <1>1, <2>1 DEF CallsInv, OneOpenCall
  <2>2. CASE ~ (phase = "starting" /\ m.batch \in open)
    <3>1. Discarded \notin open
      BY BatchAssumption DEF TypeOK
    <3> QED BY <1>1, <1>2, <1>3, <1>4, <2>2, <3>1 DEF CallsInv, Fail
  <2> QED BY <2>1, <2>2
<1> QED BY <1>6, <1>7, <1>8, <1>9, <1>10 DEF CallsInv

LEMMA CallsStep == TypeOK /\ CallsInv /\ [Next]_vars => CallsInv'
<1> SUFFICES ASSUME TypeOK, CallsInv, [Next]_vars PROVE CallsInv'
  OBVIOUS
<1>1. CASE Start
  BY <1>1, CallsStart
<1>2. CASE BlocksChange \/ Timer
  <2>1. SendUpdates /\ phase = "live" /\ phase' = phase
    BY <1>2 DEF BlocksChange, Timer
  <2> QED BY <2>1, CallsSendUpdates
<1>3. CASE RoundsChange \/ Connect \/ NewBlock
  BY <1>3, CallsUnchanged DEF RoundsChange, Connect, NewBlock, calls
<1>4. CASE Answer
  <2>1. CASE \E m \in net : Serve(m) \/ ListLoaded(m) \/ Deliver(m)
    BY <2>1, CallsServe, CallsDeliver
  <2>2. CASE \E c \in chains : ServeChain(c) \/ ChainBlocks(c) \/ ChainDelegate(c)
    BY <2>2, CallsUnchanged DEF ServeChain, ChainBlocks, ChainDelegate
  <2>3. CASE ServeLoad \/ \E v \in loads : LoadDone(v)
    BY <2>3, CallsUnchanged DEF ServeLoad, LoadDone
  <2> QED BY <1>4, <2>1, <2>2, <2>3 DEF Answer
<1>5. CASE Failure
  <2>1. CASE \E m \in net : Fail(m)
    BY <2>1, CallsFail
  <2>2. CASE \E c \in chains : ChainFails(c) \/ ChainDelegateFails(c)
    BY <2>2, CallsUnchanged DEF ChainFails, ChainDelegateFails
  <2>3. CASE Crash
    BY <2>3, CallsBlank
  <2> QED BY <1>5, <2>1, <2>2, <2>3
        DEF Failure, ListLoadFails, LoadFails
<1>6. CASE UNCHANGED vars
  BY <1>6, CallsUnchanged DEF vars
<1> QED BY <1>1, <1>2, <1>3, <1>4, <1>5, <1>6 DEF Next

\* In every reachable state CallsInv holds.
THEOREM CallsCorrect == Spec => [](TypeOK /\ CallsInv)
<1>1. Init => TypeOK /\ CallsInv
  BY TypeInit, CallsInit
<1>2. TypeOK /\ CallsInv /\ [Next]_vars => TypeOK' /\ CallsInv'
  BY TypeStep, CallsStep
<1> QED BY <1>1, <1>2, PTL DEF Spec

\* No getter has two requests in flight, and its flag says whether it has one.
THEOREM SingleFlightCorrect == Spec => []SingleFlight
<1>1. TypeOK /\ CallsInv => SingleFlight
  BY DEF CallsInv
<1> QED BY <1>1, CallsCorrect, PTL

\* Two calls of async.parallel never collect results at the same time.
THEOREM OneOpenCallCorrect == Spec => []OneOpenCall
<1>1. TypeOK /\ CallsInv => OneOpenCall
  BY DEF CallsInv
<1> QED BY <1>1, CallsCorrect, PTL

-----------------------------------------------------------------------------
(* getLastBlocks. *)

LEMMA ChainsNext ==
    ASSUME OneChain, NEW c \in chains, NEW S, NextDelegate(c, S)
    PROVE  OneChain'
BY DEF OneChain, NextDelegate

LEMMA ChainsStart == OneChain /\ StartChain => OneChain'
BY DEF OneChain, StartChain

LEMMA ChainsStep == OneChain /\ [Next]_vars => OneChain'
<1> SUFFICES ASSUME OneChain, [Next]_vars PROVE OneChain'
  OBVIOUS
<1>1. ASSUME UNCHANGED <<chains, runningBlocks>> PROVE OneChain'
  BY <1>1 DEF OneChain
<1>2. CASE Start \/ RoundsChange \/ Connect \/ NewBlock \/ UNCHANGED vars
  BY <1>1, <1>2 DEF Start, RoundsChange, Connect, NewBlock, calls, vars
<1>3. CASE BlocksChange \/ Timer
  BY <1>3, ChainsStart DEF BlocksChange, Timer, SendUpdates
<1>4. CASE Answer
  <2>1. CASE \E m \in net : Serve(m) \/ ListLoaded(m)
    BY <1>1, <2>1 DEF Serve, ListLoaded
  <2>2. ASSUME NEW m \in net, Deliver(m) PROVE OneChain'
    <3>1. StartChain \/ UNCHANGED <<chains, runningBlocks>>
      BY <2>2 DEF Deliver, Complete
    <3> QED BY <1>1, <3>1, ChainsStart
  <2>3. ASSUME NEW c \in chains, ServeChain(c) PROVE OneChain'
    BY <2>3 DEF ServeChain, OneChain
  <2>4. ASSUME NEW c \in chains, ChainBlocks(c) \/ ChainDelegate(c) PROVE OneChain'
    <3>1. \E S : NextDelegate(c, S)
      BY <2>4 DEF ChainBlocks, ChainDelegate
    <3> QED BY <3>1, ChainsNext
  <2>5. CASE ServeLoad \/ \E v \in loads : LoadDone(v)
    BY <1>1, <2>5 DEF ServeLoad, LoadDone
  <2> QED BY <1>4, <2>1, <2>2, <2>3, <2>4, <2>5 DEF Answer
<1>5. CASE Failure
  <2>1. CASE \E m \in net : Fail(m)
    BY <1>1, <2>1 DEF Fail
  <2>2. ASSUME NEW c \in chains, ChainFails(c) \/ ChainDelegateFails(c) PROVE OneChain'
    BY <2>2 DEF ChainFails, ChainDelegateFails, OneChain
  <2>3. CASE Crash
    BY <2>3 DEF Crash, Blank, OneChain
  <2> QED BY <1>5, <2>1, <2>2, <2>3
        DEF Failure, ListLoadFails, LoadFails
<1> QED BY <1>2, <1>3, <1>4, <1>5 DEF Next

\* getLastBlocks never runs twice at a time, and its flag is cleared on every way out,
\* failed and refused requests for the blocks of all or of one delegate included.
THEOREM OneChainCorrect == Spec => []OneChain
<1>1. Init => OneChain
  BY DEF Init, OneChain
<1>2. OneChain /\ [Next]_vars => OneChain'
  BY ChainsStep
<1> QED BY <1>1, <1>2, PTL DEF Spec

-----------------------------------------------------------------------------
(* What is shown only moves on.  The inductive invariant says where every     *)
(* snapshot under way stands between what is shown and the height of the node. *)

\* Only the answers to the first five requests make the monitor live.
Unloaded ==
    /\ phase # "live" =>
         lastBlock = None /\ active = None /\ forgers = None /\ chains = {}
    /\ phase = "failed" => open = {}

\* What a call collects: for both getters its data come from there is a snapshot,
\* or a request that will bring one.
Answered ==
    /\ \A m \in net : m.getter = "Active" /\ m.stage = "get" => m.val # None
    /\ \A b \in open : \A g \in {"Active", "NextForgers"} :
         results[b][g] # None \/ \E m \in net : m.batch = b /\ m.getter = g
    /\ \A b \in BatchId \ open : results[b] = NoResult

\* No snapshot is newer than the node.
Past ==
    /\ lastBlock <= height /\ forgers <= height
    /\ \A m \in net : m.getter # "Active" => m.val <= height
    /\ \A b \in open : \A g \in Getter \ {"Active"} : results[b][g] <= height
    /\ \A c \in chains : c.val <= height

\* No snapshot under way is older than the one it will replace.
Ahead ==
    /\ \A c \in chains : c.stage = "fetch" /\ c.val # None => lastBlock <= c.val
    /\ \A m \in net :
         m.getter = "NextForgers" /\ m.val # None /\ m.batch \in open => forgers <= m.val
    /\ \A b \in open :
         results[b]["NextForgers"] # None => forgers <= results[b]["NextForgers"]

\* The delegates getLastBlocks still looks up show no block, whatever the list has
\* become in between.
Missing ==
    \A c \in chains : c.stage = "each" =>
      /\ \A d \in c.cur \cup c.todo : blocks[d] = Unset
      /\ c.cur \cap c.todo = {}

\* A delegate that is not active carries no flag into the next list.
Marked ==
    \A d \in Delegate : IF d \in ActiveSet THEN flag[d] \in {"unset", Flags(d)}
                                           ELSE flag[d] = "unset"

Fresh == Unloaded /\ Answered /\ Past /\ Ahead /\ Missing /\ Marked

LEMMA Getters == {"Active", "NextForgers", "LastBlock"} \subseteq Getter
BY DEF Getter, InitGetters, UpdateGetters

LEMMA Numbers == /\ Snapshot \subseteq Nat /\ Height \subseteq Snapshot
                 /\ TypeOK => height \in Nat
BY BoundAssumption DEF Snapshot, Height, None, TypeOK

LEMMA FreshInit == Init => Fresh
<1> SUFFICES ASSUME Init PROVE Fresh
  OBVIOUS
<1>1. Unloaded /\ Answered /\ Missing /\ Ahead
  BY DEF Init, Unloaded, Answered, Missing, Ahead, NoResult
<1>2. Past
  BY BoundAssumption DEF Init, Past, None
<1>3. Marked
  BY DEF Init, Marked, ActiveSet, None
<1> QED BY <1>1, <1>2, <1>3 DEF Fresh

LEMMA FreshCrash == ASSUME TypeOK, Crash, UNCHANGED height PROVE Fresh'
<1>1. Unloaded' /\ Answered' /\ Missing' /\ Ahead'
  BY DEF Crash, Blank, Unloaded, Answered, Missing, Ahead, NoResult
<1>2. Past'
  BY Numbers DEF Crash, Blank, Past, None
<1>3. Marked'
  BY DEF Crash, Blank, Marked, ActiveSet, None
<1> QED BY <1>1, <1>2, <1>3 DEF Fresh

\* Steps that only make the node's chain longer, or touch nothing Fresh speaks of.
LEMMA FreshUnchanged ==
    ASSUME TypeOK, Fresh, height' \in Nat, height <= height',
           UNCHANGED <<phase, net, open, results, chains, data>>
    PROVE  Fresh'
<1>1. Unloaded' /\ Answered' /\ Missing' /\ Ahead' /\ Marked'
  BY DEF Fresh, Unloaded, Answered, Missing, Ahead, Marked, data, ActiveSet, Flags
<1>2. Past'
  <2>1. \A v \in Snapshot : v <= height => v <= height'
    BY Numbers
  <2>2. \A m \in net : m.val \in Snapshot
    BY DEF TypeOK, Request
  <2>3. \A c \in chains : c.val \in Snapshot
    BY DEF TypeOK, Chain
  <2>4. \A b \in open : \A g \in Getter : results[b][g] \in Snapshot
    BY DEF TypeOK
  <2> QED BY <2>1, <2>2, <2>3, <2>4 DEF Fresh, Past, data, TypeOK
<1> QED BY <1>1, <1>2 DEF Fresh

\* Requests sent on behalf of a call that begins, or of nobody.
LEMMA FreshAsked ==
    ASSUME TypeOK, CallsInv, Fresh, NEW G \in SUBSET Getter, NEW b, NEW R,
           Asked(R, G, b), UNCHANGED <<height, results, data>>,
           \/ /\ b \in BatchId \ open /\ open = {} /\ open' = {b}
              /\ {"Active", "NextForgers"} \subseteq G
           \/ b = Discarded /\ open' = open
    PROVE  /\ Answered' /\ Marked'
           /\ (\A c \in chains' : c.val <= height) => Past'
           /\ (\A c \in chains' : c.val # None => c \in chains) => Ahead'
<1>1. Discarded \notin open
  BY BatchAssumption DEF TypeOK
<1>2. Marked'
  BY DEF Fresh, Marked, data, ActiveSet, Flags
<1>3. Answered'
  <2>1. \A m \in net' : m.getter = "Active" /\ m.stage = "get" => m.val # None
    BY DEF Asked, Fresh, Answered
  <2>2. \A c \in BatchId \ open' : results'[c] = NoResult
    BY DEF Fresh, Answered
  <2>3. \A c \in open' : \A g \in {"Active", "NextForgers"} :
          results'[c][g] # None \/ \E m \in net' : m.batch = c /\ m.getter = g
    BY DEF Asked, Fresh, Answered
  <2> QED BY <2>1, <2>2, <2>3 DEF Answered
<1>4. \A c \in open' \ open : \A g \in Getter : results'[c][g] = None
  BY DEF Fresh, Answered, NoResult
<1>5. \A m \in R : m.getter # "Active" => m.val = None
  BY DEF Asked
<1>6. None <= height
  BY Numbers DEF None
<1>7. ASSUME \A c \in chains' : c.val <= height PROVE Past'
  BY <1>4, <1>5, <1>6, <1>7 DEF Asked, Fresh, Past, data
<1>8. ASSUME \A c \in chains' : c.val # None => c \in chains PROVE Ahead'
  <2>1. \A m \in net' :
          m.getter = "NextForgers" /\ m.val # None /\ m.batch \in open' => forgers <= m.val
    <3>1. \A m \in net : m.batch \in open \cup {Discarded}
      BY DEF CallsInv
    <3>2. \A m \in net' : m.getter = "NextForgers" /\ m.val # None => m \in net
      BY <1>5 DEF Asked
    <3>3. open # {} => open' = open
      OBVIOUS
    <3>4. \A m \in net : m.batch \in open' => m.batch \in open
      BY <1>1, <3>1, BatchAssumption
    <3> QED BY <3>2, <3>4 DEF Fresh, Ahead
  <2>2. \A c \in open' : results'[c]["NextForgers"] # None =>
                           forgers <= results'[c]["NextForgers"]
    BY <1>4, Getters DEF Fresh, Ahead
  <2> QED BY <1>8, <2>1, <2>2 DEF Fresh, Ahead, data
<1> QED BY <1>2, <1>3, <1>7, <1>8

LEMMA FreshStart == ASSUME TypeOK, CallsInv, Fresh, Start PROVE Fresh'
<1>1. PICK b \in BatchId \ open : Ask(InitGetters, b) /\ open' = open \cup {b}
  BY DEF Start
<1>2. net = {} /\ open = {} /\ chains' = {}
  BY DEF Start, CallsInv, OneOpenCall, Fresh, Unloaded
<1>3. InitGetters \in SUBSET Getter /\ {"Active", "NextForgers"} \subseteq InitGetters
  BY DEF Getter, InitGetters, UpdateGetters
<1>4. PICK R : Asked(R, InitGetters, b)
  BY <1>1, <1>3, AskFacts
<1>5. Answered' /\ Marked' /\ Past' /\ Ahead'
  BY <1>1, <1>2, <1>3, <1>4, FreshAsked DEF Start, env
<1>6. Unloaded' /\ Missing'
  BY <1>2 DEF Start, Fresh, Unloaded, Missing, data
<1> QED BY <1>5, <1>6 DEF Fresh

\* getLastBlocks begins without any answer.
LEMMA ChainBegins ==
    ASSUME StartChain
    PROVE  \A c \in chains' : c \in chains \/ (c.stage = "fetch" /\ c.val = None)
BY DEF StartChain

LEMMA FreshSendUpdates ==
    ASSUME TypeOK, CallsInv, Fresh, SendUpdates, phase = "live",
           UNCHANGED <<height, phase>>
    PROVE  Fresh'
<1>1. PICK G \in SUBSET Getter : G = Idle
  BY DEF Idle, Getter, InitGetters
<1>2. \A m \in net : m.getter \notin G
  BY <1>1 DEF Idle, CallsInv, SingleFlight
<1>3. PICK b : /\ Ask(G, b)
               /\ \/ b \in BatchId \ open /\ open = {} /\ open' = {b} /\ G = UpdateGetters
                  \/ b = Discarded /\ open' = open
  <2>1. CASE Idle = UpdateGetters
    <3>1. open = {}
      BY <1>1, <1>2, <2>1 DEF CallsInv, OneOpenCall
    <3> QED BY <1>1, <2>1, <3>1 DEF SendUpdates, EmitData
  <2>2. CASE Idle # UpdateGetters
    BY <1>1, <2>2 DEF SendUpdates, EmitData
  <2> QED BY <2>1, <2>2
<1>4. PICK R : Asked(R, G, b)
  BY <1>3, AskFacts
<1>5. \A c \in chains' : c \in chains \/ (c.stage = "fetch" /\ c.val = None)
  BY ChainBegins DEF SendUpdates
<1>6. \A c \in chains' : c.val <= height
  BY <1>5, Numbers DEF None, Fresh, Past
<1>7. Answered' /\ Marked' /\ Past' /\ Ahead'
  <2>1. \/ /\ b \in BatchId \ open /\ open = {} /\ open' = {b}
           /\ {"Active", "NextForgers"} \subseteq G
        \/ b = Discarded /\ open' = open
    BY <1>3 DEF UpdateGetters
  <2>2. UNCHANGED <<height, results, data>>
    BY DEF SendUpdates
  <2>3. \A c \in chains' : c.val # None => c \in chains
    BY <1>5
  <2> QED BY <1>4, <1>6, <2>1, <2>2, <2>3, FreshAsked
<1>8. Unloaded' /\ Missing'
  BY <1>5 DEF Fresh, Unloaded, Missing, SendUpdates, data
<1> QED BY <1>7, <1>8 DEF Fresh

\* A request m of call b becomes n, with an answer no newer than the node.
LEMMA FreshServe ==
    ASSUME TypeOK, CallsInv, Fresh, NEW m \in net, Serve(m) \/ ListLoaded(m)
    PROVE  Fresh'
<1> DEFINE n == IF Serve(m) THEN [m EXCEPT !.val = height] ELSE [m EXCEPT !.stage = "get"]
<1>1. /\ n.getter = m.getter /\ n.batch = m.batch
      /\ n.val = IF Serve(m) THEN height ELSE m.val
      /\ n.stage = IF Serve(m) THEN m.stage ELSE "get"
  BY DEF TypeOK, Request
<1>2. /\ net' = (net \ {m}) \cup {n}
      /\ UNCHANGED <<height, phase, open, results, chains, data>>
  BY DEF Serve, ListLoaded, env
<1>3. n.val # None
  <2>1. height # None
    BY BoundAssumption DEF TypeOK, Height, None
  <2> QED BY <1>1, <2>1 DEF ListLoaded
<1>4. m.getter = "NextForgers" => Serve(m) \/ n.val = m.val
  BY <1>1
<1> HIDE DEF n
<1>5. Unloaded' /\ Missing' /\ Marked'
  BY <1>2 DEF Fresh, Unloaded, Missing, Marked, data, ActiveSet, Flags
<1>6. Answered'
  <2>1. \A c \in open : \A g \in {"Active", "NextForgers"} :
          results[c][g] # None \/ \E q \in net' : q.batch = c /\ q.getter = g
    BY <1>1, <1>2 DEF Fresh, Answered
  <2> QED BY <1>1, <1>2, <1>3, <2>1 DEF Fresh, Answered
<1>7. Past'
  <2>1. height <= height
    BY Numbers
  <2>2. m.getter # "Active" => n.val <= height
    BY <1>1, <2>1 DEF Fresh, Past
  <2> QED BY <1>1, <1>2, <2>2 DEF Fresh, Past, data
<1>8. Ahead'
  <2>1. m.getter = "NextForgers" /\ m.batch \in open => forgers <= n.val
    <3>1. forgers <= height
      BY DEF Fresh, Past
    <3>2. ~ Serve(m) => m.val # None
      BY DEF ListLoaded
    <3> QED BY <1>1, <3>1, <3>2 DEF Fresh, Ahead
  <2> QED BY <1>1, <1>2, <2>1 DEF Fresh, Ahead, data
<1> QED BY <1>5, <1>6, <1>7, <1>8 DEF Fresh

LEMMA FreshFail ==
    ASSUME TypeOK, CallsInv, Fresh, NEW m \in net, Fail(m)
    PROVE  Fresh'
<1> DEFINE Orphan(q) == IF q.batch = m.batch THEN [q EXCEPT !.batch = Discarded] ELSE q
<1>1. net' = {Orphan(q) : q \in net \ {m}} /\ open' = open \ {m.batch}
  BY DEF Fail, Forget
<1>2. \A q \in net : /\ Orphan(q).getter = q.getter
                     /\ Orphan(q).stage = q.stage /\ Orphan(q).val = q.val
  BY DEF TypeOK, Request
<1>3. \A q \in net : Orphan(q).batch = IF q.batch = m.batch THEN Discarded ELSE q.batch
  BY DEF TypeOK, Request
<1>4. \A p \in net' : \E q \in net : q # m /\ p = Orphan(q)
  BY <1>1
<1>5. \A q \in net : q # m => Orphan(q) \in net'
  BY <1>1
<1>6. Discarded \notin open
  BY BatchAssumption DEF TypeOK
<1>7. UNCHANGED <<height, chains, data>>
  BY DEF Fail
<1>8. /\ \A c \in open' : results'[c] = results[c]
      /\ \A c \in BatchId : c = m.batch => results'[c] = NoResult
      /\ \A c \in BatchId : c # m.batch => results'[c] = results[c]
  BY <1>1 DEF Fail, Forget, TypeOK
<1> HIDE DEF Orphan
<1>9. Unloaded'
  <2>1. phase' = "live" => phase = "live"
    BY DEF Fail
  <2>2. phase' = "failed" => open' = {}
    <3>1. CASE phase = "starting" /\ m.batch \in open
      BY <1>1, <3>1 DEF CallsInv, OneOpenCall
    <3>2. CASE ~ (phase = "starting" /\ m.batch \in open)
      BY <1>1, <3>2 DEF Fail, Fresh, Unloaded
    <3> QED BY <3>1, <3>2
  <2>3. phase = "live" => phase' = "live"
    BY DEF Fail
  <2> QED BY <1>7, <2>1, <2>2, <2>3 DEF Fresh, Unloaded, data
<1>10. Missing' /\ Marked'
  BY <1>7 DEF Fresh, Missing, Marked, data, ActiveSet, Flags
<1>11. Answered'
  <2>1. \A p \in net' : p.getter = "Active" /\ p.stage = "get" => p.val # None
    BY <1>2, <1>4 DEF Fresh, Answered
  <2>2. ASSUME NEW c \in open', NEW g \in {"Active", "NextForgers"}
        PROVE  results'[c][g] # None \/ \E p \in net' : p.batch = c /\ p.getter = g
    <3>1. results[c][g] # None \/ \E q \in net : q.batch = c /\ q.getter = g
      BY <1>1 DEF Fresh, Answered
    <3>2. ASSUME NEW q \in net, q.batch = c, q.getter = g
          PROVE  \E p \in net' : p.batch = c /\ p.getter = g
      <4>1. q # m /\ q.batch # m.batch
        BY <1>1, <3>2
      <4> QED BY <1>2, <1>3, <1>5, <3>2, <4>1
    <3> QED BY <1>8, <3>1, <3>2
  <2>3. \A c \in BatchId \ open' : results'[c] = NoResult
    BY <1>1, <1>8 DEF Fresh, Answered
  <2> QED BY <2>1, <2>2, <2>3 DEF Answered
<1>12. Past'
  <2>1. \A p \in net' : p.getter # "Active" => p.val <= height
    BY <1>2, <1>4 DEF Fresh, Past
  <2>2. \A c \in open' : \A g \in Getter \ {"Active"} : results'[c][g] <= height
    BY <1>1, <1>8 DEF Fresh, Past
  <2> QED BY <1>7, <2>1, <2>2 DEF Fresh, Past, data
<1>13. Ahead'
  <2>1. ASSUME NEW p \in net', p.getter = "NextForgers", p.val # None, p.batch \in open'
        PROVE  forgers <= p.val
    <3>1. PICK q \in net : q # m /\ p = Orphan(q)
      BY <1>4
    <3>2. q.batch \in open
      BY <1>1, <1>3, <1>6, <2>1, <3>1
    <3> QED BY <1>2, <2>1, <3>1, <3>2 DEF Fresh, Ahead
  <2>2. \A c \in open' : results'[c]["NextForgers"] # None =>
                           forgers <= results'[c]["NextForgers"]
    BY <1>1, <1>8 DEF Fresh, Ahead
  <2> QED BY <1>7, <2>1, <2>2 DEF Fresh, Ahead, data
<1> QED BY <1>9, <1>10, <1>11, <1>12, <1>13 DEF Fresh

\* The last answer of a call: what it collected, r, is there for both getters the data
\* come from, and is not older than what is shown.
LEMMA CompleteFacts ==
    ASSUME TypeOK, CallsInv, Fresh, NEW m \in net, Deliver(m), m.batch \in open,
           Waiting(m.batch) = {m}
    PROVE  \E r \in [Getter -> Snapshot] :
             /\ Complete(r) /\ open' = {} /\ \A c \in BatchId : results'[c] = NoResult
             /\ r["Active"] # None /\ r["NextForgers"] # None
             /\ forgers <= r["NextForgers"] /\ r["NextForgers"] <= height
             /\ r["LastBlock"] <= height
<1> DEFINE r == [results[m.batch] EXCEPT ![m.getter] = m.val]
<1>1. m.val \in Snapshot /\ m.getter \in Getter /\ m.batch \in BatchId
  BY DEF TypeOK, Request
<1>2. r \in [Getter -> Snapshot] /\ Complete(r) /\ Forget(m.batch)
  BY <1>1 DEF Deliver, TypeOK
<1>3. \A g \in Getter : r[g] = IF g = m.getter THEN m.val ELSE results[m.batch][g]
  BY <1>1 DEF TypeOK
<1>4. open' = {} /\ \A c \in BatchId : results'[c] = NoResult
  BY <1>2 DEF Forget, CallsInv, OneOpenCall, Fresh, Answered
<1>5. \A g \in {"Active", "NextForgers"} : g # m.getter => results[m.batch][g] # None
  BY DEF Fresh, Answered, Waiting
<1>6. m.getter \in {"Active", "NextForgers"} => m.val # None
  BY DEF Deliver, NeedsSnapshot, Fresh, Answered
<1>7. r["Active"] # None /\ r["NextForgers"] # None
  BY <1>3, <1>5, <1>6, Getters
<1>8. forgers <= r["NextForgers"]
  BY <1>3, <1>5, <1>6, Getters DEF Fresh, Ahead
<1>9. r["NextForgers"] <= height /\ r["LastBlock"] <= height
  BY <1>1, <1>3, Getters DEF Fresh, Past
<1> HIDE DEF r
<1> QED BY <1>2, <1>4, <1>7, <1>8, <1>9

\* The list, the forgers and the flags of r.
LEMMA MarkedUpdated ==
    ASSUME TypeOK, Fresh, NEW a \in Snapshot, NEW f, NEW h, a # None, UpdateActive(a, f, h)
    PROVE  /\ Marked' /\ forgers' = f
           /\ \A d \in Delegate : blocks'[d] = blocks[d] \/ blocks'[d] = Unset
           /\ \A d \in ActiveSet \cap ActiveSet' : blocks'[d] = blocks[d]
<1>1. active' = a /\ ActiveSet' = TopAt[a]
  BY DEF UpdateActive, ActiveSet
<1>2. CASE active = None
  BY <1>1, <1>2 DEF UpdateActive, Fresh, Marked, ActiveSet, Flags
<1>3. CASE active # None
  <2> DEFINE kept == TopAt[a] \cap ActiveSet
  <2>1. \A d \in Delegate :
          /\ blocks'[d] = IF d \in kept THEN blocks[d] ELSE Unset
          /\ flag'[d] = IF d \notin kept THEN "unset"
                        ELSE IF d \in roundDelegates' THEN "yes" ELSE "no"
    BY <1>3 DEF UpdateActive
  <2>2. Marked'
    <3>1. \A d \in Delegate : flag'[d] \in {"unset", Flags(d)'}
      BY <2>1 DEF Flags
    <3>2. \A d \in Delegate : d \notin TopAt[a] => flag'[d] = "unset"
      BY <2>1
    <3> QED BY <1>1, <3>1, <3>2 DEF Marked
  <2>3. \A d \in ActiveSet \cap ActiveSet' : d \in kept /\ d \in Delegate
    BY <1>1, ActiveSetType
  <2> HIDE DEF kept
  <2> QED BY <2>1, <2>2, <2>3 DEF UpdateActive
<1> QED BY <1>2, <1>3 DEF UpdateActive

LEMMA BlocksInt == ASSUME TypeOK PROVE \A d \in Delegate : blocks[d] \in Int
<1>1. blocks \in [Delegate -> Snapshot \cup {Unset}]
  BY DEF TypeOK
<1>2. Snapshot \cup {Unset} \subseteq Int
  BY Numbers DEF Unset
<1> QED BY <1>1, <1>2

LEMMA CompleteData ==
    ASSUME TypeOK, CallsInv, Fresh, NEW m \in net, Deliver(m), m.batch \in open,
           Waiting(m.batch) = {m}
    PROVE  Fresh' /\ Onwards
<1>1. PICK r \in [Getter -> Snapshot] :
             /\ Complete(r) /\ open' = {} /\ \A c \in BatchId : results'[c] = NoResult
             /\ r["Active"] # None /\ r["NextForgers"] # None
             /\ forgers <= r["NextForgers"] /\ r["NextForgers"] <= height
             /\ r["LastBlock"] <= height
  BY CompleteFacts
<1>2. net' = net \ {m} /\ height' = height
  BY DEF Deliver, env
<1>3. r["Active"] \in Snapshot
  BY <1>1, Getters
<1>4. PICK h : UpdateActive(r["Active"], r["NextForgers"], h)
  BY <1>1 DEF Complete
<1>5. /\ Marked' /\ forgers' = r["NextForgers"]
      /\ \A d \in Delegate : blocks'[d] = blocks[d] \/ blocks'[d] = Unset
      /\ \A d \in ActiveSet \cap ActiveSet' : blocks'[d] = blocks[d]
  BY <1>1, <1>3, <1>4, MarkedUpdated
<1>6. lastBlock <= lastBlock' /\ lastBlock' <= height
  <2>1. CASE phase = "starting"
    <3>1. lastBlock = None /\ lastBlock' = r["LastBlock"] /\ r["LastBlock"] \in Nat
      BY <1>1, <2>1, Getters, Numbers DEF Complete, Fresh, Unloaded
    <3> QED BY <1>1, <3>1 DEF None
  <2>2. CASE phase # "starting"
    <3>1. lastBlock' = lastBlock /\ lastBlock \in Nat
      BY <1>1, <2>2, Numbers DEF Complete, TypeOK
    <3> QED BY <3>1 DEF Fresh, Past
  <2> QED BY <2>1, <2>2
<1>7. phase = "live" \/ phase = "starting"
  BY DEF Fresh, Unloaded, CallsInv, TypeOK
<1>8. phase' = "live"
  BY <1>1, <1>7 DEF Complete
<1>9. /\ chains' = chains \/ \A c \in chains' : c.stage = "fetch" /\ c.val = None
      /\ phase = "starting" \/ (chains' = chains /\ lastBlock' = lastBlock)
  <2>1. CASE phase = "starting"
    <3>1. chains = {} /\ StartChain
      BY <1>1, <2>1 DEF Complete, Fresh, Unloaded
    <3> QED BY <2>1, <3>1, ChainBegins
  <2>2. CASE phase # "starting"
    BY <1>1, <2>2 DEF Complete
  <2> QED BY <2>1, <2>2
<1>10. Missing'
  <2>1. \A c \in chains : c \in Chain
    BY DEF TypeOK
  <2>2. \A c \in chains : c.stage = "each" =>
          \A d \in c.cur \cup c.todo : d \in Delegate /\ blocks'[d] = Unset
    BY <1>5, <2>1 DEF Fresh, Missing, Chain
  <2> QED BY <1>9, <2>2 DEF Fresh, Missing
<1>11. Past'
  <2>1. \A c \in chains' : c.val <= height
    BY <1>9, Numbers DEF Fresh, Past, None
  <2> QED BY <1>1, <1>2, <1>5, <1>6, <2>1 DEF Fresh, Past
<1>12. Ahead'
  <2>1. \A c \in chains' : c.stage = "fetch" /\ c.val # None => lastBlock' <= c.val
    <3>1. phase = "starting" => chains = {}
      BY DEF Fresh, Unloaded
    <3> QED BY <1>9, <3>1 DEF Fresh, Ahead
  <2> QED BY <1>1, <2>1 DEF Ahead
<1>13. Unloaded' /\ Answered'
  BY <1>1, <1>2, <1>8 DEF Fresh, Unloaded, Answered
<1>14. Onwards
  <2>1. \A d \in ActiveSet \cap ActiveSet' : blocks'[d] >= blocks[d]
    <3>1. \A d \in Delegate : blocks[d] \in Int
      BY BlocksInt
    <3> QED BY <1>5, <3>1, ActiveSetType
  <2>2. forgers' >= forgers
    BY <1>1, <1>5
  <2>3. lastBlock' >= lastBlock
    BY <1>6
  <2> QED BY <2>1, <2>2, <2>3 DEF Onwards
<1> QED BY <1>5, <1>10, <1>11, <1>12, <1>13, <1>14 DEF Fresh

\* An answer nothing is put together from yet.
LEMMA FreshCollected ==
    ASSUME TypeOK, CallsInv, Fresh, NEW m \in net, Deliver(m),
           ~ (m.batch \in open /\ Waiting(m.batch) = {m})
    PROVE  Fresh' /\ UNCHANGED data
<1>1. /\ net' = net \ {m}
      /\ UNCHANGED <<height, phase, open, chains, data>>
  BY DEF Deliver, env
<1>2. m.val \in Snapshot /\ m.getter \in Getter /\ m.batch \in BatchId \cup {Discarded}
  BY DEF TypeOK, Request
<1>3. \A c \in BatchId : \A g \in Getter :
        results'[c][g] = IF m.batch \in open /\ c = m.batch /\ g = m.getter
                         THEN m.val ELSE results[c][g]
  BY <1>2 DEF Deliver, TypeOK
<1>4. \A c \in BatchId \ open : results'[c] = results[c]
  BY DEF Deliver, TypeOK
<1>5. m.getter \in {"Active", "NextForgers"} => m.val # None
  BY DEF Deliver, NeedsSnapshot, Fresh, Answered
<1>6. open \subseteq BatchId
  BY DEF TypeOK
<1>7. Unloaded' /\ Missing' /\ Marked'
  BY <1>1 DEF Fresh, Unloaded, Missing, Marked, data, ActiveSet, Flags
<1>8. Answered'
  <2>1. ASSUME NEW c \in open, NEW g \in {"Active", "NextForgers"}
        PROVE  results'[c][g] # None \/ \E q \in net' : q.batch = c /\ q.getter = g
    <3>1. CASE m.batch = c /\ m.getter = g
      BY <1>3, <1>5, <1>6, <3>1, Getters
    <3>2. CASE ~ (m.batch = c /\ m.getter = g)
      <4>1. results'[c][g] = results[c][g]
        BY <1>3, <1>6, <3>2, Getters
      <4>2. \A q \in net : q.batch = c /\ q.getter = g => q \in net'
        BY <1>1, <3>2
      <4> QED BY <4>1, <4>2 DEF Fresh, Answered
    <3> QED BY <3>1, <3>2
  <2> QED BY <1>1, <1>4, <2>1 DEF Fresh, Answered
<1>9. Past'
  <2>1. \A c \in open : \A g \in Getter \ {"Active"} : results'[c][g] <= height
    BY <1>3, <1>6 DEF Fresh, Past
  <2> QED BY <1>1, <2>1 DEF Fresh, Past, data
<1>10. Ahead'
  <2>1. \A c \in open : results'[c]["NextForgers"] # None =>
                          forgers <= results'[c]["NextForgers"]
    BY <1>3, <1>6, Getters DEF Fresh, Ahead
  <2> QED BY <1>1, <2>1 DEF Fresh, Ahead, data
<1> QED BY <1>1, <1>7, <1>8, <1>9, <1>10 DEF Fresh

-----------------------------------------------------------------------------
(* The steps of getLastBlocks. *)

\* A step of getLastBlocks that leaves the forgers, the list and the calls alone.
LEMMA FreshChain ==
    ASSUME TypeOK, OneChain, Fresh, phase = "live",
           UNCHANGED <<height, phase, net, open, results, active, forgers, roundDelegates>>,
           lastBlock' \in Snapshot, lastBlock' <= height,
           \A c \in chains' : \/ c.stage = "each" /\ c.val = None
                              \/ c.stage = "each" /\ c.val <= height
                              \/ /\ c.stage = "fetch" /\ c.val <= height
                                 /\ c.val # None => lastBlock' <= c.val,
           Missing', Marked'
    PROVE  Fresh'
<1>1. Unloaded' /\ Answered'
  BY DEF Fresh, Unloaded, Answered
<1>2. None <= height
  BY Numbers DEF None
<1>3. Past'
  BY <1>2 DEF Fresh, Past
<1>4. Ahead'
  BY DEF Fresh, Ahead
<1> QED BY <1>1, <1>3, <1>4 DEF Fresh

\* getLastBlocks goes on with delegates that show no block.
LEMMA MissingNext ==
    ASSUME OneChain, NEW c \in chains, NEW S, NextDelegate(c, S),
           \A d \in S : blocks'[d] = Unset
    PROVE  Missing' /\ \A x \in chains' : x.stage = "each" /\ x.val = None
<1>1. chains \ {c} = {}
  BY DEF OneChain
<1>2. CASE S = {}
  BY <1>1, <1>2 DEF NextDelegate, Missing
<1>3. CASE S # {}
  <2>1. PICK d \in S :
          chains' = {[stage |-> "each", val |-> None, cur |-> {d}, todo |-> S \ {d}]}
    BY <1>1, <1>3 DEF NextDelegate
  <2> QED BY <2>1 DEF Missing
<1> QED BY <1>2, <1>3

\* Flags that ShowBlocks writes are those of the delegates whose block it shows.
LEMMA MarkedShown ==
    ASSUME TypeOK, Marked, NEW B, DOMAIN B \subseteq ActiveSet, ShowBlocks(B),
           UNCHANGED <<active, roundDelegates>>
    PROVE  Marked'
BY ActiveSetType DEF Marked, ShowBlocks, ActiveSet, Flags

LEMMA FreshServeChain ==
    ASSUME TypeOK, OneChain, Fresh, NEW c \in chains, ServeChain(c)
    PROVE  Fresh' /\ UNCHANGED data
<1>1. phase = "live" /\ chains \ {c} = {} /\ c \in Chain
  BY DEF Fresh, Unloaded, OneChain, TypeOK
<1>2. UNCHANGED <<height, phase, net, open, results, data>>
  BY DEF ServeChain, env
<1> DEFINE n == [c EXCEPT !.val = height]
<1>3. /\ chains' = {n}
      /\ n.stage = c.stage /\ n.cur = c.cur /\ n.todo = c.todo /\ n.val = height
  <2>1. /\ n.stage = c.stage /\ n.cur = c.cur /\ n.todo = c.todo /\ n.val = height
    BY <1>1 DEF Chain
  <2>2. chains' = (chains \ {c}) \cup {n}
    BY DEF ServeChain
  <2> HIDE DEF n
  <2> QED BY <1>1, <2>1, <2>2
<1> HIDE DEF n
<1>4. Missing' /\ Marked'
  BY <1>2, <1>3 DEF Fresh, Missing, Marked, data, ActiveSet, Flags
<1>5. height <= height /\ lastBlock <= height
  BY Numbers DEF Fresh, Past
<1>6. c.stage \in {"fetch", "each"}
  BY <1>1 DEF Chain
<1> QED BY <1>1, <1>2, <1>3, <1>4, <1>5, <1>6, FreshChain DEF data, TypeOK

LEMMA FreshChainBlocks ==
    ASSUME TypeOK, OneChain, Fresh, NEW c \in chains, ChainBlocks(c)
    PROVE  Fresh' /\ Onwards
<1> DEFINE Found(d) == NewestBlock(d, c.val, BlocksLimit)
           newer == {d \in ActiveSet : Found(d) > 0 /\ Found(d) > blocks[d]}
           B == [d \in newer |-> Found(d)]
           S == {d \in ActiveSet : blocks'[d] = Unset}
<1>1. phase = "live" /\ c.val \in Snapshot
  BY DEF Fresh, Unloaded, TypeOK, Chain
<1>2. UNCHANGED <<height, phase, net, open, results, active, forgers, roundDelegates>>
  BY DEF ChainBlocks, env
<1>3. ShowBlocks(B) /\ NextDelegate(c, S) /\ lastBlock' = c.val
  BY DEF ChainBlocks
<1>4. Missing' /\ \A x \in chains' : x.stage = "each" /\ x.val = None
  <2>1. \A d \in S : blocks'[d] = Unset
    OBVIOUS
  <2> HIDE DEF S
  <2> QED BY <1>3, <2>1, MissingNext
<1>5. Marked'
  <2>1. DOMAIN B \subseteq ActiveSet
    OBVIOUS
  <2> HIDE DEF B
  <2> QED BY <1>2, <1>3, <2>1, MarkedShown DEF Fresh
<1>6. lastBlock <= lastBlock' /\ lastBlock' <= height
  BY <1>3 DEF ChainBlocks, Fresh, Past, Ahead
<1>7. Fresh'
  BY <1>1, <1>2, <1>3, <1>4, <1>5, <1>6, FreshChain
<1>8. \A d \in ActiveSet : blocks'[d] >= blocks[d]
  <2>1. \A d \in Delegate : blocks'[d] = IF d \in newer THEN Found(d) ELSE blocks[d]
    BY <1>3 DEF ShowBlocks
  <2>2. \A d \in Delegate : Found(d) \in Nat
    BY <1>1, RoundAssumption, NewestBlockSnapshot, Numbers DEF ChainBlocks
  <2>3. \A d \in newer : Found(d) > blocks[d]
    OBVIOUS
  <2>4. \A d \in Delegate : blocks[d] \in Int
    BY BlocksInt
  <2> HIDE DEF newer, Found
  <2> QED BY <2>1, <2>2, <2>3, <2>4, ActiveSetType
<1>9. forgers' >= forgers
  BY <1>2, Numbers DEF TypeOK
<1> QED BY <1>1, <1>2, <1>6, <1>7, <1>8, <1>9 DEF Onwards, ActiveSet

LEMMA FreshChainDelegate ==
    ASSUME TypeOK, OneChain, Fresh, NEW c \in chains, ChainDelegate(c)
    PROVE  Fresh' /\ Onwards
<1> DEFINE B == [d \in c.cur \cap ActiveSet |-> NewestBlock(d, c.val, c.val)]
<1>1. phase = "live" /\ c \in Chain
  BY DEF Fresh, Unloaded, TypeOK
<1>2. UNCHANGED <<height, phase, net, open, results, active, forgers, roundDelegates,
                  lastBlock>>
  BY DEF ChainDelegate, env
<1>3. ShowBlocks(B) /\ NextDelegate(c, c.todo)
  BY DEF ChainDelegate
<1>4. \A d \in Delegate : blocks'[d] = IF d \in c.cur \cap ActiveSet
                                      THEN NewestBlock(d, c.val, c.val) ELSE blocks[d]
  BY <1>3 DEF ShowBlocks
<1>5. Missing' /\ \A x \in chains' : x.stage = "each" /\ x.val = None
  <2>1. \A d \in c.todo : blocks[d] = Unset /\ d \notin c.cur /\ d \in Delegate
    BY <1>1 DEF Fresh, Missing, ChainDelegate, Chain
  <2>2. \A d \in c.todo : blocks'[d] = Unset
    BY <1>4, <2>1
  <2> QED BY <1>3, <2>2, MissingNext
<1>6. Marked'
  <2>1. DOMAIN B \subseteq ActiveSet
    OBVIOUS
  <2> HIDE DEF B
  <2> QED BY <1>2, <1>3, <2>1, MarkedShown DEF Fresh
<1>7. lastBlock' \in Nat /\ lastBlock' \in Snapshot /\ lastBlock' <= height
  BY <1>2, Numbers DEF Fresh, Past, TypeOK
<1>8. Fresh'
  BY <1>1, <1>2, <1>5, <1>6, <1>7, FreshChain
<1>9. \A d \in ActiveSet : blocks'[d] >= blocks[d]
  <2>1. \A d \in Delegate : NewestBlock(d, c.val, c.val) \in Nat
    <3>1. c.val \in Snapshot /\ c.val # None /\ c.val \in Nat
      BY <1>1, Numbers DEF Chain, ChainDelegate
    <3> QED BY <3>1, NewestBlockSnapshot, Numbers
  <2>2. \A d \in c.cur : blocks[d] = -1
    BY DEF Fresh, Missing, ChainDelegate, Unset
  <2>3. \A d \in Delegate : blocks[d] \in Int
    BY BlocksInt
  <2> QED BY <1>4, <2>1, <2>2, <2>3, ActiveSetType
<1>10. forgers' >= forgers /\ lastBlock' >= lastBlock
  BY <1>2, <1>7, Numbers DEF TypeOK
<1> QED BY <1>1, <1>2, <1>8, <1>9, <1>10 DEF Onwards, ActiveSet

\* A request of getLastBlocks fails or is refused: the call ends.
LEMMA FreshChainFailures ==
    ASSUME TypeOK, OneChain, Fresh, NEW c \in chains, ChainFails(c) \/ ChainDelegateFails(c)
    PROVE  Fresh' /\ UNCHANGED data
<1>1. phase = "live" /\ chains \ {c} = {}
  BY DEF Fresh, Unloaded, OneChain
<1>2. UNCHANGED <<height, phase, net, open, results, data>>
  BY DEF ChainFails, ChainDelegateFails
<1>3. Missing' /\ chains' = {}
  BY <1>1 DEF ChainFails, ChainDelegateFails, Missing
<1>4. Marked'
  BY <1>2 DEF Fresh, Marked, data, ActiveSet, Flags
<1>5. lastBlock <= height
  BY DEF Fresh, Past
<1> QED BY <1>1, <1>2, <1>3, <1>4, <1>5, FreshChain DEF data, TypeOK

\* While the process runs, no step takes what is shown back.
LEMMA FreshStep ==
    ASSUME TypeOK, CallsInv, OneChain, Fresh, [Next]_vars
    PROVE  Fresh' /\ Onwards
<1>1. ASSUME UNCHANGED data PROVE Onwards
  <2>1. \A d \in ActiveSet : blocks[d] \in Int
    BY ActiveSetType, BlocksInt
  <2>2. lastBlock \in Nat /\ forgers \in Nat
    BY Numbers DEF TypeOK
  <2> QED BY <1>1, <2>1, <2>2 DEF Onwards, data
<1>2. CASE Start
  BY <1>1, <1>2, FreshStart DEF Start
<1>3. CASE BlocksChange \/ Timer
  <2>1. SendUpdates /\ phase = "live" /\ UNCHANGED <<height, phase>>
    BY <1>3 DEF BlocksChange, Timer, env
  <2> QED BY <1>1, <2>1, FreshSendUpdates DEF SendUpdates
<1>4. CASE \/ RoundsChange \/ Connect \/ ServeLoad \/ \E v \in loads : LoadDone(v)
           \/ UNCHANGED vars
  <2>1. UNCHANGED <<height, phase, net, open, results, chains, data>>
    BY <1>4 DEF RoundsChange, Connect, ServeLoad, LoadDone, vars, calls, env, data
  <2>2. height' \in Nat /\ height <= height'
    BY <2>1, Numbers
  <2> QED BY <1>1, <2>1, <2>2, FreshUnchanged
<1>5. CASE NewBlock
  <2>1. UNCHANGED <<phase, net, open, results, chains, data>>
    BY <1>5 DEF NewBlock, calls
  <2>2. height' \in Nat /\ height <= height'
    BY <1>5, Numbers DEF NewBlock
  <2> QED BY <1>1, <2>1, <2>2, FreshUnchanged
<1>6. CASE Answer
  <2>1. ASSUME NEW m \in net, Serve(m) \/ ListLoaded(m) PROVE Fresh' /\ Onwards
    BY <1>1, <2>1, FreshServe DEF Serve, ListLoaded
  <2>2. ASSUME NEW m \in net, Deliver(m) PROVE Fresh' /\ Onwards
    BY <1>1, <2>2, CompleteData, FreshCollected
  <2>3. ASSUME NEW c \in chains, ServeChain(c) \/ ChainBlocks(c) \/ ChainDelegate(c)
        PROVE  Fresh' /\ Onwards
    BY <1>1, <2>3, FreshServeChain, FreshChainBlocks, FreshChainDelegate
  <2> QED BY <1>4, <1>6, <2>1, <2>2, <2>3 DEF Answer
<1>7. CASE Failure
  <2>1. ASSUME NEW m \in net, Fail(m) PROVE Fresh' /\ Onwards
    BY <1>1, <2>1, FreshFail DEF Fail
  <2>2. ASSUME NEW c \in chains, ChainFails(c) \/ ChainDelegateFails(c)
        PROVE  Fresh' /\ Onwards
    BY <1>1, <2>2, FreshChainFailures
  <2>3. CASE Crash /\ UNCHANGED height
    BY <2>3, FreshCrash DEF Onwards, Crash
  <2> QED BY <1>7, <2>1, <2>2, <2>3
        DEF Failure, ListLoadFails, LoadFails
<1> QED BY <1>2, <1>3, <1>4, <1>5, <1>6, <1>7 DEF Next

\* The inductive invariant, and what every step does to what is shown.
THEOREM FreshCorrect == Spec => [](TypeOK /\ CallsInv /\ OneChain /\ Fresh)
<1> DEFINE Inv == TypeOK /\ CallsInv /\ OneChain /\ Fresh
<1>1. Init => Inv
  BY TypeInit, CallsInit, FreshInit DEF Init, OneChain
<1>2. Inv /\ [Next]_vars => Inv'
  BY TypeStep, CallsStep, ChainsStep, FreshStep
<1> QED BY <1>1, <1>2, PTL DEF Spec

\* isRoundDelegate of an active delegate agrees with tmpData.roundDelegates, in whatever
\* order updateActive and getLastBlocks write it.
THEOREM FlagsCorrect == Spec => []FlagsAgree
<1>1. TypeOK /\ Fresh => FlagsAgree
  BY ActiveSetType DEF Fresh, Marked, FlagsAgree
<1> QED BY <1>1, FreshCorrect, PTL

\* While the process runs, the last block, the next forgers and the block of a delegate
\* that stays active never go back in the chain, whatever answers overtake each other.
THEOREM NothingGoesBackCorrect == Spec => NothingGoesBack
<1>1. TypeOK /\ CallsInv /\ OneChain /\ Fresh /\ [Next]_vars => [Onwards]_vars
  BY FreshStep
<1> QED BY <1>1, FreshCorrect, PTL DEF Spec, NothingGoesBack

-----------------------------------------------------------------------------
(* The delegates with a slot left in the round. *)

\* Slots of the round of height h come less than a round after it.
LEMMA SameRound ==
    ASSUME NEW h \in Nat, NEW s \in Nat, Round(s) = Round(h), s > h
    PROVE  s < h + RoundLength
<1> DEFINE q == Round(h)
<1>1. RoundLength \in Nat /\ RoundLength > 0
  BY RoundAssumption
<1>2. q = (h + RoundLength - 1) \div RoundLength /\ q = (s + RoundLength - 1) \div RoundLength
  BY DEF Round
<1>3. q \in Int /\ RoundLength * q <= h + RoundLength - 1
  BY <1>1, <1>2
<1>4. s + RoundLength - 1 < RoundLength * q + RoundLength
  BY <1>1, <1>2
<1> HIDE DEF q
<1> QED BY <1>1, <1>3, <1>4

\* The forgers announced at a height that getRoundDelegates keeps for this very height
\* are those of the slots left in its round.
LEMMA RoundDelegatesAreLeft ==
    ASSUME NEW h \in Height
    PROVE  RoundDelegates(h, h) = StillToForge(h)
<1>1. RoundLength \in Nat /\ MaxHeight \in Nat /\ h \in Nat /\ h >= 1 /\ h <= MaxHeight
  BY RoundAssumption, BoundAssumption DEF Height
<1>2. \A i \in 1 .. RoundLength : h + i \in Slot /\ h + i > h
  BY <1>1 DEF Slot
<1>3. ASSUME NEW t \in Slot, t > h, Round(t) = Round(h)
      PROVE  \E i \in 1 .. RoundLength : t = h + i /\ Round(h + i) = Round(h)
  <2>1. t \in Nat /\ t < h + RoundLength
    BY <1>1, <1>3, SameRound DEF Slot
  <2>2. t - h \in 1 .. RoundLength /\ t = h + (t - h)
    BY <1>1, <1>3, <2>1
  <2> QED BY <1>3, <2>2
<1>4. RoundDelegates(h, h) \subseteq StillToForge(h)
  BY <1>2 DEF RoundDelegates, StillToForge
<1>5. StillToForge(h) \subseteq RoundDelegates(h, h)
  <2>1. ASSUME NEW x \in StillToForge(h) PROVE x \in RoundDelegates(h, h)
    <3>1. PICK t \in Slot : t > h /\ Round(t) = Round(h) /\ x = Forger[t]
      BY DEF StillToForge
    <3>2. PICK i \in 1 .. RoundLength : t = h + i /\ Round(h + i) = Round(h)
      BY <1>3, <3>1
    <3> QED BY <3>1, <3>2 DEF RoundDelegates
  <2> QED BY <2>1
<1> QED BY <1>4, <1>5

\* No slot belongs to the round of an empty chain.
LEMMA NothingLeft == StillToForge(None) = {}
<1>1. RoundLength \in Nat /\ RoundLength > 0
  BY RoundAssumption
<1>2. ASSUME NEW t \in Slot, Round(t) = Round(None) PROVE FALSE
  <2>1. t \in Nat /\ t >= 1
    BY <1>1, BoundAssumption DEF Slot
  <2>2. (t + RoundLength - 1) \div RoundLength >= 1
    BY <1>1, <2>1
  <2>3. Round(None) = (RoundLength - 1) \div RoundLength
    BY <1>1 DEF Round, None
  <2>4. (RoundLength - 1) \div RoundLength = 0
    BY <1>1
  <2>5. Round(t) >= 1
    BY <2>2 DEF Round
  <2> QED BY <1>2, <2>3, <2>4, <2>5
<1> QED BY <1>2 DEF StillToForge

LEMMA RoundStep ==
    ASSUME TypeOK, CallsInv, Fresh, [Next]_vars
    PROVE  RoundFits
<1> SUFFICES ASSUME forgers' # forgers, forgers' = lastBlock'
             PROVE  roundDelegates' = StillToForge(forgers')
  BY DEF RoundFits
<1>1. CASE Crash
  BY <1>1, NothingLeft DEF Crash, Blank
<1>2. ASSUME NEW m \in net, Deliver(m), m.batch \in open, Waiting(m.batch) = {m}
      PROVE  roundDelegates' = StillToForge(forgers')
  <2>1. PICK r \in [Getter -> Snapshot] :
          Complete(r) /\ r["Active"] # None /\ r["NextForgers"] # None
    BY <1>2, CompleteFacts
  <2>2. UpdateActive(r["Active"], r["NextForgers"], lastBlock')
    BY <2>1 DEF Complete
  <2>3. forgers' \in Height /\ roundDelegates' = RoundDelegates(forgers', forgers')
    BY <2>1, <2>2, Getters DEF UpdateActive, Snapshot
  <2> QED BY <2>3, RoundDelegatesAreLeft
<1>3. ASSUME UNCHANGED forgers PROVE FALSE
  BY <1>3
<1>4. CASE Answer
  <2>1. ASSUME NEW m \in net, Deliver(m) PROVE roundDelegates' = StillToForge(forgers')
    BY <1>2, <1>3, <2>1, FreshCollected DEF data
  <2> QED BY <1>3, <1>4, <2>1 DEF Answer, Serve, ListLoaded, ServeChain, ChainBlocks,
                                 ChainDelegate, ServeLoad, LoadDone, data
<1>5. CASE Failure
  BY <1>1, <1>3, <1>5 DEF Failure, ListLoadFails, Fail, ChainFails, ChainDelegateFails,
                          LoadFails, data
<1>6. CASE Start \/ BlocksChange \/ Timer \/ RoundsChange \/ Connect \/ NewBlock \/ UNCHANGED vars
  BY <1>3, <1>6 DEF Start, BlocksChange, Timer, SendUpdates, RoundsChange, Connect,
                    NewBlock, data, vars
<1> QED BY <1>4, <1>5, <1>6 DEF Next

\* updateActive, given the forgers of the height of the last block it knows, finds exactly
\* the delegates with a slot left in that round.
THEOREM RoundDelegatesCorrect == Spec => RoundDelegatesExact
<1>1. TypeOK /\ CallsInv /\ OneChain /\ Fresh /\ [Next]_vars => [RoundFits]_vars
  BY RoundStep
<1> QED BY <1>1, FreshCorrect, PTL DEF Spec, RoundDelegatesExact
==============================================================================
