------------------------- MODULE ActivityGraphProofs -------------------------
(***************************************************************************)
(* The invariants of ActivityGraph for every set of clients and all bounds. *)
(***************************************************************************)
EXTENDS ActivityGraph, TLAPS

\* No client has been shown more than the data hold, and one that is not
\* connected has been shown nothing.
Bound == \A c \in Client : view[c] <= (IF c \in connected THEN data ELSE Nothing)

\* Timers follow the clients, the flag follows the request, and views stay within
\* the data.
Inv == TypeOK /\ OneTimer /\ FlagMatchesRequest /\ Bound

\* The requests the code writes are requests.
LEMMA RequestTypes ==
  /\ NoRequest \in Request /\ NoRequest.stage = "none"
  /\ [NoRequest EXCEPT !.stage = "block"] \in Request
  /\ [NoRequest EXCEPT !.stage = "block"].stage = "block"
  /\ Nothing \in 0 .. MaxHeight
  BY BoundAssumption DEF NoRequest, Request, Nothing

\* The initial states satisfy the inductive invariant.
LEMMA InitInv == Init => Inv
<1>. SUFFICES ASSUME Init PROVE Inv
  OBVIOUS
<1>1. TypeOK
  <2>1. /\ height \in 1 .. MaxHeight /\ faults \in 0 .. MaxFaults
        /\ forks \in 0 .. MaxForks /\ timers \in 0 .. 1
    BY BoundAssumption DEF Init
  <2>2. data \in 0 .. MaxHeight /\ view \in [Client -> 0 .. MaxHeight]
    BY RequestTypes DEF Init
  <2>3. request \in Request /\ connected \in SUBSET Client
    BY RequestTypes DEF Init
  <2>4. interval \in BOOLEAN /\ running \in BOOLEAN
    BY DEF Init
  <2>. QED  BY <2>1, <2>2, <2>3, <2>4 DEF TypeOK
<1>2. OneTimer /\ FlagMatchesRequest
  BY RequestTypes DEF Init, OneTimer, FlagMatchesRequest
<1>3. Bound
  BY DEF Init, Bound, Nothing
<1>. QED  BY <1>1, <1>2, <1>3 DEF Inv

\* What a call that completes does to the data and the views.
LEMMA CompleteFacts ==
  ASSUME Inv, NEW b \in 0 .. MaxHeight, Complete(b)
  PROVE  /\ running' = FALSE /\ request' = NoRequest
         /\ data' \in 0 .. MaxHeight /\ data' >= data
         /\ view' = [c \in Client |-> IF c \in connected THEN data' ELSE view[c]]
         /\ view' \in [Client -> 0 .. MaxHeight]
<1>1. data' \in 0 .. MaxHeight /\ data' >= data
  BY BoundAssumption DEF Complete, IsNew, Nothing, Inv, TypeOK
<1>2. view' = [c \in Client |-> IF c \in connected THEN data' ELSE view[c]]
  BY DEF Complete, Emit
<1>. QED  BY <1>1, <1>2 DEF Complete, Inv, TypeOK

\* What a timer or a first client does to the request and the views.
LEMMA EmitFacts ==
  ASSUME Inv, NEW to, EmitLastBlock(to)
  PROVE  /\ running' \in BOOLEAN /\ request' \in Request
         /\ running' <=> request'.stage # "none"
         /\ view' \in [Client -> 0 .. MaxHeight]
         /\ \A c \in Client : view'[c] = view[c] \/ (c \in to /\ view'[c] = data)
<1>1. CASE running
  <2>1. view' = [c \in Client |-> IF c \in to THEN data ELSE view[c]]
    BY <1>1 DEF EmitLastBlock, Emit
  <2>2. running' = running /\ request' = request
    BY <1>1 DEF EmitLastBlock
  <2>3. running \in BOOLEAN /\ request \in Request /\ (running <=> request.stage # "none")
    BY DEF Inv, TypeOK, FlagMatchesRequest
  <2>. QED  BY <2>1, <2>2, <2>3 DEF Inv, TypeOK
<1>2. CASE ~running
  <2>1. /\ running' = TRUE /\ view' = view
        /\ request' = [NoRequest EXCEPT !.stage = "block"]
    BY <1>2 DEF EmitLastBlock
  <2>. QED  BY <2>1, RequestTypes DEF Inv, TypeOK
<1>. QED  BY <1>1, <1>2 DEF Inv, TypeOK

\* Every step keeps the inductive invariant.
LEMMA NextInv == Inv /\ [Next]_vars => Inv'
<1>. SUFFICES ASSUME Inv, [Next]_vars PROVE Inv'
  OBVIOUS
<1>. USE DEF node, clients
<1>1. CASE NewBlock
  <2>6. TypeOK'
    BY <1>1, BoundAssumption DEF NewBlock, Inv, TypeOK
  <2>7. OneTimer'
    BY <1>1 DEF NewBlock, Inv, TypeOK, OneTimer
  <2>8. FlagMatchesRequest'
    BY <1>1 DEF NewBlock, Inv, FlagMatchesRequest
  <2>9. Bound'
    BY <1>1 DEF NewBlock, Inv, TypeOK, Bound, Nothing
  <2>. QED  BY <2>6, <2>7, <2>8, <2>9 DEF Inv
<1>2. CASE Fork
  <2>6. TypeOK'
    BY <1>2, BoundAssumption DEF Fork, Inv, TypeOK
  <2>7. OneTimer'
    BY <1>2 DEF Fork, Inv, TypeOK, OneTimer
  <2>8. FlagMatchesRequest'
    BY <1>2 DEF Fork, Inv, FlagMatchesRequest
  <2>9. Bound'
    BY <1>2 DEF Fork, Inv, TypeOK, Bound, Nothing
  <2>. QED  BY <2>6, <2>7, <2>8, <2>9 DEF Inv
<1>3. CASE Serve
  <2>1. request' \in Request /\ request.stage # "none" /\ request'.stage # "none"
    BY <1>3 DEF Serve, Inv, TypeOK, Request
  <2>6. TypeOK'
    BY <1>3, <2>1 DEF Serve, Inv, TypeOK
  <2>7. OneTimer'
    BY <1>3 DEF Serve, Inv, TypeOK, OneTimer
  <2>8. FlagMatchesRequest'
    BY <1>3, <2>1 DEF Serve, Inv, FlagMatchesRequest
  <2>9. Bound'
    BY <1>3 DEF Serve, Inv, TypeOK, Bound, Nothing
  <2>. QED  BY <2>6, <2>7, <2>8, <2>9 DEF Inv
<1>4. CASE BlockArrives /\ request.block \in Filled
  <2>1. /\ request' \in Request /\ request.stage # "none" /\ request'.stage # "none"
        /\ UNCHANGED <<running, data, view, node, clients>>
    BY <1>4 DEF BlockArrives, Inv, TypeOK, Request
  <2>. QED  BY <2>1 DEF Inv, TypeOK, OneTimer, FlagMatchesRequest, Bound
<1>5. CASE BlockArrives /\ request.block \notin Filled
  <2>1. request.block \in 0 .. MaxHeight /\ Complete(request.block) /\ UNCHANGED <<node, clients>>
    BY <1>5 DEF BlockArrives, Inv, TypeOK, Request
  <2>2. /\ running' = FALSE /\ request' = NoRequest
        /\ data' \in 0 .. MaxHeight /\ data' >= data
        /\ view' = [c \in Client |-> IF c \in connected THEN data' ELSE view[c]]
        /\ view' \in [Client -> 0 .. MaxHeight]
    BY <2>1, CompleteFacts
  <2>6. TypeOK'
    BY <2>1, <2>2, RequestTypes DEF Inv, TypeOK
  <2>7. OneTimer' /\ FlagMatchesRequest'
    BY <2>1, <2>2, RequestTypes DEF Inv, OneTimer, FlagMatchesRequest
  <2>8. Bound'
    BY <2>1, <2>2 DEF Inv, TypeOK, Bound, Nothing
  <2>. QED  BY <2>6, <2>7, <2>8 DEF Inv
<1>6. CASE TransactionsArrive
  <2>1. request.block \in 0 .. MaxHeight /\ Complete(request.block) /\ UNCHANGED <<node, clients>>
    BY <1>6 DEF TransactionsArrive, Inv, TypeOK, Request
  <2>2. /\ running' = FALSE /\ request' = NoRequest
        /\ data' \in 0 .. MaxHeight /\ data' >= data
        /\ view' = [c \in Client |-> IF c \in connected THEN data' ELSE view[c]]
        /\ view' \in [Client -> 0 .. MaxHeight]
    BY <2>1, CompleteFacts
  <2>6. TypeOK'
    BY <2>1, <2>2, RequestTypes DEF Inv, TypeOK
  <2>7. OneTimer' /\ FlagMatchesRequest'
    BY <2>1, <2>2, RequestTypes DEF Inv, OneTimer, FlagMatchesRequest
  <2>8. Bound'
    BY <2>1, <2>2 DEF Inv, TypeOK, Bound, Nothing
  <2>. QED  BY <2>6, <2>7, <2>8 DEF Inv
<1>7. CASE Fails
  <2>1. view' = [c \in Client |-> IF c \in connected THEN data ELSE view[c]]
    BY <1>7 DEF Fails, Emit
  <2>2. /\ faults' \in 0 .. MaxFaults /\ forks' \in 0 .. MaxForks /\ height' \in 1 .. MaxHeight
    BY <1>7, BoundAssumption DEF Fails, Inv, TypeOK
  <2>3. /\ running' \in BOOLEAN /\ request' \in Request /\ interval' \in BOOLEAN
        /\ connected' \in SUBSET Client /\ timers' \in 0 .. 1
    BY <1>7, RequestTypes DEF Fails, Inv, TypeOK
  <2>4. data' \in 0 .. MaxHeight /\ view' \in [Client -> 0 .. MaxHeight]
    BY <1>7, <2>1 DEF Fails, Inv, TypeOK
  <2>6. TypeOK'
    BY <2>2, <2>3, <2>4 DEF TypeOK
  <2>7. OneTimer'
    BY <1>7 DEF Fails, Inv, TypeOK, OneTimer
  <2>8. FlagMatchesRequest'
    BY <1>7, RequestTypes DEF Fails, Inv, FlagMatchesRequest
  <2>9. Bound'
    BY <1>7, <2>1 DEF Fails, Inv, TypeOK, Bound, Nothing
  <2>. QED  BY <2>6, <2>7, <2>8, <2>9 DEF Inv
<1>8. CASE Tick
  <2>1. /\ running' \in BOOLEAN /\ request' \in Request
        /\ running' <=> request'.stage # "none"
        /\ view' \in [Client -> 0 .. MaxHeight]
        /\ \A d \in Client : view'[d] = view[d] \/ (d \in connected /\ view'[d] = data)
    BY EmitFacts, <1>8 DEF Tick
  <2>6. TypeOK'
    BY <1>8, <2>1 DEF Tick, Inv, TypeOK
  <2>7. OneTimer'
    BY <1>8 DEF Tick, Inv, TypeOK, OneTimer
  <2>8. FlagMatchesRequest'
    BY <1>8, <2>1 DEF Tick, Inv, FlagMatchesRequest
  <2>9. Bound'
    BY <1>8, <2>1 DEF Tick, Inv, TypeOK, Bound, Nothing
  <2>. QED  BY <2>6, <2>7, <2>8, <2>9 DEF Inv
<1>9. ASSUME NEW c \in Client, FirstClient(c) PROVE Inv'
  <2>1. /\ running' \in BOOLEAN /\ request' \in Request
        /\ running' <=> request'.stage # "none"
        /\ view' \in [Client -> 0 .. MaxHeight]
        /\ \A d \in Client : view'[d] = view[d] \/ (d \in {c} /\ view'[d] = data)
    BY EmitFacts, <1>9 DEF FirstClient
  <2>3. connected' \in SUBSET Client /\ timers' \in 0 .. 1 /\ interval' \in BOOLEAN
    BY <1>9 DEF FirstClient, Inv, TypeOK, OneTimer
  <2>4. data' \in 0 .. MaxHeight /\ view' \in [Client -> 0 .. MaxHeight]
    BY <1>9, <2>1 DEF FirstClient, Inv, TypeOK
  <2>5. /\ running' \in BOOLEAN /\ request' \in Request /\ height' \in 1 .. MaxHeight
        /\ faults' \in 0 .. MaxFaults /\ forks' \in 0 .. MaxForks
    BY <1>9, <2>1 DEF FirstClient, Inv, TypeOK
  <2>6. TypeOK'
    BY <2>3, <2>4, <2>5 DEF TypeOK
  <2>7. OneTimer'
    BY <1>9 DEF FirstClient, Inv, TypeOK, OneTimer
  <2>8. FlagMatchesRequest'
    BY <1>9, <2>1 DEF FirstClient, Inv, FlagMatchesRequest
  <2>9. Bound'
    BY <1>9, <2>1 DEF FirstClient, Inv, TypeOK, Bound, Nothing
  <2>. QED  BY <2>6, <2>7, <2>8, <2>9 DEF Inv
<1>10. ASSUME NEW c \in Client, NextClient(c) PROVE Inv'
  <2>1. view' = [d \in Client |-> IF d \in connected' THEN data ELSE view[d]]
    BY <1>10 DEF NextClient, Emit
  <2>3. connected' \in SUBSET Client /\ timers' \in 0 .. 1 /\ interval' \in BOOLEAN
    BY <1>10 DEF NextClient, Inv, TypeOK, OneTimer
  <2>4. data' \in 0 .. MaxHeight /\ view' \in [Client -> 0 .. MaxHeight]
    BY <1>10, <2>1 DEF NextClient, Inv, TypeOK
  <2>5. /\ running' \in BOOLEAN /\ request' \in Request /\ height' \in 1 .. MaxHeight
        /\ faults' \in 0 .. MaxFaults /\ forks' \in 0 .. MaxForks
    BY <1>10 DEF NextClient, Inv, TypeOK
  <2>6. TypeOK'
    BY <2>3, <2>4, <2>5 DEF TypeOK
  <2>7. OneTimer'
    BY <1>10 DEF NextClient, Inv, TypeOK, OneTimer
  <2>8. FlagMatchesRequest'
    BY <1>10 DEF NextClient, Inv, FlagMatchesRequest
  <2>9. Bound'
    BY <1>10, <2>1 DEF NextClient, Inv, TypeOK, Bound, Nothing
  <2>. QED  BY <2>6, <2>7, <2>8, <2>9 DEF Inv
<1>11. ASSUME NEW c \in Client, LastClientLeaves(c) PROVE Inv'
  <2>1. c \in connected
    BY <1>11 DEF LastClientLeaves
  <2>2. timers = 1 /\ interval
    BY <2>1 DEF Inv, OneTimer
  <2>3. connected' \in SUBSET Client /\ timers' \in 0 .. 1 /\ interval' \in BOOLEAN
    <3>1. timers' = 0
      BY <1>11, <2>2 DEF LastClientLeaves
    <3>2. connected' = {}
      BY <1>11 DEF LastClientLeaves
    <3>3. interval' \in BOOLEAN
      BY <1>11 DEF LastClientLeaves
    <3>4. connected' \in SUBSET Client
      BY <3>2
    <3>5. timers' \in 0 .. 1
      BY <3>1
    <3>. QED  BY <3>3, <3>4, <3>5
  <2>4. data' \in 0 .. MaxHeight /\ view' \in [Client -> 0 .. MaxHeight]
    BY <1>11, RequestTypes DEF LastClientLeaves, Inv, TypeOK
  <2>5. /\ running' \in BOOLEAN /\ request' \in Request /\ height' \in 1 .. MaxHeight
        /\ faults' \in 0 .. MaxFaults /\ forks' \in 0 .. MaxForks
    BY <1>11 DEF LastClientLeaves, Inv, TypeOK
  <2>6. TypeOK'
    BY <2>3, <2>4, <2>5 DEF TypeOK
  <2>7. OneTimer'
    BY <1>11 DEF LastClientLeaves, Inv, TypeOK, OneTimer
  <2>8. FlagMatchesRequest'
    BY <1>11 DEF LastClientLeaves, Inv, FlagMatchesRequest
  <2>9. Bound'
    BY <1>11 DEF LastClientLeaves, Inv, TypeOK, Bound, Nothing
  <2>. QED  BY <2>6, <2>7, <2>8, <2>9 DEF Inv
<1>12. ASSUME NEW c \in Client, ClientLeaves(c) PROVE Inv'
  <2>3. connected' \in SUBSET Client /\ timers' \in 0 .. 1 /\ interval' \in BOOLEAN
    BY <1>12 DEF ClientLeaves, Inv, TypeOK, OneTimer
  <2>4. data' \in 0 .. MaxHeight /\ view' \in [Client -> 0 .. MaxHeight]
    BY <1>12, RequestTypes DEF ClientLeaves, Inv, TypeOK
  <2>5. /\ running' \in BOOLEAN /\ request' \in Request /\ height' \in 1 .. MaxHeight
        /\ faults' \in 0 .. MaxFaults /\ forks' \in 0 .. MaxForks
    BY <1>12 DEF ClientLeaves, Inv, TypeOK
  <2>6. TypeOK'
    BY <2>3, <2>4, <2>5 DEF TypeOK
  <2>7. OneTimer'
    BY <1>12 DEF ClientLeaves, Inv, TypeOK, OneTimer
  <2>8. FlagMatchesRequest'
    BY <1>12 DEF ClientLeaves, Inv, FlagMatchesRequest
  <2>9. Bound'
    BY <1>12 DEF ClientLeaves, Inv, TypeOK, Bound, Nothing
  <2>. QED  BY <2>6, <2>7, <2>8, <2>9 DEF Inv
<1>13. CASE UNCHANGED vars
  BY <1>13 DEF vars, Inv, TypeOK, OneTimer, FlagMatchesRequest, Bound
<1>. QED
  BY <1>1, <1>2, <1>3, <1>4, <1>5, <1>6, <1>7, <1>8, <1>9, <1>10, <1>11, <1>12, <1>13
  DEF Next

\* The inductive invariant holds in every reachable state.
THEOREM InvCorrect == Spec => []Inv
  BY InitInv, NextInv, PTL DEF Spec

\* The state keeps its types, and there are never two timers.
THEOREM TypeCorrect == Spec => []TypeOK
<1>1. Inv => TypeOK
  BY DEF Inv
<1>. QED  BY <1>1, InvCorrect, PTL

\* connectionHandler's protocol: a timer runs exactly while somebody is connected.
THEOREM OneTimerCorrect == Spec => []OneTimer
<1>1. Inv => OneTimer
  BY DEF Inv
<1>. QED  BY <1>1, InvCorrect, PTL

\* running.getLastBlock is set exactly while a request is under way.
THEOREM FlagCorrect == Spec => []FlagMatchesRequest
<1>1. Inv => FlagMatchesRequest
  BY DEF Inv
<1>. QED  BY <1>1, InvCorrect, PTL

\* No step shows a connected client less than it was shown before.
LEMMA ViewStep ==
  Inv /\ [Next]_vars => [\A c \in connected \cap connected' : view'[c] >= view[c]]_vars
<1>. SUFFICES ASSUME Inv, Next, NEW c \in connected \cap connected'
              PROVE  view'[c] >= view[c]
  OBVIOUS
<1>. USE DEF node, clients
<1>1. c \in Client /\ view[c] \in Nat /\ data \in Nat /\ view[c] <= data
  BY BoundAssumption DEF Inv, TypeOK, Bound
<1>2. CASE NewBlock \/ Fork \/ Serve
  BY <1>1, <1>2 DEF NewBlock, Fork, Serve
<1>3. CASE BlockArrives
  <2>1. CASE request.block \in Filled
    BY <1>1, <1>3, <2>1 DEF BlockArrives
  <2>2. CASE request.block \notin Filled
    <3>1. request.block \in 0 .. MaxHeight /\ Complete(request.block)
      BY <1>3, <2>2 DEF BlockArrives, Inv, TypeOK, Request
    <3>2. /\ data' \in 0 .. MaxHeight /\ data' >= data
          /\ view' = [d \in Client |-> IF d \in connected THEN data' ELSE view[d]]
      BY <3>1, CompleteFacts
    <3>. QED  BY <1>1, <3>2
  <2>. QED  BY <2>1, <2>2
<1>4. CASE TransactionsArrive
  <2>1. request.block \in 0 .. MaxHeight /\ Complete(request.block)
    BY <1>4 DEF TransactionsArrive, Inv, TypeOK, Request
  <2>2. /\ data' \in 0 .. MaxHeight /\ data' >= data
        /\ view' = [d \in Client |-> IF d \in connected THEN data' ELSE view[d]]
    BY <2>1, CompleteFacts
  <2>. QED  BY <1>1, <2>2
<1>5. CASE Fails
  BY <1>1, <1>5 DEF Fails, Emit
<1>6. CASE Tick
  BY <1>1, <1>6, EmitFacts DEF Tick
<1>7. ASSUME NEW d \in Client, FirstClient(d) \/ NextClient(d) PROVE view'[c] >= view[c]
  BY <1>1, <1>7 DEF FirstClient, NextClient, Emit
<1>8. ASSUME NEW d \in Client, LastClientLeaves(d) \/ ClientLeaves(d)
      PROVE  view'[c] >= view[c]
  BY <1>1, <1>8 DEF LastClientLeaves, ClientLeaves, Inv, TypeOK
<1>. QED  BY <1>2, <1>3, <1>4, <1>5, <1>6, <1>7, <1>8 DEF Next

\* A client that stays connected is never shown an older block than before.
THEOREM ViewCorrect == Spec => ViewNeverGoesBack
  BY InvCorrect, ViewStep, PTL DEF Spec, ViewNeverGoesBack
==============================================================================
