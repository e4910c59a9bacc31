---------------------------- MODULE ActivityGraph ----------------------------
(***************************************************************************)
(* The /activityGraph namespace: sockets/activityGraph.js behind the       *)
(* connectionHandler of sockets/index.js.  The first client starts a       *)
(* ten-second timer, the last one to leave stops it and wipes the data;    *)
(* the request under way at that moment goes on, and its answer finds      *)
(* whoever is connected by then.                                           *)
(***************************************************************************)
EXTENDS Integers, FiniteSets

CONSTANTS
    Client,      \* the browsers
    Filled,      \* heights whose block has transactions: they are asked for as well
    MaxHeight,   \* bound of the model: height of the chain
    MaxFaults,   \* bound of the model: requests the node fails to answer
    MaxForks     \* bound of the model: blocks the node takes back

ASSUME BoundAssumption ==
    /\ MaxHeight \in Nat \ {0} /\ MaxFaults \in Nat /\ MaxForks \in Nat
    /\ Filled \subseteq 1 .. MaxHeight

VARIABLES
    height,    \* height of the node's last block
    faults,    \* requests that have failed
    forks,     \* blocks taken back
    connected, \* the clients of the namespace
    timers,    \* running setInterval timers
    interval,  \* whether the variable interval holds a timer
    running,   \* running.getLastBlock
    request,   \* the request under way, with the block it is about
    data,      \* height of the block in data, Nothing for {}
    view       \* what each connected client was last shown

vars == <<height, faults, forks, connected, timers, interval, running, request, data, view>>

node == <<height, faults, forks>>
clients == <<connected, timers, interval>>

Nothing == 0
NoRequest == [stage |-> "none", block |-> Nothing]

\* A request is sent, then answered; the answer about a block is its height.
Request == [stage : {"none", "block", "blockAnswered", "transactions"},
            block : 0 .. MaxHeight]

-----------------------------------------------------------------------------
(* The node. *)

NewBlock ==
    /\ height < MaxHeight /\ height' = height + 1
    /\ UNCHANGED <<faults, forks, clients, running, request, data, view>>

Fork ==
    /\ forks < MaxForks /\ height > 1
    /\ height' = height - 1 /\ forks' = forks + 1
    /\ UNCHANGED <<faults, clients, running, request, data, view>>

\* The node answers the request for the last block with the block it has now.
Serve ==
    /\ request.stage = "block"
    /\ request' = [stage |-> "blockAnswered", block |-> height]
    /\ UNCHANGED <<node, clients, running, data, view>>

-----------------------------------------------------------------------------
(* emitLastBlock. *)

\* socket.emit('data', ...) to the namespace.
Emit(what, to) == view' = [c \in Client |-> IF c \in to THEN what ELSE view[c]]

\* newLastBlock
IsNew(block) == data = Nothing \/ block > data

\* Mutant: any answer replaces the data.
IsNew_Always(block) == data = Nothing \/ block # data

\* The call has its block: newer ones replace the data, and whatever the data are
\* they are emitted.
Complete(block) ==
    /\ running' = FALSE /\ request' = NoRequest
    /\ data' = IF IsNew(block) THEN block ELSE data
    /\ Emit(data', connected)

\* The answer about the last block; a block with transactions is not complete yet.
BlockArrives ==
    /\ request.stage = "blockAnswered"
    /\ IF request.block \in Filled
       THEN /\ request' = [request EXCEPT !.stage = "transactions"]
            /\ UNCHANGED <<running, data, view>>
       ELSE Complete(request.block)
    /\ UNCHANGED <<node, clients>>

TransactionsArrive ==
    /\ request.stage = "transactions"
    /\ Complete(request.block)
    /\ UNCHANGED <<node, clients>>

\* Mutant: the flag stays set after an error.
Fails_KeepsFlag ==
    /\ request.stage \in {"block", "transactions"} /\ faults < MaxFaults
    /\ faults' = faults + 1
    /\ request' = NoRequest
    /\ Emit(data, connected)
    /\ UNCHANGED <<height, forks, clients, running, data>>

\* Either request fails: the flag is given back and the old data are emitted.
Fails ==
    /\ request.stage \in {"block", "transactions"} /\ faults < MaxFaults
    /\ faults' = faults + 1
    /\ running' = FALSE /\ request' = NoRequest
    /\ Emit(data, connected)
    /\ UNCHANGED <<height, forks, clients, data>>

\* getLastBlock: one call at a time; a second one emits the old data at once.
EmitLastBlock(to) ==
    IF running
    THEN Emit(data, to) /\ UNCHANGED <<running, request>>
    ELSE /\ running' = TRUE /\ request' = [NoRequest EXCEPT !.stage = "block"]
         /\ UNCHANGED view

\* Mutant: the flag is not looked at.
EmitLastBlock_Unguarded(to) ==
    /\ running' = TRUE /\ request' = [NoRequest EXCEPT !.stage = "block"]
    /\ UNCHANGED view

Tick ==
    /\ timers > 0
    /\ EmitLastBlock(connected)
    /\ UNCHANGED <<node, clients, data>>

-----------------------------------------------------------------------------
(* connectionHandler. *)

Init ==
    /\ height = 1 /\ faults = 0 /\ forks = 0
    /\ connected = {} /\ timers = 0 /\ interval = FALSE
    /\ running = FALSE /\ request = NoRequest
    /\ data = Nothing /\ view = [c \in Client |-> Nothing]

\* onInit: the first client.
FirstClient(c) ==
    /\ connected = {} /\ connected' = {c}
    /\ EmitLastBlock({c})
    /\ interval' = TRUE
    /\ timers' = IF interval THEN timers ELSE timers + 1
    /\ UNCHANGED <<node, data>>

\* onConnect: every client is sent the data there are.
NextClient(c) ==
    /\ connected # {} /\ c \notin connected /\ connected' = connected \cup {c}
    /\ Emit(data, connected')
    /\ UNCHANGED <<node, timers, interval, running, request, data>>

\* Mutant: the variable is not reset, and the next first client starts no timer.
LastClientLeaves_KeepsInterval(c) ==
    /\ connected = {c} /\ connected' = {}
    /\ timers' = (IF interval THEN timers - 1 ELSE timers) /\ UNCHANGED interval
    /\ data' = Nothing /\ view' = [view EXCEPT ![c] = Nothing]
    /\ UNCHANGED <<node, running, request>>

\* Mutant: the timer is forgotten, not stopped.
LastClientLeaves_LeaksTimer(c) ==
    /\ connected = {c} /\ connected' = {}
    /\ interval' = FALSE /\ data' = Nothing /\ view' = [view EXCEPT ![c] = Nothing]
    /\ UNCHANGED <<node, timers, running, request>>

\* onDisconnect: nobody is left.
LastClientLeaves(c) ==
    /\ connected = {c} /\ connected' = {}
    /\ timers' = (IF interval THEN timers - 1 ELSE timers) /\ interval' = FALSE
    /\ data' = Nothing /\ view' = [view EXCEPT ![c] = Nothing]
    /\ UNCHANGED <<node, running, request>>

\* Mutant: the data are wiped when any client leaves.
ClientLeaves_Wipes(c) ==
    /\ c \in connected /\ connected # {c} /\ connected' = connected \ {c}
    /\ data' = Nothing /\ view' = [view EXCEPT ![c] = Nothing]
    /\ UNCHANGED <<node, timers, interval, running, request>>

\* Another client leaves: nothing happens.
ClientLeaves(c) ==
    /\ c \in connected /\ connected # {c} /\ connected' = connected \ {c}
    /\ view' = [view EXCEPT ![c] = Nothing]
    /\ UNCHANGED <<node, timers, interval, running, request, data>>

-----------------------------------------------------------------------------

Next ==
    \/ NewBlock \/ Fork \/ Serve
    \/ BlockArrives \/ TransactionsArrive \/ Fails \/ Tick
    \/ \E c \in Client :
         FirstClient(c) \/ NextClient(c) \/ LastClientLeaves(c) \/ ClientLeaves(c)

Spec == Init /\ [][Next]_vars

\* The node answers in the end, and a timer that is not cleared fires.
FairSpec ==
    /\ Spec
    /\ WF_vars(Serve) /\ WF_vars(BlockArrives) /\ WF_vars(TransactionsArrive)
    /\ WF_vars(Tick)

-----------------------------------------------------------------------------
(* Properties. *)

TypeOK ==
    /\ height \in 1 .. MaxHeight /\ faults \in 0 .. MaxFaults /\ forks \in 0 .. MaxForks
    /\ connected \in SUBSET Client /\ timers \in 0 .. 1 /\ interval \in BOOLEAN
    /\ running \in BOOLEAN /\ request \in Request
    /\ data \in 0 .. MaxHeight /\ view \in [Client -> 0 .. MaxHeight]

\* However clients come and go, one timer runs while somebody is connected, and
\* none when nobody is: connections leave no timer behind and lose none.
OneTimer ==
    /\ timers = (IF connected = {} THEN 0 ELSE 1)
    /\ interval <=> connected # {}

\* The flag is set exactly while a request is under way, through errors and through
\* disconnections that happen meanwhile.
FlagMatchesRequest == running <=> request.stage # "none"

\* A client that stays connected is never shown an older block than before, and
\* never nothing after a block: no late answer, fork or other client's leaving
\* takes a block away from it.
ViewNeverGoesBack ==
    [][\A c \in connected \cap connected' : view'[c] >= view[c]]_vars

\* A client that stays is shown every block the chain keeps, or a later one.
CatchesUp ==
    \A c \in Client, h \in 1 .. MaxHeight :
        (c \in connected /\ height >= h) ~> (c \notin connected \/ view[c] >= h \/ height < h)
==============================================================================
