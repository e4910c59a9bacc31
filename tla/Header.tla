------------------------------- MODULE Header -------------------------------
(***************************************************************************)
(* The /header namespace: sockets/header.js on top of getBlockStatus of    *)
(* lib/api/blocks.js, which asks the node two things at once, its status   *)
(* and its constants.  Each request that fails calls the caller's error    *)
(* function itself, so the first failure ends a call whose other request   *)
(* is still under way.                                                     *)
(*                                                                         *)
(* The price ticker answers at once and never fails, so nothing of it      *)
(* shows between two steps.                                                *)
(***************************************************************************)
EXTENDS Integers, FiniteSets

CONSTANTS
    Call,        \* bound of the model: calls of getBlockStatus with a request under way
    MaxHeight,   \* bound of the model: height of the chain
    MaxFaults    \* bound of the model: requests the node fails to answer

ASSUME BoundAssumption == MaxHeight \in Nat \ {0} /\ MaxFaults \in Nat

VARIABLES
    height,   \* height of the node's last block
    notice,   \* a 'blocks/change' notification is on its way
    faults,   \* requests that have failed
    up,       \* the process runs
    loaded,   \* the first call has succeeded: subscription and timer are there
    recent,   \* lastUpdateTime is at most minInterval ago
    running,  \* running.getBlockStatus
    calls,    \* the calls of getBlockStatus
    data      \* height of the status in data, Nothing before the first call is done

vars == <<height, notice, faults, up, loaded, recent, running, calls, data>>

node == <<height, notice, faults>>

Nothing == 0

Part == {"status", "constants"}

\* A call is free, or it is known which of its requests are answered, and how;
\* asked is the height when it began, block the height in its status.
Free == [part |-> [p \in Part |-> "none"], first |-> FALSE, asked |-> Nothing,
         block |-> Nothing]

CallType == [part : [Part -> {"none", "asked", "ok", "failed"}], first : BOOLEAN,
             asked : 0 .. MaxHeight, block : 0 .. MaxHeight]

Other(p) == IF p = "status" THEN "constants" ELSE "status"

IsFree(k) == \A p \in Part : calls[k].part[p] # "asked"

\* The call has neither failed nor succeeded.
Live(k) ==
    /\ \E p \in Part : calls[k].part[p] = "asked"
    /\ \A p \in Part : calls[k].part[p] # "failed"

-----------------------------------------------------------------------------
(* getBlockStatus and the calls of async.parallel. *)

Begin(k, first) ==
    /\ running' = TRUE
    /\ calls' = [calls EXCEPT ![k] = [part |-> [p \in Part |-> "asked"], first |-> first,
                                      asked |-> height, block |-> Nothing]]

\* Mutant: a call begins although one is under way.
EmitData_Unguarded ==
    \E k \in Call : IsFree(k) /\ Begin(k, FALSE)

\* emitData: when a call is under way the new one fails at once.
EmitData ==
    IF running
    THEN UNCHANGED <<running, calls>>
    ELSE \E k \in Call : IsFree(k) /\ Begin(k, FALSE)

Init ==
    /\ height = 1 /\ notice = FALSE /\ faults = 0
    /\ up = TRUE /\ loaded = FALSE /\ recent = FALSE /\ data = Nothing
    /\ running = TRUE
    /\ \E k \in Call :
         calls = [[c \in Call |-> Free] EXCEPT
                    ![k] = [part |-> [p \in Part |-> "asked"], first |-> TRUE,
                            asked |-> 1, block |-> Nothing]]

\* The node forges a block; its notification may be lost.
NewBlock ==
    /\ height < MaxHeight /\ height' = height + 1
    /\ notice' \in {notice, TRUE}
    /\ UNCHANGED <<faults, up, loaded, recent, running, calls, data>>

\* The 'blocks/change' listener.
BlocksChange ==
    /\ up /\ notice /\ notice' = FALSE
    /\ IF loaded THEN recent' = TRUE /\ EmitData
                 ELSE UNCHANGED <<recent, running, calls>>
    /\ UNCHANGED <<height, faults, up, loaded, data>>

\* The setInterval callback, when no notification came for minInterval.
Tick ==
    /\ up /\ loaded /\ ~recent
    /\ EmitData
    /\ UNCHANGED <<node, up, loaded, recent, data>>

\* minInterval goes by.
Elapse ==
    /\ recent /\ recent' = FALSE
    /\ UNCHANGED <<node, up, loaded, running, calls, data>>

\* Mutant: the flag is given back with the first answer.
Answer_Early(k, p) ==
    /\ up /\ calls[k].part[p] = "asked"
    /\ \E block \in calls[k].asked .. height :
         LET call == [calls[k] EXCEPT !.part[p] = "ok",
                        !.block = IF p = "status" THEN block ELSE @]
             done == \A q \in Part : call.part[q] = "ok"
         IN  /\ calls' = [calls EXCEPT ![k] = call]
             /\ running' = FALSE
             /\ data' = IF done THEN call.block ELSE data
             /\ loaded' = (loaded \/ (done /\ call.first))
    /\ UNCHANGED <<node, up, recent>>

\* A request of call k is answered, with what the node knew since it was asked.  With
\* both answers the call succeeds, and the first call to succeed subscribes and
\* starts the timer.
Answer(k, p) ==
    /\ up /\ calls[k].part[p] = "asked"
    /\ \E block \in calls[k].asked .. height :
         LET call == [calls[k] EXCEPT !.part[p] = "ok",
                        !.block = IF p = "status" THEN block ELSE @]
             done == \A q \in Part : call.part[q] = "ok"
         IN  /\ calls' = [calls EXCEPT ![k] = call]
             /\ running' = (running /\ ~done)
             /\ data' = IF done THEN call.block ELSE data
             /\ loaded' = (loaded \/ (done /\ call.first))
    /\ UNCHANGED <<node, up, recent>>

\* Mutant: the error function leaves the flag set.
FirstFailure_KeepsFlag(k, p) ==
    /\ up /\ calls[k].part[p] = "asked" /\ calls[k].part[Other(p)] # "failed"
    /\ faults < MaxFaults /\ faults' = faults + 1
    /\ calls' = [calls EXCEPT ![k].part[p] = "failed"]
    /\ UNCHANGED <<height, notice, up, loaded, recent, running, data>>

\* Mutant: a failed first call subscribes and starts the timer as well.
FirstFailure_Subscribes(k, p) ==
    /\ up /\ calls[k].part[p] = "asked" /\ calls[k].part[Other(p)] # "failed"
    /\ faults < MaxFaults /\ faults' = faults + 1
    /\ calls' = [calls EXCEPT ![k].part[p] = "failed"]
    /\ running' = FALSE /\ loaded' = TRUE
    /\ UNCHANGED <<height, notice, up, recent, data>>

\* The first request of a call to fail calls the error function: the flag is given
\* back and the call has failed, whatever the other request does.
FirstFailure(k, p) ==
    /\ up /\ calls[k].part[p] = "asked" /\ calls[k].part[Other(p)] # "failed"
    /\ faults < MaxFaults /\ faults' = faults + 1
    /\ calls' = [calls EXCEPT ![k].part[p] = "failed"]
    /\ running' = FALSE
    /\ UNCHANGED <<height, notice, up, loaded, recent, data>>

\* The second one calls it again, and with it a callback of async.parallel that has
\* been called: async throws, and the process ends.
SecondFailure(k, p) ==
    /\ up /\ calls[k].part[p] = "asked" /\ calls[k].part[Other(p)] = "failed"
    /\ faults < MaxFaults /\ faults' = faults + 1
    /\ up' = FALSE /\ loaded' = FALSE /\ recent' = FALSE /\ notice' = FALSE
    /\ running' = FALSE /\ data' = Nothing
    /\ calls' = [c \in Call |-> Free]
    /\ UNCHANGED height

\* PM2 starts the process again, and with it the first call.
Restart ==
    /\ ~up /\ up' = TRUE
    /\ \E k \in Call : Begin(k, TRUE)
    /\ UNCHANGED <<node, loaded, recent, data>>

Next ==
    \/ NewBlock \/ BlocksChange \/ Tick \/ Elapse \/ Restart
    \/ \E k \in Call, p \in Part : Answer(k, p) \/ FirstFailure(k, p) \/ SecondFailure(k, p)

Spec == Init /\ [][Next]_vars

\* The node answers in the end, time goes by and timers fire.  Nothing says that
\* notifications arrive.
FairSpec ==
    /\ Spec
    /\ WF_vars(Tick) /\ WF_vars(Elapse) /\ WF_vars(Restart)
    /\ \A k \in Call, p \in Part : WF_vars(Answer(k, p))

-----------------------------------------------------------------------------
(* Properties. *)

\* There are data exactly when there are a subscription and a timer.
TypeOK ==
    /\ loaded <=> data # Nothing
    /\ height \in 1 .. MaxHeight /\ notice \in BOOLEAN /\ faults \in 0 .. MaxFaults
    /\ up \in BOOLEAN /\ loaded \in BOOLEAN /\ recent \in BOOLEAN /\ running \in BOOLEAN
    /\ calls \in [Call -> CallType] /\ data \in 0 .. MaxHeight

\* The flag is set exactly while a call is under way that has not failed, and there
\* is one such call at most: a failed call whose other request is late neither holds
\* the flag nor takes it from the call after it.
OneLiveCall ==
    /\ running <=> \E k \in Call : Live(k)
    /\ \A k, l \in Call : Live(k) /\ Live(l) => k = l

\* A failed call and the one after it overlap; still, the header never shows an older
\* block than before.
HeaderNeverGoesBack == [][data' # Nothing => data' >= data]_vars

\* Once the header is live it shows every block the node has, notified of or not,
\* unless the process ends first.
CatchesUp ==
    \A h \in 1 .. MaxHeight : (loaded /\ height >= h) ~> (data >= h \/ ~up)
==============================================================================
