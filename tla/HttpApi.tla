------------------------------- MODULE HttpApi -------------------------------
(***************************************************************************)
(* The HTTP API between a browser and the handlers of lib/api: app.js      *)
(* waits for the node before it listens, answers a request from Redis if   *)
(* it can, and saves what a handler succeeds with for a time to live.  Of  *)
(* a handler only what Handler promises is known here: it succeeds, calls  *)
(* its error function once or twice, or throws; ApiRequest shows that.     *)
(***************************************************************************)
EXTENDS Integers, FiniteSets, Sequences

CONSTANTS
    Path,        \* what can be asked for; the answers follow the node's data
    Request,     \* the requests a browser has open at a time
    TTL,         \* ticks an answer is kept
    MaxVersion,  \* bound of the model: changes of the node's data
    MaxHttpFaults \* bound of the model: failures of node, Redis and process

ASSUME HttpAssumption ==
    /\ {TTL, MaxVersion} \subseteq Nat \ {0} /\ MaxHttpFaults \in Nat
    /\ IsFiniteSet(Path) /\ IsFiniteSet(Request)

VARIABLES
    version,   \* the node: how often its data have changed
    server,    \* asking the node for its constants, waiting to ask again, or listening
    saved,     \* Redis: per path, which data an answer shows and for how long it was kept
    request,   \* the requests by the browser's numbers, and the data they show
    httpFaults \* failures so far

httpVars == <<version, server, saved, request, httpFaults>>

\* The error is version 0 of every answer.
NotSaved == [version |-> -1, age |-> 0]
Idle(path) == [stage |-> "idle", path |-> path, version |-> 0]
SomePath == CHOOSE p \in Path : TRUE

HttpInit ==
    /\ version = 1 /\ server = "asking" /\ httpFaults = 0
    /\ saved = [p \in Path |-> NotSaved]
    /\ request = [r \in Request |-> Idle(SomePath)]

Open == {r \in Request : request[r].stage \in {"asked", "read"}}

\* Something goes wrong.
HttpFault == httpFaults < MaxHttpFaults /\ httpFaults' = httpFaults + 1

\* The node's data change.
Change ==
    /\ version < MaxVersion /\ version' = version + 1
    /\ UNCHANGED <<server, saved, request, httpFaults>>

-----------------------------------------------------------------------------
(* Start of the server. *)

\* getNodeConstants fails: five seconds later it is asked again.
NodeMissing ==
    /\ server = "asking" /\ HttpFault
    /\ server' = "pausing"
    /\ UNCHANGED <<version, saved, request>>

AskNode ==
    /\ server = "pausing" /\ server' = "asking"
    /\ UNCHANGED <<version, saved, request, httpFaults>>

\* The node has answered: the server listens and the loop is never entered again.
Listen ==
    /\ server = "asking" /\ server' = "listening"
    /\ UNCHANGED <<version, saved, request, httpFaults>>

-----------------------------------------------------------------------------
(* A request. *)

\* The browser hears that there is no server.
Refused(r, p) ==
    /\ server # "listening"
    /\ request' = [request EXCEPT ![r] = [stage |-> "lost", path |-> p, version |-> 0]]
    /\ UNCHANGED <<saved, httpFaults>>

\* Mutant: an answer is kept anew each time it is given.
Hit_Renews(r, p) ==
    /\ server = "listening" /\ saved[p] # NotSaved
    /\ request' = [request EXCEPT ![r] =
         [stage |-> "answered", path |-> p, version |-> saved[p].version]]
    /\ saved' = [saved EXCEPT ![p].age = 0]
    /\ UNCHANGED httpFaults

\* Redis has an answer.
Hit(r, p) ==
    /\ server = "listening" /\ saved[p] # NotSaved
    /\ request' = [request EXCEPT ![r] =
         [stage |-> "answered", path |-> p, version |-> saved[p].version]]
    /\ UNCHANGED <<saved, httpFaults>>

\* It has none, or fails, or has something that is no JSON: a handler is called.
Miss(r, p) ==
    /\ server = "listening"
    /\ IF saved[p] = NotSaved THEN UNCHANGED httpFaults ELSE HttpFault
    /\ request' = [request EXCEPT ![r] = [stage |-> "asked", path |-> p, version |-> 0]]
    /\ UNCHANGED saved

\* A browser asks.
Come(r, p) ==
    /\ request[r].stage = "idle"
    /\ Refused(r, p) \/ Hit(r, p) \/ Miss(r, p)
    /\ UNCHANGED <<version, server>>

\* The node answers the handler.
Read(r) ==
    /\ request[r].stage = "asked"
    /\ request' = [request EXCEPT ![r].stage = "read", ![r].version = version]
    /\ UNCHANGED <<version, server, saved, httpFaults>>

\* The handler calls success: the answer is saved, whatever was saved before, and given;
\* when setex fails it is given all the same.
Succeed(r) ==
    /\ request[r].stage = "read"
    /\ \/ /\ saved' = [saved EXCEPT ![request[r].path] =
              [version |-> request[r].version, age |-> 0]]
          /\ UNCHANGED httpFaults
       \/ HttpFault /\ UNCHANGED saved
    /\ request' = [request EXCEPT ![r].stage = "answered"]
    /\ UNCHANGED <<version, server>>

\* Mutant: what the handler reports as an error is kept as well.
Refuse_Saved(r) ==
    /\ request[r].stage \in {"asked", "read"} /\ HttpFault
    /\ request' = [request EXCEPT ![r].stage = "answered", ![r].version = 0]
    /\ saved' = [saved EXCEPT ![request[r].path] = [version |-> 0, age |-> 0]]
    /\ UNCHANGED <<version, server>>

\* The handler calls error: the answer is the error, and nothing is saved.
Refuse(r) ==
    /\ request[r].stage \in {"asked", "read"} /\ HttpFault
    /\ request' = [request EXCEPT ![r].stage = "answered", ![r].version = 0]
    /\ UNCHANGED <<version, server, saved>>

\* A handler throws, or calls error again: the process ends with all its requests, and
\* PM2 starts another one.  Redis keeps what it has.
End ==
    /\ Open # {} /\ HttpFault
    /\ server' = "asking"
    /\ request' = [r \in Request |-> IF r \in Open THEN [request[r] EXCEPT !.stage = "lost"]
                                     ELSE request[r]]
    /\ UNCHANGED <<version, saved>>

\* Time goes on, and Redis forgets.
Tick ==
    /\ \E p \in Path : saved[p] # NotSaved
    /\ saved' = [p \in Path |->
         IF saved[p] = NotSaved \/ saved[p].age + 1 = TTL THEN NotSaved
         ELSE [saved[p] EXCEPT !.age = @ + 1]]
    /\ UNCHANGED <<version, server, request, httpFaults>>

ServerStep ==
    \/ NodeMissing \/ AskNode \/ Listen
    \/ End \/ Tick \/ Change
    \/ \E r \in Request : Read(r) \/ Succeed(r) \/ Refuse(r)

HttpTypeOK ==
    /\ version \in 1 .. MaxVersion /\ httpFaults \in 0 .. MaxHttpFaults
    /\ server \in {"asking", "pausing", "listening"}
    /\ saved \in [Path -> {NotSaved} \cup [version : 1 .. version, age : 0 .. TTL - 1]]
    /\ request \in [Request -> [stage : {"idle", "asked", "read", "answered", "lost"},
                                path : Path, version : 0 .. version]]
==============================================================================
