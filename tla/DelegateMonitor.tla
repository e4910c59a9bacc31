--------------------------- MODULE DelegateMonitor ---------------------------
(***************************************************************************)
(* The delegate monitor of the back end, sockets/delegateMonitor.js: the   *)
(* part of the explorer that polls a Lisk node and pushes the list of      *)
(* active delegates to the web clients of the /delegateMonitor namespace.  *)
(*                                                                         *)
(* The node is the environment.  Its whole state is the height of its      *)
(* chain; every answer is a snapshot, named by the height at which the     *)
(* node produced it.  A request and its answer are two steps, so answers   *)
(* to requests that are in flight together arrive in any order.            *)
(***************************************************************************)
EXTENDS Integers, FiniteSets, FiniteSetsExt

CONSTANTS
    Delegate,      \* public keys of the delegates
    RoundLength,   \* slots of a round: 101 in the code
    BlocksLimit,   \* blocks asked for by getLastBlocks: 100 in the code
    StartHeight,   \* height of the node when the explorer is first started
    MaxHeight,     \* bound of the model: the node stops at this height
    MaxFaults,     \* bound of the model: failed requests
    Forger,        \* Forger[s]: the delegate whose turn slot s is
    TopAt,         \* TopAt[h]: the delegates with the most votes at height h
    SideGetters,   \* the getters whose result nothing else depends on
    BatchId,       \* names of the results of async.parallel calls
    SlowNode       \* TRUE: an answer may take longer than minInterval

None == 0                        \* no snapshot yet
Unset == -1                      \* delegate.blocks is undefined
Height == 1 .. MaxHeight
Snapshot == Height \cup {None}
Slot == 1 .. MaxHeight + RoundLength

ASSUME RoundAssumption == RoundLength \in Nat \ {0} /\ BlocksLimit \in Nat \ {0}
ASSUME BoundAssumption ==
    /\ StartHeight \in Nat \ {0} /\ MaxHeight \in Nat /\ StartHeight <= MaxHeight
    /\ MaxFaults \in Nat
ASSUME NodeAssumption ==
    /\ Forger \in [Slot -> Delegate]
    /\ TopAt \in [Height -> SUBSET Delegate]
ASSUME GetterAssumption ==
    SideGetters \cap {"Active", "NextForgers", "LastBlock"} = {}

\* The getters of emitData, and those of the first load.
UpdateGetters == {"Active", "NextForgers"} \cup SideGetters
InitGetters   == UpdateGetters \cup {"LastBlock"}
Getter        == InitGetters

Discarded == "discarded"         \* the call that asked has already failed
ASSUME BatchAssumption == Discarded \notin BatchId

VARIABLES
    height,         \* the node: height of its last block
    faults,         \* how many requests have failed
    events,         \* notifications of the node on their way to the process
    phase,          \* "down" | "starting" | "live" | "failed"
    running,        \* the flags getActive .. getNextForgers
    runningBlocks,  \* the flag running.getLastBlocks
    net,            \* requests of the getters in flight
    open,           \* the async.parallel calls that wait for results
    results,        \* results[b][g]: what getter g gave to call b
    chains,         \* the getLastBlocks calls in progress
    loads,          \* loadAllDelegates calls in flight that no getter waits for
    cache,          \* allDelegates of lib/api/delegates.js
    lastBlock,      \* data.lastBlock.block.height
    active,         \* the snapshot data.active.delegates is the top list of
    blocks,         \* height of the block shown for each active delegate
    forgers,        \* the snapshot in tmpData.nextForgers
    roundDelegates, \* tmpData.roundDelegates
    flag,           \* isRoundDelegate of each active delegate
    view            \* lastBlock of the last 'data' message to the clients

env    == <<height, faults, events>>
calls  == <<running, runningBlocks, net, open, results, chains, loads, cache>>
data   == <<lastBlock, active, blocks, forgers, roundDelegates, flag>>
vars   == <<height, faults, events, phase, running, runningBlocks, net,
            open, results, chains, loads, cache, lastBlock, active, blocks,
            forgers, roundDelegates, flag, view>>

Request == [getter : Getter, batch : BatchId \cup {Discarded},
            stage : {"load", "get"}, val : Snapshot]
Chain   == [stage : {"fetch", "each"}, val : Snapshot,
            cur : SUBSET Delegate, todo : SUBSET Delegate]

-----------------------------------------------------------------------------
(* Pure parts. *)

Round(h) == (h + RoundLength - 1) \div RoundLength

\* Mutant: the index of the forger is taken for its place after the last block.
RoundDelegates_Index(f, h) ==
    {Forger[f + i] : i \in {j \in 1 .. RoundLength : Round(h + j - 1) = Round(h)}}

\* Those of the RoundLength forgers announced at height f that getRoundDelegates
\* keeps when it takes h for the height of the chain.
RoundDelegates(f, h) ==
    {Forger[f + i] : i \in {j \in 1 .. RoundLength : Round(h + j) = Round(h)}}

\* The delegates that still have a slot in the round of height h.
StillToForge(h) ==
    {Forger[s] : s \in {t \in Slot : t > h /\ Round(t) = Round(h)}}

ActiveSet == IF active = None THEN {} ELSE TopAt[active]

\* Mutant: a block that is not forged yet counts.
NewestBlock_Ahead(d, h, n) ==
    Max({s \in 1 .. h + 1 : s > h - n /\ Forger[s] = d} \cup {0})

\* Height of the newest block of d among the last n blocks of height h.
NewestBlock(d, h, n) ==
    Max({s \in 1 .. h : s > h - n /\ Forger[s] = d} \cup {0})

Flags(d) == IF d \in roundDelegates THEN "yes" ELSE "no"

-----------------------------------------------------------------------------
(* The process starts, stops and restarts. *)

\* Memory of a process that has not run anything yet.
Blank ==
    /\ net' = {} /\ open' = {} /\ chains' = {} /\ loads' = {}
    /\ running' = [g \in Getter |-> FALSE] /\ runningBlocks' = FALSE
    /\ results' = [b \in BatchId |-> [g \in Getter |-> None]]
    /\ cache' = None /\ lastBlock' = None /\ active' = None /\ forgers' = None
    /\ blocks' = [d \in Delegate |-> Unset]
    /\ flag' = [d \in Delegate |-> "unset"]
    /\ roundDelegates' = {}
    /\ view' = None

Init ==
    /\ height = StartHeight /\ faults = 0 /\ events = {} /\ phase = "down"
    /\ net = {} /\ open = {} /\ chains = {} /\ loads = {}
    /\ running = [g \in Getter |-> FALSE] /\ runningBlocks = FALSE
    /\ results = [b \in BatchId |-> [g \in Getter |-> None]]
    /\ cache = None /\ lastBlock = None /\ active = None /\ forgers = None
    /\ blocks = [d \in Delegate |-> Unset]
    /\ flag = [d \in Delegate |-> "unset"]
    /\ roundDelegates = {}
    /\ view = None

\* An exception in a callback ends the process: its memory is gone, and the
\* notifications sent while it is down are lost.
Crash ==
    /\ Blank
    /\ phase' = "down" /\ events' = {}

Fault == faults < MaxFaults /\ faults' = faults + 1

\* The request a getter sends.  getActive works on the local list when that list
\* is there and younger than three minutes, and loads it again otherwise.
NewRequests(g, b) ==
    LET At(stage, val) ==
          [getter |-> g, batch |-> b, stage |-> stage, val |-> val]
    IN  IF g = "Active"
        THEN {At("load", None)} \cup
             (IF cache = None THEN {} ELSE {At("get", cache)})
        ELSE {At("get", None)}

\* The getters G send their requests on behalf of call b.
Ask(G, b) ==
    \E req \in [G -> UNION {NewRequests(g, b) : g \in G}] :
        /\ \A g \in G : req[g] \in NewRequests(g, b)
        /\ net' = net \cup {req[g] : g \in G}
        /\ running' = [g \in Getter |-> running[g] \/ g \in G]

\* app.js starts the monitor, which loads everything at once, and then loads
\* the list of delegates itself.
Start ==
    /\ phase = "down"
    /\ phase' = "starting"
    /\ \E b \in BatchId \ open :
         /\ Ask(InitGetters, b)
         /\ open' = open \cup {b}
    /\ loads' = loads \cup {None}
    /\ UNCHANGED <<env, runningBlocks, results, chains, cache, data, view>>

-----------------------------------------------------------------------------
(* Polling. *)

\* Mutant: the flag is set but not looked at.
StartChain_Unguarded ==
    /\ runningBlocks' = TRUE
    /\ chains' = chains \cup
         {[stage |-> "fetch", val |-> None, cur |-> {}, todo |-> {}]}

\* A call of getLastBlocks: it does nothing while another one runs.
StartChain ==
    IF runningBlocks
    THEN UNCHANGED <<runningBlocks, chains>>
    ELSE /\ runningBlocks' = TRUE
         /\ chains' = chains \cup
              {[stage |-> "fetch", val |-> None, cur |-> {}, todo |-> {}]}

\* Mutant: the flags are set but not looked at.
Idle_Unguarded == UpdateGetters

\* The getters of emitData that are not busy; the others answer with an error.
Idle == {g \in UpdateGetters : ~running[g]}

\* Mutant: the call waits for the answers of the idle getters.
EmitData_Partial ==
    \E b \in BatchId \ open : Ask(Idle, b) /\ open' = open \cup {b}

\* emitData: when some getter is busy the call fails at once, and the requests
\* of the idle getters are sent all the same.
EmitData ==
    IF Idle = UpdateGetters
    THEN \E b \in BatchId \ open :
           /\ Ask(Idle, b)
           /\ open' = open \cup {b}
    ELSE Ask(Idle, Discarded) /\ UNCHANGED open

SendUpdates ==
    EmitData /\ StartChain /\ UNCHANGED <<results, loads, cache, data, view>>

BlocksChange ==
    /\ phase = "live" /\ "blocks/change" \in events
    /\ events' = events \ {"blocks/change"}
    /\ SendUpdates
    /\ UNCHANGED <<height, faults, phase>>

\* The interval.  Unless SlowNode, what the last update asked for has been
\* answered when the next one is due.
Timer ==
    /\ phase = "live"
    /\ SlowNode \/ (net = {} /\ chains = {})
    /\ SendUpdates
    /\ UNCHANGED <<env, phase>>

RoundsChange ==
    /\ phase = "live" /\ "rounds/change" \in events
    /\ events' = events \ {"rounds/change"}
    /\ loads' = loads \cup {None}
    /\ UNCHANGED <<height, faults, phase, running, runningBlocks, net, open,
                   results, chains, cache, data, view>>

\* A client connects: it, like the others, gets the data as they are.
Connect ==
    /\ phase # "down"
    /\ view' = lastBlock
    /\ UNCHANGED <<env, phase, calls, data>>

-----------------------------------------------------------------------------
(* Answers to the getters. *)

NeedsSnapshot(m) ==
    m.stage = "load" \/ m.getter \in {"NextForgers", "LastBlock"}

\* The node answers request m; the answer is on its way.
Serve(m) ==
    /\ NeedsSnapshot(m) /\ m.val = None
    /\ net' = (net \ {m}) \cup {[m EXCEPT !.val = height]}
    /\ UNCHANGED <<env, phase, running, runningBlocks, open, results, chains,
                   loads, cache, data, view>>

\* loadAllDelegates, called by getActive, replaces the local list; getActive goes
\* on with the forged amounts of the delegates on it.
ListLoaded(m) ==
    /\ m.stage = "load" /\ m.val # None
    /\ cache' = m.val
    /\ net' = (net \ {m}) \cup {[m EXCEPT !.stage = "get"]}
    /\ UNCHANGED <<env, phase, running, runningBlocks, open, results, chains,
                   loads, data, view>>

\* loadAllDelegates sorts the list before it looks at the error: without a
\* list, sorting throws.
ListLoadFails(m) ==
    /\ m.stage = "load" /\ m.val = None
    /\ Fault /\ Crash
    /\ UNCHANGED height

\* Mutant: the flags are updated before tmpData.roundDelegates.
UpdateActive_Order(a, f, h) ==
    /\ forgers' = f
    /\ roundDelegates' = RoundDelegates(f, h)
    /\ active' = a
    /\ IF active = None
       THEN UNCHANGED <<blocks, flag>>
       ELSE LET kept == TopAt[a] \cap ActiveSet IN
            /\ blocks' = [d \in Delegate |-> IF d \in kept THEN blocks[d] ELSE Unset]
            /\ flag' = [d \in Delegate |-> IF d \in kept THEN Flags(d) ELSE "unset"]

\* Mutant: the blocks of the delegates are not copied to the new list.
UpdateActive_NoCopy(a, f, h) ==
    /\ forgers' = f
    /\ roundDelegates' = RoundDelegates(f, h)
    /\ active' = a
    /\ flag' = [d \in Delegate |-> IF d \in roundDelegates' THEN "yes" ELSE "no"]
    /\ blocks' = [d \in Delegate |-> Unset]

\* updateActive, given the top list of snapshot a and the forgers of snapshot f
\* when the last block known is h.
UpdateActive(a, f, h) ==
    /\ forgers' = f
    /\ roundDelegates' = RoundDelegates(f, h)
    /\ active' = a
    /\ IF active = None
       THEN UNCHANGED <<blocks, flag>>
       ELSE LET kept == TopAt[a] \cap ActiveSet IN
            /\ blocks' = [d \in Delegate |-> IF d \in kept THEN blocks[d] ELSE Unset]
            /\ flag' = [d \in Delegate |->
                          IF d \notin kept THEN "unset"
                          ELSE IF d \in roundDelegates' THEN "yes" ELSE "no"]

\* All getters of call b have answered, r[g] being the answer of g.
Complete(r) ==
    IF phase = "starting"
    THEN /\ phase' = "live"
         /\ lastBlock' = r["LastBlock"]
         /\ UpdateActive(r["Active"], r["NextForgers"], lastBlock')
         /\ view' = lastBlock'
         /\ StartChain
    ELSE /\ UpdateActive(r["Active"], r["NextForgers"], lastBlock)
         /\ view' = lastBlock
         /\ UNCHANGED <<phase, lastBlock, runningBlocks, chains>>

Waiting(b) == {m \in net : m.batch = b}

NoResult == [g \in Getter |-> None]

\* Call b is over: its name and its results are no longer in use.
Forget(b) ==
    /\ open' = open \ {b}
    /\ results' = [c \in BatchId |-> IF c = b THEN NoResult ELSE results[c]]

\* The success callback of a getter.
Deliver(m) ==
    /\ m.stage = "get" /\ (NeedsSnapshot(m) => m.val # None)
    /\ net' = net \ {m}
    /\ running' = [running EXCEPT ![m.getter] = FALSE]
    /\ IF m.batch \notin open
       THEN UNCHANGED <<phase, runningBlocks, open, results, chains, data, view>>
       ELSE LET r == [results[m.batch] EXCEPT ![m.getter] = m.val] IN
            IF Waiting(m.batch) = {m}
            THEN /\ Forget(m.batch)
                 /\ Complete(r)
            ELSE /\ results' = [results EXCEPT ![m.batch] = r]
                 /\ UNCHANGED <<phase, runningBlocks, open, chains, data, view>>
    /\ UNCHANGED <<env, loads, cache>>

\* Mutant: the error callback leaves the flag of the getter set.
Fail_KeepsFlag(m) ==
    /\ m.stage = "get"
    /\ Fault
    /\ Forget(m.batch)
    /\ net' = {IF q.batch = m.batch THEN [q EXCEPT !.batch = Discarded] ELSE q :
                 q \in net \ {m}}
    /\ phase' = IF phase = "starting" /\ m.batch \in open THEN "failed" ELSE phase
    /\ UNCHANGED <<height, events, running, runningBlocks, chains, loads,
                   cache, data, view>>

\* The error callback of a getter: the call that waits for it fails, the other
\* requests of that call go on for nobody.
Fail(m) ==
    /\ m.stage = "get"
    /\ Fault
    /\ running' = [running EXCEPT ![m.getter] = FALSE]
    /\ Forget(m.batch)
    /\ net' = {IF q.batch = m.batch THEN [q EXCEPT !.batch = Discarded] ELSE q :
                 q \in net \ {m}}
    /\ phase' = IF phase = "starting" /\ m.batch \in open THEN "failed" ELSE phase
    /\ UNCHANGED <<height, events, runningBlocks, chains, loads, cache,
                   data, view>>

-----------------------------------------------------------------------------
(* getLastBlocks. *)

\* Mutant: the flag is not cleared when the last delegate is done.
NextDelegate_KeepsFlag(c, S) ==
    /\ UNCHANGED runningBlocks
    /\ IF S = {}
       THEN chains' = chains \ {c}
       ELSE \E d \in S :
              chains' = (chains \ {c}) \cup
                {[stage |-> "each", val |-> None, cur |-> {d}, todo |-> S \ {d}]}

\* Call c goes on with the delegates in S, one after the other, or ends.
NextDelegate(c, S) ==
    IF S = {}
    THEN chains' = chains \ {c} /\ runningBlocks' = FALSE
    ELSE /\ \E d \in S :
              chains' = (chains \ {c}) \cup
                {[stage |-> "each", val |-> None, cur |-> {d}, todo |-> S \ {d}]}
         /\ UNCHANGED runningBlocks

ServeChain(c) ==
    /\ c.val = None
    /\ chains' = (chains \ {c}) \cup {[c EXCEPT !.val = height]}
    /\ UNCHANGED <<env, phase, running, runningBlocks, net, open, results, loads,
                   cache, data, view>>

\* The delegates of B, all active, show the blocks of B.
ShowBlocks(B) ==
    /\ blocks' = [d \in Delegate |-> IF d \in DOMAIN B THEN B[d] ELSE blocks[d]]
    /\ flag' = [d \in Delegate |-> IF d \in DOMAIN B THEN Flags(d) ELSE flag[d]]

\* The answer to /blocks: the last block, and newer blocks of active delegates.
\* Then the delegates without any block are looked up one by one.
ChainBlocks(c) ==
    LET newer == {d \in ActiveSet : NewestBlock(d, c.val, BlocksLimit) > 0 /\
                                    NewestBlock(d, c.val, BlocksLimit) > blocks[d]}
    IN  /\ c.stage = "fetch" /\ c.val # None
        /\ lastBlock' = c.val
        /\ ShowBlocks([d \in newer |-> NewestBlock(d, c.val, BlocksLimit)])
        /\ NextDelegate(c, {d \in ActiveSet : blocks'[d] = Unset})
        /\ UNCHANGED <<env, phase, running, net, open, results, loads, cache,
                       active, forgers, roundDelegates, view>>

ChainFails(c) ==
    /\ c.stage = "fetch" /\ Fault
    /\ chains' = chains \ {c} /\ runningBlocks' = FALSE
    /\ UNCHANGED <<height, events, phase, running, net, open, results, loads,
                   cache, data, view>>

\* The answer for one delegate, shown if the delegate is still active.
ChainDelegate(c) ==
    /\ c.stage = "each" /\ c.val # None
    /\ ShowBlocks([d \in c.cur \cap ActiveSet |-> NewestBlock(d, c.val, c.val)])
    /\ NextDelegate(c, c.todo)
    /\ UNCHANGED <<env, phase, running, net, open, results, loads, cache,
                   lastBlock, active, forgers, roundDelegates, view>>

\* Mutant: the flag is given back only by a call that was through with all delegates.
ChainDelegateFails_KeepsFlag(c) ==
    /\ c.stage = "each" /\ Fault
    /\ chains' = chains \ {c}
    /\ UNCHANGED <<height, events, phase, running, runningBlocks, net, open, results,
                   loads, cache, data, view>>

\* The request for one delegate fails or is refused: its error callback ends the
\* waterfall, with the error or with none, and the delegates left are not looked up.
ChainDelegateFails(c) ==
    /\ c.stage = "each" /\ Fault
    /\ chains' = chains \ {c} /\ runningBlocks' = FALSE
    /\ UNCHANGED <<height, events, phase, running, net, open, results, loads,
                   cache, data, view>>

-----------------------------------------------------------------------------
(* loadAllDelegates for app.js and for 'rounds/change'. *)

ServeLoad ==
    /\ None \in loads
    /\ loads' = (loads \ {None}) \cup {height}
    /\ UNCHANGED <<env, phase, running, runningBlocks, net, open, results,
                   chains, cache, data, view>>

LoadDone(v) ==
    /\ v # None
    /\ loads' = loads \ {v}
    /\ cache' = v
    /\ UNCHANGED <<env, phase, running, runningBlocks, net, open, results,
                   chains, data, view>>

LoadFails ==
    /\ None \in loads /\ Fault
    /\ Crash
    /\ UNCHANGED height

-----------------------------------------------------------------------------
(* The node. *)

\* A block is forged.  Of the notifications it gives rise to any may be lost; a
\* monitor that is not live has not subscribed to them.
NewBlock ==
    /\ height < MaxHeight
    /\ height' = height + 1
    /\ LET sent == {"blocks/change"} \cup
                   (IF Round(height') # Round(height) THEN {"rounds/change"} ELSE {})
       IN  \E got \in SUBSET sent :
             events' = IF phase = "live" THEN events \cup got ELSE events
    /\ UNCHANGED <<faults, phase, calls, data, view>>

-----------------------------------------------------------------------------

Answer ==
    \/ \E m \in net : Serve(m) \/ ListLoaded(m) \/ Deliver(m)
    \/ \E c \in chains : ServeChain(c) \/ ChainBlocks(c) \/ ChainDelegate(c)
    \/ ServeLoad
    \/ \E v \in loads : LoadDone(v)

Failure ==
    \/ \E m \in net : ListLoadFails(m) \/ Fail(m)
    \/ \E c \in chains : ChainFails(c) \/ ChainDelegateFails(c)
    \/ LoadFails

Next ==
    \/ Start \/ BlocksChange \/ Timer \/ RoundsChange \/ Connect
    \/ Answer \/ Failure
    \/ NewBlock

Spec == Init /\ [][Next]_vars

-----------------------------------------------------------------------------
(* Fairness: the node answers every request in the end, the interval is not   *)
(* cleared, and the process is restarted.  Nothing obliges clients to         *)
(* connect, blocks to be forged, notifications to arrive or requests to fail. *)

AnswerTo(g) ==
    \E m \in net : m.getter = g /\ (Serve(m) \/ ListLoaded(m) \/ Deliver(m))

Fairness ==
    /\ \A g \in Getter : WF_vars(AnswerTo(g))
    /\ WF_vars(\E c \in chains : ServeChain(c) \/ ChainBlocks(c) \/ ChainDelegate(c))
    /\ WF_vars(Timer)
    /\ WF_vars(Start)

FairSpec == Spec /\ Fairness

-----------------------------------------------------------------------------
(* Properties. *)

TypeOK ==
    /\ height \in Height /\ faults \in 0 .. MaxFaults
    /\ events \subseteq {"blocks/change", "rounds/change"}
    /\ phase \in {"down", "starting", "live", "failed"}
    /\ running \in [Getter -> BOOLEAN] /\ runningBlocks \in BOOLEAN
    /\ net \subseteq Request
    /\ open \subseteq BatchId /\ results \in [BatchId -> [Getter -> Snapshot]]
    /\ chains \subseteq Chain /\ loads \subseteq Snapshot
    /\ cache \in Snapshot /\ lastBlock \in Snapshot /\ active \in Snapshot
    /\ forgers \in Snapshot /\ view \in Snapshot
    /\ blocks \in [Delegate -> Snapshot \cup {Unset}]
    /\ roundDelegates \subseteq Delegate
    /\ flag \in [Delegate -> {"unset", "yes", "no"}]

\* The flags of `running` are set exactly while a request of their getter is in
\* flight, of which there is never a second one: a flag never stays set for
\* good, whichever callback the request ends in and whoever waits for it.
SingleFlight ==
    /\ \A g \in Getter : running[g] <=> \E m \in net : m.getter = g
    /\ \A m, n \in net : m.getter = n.getter => m = n

\* Two calls of async.parallel never collect results at the same time, so the
\* data are never put together from the answers of two calls, and a call that
\* collects is always waiting for some request.
OneOpenCall ==
    /\ \A b, c \in open : b = c
    /\ \A b \in open : \E m \in net : m.batch = b

\* What makes the two above inductive: every request in flight belongs to a call
\* that still collects or to nobody; after the first load, only getters of
\* emitData work for a call that collects; a dead process waits for nothing.
CallsInv ==
    /\ SingleFlight
    /\ OneOpenCall
    /\ \A m \in net : m.batch \in open \cup {Discarded}
    /\ phase # "starting" =>
         \A m \in net : m.batch \in open => m.getter \in UpdateGetters
    /\ phase = "down" => net = {}

\* getLastBlocks never runs twice at a time, and its flag is cleared on every
\* way out.
OneChain ==
    /\ \A c, d \in chains : c = d
    /\ runningBlocks <=> chains # {}

\* isRoundDelegate of an active delegate agrees with tmpData.roundDelegates, in
\* whatever order updateActive and the steps of getLastBlocks write it.
FlagsAgree ==
    \A d \in ActiveSet : flag[d] \in {"unset", Flags(d)}

\* While the process runs, what is shown never goes back in the chain: the last block, the
\* next forgers, and the block of a delegate that stays active, which neither the refresh of
\* the list nor a late answer of getLastBlocks takes away.
Onwards ==
    phase' # "down" =>
      /\ lastBlock' >= lastBlock
      /\ forgers' >= forgers
      /\ \A d \in ActiveSet \cap ActiveSet' : blocks'[d] >= blocks[d]

NothingGoesBack == [][Onwards]_vars

\* updateActive, given the forgers of the height of the last block it knows,
\* finds exactly the delegates with a slot left in that round.
RoundFits ==
    forgers' # forgers /\ forgers' = lastBlock' => roundDelegates' = StillToForge(forgers')

RoundDelegatesExact == [][RoundFits]_vars

\* Clients are shown every new block, or a later one, in the end: "Live status of
\* the 101 active delegates" (README.md).
CatchesUp ==
    \A h \in StartHeight + 1 .. MaxHeight : height >= h ~> view >= h
==============================================================================
