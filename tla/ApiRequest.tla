----------------------------- MODULE ApiRequest -----------------------------
(***************************************************************************)
(* One request of the HTTP API, from the call of its handler to the        *)
(* answer, while the chain grows: the flows of BlocksApi, TransactionsApi, *)
(* AccountsApi and SearchApi, and the block statistics, carried out        *)
(* against a node whose replies come in any order and may fail.            *)
(***************************************************************************)
EXTENDS SearchApi, FiniteSets

CONSTANTS
    Tx,          \* the transactions: numbers, which stand for their timestamps
    Vote,        \* the delegates a vote names
    Forger,      \* the forgers of the blocks of a page
    PageSize,    \* blocks on a page of the list: 20 in the code
    ListSize,    \* transactions of getLastTransactions: 20 in the code
    StatPages,   \* pages of the block statistics: 87 in the code
    MaxHeight,   \* bound of the model: height of the chain
    MaxReplyFaults \* bound of the model: replies without the data

ASSUME ApiAssumption ==
    /\ Tx \subseteq Nat /\ IsFiniteSet(Tx) /\ Tx # {}
    /\ {PageSize, ListSize, StatPages, MaxHeight} \subseteq Nat \ {0}
    /\ MaxReplyFaults \in Nat

\* Delegates are public keys: none is called like a request.
ASSUME NameAssumption ==
    (Vote \cup Forger) \cap
        {"height", "blockAt", "blocks", "block", "transaction", "unconfirmed", "page"} = {}

VARIABLES
    height,  \* the node: height of its chain
    chain,   \* the node: the confirmed transactions
    pool,    \* the node: the unconfirmed ones
    faults,  \* replies without the data so far
    op,      \* the operation asked for
    arg,     \* the height, transaction or offset it is asked for
    waiting, \* the calls without a reply, with the flow they belong to
    closed,  \* the flows that have ended
    found,   \* those of them that ended in a result
    called,  \* the calls of success and error
    alive,   \* the process runs
    got,     \* what the handler has read
    start    \* history: the node when the request began

nodeVars    == <<height, chain, pool>>
handlerVars == <<waiting, closed, found, called, alive>>
apiVars     == <<nodeVars, faults, op, arg, handlerVars, got, start>>

\* getBlocks of lib/api/statistics.js: page after page, whatever is on them.
StatisticsCall(offset) ==
    [Always(IF offset + PageSize > (StatPages - 1) * PageSize THEN Done ELSE Ask({"page"}))
        EXCEPT !["status"] = Error, !["fail"] = Error]

\* What can be asked for.
Operations ==
    Overlay(BlocksOperation(Forger),
      Overlay(TransactionsOperation(Vote),
        Overlay(AccountsOperation,
          Overlay(SearchOperation,
                  [getBlocks |-> Alone(Flow({"page"}, [page |-> StatisticsCall(0)]))]))))

Transactional == DOMAIN TransactionsOperation(Vote)
Searching     == DOMAIN SearchOperation
Unifying      == {"unifiedAddress", "unifiedName"}
\* The handlers that check a parameter before they ask anybody.
Checked ==
    {"getTransaction", "getTransactionsByAddress", "getTransactionsByBlock", "getBlock",
     "getHeight", "getAccount", "getVotes", "getVoters", "search", "getSearch"}

Arguments(o) ==
    CASE o \in {"getTransaction", "getVote"} -> Tx
      [] o \in {"getBlock", "getHeight"}     -> 1 .. MaxHeight
      [] o = "getLastBlocks"                 -> {NoNumber} \cup 0 .. MaxHeight
      [] OTHER                               -> {0}

FirstCalls(o, flow) == {flow} \X Operations[o].flows[flow].first

-----------------------------------------------------------------------------

Init ==
    /\ op \in DOMAIN Operations /\ arg \in Arguments(op)
    /\ height \in 1 .. MaxHeight
    /\ chain \in SUBSET Tx /\ pool \in SUBSET (Tx \ chain)
    /\ op \notin Transactional => chain = {} /\ pool = {}
    /\ faults = 0 /\ alive = TRUE /\ closed = {} /\ found = {}
    /\ got = [height |-> 0, list |-> <<>>, offset |-> 0]
    /\ start = [height |-> height, chain |-> chain, pool |-> pool]
    /\ \/ /\ waiting = UNION {FirstCalls(op, f) : f \in Operations[op].begin}
          /\ called = <<>>
       \/ op \in Checked /\ waiting = {} /\ called = <<"error">>

\* The node goes on while the request is open: a transaction is sent to it, and a block
\* confirms some of those it has.
Submit(t) ==
    /\ called = <<>> /\ op \in Transactional
    /\ t \notin chain \cup pool
    /\ pool' = pool \cup {t}
    /\ UNCHANGED <<height, chain, faults, op, arg, handlerVars, got, start>>

Forge(confirmed) ==
    /\ called = <<>> /\ op \notin Searching /\ height < MaxHeight
    /\ height' = height + 1
    /\ chain' = chain \cup confirmed /\ pool' = pool \ confirmed
    /\ UNCHANGED <<faults, op, arg, handlerVars, got, start>>

\* The replies the node and Redis can give without failing.
Replies(call) ==
    IF op \in Searching THEN {"ok", "empty"}
    ELSE CASE call = "transaction" -> {IF arg \in chain THEN "ok" ELSE "empty"}
           [] call = "unconfirmed" -> {IF arg \in pool THEN "ok" ELSE "empty"}
           [] call \in {"block", "blockAt"} -> {IF arg <= height THEN "ok" ELSE "empty"}
           [] call = "blocks" -> {IF Offset(arg) < height THEN "ok" ELSE "empty"}
           [] call = "page" -> {IF got.offset < height THEN "ok" ELSE "empty"}
           [] call \in {"account", "groups", "memberships", "sender", "recipient"} -> {"ok", "empty"}
           [] OTHER -> {"ok"}

\* Those it gives when something is wrong; Redis fails or answers.
Faulty(call) ==
    IF call \in {"sender", "recipient"} THEN {"fail"} ELSE {"refused", "odd", "status", "fail"}

\* What the handler has read after the reply to a call.
Read(call, reply) ==
    IF reply # "ok" /\ call # "page" THEN got
    ELSE CASE call = "height" -> [got EXCEPT !.height = height]
           [] call = "blockAt" -> [got EXCEPT !.height = arg]
           [] call = "blocks" -> [got EXCEPT !.list = BlocksPage(height, Offset(arg), PageSize)]
           [] call \in {"confirmed", "list"} ->
                [got EXCEPT !.list = Newest(SetToSeq(chain), ListSize)]
           [] call = "pool" ->
                [got EXCEPT !.list = Concatenate(@, SetToSeq(pool), ListSize)]
           [] call = "page" ->
                [got EXCEPT !.offset = @ + PageSize,
                            !.list = IF reply = "ok"
                                     THEN @ \o BlocksPage(height, got.offset, PageSize)
                                     ELSE @]
           [] OTHER -> got

\* What the code does with a reply.
Reaction(c, reply) ==
    IF c[2] = "page" THEN StatisticsCall(got.offset)[reply]
    ELSE Operations[op].flows[c[1]].calls[c[2]][reply]

\* A reply arrives, a good one or one that shows a fault.
Receive(c, reply) ==
    /\ alive /\ c \in waiting
    /\ \/ reply \in Replies(c[2]) /\ UNCHANGED faults
       \/ /\ reply \in Faulty(c[2])
          /\ faults < MaxReplyFaults /\ faults' = faults + 1
    /\ got' = Read(c[2], reply)
    /\ UNCHANGED <<nodeVars, op, arg, start>>

Others(c) == waiting \ {c}
FlowWaits(c) == \E d \in Others(c) : d[1] = c[1]

\* success or error is called: the answer goes out.  A second call throws, as the
\* answer has been sent, and nobody catches that.
Respond(function) ==
    /\ called' = Append(called, function)
    /\ alive' = (called = <<>>)

\* Mutant: each of the joined searches answers.
Join_NoWait(c, ok) ==
    /\ closed' = closed \cup {c[1]}
    /\ found' = IF ok THEN found \cup {c[1]} ELSE found
    /\ waiting' = Others(c)
    /\ Respond("success")

\* A flow has ended, in a result or not: those that are joined wait for each other.
Join(c, ok) ==
    /\ closed' = closed \cup {c[1]}
    /\ found' = IF ok THEN found \cup {c[1]} ELSE found
    /\ waiting' = Others(c)
    /\ IF op \in Unifying /\ closed' # DOMAIN Operations[op].flows
       THEN UNCHANGED <<called, alive>>
       ELSE Respond("success")

\* The code asks for more, or waits for the other calls of its flow, or drops the
\* reply because the flow has ended.
Continue(c, reply) ==
    LET k == Reaction(c, reply)
    IN  /\ Receive(c, reply)
        /\ \/ k.then = "ask" /\ (k.calls # {} \/ FlowWaits(c) \/ c[1] \in closed)
           \/ k.then = "pass" /\ c[1] \in closed
        /\ waiting' = Others(c) \cup (IF c[1] \in closed THEN {} ELSE {c[1]} \X k.calls)
        /\ UNCHANGED <<closed, found, called, alive>>

\* The last reply of a flow.
Succeed(c, reply) ==
    LET k == Reaction(c, reply)
    IN  /\ Receive(c, reply)
        /\ k = Done /\ ~FlowWaits(c) /\ c[1] \notin closed
        /\ Join(c, TRUE)

\* Mutant: a handler that has called its error function goes on.
Fail_GoesOn(c, reply) ==
    LET k == Reaction(c, reply)
        next == Operations[op].onError[c[1]]
    IN  /\ Receive(c, reply)
        /\ k.then = "error" \/ (k.then = "pass" /\ c[1] \notin closed)
        /\ CASE next = "note"    -> Join(c, FALSE)
             [] next = "respond" ->
                  /\ waiting' = Others(c) /\ UNCHANGED <<closed, found>>
                  /\ Respond("error")
             [] OTHER ->
                  /\ closed' = closed \cup {c[1]}
                  /\ waiting' = Others(c) \cup FirstCalls(op, next)
                  /\ UNCHANGED <<found, called, alive>>

\* The flow ends in an error.  async reports only the first one; a handler that calls
\* its error function itself does so each time.
Fail(c, reply) ==
    LET k == Reaction(c, reply)
        next == Operations[op].onError[c[1]]
    IN  /\ Receive(c, reply)
        /\ k.then = "error" \/ (k.then = "pass" /\ c[1] \notin closed)
        /\ CASE next = "note"    -> Join(c, FALSE)
             [] next = "respond" ->
                  /\ closed' = closed \cup {c[1]}
                  /\ waiting' = Others(c) /\ UNCHANGED found
                  /\ Respond("error")
             [] OTHER ->
                  /\ closed' = closed \cup {c[1]}
                  /\ waiting' = Others(c) \cup FirstCalls(op, next)
                  /\ UNCHANGED <<found, called, alive>>

\* The callback throws: the process ends.
Throw(c, reply) ==
    /\ Receive(c, reply)
    /\ Reaction(c, reply) = Crash
    /\ alive' = FALSE /\ waiting' = {}
    /\ UNCHANGED <<closed, found, called>>

\* A rejected promise: the request is never answered.
Forget(c, reply) ==
    /\ Receive(c, reply)
    /\ Reaction(c, reply) = Hang
    /\ waiting' = Others(c)
    /\ UNCHANGED <<closed, found, called, alive>>

Answer(c, reply) ==
    \/ Continue(c, reply) \/ Succeed(c, reply) \/ Fail(c, reply)
    \/ Throw(c, reply) \/ Forget(c, reply)

Next ==
    \/ \E c \in waiting, reply \in Reply : Answer(c, reply)
    \/ \E t \in Tx : Submit(t)
    \/ \E confirmed \in SUBSET pool : Forge(confirmed)

ApiSpec == Init /\ [][Next]_apiVars

\* Every request to the node or to Redis is answered or fails.
ApiFairSpec == ApiSpec /\ WF_apiVars(\E c \in waiting, reply \in Reply : Answer(c, reply))

-----------------------------------------------------------------------------
(* Properties. *)

TypeOK ==
    /\ op \in DOMAIN Operations /\ arg \in {NoNumber} \cup Nat
    /\ height \in 1 .. MaxHeight /\ chain \subseteq Tx /\ pool \subseteq Tx \ chain
    /\ faults \in 0 .. MaxReplyFaults
    /\ closed \subseteq DOMAIN Operations[op].flows /\ found \subseteq closed
    /\ \A c \in waiting : c[2] \in DOMAIN Operations[op].flows[c[1]].calls
    /\ called \in Seq({"success", "error"}) /\ Len(called) <= 2
    /\ alive \in BOOLEAN
    /\ got.height \in 0 .. MaxHeight /\ got.offset \in Nat /\ got.list \in Seq((1 .. MaxHeight) \cup Tx)

\* Whatever the replies and their order: a handler answers once, with success or with
\* an error, and what calls back twice ends the process; success never comes second.
Contract ==
    INSTANCE Handler WITH calls <- called, alive <- alive
KeepsContract == Contract!HandlerSpec

\* Every request is answered unless the process ends, or Redis fails while a name
\* is looked up.
LookupFailed == op \in {"getTransactions", "getTransactionsByAddress"} /\ faults > 0
AlwaysAnswered == <>(called # <<>> \/ ~alive \/ LookupFailed)

Answered(o) == op = o /\ called = <<"success">>

\* A transaction that was confirmed when the request began is found.
ConfirmedFound ==
    (op \in {"getTransaction", "getVote"} /\ called = <<"error">> /\ closed # {} /\ faults = 0)
        => arg \notin start.chain

\* The confirmations that are answered are those of some moment of the request.
ConfirmedMeanwhile ==
    /\ Confirmations(got.height, arg) >= Confirmations(start.height, arg)
    /\ Confirmations(got.height, arg) <= Confirmations(height, arg)

\* getBlock: the confirmations of a block are those it had at some moment of the request.
\* Of getHeight this is not true, see HeightConfirmations.
ConfirmationsTrue == Answered("getBlock") => ConfirmedMeanwhile

\* getHeight answers the confirmations of the block, 17313 for block 1 of a chain of 17313
\* blocks (API_ENDPOINTS.md:173, as :123 for getBlock).  The code does not keep this: it
\* counts up to the block itself, and its answer is always 1.  So it is no part of AnswersTrue.
HeightConfirmations == Answered("getHeight") => ConfirmedMeanwhile

\* The newest transactions are those of the node if it had the same throughout; none is
\* listed twice; a confirmed one that is still among the newest is listed.
ListedInOrder ==
    Answered("getLastTransactions") /\ faults = 0 =>
        LET newest == Newest(SetToSeq(chain \cup pool), ListSize)
        IN  /\ (start.chain = chain /\ start.pool = pool => got.list = newest)
            /\ \A i, j \in DOMAIN got.list : i < j => got.list[i] > got.list[j]
            /\ \A i \in DOMAIN newest :
                 newest[i] \in start.chain => \E j \in DOMAIN got.list : got.list[j] = newest[i]

\* A page that promises another one is right: there are blocks on it.  One that promises
\* none was the last when the request began, if the request gave the number of its first
\* block: without a number no page is promised (Pagination), and nothing says there is one.
MoreIsTrue ==
    Answered("getLastBlocks") =>
        LET page == Pagination(arg, got.height, PageSize)
        IN  /\ page.more => BlocksPage(height, page.current * PageSize, PageSize) # <<>>
            /\ arg # NoNumber /\ ~page.more =>
                 BlocksPage(start.height, page.current * PageSize, PageSize) = <<>>

\* The statistics skip no block although the pages move while they are read.
NoBlockSkipped ==
    Answered("getBlocks") /\ faults = 0 =>
        LET counted == {got.list[i] : i \in DOMAIN got.list}
        IN  /\ \E h \in counted : h >= start.height
            /\ \A h \in counted : \A g \in h .. start.height : g \in counted

\* What a search finds is in the answer, best first, and once.
ResultsJoined ==
    op \in Unifying /\ called # <<>> =>
        LET results == UnifiedResults(found)
        IN  /\ called = <<"success">>
            /\ \A i, j \in DOMAIN results : i < j =>
                 /\ results[i].accuracy >= results[j].accuracy
                 /\ <<results[i].type, results[i].id>> # <<results[j].type, results[j].id>>
            /\ \A k \in DOMAIN ResultsOf : ResultsOf[k].search \in found =>
                 \E i \in DOMAIN results : results[i] = ItemAt(k)

AnswersTrue ==
    /\ ConfirmedFound /\ ConfirmationsTrue /\ ListedInOrder
    /\ MoreIsTrue /\ NoBlockSkipped /\ ResultsJoined
==============================================================================
