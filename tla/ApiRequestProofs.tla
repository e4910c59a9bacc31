--------------------------- MODULE ApiRequestProofs ---------------------------
(* Proofs about ApiRequest: that a handler keeps the contract of handler.js,  *)
(* and that what it answers is true of a chain that grows meanwhile, for any  *)
(* chains, transactions, delegates, sizes of pages and faults.                *)
EXTENDS ApiRequest, FiniteSetTheorems, SequenceTheorems, TLAPS

-----------------------------------------------------------------------------
(* Lemmas about the tables of operations. *)

\* The operations of several flows.
Chained == Unifying \cup {"search"}

\* A flow that never has two calls under way: it begins with one, and every reply is
\* followed by one call at most.
Sequential(flow) ==
    /\ \E x \in DOMAIN flow.calls : flow.first = {x}
    /\ \A call \in DOMAIN flow.calls, r \in Reply :
         \/ flow.calls[call][r].calls = {}
         \/ \E x \in DOMAIN flow.calls : flow.calls[call][r].calls = {x}
    /\ "page" \notin DOMAIN flow.calls

\* What callbacks do with a reply.
LEMMA NeedsIs == ASSUME NEW next, NEW r \in Reply
                 PROVE  Needs(next)[r] = IF r = "ok" THEN next ELSE Error
BY DEF Needs

\* A callback that takes an empty list too.
LEMMA ListsIs == ASSUME NEW next, NEW r \in Reply
                 PROVE  Lists(next)[r] = IF r \in {"ok", "empty"} THEN next ELSE Error
BY DEF Lists, Needs, Reply

\* What a callback asks for: nothing, unless it asks.
LEMMA NoCalls == /\ Done.calls = {} /\ Error.calls = {} /\ Pass.calls = {}
                 /\ Crash.calls = {} /\ Hang.calls = {}
                 /\ \A S : Ask(S).calls = S /\ Ask(S).then = "ask"
BY DEF Done, Error, Pass, Crash, Hang, Ask

\* What the callbacks of getAccount do with a reply.
LEMMA AccountReplies ==
    ASSUME NEW next, NEW r \in Reply
    PROVE  /\ AccountCall(next)[r] \in {next, Error, Ask({"noGroups"}), Ask({"lostGroups"})}
           /\ GetMultisignaturesGroups(next)[r] \in {next, Error, Crash, Ask({"lostMemberships"})}
           /\ GetMultisignaturesMemberships(next)[r] \in {next, Error, Crash}
           /\ CountCall(next)[r] \in {next, Error}
<1>1. AccountCall(next)[r] \in {next, Error, Ask({"noGroups"}), Ask({"lostGroups"})}
  BY DEF AccountCall, WithoutResult, Needs, Reply
<1>2. GetMultisignaturesGroups(next)[r] \in {next, Error, Crash, Ask({"lostMemberships"})}
  BY DEF GetMultisignaturesGroups, WithoutResult, Lists, Needs, Reply
<1>3. GetMultisignaturesMemberships(next)[r] \in {next, Error, Crash}
  BY DEF GetMultisignaturesMemberships, Lists, Needs, Reply
<1>4. CountCall(next)[r] \in {next, Error}
  BY DEF CountCall, Always, Reply
<1> QED BY <1>1, <1>2, <1>3, <1>4

\* getHeight of lib/api/blocks.js has one call under way at a time.
LEMMA SequentialGetHeight == Sequential(GetHeight)
<1> DEFINE T == GetHeight.calls
<1>1. /\ DOMAIN T = {"blockAt", "block", "forger"} /\ GetHeight.first = {"blockAt"}
      /\ T["blockAt"] = GetBlockByHeight(Ask({"block"}))
      /\ T["block"] = Needs(Ask({"forger"})) /\ T["forger"] = Always(Done)
  BY DEF GetHeight, Flow, Overlay, BlockCall, GetDelegateCall
<1>2. \A r \in Reply : T["blockAt"][r].calls = {} \/ T["blockAt"][r].calls = {"block"}
  BY <1>1, NoCalls DEF GetBlockByHeight, Needs, Reply
<1>3. \A r \in Reply : T["block"][r].calls = {} \/ T["block"][r].calls = {"forger"}
  BY <1>1, NoCalls, NeedsIs
<1>4. \A r \in Reply : T["forger"][r].calls = {}
  BY <1>1, NoCalls DEF Always
<1> HIDE DEF T
<1>5. \A call \in DOMAIN T, r \in Reply :
        T[call][r].calls = {} \/ \E x \in DOMAIN T : T[call][r].calls = {x}
  BY <1>1, <1>2, <1>3, <1>4
<1> QED BY <1>1, <1>5 DEF Sequential, T

\* getBlock of lib/api/blocks.js has one call under way at a time.
LEMMA SequentialGetBlock == Sequential(GetBlock)
<1> DEFINE T == GetBlock.calls
<1>1. /\ DOMAIN T = {"height", "block", "forger"} /\ GetBlock.first = {"height"}
      /\ T["height"] = Needs(Ask({"block"}))
      /\ T["block"] = Needs(Ask({"forger"})) /\ T["forger"] = Always(Done)
  BY DEF GetBlock, GetBlockHeight, Flow, Overlay, BlockCall, GetDelegateCall
<1>2. \A r \in Reply : T["height"][r].calls = {} \/ T["height"][r].calls = {"block"}
  BY <1>1, NoCalls, NeedsIs
<1>3. \A r \in Reply : T["block"][r].calls = {} \/ T["block"][r].calls = {"forger"}
  BY <1>1, NoCalls, NeedsIs
<1>4. \A r \in Reply : T["forger"][r].calls = {}
  BY <1>1, NoCalls DEF Always
<1> HIDE DEF T
<1>5. \A call \in DOMAIN T, r \in Reply :
        T[call][r].calls = {} \/ \E x \in DOMAIN T : T[call][r].calls = {x}
  BY <1>1, <1>2, <1>3, <1>4
<1> QED BY <1>1, <1>5 DEF Sequential, T

\* getTransaction, which names no delegates, has one call under way at a time.
LEMMA SequentialGetTransaction == Sequential(GetTransaction({}))
<1> DEFINE T == GetTransaction({}).calls
<1>1. /\ DOMAIN T = {"transaction", "unconfirmed"}
      /\ GetTransaction({}).first = {"transaction"}
      /\ T["transaction"] = [Lists(Ask({"unconfirmed"})) EXCEPT
                               !["ok"] = Done, !["refused"] = Ask({"unconfirmed"}),
                               !["odd"] = Ask({"unconfirmed"})]
      /\ T["unconfirmed"] = Needs(Done)
  BY DEF GetTransaction, Flow, Overlay, Done
<1>2. ASSUME NEW r \in Reply
      PROVE  T["transaction"][r].calls = {} \/ T["transaction"][r].calls = {"unconfirmed"}
  BY <1>1, NoCalls DEF Lists, Needs, Reply
<1>3. \A r \in Reply : T["unconfirmed"][r].calls = {}
  BY <1>1, NoCalls, NeedsIs
<1> HIDE DEF T
<1>4. \A call \in DOMAIN T, r \in Reply :
        T[call][r].calls = {} \/ \E x \in DOMAIN T : T[call][r].calls = {x}
  BY <1>1, <1>2, <1>3
<1> QED BY <1>1, <1>4 DEF Sequential, T

\* The searches of lib/api/delegates.js have one call.
LEMMA SequentialGetSearch == Sequential(GetSearch) /\ Sequential(GetStrictSearch)
<1>1. /\ DOMAIN GetSearch.calls = {"search"} /\ GetSearch.first = {"search"}
      /\ GetStrictSearch = GetSearch
      /\ GetSearch.calls["search"] = [Needs(Done) EXCEPT !["fail"] = Crash]
  BY DEF GetSearch, GetStrictSearch, Flow, DelegatesCall
<1>2. \A r \in Reply : GetSearch.calls["search"][r].calls = {}
  BY <1>1, NoCalls DEF Needs, Reply
<1> QED BY <1>1, <1>2 DEF Sequential

\* getAccount, as the search uses it, has one call under way at a time.
LEMMA SequentialFoundAccount == Sequential(FoundAccount)
<1> DEFINE T == FoundAccount.calls
           last == [r \in Reply |-> IF GetMultisignaturesMemberships(Done)[r] = Done
                                    THEN Error ELSE GetMultisignaturesMemberships(Done)[r]]
<1>1. /\ DOMAIN T = {"account", "groups", "memberships", "forged", "incoming", "outgoing",
                     "noGroups", "noMemberships", "lostGroups", "lostMemberships"}
      /\ FoundAccount.first = {"account"}
      /\ T["account"] = AccountCall(Ask({"groups"}))
      /\ T["groups"] = GetMultisignaturesGroups(Ask({"memberships"}))
      /\ T["memberships"] = GetMultisignaturesMemberships(Ask({"incoming"}))
      /\ T["forged"] = CountCall(Ask({"incoming"}))
      /\ T["incoming"] = CountCall(Ask({"outgoing"}))
      /\ T["outgoing"] = CountCall(Done)
      /\ T["noGroups"] = GetMultisignaturesGroups(Ask({"noMemberships"}))
      /\ T["noMemberships"] = last
      /\ T["lostGroups"] = Always(Crash)
      /\ T["lostMemberships"] = Always(Crash)
  BY DEF FoundAccount, GetAccount, Flow
<1>2. ASSUME NEW x, NEW r \in Reply
      PROVE  /\ GetMultisignaturesGroups(Ask({x}))[r].calls \in {{}, {x}, {"lostMemberships"}}
             /\ GetMultisignaturesMemberships(Ask({x}))[r].calls \in {{}, {x}}
             /\ CountCall(Ask({x}))[r].calls \in {{}, {x}}
  <2> DEFINE next == Ask({x})
  <2>1. /\ next.calls = {x} /\ Ask({"lostMemberships"}).calls = {"lostMemberships"}
        /\ Error.calls = {} /\ Crash.calls = {}
    BY NoCalls
  <2> HIDE DEF next
  <2>2. /\ GetMultisignaturesGroups(next)[r] \in {next, Error, Crash, Ask({"lostMemberships"})}
        /\ GetMultisignaturesMemberships(next)[r] \in {next, Error, Crash}
        /\ CountCall(next)[r] \in {next, Error}
    BY AccountReplies
  <2>3. GetMultisignaturesGroups(next)[r].calls \in {{}, {x}, {"lostMemberships"}}
    BY <2>1, <2>2
  <2>4. GetMultisignaturesMemberships(next)[r].calls \in {{}, {x}}
    BY <2>1, <2>2
  <2>5. CountCall(next)[r].calls \in {{}, {x}}
    BY <2>1, <2>2
  <2> QED BY <2>3, <2>4, <2>5 DEF next
<1>3. ASSUME NEW r \in Reply
      PROVE  /\ T["account"][r].calls \in {{}, {"groups"}, {"noGroups"}, {"lostGroups"}}
             /\ T["outgoing"][r].calls = {} /\ T["lostGroups"][r].calls = {}
             /\ T["lostMemberships"][r].calls = {}
  <2>1. T["account"][r].calls \in {{}, {"groups"}, {"noGroups"}, {"lostGroups"}}
    BY <1>1, NoCalls, AccountReplies
  <2>2. CountCall(Done)[r].calls = {}
    BY NoCalls, AccountReplies
  <2>3. T["lostGroups"][r].calls = {} /\ T["lostMemberships"][r].calls = {}
    BY <1>1, NoCalls DEF Always, Reply
  <2> QED BY <1>1, <2>1, <2>2, <2>3
<1>4. ASSUME NEW r \in Reply PROVE T["noMemberships"][r].calls = {}
  <2>1. GetMultisignaturesMemberships(Done)[r].calls = {}
    BY NoCalls DEF GetMultisignaturesMemberships, Lists, Needs, Reply
  <2>2. last[r].calls = {}
    BY <2>1, NoCalls
  <2> HIDE DEF last
  <2> QED BY <1>1, <2>2
<1> HIDE DEF T, last
<1>5. ASSUME NEW call \in DOMAIN T, NEW r \in Reply
      PROVE  T[call][r].calls = {} \/ \E x \in DOMAIN T : T[call][r].calls = {x}
  <2>1. CASE call \in {"account", "outgoing", "lostGroups", "lostMemberships", "noMemberships"}
    BY <1>1, <1>3, <1>4, <2>1
  <2>2. CASE call \in {"groups", "noGroups"}
    <3>1. /\ T["groups"][r].calls \in {{}, {"memberships"}, {"lostMemberships"}}
          /\ T["noGroups"][r].calls \in {{}, {"noMemberships"}, {"lostMemberships"}}
      BY <1>1, <1>2
    <3> QED BY <1>1, <2>2, <3>1
  <2>3. CASE call \in {"memberships", "forged", "incoming"}
    <3>1. /\ T["memberships"][r].calls \in {{}, {"incoming"}}
          /\ T["forged"][r].calls \in {{}, {"incoming"}}
          /\ T["incoming"][r].calls \in {{}, {"outgoing"}}
      BY <1>1, <1>2
    <3> QED BY <1>1, <2>3, <3>1
  <2> QED BY <1>1, <2>1, <2>2, <2>3
<1> QED BY <1>1, <1>5 DEF Sequential, T

\* Every operation but the searches for whatever was typed is one flow, whose error is
\* the answer.
\* An operation of one flow begins with it, and answers its error.
LEMMA AloneIs ==
    ASSUME NEW flow
    PROVE  LET o == Alone(flow)
           IN  /\ DOMAIN o.flows = {"main"} /\ o.flows["main"] = flow
               /\ o.begin = {"main"} /\ o.onError["main"] = "respond"
BY DEF Alone, Operation

\* The handlers that are not searches have one flow.
LEMMA LoneTable == \A o \in DOMAIN Operations \ Chained : \E flow : Operations[o] = Alone(flow)
<1>1. \A o \in DOMAIN BlocksOperation(Forger) : \E flow : BlocksOperation(Forger)[o] = Alone(flow)
  BY DEF BlocksOperation
<1>2. \A o \in DOMAIN TransactionsOperation(Vote) :
        \E flow : TransactionsOperation(Vote)[o] = Alone(flow)
  BY DEF TransactionsOperation
<1>3. \A o \in DOMAIN AccountsOperation : \E flow : AccountsOperation[o] = Alone(flow)
  <2> DEFINE anybody == GetAccount(FALSE)
             delegate == GetAccount(TRUE)
  <2>1. AccountsOperation =
          [getAccount |-> Alone(anybody), getDelegateAccount |-> Alone(delegate),
           getVotes |-> Alone(GetVotes), getVoters |-> Alone(GetVoters),
           getTopAccounts |-> Alone(GetTopAccounts)]
    BY DEF AccountsOperation
  <2> HIDE DEF anybody, delegate
  <2> QED BY <2>1
<1>4. \A o \in DOMAIN SearchOperation \ Chained : \E flow : SearchOperation[o] = Alone(flow)
  BY DEF SearchOperation, Chained, Unifying, SearchAccount, SearchDelegates
<1> DEFINE Rest == [getBlocks |-> Alone(Flow({"page"}, [page |-> StatisticsCall(0)]))]
<1>5. \A o \in DOMAIN Rest : \E flow : Rest[o] = Alone(flow)
  OBVIOUS
<1> HIDE DEF Rest
<1> QED BY <1>1, <1>2, <1>3, <1>4, <1>5 DEF Operations, Overlay, Rest

\* The searches: one flow after the other, and all of them at once.
LEMMA ChainedTable ==
    /\ Chained \subseteq DOMAIN Operations
    /\ Operations["search"] = SearchHeight
    /\ Operations["unifiedAddress"] = UnifiedSearch({"account", "height", "tx", "block"})
    /\ Operations["unifiedName"] = UnifiedSearch({"fullText", "strict", "height", "tx", "block"})
<1> DEFINE Rest == [getBlocks |-> Alone(Flow({"page"}, [page |-> StatisticsCall(0)]))]
           S == Overlay(SearchOperation, Rest)
           A == Overlay(AccountsOperation, S)
           T == Overlay(TransactionsOperation(Vote), A)
<1>1. /\ Chained \cap DOMAIN BlocksOperation(Forger) = {}
      /\ Chained \cap DOMAIN TransactionsOperation(Vote) = {}
      /\ Chained \cap DOMAIN AccountsOperation = {}
      /\ Chained \subseteq DOMAIN SearchOperation
  BY DEF Chained, Unifying, BlocksOperation, TransactionsOperation, AccountsOperation,
         SearchOperation
<1> HIDE DEF Rest
<1>2. \A o \in Chained : o \in DOMAIN S /\ S[o] = SearchOperation[o]
  BY <1>1 DEF Overlay
<1> HIDE DEF S
<1>3. \A o \in Chained : o \in DOMAIN A /\ A[o] = SearchOperation[o]
  BY <1>1, <1>2 DEF Overlay
<1> HIDE DEF A
<1>4. \A o \in Chained : o \in DOMAIN T /\ T[o] = SearchOperation[o]
  BY <1>1, <1>3 DEF Overlay
<1> HIDE DEF T
<1>5. \A o \in Chained : o \in DOMAIN Operations /\ Operations[o] = SearchOperation[o]
  <2>1. Operations = Overlay(BlocksOperation(Forger), T)
    BY DEF Operations, T, A, S, Rest
  <2> QED BY <1>1, <1>4, <2>1 DEF Overlay
<1> QED BY <1>5 DEF SearchOperation, Chained, Unifying

\* The flows of the searches, and what becomes of one that ends in an error.
LEMMA UnifiedIs ==
    ASSUME NEW names \in SUBSET DOMAIN UnifiedFlow
    PROVE  LET o == UnifiedSearch(names)
           IN  /\ DOMAIN o.flows = names /\ o.begin = names
               /\ \A f \in names : /\ o.flows[f] = UnifiedFlow[f] /\ o.onError[f] = "note"
                                   /\ Sequential(o.flows[f])
<1>1. \A f \in DOMAIN UnifiedFlow : Sequential(UnifiedFlow[f])
  BY SequentialFoundAccount, SequentialGetSearch, SequentialGetHeight,
     SequentialGetTransaction, SequentialGetBlock DEF UnifiedFlow
<1> HIDE DEF UnifiedFlow
<1>2. /\ DOMAIN UnifiedSearch(names).flows = names /\ UnifiedSearch(names).begin = names
      /\ \A f \in names : /\ UnifiedSearch(names).flows[f] = UnifiedFlow[f]
                          /\ UnifiedSearch(names).onError[f] = "note"
  BY DEF UnifiedSearch, Unified, Operation
<1> QED BY <1>1, <1>2

\* unifiedSearch begins all its searches at once and notes the errors.
LEMMA UnifyingFlows ==
    ASSUME NEW o \in Unifying
    PROVE  /\ Operations[o].begin = DOMAIN Operations[o].flows
           /\ Operations[o].begin # {}
           /\ \A f \in DOMAIN Operations[o].flows :
                Sequential(Operations[o].flows[f]) /\ Operations[o].onError[f] = "note"
<1>1. {"account", "height", "tx", "block"} \subseteq DOMAIN UnifiedFlow
      /\ {"fullText", "strict", "height", "tx", "block"} \subseteq DOMAIN UnifiedFlow
  BY DEF UnifiedFlow
<1>2. CASE o = "unifiedAddress"
  BY <1>1, <1>2, ChainedTable, UnifiedIs
<1>3. CASE o = "unifiedName"
  BY <1>1, <1>3, ChainedTable, UnifiedIs
<1> QED BY <1>2, <1>3 DEF Unifying

\* search tries a height, then a block, then a transaction, then a delegate.
LEMMA SearchFlows ==
    LET o == Operations["search"]
    IN  /\ DOMAIN o.flows = {"height", "block", "tx", "delegates"} /\ o.begin = {"height"}
        /\ \A f \in DOMAIN o.flows : /\ Sequential(o.flows[f])
                                     /\ o.onError[f] \in {"block", "tx", "delegates", "respond"}
<1>1. Operations["search"] = SearchHeight
  BY ChainedTable
<1>2. /\ DOMAIN SearchHeight.flows = {"height", "block", "tx", "delegates"}
      /\ SearchHeight.begin = {"height"}
      /\ SearchHeight.flows["height"] = GetHeight /\ SearchHeight.flows["block"] = GetBlock
      /\ SearchHeight.flows["tx"] = GetTransaction({})
      /\ SearchHeight.flows["delegates"] = GetSearch
      /\ SearchHeight.onError["height"] = "block" /\ SearchHeight.onError["block"] = "tx"
      /\ SearchHeight.onError["tx"] = "delegates"
      /\ SearchHeight.onError["delegates"] = "respond"
  BY DEF SearchHeight, Operation
<1> QED BY <1>1, <1>2, SequentialGetHeight, SequentialGetBlock, SequentialGetTransaction,
           SequentialGetSearch

\* Every flow of the searches has one call under way at a time.
LEMMA ChainedFlows ==
    ASSUME NEW o \in Chained, NEW f \in DOMAIN Operations[o].flows
    PROVE  Sequential(Operations[o].flows[f])
BY UnifyingFlows, SearchFlows DEF Chained

\* The flow of any other handler is called main, and its error is the answer.
LEMMA LoneFlows ==
    ASSUME NEW o \in DOMAIN Operations, o \notin Chained
    PROVE  /\ DOMAIN Operations[o].flows = {"main"} /\ Operations[o].begin = {"main"}
           /\ Operations[o].onError["main"] = "respond"
BY LoneTable, AloneIs

-----------------------------------------------------------------------------
(* The contract of handler.js.  The inductive invariant says which calls may *)
(* be without a reply when the request has been answered.                    *)

Flows == Operations[op].flows

\* A flow of a search has one call under way at most, and none when it has ended; the
\* searches that follow each other have one call between them; and no search has any
\* when the request is answered.
ChainedWaits ==
    op \in Chained =>
      /\ \A c \in waiting : c[1] \in DOMAIN Flows /\ c[2] \in DOMAIN Flows[c[1]].calls
      /\ waiting # {} => called = <<>>
      /\ op \in Unifying => \A c, d \in waiting : c[1] \notin closed /\ (c[1] = d[1] => c = d)
      /\ op = "search" => \A c, d \in waiting : c = d

\* The only flow of another operation goes on waiting after an answer only if that was
\* an error that ended it.
LoneWaits ==
    op \notin Chained =>
      /\ \A c \in waiting : c[1] = "main"
      /\ closed \subseteq {"main"}
      /\ closed = {} /\ waiting # {} => called = <<>>

AnsweredOnce ==
    /\ alive => called \in {<<>>, <<"error">>, <<"success">>}
    /\ called = <<"success">> => waiting = {}

CallsInv == op \in DOMAIN Operations /\ ChainedWaits /\ LoneWaits /\ AnsweredOnce

\* The invariant holds when the request begins.
LEMMA CallsInit == Init => CallsInv
<1> SUFFICES ASSUME Init PROVE CallsInv
  OBVIOUS
<1>1. \/ waiting = UNION {FirstCalls(op, f) : f \in Operations[op].begin} /\ called = <<>>
      \/ waiting = {} /\ called = <<"error">>
  BY DEF Init
<1>2. op \in DOMAIN Operations /\ closed = {}
  BY DEF Init
<1>3. ASSUME NEW f, Sequential(Flows[f])
      PROVE  \E x \in DOMAIN Flows[f].calls : FirstCalls(op, f) = {<<f, x>>}
  BY <1>3 DEF FirstCalls, Sequential, Flows
<1>4. CASE waiting = {} /\ called = <<"error">>
  BY <1>2, <1>4 DEF CallsInv, ChainedWaits, LoneWaits, AnsweredOnce
<1>5. CASE waiting = UNION {FirstCalls(op, f) : f \in Operations[op].begin} /\ called = <<>>
  <2>1. ChainedWaits
    <3>1. CASE op \in Unifying
      <4>1. \A f \in Operations[op].begin :
              f \in DOMAIN Flows /\ \E x \in DOMAIN Flows[f].calls : FirstCalls(op, f) = {<<f, x>>}
        BY <1>3, <3>1, UnifyingFlows DEF Flows
      <4>2. \A c \in waiting : \E f \in DOMAIN Flows :
              \E x \in DOMAIN Flows[f].calls : c = <<f, x>> /\ FirstCalls(op, f) = {c}
        BY <1>5, <4>1
      <4>3. \A c \in waiting : c[1] \in DOMAIN Flows /\ c[2] \in DOMAIN Flows[c[1]].calls
        BY <4>2
      <4>4. \A c, d \in waiting : c[1] = d[1] => c = d
        BY <4>2
      <4>5. op # "search"
        BY <3>1 DEF Unifying
      <4> QED BY <1>2, <1>5, <4>3, <4>4, <4>5 DEF ChainedWaits
    <3>2. CASE op = "search"
      <4>1. /\ Operations[op].begin = {"height"} /\ "height" \in DOMAIN Flows
            /\ Sequential(Flows["height"])
        BY <3>2, SearchFlows DEF Flows
      <4>2. PICK x \in DOMAIN Flows["height"].calls : FirstCalls(op, "height") = {<<"height", x>>}
        BY <1>3, <4>1
      <4>3. waiting = {<<"height", x>>}
        BY <1>5, <4>1, <4>2
      <4>4. op \notin Unifying
        BY <3>2 DEF Unifying
      <4> QED BY <1>5, <4>1, <4>3, <4>4 DEF ChainedWaits
    <3> QED BY <3>1, <3>2 DEF ChainedWaits, Chained
  <2>2. LoneWaits
    <3> SUFFICES ASSUME op \notin Chained PROVE LoneWaits
      BY DEF LoneWaits
    <3>1. Operations[op].begin = {"main"}
      BY <1>2, LoneFlows
    <3>2. waiting = FirstCalls(op, "main")
      BY <1>5, <3>1
    <3> QED BY <1>2, <1>5, <3>2 DEF LoneWaits, FirstCalls
  <2> QED BY <1>2, <1>5, <2>1, <2>2 DEF CallsInv, AnsweredOnce
<1> QED BY <1>1, <1>4, <1>5

\* The reply to a call of a search asks for one thing at most.
LEMMA ChainedReaction ==
    ASSUME CallsInv, op \in Chained, NEW c \in waiting, NEW r \in Reply
    PROVE  \/ Reaction(c, r).calls = {}
           \/ \E x \in DOMAIN Flows[c[1]].calls : Reaction(c, r).calls = {x}
<1>1. c[1] \in DOMAIN Flows /\ c[2] \in DOMAIN Flows[c[1]].calls
  BY DEF CallsInv, ChainedWaits
<1>2. Sequential(Flows[c[1]])
  BY <1>1, ChainedFlows DEF Flows
<1>3. c[2] # "page"
  BY <1>1, <1>2 DEF Sequential
<1> QED BY <1>1, <1>2, <1>3 DEF Sequential, Reaction, Flows

\* What every step keeps.
LEMMA ReceiveKeeps ==
    ASSUME NEW c, NEW r, Receive(c, r)
    PROVE  alive /\ c \in waiting /\ UNCHANGED <<op, arg, start, height, chain>>
BY DEF Receive, nodeVars

\* The calls of success and error after one more.
LEMMA CallAfter ==
    ASSUME NEW f \in {"success", "error"}
    PROVE  /\ Append(<<>>, f) = <<f>> /\ <<>> # <<f>>
           /\ Append(<<"error">>, f) # <<"success">> /\ Append(<<"success">>, f) # <<"success">>
           /\ <<"error">> # <<"success">>
<1>1. Append(<<>>, f) = <<f>> /\ <<>> # <<f>> /\ <<"error">> # <<"success">>
  OBVIOUS
<1>2. Len(Append(<<"error">>, f)) = 2 /\ Len(Append(<<"success">>, f)) = 2
  <2>1. <<"error">> \in Seq({"success", "error"}) /\ <<"success">> \in Seq({"success", "error"})
    OBVIOUS
  <2>2. Len(<<"error">>) = 1
    OBVIOUS
  <2>3. Len(<<"success">>) = 1
    OBVIOUS
  <2> QED BY <2>1, <2>2, <2>3, AppendProperties
<1>3. Len(<<"success">>) = 1
  OBVIOUS
<1> QED BY <1>1, <1>2, <1>3

\* A flow of the only answer keeps AnsweredOnce.
LEMMA CallsRespond ==
    ASSUME CallsInv, alive, NEW f \in {"success", "error"}, Respond(f)
    PROVE  /\ alive' => called' = <<f>>
           /\ called' = <<"success">> => called = <<>>
<1>1. called \in {<<>>, <<"error">>, <<"success">>}
  BY DEF CallsInv, AnsweredOnce
<1> QED BY <1>1, CallAfter DEF Respond

\* One reply of a search, in which its flow goes on, ends or gives way to another.
LEMMA CallsChained ==
    ASSUME CallsInv, op \in Chained, NEW c \in waiting, NEW r \in Reply, Answer(c, r)
    PROVE  CallsInv'
<1>1. op' = op /\ alive /\ op \in DOMAIN Operations /\ Flows' = Flows
  BY ReceiveKeeps DEF Answer, Continue, Succeed, Fail, Throw, Forget, CallsInv, Flows
<1>2. called = <<>>
  BY DEF CallsInv, ChainedWaits
<1>3. /\ \A d \in waiting : d[1] \in DOMAIN Flows /\ d[2] \in DOMAIN Flows[d[1]].calls
      /\ op = "search" => Others(c) = {}
      /\ op \in Unifying => \A d \in waiting : d[1] \notin closed
      /\ op \in Unifying => \A d, e \in waiting : d[1] = e[1] => d = e
  BY DEF CallsInv, ChainedWaits, Others
<1>4. op = "search" => op \notin Unifying
  BY DEF Unifying
<1>5. LoneWaits'
  BY <1>1 DEF LoneWaits
<1>6. CASE Continue(c, r)
  <2>1. UNCHANGED <<closed, found, called, alive>>
    BY <1>6 DEF Continue
  <2>2. waiting' = Others(c) \cup (IF c[1] \in closed THEN {} ELSE {c[1]} \X Reaction(c, r).calls)
    BY <1>6 DEF Continue
  <2>3. waiting' = Others(c)
        \/ \E x \in DOMAIN Flows[c[1]].calls : waiting' = Others(c) \cup {<<c[1], x>>}
    BY <2>2, ChainedReaction
  <2>4. ChainedWaits'
    <3>1. CASE waiting' = Others(c)
      BY <1>1, <1>2, <1>3, <2>1, <3>1 DEF ChainedWaits, Others
    <3>2. ASSUME NEW x \in DOMAIN Flows[c[1]].calls, waiting' = Others(c) \cup {<<c[1], x>>}
          PROVE  ChainedWaits'
      <4>1. \A d \in waiting' : d[1] \in DOMAIN Flows /\ d[2] \in DOMAIN Flows[d[1]].calls
        BY <1>3, <3>2 DEF Others
      <4>2. op = "search" => \A d, e \in waiting' : d = e
        BY <1>3, <3>2
      <4>3. ASSUME op \in Unifying, NEW d \in waiting', NEW e \in waiting'
            PROVE  d[1] \notin closed /\ (d[1] = e[1] => d = e)
        <5>1. \A y \in waiting' : y = <<c[1], x>> \/ (y \in waiting /\ y[1] # c[1])
          BY <1>3, <3>2, <4>3 DEF Others
        <5> QED BY <1>3, <4>3, <5>1
      <4> QED BY <1>1, <1>2, <2>1, <4>1, <4>2, <4>3 DEF ChainedWaits
    <3> QED BY <2>3, <3>1, <3>2
  <2>5. AnsweredOnce'
    BY <1>2, <2>1, CallAfter DEF AnsweredOnce
  <2> QED BY <1>1, <1>5, <2>4, <2>5 DEF CallsInv
<1>7. ASSUME NEW ok, Join(c, ok) PROVE CallsInv'
  <2>1. waiting' = Others(c) /\ closed' = closed \cup {c[1]}
    BY <1>7 DEF Join
  <2>2. op \in Unifying => \A d \in waiting' : d[1] \notin closed'
    BY <1>3, <2>1 DEF Others
  <2>3. UNCHANGED <<called, alive>> \/ (Respond("success") /\ waiting' = {})
    <3>1. CASE op \in Unifying /\ closed' # DOMAIN Flows
      BY <1>7, <3>1 DEF Join, Flows
    <3>2. CASE ~ (op \in Unifying /\ closed' # DOMAIN Flows)
      <4>1. Respond("success")
        BY <1>7, <3>2 DEF Join, Flows
      <4>2. op \in Unifying => waiting' = {}
        BY <1>3, <2>1, <2>2, <3>2 DEF Others
      <4> QED BY <1>3, <2>1, <4>1, <4>2 DEF Chained
    <3> QED BY <3>1, <3>2
  <2>4. ChainedWaits'
    BY <1>1, <1>2, <1>3, <2>1, <2>2, <2>3 DEF ChainedWaits, Others
  <2>5. AnsweredOnce'
    BY <1>1, <1>2, <2>3, CallsRespond, CallAfter DEF AnsweredOnce
  <2> QED BY <1>1, <1>5, <2>4, <2>5 DEF CallsInv
<1>8. CASE Fail(c, r) /\ Operations[op].onError[c[1]] # "note"
  <2>1. op = "search" /\ Others(c) = {} /\ op \notin Unifying
    BY <1>3, <1>4, <1>8, UnifyingFlows DEF Chained, Flows
  <2>2. CASE Operations[op].onError[c[1]] = "respond"
    <3>1. waiting' = {} /\ Respond("error")
      BY <1>8, <2>1, <2>2 DEF Fail
    <3>2. AnsweredOnce'
      BY <1>1, <1>2, <3>1, CallsRespond DEF AnsweredOnce
    <3> QED BY <1>1, <1>5, <3>1, <3>2 DEF CallsInv, ChainedWaits
  <2>3. CASE Operations[op].onError[c[1]] # "respond"
    <3> DEFINE next == Operations[op].onError[c[1]]
    <3>1. next \in {"block", "tx", "delegates"} /\ next \in DOMAIN Flows /\ Sequential(Flows[next])
      BY <1>3, <2>1, <2>3, SearchFlows DEF Flows
    <3>2. waiting' = Others(c) \cup FirstCalls(op, next) /\ UNCHANGED <<called, alive>>
      BY <1>8, <2>3 DEF Fail
    <3> HIDE DEF next
    <3>3. PICK x \in DOMAIN Flows[next].calls : FirstCalls(op, next) = {<<next, x>>}
      <4>1. PICK x \in DOMAIN Flows[next].calls : Flows[next].first = {x}
        BY <3>1 DEF Sequential
      <4>2. FirstCalls(op, next) = {<<next, x>>}
        BY <4>1 DEF FirstCalls, Flows
      <4> QED BY <4>2
    <3>4. waiting' = {<<next, x>>}
      BY <2>1, <3>2, <3>3
    <3>5. ChainedWaits'
      BY <1>1, <1>2, <2>1, <3>1, <3>2, <3>4 DEF ChainedWaits
    <3>6. AnsweredOnce'
      BY <1>2, <3>2, CallAfter DEF AnsweredOnce
    <3> QED BY <1>1, <1>5, <3>5, <3>6 DEF CallsInv
  <2> QED BY <2>2, <2>3
<1>9. CASE Throw(c, r) \/ Forget(c, r)
  <2>1. waiting' \subseteq waiting /\ called' = called /\ closed' = closed
    BY <1>9 DEF Throw, Forget, Others
  <2>2. ChainedWaits'
    BY <1>1, <1>2, <2>1 DEF CallsInv, ChainedWaits
  <2>3. AnsweredOnce'
    BY <1>2, <2>1, CallAfter DEF AnsweredOnce
  <2> QED BY <1>1, <1>5, <2>2, <2>3 DEF CallsInv
<1>10. Succeed(c, r) => Join(c, TRUE)
  BY DEF Succeed
<1>11. Fail(c, r) /\ Operations[op].onError[c[1]] = "note" => Join(c, FALSE)
  BY DEF Fail
<1> QED BY <1>6, <1>7, <1>8, <1>9, <1>10, <1>11 DEF Answer

\* One reply of a handler that has one flow.
LEMMA CallsLone ==
    ASSUME CallsInv, op \notin Chained, NEW c \in waiting, NEW r \in Reply, Answer(c, r)
    PROVE  CallsInv'
<1>1. op' = op /\ alive /\ op \in DOMAIN Operations
  BY ReceiveKeeps DEF Answer, Continue, Succeed, Fail, Throw, Forget, CallsInv
<1>2. c[1] = "main" /\ Operations[op].onError["main"] = "respond" /\ op \notin Unifying
  BY <1>1, LoneFlows DEF CallsInv, LoneWaits, Chained
<1>3. CASE Continue(c, r)
  <2>1. UNCHANGED <<closed, found, called, alive>>
    BY <1>3 DEF Continue
  <2>2. waiting' = Others(c) \cup (IF c[1] \in closed THEN {} ELSE {c[1]} \X Reaction(c, r).calls)
    BY <1>3 DEF Continue
  <2>3. \A d \in waiting' : d[1] = "main"
    BY <1>2, <2>2 DEF CallsInv, LoneWaits, Others
  <2>4. closed = {} => called = <<>>
    BY DEF CallsInv, LoneWaits
  <2>5. called = <<"success">> => waiting = {}
    BY DEF CallsInv, AnsweredOnce
  <2> QED BY <1>1, <2>1, <2>3, <2>4, <2>5 DEF CallsInv, LoneWaits, ChainedWaits, AnsweredOnce
<1>4. CASE Succeed(c, r) \/ Fail(c, r)
  <2>1. /\ closed' = closed \cup {"main"} /\ waiting' = Others(c)
        /\ \/ Succeed(c, r) /\ Respond("success")
           \/ Respond("error")
    BY <1>2, <1>4 DEF Succeed, Fail, Join
  <2>2. /\ \A d \in waiting' : d[1] = "main"
        /\ closed' # {} /\ closed' \subseteq {"main"}
    BY <2>1 DEF CallsInv, LoneWaits, Others
  <2>3. Succeed(c, r) => waiting' = {}
    BY <1>2, <2>1 DEF Succeed, FlowWaits, Others, CallsInv, LoneWaits
  <2>4. AnsweredOnce'
    <3>1. CASE Succeed(c, r) /\ Respond("success")
      BY <1>1, <2>3, <3>1, CallsRespond DEF AnsweredOnce
    <3>2. CASE Respond("error")
      <4>1. alive' => called' = <<"error">>
        BY <1>1, <3>2, CallsRespond
      <4>2. called' # <<"success">>
        BY <1>1, <3>2, CallAfter DEF Respond, CallsInv, AnsweredOnce
      <4> QED BY <4>1, <4>2 DEF AnsweredOnce
    <3> QED BY <2>1, <3>1, <3>2
  <2> QED BY <1>1, <2>2, <2>4 DEF CallsInv, LoneWaits, ChainedWaits
<1>5. CASE Throw(c, r) \/ Forget(c, r)
  BY <1>1, <1>5 DEF Throw, Forget, Others, CallsInv, LoneWaits, ChainedWaits, AnsweredOnce
<1> QED BY <1>3, <1>4, <1>5 DEF Answer

\* The node's own steps.
LEMMA CallsNode ==
    ASSUME CallsInv, UNCHANGED <<op, handlerVars>>
    PROVE  CallsInv'
BY DEF CallsInv, ChainedWaits, LoneWaits, AnsweredOnce, handlerVars, Flows

\* Every step keeps the invariant.
LEMMA CallsStep == CallsInv /\ [Next]_apiVars => CallsInv'
<1> SUFFICES ASSUME CallsInv, [Next]_apiVars PROVE CallsInv'
  OBVIOUS
<1>1. ASSUME NEW c \in waiting, NEW r \in Reply, Answer(c, r) PROVE CallsInv'
  BY <1>1, CallsChained, CallsLone
<1>2. CASE (\E t \in Tx : Submit(t)) \/ (\E confirmed \in SUBSET pool : Forge(confirmed))
           \/ UNCHANGED apiVars
  BY <1>2, CallsNode DEF Submit, Forge, apiVars
<1> QED BY <1>1, <1>2 DEF Next

\* A request that has been answered with success waits for nothing, and one that has been
\* answered with an error can only be reported failed again.
THEOREM CallsCorrect == ApiSpec => []CallsInv
BY CallsInit, CallsStep, PTL DEF ApiSpec

\* Each reply is a step of the contract, or none.
LEMMA ContractStep ==
    ASSUME CallsInv, [Next]_apiVars
    PROVE  [Contract!HandlerNext]_<<called, alive>>
<1>1. ASSUME NEW c \in waiting, NEW r \in Reply, Answer(c, r)
      PROVE  [Contract!HandlerNext]_<<called, alive>>
  <2>1. alive
    BY <1>1, ReceiveKeeps DEF Answer, Continue, Succeed, Fail, Throw, Forget
  <2>2. called = <<>> \/ called = <<"error">>
    BY <2>1 DEF CallsInv, AnsweredOnce
  <2>3. ASSUME NEW f \in {"success", "error"}, Respond(f), f = "error" \/ called = <<>>
        PROVE  Contract!HandlerNext
    <3>1. CASE called = <<>>
      <4>1. called' = <<f>> /\ alive' = alive
        BY <2>1, <2>3, <3>1, CallAfter DEF Respond
      <4> QED BY <2>1, <3>1, <4>1 DEF Contract!HandlerNext, Contract!CallBack
    <3>2. CASE called = <<"error">>
      <4>1. called' = Append(called, "error") /\ alive' = FALSE
        BY <2>3, <3>2, CallAfter DEF Respond
      <4> QED BY <2>1, <3>2, <4>1 DEF Contract!HandlerNext, Contract!ErrorAgain
    <3> QED BY <2>2, <3>1, <3>2
  <2>4. CASE Continue(c, r) \/ Forget(c, r)
    BY <2>4 DEF Continue, Forget
  <2>5. CASE Throw(c, r)
    BY <2>1, <2>5 DEF Throw, Contract!HandlerNext, Contract!ProcessEnds
  <2>6. CASE Succeed(c, r)
    <3>1. Respond("success") \/ UNCHANGED <<called, alive>>
      BY <2>6 DEF Succeed, Join
    <3>2. called = <<>>
      <4>1. CASE op \in Chained
        BY <4>1 DEF CallsInv, ChainedWaits
      <4>2. CASE op \notin Chained
        <5>1. c[1] = "main" /\ closed \cap {"main"} = {}
          BY <2>6, <4>2 DEF Succeed, CallsInv, LoneWaits
        <5>2. called = <<"error">> => closed # {}
          BY <4>2, CallAfter DEF CallsInv, LoneWaits
        <5> QED BY <2>2, <4>2, <5>1, <5>2 DEF CallsInv, LoneWaits
      <4> QED BY <4>1, <4>2
    <3> QED BY <2>3, <3>1, <3>2
  <2>7. CASE Fail(c, r)
    <3>1. UNCHANGED <<called, alive>> \/ Respond("error") \/ (Respond("success") /\ op \in Chained)
      <4>1. CASE op \in Chained
        BY <2>7, <4>1 DEF Fail, Join
      <4>2. CASE op \notin Chained
        BY <2>7, <4>2, LoneFlows DEF Fail, Join, CallsInv, LoneWaits
      <4> QED BY <4>1, <4>2
    <3>2. op \in Chained => called = <<>>
      BY DEF CallsInv, ChainedWaits
    <3> QED BY <2>3, <3>1, <3>2
  <2> QED BY <1>1, <2>4, <2>5, <2>6, <2>7 DEF Answer
<1>2. CASE (\E t \in Tx : Submit(t)) \/ (\E confirmed \in SUBSET pool : Forge(confirmed))
           \/ UNCHANGED apiVars
  BY <1>2 DEF Submit, Forge, apiVars, handlerVars
<1> QED BY <1>1, <1>2 DEF Next

\* Whatever the replies of the node and their order: a handler answers once, with success or
\* with an error; an error reported again ends the process; success never comes second.
THEOREM ContractCorrect == ApiSpec => KeepsContract
<1>1. Init => Contract!HandlerInit
  BY DEF Init, Contract!HandlerInit
<1>2. CallsInv /\ [Next]_apiVars => [Contract!HandlerNext]_<<called, alive>>
  BY ContractStep
<1> QED BY <1>1, <1>2, CallsCorrect, PTL DEF ApiSpec, KeepsContract, Contract!HandlerSpec

-----------------------------------------------------------------------------
(* What the answers say of the chain, which grows while they are put together. *)

Reading == {"getBlock", "getLastBlocks", "getTransaction", "getVote"}

\* The node only goes on.
Grows ==
    /\ height \in 1 .. MaxHeight /\ start.height \in 1 .. height
    /\ start.chain \subseteq chain
    /\ arg \in Arguments(op) /\ faults \in Nat
    /\ DOMAIN got = {"height", "list", "offset"}

\* Only calls of the flow are under way.
Known == op \in Reading => \A c \in waiting : c[2] \in DOMAIN Flows["main"].calls

\* The height is read during the request, and before anything else.
HeightRead ==
    op \in {"getBlock", "getLastBlocks"} =>
      /\ got.height = 0 \/ got.height \in start.height .. height
      /\ got.height = 0 => called # <<"success">> /\ \A c \in waiting : c[2] = "height"

\* A transaction that was confirmed at the beginning is never looked for in the pool.
Confirmed ==
    op \in {"getTransaction", "getVote"} /\ faults = 0 /\ arg \in start.chain =>
      /\ \A c \in waiting : c[2] # "unconfirmed"
      /\ called = <<"error">> => closed = {} /\ waiting = {}

Counted == {got.list[i] : i \in DOMAIN got.list}

\* The blocks counted so far reach from the height at the beginning down to some block,
\* below which the next page begins at the latest.
PagesMeet ==
    op = "getBlocks" =>
      /\ \A c \in waiting : c[2] = "page"
      /\ got.offset \in Nat /\ got.list \in Seq(Nat)
      /\ got.offset = 0 => called # <<"success">>
      /\ faults = 0 =>
           /\ \E m \in Nat : /\ m = 1 \/ m <= height - got.offset + 1
                             /\ m >= 1 /\ m .. start.height \subseteq Counted
                             /\ \A h \in Counted : h >= m
           /\ got.offset > 0 => \E h \in Counted : h >= start.height

ReadInv == Grows /\ Known /\ HeightRead /\ Confirmed /\ PagesMeet

\* Flows all of whose calls are listed.
Closed(flow) ==
    \A call \in DOMAIN flow.calls, r \in Reply :
        flow.calls[call][r].calls \subseteq DOMAIN flow.calls

\* The flows of the handlers these invariants are about.
LEMMA ReadingTable ==
    /\ Operations["getBlock"] = Alone(GetBlock)
    /\ Operations["getLastBlocks"] = Alone(GetLastBlocks(Forger))
    /\ Operations["getTransaction"] = Alone(GetTransaction({}))
    /\ Operations["getVote"] = Alone(GetTransaction(Vote))
    /\ Operations["getBlocks"] = Alone(Flow({"page"}, [page |-> StatisticsCall(0)]))
    /\ Reading \cup {"getBlocks"} \subseteq DOMAIN Operations \ Chained
<1> DEFINE Rest == [getBlocks |-> Alone(Flow({"page"}, [page |-> StatisticsCall(0)]))]
           S == Overlay(SearchOperation, Rest)
           A == Overlay(AccountsOperation, S)
           T == Overlay(TransactionsOperation(Vote), A)
           B == BlocksOperation(Forger)
<1>1. /\ {"getBlock", "getLastBlocks"} \subseteq DOMAIN B
      /\ {"getTransaction", "getVote", "getBlocks"} \cap DOMAIN B = {}
      /\ B["getBlock"] = Alone(GetBlock) /\ B["getLastBlocks"] = Alone(GetLastBlocks(Forger))
  BY DEF BlocksOperation
<1>2. /\ {"getTransaction", "getVote"} \subseteq DOMAIN TransactionsOperation(Vote)
      /\ TransactionsOperation(Vote)["getTransaction"] = Alone(GetTransaction({}))
      /\ TransactionsOperation(Vote)["getVote"] = Alone(GetTransaction(Vote))
      /\ "getBlocks" \notin DOMAIN TransactionsOperation(Vote)
  BY DEF TransactionsOperation
<1>3. "getBlocks" \notin DOMAIN AccountsOperation /\ "getBlocks" \notin DOMAIN SearchOperation
  BY DEF AccountsOperation, SearchOperation
<1>4. /\ "getBlocks" \in DOMAIN Rest
      /\ Rest["getBlocks"] = Alone(Flow({"page"}, [page |-> StatisticsCall(0)]))
  OBVIOUS
<1>5. Operations = Overlay(B, T)
  BY DEF Operations
<1> HIDE DEF Rest
<1>6. "getBlocks" \in DOMAIN S /\ S["getBlocks"] = Rest["getBlocks"]
  BY <1>3, <1>4 DEF Overlay
<1> HIDE DEF S
<1>7. "getBlocks" \in DOMAIN A /\ A["getBlocks"] = Rest["getBlocks"]
  BY <1>3, <1>6 DEF Overlay
<1> HIDE DEF A
<1>8. /\ {"getTransaction", "getVote", "getBlocks"} \subseteq DOMAIN T
      /\ T["getBlocks"] = Rest["getBlocks"]
      /\ T["getTransaction"] = Alone(GetTransaction({}))
      /\ T["getVote"] = Alone(GetTransaction(Vote))
  BY <1>2, <1>7 DEF Overlay
<1> HIDE DEF T, B
<1>9. Reading \cup {"getBlocks"} \subseteq DOMAIN Operations
  BY <1>1, <1>5, <1>8 DEF Overlay, Reading
<1>10. (Reading \cup {"getBlocks"}) \cap Chained = {}
  BY DEF Reading, Chained, Unifying
<1> QED BY <1>1, <1>4, <1>5, <1>8, <1>9, <1>10 DEF Overlay

\* getBlock and getLastBlocks read the height first, and end without it.
LEMMA BlockCalls ==
    ASSUME NEW T, T = GetBlock \/ T = GetLastBlocks(Forger)
    PROVE  /\ T.first = {"height"} /\ "height" \in DOMAIN T.calls
           /\ {"blockAt", "page"} \cap DOMAIN T.calls = {} /\ Closed(T)
           /\ \A r \in Reply : r # "ok" => T.calls["height"][r] = Error
<1>0. "blockAt" \notin Forger /\ "page" \notin Forger
  BY NameAssumption
<1>1. CASE T = GetBlock
  <2> DEFINE C == GetBlock.calls
  <2>1. /\ DOMAIN C = {"height", "block", "forger"} /\ GetBlock.first = {"height"}
        /\ C["height"] = Needs(Ask({"block"}))
        /\ C["block"] = Needs(Ask({"forger"})) /\ C["forger"] = Always(Done)
    BY DEF GetBlock, GetBlockHeight, Flow, Overlay, BlockCall, GetDelegateCall
  <2> HIDE DEF C
  <2>2. ASSUME NEW r \in Reply
        PROVE  /\ C["height"][r].calls \in {{}, {"block"}}
               /\ C["block"][r].calls \in {{}, {"forger"}}
               /\ C["forger"][r].calls = {}
               /\ r # "ok" => C["height"][r] = Error
    BY <2>1, NoCalls, NeedsIs DEF Always
  <2>3. ASSUME NEW call \in DOMAIN C, NEW r \in Reply PROVE C[call][r].calls \subseteq DOMAIN C
    <3>1. \A x \in C[call][r].calls : x \in {"block", "forger"}
      BY <2>1, <2>2
    <3> QED BY <2>1, <3>1
  <2> QED BY <1>1, <2>1, <2>2, <2>3 DEF Closed, C
<1>2. CASE T = GetLastBlocks(Forger)
  <2> DEFINE C == GetLastBlocks(Forger).calls
  <2>1. /\ DOMAIN C = {"height", "blocks"} \cup Forger
        /\ GetLastBlocks(Forger).first = {"height"}
        /\ C["height"] = Needs(Ask({"blocks"}))
        /\ C["blocks"] = [Needs(Ask(Forger)) EXCEPT !["empty"] = Done]
        /\ \A f \in Forger \ {"height", "blocks"} : C[f] = Always(Done)
    BY DEF GetLastBlocks, GetBlockHeight, Flow, Overlay, GetDelegateCall
  <2> HIDE DEF C
  <2>2. ASSUME NEW r \in Reply
        PROVE  /\ C["height"][r].calls \in {{}, {"blocks"}}
               /\ \A f \in Forger \ {"height", "blocks"} : C[f][r].calls = {}
               /\ r # "ok" => C["height"][r] = Error
    BY <2>1, NoCalls, NeedsIs DEF Always
  <2>3. ASSUME NEW r \in Reply PROVE C["blocks"][r].calls \in {{}, Forger}
    BY <2>1, NoCalls DEF Needs, Reply
  <2>4. ASSUME NEW call \in DOMAIN C, NEW r \in Reply PROVE C[call][r].calls \subseteq DOMAIN C
    <3>1. CASE call = "height"
      BY <2>1, <2>2, <3>1
    <3>2. CASE call = "blocks"
      BY <2>1, <2>3, <3>2
    <3>3. CASE call \in Forger \ {"height", "blocks"}
      BY <2>2, <3>3
    <3> QED BY <2>1, <3>1, <3>2, <3>3
  <2> QED BY <1>0, <1>2, <2>1, <2>2, <2>4 DEF Closed, C
<1> QED BY <1>1, <1>2

\* A transaction that the node has confirmed is answered with its votes or without any.
LEMMA TransactionCalls ==
    ASSUME NEW V, V = {} \/ V = Vote
    PROVE  LET T == GetTransaction(V)
           IN  /\ T.first = {"transaction"} /\ DOMAIN T.calls = {"transaction", "unconfirmed"} \cup V
               /\ Closed(T) /\ T.calls["transaction"]["ok"] = Ask(V)
               /\ \A v \in V : T.calls[v]["ok"] = Done /\ T.calls[v]["empty"] = Done
<1> DEFINE T == GetTransaction(V)
           C == T.calls
<1>0. "transaction" \notin V /\ "unconfirmed" \notin V
  BY NameAssumption
<1>1. /\ DOMAIN C = {"transaction", "unconfirmed"} \cup V /\ T.first = {"transaction"}
      /\ C["transaction"] = [Lists(Ask({"unconfirmed"})) EXCEPT
                               !["ok"] = Ask(V), !["refused"] = Ask({"unconfirmed"}),
                               !["odd"] = Ask({"unconfirmed"})]
      /\ C["unconfirmed"] = Needs(Ask(V))
      /\ \A v \in V : C[v] = [Always(Done) EXCEPT !["status"] = Pass, !["fail"] = Pass]
  BY <1>0 DEF GetTransaction, Flow, Overlay
<1> HIDE DEF T, C
<1>2. ASSUME NEW r \in Reply
      PROVE  C["transaction"][r].calls \in {{}, {"unconfirmed"}, V}
  BY <1>1, NoCalls DEF Lists, Needs, Reply
<1>3. ASSUME NEW r \in Reply PROVE C["unconfirmed"][r].calls \in {{}, V}
  BY <1>1, NoCalls, NeedsIs
<1>4. ASSUME NEW r \in Reply, NEW v \in V PROVE C[v][r].calls = {}
  BY <1>1, NoCalls DEF Always, Reply
<1>5. ASSUME NEW call \in DOMAIN C, NEW r \in Reply PROVE C[call][r].calls \subseteq DOMAIN C
  <2>1. \A x \in C[call][r].calls : x \in {"unconfirmed"} \cup V
    <3>1. call = "transaction" \/ call = "unconfirmed" \/ call \in V
      BY <1>1
    <3>2. CASE call = "transaction"
      BY <1>2, <3>2
    <3>3. CASE call = "unconfirmed"
      BY <1>3, <3>3
    <3>4. CASE call \in V
      BY <1>4, <3>4
    <3> QED BY <3>1, <3>2, <3>3, <3>4
  <2> QED BY <1>1, <2>1
<1>6. C["transaction"]["ok"] = Ask(V)
  BY <1>1 DEF Lists, Needs, Reply
<1>7. \A v \in V : C[v]["ok"] = Done /\ C[v]["empty"] = Done
  BY <1>1 DEF Always, Reply
<1> QED BY <1>1, <1>5, <1>6, <1>7 DEF Closed, T, C

\* What the reply to a call of an operation of one flow may change.
LEMMA LoneAnswer ==
    ASSUME CallsInv, op \notin Chained, NEW c \in waiting, NEW r \in Reply, Answer(c, r)
    PROVE  LET k == Reaction(c, r)
           IN  /\ Receive(c, r) /\ c[1] = "main" /\ alive
               /\ \/ /\ k.then \in {"ask", "pass"} /\ UNCHANGED <<called, closed>>
                     /\ \A d \in waiting' : d \in waiting \/ (d[1] = "main" /\ d[2] \in k.calls)
                  \/ /\ k = Done /\ called = <<>> /\ called' = <<"success">>
                     /\ waiting' \subseteq waiting
                  \/ /\ k.then = "error" \/ (k.then = "pass" /\ closed = {})
                     /\ called' # <<"success">> /\ waiting' \subseteq waiting
                  \/ k \in {Crash, Hang} /\ UNCHANGED <<called, closed>> /\ waiting' \subseteq waiting
<1>1. Receive(c, r) /\ alive /\ c[1] = "main" /\ op \notin Unifying
  BY ReceiveKeeps DEF Answer, Continue, Succeed, Fail, Throw, Forget, CallsInv, LoneWaits, Chained
<1>2. Operations[op].onError["main"] = "respond" /\ closed \subseteq {"main"}
  BY LoneFlows DEF CallsInv, LoneWaits
<1>3. called \in {<<>>, <<"error">>, <<"success">>}
  BY <1>1 DEF CallsInv, AnsweredOnce
<1>4. CASE Continue(c, r)
  BY <1>1, <1>4 DEF Continue, Others
<1>5. CASE Succeed(c, r)
  <2>1. Reaction(c, r) = Done /\ Respond("success") /\ waiting' \subseteq waiting /\ closed = {}
    BY <1>1, <1>2, <1>5 DEF Succeed, Join, Others
  <2>2. called = <<>>
    BY <2>1 DEF CallsInv, LoneWaits
  <2> QED BY <1>1, <2>1, <2>2, CallAfter DEF Respond
<1>6. CASE Fail(c, r)
  <2>1. /\ Reaction(c, r).then = "error" \/ (Reaction(c, r).then = "pass" /\ closed = {})
        /\ Respond("error") /\ waiting' \subseteq waiting
    BY <1>1, <1>2, <1>6 DEF Fail, Others
  <2>2. called' # <<"success">>
    BY <1>3, <2>1, CallAfter DEF Respond
  <2> QED BY <1>1, <2>1, <2>2
<1>7. CASE Throw(c, r) \/ Forget(c, r)
  BY <1>1, <1>7 DEF Throw, Forget, Others
<1> QED BY <1>4, <1>5, <1>6, <1>7 DEF Answer

\* What the handler has read, field by field.
LEMMA ReadIs ==
    ASSUME DOMAIN got = {"height", "list", "offset"}, NEW call, NEW r
    PROVE  /\ DOMAIN Read(call, r) = DOMAIN got
           /\ Read(call, r).height = IF r = "ok" /\ call = "height" THEN height
                                     ELSE IF r = "ok" /\ call = "blockAt" THEN arg
                                     ELSE got.height
           /\ call = "page" => /\ Read(call, r).offset = got.offset + PageSize
                               /\ Read(call, r).list =
                                    IF r = "ok"
                                    THEN got.list \o BlocksPage(height, got.offset, PageSize)
                                    ELSE got.list
<1>1. CASE r # "ok" /\ call # "page"
  BY <1>1 DEF Read
<1>2. CASE call = "page"
  BY <1>2 DEF Read
<1>3. CASE r = "ok" /\ call = "height"
  BY <1>3 DEF Read
<1>4. CASE r = "ok" /\ call = "blockAt"
  BY <1>4 DEF Read
<1>5. CASE r = "ok" /\ call \notin {"page", "height", "blockAt"}
  <2>1. Read(call, r) = got \/ \E l : Read(call, r) = [got EXCEPT !.list = l]
    BY <1>5 DEF Read
  <2> QED BY <1>5, <2>1
<1> QED BY <1>1, <1>2, <1>3, <1>4, <1>5

\* The invariants of what is read hold when the request begins.
LEMMA GrowsInit == Init => Grows /\ Known /\ HeightRead /\ Confirmed
<1> SUFFICES ASSUME Init PROVE Grows /\ Known /\ HeightRead /\ Confirmed
  OBVIOUS
<1>1. Grows
  BY ApiAssumption DEF Init, Grows
<1>2. ASSUME op \in Reading \cup {"getBlocks"}
      PROVE  \/ waiting = FirstCalls(op, "main") /\ called = <<>>
             \/ waiting = {} /\ called = <<"error">> /\ closed = {}
  <2>1. Operations[op].begin = {"main"}
    BY <1>2, ReadingTable, LoneFlows
  <2> QED BY <2>1 DEF Init
<1>3. ASSUME op \in Reading, NEW c \in waiting
      PROVE  \E x \in Flows["main"].first : c = <<"main", x>>
  BY <1>2, <1>3 DEF FirstCalls, Flows
<1>4. /\ op \in {"getBlock", "getLastBlocks"} => Flows["main"].first = {"height"}
      /\ op \in {"getTransaction", "getVote"} => Flows["main"].first = {"transaction"}
      /\ op \in Reading => Flows["main"].first \subseteq DOMAIN Flows["main"].calls
  BY ReadingTable, AloneIs, BlockCalls, TransactionCalls DEF Flows, Reading
<1>5. Known
  BY <1>3, <1>4 DEF Known
<1>6. HeightRead
  <2>1. ASSUME op \in {"getBlock", "getLastBlocks"}
        PROVE  called # <<"success">> /\ \A c \in waiting : c[2] = "height"
    BY <1>2, <1>3, <1>4, <2>1, CallAfter DEF Reading
  <2> QED BY <2>1 DEF HeightRead, Init
<1>7. Confirmed
  BY <1>2, <1>3, <1>4 DEF Confirmed, Reading
<1> QED BY <1>1, <1>5, <1>6, <1>7

\* The node's own steps, while nothing is answered.
LEMMA ReadNode ==
    ASSUME ReadInv,
           \/ \E t \in Tx : Submit(t)
           \/ \E confirmed \in SUBSET pool : Forge(confirmed)
           \/ UNCHANGED apiVars
    PROVE  ReadInv'
<1>1. /\ UNCHANGED <<faults, op, arg, waiting, closed, called, got, start>>
      /\ height' \in 1 .. MaxHeight /\ height <= height' /\ chain \subseteq chain'
  BY ApiAssumption DEF Submit, Forge, apiVars, nodeVars, handlerVars, ReadInv, Grows
<1>2. height \in Nat /\ height' \in Nat /\ start.height \in Nat
  BY <1>1, ApiAssumption DEF ReadInv, Grows
<1>3. Grows' /\ Known' /\ HeightRead' /\ Confirmed'
  BY <1>1, <1>2 DEF ReadInv, Grows, Known, HeightRead, Confirmed, Flows, Arguments
<1>4. PagesMeet'
  <2> SUFFICES ASSUME op = "getBlocks" PROVE PagesMeet'
    BY <1>1 DEF PagesMeet
  <2>1. got.offset \in Nat /\ Counted' = Counted
    BY <1>1 DEF ReadInv, PagesMeet, Counted
  <2>2. \A m \in Nat : m <= height - got.offset + 1 => m <= height' - got'.offset + 1
    BY <1>1, <1>2, <2>1
  <2> QED BY <1>1, <2>1, <2>2 DEF ReadInv, PagesMeet
<1> QED BY <1>3, <1>4 DEF ReadInv

\* What is asked for is a number, or, of getLastBlocks, none.
LEMMA ArgIs == Grows => arg \in {NoNumber} \cup Nat /\ (op # "getLastBlocks" => arg \in Nat)
BY ApiAssumption DEF Grows, Arguments

\* A reply changes nothing of the node.
LEMMA GrowsAnswer ==
    ASSUME Grows, NEW c, NEW r, Receive(c, r)
    PROVE  Grows' /\ got' = Read(c[2], r) /\ UNCHANGED <<op, arg, start, height, chain>>
<1>1. got' = Read(c[2], r) /\ UNCHANGED <<op, arg, start, height, chain>>
  BY DEF Receive, nodeVars
<1>2. DOMAIN got' = {"height", "list", "offset"}
  BY <1>1, ReadIs DEF Grows
<1>3. faults' \in Nat
  BY DEF Receive, Grows
<1> QED BY <1>1, <1>2, <1>3 DEF Grows, Arguments

\* A reply to one of the operations of one flow.
LEMMA KnownAnswer ==
    ASSUME CallsInv, ReadInv, op \in Reading, NEW c \in waiting, NEW r \in Reply, Answer(c, r)
    PROVE  Known'
<1>1. op \notin Chained
  BY ReadingTable
<1>2. c[2] \in DOMAIN Flows["main"].calls /\ Closed(Flows["main"]) /\ "page" \notin DOMAIN Flows["main"].calls
  <2>1. c[2] \in DOMAIN Flows["main"].calls
    BY DEF ReadInv, Known
  <2>2. CASE op \in {"getBlock", "getLastBlocks"}
    BY <2>1, <2>2, ReadingTable, AloneIs, BlockCalls DEF Flows
  <2>3. CASE op \in {"getTransaction", "getVote"}
    BY <2>1, <2>3, ReadingTable, AloneIs, TransactionCalls, NameAssumption DEF Flows
  <2> QED BY <2>2, <2>3 DEF Reading
<1>3. Receive(c, r) /\ c[1] = "main" /\ op' = op
  BY <1>1, LoneAnswer, ReceiveKeeps
<1>4. Reaction(c, r) = Flows["main"].calls[c[2]][r]
  BY <1>2, <1>3 DEF Reaction, Flows
<1>5. Reaction(c, r).calls \subseteq DOMAIN Flows["main"].calls
  BY <1>2, <1>4 DEF Closed
<1>6. \A d \in waiting' : d \in waiting \/ d[2] \in Reaction(c, r).calls
  BY <1>1, LoneAnswer
<1> QED BY <1>3, <1>5, <1>6 DEF ReadInv, Known, Flows

\* A reply to getBlock or getLastBlocks keeps HeightRead.
LEMMA HeightAnswer ==
    ASSUME CallsInv, ReadInv, op \in {"getBlock", "getLastBlocks"},
           NEW c \in waiting, NEW r \in Reply, Answer(c, r)
    PROVE  HeightRead'
<1>1. op \notin Chained /\ op \in Reading
  BY ReadingTable DEF Reading
<1>2. /\ "blockAt" \notin DOMAIN Flows["main"].calls /\ "page" \notin DOMAIN Flows["main"].calls
      /\ \A q \in Reply : q # "ok" => Flows["main"].calls["height"][q] = Error
  BY ReadingTable, AloneIs, BlockCalls DEF Flows
<1>3. c[2] \in DOMAIN Flows["main"].calls
  BY <1>1 DEF ReadInv, Known
<1>4. Receive(c, r) /\ c[1] = "main"
  BY <1>1, LoneAnswer
<1>5. got' = Read(c[2], r) /\ UNCHANGED <<op, start, height>>
  BY <1>4, GrowsAnswer DEF ReadInv
<1>6. got'.height = IF r = "ok" /\ c[2] = "height" THEN height ELSE got.height
  BY <1>2, <1>3, <1>5, ReadIs DEF ReadInv, Grows
<1>7. height \in Nat /\ height # 0 /\ height \in start.height .. height
  BY ApiAssumption DEF ReadInv, Grows
<1>8. CASE got'.height # 0
  BY <1>5, <1>6, <1>7, <1>8 DEF ReadInv, HeightRead
<1>9. CASE got'.height = 0
  <2>1. got.height = 0 /\ c[2] = "height" /\ r # "ok"
    BY <1>6, <1>7, <1>9 DEF ReadInv, HeightRead
  <2>2. Reaction(c, r) = Error
    BY <1>2, <1>4, <2>1 DEF Reaction, Flows
  <2>3. called' # <<"success">> /\ waiting' \subseteq waiting
    BY <1>1, <2>2, LoneAnswer DEF Error, Ask, Done, Crash, Hang
  <2> QED BY <1>5, <1>9, <2>1, <2>3 DEF ReadInv, HeightRead
<1> QED BY <1>8, <1>9

\* A reply to getTransaction or getVote keeps Confirmed.
LEMMA ConfirmedAnswer ==
    ASSUME CallsInv, ReadInv, op \in {"getTransaction", "getVote"},
           NEW c \in waiting, NEW r \in Reply, Answer(c, r)
    PROVE  Confirmed'
<1>1. op \notin Chained /\ op \in Reading
  BY ReadingTable DEF Reading
<1>2. PICK V : (V = {} \/ V = Vote) /\ Flows["main"] = GetTransaction(V)
  BY ReadingTable, AloneIs DEF Flows
<1>3. c[2] \in {"transaction", "unconfirmed"} \cup V
  BY <1>1, <1>2, TransactionCalls DEF ReadInv, Known
<1>4. Receive(c, r) /\ c[1] = "main" /\ UNCHANGED <<op, arg, start>>
  BY <1>1, LoneAnswer, ReceiveKeeps, GrowsAnswer DEF ReadInv
<1> SUFFICES ASSUME faults' = 0, arg \in start.chain
             PROVE  /\ \A d \in waiting' : d[2] # "unconfirmed"
                    /\ called' = <<"error">> => closed' = {} /\ waiting' = {}
  BY <1>4 DEF Confirmed
<1>5. faults = 0 /\ r \in Replies(c[2])
  BY <1>4 DEF Receive, ReadInv, Grows
<1>6. c[2] # "unconfirmed" /\ called # <<"error">>
  BY <1>5 DEF ReadInv, Confirmed
<1>7. r = "ok" \/ (c[2] \in V /\ r = "empty")
  <2>1. op \notin Searching /\ arg \in chain
    BY DEF Searching, SearchOperation, ReadInv, Grows
  <2>2. CASE c[2] = "transaction"
    BY <1>5, <2>1, <2>2 DEF Replies
  <2>3. CASE c[2] \in V
    <3>1. c[2] \notin {"transaction", "unconfirmed", "block", "blockAt", "blocks", "page"}
      BY <1>2, <2>3, NameAssumption
    <3> QED BY <1>5, <2>1, <2>3, <3>1 DEF Replies
  <2> QED BY <1>3, <1>6, <2>2, <2>3
<1>8. Reaction(c, r) = Ask(V) \/ Reaction(c, r) = Done
  <2>1. c[2] # "page"
    BY <1>2, <1>3, NameAssumption
  <2> QED BY <1>2, <1>3, <1>4, <1>6, <1>7, <2>1, TransactionCalls DEF Reaction, Flows
<1>9. Reaction(c, r).calls \subseteq V /\ Reaction(c, r).then = "ask"
  BY <1>8, NoCalls DEF Done
<1>10. "unconfirmed" \notin V
  BY <1>2, NameAssumption
<1>11. (UNCHANGED called \/ called' = <<"success">>)
       /\ \A d \in waiting' : d \in waiting \/ d[2] \in Reaction(c, r).calls
  BY <1>1, <1>9, LoneAnswer DEF Crash, Hang
<1>12. \A d \in waiting : d[2] # "unconfirmed"
  BY <1>5 DEF ReadInv, Confirmed
<1> QED BY <1>6, <1>9, <1>10, <1>11, <1>12, CallAfter

-----------------------------------------------------------------------------
(* The pages of the block statistics. *)

\* The page read at an offset holds the blocks below it, as far down as it reaches.
LEMMA PageIs ==
    ASSUME NEW h \in Nat, NEW o \in Nat, o < h
    PROVE  LET page == BlocksPage(h, o, PageSize)
               low == IF h - o < PageSize THEN 1 ELSE h - o - PageSize + 1
           IN  /\ page \in Seq(Nat)
               /\ low \in Nat /\ low >= 1 /\ low <= h - o
               /\ {page[i] : i \in DOMAIN page} = low .. h - o
<1> DEFINE n == IF h - o < PageSize THEN h - o ELSE PageSize
           page == BlocksPage(h, o, PageSize)
           low == IF h - o < PageSize THEN 1 ELSE h - o - PageSize + 1
<1>1. PageSize \in Nat /\ PageSize >= 1
  BY ApiAssumption
<1>2. n \in Nat /\ n >= 1 /\ n <= h - o /\ low = h - o - n + 1
  BY <1>1
<1>3. page = [i \in 1 .. n |-> h - o - i + 1]
  BY <1>1 DEF BlocksPage
<1> HIDE DEF n, page, low
<1>4. \A i \in 1 .. n : h - o - i + 1 \in low .. h - o /\ h - o - i + 1 \in Nat
  BY <1>2
<1>5. page \in Seq(Nat) /\ DOMAIN page = 1 .. n
  BY <1>2, <1>3, <1>4
<1>6. ASSUME NEW x \in low .. h - o PROVE \E i \in DOMAIN page : page[i] = x
  <2>1. h - o - x + 1 \in 1 .. n
    BY <1>2, <1>6
  <2>2. PICK i \in 1 .. n : i = h - o - x + 1
    BY <2>1
  <2>3. page[i] = h - o - i + 1 /\ h - o - i + 1 = x
    BY <1>2, <1>3, <1>6, <2>2
  <2> QED BY <1>5, <2>3
<1>7. {page[i] : i \in DOMAIN page} = low .. h - o
  BY <1>3, <1>4, <1>5, <1>6
<1>8. low \in Nat /\ low >= 1 /\ low <= h - o
  BY <1>2
<1> QED BY <1>5, <1>7, <1>8 DEF low, page

\* The elements of two sequences put together.
LEMMA TogetherIs ==
    ASSUME NEW s \in Seq(Nat), NEW t \in Seq(Nat)
    PROVE  /\ s \o t \in Seq(Nat)
           /\ {(s \o t)[i] : i \in DOMAIN (s \o t)} =
                {s[i] : i \in DOMAIN s} \cup {t[i] : i \in DOMAIN t}
<1>1. s \o t \in Seq(Nat) /\ Len(s \o t) = Len(s) + Len(t)
      /\ \A i \in 1 .. Len(s) + Len(t) :
           (s \o t)[i] = IF i <= Len(s) THEN s[i] ELSE t[i - Len(s)]
  BY ConcatProperties
<1>2. /\ DOMAIN s = 1 .. Len(s) /\ DOMAIN t = 1 .. Len(t) /\ Len(s) \in Nat /\ Len(t) \in Nat
      /\ DOMAIN (s \o t) = 1 .. Len(s) + Len(t)
  BY <1>1
<1> DEFINE u == s \o t
<1> HIDE DEF u
<1>3. ASSUME NEW i \in DOMAIN s PROVE \E j \in DOMAIN u : u[j] = s[i]
  <2>1. i \in 1 .. Len(s) + Len(t) /\ i <= Len(s)
    BY <1>2
  <2> QED BY <1>1, <1>2, <2>1 DEF u
<1>4. ASSUME NEW i \in DOMAIN t PROVE \E j \in DOMAIN u : u[j] = t[i]
  <2>1. PICK j \in Nat : j = Len(s) + i
    BY <1>2
  <2>2. j \in 1 .. Len(s) + Len(t) /\ ~ (j <= Len(s)) /\ j - Len(s) = i
    BY <1>2, <2>1
  <2> QED BY <1>1, <1>2, <2>2 DEF u
<1>5. ASSUME NEW j \in DOMAIN u
      PROVE  (\E i \in DOMAIN s : u[j] = s[i]) \/ (\E i \in DOMAIN t : u[j] = t[i])
  <2>1. CASE j <= Len(s)
    BY <1>1, <1>2, <2>1 DEF u
  <2>2. CASE ~ (j <= Len(s))
    <3>1. j - Len(s) \in DOMAIN t
      BY <1>2, <2>2 DEF u
    <3> QED BY <1>1, <1>2, <2>2, <3>1 DEF u
  <2> QED BY <2>1, <2>2
<1>6. {u[i] : i \in DOMAIN u} = {s[i] : i \in DOMAIN s} \cup {t[i] : i \in DOMAIN t}
  BY <1>3, <1>4, <1>5
<1> QED BY <1>1, <1>6 DEF u

\* Nothing is counted when the request begins.
LEMMA PagesInit == Init => PagesMeet
<1> SUFFICES ASSUME Init, op = "getBlocks" PROVE PagesMeet
  BY DEF PagesMeet
<1>1. Flows["main"].first = {"page"} /\ Operations[op].begin = {"main"}
  BY ReadingTable, LoneFlows, AloneIs DEF Flows, Flow
<1>2. \A c \in waiting : c[2] = "page"
  BY <1>1 DEF Init, FirstCalls, Flows
<1>3. got.offset = 0 /\ got.list = <<>> /\ called # <<"success">>
  BY CallAfter DEF Init
<1>4. Counted = {}
  BY <1>3 DEF Counted
<1>5. height \in Nat /\ start.height = height
  BY ApiAssumption DEF Init
<1>6. \E m \in Nat : /\ m = 1 \/ m <= height - got.offset + 1
                     /\ m >= 1 /\ m .. start.height \subseteq Counted
                     /\ \A h \in Counted : h >= m
  <2>1. PICK m \in Nat : m = height + 1
    BY <1>5
  <2>2. m <= height - got.offset + 1 /\ m >= 1 /\ m .. start.height = {}
    BY <1>3, <1>5, <2>1
  <2> QED BY <1>4, <2>2
<1> QED BY <1>2, <1>3, <1>6 DEF PagesMeet

\* The next page of the statistics meets what has been counted.
LEMMA PagesAnswer ==
    ASSUME CallsInv, ReadInv, op = "getBlocks", NEW c \in waiting, NEW r \in Reply, Answer(c, r)
    PROVE  PagesMeet'
<1>1. op \notin Chained
  BY ReadingTable
<1>2. Receive(c, r) /\ c[1] = "main" /\ c[2] = "page"
  BY <1>1, LoneAnswer DEF ReadInv, PagesMeet
<1>3. got' = Read("page", r) /\ UNCHANGED <<op, start, height>>
  BY <1>2, GrowsAnswer DEF ReadInv
<1>4. /\ got'.offset = got.offset + PageSize
      /\ got'.list = IF r = "ok" THEN got.list \o BlocksPage(height, got.offset, PageSize)
                     ELSE got.list
  BY <1>3, ReadIs DEF ReadInv, Grows
<1>5. \A d \in waiting' : d[2] = "page"
  <2>1. Reaction(c, r) = StatisticsCall(got.offset)[r]
    BY <1>2 DEF Reaction
  <2>2. Reaction(c, r).calls \subseteq {"page"}
    BY <2>1, NoCalls DEF StatisticsCall, Always, Reply
  <2> QED BY <1>1, <2>2, LoneAnswer DEF ReadInv, PagesMeet
<1>6. /\ got.offset \in Nat /\ got.list \in Seq(Nat)
      /\ PageSize \in Nat /\ PageSize >= 1 /\ height \in Nat /\ start.height \in Nat
      /\ start.height <= height /\ start.height >= 1 /\ faults \in Nat
  BY ApiAssumption DEF ReadInv, Grows, PagesMeet
<1>7. \/ r = "ok" /\ got.offset < height /\ UNCHANGED faults
      \/ r # "ok" /\ (faults' = 0 => faults = 0 /\ got.offset >= height)
  <2>1. op \notin Searching
    BY DEF Searching, SearchOperation
  <2>2. Replies("page") = {IF got.offset < height THEN "ok" ELSE "empty"}
    BY <2>1 DEF Replies
  <2>3. "ok" \notin Faulty("page")
    BY DEF Faulty
  <2> QED BY <1>2, <1>6, <2>2, <2>3 DEF Receive
<1>8. got'.offset \in Nat /\ got'.offset > 0
  BY <1>4, <1>6
<1>9. CASE r = "ok"
  <2> DEFINE page == BlocksPage(height, got.offset, PageSize)
             low == IF height - got.offset < PageSize THEN 1
                    ELSE height - got.offset - PageSize + 1
             top == height - got.offset
  <2>1. /\ page \in Seq(Nat) /\ low \in Nat /\ low >= 1 /\ low <= top
        /\ {page[i] : i \in DOMAIN page} = low .. top
    BY <1>6, <1>7, <1>9, PageIs
  <2>2. low = 1 \/ low <= height - got'.offset + 1
    BY <1>4, <1>6
  <2>3. top \in Int /\ (got.offset = 0 => top = height)
    BY <1>6
  <2>4. got'.list = got.list \o page
    BY <1>4, <1>9
  <2> HIDE DEF page, low
  <2>5. /\ got'.list \in Seq(Nat)
        /\ Counted' = Counted \cup (low .. top)
    <3> DEFINE list == got.list
    <3>1. list \in Seq(Nat) /\ got'.list = list \o page /\ Counted = {list[i] : i \in DOMAIN list}
      BY <1>6, <2>4 DEF Counted
    <3>2. Counted' = {(list \o page)[i] : i \in DOMAIN (list \o page)}
      BY <2>4 DEF Counted
    <3> HIDE DEF list
    <3>3. /\ list \o page \in Seq(Nat)
          /\ {(list \o page)[i] : i \in DOMAIN (list \o page)} =
               {list[i] : i \in DOMAIN list} \cup {page[i] : i \in DOMAIN page}
      BY <2>1, <3>1, TogetherIs
    <3> QED BY <2>1, <3>1, <3>2, <3>3
  <2>6. ASSUME faults' = 0
        PROVE  /\ \E m \in Nat : /\ m = 1 \/ m <= height - got'.offset + 1
                                 /\ m >= 1 /\ m .. start.height \subseteq Counted'
                                 /\ \A h \in Counted' : h >= m
               /\ \E h \in Counted' : h >= start.height
    <3>1. PICK m \in Nat : /\ m = 1 \/ m <= top + 1
                          /\ m >= 1 /\ m .. start.height \subseteq Counted
                          /\ \A h \in Counted : h >= m
      BY <1>7, <1>9, <2>6 DEF ReadInv, PagesMeet
    <3>2. Counted \subseteq Nat
      BY <1>6 DEF Counted
    <3>3. \A x \in low .. start.height : x \in low .. top \/ x \in m .. start.height
      BY <1>6, <2>1, <2>3, <3>1
    <3>4. \E h \in Counted' : h >= start.height
      <4>1. CASE got.offset = 0
        <5>1. height \in low .. top /\ height >= start.height
          BY <1>6, <2>1, <2>3, <4>1
        <5> QED BY <2>5, <5>1
      <4>2. CASE got.offset > 0
        <5>1. \E h \in Counted : h >= start.height
          BY <1>7, <1>9, <2>6, <4>2 DEF ReadInv, PagesMeet
        <5> QED BY <2>5, <5>1
      <4> QED BY <1>6, <4>1, <4>2
    <3>5. CASE low <= m
      <4>1. low .. start.height \subseteq Counted'
        BY <2>5, <3>1, <3>3
      <4>2. \A h \in Counted' : h >= low
        BY <2>1, <2>3, <2>5, <3>1, <3>2, <3>5
      <4> QED BY <2>1, <2>2, <3>4, <4>1, <4>2
    <3>6. CASE ~ (low <= m)
      <4>1. m <= height - got'.offset + 1
        BY <1>6, <1>8, <2>1, <2>2, <3>1, <3>6
      <4>2. m .. start.height \subseteq Counted'
        BY <2>5, <3>1
      <4>3. \A h \in Counted' : h >= m
        BY <2>1, <2>3, <2>5, <3>1, <3>6
      <4> QED BY <3>1, <3>4, <4>1, <4>2, <4>3
    <3> QED BY <3>5, <3>6
  <2> QED BY <1>3, <1>5, <1>8, <2>5, <2>6 DEF PagesMeet
<1>10. CASE r # "ok"
  <2>1. got'.list = got.list /\ Counted' = Counted
    BY <1>4, <1>10 DEF Counted
  <2>2. ASSUME faults' = 0
        PROVE  /\ \E m \in Nat : /\ m = 1 \/ m <= height - got'.offset + 1
                                 /\ m >= 1 /\ m .. start.height \subseteq Counted'
                                 /\ \A h \in Counted' : h >= m
               /\ \E h \in Counted' : h >= start.height
    <3>1. faults = 0 /\ got.offset >= height /\ got.offset > 0
      BY <1>6, <1>7, <1>10, <2>2
    <3>2. PICK m \in Nat : /\ m = 1 \/ m <= height - got.offset + 1
                          /\ m >= 1 /\ m .. start.height \subseteq Counted
                          /\ \A h \in Counted : h >= m
      BY <3>1 DEF ReadInv, PagesMeet
    <3>3. \E h \in Counted : h >= start.height
      BY <3>1 DEF ReadInv, PagesMeet
    <3>4. m <= 1
      BY <1>6, <3>1, <3>2
    <3> QED BY <2>1, <3>2, <3>3, <3>4
  <2> QED BY <1>3, <1>5, <1>6, <1>8, <2>1, <2>2 DEF PagesMeet
<1> QED BY <1>9, <1>10

-----------------------------------------------------------------------------
(* The theorems on the answers. *)

\* Every step keeps what is known of the data read.
LEMMA ReadStep == CallsInv /\ ReadInv /\ [Next]_apiVars => ReadInv'
<1> SUFFICES ASSUME CallsInv, ReadInv, [Next]_apiVars PROVE ReadInv'
  OBVIOUS
<1>1. ASSUME NEW c \in waiting, NEW r \in Reply, Answer(c, r) PROVE ReadInv'
  <2>1. Receive(c, r)
    BY <1>1 DEF Answer, Continue, Succeed, Fail, Throw, Forget
  <2>2. Grows' /\ op' = op
    BY <2>1, GrowsAnswer DEF ReadInv
  <2>3. Known'
    BY <1>1, <2>2, KnownAnswer DEF Known
  <2>4. HeightRead'
    BY <1>1, <2>2, HeightAnswer DEF HeightRead
  <2>5. Confirmed'
    BY <1>1, <2>2, ConfirmedAnswer DEF Confirmed
  <2>6. PagesMeet'
    BY <1>1, <2>2, PagesAnswer DEF PagesMeet
  <2> QED BY <2>2, <2>3, <2>4, <2>5, <2>6 DEF ReadInv
<1>2. CASE (\E t \in Tx : Submit(t)) \/ (\E confirmed \in SUBSET pool : Forge(confirmed))
           \/ UNCHANGED apiVars
  BY <1>2, ReadNode
<1> QED BY <1>1, <1>2 DEF Next

\* What the handlers have read fits the node as it is and as it was when the request
\* began, whatever blocks and transactions come in between.
THEOREM ReadCorrect == ApiSpec => []ReadInv
<1>1. Init => ReadInv
  BY GrowsInit, PagesInit DEF ReadInv
<1> QED BY <1>1, ReadStep, CallsCorrect, PTL DEF ApiSpec

\* getTransaction and getVote of lib/api/transactions.js: a transaction that was confirmed
\* when the request began is found, if the node answers with the data.
THEOREM ConfirmedFoundCorrect == ApiSpec => []ConfirmedFound
<1>1. ReadInv => ConfirmedFound
  BY DEF ReadInv, Confirmed, ConfirmedFound
<1> QED BY <1>1, ReadCorrect, PTL

\* getBlock of lib/api/blocks.js: the confirmations of a block asked for by its id are those
\* it had at some moment of the request, although the height is read before the block.  Of
\* getHeight this is false, see HeightConfirmations.
THEOREM ConfirmationsCorrect == ApiSpec => []ConfirmationsTrue
<1>1. ReadInv => ConfirmationsTrue
  <2> SUFFICES ASSUME ReadInv, op = "getBlock", called = <<"success">> PROVE ConfirmationsTrue
    BY DEF ConfirmationsTrue, Answered
  <2>1. got.height \in start.height .. height /\ start.height \in Nat /\ height \in Nat
    BY ApiAssumption DEF ReadInv, HeightRead, Grows
  <2>2. arg \in Nat
    BY ApiAssumption DEF ReadInv, Grows, Arguments
  <2> QED BY <2>1, <2>2 DEF ConfirmationsTrue, ConfirmedMeanwhile, Confirmations
<1> QED BY <1>1, ReadCorrect, PTL

\* pagination of lib/api/blocks.js: a page that promises another one is right, and one that
\* promises none was the last when the request began, if the request gave a number.
THEOREM MoreCorrect == ApiSpec => []MoreIsTrue
<1>1. ReadInv => MoreIsTrue
  <2> SUFFICES ASSUME ReadInv, op = "getLastBlocks", called = <<"success">> PROVE MoreIsTrue
    BY DEF MoreIsTrue, Answered
  <2>0. CASE arg = NoNumber
    BY <2>0 DEF MoreIsTrue, Pagination
  <2>a. SUFFICES ASSUME arg # NoNumber PROVE MoreIsTrue
    BY <2>0
  <2> DEFINE k == arg \div PageSize + 1
             total == (got.height + PageSize - 1) \div PageSize
  <2>1. /\ got.height \in start.height .. height /\ start.height \in Nat /\ height \in Nat
        /\ got.height \in Nat /\ got.height >= 1
    BY ApiAssumption DEF ReadInv, HeightRead, Grows
  <2>2. arg \in Nat /\ PageSize \in Nat /\ PageSize >= 1
    BY <2>a, ArgIs, ApiAssumption DEF ReadInv
  <2>3. k \in Nat /\ total \in Nat /\ k # NoNumber
    BY <2>1, <2>2 DEF NoNumber
  <2>4. /\ PageSize * total <= got.height + PageSize - 1
        /\ got.height + PageSize - 1 < PageSize * (total + 1)
    BY <2>1, <2>2
  <2>5. /\ Pagination(arg, got.height, PageSize).current = k
        /\ Pagination(arg, got.height, PageSize).more = (k < total)
    BY <2>3, <2>a DEF Pagination, TotalPages
  <2> HIDE DEF k, total
  <2>6. k * PageSize \in Nat
    BY <2>2, <2>3
  <2>7. k < total => k * PageSize < got.height
    <3> SUFFICES ASSUME k < total PROVE k * PageSize < got.height
      OBVIOUS
    <3>1. PICK d \in Nat : total = k + 1 + d
      BY <2>3
    <3>2. PageSize * total = k * PageSize + PageSize + PageSize * d /\ PageSize * d >= 0
      BY <2>2, <2>3, <3>1
    <3> QED BY <2>1, <2>2, <2>4, <2>6, <3>2
  <2>8. ~ (k < total) => got.height <= k * PageSize
    <3> SUFFICES ASSUME ~ (k < total) PROVE got.height <= k * PageSize
      OBVIOUS
    <3>1. PICK d \in Nat : k = total + d
      BY <2>3
    <3>2. k * PageSize = PageSize * total + PageSize * d /\ PageSize * d >= 0
          /\ PageSize * (total + 1) = PageSize * total + PageSize
          /\ PageSize * total \in Nat /\ PageSize * d \in Nat
      BY <2>2, <2>3, <3>1
    <3> QED BY <2>1, <2>2, <2>4, <2>6, <3>2
  <2>9. k < total => BlocksPage(height, k * PageSize, PageSize) # <<>>
    <3> SUFFICES ASSUME k < total PROVE BlocksPage(height, k * PageSize, PageSize) # <<>>
      OBVIOUS
    <3>1. k * PageSize < height
      BY <2>1, <2>6, <2>7
    <3>2. BlocksPage(height, k * PageSize, PageSize)[1] \in Nat
          /\ 1 \in DOMAIN BlocksPage(height, k * PageSize, PageSize)
      BY <2>1, <2>2, <2>6, <3>1 DEF BlocksPage
    <3> QED BY <3>2
  <2>10. ~ (k < total) => BlocksPage(start.height, k * PageSize, PageSize) = <<>>
    <3> SUFFICES ASSUME ~ (k < total) PROVE BlocksPage(start.height, k * PageSize, PageSize) = <<>>
      OBVIOUS
    <3>1. ~ (start.height - k * PageSize > 0)
      BY <2>1, <2>6, <2>8
    <3> QED BY <2>1, <2>2, <2>6, <3>1 DEF BlocksPage
  <2> QED BY <2>5, <2>9, <2>10 DEF MoreIsTrue
<1> QED BY <1>1, ReadCorrect, PTL

\* getBlocks of lib/api/statistics.js: the statistics skip no block although the pages move
\* while they are read.
THEOREM NoBlockSkippedCorrect == ApiSpec => []NoBlockSkipped
<1>1. ReadInv => NoBlockSkipped
  <2> SUFFICES ASSUME ReadInv, op = "getBlocks", called = <<"success">>, faults = 0
               PROVE  NoBlockSkipped
    BY DEF NoBlockSkipped, Answered
  <2>1. got.offset > 0 /\ got.list \in Seq(Nat)
    BY DEF ReadInv, PagesMeet
  <2>2. PICK m \in Nat : /\ m .. start.height \subseteq Counted
                        /\ \A h \in Counted : h >= m
    BY DEF ReadInv, PagesMeet
  <2>3. \E h \in Counted : h >= start.height
    BY <2>1 DEF ReadInv, PagesMeet
  <2>4. Counted \subseteq Nat /\ start.height \in Nat
    BY <2>1, ApiAssumption DEF Counted, ReadInv, Grows
  <2>5. ASSUME NEW h \in Counted, NEW g \in h .. start.height PROVE g \in Counted
    <3>1. g \in m .. start.height
      BY <2>2, <2>4, <2>5
    <3> QED BY <2>2, <3>1
  <2> QED BY <2>3, <2>5 DEF NoBlockSkipped, Counted
<1> QED BY <1>1, ReadCorrect, PTL

-----------------------------------------------------------------------------
(* Lists put in order. *)

\* A strict order of all elements of a set.
TotalOrder(S, R) ==
    /\ \A x \in S : <<x, x>> \notin R
    /\ \A x, y \in S : x # y => <<x, y>> \in R \/ <<y, x>> \in R
    /\ \A x, y, z \in S : <<x, y>> \in R /\ <<y, z>> \in R => <<x, z>> \in R

Before(S, R, x) == {y \in S : <<y, x>> \in R}

\* What comes earlier has less before it.
LEMMA RankLess ==
    ASSUME NEW S, IsFiniteSet(S), NEW R, TotalOrder(S, R), NEW x \in S
    PROVE  /\ Cardinality(Before(S, R, x)) \in 0 .. Cardinality(S) - 1
           /\ \A y \in S : <<x, y>> \in R =>
                Cardinality(Before(S, R, x)) < Cardinality(Before(S, R, y))
           /\ \A y \in S : Cardinality(Before(S, R, x)) = Cardinality(Before(S, R, y)) => x = y
<1>1. ASSUME NEW z \in S
      PROVE  /\ Before(S, R, z) \subseteq S /\ z \notin Before(S, R, z)
             /\ IsFiniteSet(Before(S, R, z)) /\ Cardinality(Before(S, R, z)) \in Nat
             /\ Cardinality(Before(S, R, z)) < Cardinality(S) /\ Cardinality(S) \in Nat
  <2>1. Before(S, R, z) \subseteq S /\ z \notin Before(S, R, z)
    BY DEF Before, TotalOrder
  <2>2. /\ IsFiniteSet(Before(S, R, z)) /\ Cardinality(Before(S, R, z)) <= Cardinality(S)
        /\ Cardinality(Before(S, R, z)) # Cardinality(S)
    BY <2>1, FS_Subset
  <2>3. Cardinality(Before(S, R, z)) \in Nat /\ Cardinality(S) \in Nat
    BY <2>2, FS_CardinalityType
  <2> QED BY <2>1, <2>2, <2>3
<1>2. ASSUME NEW y \in S, NEW z \in S, <<z, y>> \in R
      PROVE  Cardinality(Before(S, R, z)) < Cardinality(Before(S, R, y))
  <2>1. Before(S, R, z) \subseteq Before(S, R, y) /\ z \in Before(S, R, y)
    BY <1>2 DEF Before, TotalOrder
  <2>2. /\ Cardinality(Before(S, R, z)) <= Cardinality(Before(S, R, y))
        /\ Cardinality(Before(S, R, z)) # Cardinality(Before(S, R, y))
    BY <1>1, <2>1, FS_Subset
  <2> QED BY <1>1, <2>2
<1>3. ASSUME NEW y \in S, Cardinality(Before(S, R, x)) = Cardinality(Before(S, R, y)), x # y
      PROVE  FALSE
  <2>1. <<x, y>> \in R \/ <<y, x>> \in R
    BY <1>3 DEF TotalOrder
  <2> QED BY <1>1, <1>2, <1>3, <2>1
<1> QED BY <1>1, <1>2, <1>3

\* Every place is taken.
LEMMA RankOnto ==
    ASSUME NEW S, IsFiniteSet(S), NEW R, TotalOrder(S, R), NEW k \in 1 .. Cardinality(S)
    PROVE  \E x \in S : Cardinality(Before(S, R, x)) = k - 1
<1> DEFINE n == Cardinality(S)
           rank == [x \in S |-> Cardinality(Before(S, R, x)) + 1]
<1>1. n \in Nat
  BY FS_CardinalityType
<1>2. \A x \in S : rank[x] \in 1 .. n /\ Cardinality(Before(S, R, x)) \in Nat
  BY <1>1, RankLess
<1>3. \A x, y \in S : rank[x] = rank[y] => x = y
  BY <1>2, RankLess
<1>4. rank \in Injection(S, 1 .. n)
  BY <1>2, <1>3 DEF Injection, IsInjective
<1>5. IsFiniteSet(1 .. n) /\ Cardinality(1 .. n) = n
  BY <1>1, FS_Interval
<1>6. rank \in Surjection(S, 1 .. n)
  BY <1>4, <1>5, FS_Injection
<1>7. \E x \in S : rank[x] = k
  BY <1>6 DEF Surjection
<1> QED BY <1>2, <1>7

\* A sorted sequence: what is at each place, and that everything is somewhere.
LEMMA ArrangedIs ==
    ASSUME NEW S, IsFiniteSet(S), NEW R, TotalOrder(S, R)
    PROVE  LET s == Arranged(S, R)
           IN  /\ DOMAIN s = 1 .. Cardinality(S) /\ Cardinality(S) \in Nat
               /\ \A k \in 1 .. Cardinality(S) :
                    s[k] \in S /\ Cardinality(Before(S, R, s[k])) = k - 1
               /\ \A x \in S : /\ Cardinality(Before(S, R, x)) \in 0 .. Cardinality(S) - 1
                               /\ \E k \in 1 .. Cardinality(S) :
                                    k = Cardinality(Before(S, R, x)) + 1 /\ s[k] = x
               /\ \A i, j \in 1 .. Cardinality(S) : i < j => <<s[i], s[j]>> \in R
<1> DEFINE s == Arranged(S, R)
<1>1. Cardinality(S) \in Nat
  BY FS_CardinalityType
<1>2. DOMAIN s = 1 .. Cardinality(S)
  BY DEF Arranged
<1>3. ASSUME NEW k \in 1 .. Cardinality(S)
      PROVE  s[k] \in S /\ Cardinality(Before(S, R, s[k])) = k - 1
  <2>1. s[k] = CHOOSE x \in S : Cardinality(Before(S, R, x)) = k - 1
    BY DEF Arranged, Before
  <2> HIDE DEF s
  <2> QED BY <2>1, RankOnto
<1> HIDE DEF s
<1>4. ASSUME NEW x \in S
      PROVE  /\ Cardinality(Before(S, R, x)) \in 0 .. Cardinality(S) - 1
             /\ \E k \in 1 .. Cardinality(S) : k = Cardinality(Before(S, R, x)) + 1 /\ s[k] = x
  <2>1. Cardinality(Before(S, R, x)) \in 0 .. Cardinality(S) - 1
    BY RankLess
  <2>2. PICK k \in 1 .. Cardinality(S) : k = Cardinality(Before(S, R, x)) + 1
    BY <1>1, <2>1
  <2>3. s[k] \in S /\ Cardinality(Before(S, R, s[k])) = Cardinality(Before(S, R, x))
    BY <1>1, <1>3, <2>1, <2>2
  <2>4. s[k] = x
    BY <2>3, RankLess
  <2> QED BY <2>1, <2>2, <2>4
<1>5. ASSUME NEW i \in 1 .. Cardinality(S), NEW j \in 1 .. Cardinality(S), i < j
      PROVE  <<s[i], s[j]>> \in R
  <2>1. s[i] \in S /\ s[j] \in S /\ Cardinality(Before(S, R, s[i])) < Cardinality(Before(S, R, s[j]))
    BY <1>1, <1>3, <1>5
  <2>2. s[i] # s[j] /\ ~ (Cardinality(Before(S, R, s[j])) < Cardinality(Before(S, R, s[i])))
    BY <1>1, <1>3, <1>5
  <2>3. <<s[j], s[i]>> \notin R
    BY <2>1, <2>2, RankLess
  <2> QED BY <2>1, <2>2, <2>3 DEF TotalOrder
<1> QED BY <1>1, <1>2, <1>3, <1>4, <1>5 DEF s

\* The newest of a set of transactions.
Later(S) == {p \in S \X S : p[1] > p[2]}
Least(m, n) == IF m < n THEN m ELSE n
Top(S, n) == [k \in 1 .. Least(Cardinality(S), n) |-> Arranged(S, Later(S))[k]]
Above(S, x) == {y \in S : y > x}

\* A number comes after the smaller ones.
LEMMA LaterIs ==
    ASSUME NEW S \in SUBSET Nat
    PROVE  TotalOrder(S, Later(S)) /\ \A x \in S : Before(S, Later(S), x) = Above(S, x)
<1>1. \A x, y \in S : <<x, y>> \in Later(S) <=> x > y
  BY DEF Later
<1>2. TotalOrder(S, Later(S))
  BY <1>1 DEF TotalOrder
<1> QED BY <1>1, <1>2 DEF Before, Above

\* What is in it, and where.
LEMMA TopIs ==
    ASSUME NEW S \in SUBSET Nat, IsFiniteSet(S), NEW n \in Nat
    PROVE  LET s == Top(S, n)
               m == Least(Cardinality(S), n)
           IN  /\ m \in Nat /\ m <= n /\ Cardinality(S) \in Nat /\ s \in Seq(S) /\ Len(s) = m
               /\ DOMAIN s = 1 .. m
               /\ \A k \in 1 .. m : s[k] \in S /\ Cardinality(Above(S, s[k])) = k - 1
               /\ \A x \in S : /\ Cardinality(Above(S, x)) \in Nat
                               /\ Cardinality(Above(S, x)) < n =>
                                    \E k \in 1 .. m : k = Cardinality(Above(S, x)) + 1 /\ s[k] = x
               /\ \A i, j \in 1 .. m : i < j => s[i] > s[j]
<1> DEFINE a == Arranged(S, Later(S))
           c == Cardinality(S)
           m == Least(c, n)
           s == Top(S, n)
<1>1. /\ c \in Nat
      /\ \A k \in 1 .. c : a[k] \in S /\ Cardinality(Before(S, Later(S), a[k])) = k - 1
      /\ \A x \in S : /\ Cardinality(Before(S, Later(S), x)) \in 0 .. c - 1
                      /\ \E k \in 1 .. c : k = Cardinality(Before(S, Later(S), x)) + 1 /\ a[k] = x
      /\ \A i, j \in 1 .. c : i < j => <<a[i], a[j]>> \in Later(S)
  BY ArrangedIs, LaterIs
<1> HIDE DEF a, c
<1>2. m \in Nat /\ m <= n /\ m <= c /\ (m = n \/ m = c)
  BY <1>1 DEF Least
<1>3. s = [k \in 1 .. m |-> a[k]]
  BY DEF Top, a, c
<1> HIDE DEF m, s
<1>4. \A k \in 1 .. m : k \in 1 .. c /\ s[k] = a[k]
  BY <1>1, <1>2, <1>3
<1>5. ASSUME NEW k \in 1 .. m PROVE s[k] \in S /\ Cardinality(Above(S, s[k])) = k - 1
  BY <1>1, <1>4, LaterIs
<1>6. ASSUME NEW x \in S
      PROVE  /\ Cardinality(Above(S, x)) \in Nat
             /\ Cardinality(Above(S, x)) < n =>
                  \E k \in 1 .. m : k = Cardinality(Above(S, x)) + 1 /\ s[k] = x
  <2>1. Above(S, x) = Before(S, Later(S), x)
    BY LaterIs
  <2>2. PICK k \in 1 .. c : k = Cardinality(Above(S, x)) + 1 /\ a[k] = x
    BY <1>1, <2>1
  <2>3. Cardinality(Above(S, x)) \in 0 .. c - 1
    BY <1>1, <2>1
  <2>4. Cardinality(Above(S, x)) < n => k \in 1 .. m
    BY <1>1, <1>2, <2>2, <2>3
  <2> QED BY <1>4, <2>2, <2>3, <2>4
<1>7. ASSUME NEW i \in 1 .. m, NEW j \in 1 .. m, i < j PROVE s[i] > s[j]
  <2>1. <<a[i], a[j]>> \in Later(S)
    BY <1>1, <1>4, <1>7
  <2> QED BY <1>4, <2>1 DEF Later
<1>8. s \in Seq(S) /\ Len(s) = m /\ DOMAIN s = 1 .. m
  BY <1>2, <1>3, <1>5
<1> QED BY <1>1, <1>2, <1>5, <1>6, <1>7, <1>8 DEF c, m, s

\* Numbers of the same rank are the same.
LEMMA AboveIs ==
    ASSUME NEW S \in SUBSET Nat, IsFiniteSet(S), NEW x \in S, NEW y \in S,
           Cardinality(Above(S, x)) = Cardinality(Above(S, y))
    PROVE  x = y
BY LaterIs, RankLess

\* A list without doubles is sorted and cut as the set of its elements is.
LEMMA NewestIs ==
    ASSUME NEW list \in Seq(Nat), NEW n \in Nat,
           \A i, j \in DOMAIN list : list[i] = list[j] => i = j
    PROVE  /\ Newest(list, n) = Top(ToSet(list), n)
           /\ IsFiniteSet(ToSet(list)) /\ ToSet(list) \subseteq Nat
<1> DEFINE D == DOMAIN list
           S == ToSet(list)
           R == {p \in D \X D : list[p[1]] > list[p[2]] \/ (list[p[1]] = list[p[2]] /\ p[1] < p[2])}
           a == Arranged(D, R)
           b == Arranged(S, Later(S))
           c == Cardinality(S)
<1>1. /\ D = 1 .. Len(list) /\ Len(list) \in Nat /\ S \in SUBSET Nat
      /\ \A i \in D : list[i] \in S /\ i \in Nat /\ list[i] \in Nat
  BY DEF ToSet
<1>2. IsFiniteSet(D) /\ Cardinality(D) = Len(list)
  <2>1. PICK l \in Nat : l = Len(list)
    BY <1>1
  <2>2. IsFiniteSet(1 .. l) /\ Cardinality(1 .. l) = l
    BY FS_Interval
  <2> QED BY <1>1, <2>1, <2>2
<1>3. \A i, j \in D : <<i, j>> \in R <=> list[i] > list[j]
  BY <1>1
<1> HIDE DEF R
<1>4. TotalOrder(D, R)
  BY <1>1, <1>3 DEF TotalOrder
<1> HIDE DEF D
<1>5. list \in Bijection(D, S)
  BY <1>1 DEF Bijection, Injection, Surjection, IsInjective, ToSet, D
<1>6. IsFiniteSet(S) /\ c = Len(list)
  BY <1>2, <1>5, FS_Bijection DEF ExistsBijection
<1>7. ASSUME NEW i \in D
      PROVE  Cardinality(Above(S, list[i])) = Cardinality(Before(D, R, i))
  <2> DEFINE B == Before(D, R, i)
             f == [j \in B |-> list[j]]
             A == Above(S, list[i])
  <2>1. \A j \in D : j \in B <=> list[j] > list[i]
    BY <1>3 DEF Before
  <2>2. \A j \in B : j \in D
    BY DEF Before
  <2>3. \A y \in A : \E j \in D : y = list[j] /\ list[j] > list[i]
    BY DEF Above, ToSet, D
  <2>4. f \in Bijection(B, A)
    <3> HIDE DEF B, A
    <3>1. \A j \in B : f[j] \in A
      BY <1>1, <2>1, <2>2 DEF A, Above
    <3>2. \A j, k \in B : f[j] = f[k] => j = k
      BY <2>2 DEF D
    <3>3. \A y \in A : \E j \in B : f[j] = y
      BY <2>1, <2>3
    <3> QED BY <3>1, <3>2, <3>3 DEF Bijection, Injection, Surjection, IsInjective
  <2>5. IsFiniteSet(B)
    BY <1>2, FS_Subset DEF Before
  <2> QED BY <2>4, <2>5, FS_Bijection DEF ExistsBijection
<1>8. ASSUME NEW k \in 1 .. c PROVE list[a[k]] = b[k]
  <2>1. a[k] \in D /\ Cardinality(Before(D, R, a[k])) = k - 1
    BY <1>2, <1>4, <1>6, <1>8, ArrangedIs
  <2>2. b[k] \in S /\ Cardinality(Before(S, Later(S), b[k])) = k - 1
    BY <1>1, <1>6, <1>8, ArrangedIs, LaterIs
  <2>3. Cardinality(Above(S, list[a[k]])) = Cardinality(Above(S, b[k]))
    BY <1>1, <1>7, <2>1, <2>2, LaterIs
  <2> QED BY <1>1, <1>6, <2>1, <2>2, <2>3, AboveIs
<1>9. Newest(list, n) = [k \in 1 .. Least(c, n) |-> list[a[k]]]
  BY <1>6 DEF Newest, R, D, Least
<1>10. Top(S, n) = [k \in 1 .. Least(c, n) |-> b[k]]
  BY DEF Top
<1>11. \A k \in 1 .. Least(c, n) : k \in 1 .. c
  BY <1>1, <1>6 DEF Least
<1> HIDE DEF a, b, c, S
<1>12. Newest(list, n) = Top(S, n)
  BY <1>8, <1>9, <1>10, <1>11
<1> QED BY <1>1, <1>6, <1>12 DEF S

\* Any list is cut to elements of it.
LEMMA NewestType ==
    ASSUME NEW T \in SUBSET Nat, NEW list \in Seq(T), NEW n \in Nat
    PROVE  Newest(list, n) \in Seq(T)
<1> DEFINE D == DOMAIN list
           R == {p \in D \X D : list[p[1]] > list[p[2]] \/ (list[p[1]] = list[p[2]] /\ p[1] < p[2])}
           a == Arranged(D, R)
           m == IF Len(list) < n THEN Len(list) ELSE n
<1>1. /\ D = 1 .. Len(list) /\ Len(list) \in Nat
      /\ \A i \in D : i \in Nat /\ list[i] \in T /\ list[i] \in Nat
  <2>1. D = 1 .. Len(list) /\ Len(list) \in Nat /\ \A i \in D : list[i] \in T
    OBVIOUS
  <2>2. \A x \in T : x \in Nat
    OBVIOUS
  <2>3. \A i \in D : i \in Nat
    BY <2>1
  <2> QED BY <2>1, <2>2, <2>3
<1>2. IsFiniteSet(D) /\ Cardinality(D) = Len(list)
  <2>1. PICK l \in Nat : l = Len(list)
    BY <1>1
  <2>2. IsFiniteSet(1 .. l) /\ Cardinality(1 .. l) = l
    BY FS_Interval
  <2> QED BY <1>1, <2>1, <2>2
<1>3. \A i, j \in D : <<i, j>> \in R <=> (list[i] > list[j] \/ (list[i] = list[j] /\ i < j))
  OBVIOUS
<1> HIDE DEF R
<1>4. TotalOrder(D, R)
  BY <1>1, <1>3 DEF TotalOrder
<1>5. m \in Nat /\ m <= Len(list)
  BY <1>1
<1>6. \A k \in 1 .. m : list[a[k]] \in T
  <2>1. \A k \in 1 .. Len(list) : a[k] \in D
    BY <1>2, <1>4, ArrangedIs
  <2>2. \A k \in 1 .. m : k \in 1 .. Len(list)
    BY <1>1, <1>5
  <2> QED BY <1>1, <2>1, <2>2
<1>7. Newest(list, n) = [k \in 1 .. m |-> list[a[k]]]
  BY DEF Newest, R
<1> HIDE DEF a, m
<1> QED BY <1>5, <1>6, <1>7

\* A set as a list without doubles.
LEMMA ListOf ==
    ASSUME NEW S, IsFiniteSet(S)
    PROVE  LET s == SetToSeq(S)
           IN  /\ s \in Seq(S) /\ ToSet(s) = S
               /\ \A i, j \in DOMAIN s : s[i] = s[j] => i = j
<1> DEFINE c == Cardinality(S)
           s == SetToSeq(S)
<1>1. c \in Nat /\ ExistsBijection(1 .. c, S)
  BY FS_CardinalityType
<1>2. s \in [1 .. c -> S] /\ IsInjective(s)
  <2>1. \E f \in [1 .. c -> S] : IsInjective(f)
    BY <1>1 DEF ExistsBijection, Bijection, Injection
  <2> QED BY <2>1 DEF SetToSeq
<1> HIDE DEF s
<1>3. s \in Injection(1 .. c, S)
  BY <1>2 DEF Injection
<1>4. Cardinality(1 .. c) = c
  BY <1>1, FS_Interval
<1>5. s \in Surjection(1 .. c, S)
  BY <1>3, <1>4, FS_Injection
<1>6. ToSet(s) = S
  BY <1>2, <1>5 DEF ToSet, Surjection
<1>7. s \in Seq(S)
  BY <1>1, <1>2
<1> QED BY <1>2, <1>6, <1>7 DEF s, IsInjective

\* What is cut off a list is not among the newest of a longer one.
LEMMA TopOfTop ==
    ASSUME NEW C \in SUBSET Nat, IsFiniteSet(C), NEW P \in SUBSET Nat, IsFiniteSet(P), NEW n \in Nat
    PROVE  Top(ToSet(Top(C, n)) \cup P, n) = Top(C \cup P, n)
<1> DEFINE T == ToSet(Top(C, n))
           U == T \cup P
           V == C \cup P
<1>1. /\ \A x \in C : Cardinality(Above(C, x)) \in Nat
      /\ \A x : x \in T <=> x \in C /\ Cardinality(Above(C, x)) < n
  <2> DEFINE s == Top(C, n)
             m == Least(Cardinality(C), n)
  <2>1. /\ m \in Nat /\ m <= n /\ DOMAIN s = 1 .. m
        /\ \A k \in 1 .. m : s[k] \in C /\ Cardinality(Above(C, s[k])) = k - 1
        /\ \A x \in C : /\ Cardinality(Above(C, x)) \in Nat
                        /\ Cardinality(Above(C, x)) < n =>
                             \E k \in 1 .. m : k = Cardinality(Above(C, x)) + 1 /\ s[k] = x
    BY TopIs
  <2> HIDE DEF s, m
  <2>2. \A k \in 1 .. m : k - 1 < n
    BY <2>1
  <2>3. T = {s[k] : k \in 1 .. m}
    BY <2>1 DEF ToSet, s
  <2> QED BY <2>1, <2>2, <2>3
<1>2. T = C \/ Cardinality(T) = n
  <2> DEFINE s == Top(C, n)
             m == Least(Cardinality(C), n)
  <2>1. /\ m \in Nat /\ m <= n /\ DOMAIN s = 1 .. m /\ (m = n \/ m = Cardinality(C))
        /\ \A k \in 1 .. m : s[k] \in C
        /\ \A i, j \in 1 .. m : i < j => s[i] > s[j]
    BY TopIs DEF Least
  <2> HIDE DEF s, m
  <2>2. T = {s[k] : k \in 1 .. m}
    BY <2>1 DEF ToSet, s
  <2> HIDE DEF T
  <2>3. ASSUME NEW i \in 1 .. m, NEW j \in 1 .. m, s[i] = s[j] PROVE i = j
    <3>0. \A x \in C : x \in Nat
      OBVIOUS
    <3>1. s[i] \in Nat /\ i \in Nat /\ j \in Nat
      <4>1. m \in Nat /\ s[i] \in C
        BY <2>1
      <4>2. s[i] \in Nat
        BY <3>0, <4>1
      <4>3. \A l \in 1 .. m : l \in Nat
        BY <4>1
      <4> QED BY <4>2, <4>3
    <3>2. ~ (i < j) /\ ~ (j < i)
      <4>1. ~ (s[i] > s[j]) /\ ~ (s[j] > s[i])
        BY <2>3, <3>1
      <4> QED BY <2>1, <4>1
    <3> QED BY <3>1, <3>2
  <2>4. s \in Bijection(1 .. m, T)
    <3>1. \A k \in 1 .. m : s[k] \in T
      BY <2>2
    <3>2. \A x \in T : \E k \in 1 .. m : s[k] = x
      BY <2>2
    <3>3. s = [k \in 1 .. m |-> s[k]]
      BY <2>1 DEF s, Top, m
    <3> QED BY <2>1, <2>3, <3>1, <3>2, <3>3 DEF Bijection, Injection, Surjection, IsInjective
  <2>5. Cardinality(T) = m
    BY <2>1, <2>4, FS_CountingElements DEF ExistsBijection
  <2>6. T \subseteq C
    BY <2>1, <2>2
  <2> QED BY <2>1, <2>5, <2>6, FS_Subset
<1> HIDE DEF T
<1>3. T \subseteq C /\ IsFiniteSet(T) /\ T \in SUBSET Nat
  BY <1>1, FS_Subset
<1>4. ASSUME NEW y \in C \ T, NEW t \in T PROVE t > y
  <2>1. /\ t \in C /\ Cardinality(Above(C, t)) \in Nat /\ Cardinality(Above(C, t)) < n
        /\ y \in C /\ Cardinality(Above(C, y)) \in Nat /\ ~ (Cardinality(Above(C, y)) < n)
    BY <1>1
  <2>2. ~ (y > t)
    <3>1. y > t => Cardinality(Above(C, y)) < Cardinality(Above(C, t))
      <4>1. y > t => <<y, t>> \in Later(C)
        BY <2>1 DEF Later
      <4> QED BY <2>1, <4>1, LaterIs, RankLess
    <3> QED BY <2>1, <3>1
  <2>3. t # y /\ t \in Nat /\ y \in Nat
    BY <1>3, <2>1
  <2> QED BY <2>2, <2>3
<1>5. /\ IsFiniteSet(U) /\ IsFiniteSet(V) /\ U \in SUBSET Nat /\ V \in SUBSET Nat /\ U \subseteq V
      /\ Cardinality(U) \in Nat /\ Cardinality(V) \in Nat /\ Cardinality(U) <= Cardinality(V)
      /\ Cardinality(T) <= Cardinality(U) /\ Cardinality(T) \in Nat
  BY <1>3, FS_Union, FS_Subset, FS_CardinalityType
<1>6. Least(Cardinality(U), n) = Least(Cardinality(V), n)
  <2>1. CASE T = C
    BY <2>1
  <2>2. CASE Cardinality(T) = n
    BY <1>5, <2>2 DEF Least
  <2> QED BY <1>2, <2>1, <2>2
<1>7. ASSUME NEW x \in V
      PROVE  \/ x \in U /\ Above(U, x) = Above(V, x)
             \/ Cardinality(Above(V, x)) >= n
  <2>1. CASE \A y \in C \ T : ~ (y >= x)
    <3>1. x \in U
      BY <1>5, <2>1
    <3>2. Above(U, x) = Above(V, x)
      <4>1. ASSUME NEW z \in V, z > x PROVE z \in U
        <5>1. z \in Nat /\ x \in Nat /\ z >= x
          BY <1>5, <4>1
        <5> QED BY <2>1, <5>1
      <4> QED BY <1>5, <4>1 DEF Above
    <3> QED BY <3>1, <3>2
  <2>2. CASE \E y \in C \ T : y >= x
    <3>1. PICK y \in C \ T : y >= x
      BY <2>2
    <3>2. T \subseteq Above(V, x)
      <4> SUFFICES ASSUME NEW t \in T PROVE t \in V /\ t > x
        BY DEF Above
      <4>1. t > y /\ t \in Nat /\ y \in Nat /\ x \in Nat
        BY <1>3, <1>4, <1>5, <3>1
      <4> QED BY <1>3, <3>1, <4>1
    <3>3. IsFiniteSet(Above(V, x))
      BY <1>5, FS_Subset DEF Above
    <3>4. Cardinality(T) <= Cardinality(Above(V, x))
      BY <3>2, <3>3, FS_Subset
    <3>5. Cardinality(T) = n
      BY <1>2, <3>1
    <3>6. Cardinality(Above(V, x)) \in Nat
      BY <3>3, FS_CardinalityType
    <3> QED BY <3>4, <3>5, <3>6
  <2> QED BY <2>1, <2>2
<1> DEFINE u == Top(U, n)
           v == Top(V, n)
           m == Least(Cardinality(U), n)
<1>8. /\ m \in Nat /\ m <= n
      /\ \A k \in 1 .. m : u[k] \in U /\ Cardinality(Above(U, u[k])) = k - 1
  BY <1>5, TopIs
<1>9. \A k \in 1 .. m : v[k] \in V /\ Cardinality(Above(V, v[k])) = k - 1
  <2>1. \A k \in 1 .. Least(Cardinality(V), n) :
          v[k] \in V /\ Cardinality(Above(V, v[k])) = k - 1
    BY <1>5, TopIs
  <2> QED BY <1>6, <2>1
<1>10. /\ u = [k \in 1 .. m |-> u[k]]
       /\ v = [k \in 1 .. m |-> v[k]]
  BY <1>6 DEF Top
<1>12. \A x, y \in U : Cardinality(Above(U, x)) = Cardinality(Above(U, y)) => x = y
  BY <1>5, AboveIs
<1>13. \A x \in V : \/ x \in U /\ Above(U, x) = Above(V, x)
                    \/ Cardinality(Above(V, x)) >= n
  BY <1>7
<1> HIDE DEF u, v, m, U, V
<1>11. ASSUME NEW k \in 1 .. m PROVE u[k] = v[k]
  <2>1. v[k] \in V /\ Cardinality(Above(V, v[k])) = k - 1 /\ k - 1 < n /\ ~ (k - 1 >= n)
    BY <1>8, <1>9
  <2>2. v[k] \in U /\ Above(U, v[k]) = Above(V, v[k])
    BY <1>13, <2>1
  <2>3. u[k] \in U /\ Cardinality(Above(U, u[k])) = k - 1
    BY <1>8
  <2>4. Cardinality(Above(U, u[k])) = Cardinality(Above(U, v[k]))
    BY <2>1, <2>2, <2>3
  <2> QED BY <1>12, <2>2, <2>3, <2>4
<1> QED BY <1>10, <1>11 DEF u, v, U, V, T

\* The newest of a set, listed in any order.
LEMMA NewestOf ==
    ASSUME NEW S \in SUBSET Nat, IsFiniteSet(S), NEW n \in Nat
    PROVE  Newest(SetToSeq(S), n) = Top(S, n)
<1> DEFINE s == SetToSeq(S)
<1>1. s \in Seq(S) /\ ToSet(s) = S /\ \A i, j \in DOMAIN s : s[i] = s[j] => i = j
  BY ListOf
<1> HIDE DEF s
<1>2. s \in Seq(Nat)
  <2>1. \A i \in 1 .. Len(s) : s[i] \in S
    BY <1>1
  <2>2. \A x \in S : x \in Nat
    OBVIOUS
  <2>3. \A i \in 1 .. Len(s) : s[i] \in Nat
    BY <2>1, <2>2
  <2> QED BY <1>1, <2>3
<1> QED BY <1>1, <1>2, NewestIs DEF s

\* concatenate of lib/api/transactions.js: the newest of a set and others are the newest of
\* both.
LEMMA ConcatenateIs ==
    ASSUME NEW C \in SUBSET Nat, IsFiniteSet(C), NEW P \in SUBSET Nat, IsFiniteSet(P),
           C \cap P = {}, NEW n \in Nat
    PROVE  Concatenate(Top(C, n), SetToSeq(P), n) = Top(C \cup P, n)
<1> DEFINE s == Top(C, n)
           t == SetToSeq(P)
           u == s \o t
<1>1. /\ s \in Seq(C) /\ \A i, j \in DOMAIN s : i < j => s[i] > s[j]
  <2> DEFINE m == Least(Cardinality(C), n)
  <2>1. s \in Seq(C) /\ DOMAIN s = 1 .. m /\ \A i, j \in 1 .. m : i < j => s[i] > s[j]
    BY TopIs
  <2> HIDE DEF m, s
  <2> QED BY <2>1
<1>2. t \in Seq(P) /\ ToSet(t) = P /\ \A i, j \in DOMAIN t : t[i] = t[j] => i = j
  BY ListOf
<1> HIDE DEF s, t
<1>3. s \in Seq(Nat) /\ \A i \in DOMAIN s : s[i] \in C /\ s[i] \in Nat /\ i \in Nat
  <2>1. \A i \in 1 .. Len(s) : s[i] \in C
    BY <1>1
  <2>2. \A i \in 1 .. Len(s) : s[i] \in Nat
    BY <2>1
  <2> QED BY <1>1, <2>1, <2>2
<1>4. t \in Seq(Nat) /\ \A i \in DOMAIN t : t[i] \in P
  <2>1. \A i \in 1 .. Len(t) : t[i] \in P
    BY <1>2
  <2>2. \A i \in 1 .. Len(t) : t[i] \in Nat
    BY <2>1
  <2> QED BY <1>2, <2>1, <2>2
<1>5. \A i, j \in DOMAIN s : s[i] = s[j] => i = j
  BY <1>1, <1>3
<1>6. u \in Seq(Nat) /\ ToSet(u) = ToSet(s) \cup ToSet(t)
  BY <1>3, <1>4, TogetherIs DEF ToSet
<1>7. \A i, j \in DOMAIN u : u[i] = u[j] => i = j
  <2>1. /\ Len(u) = Len(s) + Len(t)
        /\ \A i \in 1 .. Len(s) + Len(t) :
             u[i] = IF i <= Len(s) THEN s[i] ELSE t[i - Len(s)]
    BY <1>3, <1>4, ConcatProperties
  <2>2. /\ DOMAIN s = 1 .. Len(s) /\ DOMAIN t = 1 .. Len(t) /\ Len(s) \in Nat /\ Len(t) \in Nat
        /\ DOMAIN u = 1 .. Len(s) + Len(t)
    BY <1>3, <1>4, <1>6, <2>1
  <2> HIDE DEF u
  <2> SUFFICES ASSUME NEW i \in DOMAIN u, NEW j \in DOMAIN u, u[i] = u[j] PROVE i = j
    OBVIOUS
  <2>3. /\ i \in Nat /\ (i <= Len(s) => i \in DOMAIN s /\ u[i] = s[i])
        /\ ~ (i <= Len(s)) => i - Len(s) \in DOMAIN t /\ u[i] = t[i - Len(s)]
    BY <2>1, <2>2
  <2>4. /\ j \in Nat /\ (j <= Len(s) => j \in DOMAIN s /\ u[j] = s[j])
        /\ ~ (j <= Len(s)) => j - Len(s) \in DOMAIN t /\ u[j] = t[j - Len(s)]
    BY <2>1, <2>2
  <2>5. CASE i <= Len(s) /\ j <= Len(s)
    BY <1>5, <2>3, <2>4, <2>5
  <2>6. CASE ~ (i <= Len(s)) /\ ~ (j <= Len(s))
    <3>1. i - Len(s) = j - Len(s)
      BY <1>2, <2>3, <2>4, <2>6
    <3> QED BY <2>2, <2>3, <2>4, <3>1
  <2>7. CASE (i <= Len(s)) # (j <= Len(s))
    <3>1. (u[i] \in C /\ u[j] \in P) \/ (u[i] \in P /\ u[j] \in C)
      BY <1>3, <1>4, <2>3, <2>4, <2>7
    <3> QED BY <3>1
  <2> QED BY <2>5, <2>6, <2>7
<1>8. Concatenate(s, t, n) = Top(ToSet(s) \cup P, n)
  BY <1>2, <1>6, <1>7, NewestIs DEF Concatenate
<1> QED BY <1>8, TopOfTop DEF s, t

\* One of the newest of a set is one of the newest of any part of it.
LEMMA TopOfPart ==
    ASSUME NEW V \in SUBSET Nat, IsFiniteSet(V), NEW S \in SUBSET V, NEW n \in Nat,
           NEW i \in DOMAIN Top(V, n), Top(V, n)[i] \in S
    PROVE  \E j \in DOMAIN Top(S, n) : Top(S, n)[j] = Top(V, n)[i]
<1>1. PICK x \in S : x = Top(V, n)[i]
  OBVIOUS
<1>2. /\ x \in V /\ Cardinality(Above(V, x)) < n /\ Cardinality(Above(V, x)) \in Nat
  <2> DEFINE v == Top(V, n)
             m == Least(Cardinality(V), n)
  <2>1. /\ m \in Nat /\ m <= n /\ DOMAIN v = 1 .. m
        /\ \A k \in 1 .. m : v[k] \in V /\ Cardinality(Above(V, v[k])) = k - 1
    BY TopIs
  <2>2. \A k \in 1 .. m : k - 1 < n /\ k - 1 \in Nat
    BY <2>1
  <2> HIDE DEF v, m
  <2>3. i \in 1 .. m /\ x = v[i]
    BY <1>1, <2>1 DEF v
  <2> QED BY <2>1, <2>2, <2>3
<1>3. IsFiniteSet(S) /\ S \in SUBSET Nat
  BY FS_Subset
<1>4. Cardinality(Above(S, x)) < n
  <2>1. Above(S, x) \subseteq Above(V, x) /\ IsFiniteSet(Above(V, x))
    BY FS_Subset DEF Above
  <2>2. Cardinality(Above(S, x)) <= Cardinality(Above(V, x)) /\ IsFiniteSet(Above(S, x))
    BY <2>1, FS_Subset
  <2>3. Cardinality(Above(S, x)) \in Nat
    BY <2>2, FS_CardinalityType
  <2> QED BY <1>2, <2>2, <2>3
<1>5. \E k \in DOMAIN Top(S, n) : Top(S, n)[k] = x
  <2> DEFINE s == Top(S, n)
             m == Least(Cardinality(S), n)
  <2>1. DOMAIN s = 1 .. m /\ \A y \in S : Cardinality(Above(S, y)) < n =>
                                \E k \in 1 .. m : k = Cardinality(Above(S, y)) + 1 /\ s[k] = y
    BY <1>3, TopIs
  <2> HIDE DEF s, m
  <2>2. \E k \in DOMAIN s : s[k] = x
    BY <1>4, <2>1
  <2> QED BY <2>2 DEF s
<1> QED BY <1>1, <1>5

-----------------------------------------------------------------------------
(* getLastTransactions of lib/api/transactions.js. *)

\* One call at a time; the list is that of the confirmed transactions of some moment of the
\* request while the pool is asked for, and in the end that of those and the pool.
Listed ==
    op = "getLastTransactions" =>
      /\ waiting \in {{}, {<<"main", "confirmed">>}, {<<"main", "pool">>}}
      /\ <<"main", "pool">> \in waiting =>
           \E C \in SUBSET chain : start.chain \subseteq C /\ got.list = Top(C, ListSize)
      /\ called = <<"success">> /\ faults = 0 =>
           \E C \in SUBSET chain :
             start.chain \subseteq C /\ got.list = Top(C \cup pool, ListSize)

\* The node's transactions are confirmed or not.
Store == chain \subseteq Tx /\ pool \subseteq Tx \ chain

\* The errors of the searches of a unified one are noted: it answers with success, once.
Noted == op \in Unifying => called \in {<<>>, <<"success">>}

ListInv == Store /\ Listed /\ Noted

\* The numbers of the transactions of the node.
LEMMA StoreIs ==
    ASSUME Store
    PROVE  /\ chain \in SUBSET Nat /\ IsFiniteSet(chain) /\ pool \in SUBSET Nat /\ IsFiniteSet(pool)
           /\ chain \cap pool = {} /\ ListSize \in Nat
<1>1. \A S \in SUBSET Tx : S \in SUBSET Nat /\ IsFiniteSet(S)
  BY ApiAssumption, FS_Subset
<1> QED BY <1>1, ApiAssumption DEF Store

\* The two calls of getLastTransactions.
LEMMA ListTable ==
    LET T == Operations["getLastTransactions"].flows["main"]
    IN  /\ "getLastTransactions" \in DOMAIN Operations \ (Chained \cup Checked \cup Searching)
        /\ T.first = {"confirmed"}
        /\ \A r \in Reply : T.calls["confirmed"][r] \in {Error, Ask({"pool"})}
        /\ \A r \in Reply : r \notin {"ok", "empty"} => T.calls["confirmed"][r] = Error
        /\ \A r \in Reply : T.calls["pool"][r] \in {Error, Done}
<1> DEFINE Rest == [getBlocks |-> Alone(Flow({"page"}, [page |-> StatisticsCall(0)]))]
           A == Overlay(AccountsOperation, Overlay(SearchOperation, Rest))
           U == TransactionsOperation(Vote)
           B == BlocksOperation(Forger)
<1>1. "getLastTransactions" \notin DOMAIN B
  BY DEF BlocksOperation
<1>2. "getLastTransactions" \in DOMAIN U /\ U["getLastTransactions"] = Alone(GetLastTransactions)
  BY DEF TransactionsOperation
<1>3. Operations = Overlay(B, Overlay(U, A))
  BY DEF Operations
<1> HIDE DEF A, U, B
<1>4. /\ "getLastTransactions" \in DOMAIN Operations
      /\ Operations["getLastTransactions"] = Alone(GetLastTransactions)
  BY <1>1, <1>2, <1>3 DEF Overlay
<1>5. "getLastTransactions" \notin Chained \cup Checked \cup Searching
  BY DEF Chained, Unifying, Checked, Searching, SearchOperation
<1>6. Operations["getLastTransactions"].flows["main"] = GetLastTransactions
  BY <1>4, AloneIs
<1>7. /\ GetLastTransactions.first = {"confirmed"}
      /\ GetLastTransactions.calls["confirmed"] = Lists(Ask({"pool"}))
      /\ GetLastTransactions.calls["pool"] =
           [Lists(Done) EXCEPT !["status"] = Done, !["fail"] = Done]
  BY DEF GetLastTransactions, Flow, PoolCall
<1>8. \A r \in Reply :
        [Lists(Done) EXCEPT !["status"] = Done, !["fail"] = Done][r] \in {Error, Done}
  BY ListsIs DEF Lists, Needs, Reply
<1> DEFINE T == Operations["getLastTransactions"].flows["main"]
<1>9. \A r \in Reply : /\ T.calls["confirmed"][r] \in {Error, Ask({"pool"})}
                       /\ r \notin {"ok", "empty"} => T.calls["confirmed"][r] = Error
                       /\ T.calls["pool"][r] \in {Error, Done}
  <2>1. T = GetLastTransactions
    BY <1>6
  <2>2. /\ T.calls["confirmed"] = Lists(Ask({"pool"}))
        /\ T.calls["pool"] = [Lists(Done) EXCEPT !["status"] = Done, !["fail"] = Done]
    BY <1>7, <2>1
  <2> HIDE DEF T
  <2>3. ASSUME NEW r \in Reply
        PROVE  /\ T.calls["confirmed"][r] \in {Error, Ask({"pool"})}
               /\ r \notin {"ok", "empty"} => T.calls["confirmed"][r] = Error
    BY <2>2, ListsIs
  <2>4. ASSUME NEW r \in Reply PROVE T.calls["pool"][r] \in {Error, Done}
    BY <1>8, <2>2
  <2> QED BY <2>3, <2>4
<1>10. T.first = {"confirmed"}
  BY <1>6, <1>7
<1> HIDE DEF T
<1> QED BY <1>4, <1>5, <1>9, <1>10 DEF T

\* The list is empty when the request begins.
LEMMA ListInit == Init => ListInv
<1> SUFFICES ASSUME Init PROVE ListInv
  OBVIOUS
<1>1. Store
  BY DEF Init, Store
<1>2. Listed
  <2> SUFFICES ASSUME op = "getLastTransactions" PROVE Listed
    BY DEF Listed
  <2>1. op \notin Checked /\ op \notin Chained /\ Operations[op].flows["main"].first = {"confirmed"}
    BY ListTable
  <2>2. Operations[op].begin = {"main"}
    BY <2>1, LoneFlows DEF Init
  <2>3. waiting = FirstCalls(op, "main") /\ called = <<>>
    <3>1. /\ waiting = UNION {FirstCalls(op, f) : f \in Operations[op].begin}
          /\ called = <<>>
      BY <2>1 DEF Init
    <3> QED BY <2>2, <3>1
  <2>4. waiting = {<<"main", "confirmed">>}
    BY <2>1, <2>3 DEF FirstCalls
  <2>5. <<"main", "pool">> \notin waiting /\ called # <<"success">>
    BY <2>3, <2>4, CallAfter
  <2> QED BY <2>4, <2>5 DEF Listed
<1>3. Noted
  <2>1. op \in Unifying => op \notin Checked
    BY DEF Unifying, Checked
  <2> QED BY <2>1, CallAfter DEF Init, Noted
<1> QED BY <1>1, <1>2, <1>3 DEF ListInv

\* The node takes or confirms a transaction.
LEMMA ListNode ==
    ASSUME ListInv,
           \/ \E t \in Tx : Submit(t)
           \/ \E confirmed \in SUBSET pool : Forge(confirmed)
           \/ UNCHANGED apiVars
    PROVE  ListInv'
<1>1. /\ UNCHANGED <<op, waiting, called, got, start, faults>> /\ chain \subseteq chain'
      /\ called = <<"success">> => UNCHANGED <<chain, pool>>
  BY CallAfter DEF Submit, Forge, apiVars, nodeVars, handlerVars
<1>2. Store'
  BY DEF Submit, Forge, apiVars, nodeVars, ListInv, Store
<1> QED BY <1>1, <1>2 DEF ListInv, Listed, Noted

\* One reply, of the confirmed transactions or of the pool.
LEMMA ListAnswer ==
    ASSUME CallsInv, ReadInv, Store, Listed, op = "getLastTransactions",
           NEW c \in waiting, NEW r \in Reply, Answer(c, r)
    PROVE  Listed'
<1> DEFINE T == Operations["getLastTransactions"].flows["main"]
<1>1. op \in DOMAIN Operations \ (Chained \cup Checked \cup Searching)
  BY ListTable
<1>2. waiting = {c} /\ (c = <<"main", "confirmed">> \/ c = <<"main", "pool">>)
  BY DEF Listed
<1>3. /\ Receive(c, r) /\ UNCHANGED <<op, chain, pool, start>> /\ got' = Read(c[2], r)
      /\ c[2] # "page" /\ Others(c) = {} /\ called # <<"success">>
  BY <1>1, <1>2, LoneAnswer DEF Receive, nodeVars, Others, CallsInv, AnsweredOnce
<1>4. Reaction(c, r) = T.calls[c[2]][r]
  BY <1>2, <1>3 DEF Reaction
<1> HIDE DEF T
<1>5. CASE called' = <<"success">>
  <2>1. waiting' = {} /\ Reaction(c, r) = Done
    <3>1. CallsInv'
      BY CallsStep DEF Next
    <3> QED BY <1>1, <1>3, <1>5, <3>1, LoneAnswer DEF CallsInv, AnsweredOnce
  <2>2. c = <<"main", "pool">>
    <3>1. c[2] = "confirmed" => Reaction(c, r) \in {Error, Ask({"pool"})}
      BY <1>4, ListTable DEF T
    <3>2. Done # Error /\ Done # Ask({"pool"})
      BY NoCalls DEF Done, Error, Ask
    <3> QED BY <1>2, <2>1, <3>1, <3>2
  <2>3. PICK C \in SUBSET chain : start.chain \subseteq C /\ got.list = Top(C, ListSize)
    BY <1>2, <2>2 DEF Listed
  <2>4. ASSUME faults' = 0 PROVE got'.list = Top(C \cup pool, ListSize)
    <3>1. r = "ok"
      <4>1. r \in Replies("pool")
        BY <1>3, <2>2, <2>4 DEF Receive, ReadInv, Grows
      <4> QED BY <1>1, <4>1 DEF Replies
    <3>2. got' = [got EXCEPT !.list = Concatenate(@, SetToSeq(pool), ListSize)]
      BY <1>3, <2>2, <3>1 DEF Read
    <3>3. C \in SUBSET Nat /\ IsFiniteSet(C) /\ C \cap pool = {}
      BY StoreIs, FS_Subset
    <3>4. Concatenate(Top(C, ListSize), SetToSeq(pool), ListSize) = Top(C \cup pool, ListSize)
      BY <3>3, StoreIs, ConcatenateIs
    <3>5. "list" \in DOMAIN got
      BY DEF ReadInv, Grows
    <3> QED BY <2>3, <3>2, <3>4, <3>5
  <2>5. op' = op /\ start' = start /\ chain' = chain /\ pool' = pool
    BY <1>3
  <2> QED BY <2>1, <2>3, <2>4, <2>5 DEF Listed
<1>6. CASE called' # <<"success">>
  <2>1. waiting' = {} \/ (Reaction(c, r).then = "ask" /\ waiting' \subseteq {"main"} \X Reaction(c, r).calls)
    <3>1. Operations[op].onError["main"] = "respond" /\ c[1] = "main"
      BY <1>1, <1>2, LoneFlows
    <3>2. CASE Continue(c, r)
      BY <1>3, <3>1, <3>2, <1>4, ListTable, NoCalls, <1>2 DEF Continue, T
    <3>3. CASE Succeed(c, r)
      BY <1>3, <3>3 DEF Succeed, Join
    <3>4. CASE Fail(c, r)
      BY <1>3, <3>1, <3>4 DEF Fail
    <3>5. CASE Throw(c, r) \/ Forget(c, r)
      BY <1>3, <3>5 DEF Throw, Forget
    <3> QED BY <3>2, <3>3, <3>4, <3>5 DEF Answer
  <2>2. CASE c = <<"main", "pool">>
    <3>1. Reaction(c, r).calls = {}
      BY <1>4, <2>2, ListTable, NoCalls DEF T
    <3>2. waiting' = {}
      BY <2>1, <3>1
    <3> QED BY <1>3, <1>6, <3>2 DEF Listed
  <2>3. CASE c = <<"main", "confirmed">>
    <3>1. Reaction(c, r) \in {Error, Ask({"pool"})}
      BY <1>4, <2>3, ListTable DEF T
    <3>2. waiting' = {} \/ (Reaction(c, r) = Ask({"pool"}) /\ waiting' \subseteq {<<"main", "pool">>})
      BY <2>1, <3>1, NoCalls
    <3>3. ASSUME waiting' # {} PROVE got'.list = Top(chain, ListSize)
      <4>1. r \in {"ok", "empty"}
        <5>1. Error # Ask({"pool"})
          BY NoCalls
        <5> QED BY <1>4, <2>3, <3>2, <3>3, <5>1, ListTable DEF T
      <4>2. r = "ok"
        <5>1. r \in Replies("confirmed")
          BY <1>3, <2>3, <4>1 DEF Receive, Faulty
        <5> QED BY <1>1, <5>1 DEF Replies
      <4>3. got' = [got EXCEPT !.list = Newest(SetToSeq(chain), ListSize)]
        BY <1>3, <2>3, <4>2 DEF Read
      <4>4. "list" \in DOMAIN got
        BY DEF ReadInv, Grows
      <4> QED BY <4>3, <4>4, StoreIs, NewestOf
    <3>4. start'.chain \subseteq chain' /\ chain' = chain
      BY <1>3 DEF ReadInv, Grows
    <3>5. waiting' = {} \/ waiting' = {<<"main", "pool">>}
      BY <3>2
    <3>6. \E C \in SUBSET chain' : start'.chain \subseteq C /\ (waiting' # {} => got'.list = Top(C, ListSize))
      BY <3>3, <3>4
    <3> QED BY <1>3, <1>6, <3>5, <3>6 DEF Listed
  <2> QED BY <1>2, <2>2, <2>3
<1> QED BY <1>5, <1>6

\* Every step keeps the list.
LEMMA ListStep == CallsInv /\ ReadInv /\ ListInv /\ [Next]_apiVars => ListInv'
<1> SUFFICES ASSUME CallsInv, ReadInv, ListInv, [Next]_apiVars PROVE ListInv'
  OBVIOUS
<1>1. ASSUME NEW c \in waiting, NEW r \in Reply, Answer(c, r) PROVE ListInv'
  <2>1. Receive(c, r)
    BY <1>1 DEF Answer, Continue, Succeed, Fail, Throw, Forget
  <2>2. UNCHANGED <<op, chain, pool>>
    BY <2>1 DEF Receive, nodeVars
  <2>3. Store'
    BY <2>2 DEF ListInv, Store
  <2>4. Listed'
    BY <1>1, <2>2, ListAnswer DEF ListInv, Listed
  <2>5. Noted'
    <3> SUFFICES ASSUME op \in Unifying PROVE called' \in {<<>>, <<"success">>}
      BY <2>2 DEF Noted
    <3>1. op \in Chained /\ called = <<>>
      BY DEF Chained, CallsInv, ChainedWaits
    <3>2. c[1] \in DOMAIN Flows
      BY <3>1 DEF CallsInv, ChainedWaits
    <3>3. Operations[op].onError[c[1]] = "note"
      BY <3>2, UnifyingFlows DEF Flows
    <3>4. UNCHANGED called \/ Respond("success")
      BY <1>1, <3>3 DEF Answer, Continue, Succeed, Fail, Throw, Forget, Join
    <3> QED BY <3>1, <3>4, CallAfter DEF Respond
  <2> QED BY <2>3, <2>4, <2>5 DEF ListInv
<1>2. CASE (\E t \in Tx : Submit(t)) \/ (\E confirmed \in SUBSET pool : Forge(confirmed))
           \/ UNCHANGED apiVars
  BY <1>2, ListNode
<1> QED BY <1>1, <1>2 DEF Next

\* The newest transactions: the list is read while transactions are sent and confirmed, and is
\* that of some moment of the request; a unified search answers with success.
THEOREM ListInvCorrect == ApiSpec => []ListInv
BY ListInit, ListStep, CallsCorrect, ReadCorrect, PTL DEF ApiSpec

\* getLastTransactions: each transaction once, the newest first, and all that were confirmed
\* when the request began and are still among the newest.
THEOREM ListedInOrderCorrect == ApiSpec => []ListedInOrder
<1>1. ListInv => ListedInOrder
  <2> SUFFICES ASSUME ListInv, op = "getLastTransactions", called = <<"success">>, faults = 0
               PROVE  ListedInOrder
    BY DEF ListedInOrder, Answered
  <2> DEFINE V == chain \cup pool
  <2>1. PICK C \in SUBSET chain : start.chain \subseteq C /\ got.list = Top(C \cup pool, ListSize)
    BY DEF ListInv, Listed
  <2> DEFINE S == C \cup pool
  <2>2. /\ V \in SUBSET Nat /\ IsFiniteSet(V) /\ ListSize \in Nat /\ S \in SUBSET V
        /\ S \in SUBSET Nat /\ IsFiniteSet(S)
    <3>1. /\ chain \in SUBSET Nat /\ IsFiniteSet(chain) /\ pool \in SUBSET Nat /\ IsFiniteSet(pool)
          /\ ListSize \in Nat
      BY StoreIs DEF ListInv
    <3>2. IsFiniteSet(V) /\ S \subseteq V
      BY <3>1, FS_Union
    <3>3. IsFiniteSet(S)
      BY <3>2, FS_Subset
    <3> QED BY <3>1, <3>2, <3>3
  <2> DEFINE newest == Newest(SetToSeq(V), ListSize)
             v == Top(V, ListSize)
             s == Top(S, ListSize)
  <2>3. newest = v /\ got.list = s
    BY <2>1, <2>2, NewestOf
  <2>4. start.chain = chain => s = v
    BY <2>1
  <2>5. \A i, j \in DOMAIN s : i < j => s[i] > s[j]
    <3> DEFINE m == Least(Cardinality(S), ListSize)
    <3>1. DOMAIN s = 1 .. m /\ \A i, j \in 1 .. m : i < j => s[i] > s[j]
      BY <2>2, TopIs
    <3> HIDE DEF s, m
    <3> QED BY <3>1
  <2>6. ASSUME NEW i \in DOMAIN v, v[i] \in start.chain
        PROVE  \E j \in DOMAIN s : s[j] = v[i]
    <3>1. v[i] \in S
      BY <2>1, <2>6
    <3> QED BY <2>2, <2>6, <3>1, TopOfPart
  <2> HIDE DEF v, s
  <2> QED BY <2>3, <2>4, <2>5, <2>6 DEF ListedInOrder
<1> QED BY <1>1, ListInvCorrect, PTL

-----------------------------------------------------------------------------
(* The unified search of lib/api/common.js. *)

\* Which items are the same: the delegate both searches find, and no others.
LEMMA SameIs ==
    /\ DOMAIN ResultsOf = 1 .. 7
    /\ \A i, j \in 1 .. 7 : Same(i, j) <=> i = j \/ (i \in {3, 4} /\ j \in {3, 4})
    /\ \A i \in 1 .. 7 : ItemAt(i).accuracy \in Nat
    /\ ItemAt(3) = ItemAt(4)
<1> DEFINE T(i, type, id, accuracy) ==
             ItemAt(i).type = type /\ ItemAt(i).id = id /\ ItemAt(i).accuracy = accuracy
<1>1. DOMAIN ResultsOf = 1 .. 7 /\ ItemAt(3) = ItemAt(4)
  BY DEF ResultsOf, ItemAt, Item
<1>2. T(1, "address", "account", 2)
  BY DEF ResultsOf, ItemAt, Item
<1>3. T(2, "address", "namesake", 1)
  BY DEF ResultsOf, ItemAt, Item
<1>4. T(3, "address", "delegate", 2)
  BY DEF ResultsOf, ItemAt, Item
<1>5. T(4, "address", "delegate", 2)
  BY DEF ResultsOf, ItemAt, Item
<1>6. T(5, "block", "block of that height", 2)
  BY DEF ResultsOf, ItemAt, Item
<1>7. T(6, "tx", "tx", 2)
  BY DEF ResultsOf, ItemAt, Item
<1>8. T(7, "block", "block", 2)
  BY DEF ResultsOf, ItemAt, Item
<1>9. \A i \in 1 .. 7 : i = 1 \/ i = 2 \/ i = 3 \/ i = 4 \/ i = 5 \/ i = 6 \/ i = 7
  OBVIOUS
<1>10. ASSUME NEW i \in 1 .. 7 PROVE ItemAt(i).accuracy \in Nat
  <2>1. ItemAt(i).accuracy = 1 \/ ItemAt(i).accuracy = 2
    BY <1>2, <1>3, <1>4, <1>5, <1>6, <1>7, <1>8, <1>9
  <2> QED BY <2>1
<1>11. ASSUME NEW i \in 1 .. 7, NEW j \in 1 .. 7
       PROVE  Same(i, j) <=> i = j \/ (i \in {3, 4} /\ j \in {3, 4})
  <2>1. CASE i = 1
    BY <1>2, <1>3, <1>4, <1>5, <1>6, <1>7, <1>8, <1>9, <2>1 DEF Same
  <2>2. CASE i = 2
    BY <1>2, <1>3, <1>4, <1>5, <1>6, <1>7, <1>8, <1>9, <2>2 DEF Same
  <2>3. CASE i = 3
    BY <1>2, <1>3, <1>4, <1>5, <1>6, <1>7, <1>8, <1>9, <2>3 DEF Same
  <2>4. CASE i = 4
    BY <1>2, <1>3, <1>4, <1>5, <1>6, <1>7, <1>8, <1>9, <2>4 DEF Same
  <2>5. CASE i = 5
    BY <1>2, <1>3, <1>4, <1>5, <1>6, <1>7, <1>8, <1>9, <2>5 DEF Same
  <2>6. CASE i = 6
    BY <1>2, <1>3, <1>4, <1>5, <1>6, <1>7, <1>8, <1>9, <2>6 DEF Same
  <2>7. CASE i = 7
    BY <1>2, <1>3, <1>4, <1>5, <1>6, <1>7, <1>8, <1>9, <2>7 DEF Same
  <2> QED BY <1>9, <2>1, <2>2, <2>3, <2>4, <2>5, <2>6, <2>7
<1> QED BY <1>1, <1>10, <1>11

\* What removeDuplicates keeps: one of the same items, and all that is found.
LEMMA KeptIs ==
    ASSUME NEW places \in SUBSET (1 .. 7)
    PROVE  LET kept == RemoveDuplicates(places)
           IN  /\ IsFiniteSet(kept)
               /\ \A p \in kept : p \in places \X places /\ Same(p[1], p[2])
               /\ \A p, q \in kept : Same(p[2], q[2]) => p = q
               /\ \A p, q \in kept : p[1] = q[1] => p = q
               /\ \A i \in places : \E p \in kept : ItemAt(p[2]) = ItemAt(i)
<1> DEFINE kept == RemoveDuplicates(places)
<1>1. \A p : p \in kept <=> /\ p \in places \X places /\ Same(p[1], p[2])
                            /\ \A i \in places : Same(i, p[2]) => p[1] <= i /\ i <= p[2]
  BY DEF RemoveDuplicates
<1>2. IsFiniteSet(kept)
  <2>1. IsFiniteSet(places)
    <3>1. PICK l \in Nat : l = 7
      OBVIOUS
    <3>2. IsFiniteSet(1 .. l)
      BY FS_Interval
    <3> QED BY <3>1, <3>2, FS_Subset
  <2>2. IsFiniteSet(places \X places)
    BY <2>1, FS_Product
  <2> QED BY <1>1, <2>2, FS_Subset
<1> HIDE DEF kept
<1>3. \A i, j, k \in places : Same(i, i) /\ (Same(i, j) => Same(j, i))
                              /\ (Same(i, j) /\ Same(j, k) => Same(i, k))
  BY SameIs
<1>4. \A i \in places : i \in Nat
  OBVIOUS
<1>5. ASSUME NEW p \in kept, NEW q \in kept, Same(p[2], q[2]) PROVE p = q
  <2>1. /\ p[1] \in places /\ p[2] \in places /\ q[1] \in places /\ q[2] \in places
        /\ p = <<p[1], p[2]>> /\ q = <<q[1], q[2]>> /\ Same(p[1], p[2]) /\ Same(q[1], q[2])
    BY <1>1
  <2>2. Same(p[1], q[2]) /\ Same(q[1], p[2]) /\ Same(q[2], p[2])
    BY <1>3, <1>5, <2>1
  <2>3. p[1] <= q[1] /\ q[1] <= p[1] /\ p[2] <= q[2] /\ q[2] <= p[2]
    BY <1>1, <1>5, <2>1, <2>2
  <2>4. p[1] = q[1] /\ p[2] = q[2]
    BY <1>4, <2>1, <2>3
  <2> QED BY <2>1, <2>4
<1>6. ASSUME NEW p \in kept, NEW q \in kept, p[1] = q[1] PROVE p = q
  <2>1. /\ p[1] \in places /\ p[2] \in places /\ q[2] \in places
        /\ Same(p[1], p[2]) /\ Same(p[1], q[2])
    BY <1>1, <1>6
  <2>2. Same(p[2], p[1])
    BY <1>3, <2>1
  <2>3. Same(p[2], q[2])
    BY <1>3, <2>1, <2>2
  <2> QED BY <1>5, <2>3
<1>7. ASSUME NEW i \in places PROVE \E p \in kept : ItemAt(p[2]) = ItemAt(i)
  <2>1. CASE i \notin {3, 4}
    <3>1. <<i, i>> \in kept
      BY <1>1, <1>4, <2>1, SameIs
    <3> QED BY <3>1
  <2>2. CASE i \in {3, 4}
    <3>1. CASE 3 \in places /\ 4 \in places
      <4>1. <<3, 4>> \in kept
        BY <1>1, <3>1, SameIs
      <4> QED BY <2>2, <4>1, SameIs
    <3>2. CASE 3 \notin places \/ 4 \notin places
      <4>1. <<i, i>> \in kept
        BY <1>1, <1>4, <2>2, <3>2, SameIs
      <4> QED BY <4>1
    <3> QED BY <3>1, <3>2
  <2> QED BY <2>1, <2>2
<1>8. \A p \in kept : p \in places \X places /\ Same(p[1], p[2])
  BY <1>1
<1> QED BY <1>2, <1>5, <1>6, <1>7, <1>8 DEF kept

\* The answer of a unified search: best first, no item twice, and all that was found.
LEMMA ResultsAre ==
    ASSUME NEW F
    PROVE  LET results == UnifiedResults(F)
           IN  /\ \A i, j \in DOMAIN results : i < j =>
                    /\ results[i].accuracy >= results[j].accuracy
                    /\ <<results[i].type, results[i].id>> # <<results[j].type, results[j].id>>
               /\ \A k \in DOMAIN ResultsOf : ResultsOf[k].search \in F =>
                    \E i \in DOMAIN results : results[i] = ItemAt(k)
<1> DEFINE places == {i \in DOMAIN ResultsOf : ResultsOf[i].search \in F}
           kept == RemoveDuplicates(places)
           accuracy(p) == ItemAt(p[2]).accuracy
           R == {e \in kept \X kept : \/ accuracy(e[1]) > accuracy(e[2])
                                      \/ accuracy(e[1]) = accuracy(e[2]) /\ e[1][1] < e[2][1]}
           s == Arranged(kept, R)
           results == UnifiedResults(F)
<1>1. places \in SUBSET (1 .. 7)
  BY SameIs
<1>2. results = [k \in DOMAIN s |-> ItemAt(s[k][2])]
  BY DEF UnifiedResults
<1>3. \A p, q \in kept :
        <<p, q>> \in R <=> accuracy(p) > accuracy(q) \/ (accuracy(p) = accuracy(q) /\ p[1] < q[1])
  OBVIOUS
<1> HIDE DEF R, results, places
<1>4. /\ IsFiniteSet(kept)
      /\ \A p \in kept : p \in places \X places
      /\ \A p, q \in kept : Same(p[2], q[2]) => p = q
      /\ \A p, q \in kept : p[1] = q[1] => p = q
      /\ \A i \in places : \E p \in kept : ItemAt(p[2]) = ItemAt(i)
  BY <1>1, KeptIs
<1> HIDE DEF kept
<1>5. \A p \in kept : p[1] \in Nat /\ accuracy(p) \in Nat
  <2>1. ASSUME NEW p \in kept PROVE p[1] \in 1 .. 7 /\ p[2] \in 1 .. 7
    BY <1>1, <1>4
  <2> QED BY <2>1, SameIs
<1> HIDE DEF accuracy
<1>6. TotalOrder(kept, R)
  <2>1. \A p, q \in kept : p # q => p[1] # q[1]
    BY <1>4
  <2>2. \A p \in kept : <<p, p>> \notin R
    BY <1>3, <1>5
  <2>3. \A p, q \in kept : p # q => <<p, q>> \in R \/ <<q, p>> \in R
    BY <1>3, <1>5, <2>1
  <2>4. \A p, q, o \in kept : <<p, q>> \in R /\ <<q, o>> \in R => <<p, o>> \in R
    BY <1>3, <1>5
  <2> QED BY <2>2, <2>3, <2>4 DEF TotalOrder
<1>7. /\ DOMAIN s = 1 .. Cardinality(kept)
      /\ \A k \in DOMAIN s : s[k] \in kept
      /\ \A x \in kept : \E k \in DOMAIN s : s[k] = x
      /\ \A i, j \in DOMAIN s : i < j => <<s[i], s[j]>> \in R
  <2>1. IsFiniteSet(kept)
    BY <1>4
  <2>2. /\ DOMAIN s = 1 .. Cardinality(kept) /\ Cardinality(kept) \in Nat
        /\ \A k \in 1 .. Cardinality(kept) :
             s[k] \in kept /\ Cardinality(Before(kept, R, s[k])) = k - 1
        /\ \A x \in kept : /\ Cardinality(Before(kept, R, x)) \in 0 .. Cardinality(kept) - 1
                            /\ \E k \in 1 .. Cardinality(kept) :
                                 k = Cardinality(Before(kept, R, x)) + 1 /\ s[k] = x
        /\ \A i, j \in 1 .. Cardinality(kept) : i < j => <<s[i], s[j]>> \in R
    BY <2>1, <1>6, ArrangedIs
  <2> HIDE DEF s
  <2>3. \A x \in kept : \E k \in DOMAIN s : s[k] = x
    BY <2>2
  <2> QED BY <2>2, <2>3
<1> HIDE DEF s
<1>8. ASSUME NEW i \in DOMAIN results, NEW j \in DOMAIN results, i < j
      PROVE  /\ results[i].accuracy >= results[j].accuracy
             /\ <<results[i].type, results[i].id>> # <<results[j].type, results[j].id>>
  <2>1. /\ s[i] \in kept /\ s[j] \in kept /\ <<s[i], s[j]>> \in R /\ <<s[i], s[i]>> \notin R
        /\ results[i] = ItemAt(s[i][2]) /\ results[j] = ItemAt(s[j][2])
    BY <1>2, <1>6, <1>7, <1>8 DEF TotalOrder
  <2>2. accuracy(s[i]) >= accuracy(s[j])
    BY <1>3, <1>5, <2>1
  <2>3. ~ Same(s[i][2], s[j][2])
    BY <1>4, <2>1
  <2> QED BY <2>1, <2>2, <2>3 DEF Same, accuracy
<1>9. ASSUME NEW k \in DOMAIN ResultsOf, ResultsOf[k].search \in F
      PROVE  \E i \in DOMAIN results : results[i] = ItemAt(k)
  <2>1. PICK p \in kept : ItemAt(p[2]) = ItemAt(k)
    BY <1>4, <1>9 DEF places
  <2>2. PICK i \in DOMAIN s : s[i] = p
    BY <1>7
  <2> QED BY <1>2, <2>1, <2>2
<1> QED BY <1>8, <1>9 DEF results

\* unifiedSearch of lib/api/common.js: it answers with success, and what its searches have
\* found is in the answer, best first, and once.
THEOREM ResultsJoinedCorrect == ApiSpec => []ResultsJoined
<1>1. CallsInv /\ ListInv => ResultsJoined
  <2> SUFFICES ASSUME CallsInv, ListInv, op \in Unifying, called # <<>> PROVE ResultsJoined
    BY DEF ResultsJoined
  <2>1. called = <<"success">>
    BY DEF ListInv, Noted
  <2> QED BY <2>1, ResultsAre DEF ResultsJoined
<1> QED BY <1>1, CallsCorrect, ListInvCorrect, PTL

\* What the handlers answer is true of the chain, which grows while they read it.
THEOREM AnswersCorrect == ApiSpec => []AnswersTrue
BY ConfirmedFoundCorrect, ConfirmationsCorrect, ListedInOrderCorrect, MoreCorrect,
   NoBlockSkippedCorrect, ResultsJoinedCorrect, PTL DEF AnswersTrue

-----------------------------------------------------------------------------
(* The type invariant: the calls under way are calls of the flow they belong to, whatever *)
(* the handler.                                                                           *)

\* A flow all of whose calls are listed, the first ones too.
Good(flow) == flow.first \subseteq DOMAIN flow.calls /\ Closed(flow)

\* A flow with one call at a time is one.
LEMMA SequentialGood == ASSUME NEW flow, Sequential(flow) PROVE Good(flow)
<1>1. flow.first \subseteq DOMAIN flow.calls
  BY DEF Sequential
<1>2. Closed(flow)
  <2> SUFFICES ASSUME NEW call \in DOMAIN flow.calls, NEW r \in Reply
               PROVE  flow.calls[call][r].calls \subseteq DOMAIN flow.calls
    BY DEF Closed
  <2> QED BY DEF Sequential
<1> QED BY <1>1, <1>2 DEF Good

\* What the callbacks of the node's lists and counts ask for.
LEMMA CallbackCalls ==
    ASSUME NEW next, NEW r \in Reply
    PROVE  /\ Lists(next)[r].calls \in {{}, next.calls}
           /\ Needs(next)[r].calls \in {{}, next.calls}
           /\ Always(next)[r].calls = next.calls
           /\ CountCall(next)[r].calls \in {{}, next.calls}
           /\ ParseLiskAddress(next)[r].calls \in {{}, next.calls}
BY NoCalls DEF Lists, Needs, Always, CountCall, ParseLiskAddress, Reply

\* The flows of lib/api/blocks.js.
LEMMA GoodBlocks == Good(GetLastBlocks(Forger)) /\ Good(GetBlock) /\ Good(GetHeight) /\ Good(GetBlockStatus)
<1>1. Good(GetLastBlocks(Forger))
  BY BlockCalls DEF Good
<1>2. Good(GetBlock) /\ Good(GetHeight)
  BY SequentialGetBlock, SequentialGetHeight, SequentialGood
<1>3. Good(GetBlockStatus)
  <2> DEFINE C == GetBlockStatus.calls
  <2>1. /\ DOMAIN C = {"status", "constants"} /\ GetBlockStatus.first = {"status", "constants"}
        /\ C["status"] = Needs(Done) /\ C["constants"] = Needs(Done)
    BY DEF GetBlockStatus, Flow
  <2> HIDE DEF C
  <2>2. \A r \in Reply : Needs(Done)[r].calls = {}
    BY NoCalls, CallbackCalls
  <2>3. \A call \in DOMAIN C, r \in Reply : C[call][r].calls = {}
    BY <2>1, <2>2
  <2> QED BY <2>1, <2>3 DEF Good, Closed, C
<1> QED BY <1>1, <1>2, <1>3

\* The flows of lib/api/transactions.js.
LEMMA GoodTransactions ==
    /\ Good(GetTransaction({})) /\ Good(GetTransaction(Vote))
    /\ Good(GetUnconfirmedTransactions) /\ Good(GetLastTransactions)
    /\ Good(GetTransactions) /\ Good(GetTransactionsByBlock)
<1>1. ASSUME NEW V, V = {} \/ V = Vote PROVE Good(GetTransaction(V))
  BY <1>1, TransactionCalls DEF Good
<1>2. \A given \in BOOLEAN, r \in Reply : PoolCall(given)[r].calls = {}
  BY NoCalls DEF PoolCall, Lists, Needs, Reply
<1>3. Good(GetUnconfirmedTransactions)
  <2> DEFINE C == GetUnconfirmedTransactions.calls
  <2>1. /\ DOMAIN C = {"pool"} /\ GetUnconfirmedTransactions.first = {"pool"}
        /\ C["pool"] = PoolCall(FALSE)
    BY DEF GetUnconfirmedTransactions, Flow
  <2>2. \A r \in Reply : C["pool"][r].calls = {}
    BY <1>2, <2>1
  <2> HIDE DEF C
  <2> QED BY <2>1, <2>2 DEF Good, Closed, C
<1>4. Good(GetLastTransactions)
  <2> DEFINE C == GetLastTransactions.calls
  <2>1. /\ DOMAIN C = {"confirmed", "pool"} /\ GetLastTransactions.first = {"confirmed"}
        /\ C["confirmed"] = Lists(Ask({"pool"})) /\ C["pool"] = PoolCall(TRUE)
    BY DEF GetLastTransactions, Flow
  <2>2. \A r \in Reply : C["pool"][r].calls = {}
    BY <1>2, <2>1
  <2> HIDE DEF C
  <2>3. \A r \in Reply : C["confirmed"][r].calls \in {{}, {"pool"}}
    BY <2>1, NoCalls, CallbackCalls
  <2>4. \A call \in {"confirmed", "pool"}, r \in Reply : C[call][r].calls \in {{}, {"pool"}}
    BY <2>2, <2>3
  <2>5. \A call \in {"confirmed", "pool"}, r \in Reply :
          C[call][r].calls \subseteq {"confirmed", "pool"}
    BY <2>4
  <2> QED BY <2>1, <2>5 DEF Good, Closed, C
<1>5. Good(GetTransactions)
  <2> DEFINE C == GetTransactions.calls
  <2>1. /\ DOMAIN C = {"sender", "recipient", "list"} /\ GetTransactions.first = {"sender"}
        /\ C["sender"] = ParseLiskAddress(Ask({"recipient"}))
        /\ C["recipient"] = ParseLiskAddress(Ask({"list"})) /\ C["list"] = Lists(Done)
    BY DEF GetTransactions, GetTransactionsCall, Flow
  <2> HIDE DEF C
  <2>2. \A r \in Reply : /\ C["sender"][r].calls \in {{}, {"recipient"}}
                         /\ C["recipient"][r].calls \in {{}, {"list"}}
                         /\ C["list"][r].calls = {}
    BY <2>1, NoCalls, CallbackCalls
  <2> QED BY <2>1, <2>2 DEF Good, Closed, C
<1>6. Good(GetTransactionsByBlock)
  <2> DEFINE C == GetTransactionsByBlock.calls
  <2>1. /\ DOMAIN C = {"list"} /\ GetTransactionsByBlock.first = {"list"}
        /\ C["list"] = Lists(Done)
    BY DEF GetTransactionsByBlock, Flow
  <2> HIDE DEF C
  <2>2. \A r \in Reply : C["list"][r].calls = {}
    BY <2>1, NoCalls, CallbackCalls
  <2> QED BY <2>1, <2>2 DEF Good, Closed, C
<1>7. Good(GetTransaction({})) /\ Good(GetTransaction(Vote))
  BY <1>1
<1> QED BY <1>3, <1>4, <1>5, <1>6, <1>7

\* An account of a delegate or of anybody else.
LEMMA GoodAccount == ASSUME NEW isDelegate \in BOOLEAN PROVE Good(GetAccount(isDelegate))
<1> DEFINE T == GetAccount(isDelegate).calls
           then == IF isDelegate THEN "forged" ELSE "incoming"
<1>1. /\ DOMAIN T = {"account", "groups", "memberships", "forged", "incoming", "outgoing",
                     "noGroups", "noMemberships", "lostGroups", "lostMemberships"}
      /\ GetAccount(isDelegate).first = {"account"}
      /\ T["account"] = AccountCall(Ask({"groups"}))
      /\ T["groups"] = GetMultisignaturesGroups(Ask({"memberships"}))
      /\ T["memberships"] = GetMultisignaturesMemberships(Ask({then}))
      /\ T["forged"] = CountCall(Ask({"incoming"}))
      /\ T["incoming"] = CountCall(Ask({"outgoing"}))
      /\ T["outgoing"] = CountCall(Done)
      /\ T["noGroups"] = GetMultisignaturesGroups(Ask({"noMemberships"}))
      /\ T["noMemberships"] = GetMultisignaturesMemberships(Done)
      /\ T["lostGroups"] = Always(Crash)
      /\ T["lostMemberships"] = Always(Crash)
  BY DEF GetAccount, Flow
<1>2. then \in {"forged", "incoming"}
  OBVIOUS
<1> HIDE DEF T, then
<1>3. ASSUME NEW next, NEW r \in Reply
      PROVE  /\ GetMultisignaturesGroups(next)[r].calls \in {{}, next.calls, {"lostMemberships"}}
             /\ GetMultisignaturesMemberships(next)[r].calls \in {{}, next.calls}
             /\ AccountCall(next)[r].calls \in {{}, next.calls, {"noGroups"}, {"lostGroups"}}
  BY NoCalls DEF GetMultisignaturesGroups, GetMultisignaturesMemberships, AccountCall,
                 WithoutResult, Lists, Needs, Reply
<1>4. ASSUME NEW r \in Reply
      PROVE  /\ T["account"][r].calls \in {{}, {"groups"}, {"noGroups"}, {"lostGroups"}}
             /\ T["groups"][r].calls \in {{}, {"memberships"}, {"lostMemberships"}}
             /\ T["noGroups"][r].calls \in {{}, {"noMemberships"}, {"lostMemberships"}}
             /\ T["memberships"][r].calls \in {{}, {then}}
             /\ T["noMemberships"][r].calls = {}
  <2>1. /\ Ask({"groups"}).calls = {"groups"} /\ Ask({"memberships"}).calls = {"memberships"}
        /\ Ask({"noMemberships"}).calls = {"noMemberships"} /\ Ask({then}).calls = {then}
        /\ Done.calls = {}
    BY NoCalls
  <2>2. T["account"][r].calls \in {{}, {"groups"}, {"noGroups"}, {"lostGroups"}}
    BY <1>1, <1>3, <2>1
  <2>3. /\ T["groups"][r].calls \in {{}, {"memberships"}, {"lostMemberships"}}
        /\ T["noGroups"][r].calls \in {{}, {"noMemberships"}, {"lostMemberships"}}
    BY <1>1, <1>3, <2>1
  <2>4. T["noMemberships"][r].calls = {}
    <3>1. GetMultisignaturesMemberships(Done)[r].calls \in {{}, Done.calls}
      BY <1>3
    <3> QED BY <1>1, <2>1, <3>1
  <2>5. T["memberships"][r].calls \in {{}, {then}}
    <3>1. GetMultisignaturesMemberships(Ask({then}))[r].calls \in {{}, Ask({then}).calls}
      BY <1>3
    <3> QED BY <1>1, <2>1, <3>1
  <2> QED BY <2>2, <2>3, <2>4, <2>5
<1>5. ASSUME NEW r \in Reply
      PROVE  /\ T["forged"][r].calls \in {{}, {"incoming"}}
             /\ T["incoming"][r].calls \in {{}, {"outgoing"}}
             /\ T["outgoing"][r].calls = {}
             /\ T["lostGroups"][r].calls = {} /\ T["lostMemberships"][r].calls = {}
  BY <1>1, CallbackCalls, NoCalls
<1>6. ASSUME NEW call \in DOMAIN T, NEW r \in Reply PROVE T[call][r].calls \subseteq DOMAIN T
  <2>1. CASE call \in {"account", "groups", "noGroups"}
    BY <1>1, <1>4, <2>1
  <2>3. CASE call \in {"memberships", "noMemberships"}
    <3>1. \A x \in T[call][r].calls : x = then
      BY <1>4, <2>3
    <3> QED BY <1>1, <1>2, <3>1
  <2>2. CASE call \in {"forged", "incoming", "outgoing", "lostGroups", "lostMemberships"}
    BY <1>1, <1>5, <2>2
  <2> QED BY <1>1, <2>1, <2>2, <2>3
<1> QED BY <1>1, <1>6 DEF Good, Closed, T

\* The other flows of lib/api/accounts.js.
LEMMA GoodAccounts == Good(GetVotes) /\ Good(GetVoters) /\ Good(GetTopAccounts)
<1> DEFINE V == GetVotes.calls
           W == GetVoters.calls
           A == GetTopAccounts.calls
<1>1. /\ DOMAIN V = {"votes"} /\ GetVotes.first = {"votes"} /\ V["votes"] = CountCall(Done)
      /\ DOMAIN W = {"voters"} /\ GetVoters.first = {"voters"}
      /\ W["voters"] = [Lists(Done) EXCEPT !["odd"] = Crash]
      /\ DOMAIN A = {"accounts"} /\ GetTopAccounts.first = {"accounts"}
      /\ A["accounts"] = Lists(Done)
  BY DEF GetVotes, GetVoters, GetTopAccounts, Flow
<1> HIDE DEF V, W, A
<1>2. \A r \in Reply : W["voters"][r].calls = {}
  BY <1>1, NoCalls DEF Lists, Needs, Reply
<1>3. \A r \in Reply : V["votes"][r].calls = {} /\ A["accounts"][r].calls = {}
  BY <1>1, NoCalls, CallbackCalls
<1> QED BY <1>1, <1>2, <1>3 DEF Good, Closed, V, W, A

\* The flow of every handler that has one.
LEMMA GoodTable ==
    \A o \in DOMAIN Operations \ Chained : Good(Operations[o].flows["main"])
<1> DEFINE Fine(o) == \E flow : o = Alone(flow) /\ Good(flow)
<1>1. \A o \in DOMAIN BlocksOperation(Forger) : Fine(BlocksOperation(Forger)[o])
  BY GoodBlocks DEF BlocksOperation
<1>2. \A o \in DOMAIN TransactionsOperation(Vote) : Fine(TransactionsOperation(Vote)[o])
  BY GoodTransactions DEF TransactionsOperation
<1>3. \A o \in DOMAIN AccountsOperation : Fine(AccountsOperation[o])
  <2> DEFINE anybody == GetAccount(FALSE)
             delegate == GetAccount(TRUE)
  <2>1. AccountsOperation =
          [getAccount |-> Alone(anybody), getDelegateAccount |-> Alone(delegate),
           getVotes |-> Alone(GetVotes), getVoters |-> Alone(GetVoters),
           getTopAccounts |-> Alone(GetTopAccounts)]
    BY DEF AccountsOperation
  <2>2. Good(anybody) /\ Good(delegate)
    BY GoodAccount
  <2> HIDE DEF anybody, delegate
  <2> QED BY <2>1, <2>2, GoodAccounts
<1>4. \A o \in DOMAIN SearchOperation \ Chained : Fine(SearchOperation[o])
  <2>1. Good(FoundAccount) /\ Good(GetSearch)
    BY SequentialFoundAccount, SequentialGetSearch, SequentialGood
  <2> QED BY <2>1 DEF SearchOperation, Chained, Unifying, SearchAccount, SearchDelegates
<1> DEFINE Page == Flow({"page"}, [page |-> StatisticsCall(0)])
           Rest == [getBlocks |-> Alone(Page)]
<1>5. \A o \in DOMAIN Rest : Fine(Rest[o])
  <2>1. /\ DOMAIN Page.calls = {"page"} /\ Page.first = {"page"}
        /\ Page.calls["page"] = StatisticsCall(0)
    BY DEF Flow
  <2> HIDE DEF Page
  <2>2. \A r \in Reply : StatisticsCall(0)[r].calls \subseteq {"page"}
    BY NoCalls DEF StatisticsCall, Always, Reply
  <2>3. Good(Page)
    BY <2>1, <2>2 DEF Good, Closed
  <2> QED BY <2>3
<1>6. Operations = Overlay(BlocksOperation(Forger), Overlay(TransactionsOperation(Vote),
                     Overlay(AccountsOperation, Overlay(SearchOperation, Rest))))
  BY DEF Operations
<1> HIDE DEF Rest, Fine
<1>7. \A o \in DOMAIN Operations \ Chained : Fine(Operations[o])
  BY <1>1, <1>2, <1>3, <1>4, <1>5, <1>6 DEF Overlay
<1> QED BY <1>7, AloneIs DEF Fine

\* The calls of the handlers of one flow; those of the searches are in ChainedWaits.
LoneCalls ==
    op \notin Chained => \A c \in waiting : c[2] \in DOMAIN Flows["main"].calls

Listable == (1 .. MaxHeight) \cup Tx

\* What is read, and what has become of the request.
ReadType ==
    /\ got.height \in 0 .. MaxHeight /\ got.offset \in Nat /\ got.list \in Seq(Listable)
    /\ faults \in 0 .. MaxReplyFaults
    /\ closed \subseteq DOMAIN Flows /\ found \subseteq closed
    /\ called \in Seq({"success", "error"}) /\ Len(called) <= 2
    /\ alive \in BOOLEAN

TypeInv == LoneCalls /\ ReadType

\* What is listed are numbers.
LEMMA ListableIs == Listable \in SUBSET Nat /\ \A x \in Listable : x \in Nat
<1>1. Tx \subseteq Nat /\ MaxHeight \in Nat
  BY ApiAssumption
<1> QED BY <1>1 DEF Listable

\* The invariant holds when the request begins.
LEMMA TypeInit == Init => TypeInv
<1> SUFFICES ASSUME Init PROVE TypeInv
  OBVIOUS
<1>1. LoneCalls
  <2> SUFFICES ASSUME op \notin Chained, NEW c \in waiting PROVE c[2] \in DOMAIN Flows["main"].calls
    BY DEF LoneCalls
  <2>1. op \in DOMAIN Operations /\ Operations[op].begin = {"main"}
    BY LoneFlows DEF Init
  <2>2. waiting = FirstCalls(op, "main")
    BY <2>1 DEF Init
  <2>3. c[2] \in Operations[op].flows["main"].first
    BY <2>2 DEF FirstCalls
  <2> QED BY <2>1, <2>3, GoodTable DEF Good, Flows
<1>2. ReadType
  <2>1. called \in Seq({"success", "error"}) /\ Len(called) <= 2
    <3>1. <<>> \in Seq({"success", "error"}) /\ <<"error">> \in Seq({"success", "error"})
      OBVIOUS
    <3>2. Len(<<>>) = 0 /\ Len(<<"error">>) = 1
      OBVIOUS
    <3>3. called = <<>> \/ called = <<"error">>
      BY DEF Init
    <3>4. CASE called = <<>>
      BY <3>1, <3>2, <3>4
    <3>5. CASE called = <<"error">>
      BY <3>1, <3>2, <3>5
    <3> QED BY <3>3, <3>4, <3>5
  <2>2. got.height \in 0 .. MaxHeight /\ got.offset \in Nat /\ got.list \in Seq(Listable)
    BY ApiAssumption DEF Init
  <2> QED BY <2>1, <2>2, ApiAssumption DEF Init, ReadType
<1> QED BY <1>1, <1>2 DEF TypeInv

\* A page of blocks is made of blocks of the chain.
LEMMA PageType ==
    ASSUME NEW h \in 1 .. MaxHeight, NEW o \in Nat
    PROVE  BlocksPage(h, o, PageSize) \in Seq(Listable)
<1> DEFINE n == IF h - o < 0 THEN 0 ELSE IF h - o < PageSize THEN h - o ELSE PageSize
<1>1. PageSize \in Nat /\ MaxHeight \in Nat /\ h \in Nat /\ h <= MaxHeight
  BY ApiAssumption
<1>2. n \in Nat /\ (n = 0 \/ n <= h - o)
  BY <1>1
<1>3. BlocksPage(h, o, PageSize) = [i \in 1 .. n |-> h - o - i + 1]
  BY DEF BlocksPage
<1> HIDE DEF n
<1>4. \A i \in 1 .. n : h - o - i + 1 \in 1 .. MaxHeight
  BY <1>1, <1>2
<1> QED BY <1>2, <1>3, <1>4 DEF Listable

\* The height, the page or the transactions of a reply.
LEMMA ReadTypes ==
    ASSUME ReadInv, Store, TypeInv, NEW c \in waiting, NEW r \in Reply,
           c[2] = "blockAt" => arg \in 0 .. MaxHeight
    PROVE  LET g == Read(c[2], r)
           IN  g.height \in 0 .. MaxHeight /\ g.offset \in Nat /\ g.list \in Seq(Listable)
<1> DEFINE g == Read(c[2], r)
<1>1. /\ got.height \in 0 .. MaxHeight /\ got.offset \in Nat /\ got.list \in Seq(Listable)
      /\ DOMAIN got = {"height", "list", "offset"} /\ height \in 1 .. MaxHeight
      /\ height \in 0 .. MaxHeight
  BY ApiAssumption DEF TypeInv, ReadType, ReadInv, Grows
<1>2. PageSize \in Nat /\ ListSize \in Nat
  BY ApiAssumption
<1>3. SetToSeq(chain) \in Seq(Listable) /\ SetToSeq(pool) \in Seq(Listable)
  <2>1. IsFiniteSet(chain) /\ IsFiniteSet(pool) /\ chain \subseteq Listable /\ pool \subseteq Listable
    BY StoreIs DEF Store, Listable
  <2>2. SetToSeq(chain) \in Seq(chain) /\ SetToSeq(pool) \in Seq(pool)
    BY <2>1, ListOf
  <2> QED BY <2>1, <2>2
<1>4. CASE r # "ok" /\ c[2] # "page"
  BY <1>1, <1>4 DEF Read
<1>5. CASE c[2] = "page"
  <2>1. BlocksPage(height, got.offset, PageSize) \in Seq(Listable)
    BY <1>1, PageType
  <2>2. g.list \in Seq(Listable) /\ g.offset = got.offset + PageSize /\ g.height = got.height
    <3>1. got.list \o BlocksPage(height, got.offset, PageSize) \in Seq(Listable)
      BY <1>1, <2>1, ConcatProperties
    <3>2. /\ g.height = got.height /\ g.offset = got.offset + PageSize
          /\ g.list = IF r = "ok" THEN got.list \o BlocksPage(height, got.offset, PageSize)
                      ELSE got.list
      BY <1>1, <1>5, ReadIs
    <3> QED BY <1>1, <3>1, <3>2
  <2> QED BY <1>1, <1>2, <2>2
<1>6. CASE r = "ok" /\ c[2] = "height"
  <2>1. g = [got EXCEPT !.height = height]
    BY <1>6 DEF Read
  <2> QED BY <1>1, <2>1
<1>7. CASE r = "ok" /\ c[2] = "blockAt"
  <2>1. g = [got EXCEPT !.height = arg]
    BY <1>7 DEF Read
  <2> QED BY <1>1, <1>7, <2>1
<1>8. CASE r = "ok" /\ c[2] = "blocks"
  <2>1. g = [got EXCEPT !.list = BlocksPage(height, Offset(arg), PageSize)]
    BY <1>8 DEF Read
  <2>2. Offset(arg) \in Nat
    BY ArgIs DEF ReadInv, Offset
  <2>3. BlocksPage(height, Offset(arg), PageSize) \in Seq(Listable)
    BY <1>1, <2>2, PageType
  <2> QED BY <1>1, <2>1, <2>3
<1>9. CASE r = "ok" /\ c[2] \in {"confirmed", "list"}
  <2>1. g = [got EXCEPT !.list = Newest(SetToSeq(chain), ListSize)]
    BY <1>9 DEF Read
  <2>2. Newest(SetToSeq(chain), ListSize) \in Seq(Listable)
    BY <1>2, <1>3, ListableIs, NewestType
  <2> QED BY <1>1, <2>1, <2>2
<1>10. CASE r = "ok" /\ c[2] = "pool"
  <2>1. g = [got EXCEPT !.list = Concatenate(got.list, SetToSeq(pool), ListSize)]
    BY <1>1, <1>10 DEF Read
  <2>2. got.list \o SetToSeq(pool) \in Seq(Listable)
    BY <1>1, <1>3, ConcatProperties
  <2>3. Concatenate(got.list, SetToSeq(pool), ListSize) \in Seq(Listable)
    BY <1>2, <2>2, ListableIs, NewestType DEF Concatenate
  <2> QED BY <1>1, <2>1, <2>3
<1>11. CASE /\ r = "ok"
            /\ c[2] \notin {"page", "height", "blockAt", "blocks", "confirmed", "list", "pool"}
  <2>1. g = got
    BY <1>11 DEF Read
  <2> QED BY <1>1, <2>1
<1> QED BY <1>4, <1>5, <1>6, <1>7, <1>8, <1>9, <1>10, <1>11

\* One more call of success or error.
LEMMA TypeRespond ==
    ASSUME CallsInv, TypeInv, alive, NEW f \in {"success", "error"}, Respond(f)
    PROVE  called' \in Seq({"success", "error"}) /\ Len(called') <= 2 /\ alive' \in BOOLEAN
<1>1. called \in Seq({"success", "error"}) /\ Len(called) <= 1
  <2>1. Len(<<>>) = 0 /\ Len(<<"error">>) = 1 /\ Len(<<"success">>) = 1
    OBVIOUS
  <2>2. called \in {<<>>, <<"error">>, <<"success">>}
    BY DEF CallsInv, AnsweredOnce
  <2>3. Len(called) <= 1
    <3>1. CASE called = <<>>
      BY <2>1, <3>1
    <3>2. CASE called = <<"error">>
      BY <2>1, <3>2
    <3>3. CASE called = <<"success">>
      BY <2>1, <3>3
    <3> QED BY <2>2, <3>1, <3>2, <3>3
  <2> QED BY <2>3 DEF TypeInv, ReadType
<1>2. /\ Append(called, f) \in Seq({"success", "error"})
      /\ Len(Append(called, f)) = Len(called) + 1 /\ Len(called) \in Nat
  BY <1>1, AppendProperties, LenProperties
<1> QED BY <1>1, <1>2 DEF Respond

\* What becomes of the flows and of the request after a reply.
LEMMA TypeEnds ==
    ASSUME CallsInv, TypeInv, NEW c \in waiting, NEW r \in Reply, Answer(c, r)
    PROVE  /\ closed' \subseteq DOMAIN Flows /\ found' \subseteq closed'
           /\ called' \in Seq({"success", "error"}) /\ Len(called') <= 2 /\ alive' \in BOOLEAN
<1>1. /\ closed \subseteq DOMAIN Flows /\ found \subseteq closed
      /\ called \in Seq({"success", "error"}) /\ Len(called) <= 2 /\ alive \in BOOLEAN
  BY DEF TypeInv, ReadType
<1>2. c[1] \in DOMAIN Flows
  <2>1. CASE op \in Chained
    BY <2>1 DEF CallsInv, ChainedWaits
  <2>2. CASE op \notin Chained
    BY <2>2, LoneFlows DEF CallsInv, LoneWaits, Flows
  <2> QED BY <2>1, <2>2
<1>3. alive
  BY ReceiveKeeps DEF Answer, Continue, Succeed, Fail, Throw, Forget
<1>4. closed' \in {closed, closed \cup {c[1]}} /\ found' \in {found, found \cup {c[1]}}
      /\ (found' = found \/ closed' = closed \cup {c[1]})
  BY DEF Answer, Continue, Succeed, Fail, Throw, Forget, Join
<1>5. \/ UNCHANGED called /\ alive' \in {alive, FALSE}
      \/ \E f \in {"success", "error"} : Respond(f)
  BY DEF Answer, Continue, Succeed, Fail, Throw, Forget, Join
<1>6. called' \in Seq({"success", "error"}) /\ Len(called') <= 2 /\ alive' \in BOOLEAN
  <2>1. CASE UNCHANGED called /\ alive' \in {alive, FALSE}
    BY <1>1, <2>1
  <2>2. CASE \E f \in {"success", "error"} : Respond(f)
    BY <1>3, <2>2, TypeRespond
  <2> QED BY <1>5, <2>1, <2>2
<1> QED BY <1>1, <1>2, <1>4, <1>6

\* The height is asked for by a number only in handlers that are asked for one.
LEMMA NumberIs ==
    ASSUME CallsInv, ReadInv, NEW c \in waiting, c[2] = "blockAt"
    PROVE  arg \in 0 .. MaxHeight
<1>1. op \notin {"getTransaction", "getVote"}
  <2> SUFFICES ASSUME op \in {"getTransaction", "getVote"} PROVE FALSE
    OBVIOUS
  <2>1. "blockAt" \in DOMAIN Flows["main"].calls
    BY DEF ReadInv, Known, Reading
  <2>2. PICK V : (V = {} \/ V = Vote) /\ Flows["main"] = GetTransaction(V)
    BY ReadingTable, AloneIs DEF Flows
  <2>3. DOMAIN GetTransaction(V).calls = {"transaction", "unconfirmed"} \cup V
    BY <2>2, TransactionCalls
  <2> QED BY <2>1, <2>2, <2>3, NameAssumption
<1>2. op # "getLastBlocks"
  <2> SUFFICES ASSUME op = "getLastBlocks" PROVE FALSE
    OBVIOUS
  <2>1. "blockAt" \in DOMAIN Flows["main"].calls
    BY DEF ReadInv, Known, Reading
  <2>2. Flows["main"] = GetLastBlocks(Forger)
    BY ReadingTable, AloneIs DEF Flows
  <2>3. DOMAIN GetLastBlocks(Forger).calls = {"height", "blocks"} \cup Forger
    BY DEF GetLastBlocks, Flow, Overlay
  <2> QED BY <2>1, <2>2, <2>3, NameAssumption
<1> QED BY <1>1, <1>2, ApiAssumption DEF ReadInv, Grows, Arguments

\* A reply keeps it.
LEMMA TypeAnswer ==
    ASSUME CallsInv, ReadInv, Store, TypeInv, NEW c \in waiting, NEW r \in Reply, Answer(c, r)
    PROVE  TypeInv'
<1>1. Receive(c, r)
  BY DEF Answer, Continue, Succeed, Fail, Throw, Forget
<1>2. op' = op /\ got' = Read(c[2], r) /\ Flows' = Flows
  BY <1>1 DEF Receive, Flows
<1>3. got'.height \in 0 .. MaxHeight /\ got'.offset \in Nat /\ got'.list \in Seq(Listable)
  BY <1>2, NumberIs, ReadTypes
<1>4. faults' \in 0 .. MaxReplyFaults
  BY <1>1, ApiAssumption DEF Receive, TypeInv, ReadType
<1>5. ReadType'
  BY <1>2, <1>3, <1>4, TypeEnds DEF ReadType, Listable
<1>6. LoneCalls'
  <2> SUFFICES ASSUME op \notin Chained PROVE \A d \in waiting' : d[2] \in DOMAIN Flows["main"].calls
    BY <1>2 DEF LoneCalls
  <2>1. op \in DOMAIN Operations /\ c[1] = "main" /\ c[2] \in DOMAIN Flows["main"].calls
    BY DEF CallsInv, LoneWaits, TypeInv, LoneCalls
  <2>2. Closed(Flows["main"])
    BY <2>1, GoodTable DEF Good, Flows
  <2>3. Reaction(c, r).calls \subseteq DOMAIN Flows["main"].calls
    <3>1. CASE c[2] = "page"
      <4>1. StatisticsCall(got.offset)[r].calls \subseteq {"page"}
        BY NoCalls DEF StatisticsCall, Always, Reply
      <4> QED BY <2>1, <3>1, <4>1 DEF Reaction
    <3>2. CASE c[2] # "page"
      BY <2>1, <2>2, <3>2 DEF Reaction, Closed, Flows
    <3> QED BY <3>1, <3>2
  <2>4. \A d \in waiting' : d \in waiting \/ d[2] \in Reaction(c, r).calls
    BY LoneAnswer
  <2> QED BY <2>3, <2>4 DEF TypeInv, LoneCalls
<1> QED BY <1>5, <1>6 DEF TypeInv

\* Every step keeps it.
LEMMA TypeStep == CallsInv /\ ReadInv /\ ListInv /\ TypeInv /\ [Next]_apiVars => TypeInv'
<1> SUFFICES ASSUME CallsInv, ReadInv, ListInv, TypeInv, [Next]_apiVars PROVE TypeInv'
  OBVIOUS
<1>1. ASSUME NEW c \in waiting, NEW r \in Reply, Answer(c, r) PROVE TypeInv'
  BY <1>1, TypeAnswer DEF ListInv
<1>2. CASE (\E t \in Tx : Submit(t)) \/ (\E confirmed \in SUBSET pool : Forge(confirmed))
           \/ UNCHANGED apiVars
  <2>1. UNCHANGED <<op, waiting, closed, found, called, alive, got, faults>>
    BY <1>2 DEF Submit, Forge, apiVars, handlerVars
  <2> QED BY <2>1 DEF TypeInv, LoneCalls, ReadType, Flows
<1> QED BY <1>1, <1>2 DEF Next

\* What the handler keeps of the node is of the node's kind, and the calls under way are calls
\* of the operation asked for.
THEOREM TypeCorrect == ApiSpec => []TypeOK
<1>1. CallsInv /\ ReadInv /\ ListInv /\ TypeInv => TypeOK
  <2> SUFFICES ASSUME CallsInv, ReadInv, ListInv, TypeInv PROVE TypeOK
    OBVIOUS
  <2>1. arg \in {NoNumber} \cup Nat
    BY ArgIs DEF ReadInv
  <2>2. \A c \in waiting : c[2] \in DOMAIN Operations[op].flows[c[1]].calls
    <3>1. CASE op \in Chained
      BY <3>1 DEF CallsInv, ChainedWaits, Flows
    <3>2. CASE op \notin Chained
      BY <3>2 DEF CallsInv, LoneWaits, TypeInv, LoneCalls, Flows
    <3> QED BY <3>1, <3>2
  <2> QED BY <2>1, <2>2 DEF CallsInv, ReadInv, Grows, ListInv, Store, TypeInv, ReadType,
                            Listable, Flows, TypeOK
<1> QED BY <1>1, TypeInit, TypeStep, CallsCorrect, ReadCorrect, ListInvCorrect, PTL DEF ApiSpec
===============================================================================
