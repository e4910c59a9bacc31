------------------------------ MODULE SearchApi ------------------------------
(***************************************************************************)
(* lib/api/common.js: the search, which tries one meaning of what was      *)
(* typed after the other, and the unified search, which tries all of them  *)
(* at once and joins what they find; and the delegates' own search.        *)
(***************************************************************************)
EXTENDS BlocksApi, TransactionsApi, AccountsApi

\* getSearch and getStrictSearch of lib/api/delegates.js read response before they
\* look at err.
DelegatesCall == [Needs(Done) EXCEPT !["fail"] = Crash]
GetSearch       == Flow({"search"}, [search |-> DelegatesCall])
GetStrictSearch == Flow({"search"}, [search |-> DelegatesCall])

\* An account without an address has not been found.
FoundAccount ==
    [GetAccount(FALSE) EXCEPT !.calls.noMemberships = [r \in Reply |->
        IF GetMultisignaturesMemberships(Done)[r] = Done
        THEN Error ELSE GetMultisignaturesMemberships(Done)[r]]]

\* search: the pattern of what was typed decides; a number may be a height, a block, a
\* transaction or a delegate, in that order.
SearchAccount   == Alone(FoundAccount)
SearchDelegates == Alone(GetSearch)
SearchHeight ==
    Operation([height |-> GetHeight, block |-> GetBlock,
               tx |-> GetTransaction({}), delegates |-> GetSearch],
              {"height"},
              [height |-> "block", block |-> "tx", tx |-> "delegates",
               delegates |-> "respond"])

\* unifiedSearch: every search hands its error on as a result.
Unified(flows) == Operation(flows, DOMAIN flows, [f \in DOMAIN flows |-> "note"])
UnifiedFlow ==
    [account  |-> FoundAccount,
     fullText |-> GetSearch,
     strict   |-> GetStrictSearch,
     height   |-> GetHeight,
     tx       |-> GetTransaction({}),
     block    |-> GetBlock]

\* The searches that ask the node: an address is no name of a delegate, and a name is
\* neither an account nor a public key.
UnifiedSearch(names) == Unified([f \in names |-> UnifiedFlow[f]])

\* The routes of api/common.js, and the search of api/delegates.js.
SearchOperation ==
    [search          |-> SearchHeight,
     searchAccount   |-> SearchAccount,
     searchDelegates |-> SearchDelegates,
     unifiedAddress  |-> UnifiedSearch({"account", "height", "tx", "block"}),
     unifiedName     |-> UnifiedSearch({"fullText", "strict", "height", "tx", "block"}),
     getSearch       |-> Alone(GetSearch)]

\* What the searches of the unified one find, in the order of the code: the strict search
\* finds again a delegate of the full text search.
Item(search, type, id, accuracy) ==
    [search |-> search, item |-> [type |-> type, id |-> id, accuracy |-> accuracy]]
ResultsOf ==
    <<Item("account",  "address", "account", 2),
      Item("fullText", "address", "namesake", 1),
      Item("fullText", "address", "delegate", 2),
      Item("strict",   "address", "delegate", 2),
      Item("height",   "block", "block of that height", 2),
      Item("tx",       "tx", "tx", 2),
      Item("block",    "block", "block", 2)>>

ItemAt(i) == ResultsOf[i].item
Same(i, j) == ItemAt(i).type = ItemAt(j).type /\ ItemAt(i).id = ItemAt(j).id

\* removeDuplicates: of the items of one type and id the last, at the place of the first.
RemoveDuplicates(places) ==
    {p \in places \X places :
        /\ Same(p[1], p[2])
        /\ \A i \in places : Same(i, p[2]) => p[1] <= i /\ i <= p[2]}

\* The answer of a unified search of which these searches have found something.
UnifiedResults(found) ==
    LET kept   == RemoveDuplicates({i \in DOMAIN ResultsOf : ResultsOf[i].search \in found})
        accuracy(p) == ItemAt(p[2]).accuracy
        before == {e \in kept \X kept :
                     \/ accuracy(e[1]) > accuracy(e[2])
                     \/ accuracy(e[1]) = accuracy(e[2]) /\ e[1][1] < e[2][1]}
        sorted == Arranged(kept, before)
    IN  [k \in DOMAIN sorted |-> ItemAt(sorted[k][2])]
==============================================================================
