------------------------------ MODULE WebLists ------------------------------
(***************************************************************************)
(* The pages of the web client that load lists over the HTTP API: the      *)
(* richest accounts with less and more, the voters of a delegate, the      *)
(* numbered pages of transactions, and the search box.                     *)
(***************************************************************************)
EXTENDS HttpApi, SequencesExt

CONSTANTS
    Limit,    \* entries of a page: 50 accounts, 20 transactions in the code
    Maximum,  \* accounts shown at most: 2000 in the code
    Accounts, \* accounts, or voters, there are
    MaxPages  \* bound of the model: pages that hold all entries of any list

\* The node's answers: how many transactions there are.
TxCount(v) == 3 * v + Limit

ASSUME ListAssumption ==
    /\ {Limit, Accounts, Maximum, MaxPages} \subseteq Nat \ {0} /\ 0 \notin Request
    /\ Path = {k * Limit : k \in 0 .. MaxPages - 1}
    /\ Accounts <= MaxPages * Limit /\ TxCount(MaxVersion) <= MaxPages * Limit

VARIABLES
    page, \* the page of the web client that is open
    list  \* what it shows

listVars == <<page, list>>

ListPages == {"accounts", "voters", "transactions", "search"}

NoRequest == 0

\* results, loading    what is shown, and whether the page waits
\* offset, splice      accounts: the next offset, and what loadLess takes away;
\*                     voters: the offset of their meta data; transactions: the page
\* more, less          whether there is a button for more, or the next page; for less
\* pages               transactions: the numbers that are links
\* asked               the request the page waits for last
\* versions, broken    history: the data the loaded pages show; a load has failed
EmptyList ==
    [results |-> <<>>, loading |-> TRUE, offset |-> 0, splice |-> 0, more |-> FALSE,
     less |-> FALSE, pages |-> {}, asked |-> NoRequest,
     versions |-> <<>>, broken |-> FALSE]

\* The node's answers: accounts by balance, of which two have changed places since.
Ranking(v) ==
    [i \in 1 .. Accounts |->
        CASE i = v /\ v < Accounts -> v + 1 [] i = v + 1 -> v [] OTHER -> i]
Slice(v, offset, n) ==
    SubSeq(Ranking(v), offset + 1, IF offset + n < Accounts THEN offset + n ELSE Accounts)

\* A page sends a request.
Ask(r, path) == Come(r, path)

\* It gets the answer.
Take(r) ==
    /\ request[r].stage \in {"answered", "lost"}
    /\ request' = [request EXCEPT ![r] = Idle(request[r].path)]
    /\ UNCHANGED <<version, server, saved, httpFaults, page>>
Answer(r) == request[r].stage = "answered" /\ request[r].version # 0

-----------------------------------------------------------------------------
(* services/less-more.js, for the page of the richest accounts. *)

\* One entry more than a page has been asked for: is it there?
AnyMore(length) ==
    \/ Limit <= 1 /\ length # 0 /\ Limit % length = 1
    \/ length > 1 /\ length % Limit = 1

SpliceData(data) == IF AnyMore(Len(data)) THEN Front(data) ELSE data

\* How much loadLess would take away, nothing if it is the first page.
LessSplice(length) ==
    IF length <= Limit THEN 0 ELSE IF length % Limit = 0 THEN Limit ELSE length % Limit

AcceptData(l, data) ==
    LET results == l.results \o SpliceData(data)
    IN  [l EXCEPT !.results = results, !.loading = FALSE, !.offset = l.offset + Limit,
                  !.more = AnyMore(Len(data)) /\ Len(results) + Limit <= Maximum,
                  !.less = Len(results) > Limit, !.splice = LessSplice(Len(results))]

LoadData ==
    /\ page = "accounts" /\ list.asked = NoRequest
    /\ \E r \in Request : Ask(r, list.offset) /\ list' = [list EXCEPT !.asked = r]
    /\ UNCHANGED page

LoadMore ==
    /\ page = "accounts" /\ list.more
    /\ \E r \in Request :
         /\ Ask(r, list.offset)
         /\ list' = [list EXCEPT !.more = FALSE, !.less = FALSE, !.loading = TRUE, !.asked = r]
    /\ UNCHANGED page

\* Mutant: all of the last page is taken away, whatever it has.
LoadLess_Limit ==
    /\ page = "accounts" /\ list.less
    /\ LET results == SubSeq(list.results, 1, Len(list.results) - Limit)
       IN  list' = [list EXCEPT
             !.results = results, !.more = TRUE, !.offset = @ - Limit,
             !.less = Len(results) > Limit, !.splice = LessSplice(Len(results)),
             !.versions = IF list.broken THEN @ ELSE Front(@)]
    /\ UNCHANGED <<httpVars, page>>

LoadLess ==
    /\ page = "accounts" /\ list.less
    /\ LET results == SubSeq(list.results, 1, Len(list.results) - list.splice)
       IN  list' = [list EXCEPT
             !.results = results, !.more = TRUE, !.offset = @ - Limit,
             !.less = Len(results) > Limit, !.splice = LessSplice(Len(results)),
             !.versions = IF list.broken THEN @ ELSE Front(@)]
    /\ UNCHANGED <<httpVars, page>>

\* Mutant: without the catch of getData.
AccountsArrive_NoCatch(r) ==
    /\ page = "accounts" /\ Take(r)
    /\ list' = IF Answer(r)
               THEN [AcceptData(list, Slice(request[r].version, request[r].path, Limit + 1))
                       EXCEPT !.versions = IF list.broken THEN @
                                           ELSE Append(@, request[r].version)]
               ELSE list

\* getData: whatever fails, acceptData gets no data.
AccountsArrive(r) ==
    /\ page = "accounts" /\ Take(r)
    /\ list' = IF Answer(r)
               THEN [AcceptData(list, Slice(request[r].version, request[r].path, Limit + 1))
                       EXCEPT !.versions = IF list.broken THEN @
                                           ELSE Append(@, request[r].version)]
               ELSE [AcceptData(list, <<>>) EXCEPT !.broken = TRUE, !.versions = <<>>]

-----------------------------------------------------------------------------
(* components/address: the voters of a delegate. *)

GetVoters ==
    /\ page = "voters" /\ list.asked = NoRequest
    /\ \E r \in Request : Ask(r, 0) /\ list' = [list EXCEPT !.asked = r]
    /\ UNCHANGED page

\* Nothing keeps the link from being used again before the answer is there.
LoadMoreVoters ==
    /\ page = "voters" /\ list.more
    /\ \E r \in Request : Ask(r, list.offset + Limit)
    /\ UNCHANGED listVars

\* A voter is never found among those there are: each answer has objects of its own.
VotersArrive(r) ==
    /\ page = "voters" /\ Take(r)
    /\ LET v == request[r].version
           voters == list.results \o Slice(v, request[r].path, Limit)
       IN  list' = IF Answer(r)
                   THEN [list EXCEPT
                          !.results = voters, !.loading = FALSE, !.offset = request[r].path,
                          !.more = Len(voters) < Accounts, !.versions = Append(@, v)]
                   ELSE [list EXCEPT !.loading = FALSE]

-----------------------------------------------------------------------------
(* services/pagination.js, for the pages of transactions. *)

Positive(numbers) == {n \in numbers : n > 0}

\* Mutant: of five pages or fewer all numbers up to their count are links.
RealPagination_All(n, numberOfPages) ==
    Positive(
      IF n = numberOfPages THEN n - 4 .. n + 1
      ELSE IF n + 1 = numberOfPages THEN n - 3 .. n + 1
      ELSE CASE numberOfPages >= 5 /\ n = 1 -> n .. n + 4
             [] numberOfPages >= 5 /\ n = 2 -> n - 1 .. n + 3
             [] numberOfPages >= 5 /\ n > 2 -> n - 2 .. n + 2
             [] OTHER -> 0 .. numberOfPages - 1)

\* The numbers that are links, when the answer says how many transactions there are.
RealPagination(n, numberOfPages) ==
    Positive(
      IF n = numberOfPages THEN n - 4 .. n
      ELSE IF n + 1 = numberOfPages THEN n - 3 .. n + 1
      ELSE CASE numberOfPages >= 5 /\ n = 1 -> n .. n + 4
             [] numberOfPages >= 5 /\ n = 2 -> n - 1 .. n + 3
             [] numberOfPages >= 5 /\ n > 2 -> n - 2 .. n + 2
             [] OTHER -> 0 .. numberOfPages - 1)

\* A link or one of the two arrows: a new page, which forgets the old one's requests.
GoTo(n) ==
    /\ page = "transactions"
    /\ n \in list.pages \/ (list.more /\ n = list.offset + 1)
    /\ \E r \in Request :
         /\ Ask(r, (n - 1) * Limit)
         /\ list' = [EmptyList EXCEPT !.offset = n, !.asked = r]
    /\ UNCHANGED page

OpenTransactions ==
    /\ page = "transactions" /\ list.offset = 0
    /\ \E r \in Request :
         /\ Ask(r, 0)
         /\ list' = [EmptyList EXCEPT !.offset = 1, !.asked = r]
    /\ UNCHANGED page

TransactionsArrive(r) ==
    /\ page = "transactions" /\ Take(r)
    /\ LET count == TxCount(request[r].version)
           rest == count - request[r].path
           data == IF rest <= 0 THEN 0 ELSE IF rest < 2 * Limit + 1 THEN rest ELSE 2 * Limit + 1
           numberOfPages == (count + Limit - 1) \div Limit
       IN  list' =
             IF r # list.asked THEN list
             ELSE IF Answer(r) THEN
               [list EXCEPT
                 !.loading = FALSE, !.more = data > Limit,
                 !.pages = RealPagination(list.offset, numberOfPages),
                 !.results = [i \in 1 .. IF data < Limit THEN data ELSE Limit |->
                                request[r].path + i],
                 !.versions = <<request[r].version>>]
             ELSE IF request[r].stage = "answered" THEN [list EXCEPT !.loading = FALSE]
             ELSE [list EXCEPT !.broken = TRUE]

-----------------------------------------------------------------------------
(* components/search: of two searches under way the answer that comes last is shown,
   and a request that is lost is never given up. *)

Search(q) ==
    /\ page = "search"
    /\ \E r \in Request : Ask(r, q) /\ list' = [list EXCEPT !.loading = TRUE, !.asked = r,
                                                           !.results = <<>>, !.broken = FALSE]
    /\ UNCHANGED page

ResultsArrive(r) ==
    /\ page = "search" /\ Take(r)
    /\ list' = IF request[r].stage = "lost" THEN [list EXCEPT !.broken = TRUE]
               ELSE [list EXCEPT !.loading = FALSE,
                                 !.results = IF Answer(r) THEN <<request[r].path>> ELSE @]

-----------------------------------------------------------------------------

Arrive(r) ==
    AccountsArrive(r) \/ VotersArrive(r) \/ TransactionsArrive(r) \/ ResultsArrive(r)

ListStep ==
    \/ ServerStep /\ page \in ListPages /\ UNCHANGED listVars
    \/ LoadData \/ LoadMore \/ LoadLess
    \/ GetVoters \/ LoadMoreVoters
    \/ OpenTransactions
    \/ \E n \in 1 .. MaxPages : GoTo(n)
    \/ \E q \in {0, Limit} : Search(q)
    \/ \E r \in Request : Arrive(r)

ListInit == HttpInit /\ list = [EmptyList EXCEPT !.loading = (page # "search")]

\* What happens in the end: the node and the server answer, the server is started again,
\* Redis forgets, a page opens its list.
HandlerAnswers(r) == (Read(r) \/ Succeed(r)) /\ UNCHANGED listVars
ServerStarts == (AskNode \/ Listen) /\ UNCHANGED listVars
RedisForgets == Tick /\ UNCHANGED listVars
ListOpens    == LoadData \/ GetVoters \/ OpenTransactions

ListTypeOK ==
    /\ HttpTypeOK
    /\ list \in [results : Seq(Nat), loading : BOOLEAN, offset : Nat, splice : 0 .. Limit,
                 more : BOOLEAN, less : BOOLEAN, pages : SUBSET (1 .. MaxPages),
                 asked : Request \cup {NoRequest}, versions : Seq(1 .. version), broken : BOOLEAN]

-----------------------------------------------------------------------------
(* Properties. *)

\* services/less-more.js: however often more and less are used, the accounts shown are
\* the pages that were loaded, one behind the other and none missing, the next offset is
\* where they end, and the buttons are right, as long as no load has failed.
AccountsWhole ==
    page = "accounts" /\ ~list.loading /\ ~list.broken =>
        LET n == Len(list.versions)
        IN  /\ list.results =
                 FlattenSeq([i \in 1 .. n |-> Slice(list.versions[i], (i - 1) * Limit, Limit)])
            /\ list.offset = n * Limit
            /\ list.less = (n > 1)
            /\ list.more = (n * Limit < Accounts /\ (n + 1) * Limit <= Maximum)

\* loadMoreVoters: also when the link is used twice and answers overtake each other, no
\* voter before the end of what was loaded is left out.
NoVoterSkipped ==
    \A v \in 1 .. version :
        page = "voters" /\ list.versions # <<>> /\ ToSet(list.versions) = {v} =>
            ToSet(Slice(v, 0, list.offset + Limit)) \subseteq ToSet(list.results)

\* services/pagination.js: the pages that are links exist, the one shown is among them,
\* and there is a next one exactly if there are further transactions.
PagesExist ==
    page = "transactions" /\ list.versions # <<>> =>
        LET count == TxCount(list.versions[1])
        IN  /\ \A n \in list.pages : (n - 1) * Limit < count
            /\ list.offset \in list.pages
            /\ list.more = (list.offset * Limit < count)

ListsTrue == AccountsWhole /\ NoVoterSkipped /\ PagesExist

\* app.js: when the node's data no longer change, the answers kept in Redis are of those
\* data in the end, although an older answer may be saved over a newer one.
AnswersSettle == <>[](\A p \in Path : saved[p] # NotSaved => saved[p].version = version)

\* services/less-more.js and the others: a page that waits for a list stops waiting,
\* unless a request was lost that nothing catches.
LoadsEnd == []<>(page \in ListPages => ~list.loading \/ list.broken)
==============================================================================
