# Verification of Lisk Explorer

TLA+ models of the parts of Lisk Explorer that keep state between requests, the
TLC runs that check them on small instances, and TLAPS proofs of the results that
should hold for every instance. `PROJECT.json` names, for every definition that
models code, the lines it stands for.

Run a model with `tlc -config MCHeader_calls.cfg MCHeader` and a proof with
`tlapm ActivityGraphProofs.tla`.

## 1. The system

The back end is one Node.js process. It polls a Lisk node over HTTP, hears of
new blocks over a socket, keeps a little state in memory and in Redis, answers
HTTP requests and pushes live data to browsers over five socket.io namespaces. The
front end (AngularJS) shows what it is given. PM2 starts the process again when an
uncaught exception ends it (docs/run_from_source.md).

There are no threads: a step of the code is everything up to the next wait for the
network, a timer or Redis. What is hard is what happens between such steps:
answers in any order, calls that overlap, a call that has failed while some of its
requests are still under way, failures of one request among several, and the
process ending in the middle.

| component | state | operations | depends on | what makes it correct |
|---|---|---|---|---|
| delegate monitor (`sockets/delegateMonitor.js`) | five busy flags, `data`, `tmpData`, `isRoundDelegate` and blocks per delegate | first load, update by notification or timer, `getLastBlocks` chain, round change, clients | delegates API, node notifications | flags match requests; data never mix two calls nor go back; delegates of the round are right; it keeps going |
| delegate list (`lib/api/delegates.js`) | `allDelegates`, `lastDelegateUpdate` | load page by page, answer active and standby lists | the node; used by monitor, accounts, HTTP | list complete, ordered, not older than before |
| activity graph (`sockets/activityGraph.js`, `sockets/index.js`) | timer, busy flag, `data` | first client, client, last client leaves, tick | statistics and transactions APIs | a timer exactly while needed; clients never taken back |
| header (`sockets/header.js`, `getBlockStatus`) | two busy flags, `data`, `lastUpdateTime` | first load, notification, timer | blocks API, price ticker | one live call; errors are handled; catches up |
| known addresses (`utils/knownAddresses.js`) | Redis names, newest registration seen | load, list of known accounts, check per minute | delegates API, Redis | every registered delegate gets its name |
| network monitor, peers, locations (`sockets/networkMonitor.js`, `lib/api/statistics.js`) | three timers, busy flags, location cache | three emitters, paging, lookup | the node, geo-IP, DNS | flags, cache follows peers |
| blocks, transactions, accounts, search APIs (`lib/api`) | none | several requests, one after the other, side by side or in place of one another | the node, Redis | one answer, whatever fails, and a true one |
| HTTP API and response cache (`app.js`, `api/`) | Redis answers by URL | look up, handle, save | all APIs | one answer per request, bounded age |
| server start (`app.js`) | started or not | wait for the node, listen | the node | listens in the end |
| Poloniex candles (`utils/candles.js`, `lib/candles`) | running flag, Redis lists per duration | build, update by timer or by hand | the exchange, Redis | every trade in exactly one candle |
| Bittrex candles | Redis lists | drop and save | the exchange, Redis, Poloniex' update | lists without gaps, also when it breaks off |
| order books (`utils/orders.js`, `lib/orders`) | running flag, a book with depth per exchange | update by timer | the exchanges, Redis | the depth is that of the offers; keeps up |
| exchange rates (`utils/exchange*`) | `tickers` | load by timer, loads overlap | the exchanges | rates keep up |
| candles and orders APIs | none | read candles, statistics, books | Redis | what is stored is answered |
| market page (`components/market-watcher`) | selection, two flags of what is new, candles, statistics, orders, charts | clicks, interval, answers, delayed drawing | candles and orders APIs | shows what is selected |
| less and more, voters, numbered pages, search box | results, offset, buttons | load, more, less, go to | HTTP API | nothing twice, nothing left out, no dead link |
| activity graph page | graph, ids in it, selection, figures | push, select | activity graph | the graph of the blocks it counts |
| delegate monitor page and header | delegates with their statuses, height, connection | pushes of two sockets | monitor, header | the status of the chain's blocks |
| network monitor page | peers, counts, markers of the map | pushes, map opened | network monitor | every peer counted once; a marker each |
| news feed, logger, HTTP helpers, configuration, other views | none | | | pure I/O |

The hazards of each are listed in `PROJECT.json`, at the line where they bite, with
the properties that cover them.

## 2. Modules

| module | models | run | proofs |
|---|---|---|---|
| `DelegateMonitor` | delegate monitor | `dm_data`, `dm_live` | `DelegateMonitorProofs` |
| `DelegateCache` | delegate list | `dc_list` | `DelegateCacheProofs` |
| `ActivityGraph` | activity graph and connection handler | `ag_clients` | `ActivityGraphProofs` |
| `Header` | header and `getBlockStatus` | `hd_calls` | `MarketHeaderProofs` |
| `KnownAddresses` | known addresses | `ka_checks` | `KnownAddressesProofs` |
| `NetworkMonitor` | network monitor, peers and locations | `nm_peers`, `nm_located` | `NetworkMonitorProofs` |
| `ApiFlows` | how a handler goes from request to request | | |
| `BlocksApi`, `TransactionsApi`, `AccountsApi`, `SearchApi` | the handlers of blocks, transactions, accounts and search, as flows | | |
| `Handler` | abstract: what a handler may do with its two functions | | |
| `ApiRequest` | one request to one of these handlers or for the block statistics, beside a growing chain; implements `Handler` | `api_calls` | `ApiRequestProofs` |
| `HttpApi` | `app.js`: start, cache, answers, restarts | | |
| `WebLists` | the pages that load lists, over `HttpApi` | | |
| `WebGraph`, `WebStatus`, `WebPeers` | the pages that are pushed to | | |
| `WebClient` | all pages with their servers | `web` | `WebClientProofs` |
| `Candles` | Poloniex' candles and their updater | `cd_hours` | |
| `Exchanges` | Bittrex' candles, order books, rates (extends `Candles`) | | |
| `MarketWatcher` | candles and orders APIs, market page (extends `Exchanges`) | | |
| `Market` | all of the market data | `market` | `MarketHeaderProofs` |

Each `MC...` module instantiates the module of its name for TLC.

What compositions there are: `Candles` – `Exchanges` – `MarketWatcher` – `Market`, of which each
extends the one before; `HttpApi` – `WebLists`, requests and answers; `WebGraph`,
`WebStatus` and `WebPeers`, each with the part of its server that pushes; `WebClient`
all of these. In `WebClient` and in `Market` a behaviour is about one page or one updater: they
share nothing (in `Market` the one thing shared, the series in which Poloniex comes
before Bittrex, is a step of Bittrex' update), so their interleaving would show nothing
and cost all the states there are. `HttpApi` knows of a handler only what `Handler` allows;
`api_calls` shows that the handlers of `ApiRequest` keep to that. For the others (delegates, peers, candles, orders,
price ticker, news feed) it is assumed.

What is left of the plan: `StoresTrue` for updates of several pages, which come out right
when every page begins a new period, and which `Fits` (section 4) leaves out; and what can be said of the
minutes when two processes update, of which only the types are proved.

## 3. What is modelled, and what the runs show

In all models the node (or exchange) is the environment: its answers are snapshots
named by a height, a ranking or a position in a history; a request and its
answer are two steps, so answers overtake each other. Faults are bounded by
`MaxFaults` and the like. `CHECK_DEADLOCK FALSE` is used where the bounded world ends: the
chain has reached its last height, the clock its last tick, or every call has been used.

### DelegateMonitor

`running`, `net`, `open`, `results` are the busy flags, the requests in flight, the
`async.parallel` calls that wait, and what they have. `Ask` sends the request of an
idle getter, and `EmitData` models all of `emitData`: when one getter is busy the call
fails at once, but the idle getters that come after it are asked nevertheless and
their answers go to nobody (`Discarded`). `Deliver`, `Fail` and `NextDelegate` answer,
`ChainBlocks` and the rest of the `Chain...` actions are `getLastBlocks`;
`BlocksChange`, `RoundsChange` and `Timer` are the listeners and the interval;
`ListLoadFails` and `LoadFails` are the error paths that end the process, `Start` the first
load after a start. `ChainDelegateFails` is a failed or refused request for one delegate's blocks: its
error callback ends the waterfall of `getLastBlocks` (delegateMonitor.js:237-240, 258-265), with an error, which is logged, or
with none, and either way the flag is given back and the delegates that were left are looked up by a
later call. The `cb` of line 254 never hears of an error.

| run | shows |
|---|---|
| `dm_data` | overlapping updates over a round boundary, a fault, crashes and restarts: `SingleFlight`, `OneOpenCall`, `OneChain`, `FlagsAgree`, `RoundDelegatesExact`, and that last block, forgers and blocks never go back (`NothingGoesBack`) |
| `dm_live` | answers within ten seconds and no faults: `CatchesUp` |

A failed load of the list (`ListLoadFails`, `LoadFails`) ends the process before the caller's log
line is reached. A failure in the first load leaves the monitor in phase `"failed"` for good, as
nothing tries again; for that reason `dm_live` has no faults. `OneChain` says that
`getLastBlocks` gives its flag back when a delegate's request fails; that the delegates after that one get their
blocks is not claimed, since they do not while its request goes on failing.

Bounds: three delegates, rounds of two slots, two heights of which the second begins
another round; that is one boundary, one change of the active set and two answers of
each kind, which is all two overlapping updates can see. Two batches are enough because
`OneOpenCall` holds. Registrations and votes are left out of `dm_data` (`SideGetters`): they
touch no data the properties compare, and for the properties of calls the proofs hold with any
set of them. `Timer` assumes in `dm_live` (`SlowNode = FALSE`) that the node
answers within the interval. When it does not, calls can keep failing because getters are busy
with requests of calls that have failed, and `CatchesUp` does not hold (`SlowNode = TRUE`).

Fairness: answers arrive (HTTP requests end by an answer or by an error), the interval
fires, and PM2 restarts. Notifications are given no fairness: they may be lost.

### DelegateCache

A load collects `acc` page by page from `node`, the ranking, which may change between
two pages. `Finish` sorts and keeps the list and cuts the answer of the request that
asked. `listClean` records that all pages of the list came from one ranking. A page that cannot be had ends the process (`PageFails`).

`dc_list` checks that a clean list is exact also when the delegates fill the last page to
the brim (four delegates, pages of two), that no request is answered from a list never
loaded (part of `TypeOK`), and that standby lists continue the active ones. A list that is not clean may lack
a delegate that was overtaken across a page border. Two loads suffice for an overlap, one change
of the ranking for a page border to move. Nothing keeps an older load that ends last from
replacing a newer list; the properties hold for whichever list is kept. Equal approvals
may be sorted any way, since the comparator is not consistent for them.

### ActivityGraph

`connected`, `timers`, `interval` model the handler of `sockets/index.js` and the timer;
`timers` counts running timers, so that a leak would show. A call asks for the last block
and, if it has transactions, for those (`request`, `running`). `view` is what each
client was last shown. Forks of the node are included. `ag_clients` checks timers, flag
and views with three clients, and that whoever stays catches up. Fairness: the node
answers, the timer fires.

### Header

A call of `getBlockStatus` is two requests, each of which calls the caller's error
function when it fails. The first failure gives the flag back while the other request is
under way; so calls overlap (`hd_calls`, three of them), and still one call at most is
live and the header never goes back. It also catches up, notified or not, with
fairness for answers, timer and time but none for notifications. When both requests fail,
async's callback is called twice and the process ends (`SecondFailure`).
A first load that fails is never repeated, as in the code; `CatchesUp` speaks of a header
that has loaded.

### KnownAddresses

`chain` holds the confirmed registrations, newest first; a check pages through those since
`latest + 1` while new ones move the pages; checks overlap. `Restart` forgets `latest`
and keeps Redis until `Load` empties it. A name that Redis refuses to write is only logged
(knownAddresses.js:48-50) while `latest` moves on (126): `Learn` stores what is not refused, and the history variable
`unwritten` holds those whose last write failed. Nothing asks for them again before a restart. `ka_checks`:
with registrations in the order of their timestamps nobody else up to the newest one seen is left without a name
(`NothingSkipped`), and everyone else gets one (`NamesArrive`): a failed write costs that name and no other. With `InOrder = FALSE` that fails: a registration confirmed after one
with a newer timestamp is never asked for. Pages of one registration make three delegates
span several pages. When the old keys cannot be read, `load` is never called again and no
check is ever made (`LoadFails`); `NamesArrive` excepts that case.

### NetworkMonitor

`phase`, `running` and `waiting` are the first load and the flags, `pages` the call of
`getPeers` that is under way, `cache` and `lookups` the `Locator`. The node's peers come
and go between two pages. A lookup is two requests; its result goes into the cache when
both have been answered or when one has failed. A page of 0.0.0.0 peers only ends the
process (`HiddenPage`), a page that cannot be had wipes the locations of the peers that
were not read yet (`PageFails`). Every address is one peer, although a node may know several
ports of one; `collect` keeps the first of them.

`nm_peers`: what clients are shown is whole from the first time, no peer is listed
twice, entries of peers that have gone do not stay, and a peer with a name and a place is
shown with it in the end. `nm_located` is violated: without a reverse DNS name the place
is lost for as long as the peer stays. The same happens when the geo-IP service fails once,
which `NoPlace` stands for. Pages of two with three addresses give two pages whose border moves;
two lookups per peer are an overlap, and of the two getters with plain requests one is
enough. Fairness: requests are answered, intervals fire. When peers are only on 0.0.0.0 the
process ends again and again, and after a failed first load nothing is tried again, so
the two liveness properties speak of a monitor that stays live.

### Candles, Exchanges, MarketWatcher and Market

Time is counted in units of which two make a minute and six an hour. A candle
keeps the ids of its trades, from which everything the code computes follows. An update of
Poloniex fetches pages back from now to the newest minute candle, then appends to the list of
each duration, each by the clock of that moment. The first state is that after
`candles:build` with two minutes over: with a single candle `fillGaps` fails.

`cd_hours` is violated: hour candles lack the trades that were saved in minutes while the hour went
on. `MinutesExact`, a part of `StoresTrue`, says that failures, crashes and the moving clock lose or
double no trade of the minute candles. It fails outside the bounds of `market`: with pages smaller than the
trades of an update (those of the second at a page border are lost), and with a second
process in `Process` (an update by hand beside the explorer's doubles trades).

`Exchanges` has the update of Bittrex, from the series of `utils/candles.js` to drop and save of each
list (`BittrexDrop`, `BittrexSave`: the list is empty between them, and stays so if the save
fails); the books of both exchanges, asked one after the other, and their depth (`AddDepth`);
and loads of the rates, which have no flag and may overlap. `MarketWatcher` is the page: `GetData`
sends one to three requests whose answers are taken all together, `AnswersArrive` shows them whatever
is selected by then (an error is an answer with status 200, handler.js:35-37, so `$q.all` resolves and what it stands
for becomes empty on the page: `Refuses`, `Given`), `DrawStock` and `DrawDepth` are the delayed drawings, and the explorer's
stores are counts of saves.

`market` checks: `StoresTrue`, in every state, so also in the middle of an update and after one that broke off;
`StoresRefresh`, each updater catches up again and again, whatever failed; `WatcherSettles`, the
page comes to show what is selected, with no candles and no statistics beside the book when there are no minute candles,
and errors among the answers are made good by the interval. Cases in which the code fails, and which the properties name and
except: a duration with exactly one candle ends the process each time (`fillGaps`), and so does a
Bittrex book with fewer asks than bids (`acceptOrders`); and a duration that was selected and left for another tab before the chart was drawn
keeps statistics and orders from being asked for. As failures are bounded, a Poloniex that
fails for good, which keeps Bittrex from being updated, is not among the behaviours.

Bounds: nine units of time and five trades are two minute candles before the first update, and two and
a part of an hour after it; books with fewer, as many and more asks than bids; two loads of
rates and three prices for an overlap in which the older one ends last; two requests of the page, one
save before or after which they are answered (with and without candles and books of Bittrex to begin with, so a save may add, renew or
drop what there is) and two clicks for answers that come in the wrong order. Fairness: intervals
go on firing, requests are answered, timers fire; exchanges change, trade and fail as they like.

### ApiRequest and Handler

`ApiFlows` gives the words for a handler: for each of its requests and each kind of reply
that the callbacks tell apart (`Reply`), what is done next: ask on, call the error function,
throw, or call nobody. `BlocksApi`, `TransactionsApi`, `AccountsApi` and `SearchApi` write down the
handlers of their files in them, with what it computes of the replies (pages, confirmations,
joined lists). `ApiRequest` carries out any of them, and the block
statistics: `Forge` and `Submit` let the chain grow
between two replies, `Receive` with `Continue`, `Succeed`, `Fail`, `Throw` and `Forget` is one reply,
in any order, up to two of them faulty.

`Handler` is the abstract specification: one of the two functions is called once, an error perhaps
twice, which ends the process, and success never second. `api_calls` checks that `ApiRequest` implements it
(`KeepsContract`: `called` is `calls`, `alive` is `alive`), that every request is answered unless
the process ends (`AlwaysAnswered`; it excepts Redis failing while a name is looked up, where the promise is
rejected and nobody hears of it), and that answers are true (`AnswersTrue`): a
transaction that was confirmed when the request began is found, the confirmations of `getBlock` are those of some moment
of the request, a page that promises another one has one, and one that promises none is the last (if the request gave a number), the newest transactions are listed once and in order, the block statistics skip no
block although pages move, and a unified search has what each search found, best first.
Bounds: pages of two, a chain of four, three transactions: two pages whose border moves, and a
transaction in each place. Fairness: requests to the node and to Redis end.

Three things are not so in the code, and `AnswersTrue` does not say them. `getHeight`
passes the block's own height where `getBlock` passes that of the chain (blocks.js:45-46, 286-287), so a block
found by its height has always one confirmation; API_ENDPOINTS.md:173 shows 17313 for block 1.
`ConfirmationsTrue` is therefore about `getBlock` alone; the same promise for `getHeight` is `HeightConfirmations`, and TLC finds
it violated within four steps when it is put in the place of `AnswersTrue`. A request for blocks without
`n` (`NoNumber`) lists the newest ones, but its page is `NaN` and promises no further one (blocks.js:158).
And a transaction confirmed between the question for the confirmed ones and that for the pool is in neither answer.

Not in `Operations`: of the delegates, the active and standby lists (`DelegateCache`), the latest registrations and votes,
forgers, last block and last blocks (requests of `DelegateMonitor`); of the statistics, the last block
(`ActivityGraph`) and the peers (`NetworkMonitor`); candles and orders (`MarketWatcher`); the price ticker (a part of
`Header`'s steps) and the news feed, which is not modelled.

### HttpApi, WebLists, WebGraph, WebStatus, WebPeers and WebClient

`HttpApi` is `app.js`: `NodeMissing`, `AskNode` and `Listen` the start; `Come` a request, from Redis
(`Hit`) or a handler (`Miss`); `Succeed` saves and answers, `Refuse` answers an error and saves nothing, `End` ends
the process with all its requests; `Tick` lets answers grow old. Answers are known by the
`version` of the node's data they show, so that an older one that is saved last is seen.

`WebLists` is the page of the richest accounts (`less-more.js`), of voters, of transactions
(`pagination.js`) and the search box. `WebGraph` builds the activity graph block by block as
`activity-graph.service.js` does, with forks, blocks pushed again and the selection. `WebStatus` has the two sockets on which the
height and the delegates' blocks arrive, `forging-status.js` and `forging-monitor.js`; `WebPeers` the counts
and markers of `network-monitor.service.js`.

`web` checks: what each page shows is true of what it was sent (`PagesTrue`: no account twice or left
out however more and less are used, links that lead somewhere, the graph of exactly the blocks
it counts, counts that add up, a marker for each peer); answers in Redis are of the newest data in the
end (`AnswersSettle`); pages stop waiting (`LoadsEnd`); and the delegate monitor page
comes to show for every delegate what the comments of `forging-status.js` say of the chain's blocks
(`PagesSettle`). `AccountsWhole` speaks of lists none of whose loads failed, as the offset moves on after a failure; `LoadsEnd` excepts
lost requests of the search box, which nothing catches.

Bounds: two requests at a time, two versions of the data, one failure; five accounts in pages
of two, so that the last page is not full; `MaxPages` is such that every list fits (`ListAssumption`), so
no page that could be asked for is left out; up to two more blocks of two delegates; two
changes of seven peers with more versions and heights than are told apart. Fairness: servers,
handlers and connections come back, Redis forgets, the page asks; clicks, data and failures
are free.

## 4. What is proved

| theorem | for every |
|---|---|
| `DelegateMonitorProofs!TypeCorrect` | node, set of delegates and getters, round length and bounds |
| `DelegateMonitorProofs!SingleFlightCorrect`, `OneOpenCallCorrect`, `OneChainCorrect` | the same |
| `DelegateMonitorProofs!FlagsCorrect`, `NothingGoesBackCorrect`, `RoundDelegatesCorrect` | the same |
| `DelegateCacheProofs!TypeCorrect`, `CleanListCorrect`, `StandbyCorrect` | delegates, approvals, sizes of pages and windows, number of loads |
| `ActivityGraphProofs!TypeCorrect`, `OneTimerCorrect`, `FlagCorrect`, `ViewCorrect` | set of clients, blocks with transactions and bounds |
| `MarketHeaderProofs!TypeCorrect`, `OneLiveCallCorrect`, `HeaderNeverGoesBackCorrect` (of `Header`) | number of calls under way and bounds |
| `MarketHeaderProofs!MarketTyped`, `ExchangesTrue` (`BittrexTrue` and `DepthTrue`) | processes, durations, history, clock, size of pages, order books, currencies, loads and bounds |
| `MarketHeaderProofs!StoresStayTrue`, `StoresStayTrueInOnePage` | the same with one process (`Alone`), if the trades of each update fit a page (`Fits`), or the history does |
| `KnownAddressesProofs!TypeCorrect`, `NothingSkippedCorrect` | delegates, pages, overlapping checks, failed requests and writes; the second if registrations are confirmed in the order of their timestamps (`InOrder`) |
| `NetworkMonitorProofs!TypeCorrect`, `ListedOnceCorrect` | peers, hidden ones, pages, getters and lookups |
| `ApiRequestProofs!TypeCorrect` | operation, chain, transactions, votes, forgers, sizes of pages, faults |
| `ApiRequestProofs!ContractCorrect` (`Handler` is implemented), `AnswersCorrect` | the same |
| `WebClientProofs!ClientTyped`, `PagesAlwaysTrue` | page, requests, accounts, transactions, sizes of pages, blocks, delegates, peers, times to live and bounds |
| `WebClientProofs!ListsAlwaysTrue`, `GraphAlwaysExact`, `PeersAlwaysTrue` | the same: the parts of `PagesTrue` |
| `ApiRequestProofs!ConfirmedFoundCorrect`, `ConfirmationsCorrect`, `MoreCorrect`, `NoBlockSkippedCorrect`, `ListedInOrderCorrect`, `ResultsJoinedCorrect` | the same: the parts of `AnswersTrue` |

The proofs use only the named assumptions of the modules (sizes and bounds are naturals,
the node's functions have their types, delegates and transactions are finitely many). Four are more than
that: `IdAssumption` of `WebGraph` says that blocks and transactions have ids of their own and no
account has one of them, as the graph keeps all ids in one index; `NameAssumption` of `ApiRequest` says that no public key of a delegate is called like a request,
as the calls of one flow are told apart by name; `NothingSkippedCorrect` has `InOrder`, and
`StoresStayTrue` has `Alone` and `Fits`, as hypotheses without which the property is false (section 3).

*DelegateMonitor.* `SingleFlight` and `OneOpenCall` are not inductive: that a flag is set
exactly while its getter has one request does not say who waits for the answer. `CallsInv`
adds that each request belongs to an open call or to nobody, that after the first load
only getters of `emitData` work for an open call, and that a dead process waits for
nothing. Then a call can only open when every getter of `emitData` is idle, so no call is
open; a failing getter closes its call and hands the other requests to nobody; the last
answer closes a call that has all results. The proof has one lemma per group of
actions (`Type...`, `Calls...`); `AskFacts` states once what asking does, and
`NewestBlockType` what the only quantified pure operator returns. `OneChain` is inductive
by itself.

`Fresh` is the invariant behind the properties of what is shown. It follows every snapshot on
its way: none is newer than the node (`Past`), none of those that will replace something is older
than what it replaces (`Ahead`), a call that collects has, or has a request for, both snapshots its
data come from (`Answered`), the delegates `getLastBlocks` still asks for show no block
(`Missing`), and whoever is not active carries no flag into the next list (`Marked`).
`NothingGoesBack` needs `OneChain` for the last block, and `SingleFlight` for the forgers: a
second request of the same getter could overtake the first. `CompleteData` says what a call that
has all its answers knows.

*DelegateCache.* `CleanListExact` speaks of a list that has been loaded; `Progress` adds what a load has so
far: the beginning of the ranking, if it has seen one only, and never more than there is. A list that
is full to the brim is complete because the node has no more delegates than names (`Ranked`).
`StandbyCorrect` compares two cuts of one list, whose names occur once (`NamesOnce`).

*ActivityGraph.* `ViewNeverGoesBack` needs that no client was shown more than `data` hold
(`Bound`): data only shrink when nobody is connected. `Inv` joins `Bound`, the two
conditions on timers and flag, and the types, of which the bound on `timers` itself
rests on `OneTimer`. `CompleteFacts` and `EmitFacts` say what the two operators shared
by several actions do.

*Header.* `Inv` adds to types and `OneLiveCall` what a call remembers: one that waits has
begun with both requests (`Begun`), is the first or began on a loaded header, and, while it
is live, began when the node was at least as high as the data (`Fresh`); a process that is
down has no calls (`Down`). So the status of a call that succeeds is never older than the
data it replaces. There is one lemma per kind of step (`InvBegin`, `InvAnswer`,
`InvFirstFailure`, `InvSecondFailure`, `InvUnchanged`).

*KnownAddresses.* `NothingSkipped` says nothing of the checks under way. `Collected` does: a check has
all that is behind its offset now, except for what was confirmed after its first page, which is
newer than the newest it has; so a page border that moves makes it read twice and never skip.
`Before` says that whatever was there before a check's starting point has its name or was refused one (`unwritten`), and `Seen` that
a starting point is a timestamp on the chain: what is confirmed later is newer.

*NetworkMonitor.* `ListedOnce` needs the same of the list that is being read (`Collected`): the
addresses in it are those that were noted, each once.

*ApiRequest.* The requests of a handler are data here (the tables of the API modules), so the
first lemmas are about the tables: which operations are one flow (`LoneTable`) and which are several
(`ChainedTable`), that the flows of the searches never have two calls under way (`Sequential`), and that no
flow asks for a call it does not have (`GoodTable`). `CallsInv` then says which calls may be without a
reply when a request has been answered: none of a search, and of another handler only those of a
flow that has ended in an error, whose replies can at most call the error function once more,
which ends the process. That gives
the refinement of `Handler`, step by step. `ReadInv` puts what was read between the node at the
beginning of the request and the node now (`HeightRead`, `Confirmed`), and says of the statistics that
the blocks counted reach without a gap down to where the next page begins or lower (`PagesMeet`);
`Listed` that the newest transactions are those of some set of confirmed transactions between the two moments,
and in the end of that set and the pool. What sorting does is proved once, for any total order on
any finite set: `ArrangedIs` (its elements, each once, in order) rests on `RankOnto`, every rank
is taken by one element. `NewestOf`, `ConcatenateIs` (the newest of the newest and others are the newest of
all) and `TopOfPart` follow, and for the unified search `ResultsAre`. `TypeInv` joins the types of what is
read with `LoneCalls`: the calls under way are calls of the flow.

*WebClient.* The invariant is one conjunct per page, as a behaviour has one page open, and the
proof that a step keeps it is one lemma per page (`ListKept`, `GraphKept`, `StatusKept`, `PeersKept`).
Each page's properties speak of what is shown; its invariant adds what is on its way.

- Accounts (`AccountsInv`): the one request under way is for the page at `offset`; while a
  page is awaited there are no buttons, which is what keeps more and less from overlapping with it; `offset` is the first entry of
  a page, at most one page behind the end; what `loadLess` would take away is the last page (`SpliceLess`).
  A failed load moves the offset all the same: from then on only this is kept, and
  `Whole`, which has the list as pages one behind the other, speaks of lists none of whose loads failed.
- Voters (`VotersSome`): some number of pages has come, and all voters of each version that all answers agree on up
  to their end; a link used twice asks for a page again, never for one further than the next, since
  the offset is that of one of the pages that have come (`VotersAgain`, `VotersFurther`). `offset` may go back.
- Transactions (`TxInv`): the offset asked for exists in the data of whichever answer, also of one kept
  in Redis (`Served`), as the node's list only grows; so the page shown is among its links (`LinksExist`, `TxNumbers`).
- The graph (`GraphInv`): it is, exactly, the graph of some set of blocks, and `indexes` the ids of its nodes and
  edges. `BlockAdded` says that `addBlock` leads from the graph of a set to that of the set with one
  block more; that needs `Closed`, which lets `addTx` leave out a transaction whose node is there
  already (from a fork) because all that belongs to it is there too.
- Peers (`PeersInv`): counts are those of the peers shown. Each count adds up by
  `CountsAddUp`: what is counted apart, value by value, is counted once, for any finite set of values.
- Delegates (`StatusInv`): there is no timer without a lost connection, which bounds the timers.

`AddBlockTxs`, `FlattenSeq` and `MapThenSumSet` are recursive functions or folds. What they compute is
proved by induction with sets in the place of predicates (`Induction`, `SetInduction`: a set of naturals or of
subsets that a counterexample would have a smallest member of), from the equations of the
functions, whose existence is proved the same way (`SumExists`, `TxsExist`, `FlatExists`).

*Candles, Exchanges, MarketWatcher and Market.* `StepsAre` takes a step apart: each part of the market
data makes a step of its own or stays as it is, and the history (`HistoryInv`) moves on by a tick, a trade
or failures, of which the answers to one page may be several, or stays, so each invariant is proved against its own actions and against a history that moves on.

- Poloniex (`MinutesInv`): the trades of the minute candles follow one another from the first one on
  (`ChainFrom`); an update has collected, without a gap, what comes after them (`MinuteJob`), until its
  minutes are saved. A first page that fits has all trades after the last one saved
  (`FirstPage`); the page after it ends before them and holds nothing new (`LaterPage`), so the update
  goes on to save. `CandlesChain` says that grouping by period and leaving out the period that is not over
  keep a run of trades one, whatever the clock shows by then, as times never fall; `ChainTrades` and
  `ChainJoins` that appended chains have every trade once.
- Both hypotheses are needed. `Alone`: two processes read the same last candle and append the same
  trades. `Fits`: the second page ends a second before the oldest trade of the first, and trades
  of that second are lost. TLC finds `MinutesExact` violated without either.
  The types (`CandlesInv`) and Bittrex need neither.
- Bittrex (`BittrexInv`): the ticks of an update are those of some moment, newest first, and the list that is
  about to be saved is empty. `TickCandles` says which candles come of the ticks of a moment: rising periods,
  each with exactly its ticks; `FilledIs` that `FillGaps` makes of them one candle for every period
  from the first to the last. Candles saved remain those of that moment while the history grows (`GaplessStays`).
- Order books (`OrdersInv`): `TotalIs` shows that the fold that adds up a book is the sum over a set of
  indices, in whatever order it is taken, and `TotalLeft` that the bids, summed from the worst on and
  taken away from the whole, leave the sum of the better ones.
- The page (`WatchInv`): a chart is only drawn or about to be drawn once there is one (`PageFits`), no book is drawn that is not
  there, statistics and orders, when both are there, are of one exchange, and a load under way knows its exchange. `RefusesCounts`
  says that errors among the answers of one load are so many failures. Types of `Market` are consequences of
  these invariants and that of the rates (`RatesInv`).

Some definitions were put into a form the provers can expand, with the same values: lists are sorted by rank
(`Arranged` of `TransactionsApi`, a bijection in `Sorted` of `DelegateCache`) in place of a choice among
permutations, the peers are a set of entries, `Overlay` joins two tables, and `Since` counts the
registrations of a page in place of filtering them; `Picked` of `Candles` is `SelectSeq` with a set in place of a test,
written as a function. Choices whose arms overlap, which the code decides by
their order, are written `IF` ... `ELSE` in the modules of the web client.

Only model-checked:

- all liveness properties (`CatchesUp`, `NamesArrive`, `StaleGone`, `Located`, `AlwaysAnswered`,
  `AnswersSettle`, `LoadsEnd`, `PagesSettle`, `StoresRefresh`, `WatcherSettles`): fairness is beyond the prover.

## 5. Not modelled

Formatting, amounts, and everything listed as `not_modelled` in `PROJECT.json`, with the
reason there: the market watcher's namespace, whose handlers are empty, the news feed, parsing
and logging, configuration, and views that show one answer. Left out of modelled parts:
the texts of errors, the log, `totalDelegates` of the known addresses, which nothing reads, the
productivity of delegates, pages of transactions without a count (`predictivePagination`), and
`reloadMore`, which nothing calls. Redis commands of one
process are taken to be done in the order they are sent, as one connection does them.
