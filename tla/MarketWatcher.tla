---------------------------- MODULE MarketWatcher ----------------------------
(***************************************************************************)
(* The market page: market-watcher.service.js and the charts, over what    *)
(* lib/api/candles.js and lib/api/orders.js answer.  What the explorer has *)
(* stored of an exchange is a count of saves here: Empty while there are   *)
(* no minute candles, as between the drop and the save of Bittrex's lists. *)
(***************************************************************************)
EXTENDS Exchanges

CONSTANTS
    Query,     \* bound of the model: loads of the page under way at a time
    MaxSaves,  \* bound of the model: saves and drops of candles and books
    MaxClicks  \* bound of the model: clicks on exchanges, durations and tabs

ASSUME WatchAssumption == MaxSaves \in Nat /\ MaxClicks \in Nat

VARIABLES
    stored,   \* what is stored of each exchange
    page,     \* what the page has selected, holds and draws
    queries,  \* the page's loads under way
    clicks    \* clicks so far

watchVars == <<stored, page, queries, clicks>>

Empty == 0
NoData == <<>>
NoExchange == "none"
Tab == {"stockChart", "depthChart", "orderBook"}
Span == {"hour", "minute"}

NoQuery == [active |-> FALSE, exchange |-> NoExchange, duration |-> "hour", all |-> FALSE]

\* timers: the charts about to be drawn; drawn: those that show what the page holds; made: there
\* is a stock chart.
NewPage ==
    [step |-> "loading", exchange |-> NoExchange, duration |-> "hour", tab |-> "stockChart",
     newExchange |-> FALSE, newDuration |-> FALSE,
     candles |-> NoData, statistics |-> NoData, orders |-> NoData,
     timers |-> {}, drawn |-> {}, made |-> FALSE]

-----------------------------------------------------------------------------
(* The explorer. *)

Saved == stored.saves < MaxSaves

\* Candles of an exchange are saved, or, of Bittrex, dropped first.
CandlesStored(e) ==
    /\ Saved
    /\ \/ stored' = [stored EXCEPT !.candles[e] = @ + 1, !.full[e] = TRUE, !.saves = @ + 1]
       \/ /\ e = "bittrex" /\ stored.full[e]
          /\ stored' = [stored EXCEPT !.full[e] = FALSE, !.saves = @ + 1]
    /\ UNCHANGED <<failures, page, queries, clicks>>

BooksStored(e) ==
    /\ Saved /\ stored' = [stored EXCEPT !.books[e] = @ + 1, !.saves = @ + 1]
    /\ UNCHANGED <<failures, page, queries, clicks>>

\* getCandles: what there is, which may be nothing.
GetCandles(e, d) == <<e, d, IF stored.full[e] THEN stored.candles[e] ELSE Empty>>

\* getStatistics: an error without a minute candle.
GetStatistics(e) == IF stored.full[e] THEN <<e, stored.candles[e]>> ELSE NoData

\* getOrders: the book that was saved last, or none.
GetOrders(e) == <<e, stored.books[e]>>
-----------------------------------------------------------------------------
(* The page. *)

UpdateAll(p) == p.newExchange \/ ~p.newDuration

\* getData: candles are always asked for; statistics and orders unless only the duration
\* is new.
GetData(q, p) ==
    /\ ~queries[q].active
    /\ queries' = [queries EXCEPT ![q] = [active |-> TRUE, exchange |-> p.exchange,
                                          duration |-> p.duration, all |-> UpdateAll(p)]]
    /\ page' = p

\* setDuration with the page as setExchange left it.
SetDuration(q, p, d) ==
    GetData(q, [p EXCEPT !.duration = d, !.newDuration = (d # p.duration)])

\* getExchanges: the first exchange and the default duration are selected.
ExchangesArrive(q) ==
    /\ page.step = "loading"
    /\ GetData(q, [page EXCEPT !.step = "ready", !.exchange = "poloniex",
                               !.newExchange = TRUE, !.newDuration = TRUE])
    /\ UNCHANGED <<failures, stored, clicks>>

\* Nothing catches a failure: the page stays as it is.
ExchangesFail ==
    /\ page.step = "loading" /\ Fault
    /\ page' = [page EXCEPT !.step = "failed"]
    /\ UNCHANGED <<stored, queries, clicks>>

Interval(q) ==
    /\ page.step = "ready" /\ GetData(q, page)
    /\ UNCHANGED <<failures, stored, clicks>>

Click == page.step = "ready" /\ clicks < MaxClicks /\ clicks' = clicks + 1

ClickExchange(q, e) ==
    /\ Click
    /\ SetDuration(q, [page EXCEPT !.exchange = e, !.newExchange = (e # page.exchange)],
                   page.duration)
    /\ UNCHANGED <<failures, stored>>

\* The buttons are on the tab of the stock chart, once there is one.
ClickDuration(q, d) ==
    /\ Click /\ page.tab = "stockChart" /\ page.made
    /\ SetDuration(q, page, d)
    /\ UNCHANGED <<failures, stored>>

\* setTab: the chart of the new tab is drawn from what the page holds.
ClickTab(t) ==
    /\ Click /\ t # page.tab
    /\ page' = [page EXCEPT !.tab = t, !.timers = @ \cup ({t} \ {"orderBook"}),
                            !.made = @ \/ t = "stockChart"]
    /\ UNCHANGED <<failures, stored, queries>>

\* What is drawn is what the page holds unless something else has come.
Came(p) ==
    page' = [p EXCEPT !.drawn = {c \in @ : IF c = "stockChart" THEN p.candles = page.candles
                                           ELSE p.orders = page.orders}]

Done(q) == queries' = [queries EXCEPT ![q] = NoQuery]

\* What the page is given of an answer: an error, which comes as an answer like the others,
\* has no data.
Given(refused, what, answer) == IF what \in refused THEN NoData ELSE answer

\* The answers to r that are errors are those of refused: each is a failure of Redis.
Refuses(r, refused) ==
    /\ refused \subseteq (IF r.all THEN {"candles", "statistics", "orders"} ELSE {"candles"})
    /\ failures' = failures + Cardinality(refused) /\ failures' <= MaxFailures

\* The page with the candles of an answer to r.
WithCandles(r, refused) ==
    [page EXCEPT !.candles = Given(refused, "candles", GetCandles(r.exchange, r.duration)),
                 !.made = TRUE, !.timers = @ \cup {"stockChart"}]

\* Mutant: an answer without statistics leaves those that are there.
AnswersArrive_KeepsStatistics(q) ==
    LET r == queries[q]
        s == GetStatistics(r.exchange)
    IN  /\ r.active /\ Done(q)
        /\ \E refused \in SUBSET {"candles", "statistics", "orders"} :
             /\ Refuses(r, refused)
             /\ Came(IF r.all
                     THEN [WithCandles(r, refused) EXCEPT
                             !.statistics = IF s = NoData \/ "statistics" \in refused THEN @ ELSE s,
                             !.orders = Given(refused, "orders", GetOrders(r.exchange)),
                             !.timers = @ \cup {"depthChart"}]
                     ELSE WithCandles(r, refused))
        /\ UNCHANGED <<stored, clicks>>

\* All answers are there, taken here as of one moment: they are shown whatever is selected
\* by now, each for itself.  Errors come with status 200 and an object without data, so
\* they do not keep the other answers out, and what the page had of theirs is gone.
AnswersArrive(q) ==
    LET r == queries[q]
    IN  /\ r.active /\ Done(q)
        /\ \E refused \in SUBSET {"candles", "statistics", "orders"} :
             /\ Refuses(r, refused)
             /\ Came(IF r.all
                     THEN [WithCandles(r, refused) EXCEPT
                             !.statistics = Given(refused, "statistics", GetStatistics(r.exchange)),
                             !.orders = Given(refused, "orders", GetOrders(r.exchange)),
                             !.timers = @ \cup {"depthChart"}]
                     ELSE WithCandles(r, refused))
        /\ UNCHANGED <<stored, clicks>>

\* A request that gets no answer, or one of another status: nothing is shown of the others.
AnswerFails(q) ==
    /\ queries[q].active /\ Done(q) /\ Fault
    /\ UNCHANGED <<stored, page, clicks>>

\* Mutant: the flags are kept once the chart is drawn.
DrawStock_KeepsFlags ==
    /\ "stockChart" \in page.timers
    /\ LET p == [page EXCEPT !.timers = @ \ {"stockChart"}]
       IN  page' = IF page.tab # "stockChart" THEN p ELSE [p EXCEPT !.drawn = @ \cup {"stockChart"}]
    /\ UNCHANGED <<failures, stored, queries, clicks>>

\* updateCandles, after its timeout: on another tab by then, nothing is drawn and what is new
\* stays new.
DrawStock ==
    /\ "stockChart" \in page.timers
    /\ LET p == [page EXCEPT !.timers = @ \ {"stockChart"}]
       IN  page' = IF page.tab # "stockChart" THEN p
                   ELSE [p EXCEPT !.drawn = @ \cup {"stockChart"},
                                  !.newExchange = FALSE, !.newDuration = FALSE]
    /\ UNCHANGED <<failures, stored, queries, clicks>>

\* updateDepth: throws, and draws nothing, without a book.
DrawDepth ==
    /\ "depthChart" \in page.timers
    /\ LET p == [page EXCEPT !.timers = @ \ {"depthChart"}]
           drawn == page.tab = "depthChart" /\ page.orders # NoData /\ page.orders[2] # Empty
       IN  page' = IF drawn THEN [p EXCEPT !.drawn = @ \cup {"depthChart"}] ELSE p
    /\ UNCHANGED <<failures, stored, queries, clicks>>

WatchStep ==
    /\ \/ \E e \in Exchange : CandlesStored(e) \/ BooksStored(e)
       \/ ExchangesFail \/ DrawStock \/ DrawDepth
       \/ \E t \in Tab : ClickTab(t)
       \/ \E q \in Query :
            \/ ExchangesArrive(q) \/ Interval(q) \/ AnswersArrive(q) \/ AnswerFails(q)
            \/ \E e \in Exchange : ClickExchange(q, e)
            \/ \E d \in Span : ClickDuration(q, d)
    /\ UNCHANGED <<now, trades>>

\* Poloniex has been stored before, and Bittrex or not yet.
WatchInit ==
    /\ \E before \in {{"poloniex"}, Exchange} :
         LET saved == [e \in Exchange |-> IF e \in before THEN 1 ELSE Empty]
         IN  stored = [candles |-> saved, books |-> saved, saves |-> 0,
                       full |-> [e \in Exchange |-> e \in before]]
    /\ page = NewPage /\ queries = [q \in Query |-> NoQuery] /\ clicks = 0

WatchTypeOK ==
    /\ stored.saves \in 0 .. MaxSaves
    /\ \A e \in Exchange : stored.full[e] => stored.candles[e] > Empty
    /\ page.step \in {"loading", "ready", "failed"}
    /\ (page.step = "ready") = (page.exchange \in Exchange)
    /\ page.duration \in Span /\ page.tab \in Tab /\ page.timers \subseteq Tab \ {"orderBook"}
    /\ "stockChart" \in page.drawn => page.made
    /\ "depthChart" \in page.drawn => page.orders # NoData
    \* statistics and orders, when both are there, are of one exchange
    /\ page.statistics # NoData /\ page.orders # NoData =>
         page.statistics[1] = page.orders[1]

-----------------------------------------------------------------------------
(* Properties. *)

\* market-watcher.service.js: once nobody clicks and nothing more is saved, the page comes to
\* show the candles of the exchange and the duration selected, and the statistics and orders
\* of that exchange, each as it was saved last, and the chart of its tab draws them: answers
\* that come late, out of order or without data are made good by the interval.  Where there
\* are no minute candles these are no candles and no statistics.  One case is left out: with
\* a duration that is still new on another tab than the stock chart's, statistics and orders
\* are asked for no more.
WatcherSettles ==
    LET e      == page.exchange
        stale  == page.newDuration /\ ~page.newExchange /\ page.tab # "stockChart"
    IN  <>[](page.step = "ready" =>
                /\ page.candles = GetCandles(e, page.duration)
                /\ page.tab = "stockChart" => "stockChart" \in page.drawn
                /\ ~stale => /\ page.statistics = GetStatistics(e)
                             /\ page.orders = GetOrders(e)
                             /\ page.tab = "depthChart" /\ stored.books[e] # Empty =>
                                  "depthChart" \in page.drawn)
=============================================================================
