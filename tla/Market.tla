-------------------------------- MODULE Market --------------------------------
(***************************************************************************)
(* The market data of the explorer: the updaters of Poloniex' and of       *)
(* Bittrex' candles, of the order books and of the rates, and the market   *)
(* page.  They share nothing but the running of one another's intervals,   *)
(* so a behaviour is about one of them and the others' state stays as it   *)
(* is.                                                                     *)
(***************************************************************************)
EXTENDS MarketWatcher

VARIABLE part   \* what the behaviour is about

MarketPart == {"poloniex", "bittrex", "orders", "rates", "watcher"}

marketVars == <<candleVars, exchangeVars, watchVars, part>>

\* What is stored for the page is of interest only where a behaviour is about the page.
MarketInit ==
    /\ part \in MarketPart /\ CandlesInit /\ ExchangesInit /\ WatchInit
    /\ part = "watcher" \/ ~stored.full["bittrex"]

\* The updater of Poloniex, with the clock and the history, which Bittrex has as well.
CandleStep ==
    /\ \/ part \in {"poloniex", "bittrex"} /\ (Clock \/ Trade)
       \/ part = "poloniex" /\ \E p \in Process : UpdateBegin(p) \/ Fetch(p) \/ Save(p) \/ GivesUp(p)
    /\ UNCHANGED <<exchangeVars, watchVars>>

MarketNext ==
    /\ \/ CandleStep
       \/ part = "bittrex" /\ BittrexStep /\ UNCHANGED <<lists, jobs, orderVars, rateVars, watchVars>>
       \/ part = "orders" /\ OrderStep /\ UNCHANGED <<lists, jobs, bittrexVars, rateVars, watchVars>>
       \/ part = "rates" /\ RateStep /\ UNCHANGED <<lists, jobs, bittrexVars, orderVars, watchVars>>
       \/ part = "watcher" /\ WatchStep /\ UNCHANGED <<lists, jobs, exchangeVars>>
    /\ UNCHANGED part

MarketSpec == MarketInit /\ [][MarketNext]_marketVars

FairPoloniex ==
    \A p \in Process : /\ WF_candleVars(part = "poloniex" /\ UpdateBegin(p))
                        /\ WF_candleVars(part = "poloniex" /\ Fetch(p))
                        /\ WF_candleVars(part = "poloniex" /\ Save(p))

FairBittrex ==
    /\ WF_bittrexVars(part = "bittrex" /\ BittrexBegin)
    /\ WF_bittrexVars(part = "bittrex" /\ PoloniexUpdated)
    /\ WF_bittrexVars(part = "bittrex" /\ BittrexFetch)
    /\ WF_bittrexVars(part = "bittrex" /\ BittrexAgain)
    /\ WF_bittrexVars(part = "bittrex" /\ BittrexDrop)
    /\ WF_bittrexVars(part = "bittrex" /\ BittrexSave)

FairOrders ==
    /\ WF_orderVars(part = "orders" /\ OrdersBegin /\ UNCHANGED offers)
    /\ WF_orderVars(part = "orders" /\ OrdersArrive /\ UNCHANGED offers)
    /\ WF_orderVars(part = "orders" /\ OrdersSave /\ UNCHANGED offers)

FairRates ==
    \A l \in Load : /\ WF_rateVars(part = "rates" /\ LoadBegin(l))
                    /\ WF_rateVars(part = "rates" /\ LoadEnds(l))
                    /\ \A p \in Pair : WF_rateVars(part = "rates" /\ PriceArrives(l, p))

FairWatcher ==
    /\ WF_watchVars(part = "watcher" /\ DrawStock)
    /\ WF_watchVars(part = "watcher" /\ DrawDepth)
    /\ \A q \in Query : /\ WF_watchVars(part = "watcher" /\ ExchangesArrive(q))
                        /\ WF_watchVars(part = "watcher" /\ Interval(q))
                        /\ WF_watchVars(part = "watcher" /\ AnswersArrive(q))

\* Every interval goes on firing, and every request, save and timer comes to its end.
FairMarketSpec ==
    MarketSpec /\ FairPoloniex /\ FairBittrex /\ FairOrders /\ FairRates /\ FairWatcher

-----------------------------------------------------------------------------
(* Properties. *)

MarketTypeOK == part \in MarketPart /\ CandlesTypeOK /\ ExchangesTypeOK /\ WatchTypeOK

\* lib/candles and lib/orders: at any moment, in the middle of an update and after one that
\* failed, what is in Redis is true: Poloniex' minutes have every trade once and in order,
\* Bittrex' lists have no gap and no tick twice, and the depth of a book is that of its offers.
StoresTrue == MinutesExact /\ BittrexTrue /\ DepthTrue

\* Every trade whose minute is over is in a minute candle.
PoloniexCurrent ==
    \A i \in DOMAIN trades :
        Period(now, Durations[1]) > trades[i] => i \in Range(TradesOf(lists[1]))

\* The candles are those of all ticks by now.  A duration with exactly one candle ends the
\* process each time, before a longer one is updated.
BittrexCurrent ==
    LET expected(d) == CandlesOf([i \in DOMAIN trades |-> i], Durations[d])
    IN  \/ \E d \in DOMAIN Durations : Len(expected(d)) = 1
        \/ \A d \in DOMAIN Durations : bittrexLists[d] = FillGaps(expected(d), Durations[d])

\* The books are the exchanges'.  Fewer asks than bids at Bittrex end the process each time.
BooksCurrent ==
    LET poloniex == offers.book["poloniex"]
        other    == offers.book["bittrex"]
        n        == Len(other.bids)
    IN  /\ books["poloniex"] = AddDepth(poloniex.bids, poloniex.asks)
        /\ n <= Len(other.asks) =>
             books["bittrex"] = AddDepth(other.bids, SubSeq(other.asks, 1, n))

RatesCurrent == tickers = [c \in Currency |-> <<price, price>>]

\* utils: each updater catches up with its exchange again and again, whatever failed before:
\* no failure leaves it running for ever, or what it stores out of date for good.
StoresRefresh ==
    []<>/\ part = "poloniex" => PoloniexCurrent
        /\ part = "bittrex" => BittrexCurrent
        /\ part = "orders" => BooksCurrent
        /\ part = "rates" => RatesCurrent
=============================================================================
