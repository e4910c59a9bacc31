------------------------------ MODULE Exchanges ------------------------------
(***************************************************************************)
(* What else the explorer takes from exchanges: the candles of Bittrex,    *)
(* whose lists are dropped and saved whole, the order books of both        *)
(* exchanges, one after the other, and the exchange rates.  The clock, the *)
(* history and the faults are those of Candles; here the history is that   *)
(* of Bittrex's ticks.                                                     *)
(***************************************************************************)
EXTENDS Candles

CONSTANTS
    Book,      \* order books: volumes of bids and asks, the best price first
    MaxBooks,  \* bound of the model: changes of books
    Currency,  \* the currencies with a price in BTC
    Load,      \* bound of the model: loads of the rates under way at a time
    MaxPrices  \* bound of the model: changes of prices

ASSUME ExchangesAssumption ==
    /\ \A b \in Book : DOMAIN b = {"bids", "asks"} /\ b.bids \in Seq(Nat) /\ b.asks \in Seq(Nat)
    /\ MaxBooks \in Nat /\ MaxPrices \in Nat \ {0}

VARIABLES
    bittrex,      \* the update of Bittrex's candles
    bittrexLists, \* Redis: its candles of each duration
    offers,       \* the exchanges' order books, and how often they have changed
    orders,       \* the update of the order books
    books,        \* Redis: the books with their depth
    price,        \* how often the prices have changed
    loads,        \* the loads of rates
    tickers       \* the rates the explorer answers with

bittrexVars == <<bittrex, bittrexLists>>
orderVars   == <<offers, orders, books>>
rateVars    == <<price, loads, tickers>>
exchangeVars == <<bittrexVars, orderVars, rateVars>>

Fault == failures < MaxFailures /\ failures' = failures + 1

-----------------------------------------------------------------------------
(* lib/candles/bittrex.js *)

\* candles: what is saved next.
NoUpdate == [step |-> "idle", ids |-> <<>>, done |-> 0, candles |-> <<>>]

\* fillGaps: a candle without ticks for each period that has none.
FillGaps(list, d) ==
    IF list = <<>> THEN list
    ELSE LET first == Head(list).period
         IN  [k \in 1 .. ((Last(list).period - first) \div d) + 1 |->
                LET p == first + (k - 1) * d
                IN  IF \E c \in Range(list) : c.period = p
                    THEN CHOOSE c \in Range(list) : c.period = p
                    ELSE [period |-> p, ids |-> <<>>]]

\* The interval of utils/candles.js; Poloniex comes first, and must not fail.
BittrexBegin ==
    /\ bittrex.step = "idle"
    /\ bittrex' = [NoUpdate EXCEPT !.step = "poloniex"]
    /\ UNCHANGED <<failures, bittrexLists>>

PoloniexUpdated ==
    /\ bittrex.step = "poloniex"
    /\ bittrex' = [bittrex EXCEPT !.step = "fetch"]
    /\ UNCHANGED <<failures, bittrexLists>>

\* retrieveTrades: all ticks there are, the last first; an answer may hold none.
BittrexFetch ==
    /\ bittrex.step = "fetch"
    /\ \/ /\ UNCHANGED failures
          /\ bittrex' = [bittrex EXCEPT !.ids = Reverse([i \in DOMAIN trades |-> i]),
                                        !.step = "again"]
       \/ /\ Fault
          /\ bittrex' = [bittrex EXCEPT !.step = "drop", !.done = 1]
    /\ UNCHANGED bittrexLists

\* The ticks have no id, so the second answer, whatever it holds, looks like the first
\* one and is the end.
BittrexAgain ==
    /\ bittrex.step = "again"
    /\ bittrex' = [bittrex EXCEPT !.step = "drop", !.done = 1]
    /\ UNCHANGED <<failures, bittrexLists>>

\* An invalid answer is asked for again.
BittrexInvalid ==
    /\ bittrex.step \in {"fetch", "again"} /\ Fault
    /\ UNCHANGED <<bittrex, bittrexLists>>

\* Mutant: the list of a duration is not deleted before its candles are saved again.
BittrexDrop_Keeps ==
    /\ bittrex.step = "drop"
    /\ \E candles \in {CandlesOf(bittrex.ids, Durations[bittrex.done])} :
         bittrex' = IF Len(candles) = 1 THEN NoUpdate
                    ELSE [bittrex EXCEPT !.step = "save",
                            !.candles = FillGaps(candles, Durations[bittrex.done])]
    /\ UNCHANGED <<bittrexLists, failures>>

\* Group, sum and fill for one duration by the clock of this time, then delete its list.
\* After a single candle the next one is read although there is none: the process ends.
BittrexDrop ==
    /\ bittrex.step = "drop"
    /\ \E candles \in {CandlesOf(bittrex.ids, Durations[bittrex.done])} :
         IF Len(candles) = 1
         THEN bittrex' = NoUpdate /\ UNCHANGED bittrexLists
         ELSE /\ bittrexLists' = [bittrexLists EXCEPT ![bittrex.done] = <<>>]
              /\ bittrex' = [bittrex EXCEPT !.step = "save",
                               !.candles = FillGaps(candles, Durations[bittrex.done])]
    /\ UNCHANGED failures

\* The candles are appended to the list, whatever it holds.
BittrexSave ==
    /\ bittrex.step = "save"
    /\ bittrexLists' = [bittrexLists EXCEPT ![bittrex.done] = @ \o bittrex.candles]
    /\ bittrex' = IF bittrex.done = Len(Durations) THEN NoUpdate
                  ELSE [bittrex EXCEPT !.step = "drop", !.done = @ + 1, !.candles = <<>>]
    /\ UNCHANGED failures

\* Poloniex, a request or Redis fails, or the process ends: a list that was deleted
\* stays empty until the next update.
BittrexGivesUp ==
    /\ bittrex.step # "idle" /\ Fault
    /\ bittrex' = NoUpdate
    /\ UNCHANGED bittrexLists

BittrexStep ==
    /\ \/ BittrexBegin \/ PoloniexUpdated \/ BittrexFetch \/ BittrexAgain \/ BittrexInvalid
       \/ BittrexDrop \/ BittrexSave \/ BittrexGivesUp
    /\ UNCHANGED <<now, trades>>

-----------------------------------------------------------------------------
(* utils/orders.js and lib/orders *)

Exchange == {"poloniex", "bittrex"}
EmptyBook == [bids |-> <<>>, asks |-> <<>>]
NoBook == [bids |-> <<>>, asks |-> <<>>, depth |-> <<>>]

\* The sum of a sequence from its first to its n-th member.
Total(volumes, n) == FoldLeft(+, 0, SubSeq(volumes, 1, n))

\* Mutant: the bids are summed from the best price on, but listed from the worst.
AddDepth_Forward(bids, asks) ==
    [bids |-> bids, asks |-> asks,
     depth |-> [i \in 1 .. Len(bids) |-> <<"bid", Total(bids, i)>>]
                 \o [i \in 1 .. Len(asks) |-> <<"ask", Total(asks, i)>>]]

\* acceptOrders and addDepth: the bids, turned round, take away their volume from that of
\* all; the asks add theirs up.
AddDepth(bids, asks) ==
    LET worst == Reverse(bids)
    IN  [bids |-> bids, asks |-> asks,
         depth |-> [i \in 1 .. Len(bids) |->
                      <<"bid", Total(worst, Len(worst)) - Total(worst, i)>>]
                     \o [i \in 1 .. Len(asks) |-> <<"ask", Total(asks, i)>>]]

NoOrders == [step |-> "idle", of |-> "poloniex", book |-> NoBook]

\* The interval: unless an update is under way, Poloniex is asked.
OrdersBegin ==
    /\ orders.step = "idle"
    /\ orders' = [NoOrders EXCEPT !.step = "ask"]
    /\ UNCHANGED <<failures, books>>

\* Bittrex takes as many asks as there are bids: of more it keeps the best, and if there
\* are fewer it reads one that is not there and the process ends.
OrdersArrive ==
    /\ orders.step = "ask"
    /\ LET b == offers.book[orders.of]
           n == Len(b.bids)
       IN  orders' = CASE orders.of = "poloniex" ->
                            [orders EXCEPT !.step = "save", !.book = AddDepth(b.bids, b.asks)]
                       [] orders.of = "bittrex" /\ n <= Len(b.asks) ->
                            [orders EXCEPT !.step = "save",
                                           !.book = AddDepth(b.bids, SubSeq(b.asks, 1, n))]
                       [] OTHER -> NoOrders
    /\ UNCHANGED <<failures, books>>

OrdersSave ==
    /\ orders.step = "save"
    /\ books' = [books EXCEPT ![orders.of] = orders.book]
    /\ orders' = IF orders.of = "bittrex" THEN NoOrders
                 ELSE [NoOrders EXCEPT !.step = "ask", !.of = "bittrex"]
    /\ UNCHANGED failures

\* An answer is an error or invalid, or Redis fails: the exchange after it is not asked.
OrdersGiveUp ==
    /\ orders.step # "idle" /\ Fault
    /\ orders' = NoOrders
    /\ UNCHANGED books

\* The exchanges' books change.
OffersChange ==
    /\ offers.changes < MaxBooks
    /\ \E e \in Exchange, b \in Book :
         offers' = [book |-> [offers.book EXCEPT ![e] = b], changes |-> offers.changes + 1]
    /\ UNCHANGED <<failures, orders, books>>

OrderStep ==
    /\ \/ (OrdersBegin \/ OrdersArrive \/ OrdersSave \/ OrdersGiveUp) /\ UNCHANGED offers
       \/ OffersChange
    /\ UNCHANGED <<now, trades>>

-----------------------------------------------------------------------------
(* utils/exchange.js and utils/exchange-api *)

LSK == "LSK"     \* the pair LSK/BTC, beside one pair for each currency
Pair == Currency \cup {LSK}
Missing == 0

\* The price of LSK in a currency: the product of two prices, each of its own time; not a
\* number without that of LSK.
NotANumber == <<"NaN">>
RateOf(prices, c) == IF prices[LSK] = Missing THEN NotANumber ELSE <<prices[LSK], prices[c]>>

NoLoad == [active |-> FALSE, asked |-> {}, prices |-> [p \in Pair |-> Missing]]

PricesChange ==
    /\ price < MaxPrices /\ price' = price + 1
    /\ UNCHANGED <<failures, loads, tickers>>

\* loadRates, each time the interval fires: all pairs are asked for at once.
LoadBegin(l) ==
    /\ ~loads[l].active
    /\ loads' = [loads EXCEPT ![l] = [NoLoad EXCEPT !.active = TRUE, !.asked = Pair]]
    /\ UNCHANGED <<failures, price, tickers>>

\* One price, or none: a failure is ignored.
PriceArrives(l, p) ==
    /\ p \in loads[l].asked
    /\ \/ /\ loads' = [loads EXCEPT ![l].asked = @ \ {p}, ![l].prices[p] = price]
          /\ UNCHANGED failures
       \/ /\ loads' = [loads EXCEPT ![l].asked = @ \ {p}]
          /\ Fault
    /\ UNCHANGED <<price, tickers>>

\* Mutant: rates that are there are kept.
LoadEnds_IfWhole(l) ==
    /\ loads[l].active /\ loads[l].asked = {}
    /\ tickers' = IF tickers # <<>> THEN tickers
                  ELSE [c \in {x \in Currency : loads[l].prices[x] # Missing} |->
                          RateOf(loads[l].prices, c)]
    /\ loads' = [loads EXCEPT ![l] = NoLoad]
    /\ UNCHANGED <<failures, price>>

\* All prices are there or missing: the rates are replaced, by those of an older load too.
LoadEnds(l) ==
    /\ loads[l].active /\ loads[l].asked = {}
    /\ tickers' = [c \in {x \in Currency : loads[l].prices[x] # Missing} |->
                     RateOf(loads[l].prices, c)]
    /\ loads' = [loads EXCEPT ![l] = NoLoad]
    /\ UNCHANGED <<failures, price>>

RateStep ==
    /\ \/ PricesChange
       \/ \E l \in Load :
            LoadBegin(l) \/ LoadEnds(l) \/ \E p \in Pair : PriceArrives(l, p)
    /\ UNCHANGED <<now, trades>>

-----------------------------------------------------------------------------

ExchangesInit ==
    /\ bittrex = NoUpdate /\ bittrexLists = [d \in DOMAIN Durations |-> <<>>]
    /\ offers = [book |-> [e \in Exchange |-> EmptyBook], changes |-> 0]
    /\ orders = NoOrders /\ books = [e \in Exchange |-> NoBook]
    /\ price = 1 /\ loads = [l \in Load |-> NoLoad] /\ tickers = <<>>

ExchangesTypeOK ==
    /\ bittrex.step \in {"idle", "poloniex", "fetch", "again", "drop", "save"}
    /\ bittrex.step \in {"drop", "save"} => bittrex.done \in DOMAIN Durations
    /\ \A d \in DOMAIN Durations : bittrexLists[d] \in Seq(Candle)
    /\ orders.step \in {"idle", "ask", "save"} /\ orders.of \in Exchange
    /\ offers.book \in [Exchange -> Book \cup {EmptyBook}] /\ offers.changes \in 0 .. MaxBooks
    /\ price \in 1 .. MaxPrices
    /\ \A l \in Load : loads[l].asked \subseteq Pair
                         /\ loads[l].prices \in [Pair -> {Missing} \cup 1 .. price]
    /\ DOMAIN tickers \subseteq Currency

-----------------------------------------------------------------------------
(* Properties. *)

\* lib/candles/bittrex.js: a list in Redis, also while an update is under way or after one
\* that broke off, is empty or has one candle for every period from its first to its last,
\* each with the ticks of its period up to some moment, none of them in two candles.
BittrexTrue ==
    \A d \in DOMAIN Durations :
        LET list == bittrexLists[d]
            span == Durations[d]
        IN  list # <<>> =>
              \E n \in DOMAIN trades :
                \A k \in DOMAIN list :
                  /\ list[k].period = Period(trades[1], span) + (k - 1) * span
                  /\ Range(list[k].ids) = {i \in 1 .. n : Period(trades[i], span) = list[k].period}

\* lib/orders: the depth beside a bid is the volume of all better bids, that beside an ask
\* the volume of the asks up to it; both are those of the book that is saved with it.
DepthTrue ==
    \A e \in Exchange :
        LET b == books[e]
            n == Len(b.bids)
        IN  /\ Len(b.depth) = n + Len(b.asks)
            /\ \A i \in 1 .. n :
                 b.depth[i] = <<"bid", MapThenSumSet(LAMBDA j : b.bids[j], 1 .. n - i)>>
            /\ \A i \in 1 .. Len(b.asks) :
                 b.depth[n + i] = <<"ask", MapThenSumSet(LAMBDA j : b.asks[j], 1 .. i)>>
=============================================================================
