------------------------------- MODULE Candles -------------------------------
(***************************************************************************)
(* The candles of Poloniex: updateCandles of utils/candles.js, run by the  *)
(* explorer every thirty seconds and by hand (grunt candles:update), on    *)
(* top of lib/candles/abstract.js and poloniex.js.  An update reads the    *)
(* newest minute candle, fetches the trades since, and appends candles to  *)
(* the list of each duration.                                              *)
(*                                                                         *)
(* A trade is known by its id, its place in the exchange's history.  A     *)
(* candle keeps its period and the ids of its trades in the order of the   *)
(* group they were summed from: lastTrade, nextEnd, open, close and the    *)
(* volumes follow from these.                                              *)
(***************************************************************************)
EXTENDS Integers, SequencesExt

CONSTANTS
    Process,    \* the processes that update: the explorer, and the one started by hand
    Durations,  \* lengths of the durations, the shortest first
    PageLimit,  \* trades the exchange returns at most
    MaxTime,    \* bound of the model: the clock
    MaxTrades,  \* bound of the model: trades
    MaxFailures \* bound of the model: failed requests and crashes

ASSUME SizeAssumption ==
    /\ Durations \in Seq(Nat \ {0}) /\ Durations # <<>>
    /\ PageLimit \in Nat \ {0}
    /\ MaxTime \in Nat /\ MaxTrades \in Nat /\ MaxFailures \in Nat
    /\ 2 * Durations[1] <= MaxTime /\ MaxTrades >= 2
    /\ \A d \in 2 .. Len(Durations) : Durations[d] > 2 * Durations[1]

VARIABLES
    now,      \* the clock
    trades,   \* the exchange's history: when each trade was made
    failures, \* failed requests and crashes so far
    lists,    \* Redis: the candles of each duration, oldest first
    jobs      \* the update of each process

candleVars == <<now, trades, failures, lists, jobs>>

Always == MaxTime + 1   \* no end

\* done: the duration whose candles are saved next; since, last: of the newest minute
\* candle.
Idle == [step |-> "idle", since |-> 0, last |-> 0, end |-> Always, acc |-> <<>>, done |-> 0]

-----------------------------------------------------------------------------
(* Pure parts. *)

\* parseDate: the period of length d a time falls in.
Period(time, d) == (time \div d) * d

LastTrade(candle) == Last(candle.ids)
NextEnd(candle) == trades[Head(candle.ids)] - 1

\* sumTrades rejects the period that is not over.
Complete(period, d) == period < Period(now, d)

\* The first n trades.
Upto(n) == [k \in 1 .. n |-> k]

\* What a sequence has of a set, in its order.
Picked(s, S) ==
    LET picked[k \in 0 .. Len(s)] ==
            IF k = 0 THEN <<>>
            ELSE IF s[k] \in S THEN Append(picked[k - 1], s[k]) ELSE picked[k - 1]
    IN  picked[Len(s)]

\* groupTrades and sumTrades: a candle for each complete period, oldest first, its
\* trades in the order they were collected in.
CandlesOf(ids, d) ==
    LET Of(p)   == {i \in Range(ids) : Period(trades[i], d) = p}
        periods == Picked([k \in 1 .. now |-> k - 1],
                          {p \in {Period(trades[i], d) : i \in Range(ids)} : Complete(p, d)})
    IN  [k \in DOMAIN periods |-> [period |-> periods[k], ids |-> Picked(ids, Of(periods[k]))]]

\* The exchange: the newest trades between two times, newest first.
PageOf(start, end) ==
    LET found == Picked(Reverse(Upto(Len(trades))),
                        {i \in DOMAIN trades : trades[i] >= start /\ trades[i] <= end})
    IN  SubSeq(found, 1, IF Len(found) < PageLimit THEN Len(found) ELSE PageLimit)

\* validTrades: something new, and not what was collected before.
Valid(acc, page) ==
    /\ page # <<>>
    /\ acc # <<>> => Head(acc) # Last(page) /\ Last(acc) # Head(page)

-----------------------------------------------------------------------------

\* candles:build has run: two minutes are over, with a trade each, and nothing longer.
\* (With one candle of a duration the build ends in an error.)
CandlesInit ==
    /\ now = 2 * Durations[1] /\ trades = <<0, Durations[1]>> /\ failures = 0
    /\ lists = [d \in DOMAIN Durations |->
                  IF d = 1 THEN <<[period |-> 0, ids |-> <<1>>],
                                  [period |-> Durations[1], ids |-> <<2>>]>>
                           ELSE <<>>]
    /\ jobs = [p \in Process |-> Idle]

Clock ==
    /\ now < MaxTime /\ now' = now + 1
    /\ UNCHANGED <<trades, failures, lists, jobs>>

Trade ==
    /\ Len(trades) < MaxTrades /\ trades' = Append(trades, now)
    /\ UNCHANGED <<now, failures, lists, jobs>>

\* updateCandles: unless one is under way, an update begins with the newest minute
\* candle.  Without one it ends at once.
UpdateBegin(p) ==
    /\ jobs[p].step = "idle" /\ lists[1] # <<>>
    /\ LET candle == Last(lists[1])
       IN  jobs' = [jobs EXCEPT ![p] = [Idle EXCEPT !.step = "fetch",
                                          !.since = NextEnd(candle),
                                          !.last = LastTrade(candle)]]
    /\ UNCHANGED <<now, trades, failures, lists>>

\* A page is turned round and put behind the others; without anything new the update goes
\* on to save.
Collected(job, page) ==
    IF Valid(job.acc, page)
    THEN [job EXCEPT !.acc = @ \o Reverse(page), !.end = trades[Last(page)] - 1]
    ELSE [job EXCEPT !.step = "save", !.done = 1]

\* Mutant: the trades that have been saved before are not rejected.
Fetch_Again(p) ==
    LET page == PageOf(jobs[p].since, jobs[p].end)
    IN  /\ jobs[p].step = "fetch"
        /\ jobs' = [jobs EXCEPT ![p] = Collected(@, page)]
        /\ UNCHANGED <<now, trades, failures, lists>>

\* retrieveTrades: the next page, older than the one before, without the trades
\* the newest candle has seen.
Fetch(p) ==
    LET page == Picked(PageOf(jobs[p].since, jobs[p].end), {i \in DOMAIN trades : i > jobs[p].last})
    IN  /\ jobs[p].step = "fetch"
        /\ jobs' = [jobs EXCEPT ![p] = Collected(@, page)]
        /\ UNCHANGED <<now, trades, failures, lists>>

\* Group, sum and append for one duration; the next one is summed later, by the
\* clock of that time.
Save(p) ==
    LET d == jobs[p].done
    IN  /\ jobs[p].step = "save"
        /\ lists' = [lists EXCEPT ![d] = @ \o CandlesOf(jobs[p].acc, Durations[d])]
        /\ jobs' = [jobs EXCEPT ![p] = IF d = Len(Durations) THEN Idle
                                       ELSE [@ EXCEPT !.done = d + 1]]
        /\ UNCHANGED <<now, trades, failures>>

\* A request or a save fails, or the process ends: what was collected is forgotten,
\* what was appended stays.
GivesUp(p) ==
    /\ jobs[p].step # "idle" /\ failures < MaxFailures
    /\ failures' = failures + 1
    /\ jobs' = [jobs EXCEPT ![p] = Idle]
    /\ UNCHANGED <<now, trades, lists>>

CandlesNext ==
    \/ Clock \/ Trade
    \/ \E p \in Process : UpdateBegin(p) \/ Fetch(p) \/ Save(p) \/ GivesUp(p)

CandlesSpec == CandlesInit /\ [][CandlesNext]_candleVars

-----------------------------------------------------------------------------
(* Properties. *)

\* The trades of a list of candles, in the order of the candles.
TradesOf(list) == FlattenSeq([k \in DOMAIN list |-> list[k].ids])

Candle == [period : 0 .. MaxTime, ids : Seq(1 .. MaxTrades)]

CandlesTypeOK ==
    /\ now \in 0 .. MaxTime /\ trades \in Seq(0 .. MaxTime) /\ failures \in 0 .. MaxFailures
    /\ \A d \in DOMAIN Durations : lists[d] \in Seq(Candle)
    /\ \A d \in DOMAIN Durations : \A candle \in Range(lists[d]) :
         \A i \in Range(candle.ids) : Period(trades[i], Durations[d]) = candle.period
    /\ \A p \in Process :
         /\ jobs[p].step \in {"idle", "fetch", "save"}
         /\ jobs[p].acc \in Seq(1 .. Len(trades))
         /\ jobs[p].step = "save" => jobs[p].done \in DOMAIN Durations

\* The minute candles hold the first trades of the exchange, each exactly once and
\* in their order: no update, failed, interrupted or overtaken by the clock, loses
\* a trade or counts it twice.
MinutesExact ==
    LET ids == TradesOf(lists[1]) IN \A k \in DOMAIN ids : ids[k] = k

\* "During runtime the candlestick data is updated automatically": when no update is
\* under way, the trades that the minutes have and whose hour is over are in the hours.
HoursComplete ==
    (\A p \in Process : jobs[p].step = "idle") /\ lists[2] # <<>> =>
        \A i \in Range(TradesOf(lists[1])) :
            Period(trades[i], Durations[2]) <= Last(lists[2]).period
               => i \in Range(TradesOf(lists[2]))
==============================================================================
