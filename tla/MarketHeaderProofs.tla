-------------------------- MODULE MarketHeaderProofs --------------------------
(***************************************************************************)
(* Proofs about Market, the candles, order books and rates the explorer    *)
(* stores and the page that shows them, and, at the end, about Header.     *)
(*                                                                         *)
(* MarketTypeOK and StoresTrue are not inductive.  The lists and the       *)
(* updates of each exchange have an invariant of their own: what an update *)
(* holds continues, or replaces, what is stored, at whatever moment it was *)
(* asked for and however often the clock and the history have moved since. *)
(***************************************************************************)
EXTENDS Market, Header, FiniteSetTheorems, WellFoundedInduction, SequenceTheorems, TLAPS

-----------------------------------------------------------------------------
(* The inductive invariants. *)

\* A list of candles whose trades follow one another, the first one being a.
Consecutive(ids, a) == \A k \in DOMAIN ids : ids[k] = a + k - 1

\* Candles whose trades follow one another, within a candle and from one to the next.
ChainFrom(list, a) ==
    \A k \in DOMAIN list :
        /\ list[k].ids # <<>> /\ Consecutive(list[k].ids, list[k].ids[1])
        /\ k = 1 => list[k].ids[1] = a
        /\ k > 1 => list[k].ids[1] = LastTrade(list[k - 1]) + 1

\* The candles a list of Poloniex may hold: they have trades, all of their period.
Stored(d) ==
    {c \in [period : 0 .. MaxTime, ids : Seq(1 .. Len(trades))] :
        /\ c.ids # <<>>
        /\ \A i \in Range(c.ids) : Period(trades[i], Durations[d]) = c.period}

\* An update of Poloniex' candles.
Job == [step : {"idle", "fetch", "save"}, since : Int, last : Nat, end : Int,
        acc : Seq(1 .. Len(trades)), done : Nat]

\* The clock and the history: the trades are made in order, none of them later than now.
HistoryInv ==
    /\ now \in 0 .. MaxTime /\ trades \in Seq(0 .. MaxTime) /\ failures \in 0 .. MaxFailures
    /\ Len(trades) \in 1 .. MaxTrades
    /\ \A i, j \in DOMAIN trades : i <= j => trades[i] <= trades[j]
    /\ \A i \in DOMAIN trades : trades[i] <= now

\* What Poloniex' lists and updates hold, with any number of processes.
CandlesInv ==
    /\ DOMAIN lists = DOMAIN Durations
    /\ \A d \in DOMAIN Durations : lists[d] \in Seq(Stored(d))
    /\ jobs \in [Process -> Job]
    /\ \A p \in Process : jobs[p].step = "save" => jobs[p].done \in DOMAIN Durations

\* The last trade the minutes have.
Seen == LastTrade(Last(lists[1]))

\* An update has collected, oldest first and without a gap, what comes after the last trade
\* of the minutes, until the minutes are saved.
MinuteJob(j) ==
    /\ j.step = "fetch" =>
         /\ j.last = Seen /\ j.since <= trades[Seen]
         /\ IF j.acc = <<>> THEN j.end = Always
            ELSE Consecutive(j.acc, Seen + 1) /\ j.end < trades[Seen + 1]
    /\ j.step = "save" /\ j.done = 1 => Consecutive(j.acc, Seen + 1)

\* Why the minutes are exact: their trades follow one another from the first one on, and what
\* an update is about to append follows them.
MinutesInv ==
    /\ lists[1] # <<>> /\ ChainFrom(lists[1], 1)
    /\ \A p \in Process : MinuteJob(jobs[p])

\* A candle of Bittrex, which may have no ticks.
Ticks == [period : 0 .. MaxTime, ids : Seq(1 .. Len(trades))]

\* What BittrexTrue says of one list.
Gapless(list, span) ==
    list # <<>> =>
      \E n \in DOMAIN trades :
        \A k \in DOMAIN list :
          /\ list[k].period = Period(trades[1], span) + (k - 1) * span
          /\ Range(list[k].ids) = {i \in 1 .. n : Period(trades[i], span) = list[k].period}

\* An update of Bittrex' candles.
TickUpdate == [step : {"idle", "poloniex", "fetch", "again", "drop", "save"},
               ids : Seq(1 .. Len(trades)), done : Nat, candles : Seq(Ticks)]

\* Why Bittrex' lists are true: an update holds the newest ticks of some moment, all of them;
\* a list that is about to be saved is empty, and what is saved has no gap either.
BittrexInv ==
    /\ bittrex \in TickUpdate
    /\ bittrex.step \in {"drop", "save"} => bittrex.done \in DOMAIN Durations
    /\ \E n \in 0 .. Len(trades) : bittrex.ids = Reverse(Upto(n))
    /\ DOMAIN bittrexLists = DOMAIN Durations
    /\ \A d \in DOMAIN Durations :
         bittrexLists[d] \in Seq(Ticks) /\ Gapless(bittrexLists[d], Durations[d])
    /\ bittrex.step = "save" =>
         bittrexLists[bittrex.done] = <<>> /\ Gapless(bittrex.candles, Durations[bittrex.done])

\* What DepthTrue says of one book.
DepthOf(b) ==
    LET n == Len(b.bids)
    IN  /\ Len(b.depth) = n + Len(b.asks)
        /\ \A i \in 1 .. n :
             b.depth[i] = <<"bid", MapThenSumSet(LAMBDA j : b.bids[j], 1 .. n - i)>>
        /\ \A i \in 1 .. Len(b.asks) :
             b.depth[n + i] = <<"ask", MapThenSumSet(LAMBDA j : b.asks[j], 1 .. i)>>

\* The books that are saved, and the one about to be saved, have the depth of their orders.
OrdersInv ==
    /\ orders.step \in {"idle", "ask", "save"} /\ orders.of \in Exchange
    /\ orders = [step |-> orders.step, of |-> orders.of, book |-> orders.book]
    /\ offers = [book |-> offers.book, changes |-> offers.changes]
    /\ offers.book \in [Exchange -> Book \cup {EmptyBook}] /\ offers.changes \in 0 .. MaxBooks
    /\ DOMAIN books = Exchange /\ \A e \in Exchange : DepthOf(books[e])
    /\ orders.step = "save" => DepthOf(orders.book)

\* A load of rates when n prices have been there.
Loading(n) ==
    [active : BOOLEAN, asked : SUBSET Pair, prices : [Pair -> {Missing} \cup 1 .. n]]

\* The rates and their loads.
RatesInv ==
    /\ price \in 1 .. MaxPrices
    /\ loads \in [Load -> Loading(price)]
    /\ DOMAIN tickers \subseteq Currency

\* What the market page may hold.
PageType ==
    [step : {"loading", "ready", "failed"}, exchange : Exchange \cup {NoExchange},
     duration : Span, tab : Tab, newExchange : BOOLEAN, newDuration : BOOLEAN,
     candles : {NoData} \cup (Exchange \X Span \X Nat),
     statistics : {NoData} \cup (Exchange \X Nat), orders : {NoData} \cup (Exchange \X Nat),
     timers : SUBSET (Tab \ {"orderBook"}), drawn : SUBSET (Tab \ {"orderBook"}), made : BOOLEAN]

\* What the parts of the page have to do with one another: a chart that is about to be drawn
\* or has been was made, and statistics and orders, when both are there, are of one exchange.
PageFits(p) ==
    /\ p \in PageType
    /\ (p.step = "ready") = (p.exchange \in Exchange)
    /\ "stockChart" \in p.drawn => p.made
    /\ "stockChart" \in p.timers => p.made
    /\ p.statistics # NoData /\ p.orders # NoData => p.statistics[1] = p.orders[1]

\* No book is drawn that is not there.
PageInv(p) == PageFits(p) /\ ("depthChart" \in p.drawn => p.orders # NoData)

\* A load of the page.
QueryType ==
    [active : BOOLEAN, exchange : Exchange \cup {NoExchange}, duration : Span, all : BOOLEAN]

\* A load under way is about an exchange.
Asks(q) == q \in QueryType /\ (q.active => q.exchange \in Exchange)

\* What is stored of the exchanges, as the page sees it.
StoredType ==
    [candles : [Exchange -> Nat], books : [Exchange -> Nat], saves : 0 .. MaxSaves,
     full : [Exchange -> BOOLEAN]]

\* The explorer, the page and its loads.
WatchInv ==
    /\ stored \in StoredType
    /\ \A e \in Exchange : stored.full[e] => stored.candles[e] > Empty
    /\ PageInv(page)
    /\ DOMAIN queries = Query /\ \A q \in Query : Asks(queries[q])

\* The trades an update of Poloniex still asks for fit one page of the exchange.
Fits ==
    \A p \in Process : jobs[p].step = "fetch" =>
        Cardinality({i \in DOMAIN trades : jobs[p].since <= trades[i] /\ trades[i] <= jobs[p].end})
            <= PageLimit

-----------------------------------------------------------------------------
(* Induction over numbers and over the subsets of a finite set: sets take the *)
(* place of predicates.                                                       *)

\* A set of naturals has a least member.
LEMMA SmallestOf ==
    ASSUME NEW T, T \subseteq Nat, T # {}
    PROVE  \E x \in T : \A y \in T : x <= y
<1> DEFINE R == OpToRel(<, Nat)
<1>1. PICK x \in T : \A y \in T : ~ (<<y, x>> \in R)
  BY NatLessThanWellFounded, WFMin, Zenon
<1>2. \A i, j \in Nat : i < j => <<i, j>> \in R
  BY DEF OpToRel
<1> HIDE DEF R
<1>3. \A y \in T : y \in Nat /\ x \in Nat /\ ~ (y < x)
  BY <1>1, <1>2
<1> QED BY <1>3

\* What holds of zero, and of a number's successor with it, holds of all naturals.
LEMMA Induction ==
    ASSUME NEW T, 0 \in T, \A n \in Nat : n \in T => n + 1 \in T
    PROVE  Nat \subseteq T
<1> SUFFICES ASSUME Nat \ T # {} PROVE FALSE
  OBVIOUS
<1>1. PICK m \in Nat \ T : \A y \in Nat \ T : m <= y
  BY SmallestOf
<1>2. PICK k \in Nat : k + 1 = m
  BY m # 0
<1>3. k \in T
  BY <1>1, <1>2
<1> QED BY <1>1, <1>2, <1>3

\* What holds of a set if it holds of the set without any one member holds of all subsets.
LEMMA SetInduction ==
    ASSUME NEW U, IsFiniteSet(U), NEW T,
           \A s \in SUBSET U : (\A x \in s : s \ {x} \in T) => s \in T
    PROVE  SUBSET U \subseteq T
<1> DEFINE G == {n \in Nat : \A s \in SUBSET U : Cardinality(s) = n => s \in T}
<1>1. ASSUME NEW s \in SUBSET U
      PROVE  IsFiniteSet(s) /\ Cardinality(s) \in Nat
  BY FS_Subset, FS_CardinalityType
<1>2. 0 \in G
  <2> SUFFICES ASSUME NEW s \in SUBSET U, Cardinality(s) = 0 PROVE s \in T
    OBVIOUS
  <2>1. s = {}
    BY <1>1, FS_EmptySet
  <2> QED BY <2>1
<1>3. ASSUME NEW n \in Nat, n \in G PROVE n + 1 \in G
  <2> SUFFICES ASSUME NEW s \in SUBSET U, Cardinality(s) = n + 1 PROVE s \in T
    OBVIOUS
  <2>1. ASSUME NEW x \in s PROVE s \ {x} \in T
    <3>1. Cardinality(s \ {x}) = Cardinality(s) - 1
      BY <1>1, FS_RemoveElement
    <3>2. Cardinality(s \ {x}) = n
      BY <3>1
    <3> QED BY <1>3, <3>2
  <2> QED BY <2>1
<1> HIDE DEF G
<1>4. Nat \subseteq G
  BY <1>2, <1>3, Induction
<1> QED BY <1>1, <1>4 DEF G

-----------------------------------------------------------------------------
(* What is picked from a sequence. *)

\* What Picked computes step by step.
PickStep(h, s, S, k) ==
    IF k = 0 THEN <<>>
    ELSE IF s[k] \in S THEN Append(h[k - 1], s[k]) ELSE h[k - 1]

\* A function that computes these steps up to n.
Picks(h, s, S, n) == h = [k \in 0 .. n |-> PickStep(h, s, S, k)]

\* Picked is what the last value of the step function is.
LEMMA PickedDef ==
    ASSUME NEW s, NEW S
    PROVE  Picked(s, S) = (CHOOSE h : Picks(h, s, S, Len(s)))[Len(s)]
BY DEF Picked, PickStep, Picks

\* There is such a function.
LEMMA PicksExist ==
    ASSUME NEW s, NEW S, NEW n \in Nat
    PROVE  \E h : Picks(h, s, S, n)
<1> DEFINE Till(h, m) == h = [k \in 0 .. m |-> PickStep(h, s, S, k)]
           G == {m \in Nat : \E h : Till(h, m)}
<1>1. 0 \in G
  <2> DEFINE h == [k \in 0 .. 0 |-> <<>>]
  <2>1. Till(h, 0)
    <3>1. \A k \in 0 .. 0 : PickStep(h, s, S, k) = <<>>
      BY DEF PickStep
    <3> QED BY <3>1
  <2> HIDE DEF h, Till
  <2> QED BY <2>1
<1>2. ASSUME NEW m \in Nat, m \in G PROVE m + 1 \in G
  <2>1. PICK h : Till(h, m)
    BY <1>2
  <2> DEFINE g == [k \in 0 .. m + 1 |-> PickStep(h, s, S, k)]
  <2>2. \A k \in 0 .. m : g[k] = h[k]
    BY <2>1
  <2>3. \A k \in 0 .. m + 1 : PickStep(h, s, S, k) = PickStep(g, s, S, k)
    <3> SUFFICES ASSUME NEW k \in 0 .. m + 1, k # 0 PROVE h[k - 1] = g[k - 1]
      BY Zenon DEF PickStep
    <3>1. k - 1 \in 0 .. m
      OBVIOUS
    <3> HIDE DEF g
    <3> QED BY <2>2, <3>1
  <2>4. Till(g, m + 1)
    BY <2>3
  <2> HIDE DEF g, Till
  <2>5. m + 1 \in Nat
    OBVIOUS
  <2> QED BY <2>4, <2>5
<1> HIDE DEF G
<1>3. n \in G
  BY <1>1, <1>2, Induction
<1> QED BY <1>3 DEF G, Picks

\* One value of a sequence comes before another in an order only if it is that way.
Ordered(s, R) == \A i, j \in DOMAIN s : i < j => <<s[i], s[j]>> \in R

\* One of the first n members is x.
Has(s, n, x) == \E k \in 1 .. n : s[k] = x

\* What is picked is of the sequence and of the set, all of it, and in the same order.
LEMMA PickedIs ==
    ASSUME NEW T, NEW s \in Seq(T), NEW S, NEW R, Ordered(s, R)
    PROVE  LET r == Picked(s, S)
           IN  /\ r \in Seq(T) /\ Ordered(r, R) /\ Len(r) \in Nat /\ DOMAIN r = 1 .. Len(r)
               /\ \A x \in T : Has(r, Len(r), x) <=> (x \in S /\ Has(s, Len(s), x))
<1>0. /\ Len(s) \in Nat /\ DOMAIN s = 1 .. Len(s)
      /\ \A k \in 1 .. Len(s) : s[k] \in T
  BY LenProperties, ElementOfSeq
<1> DEFINE n == Len(s)
           h == CHOOSE h : Picks(h, s, S, n)
<1>1. Picks(h, s, S, n)
  <2>1. \E g : Picks(g, s, S, n)
    BY <1>0, PicksExist
  <2> QED BY <2>1
<1>2. Picked(s, S) = h[n]
  BY PickedDef
<1> HIDE DEF h
<1> DEFINE Good(r, m) == /\ r \in Seq(T) /\ Ordered(r, R)
                         /\ \A x \in T : Has(r, Len(r), x) <=> (x \in S /\ Has(s, m, x))
           G == {m \in Nat : m <= n => Good(h[m], m)}
<1>3. \A m \in 0 .. n : h[m] = PickStep(h, s, S, m)
  BY <1>1, Zenon DEF Picks
<1>4. 0 \in G
  <2>1. h[0] = <<>>
    <3>1. 0 \in 0 .. n
      BY <1>0
    <3> QED BY <1>3, <3>1 DEF PickStep
  <2>2. <<>> \in Seq(T) /\ Len(<<>>) = 0 /\ DOMAIN <<>> = 1 .. 0
    BY EmptySeq, LenProperties
  <2>3. Good(<<>>, 0)
    BY <2>2 DEF Ordered, Has
  <2> HIDE DEF Good
  <2> QED BY <2>1, <2>3
<1>5. ASSUME NEW m \in Nat, m \in G PROVE m + 1 \in G
  <2> SUFFICES ASSUME m + 1 <= n PROVE Good(h[m + 1], m + 1)
    OBVIOUS
  <2>0. m + 1 \in 0 .. n /\ m + 1 # 0 /\ (m + 1) - 1 = m /\ m + 1 \in 1 .. n /\ m <= n /\ n \in Nat
    BY <1>0
  <2>1. h[m + 1] = IF s[m + 1] \in S THEN Append(h[m], s[m + 1]) ELSE h[m]
    <3>1. h[m + 1] = PickStep(h, s, S, m + 1)
      BY <1>3, <2>0
    <3> QED BY <2>0, <3>1, Zenon DEF PickStep
  <2>2. Good(h[m], m)
    BY <1>5, <2>0
  <2>3. \A x : Has(s, m + 1, x) <=> (Has(s, m, x) \/ x = s[m + 1])
    BY <2>0 DEF Has
  <2>4. CASE s[m + 1] \notin S
    <3>1. h[m + 1] = h[m]
      BY <2>1, <2>4
    <3>2. Good(h[m], m + 1)
      BY <2>2, <2>3, <2>4, Zenon
    <3> HIDE DEF Good
    <3> QED BY <3>1, <3>2
  <2>5. CASE s[m + 1] \in S
    <3> DEFINE r == h[m]
               e == s[m + 1]
               t == Append(r, e)
    <3>0. r \in Seq(T) /\ e \in T /\ Ordered(r, R)
      BY <1>0, <2>0, <2>2
    <3> HIDE DEF r, e
    <3>1. /\ t \in Seq(T) /\ Len(t) = Len(r) + 1 /\ Len(r) \in Nat
          /\ \A i \in 1 .. Len(r) : t[i] = r[i]
          /\ t[Len(r) + 1] = e /\ DOMAIN t = 1 .. Len(r) + 1 /\ DOMAIN r = 1 .. Len(r)
      BY <3>0, AppendProperties, LenProperties
    <3> HIDE DEF t
    <3>2. \A x : Has(t, Len(t), x) <=> (Has(r, Len(r), x) \/ x = e)
      BY <3>1 DEF Has
    <3>3. ASSUME NEW i \in 1 .. Len(r) PROVE <<r[i], e>> \in R
      <4>1. r[i] \in T /\ Has(r, Len(r), r[i])
        BY <3>0, ElementOfSeq DEF Has
      <4>2. Has(s, m, r[i])
        BY <2>2, <4>1 DEF r
      <4>3. PICK k \in 1 .. m : s[k] = r[i]
        BY <4>2 DEF Has
      <4>4. k \in DOMAIN s /\ m + 1 \in DOMAIN s /\ k < m + 1
        BY <1>0, <2>0
      <4> QED BY <4>3, <4>4 DEF Ordered, e
    <3>4. Ordered(t, R)
      <4> SUFFICES ASSUME NEW i \in 1 .. Len(r) + 1, NEW j \in 1 .. Len(r) + 1, i < j
                   PROVE  <<t[i], t[j]>> \in R
        BY <3>1, Zenon DEF Ordered
      <4>1. i \in 1 .. Len(r) /\ t[i] = r[i]
        BY <3>1
      <4>2. CASE j = Len(r) + 1
        BY <3>1, <3>3, <4>1, <4>2
      <4>3. CASE j # Len(r) + 1
        <5>1. j \in 1 .. Len(r) /\ t[j] = r[j]
          BY <3>1, <4>3
        <5> QED BY <3>0, <3>1, <4>1, <5>1 DEF Ordered
      <4> QED BY <4>2, <4>3
    <3>5. \A x \in T : Has(t, Len(t), x) <=> (x \in S /\ Has(s, m + 1, x))
      <4>1. \A x \in T : Has(r, Len(r), x) <=> (x \in S /\ Has(s, m, x))
        BY <2>2 DEF r
      <4>2. \A x : Has(s, m + 1, x) <=> (Has(s, m, x) \/ x = e)
        BY <2>3 DEF e
      <4>3. e \in S
        BY <2>5 DEF e
      <4> QED BY <3>2, <4>1, <4>2, <4>3, Zenon
    <3>6. Good(t, m + 1)
      BY <3>1, <3>4, <3>5
    <3>7. h[m + 1] = t
      BY <2>1, <2>5 DEF t, r, e
    <3> HIDE DEF Good
    <3> QED BY <3>6, <3>7
  <2> QED BY <2>4, <2>5
<1> HIDE DEF G
<1>6. n \in G
  BY <1>0, <1>4, <1>5, Induction
<1>7. Good(h[n], n)
  BY <1>0, <1>6 DEF G
<1> QED BY <1>2, <1>7, LenProperties
-----------------------------------------------------------------------------
(* Numbers in order. *)

\* Each member is greater, or less, than those before.
Rising(s) == \A i, j \in DOMAIN s : i < j => s[i] < s[j]
Falling(s) == \A i, j \in DOMAIN s : i < j => s[j] < s[i]

\* What is picked from a rising sequence rises.
LEMMA PickedRises ==
    ASSUME NEW s \in Seq(Int), NEW S, Rising(s)
    PROVE  LET r == Picked(s, S)
           IN  /\ r \in Seq(Int) /\ Rising(r) /\ Len(r) \in Nat /\ DOMAIN r = 1 .. Len(r)
               /\ \A x \in Int : Has(r, Len(r), x) <=> (x \in S /\ Has(s, Len(s), x))
<1> DEFINE R == {p \in Int \X Int : p[1] < p[2]}
           r == Picked(s, S)
<1>1. \A x, y \in Int : <<x, y>> \in R <=> x < y
  OBVIOUS
<1>2. \A i \in DOMAIN s : s[i] \in Int
  BY LenProperties, ElementOfSeq
<1> HIDE DEF R
<1>3. Ordered(s, R)
  BY <1>1, <1>2 DEF Ordered, Rising
<1>4. /\ r \in Seq(Int) /\ Ordered(r, R) /\ Len(r) \in Nat /\ DOMAIN r = 1 .. Len(r)
      /\ \A x \in Int : Has(r, Len(r), x) <=> (x \in S /\ Has(s, Len(s), x))
  BY <1>3, PickedIs
<1> HIDE DEF r
<1>5. \A i \in DOMAIN r : r[i] \in Int
  BY <1>4, ElementOfSeq
<1>6. Rising(r)
  BY <1>1, <1>4, <1>5 DEF Ordered, Rising
<1> QED BY <1>4, <1>6 DEF r

\* What is picked from a falling sequence falls.
LEMMA PickedFalls ==
    ASSUME NEW s \in Seq(Int), NEW S, Falling(s)
    PROVE  LET r == Picked(s, S)
           IN  /\ r \in Seq(Int) /\ Falling(r) /\ Len(r) \in Nat /\ DOMAIN r = 1 .. Len(r)
               /\ \A x \in Int : Has(r, Len(r), x) <=> (x \in S /\ Has(s, Len(s), x))
<1> DEFINE R == {p \in Int \X Int : p[2] < p[1]}
           r == Picked(s, S)
<1>1. \A x, y \in Int : <<x, y>> \in R <=> y < x
  OBVIOUS
<1>2. \A i \in DOMAIN s : s[i] \in Int
  BY LenProperties, ElementOfSeq
<1> HIDE DEF R
<1>3. Ordered(s, R)
  BY <1>1, <1>2 DEF Ordered, Falling
<1>4. /\ r \in Seq(Int) /\ Ordered(r, R) /\ Len(r) \in Nat /\ DOMAIN r = 1 .. Len(r)
      /\ \A x \in Int : Has(r, Len(r), x) <=> (x \in S /\ Has(s, Len(s), x))
  BY <1>3, PickedIs
<1> HIDE DEF r
<1>5. \A i \in DOMAIN r : r[i] \in Int
  BY <1>4, ElementOfSeq
<1>6. Falling(r)
  BY <1>1, <1>4, <1>5 DEF Ordered, Falling
<1> QED BY <1>4, <1>6 DEF r

\* What is picked is of the same type as the sequence.
LEMMA PickedType ==
    ASSUME NEW T, NEW s \in Seq(T), NEW S
    PROVE  Picked(s, S) \in Seq(T)
<1> DEFINE R == T \X T
<1>1. Ordered(s, R)
  BY LenProperties, ElementOfSeq DEF Ordered
<1> HIDE DEF R
<1> QED BY <1>1, PickedIs

\* A sequence turned round.
LEMMA Reversed ==
    ASSUME NEW T, NEW s \in Seq(T)
    PROVE  /\ Reverse(s) \in Seq(T) /\ Len(Reverse(s)) = Len(s) /\ Len(s) \in Nat
           /\ DOMAIN Reverse(s) = 1 .. Len(s)
           /\ \A i \in 1 .. Len(s) : Reverse(s)[i] = s[(Len(s) - i) + 1]
           /\ \A x : Has(Reverse(s), Len(s), x) <=> Has(s, Len(s), x)
<1> DEFINE n == Len(s)
           r == Reverse(s)
<1>1. n \in Nat /\ \A i \in 1 .. n : s[i] \in T
  BY LenProperties, ElementOfSeq
<1>2. r = [i \in 1 .. n |-> s[(n - i) + 1]]
  BY DEF Reverse
<1> HIDE DEF n
<1>3. \A i \in 1 .. n : (n - i) + 1 \in 1 .. n /\ n - ((n - i) + 1) + 1 = i
  BY <1>1
<1>4. r \in [1 .. n -> T]
  BY <1>1, <1>2, <1>3
<1>5. r \in Seq(T)
  BY <1>1, <1>4
<1>6. \A i \in 1 .. n : r[i] = s[(n - i) + 1]
  BY <1>2
<1> HIDE DEF r
<1>7. Len(r) = n /\ DOMAIN r = 1 .. n
  BY <1>1, <1>4, <1>5, LenProperties
<1>8. ASSUME NEW x PROVE Has(r, n, x) <=> Has(s, n, x)
  <2>1. ASSUME Has(r, n, x) PROVE Has(s, n, x)
    BY <1>3, <1>6, <2>1 DEF Has
  <2>2. ASSUME Has(s, n, x) PROVE Has(r, n, x)
    <3>1. PICK i \in 1 .. n : s[i] = x
      BY <2>2 DEF Has
    <3>2. (n - i) + 1 \in 1 .. n /\ (n - ((n - i) + 1)) + 1 = i
      BY <1>1
    <3>3. r[(n - i) + 1] = s[i]
      BY <1>6, <3>2
    <3> QED BY <3>1, <3>2, <3>3 DEF Has
  <2> QED BY <2>1, <2>2
<1> QED BY <1>1, <1>5, <1>6, <1>7, <1>8 DEF n, r

\* A falling sequence turned round rises.
LEMMA ReverseRises ==
    ASSUME NEW s \in Seq(Int), Falling(s)
    PROVE  Rising(Reverse(s))
<1> DEFINE n == Len(s)
           r == Reverse(s)
<1>1. /\ DOMAIN r = 1 .. n /\ n \in Nat /\ DOMAIN s = 1 .. n
      /\ \A i \in 1 .. n : r[i] = s[(n - i) + 1]
  BY Reversed, LenProperties
<1> HIDE DEF n, r
<1>2. ASSUME NEW i \in 1 .. n, NEW j \in 1 .. n, i < j PROVE r[i] < r[j]
  <2>1. (n - i) + 1 \in 1 .. n /\ (n - j) + 1 \in 1 .. n /\ (n - j) + 1 < (n - i) + 1
    BY <1>1, <1>2
  <2>2. s[(n - j) + 1] > s[(n - i) + 1]
    BY <1>1, <2>1 DEF Falling
  <2> QED BY <1>1, <2>2
<1> QED BY <1>1, <1>2 DEF Rising, r

\* The first numbers.
LEMMA UptoIs ==
    ASSUME NEW n \in Nat
    PROVE  /\ Upto(n) \in Seq(1 .. n) /\ Len(Upto(n)) = n /\ DOMAIN Upto(n) = 1 .. n
           /\ \A k \in 1 .. n : Upto(n)[k] = k
           /\ \A x : Has(Upto(n), n, x) <=> x \in 1 .. n
<1>1. Upto(n) \in [1 .. n -> 1 .. n] /\ \A k \in 1 .. n : Upto(n)[k] = k
  BY DEF Upto
<1>2. Upto(n) \in Seq(1 .. n)
  BY <1>1
<1>3. Len(Upto(n)) = n /\ DOMAIN Upto(n) = 1 .. n
  BY <1>1, <1>2, LenProperties
<1> QED BY <1>1, <1>2, <1>3 DEF Has

\* The first numbers turned round.
LEMMA DownIs ==
    ASSUME NEW n \in Nat
    PROVE  LET r == Reverse(Upto(n))
           IN  /\ r \in Seq(1 .. n) /\ Len(r) = n /\ DOMAIN r = 1 .. n /\ Falling(r)
               /\ \A x : Has(r, n, x) <=> x \in 1 .. n
<1> DEFINE r == Reverse(Upto(n))
<1>1. /\ r \in Seq(1 .. n) /\ Len(r) = n /\ DOMAIN r = 1 .. n
      /\ \A i \in 1 .. n : r[i] = Upto(n)[(n - i) + 1]
      /\ \A x : Has(r, n, x) <=> Has(Upto(n), n, x)
  <2> DEFINE s == Upto(n)
  <2>1. s \in Seq(1 .. n) /\ Len(s) = n
    BY UptoIs
  <2> HIDE DEF s
  <2>2. /\ Reverse(s) \in Seq(1 .. n) /\ Len(Reverse(s)) = Len(s)
        /\ DOMAIN Reverse(s) = 1 .. Len(s)
        /\ \A i \in 1 .. Len(s) : Reverse(s)[i] = s[(Len(s) - i) + 1]
        /\ \A x : Has(Reverse(s), Len(s), x) <=> Has(s, Len(s), x)
    BY <2>1, Reversed
  <2> QED BY <2>1, <2>2 DEF s
<1> HIDE DEF r
<1>2. \A i \in 1 .. n : r[i] = (n - i) + 1
  <2>1. \A i \in 1 .. n : (n - i) + 1 \in 1 .. n
    OBVIOUS
  <2> QED BY <1>1, <2>1, UptoIs
<1>3. Falling(r)
  BY <1>1, <1>2 DEF Falling
<1>4. \A x : Has(r, n, x) <=> x \in 1 .. n
  BY <1>1, UptoIs
<1> QED BY <1>1, <1>3, <1>4 DEF r

\* A rising sequence that leaves out no number between two of its own.
LEMMA RisingByOne ==
    ASSUME NEW s \in Seq(Int), Rising(s),
           \A x \in Int : (\E i, j \in DOMAIN s : s[i] <= x /\ x <= s[j]) => Has(s, Len(s), x)
    PROVE  Consecutive(s, s[1])
<1>1. /\ Len(s) \in Nat /\ DOMAIN s = 1 .. Len(s)
      /\ \A i \in 1 .. Len(s) : s[i] \in Int
  BY LenProperties, ElementOfSeq
<1>0. \A i, j \in 1 .. Len(s) : i < j => s[i] < s[j]
  BY <1>1 DEF Rising
<1> DEFINE G == {k \in Nat : k + 1 \in 1 .. Len(s) => s[k + 1] = s[1] + k}
<1>2. 0 \in G
  <2>1. 0 + 1 = 1 /\ (1 \in 1 .. Len(s) => s[1] + 0 = s[1])
    BY <1>1
  <2> QED BY <2>1
<1>3. ASSUME NEW k \in Nat, k \in G PROVE k + 1 \in G
  <2> SUFFICES ASSUME (k + 1) + 1 \in 1 .. Len(s) PROVE s[(k + 1) + 1] = s[1] + (k + 1)
    OBVIOUS
  <2> DEFINE a == k + 1
             b == (k + 1) + 1
  <2>1. a \in 1 .. Len(s) /\ b \in 1 .. Len(s) /\ a < b /\ b = a + 1 /\ a \in Int
    BY <1>1
  <2>2. s[a] = s[1] + k
    BY <1>3, <2>1
  <2>20. k + 1 = a /\ (k + 1) + 1 = b
    OBVIOUS
  <2> HIDE DEF a, b
  <2>3. s[a] < s[b] /\ s[a] \in Int /\ s[b] \in Int
    BY <1>0, <1>1, <2>1
  <2>4. Has(s, Len(s), s[a] + 1)
    <3>1. s[a] + 1 \in Int /\ s[a] <= s[a] + 1 /\ s[a] + 1 <= s[b]
      BY <2>3
    <3> QED BY <1>1, <2>1, <3>1
  <2>5. PICK j \in 1 .. Len(s) : s[j] = s[a] + 1
    BY <2>4 DEF Has
  <2>6. ~ (j < a) /\ j # a
    <3>1. j < a => s[j] < s[a]
      BY <1>0, <2>1
    <3> QED BY <2>3, <2>5, <3>1
  <2>7. j = b \/ b < j
    BY <1>1, <2>1, <2>6
  <2>8. s[b] <= s[a] + 1
    <3>1. b < j => s[b] < s[j]
      BY <1>0, <2>1
    <3> QED BY <2>3, <2>5, <2>7, <3>1
  <2>9. s[1] \in Int
    BY <1>1, <2>1
  <2>10. s[b] = s[a] + 1
    BY <2>3, <2>8
  <2>11. s[b] = s[1] + (k + 1)
    <3> DEFINE f == s[1]
    <3>1. f \in Int /\ s[a] = f + k
      BY <2>2, <2>9
    <3> HIDE DEF f
    <3>2. s[b] = f + (k + 1)
      BY <2>10, <3>1
    <3> QED BY <3>2 DEF f
  <2> QED BY <2>11, <2>20
<1> HIDE DEF G
<1>4. Nat \subseteq G
  BY <1>2, <1>3, Induction
<1>5. ASSUME NEW i \in 1 .. Len(s) PROVE s[i] = (s[1] + i) - 1
  <2>1. i - 1 \in G /\ (i - 1) + 1 = i
    BY <1>1, <1>4
  <2>2. s[i] = s[1] + (i - 1)
    BY <2>1 DEF G
  <2>3. s[1] \in Int
    BY <1>1
  <2> QED BY <1>1, <2>2, <2>3
<1> QED BY <1>1, <1>5 DEF Consecutive
-----------------------------------------------------------------------------
(* Periods and candles. *)

\* A period begins at or before each time in it, and after the end of the one before.
LEMMA PeriodIs ==
    ASSUME NEW t \in Nat, NEW d \in Nat \ {0}
    PROVE  Period(t, d) \in Nat /\ Period(t, d) <= t /\ t < Period(t, d) + d
<1>1. \E q \in Nat, r \in Nat : r < d /\ q = t \div d /\ t = d * q + r
  <2>1. t \div d \in Nat /\ t % d \in 0 .. (d - 1)
    OBVIOUS
  <2>2. t = d * (t \div d) + (t % d)
    OBVIOUS
  <2> QED BY <2>1, <2>2
<1>2. PICK q \in Nat, r \in Nat : r < d /\ q = t \div d /\ t = d * q + r
  BY <1>1
<1>3. Period(t, d) = q * d
  BY <1>2 DEF Period
<1>4. d * q = q * d /\ q * d \in Nat
  OBVIOUS
<1>5. PICK m \in Nat : m = q * d
  BY <1>4
<1>6. Period(t, d) = m /\ t = m + r /\ r < d
  BY <1>2, <1>3, <1>4, <1>5
<1>7. m \in Nat /\ m <= t /\ t < m + d
  BY <1>6
<1> QED BY <1>6, <1>7, Zenon

\* A later time is in the same period or in a later one.
LEMMA PeriodRises ==
    ASSUME NEW t \in Nat, NEW u \in Nat, t <= u, NEW d \in Nat \ {0}
    PROVE  Period(t, d) <= Period(u, d)
<1>1. t \div d \in Nat /\ u \div d \in Nat /\ t \div d <= u \div d
  OBVIOUS
<1>2. PICK a \in Nat, b \in Nat : a = t \div d /\ b = u \div d /\ a <= b
  BY <1>1
<1>3. a * d <= b * d
  BY <1>2
<1> QED BY <1>2, <1>3 DEF Period

\* What a sequence has is its range.
LEMMA RangeHas ==
    ASSUME NEW T, NEW s \in Seq(T)
    PROVE  /\ \A x : x \in Range(s) <=> Has(s, Len(s), x)
           /\ Range(s) \subseteq T
<1>1. DOMAIN s = 1 .. Len(s) /\ \A k \in 1 .. Len(s) : s[k] \in T
  BY LenProperties, ElementOfSeq
<1> QED BY <1>1 DEF Range, Has

\* The candles of some trades: one for each complete period that has one of them, the
\* oldest first, each with the trades of its period.
CandlesFacts(cs, ids, d) ==
    /\ cs \in Seq(Ticks) /\ Len(cs) \in Nat /\ DOMAIN cs = 1 .. Len(cs)
    /\ \A k \in 1 .. Len(cs) :
         /\ Complete(cs[k].period, d)
         /\ cs[k].ids = Picked(ids, {i \in Range(ids) : Period(trades[i], d) = cs[k].period})
         /\ \E i \in DOMAIN trades : Has(ids, Len(ids), i) /\ Period(trades[i], d) = cs[k].period
    /\ \A j, k \in 1 .. Len(cs) : j < k => cs[j].period < cs[k].period
    /\ \A i \in DOMAIN trades :
         Has(ids, Len(ids), i) /\ Complete(Period(trades[i], d), d)
           => \E k \in 1 .. Len(cs) : cs[k].period = Period(trades[i], d)

\* The times before now.
LEMMA TimesBefore ==
    ASSUME NEW n \in Nat
    PROVE  LET s == [k \in 1 .. n |-> k - 1]
           IN  /\ s \in Seq(Int) /\ Len(s) = n /\ Rising(s)
               /\ \A x \in Int : Has(s, n, x) <=> x \in 0 .. n - 1
<1> DEFINE s == [k \in 1 .. n |-> k - 1]
<1>1. s \in [1 .. n -> Int] /\ \A k \in 1 .. n : s[k] = k - 1
  OBVIOUS
<1> HIDE DEF s
<1>2. s \in Seq(Int)
  BY <1>1
<1>3. Len(s) = n /\ DOMAIN s = 1 .. n
  BY <1>1, <1>2, LenProperties
<1>4. Rising(s)
  BY <1>1, <1>3 DEF Rising
<1>5. ASSUME NEW x \in Int PROVE Has(s, n, x) <=> x \in 0 .. n - 1
  <2>1. ASSUME x \in 0 .. n - 1 PROVE Has(s, n, x)
    <3>1. x + 1 \in 1 .. n /\ (x + 1) - 1 = x
      BY <2>1
    <3> QED BY <1>1, <3>1 DEF Has
  <2>2. ASSUME Has(s, n, x) PROVE x \in 0 .. n - 1
    <3>1. PICK k \in 1 .. n : s[k] = x
      BY <2>2 DEF Has
    <3>2. x = k - 1
      BY <1>1, <3>1
    <3> QED BY <3>2
  <2> QED BY <2>1, <2>2
<1> QED BY <1>2, <1>3, <1>4, <1>5 DEF s

\* A period and trades make a candle.
LEMMA TickIs ==
    ASSUME NEW a \in 0 .. MaxTime, NEW b \in Seq(1 .. Len(trades))
    PROVE  [period |-> a, ids |-> b] \in Ticks
BY DEF Ticks

\* What the history's type says of it.
LEMMA HistoryIs ==
    ASSUME HistoryInv
    PROVE  /\ now \in Nat /\ now <= MaxTime /\ MaxTime \in Nat
           /\ Len(trades) \in Nat /\ Len(trades) >= 1 /\ DOMAIN trades = 1 .. Len(trades)
           /\ \A i \in 1 .. Len(trades) : trades[i] \in Nat /\ trades[i] <= now
                                           /\ trades[i] \in 0 .. MaxTime
<1>1. /\ now \in 0 .. MaxTime /\ trades \in Seq(0 .. MaxTime) /\ Len(trades) \in 1 .. MaxTrades
      /\ \A i \in DOMAIN trades : trades[i] <= now
  BY DEF HistoryInv
<1>2. MaxTime \in Nat /\ now \in Nat /\ now <= MaxTime
  BY <1>1, SizeAssumption
<1>3. Len(trades) \in Nat /\ DOMAIN trades = 1 .. Len(trades)
  BY <1>1, LenProperties
<1>4. Len(trades) >= 1
  BY <1>1, SizeAssumption
<1>5. ASSUME NEW i \in 1 .. Len(trades)
      PROVE  trades[i] \in 0 .. MaxTime /\ trades[i] \in Nat /\ trades[i] <= now
  <2>1. trades[i] \in 0 .. MaxTime
    BY <1>1, ElementOfSeq
  <2>2. trades[i] <= now
    BY <1>1, <1>3
  <2> QED BY <2>1, <2>2
<1> QED BY <1>2, <1>3, <1>4, <1>5

\* A function on the first numbers is a sequence.
LEMMA Listed ==
    ASSUME NEW T, NEW n \in Nat, NEW f \in [1 .. n -> T]
    PROVE  f \in Seq(T) /\ Len(f) = n /\ DOMAIN f = 1 .. n
<1>1. f \in Seq(T)
  OBVIOUS
<1> QED BY <1>1, LenProperties

\* CandlesOf makes such candles of any sequence of trades.
LEMMA CandlesAre ==
    ASSUME HistoryInv, NEW ids \in Seq(1 .. Len(trades)), NEW d \in Nat \ {0}
    PROVE  CandlesFacts(CandlesOf(ids, d), ids, d)
<1> DEFINE Of(p) == {i \in Range(ids) : Period(trades[i], d) = p}
           P == {p \in {Period(trades[i], d) : i \in Range(ids)} : Complete(p, d)}
           times == [k \in 1 .. now |-> k - 1]
           ps == Picked(times, P)
           cs == [k \in DOMAIN ps |-> [period |-> ps[k], ids |-> Picked(ids, Of(ps[k]))]]
<1>1. CandlesOf(ids, d) = cs
  BY DEF CandlesOf
<1>2. /\ now \in Nat /\ now <= MaxTime /\ MaxTime \in Nat /\ Len(trades) \in Nat
      /\ DOMAIN trades = 1 .. Len(trades) /\ \A i \in 1 .. Len(trades) : trades[i] \in Nat
  BY HistoryIs
<1>3. \A i : i \in Range(ids) <=> Has(ids, Len(ids), i)
  BY RangeHas
<1>4. Range(ids) \subseteq 1 .. Len(trades)
  BY RangeHas
<1>5. /\ ps \in Seq(Int) /\ Rising(ps) /\ Len(ps) \in Nat /\ DOMAIN ps = 1 .. Len(ps)
      /\ \A x \in Int : Has(ps, Len(ps), x) <=> (x \in P /\ x \in 0 .. now - 1)
  <2> HIDE DEF P
  <2>1. /\ times \in Seq(Int) /\ Len(times) = now /\ Rising(times)
        /\ \A x \in Int : Has(times, now, x) <=> x \in 0 .. now - 1
    BY <1>2, TimesBefore
  <2> HIDE DEF times
  <2>2. /\ ps \in Seq(Int) /\ Rising(ps) /\ Len(ps) \in Nat /\ DOMAIN ps = 1 .. Len(ps)
        /\ \A x \in Int : Has(ps, Len(ps), x) <=> (x \in P /\ Has(times, Len(times), x))
    BY <2>1, PickedRises
  <2> QED BY <2>1, <2>2
<1> HIDE DEF ps
<1>6. \A p \in P : p \in 0 .. now - 1 /\ Complete(p, d) /\ \E i \in Range(ids) : p = Period(trades[i], d)
  <2> SUFFICES ASSUME NEW p \in P PROVE p \in 0 .. now - 1
    OBVIOUS
  <2>1. PICK i \in Range(ids) : p = Period(trades[i], d)
    OBVIOUS
  <2>2. p \in Nat
    BY <1>2, <1>4, <2>1, PeriodIs
  <2>3. p < Period(now, d)
    BY DEF Complete
  <2>4. Period(now, d) \in Nat /\ Period(now, d) <= now
    BY <1>2, PeriodIs
  <2> QED BY <1>2, <2>2, <2>3, <2>4
<1>7. \A i \in Range(ids) : Complete(Period(trades[i], d), d) => Period(trades[i], d) \in P
  OBVIOUS
<1> HIDE DEF P
<1>8. \A k \in 1 .. Len(ps) : ps[k] \in P
  <2> TAKE k \in 1 .. Len(ps)
  <2>1. ps[k] \in Int /\ Has(ps, Len(ps), ps[k])
    BY <1>5, ElementOfSeq DEF Has
  <2> QED BY <1>5, <2>1
<1>9. DOMAIN cs = 1 .. Len(ps)
  BY <1>5
<1>10. \A k \in 1 .. Len(ps) : /\ cs[k].period = ps[k] /\ cs[k].ids = Picked(ids, Of(ps[k]))
                               /\ cs[k] = [period |-> ps[k], ids |-> Picked(ids, Of(ps[k]))]
  <2> HIDE DEF Of
  <2> QED BY <1>5
<1>11. \A k \in 1 .. Len(ps) : cs[k] \in Ticks
  <2> TAKE k \in 1 .. Len(ps)
  <2>1. ps[k] \in 0 .. MaxTime
    BY <1>2, <1>6, <1>8
  <2>2. Picked(ids, Of(ps[k])) \in Seq(1 .. Len(trades))
    <3> HIDE DEF Of
    <3> QED BY PickedType
  <2>3. cs[k] = [period |-> ps[k], ids |-> Picked(ids, Of(ps[k]))]
    <3> HIDE DEF Of, cs
    <3> QED BY <1>10
  <2> HIDE DEF Of, cs
  <2> QED BY <2>1, <2>2, <2>3, TickIs
<1>12. cs = [k \in 1 .. Len(ps) |-> cs[k]]
  <2> HIDE DEF Of
  <2> QED BY <1>5
<1> HIDE DEF cs
<1>13. cs \in [1 .. Len(ps) -> Ticks]
  BY <1>11, <1>12
<1>14. cs \in Seq(Ticks)
  BY <1>5, <1>13, Listed
<1>15. Len(cs) = Len(ps) /\ DOMAIN cs = 1 .. Len(cs)
  BY <1>5, <1>13, Listed
<1>16. ASSUME NEW k \in 1 .. Len(cs)
       PROVE  /\ Complete(cs[k].period, d)
              /\ cs[k].ids = Picked(ids, Of(cs[k].period))
              /\ \E i \in DOMAIN trades : Has(ids, Len(ids), i) /\ Period(trades[i], d) = cs[k].period
  <2>1. k \in 1 .. Len(ps) /\ ps[k] \in P /\ cs[k].period = ps[k]
    BY <1>8, <1>10, <1>15
  <2>2. PICK i \in Range(ids) : ps[k] = Period(trades[i], d)
    BY <1>6, <2>1
  <2>3. i \in DOMAIN trades /\ Has(ids, Len(ids), i)
    BY <1>2, <1>3, <1>4
  <2>4. Complete(ps[k], d)
    BY <1>6, <2>1
  <2>5. cs[k].ids = Picked(ids, Of(cs[k].period))
    <3> HIDE DEF Of
    <3> QED BY <1>10, <2>1
  <2> QED BY <2>1, <2>2, <2>3, <2>4, <2>5
<1>17. \A j, k \in 1 .. Len(cs) : j < k => cs[j].period < cs[k].period
  <2>1. \A j, k \in 1 .. Len(ps) : j < k => ps[j] < ps[k]
    BY <1>5 DEF Rising
  <2>2. \A k \in 1 .. Len(ps) : cs[k].period = ps[k]
    BY <1>10
  <2> QED BY <1>15, <2>1, <2>2
<1>18. ASSUME NEW i \in DOMAIN trades, Has(ids, Len(ids), i), Complete(Period(trades[i], d), d)
       PROVE  \E k \in 1 .. Len(cs) : cs[k].period = Period(trades[i], d)
  <2>1. i \in Range(ids)
    BY <1>3, <1>18
  <2>2. Period(trades[i], d) \in P
    BY <1>7, <1>18, <2>1
  <2>3. Has(ps, Len(ps), Period(trades[i], d))
    BY <1>5, <1>6, <2>2
  <2>4. PICK k \in 1 .. Len(ps) : ps[k] = Period(trades[i], d)
    BY <2>3 DEF Has
  <2> QED BY <1>10, <1>15, <2>4
<1>19. CandlesFacts(cs, ids, d)
  BY <1>5, <1>14, <1>15, <1>16, <1>17, <1>18 DEF CandlesFacts
<1> QED BY <1>1, <1>19
-----------------------------------------------------------------------------
(* Sums over finite sets. *)

\* The sum of a function's values: MapThenSumSet for an operator that applies a function.
SumOf(f, S) == MapThenSumSet(LAMBDA x : f[x], S)

\* What MapThenSumSet computes step by step, for every subset of S.
SumStep(f, h, s) == IF s = {} THEN 0
                    ELSE LET x == CHOOSE x \in s : TRUE IN f[x] + h[s \ {x}]

\* SumOf is what the last value of the step function is.
LEMMA SumDef ==
    ASSUME NEW f, NEW S
    PROVE  SumOf(f, S) = (CHOOSE h : h = [s \in SUBSET S |-> SumStep(f, h, s)])[S]
BY DEF SumOf, MapThenSumSet, MapThenFoldSet, SumStep

\* There is such a function.
LEMMA SumExists ==
    ASSUME NEW S, IsFiniteSet(S), NEW f
    PROVE  \E h : h = [s \in SUBSET S |-> SumStep(f, h, s)]
<1> DEFINE Steps(h, n) == /\ h = [s \in SUBSET S |-> h[s]]
                         /\ \A s \in SUBSET S : Cardinality(s) <= n => h[s] = SumStep(f, h, s)
           G == {n \in Nat : \E h : Steps(h, n)}
<1>0. \A s \in SUBSET S : IsFiniteSet(s) /\ Cardinality(s) \in Nat /\ Cardinality(s) <= Cardinality(S)
  BY FS_Subset, FS_CardinalityType
<1>1. 0 \in G
  <2> DEFINE h == [s \in SUBSET S |-> 0]
  <2>1. ASSUME NEW s \in SUBSET S, Cardinality(s) <= 0 PROVE h[s] = SumStep(f, h, s)
    <3>1. s = {}
      BY <1>0, <2>1, FS_EmptySet
    <3> QED BY <3>1 DEF SumStep
  <2>2. h = [s \in SUBSET S |-> h[s]]
    OBVIOUS
  <2> HIDE DEF h
  <2> QED BY <2>1, <2>2
<1>2. ASSUME NEW n \in Nat, n \in G PROVE n + 1 \in G
  <2>1. PICK h : Steps(h, n)
    BY <1>2
  <2> DEFINE k == [s \in SUBSET S |-> SumStep(f, h, s)]
  <2>2. \A s \in SUBSET S : k[s] = SumStep(f, h, s)
    OBVIOUS
  <2>3. k = [s \in SUBSET S |-> k[s]]
    OBVIOUS
  <2> HIDE DEF k
  <2>4. ASSUME NEW s \in SUBSET S, Cardinality(s) <= n + 1 PROVE k[s] = SumStep(f, k, s)
    <3>1. CASE s = {}
      BY <2>2, <3>1 DEF SumStep
    <3>2. CASE s # {}
      <4> DEFINE x == CHOOSE x \in s : TRUE
      <4>1. x \in s
        BY <3>2
      <4> HIDE DEF x
      <4>2. s \ {x} \in SUBSET S /\ Cardinality(s \ {x}) <= n
        <5>1. Cardinality(s \ {x}) = Cardinality(s) - 1
          BY <1>0, <4>1, FS_RemoveElement
        <5> QED BY <1>0, <2>4, <5>1
      <4>3. h[s \ {x}] = k[s \ {x}]
        BY <2>1, <2>2, <4>2
      <4>4. SumStep(f, h, s) = f[x] + h[s \ {x}] /\ SumStep(f, k, s) = f[x] + k[s \ {x}]
        BY <3>2 DEF SumStep, x
      <4> QED BY <2>2, <4>3, <4>4
    <3> QED BY <3>1, <3>2
  <2>5. Steps(k, n + 1)
    BY <2>3, <2>4
  <2> HIDE DEF Steps
  <2> QED BY <2>5
<1> HIDE DEF G
<1>3. Nat \subseteq G
  BY <1>1, <1>2, Induction
<1>4. Cardinality(S) \in Nat
  BY FS_CardinalityType
<1>5. PICK h : Steps(h, Cardinality(S))
  BY <1>3, <1>4 DEF G
<1>6. h = [s \in SUBSET S |-> SumStep(f, h, s)]
  BY <1>0, <1>5
<1> QED BY <1>6

\* A function that sums the subsets up.
SumsUp(h, f, S) == \A s \in SUBSET S : h[s] = SumStep(f, h, s)

\* The partial sums, which two functions that agree have in common.
LEMMA SumUnique ==
    ASSUME NEW S, IsFiniteSet(S), NEW f, NEW e,
           \A x \in S : f[x] = e[x],
           NEW h, SumsUp(h, f, S), NEW k, SumsUp(k, e, S)
    PROVE  \A s \in SUBSET S : h[s] = k[s]
<1> DEFINE G == {s \in SUBSET S : h[s] = k[s]}
<1>1. ASSUME NEW s \in SUBSET S, \A x \in s : s \ {x} \in G PROVE s \in G
  <2>1. h[s] = SumStep(f, h, s) /\ k[s] = SumStep(e, k, s)
    <3>1. s \in SUBSET S
      OBVIOUS
    <3> QED BY <3>1 DEF SumsUp
  <2>2. CASE s = {}
    BY <2>1, <2>2 DEF SumStep
  <2>3. CASE s # {}
    <3> DEFINE x == CHOOSE x \in s : TRUE
    <3>1. x \in s
      BY <2>3
    <3>2. SumStep(f, h, s) = f[x] + h[s \ {x}] /\ SumStep(e, k, s) = e[x] + k[s \ {x}]
      BY <2>3 DEF SumStep
    <3> HIDE DEF x
    <3>3. h[s \ {x}] = k[s \ {x}] /\ f[x] = e[x]
      BY <1>1, <3>1
    <3> QED BY <2>1, <3>2, <3>3
  <2> QED BY <2>2, <2>3
<1> HIDE DEF G
<1>3. SUBSET S \subseteq G
  BY <1>1, SetInduction
<1> QED BY <1>3 DEF G

\* The sums over all subsets.  A sum takes its members in any order.
IsSum(g, f, S) ==
    /\ g \in [SUBSET S -> Int] /\ g[{}] = 0
    /\ \A s \in SUBSET S : \A x \in s : g[s] = f[x] + g[s \ {x}]
    /\ \A s \in SUBSET S : g[s] = SumOf(f, s)

\* Every finite set with integers has its partial sums.
LEMMA PartialSums ==
    ASSUME NEW S, IsFiniteSet(S), NEW f, \A x \in S : f[x] \in Int
    PROVE  \E g : IsSum(g, f, S)
<1> DEFINE g == CHOOSE h : h = [s \in SUBSET S |-> SumStep(f, h, s)]
<1>1. g = [s \in SUBSET S |-> SumStep(f, g, s)]
  BY SumExists
<1> HIDE DEF g
<1>2. \A s \in SUBSET S : g[s] = SumStep(f, g, s)
  BY <1>1, Zenon
<1>3. \A s \in SUBSET S : IsFiniteSet(s)
  BY FS_Subset
<1>4. g[{}] = 0
  BY <1>2 DEF SumStep
<1> DEFINE G == {s \in SUBSET S : /\ g[s] \in Int
                                /\ \A x \in s : g[s \ {x}] \in Int /\ g[s] = f[x] + g[s \ {x}]}
<1>5. ASSUME NEW s \in SUBSET S, \A x \in s : s \ {x} \in G PROVE s \in G
  <2>1. CASE s = {}
    BY <1>4, <2>1
  <2>2. CASE s # {}
    <3> DEFINE c == CHOOSE c \in s : TRUE
    <3>1. c \in s
      BY <2>2
    <3>2. g[s] = f[c] + g[s \ {c}]
      BY <1>2, <2>2 DEF SumStep
    <3> HIDE DEF c
    <3>3. \A x \in s : f[x] \in Int /\ g[s \ {x}] \in Int
      BY <1>5
    <3>4. g[s] \in Int
      <4>1. f[c] \in Int /\ g[s \ {c}] \in Int
        BY <3>1, <3>3
      <4> QED BY <3>2, <4>1
    <3>5. ASSUME NEW x \in s PROVE g[s] = f[x] + g[s \ {x}]
      <4>1. CASE x = c
        BY <3>2, <4>1
      <4>2. CASE x # c
        <5> DEFINE both == (s \ {c}) \ {x}
        <5>1. g[s \ {c}] = f[x] + g[both]
          BY <1>5, <3>1, <4>2
        <5>2. g[s \ {x}] = f[c] + g[(s \ {x}) \ {c}]
          BY <1>5, <3>1, <4>2
        <5>3. (s \ {x}) \ {c} = both
          OBVIOUS
        <5>4. g[both] \in Int
          BY <1>5, <3>1, <4>2
        <5>5. f[c] \in Int /\ f[x] \in Int
          BY <3>1, <3>3
        <5>6. g[s] = f[c] + (f[x] + g[both]) /\ g[s \ {x}] = f[c] + g[both]
          <6> HIDE DEF both
          <6> QED BY <3>2, <5>1, <5>2, <5>3
        <5> HIDE DEF both
        <5> QED BY <5>4, <5>5, <5>6
      <4> QED BY <4>1, <4>2
    <3> QED BY <3>3, <3>4, <3>5
  <2> QED BY <2>1, <2>2
<1> HIDE DEF G
<1>6. SUBSET S \subseteq G
  BY <1>5, SetInduction
<1>7. ASSUME NEW s \in SUBSET S PROVE g[s] = SumOf(f, s)
  <2> DEFINE k == CHOOSE k : k = [r \in SUBSET s |-> SumStep(f, k, r)]
  <2>1. k = [r \in SUBSET s |-> SumStep(f, k, r)]
    BY <1>3, SumExists
  <2>2. SumOf(f, s) = k[s]
    BY SumDef
  <2> HIDE DEF k
  <2>3. \A r \in SUBSET s : g[r] = k[r]
    <3>1. SumsUp(g, f, s)
      BY <1>2 DEF SumsUp
    <3>2. SumsUp(k, f, s)
      BY <2>1, Zenon DEF SumsUp
    <3> QED BY <1>3, <3>1, <3>2, SumUnique
  <2> QED BY <2>2, <2>3
<1>8. g \in [SUBSET S -> Int]
  <2>1. \A s \in SUBSET S : g[s] \in Int
    BY <1>6 DEF G
  <2>2. g = [s \in SUBSET S |-> g[s]]
    BY <1>1, <1>2, Zenon
  <2> QED BY <2>1, <2>2
<1>9. \A s \in SUBSET S : \A x \in s : g[s] = f[x] + g[s \ {x}]
  BY <1>6 DEF G
<1>10. \A s \in SUBSET S : g[s] = SumOf(f, s)
  BY <1>7
<1>11. IsSum(g, f, S)
  BY <1>4, <1>8, <1>9, <1>10 DEF IsSum
<1> QED BY <1>11, Zenon

-----------------------------------------------------------------------------
(* The history. *)

\* The durations are positive.
LEMMA DurationsAre ==
    /\ 1 \in DOMAIN Durations /\ Len(Durations) \in Nat
    /\ DOMAIN Durations = 1 .. Len(Durations)
    /\ \A d \in DOMAIN Durations : Durations[d] \in Nat \ {0}
<1>1. Durations \in Seq(Nat \ {0}) /\ Durations # <<>>
  BY SizeAssumption
<1>2. Len(Durations) \in Nat /\ DOMAIN Durations = 1 .. Len(Durations) /\ Len(Durations) # 0
  BY <1>1, LenProperties, EmptySeq
<1>3. \A d \in 1 .. Len(Durations) : Durations[d] \in Nat \ {0}
  BY <1>1, ElementOfSeq
<1>4. 1 \in 1 .. Len(Durations)
  BY <1>2
<1> QED BY <1>2, <1>3, <1>4

\* One more trade, made now.
LEMMA TradeAdds ==
    ASSUME HistoryInv, trades' = Append(trades, now)
    PROVE  /\ trades' \in Seq(0 .. MaxTime) /\ Len(trades') = Len(trades) + 1
           /\ DOMAIN (trades') = 1 .. Len(trades) + 1
           /\ \A i \in 1 .. Len(trades) : trades'[i] = trades[i]
           /\ trades'[Len(trades) + 1] = now
<1>1. trades \in Seq(0 .. MaxTime) /\ now \in 0 .. MaxTime
  BY DEF HistoryInv
<1> DEFINE t == Append(trades, now)
<1>2. /\ t \in Seq(0 .. MaxTime) /\ Len(t) = Len(trades) + 1
      /\ DOMAIN t = 1 .. Len(trades) + 1
      /\ \A i \in 1 .. Len(trades) : t[i] = trades[i]
      /\ t[Len(trades) + 1] = now
  BY <1>1, AppendProperties, LenProperties
<1> QED BY <1>2

\* The history is in order at first.
LEMMA HistoryInit == CandlesInit => HistoryInv
<1> SUFFICES ASSUME CandlesInit PROVE HistoryInv
  OBVIOUS
<1> DEFINE d == Durations[1]
<1>1. /\ d \in Nat \ {0} /\ 2 * d <= MaxTime /\ MaxTime \in Nat
      /\ MaxFailures \in Nat /\ MaxTrades \in Nat /\ 2 <= MaxTrades
  BY SizeAssumption, DurationsAre
<1>2. now = 2 * d /\ trades = <<0, d>> /\ failures = 0
  BY DEF CandlesInit
<1> HIDE DEF d
<1>3. now \in 0 .. MaxTime /\ 0 \in 0 .. MaxTime /\ d \in 0 .. MaxTime /\ d <= now /\ 0 <= now
  BY <1>1, <1>2
<1>4. trades \in Seq(0 .. MaxTime) /\ Len(trades) = 2 /\ trades[1] = 0 /\ trades[2] = d
  BY <1>2, <1>3
<1>5. DOMAIN trades = {1, 2}
  BY <1>4, LenProperties
<1>6. \A i, j \in DOMAIN trades : i <= j => trades[i] <= trades[j]
  BY <1>1, <1>4, <1>5
<1>7. \A i \in DOMAIN trades : trades[i] <= now
  BY <1>3, <1>4, <1>5
<1>8. Len(trades) \in 1 .. MaxTrades /\ failures \in 0 .. MaxFailures
  BY <1>1, <1>2, <1>4
<1> QED BY <1>3, <1>4, <1>6, <1>7, <1>8 DEF HistoryInv

\* How a step changes the history, if it does.
HistoryStep ==
    \/ UNCHANGED <<now, trades>> /\ failures' \in {failures, failures + 1}
         /\ (failures' = failures \/ failures < MaxFailures)
    \/ UNCHANGED <<now, trades>> /\ failures' <= MaxFailures
         /\ \E n \in Nat : failures' = failures + n
    \/ now < MaxTime /\ now' = now + 1 /\ UNCHANGED <<trades, failures>>
    \/ Len(trades) < MaxTrades /\ trades' = Append(trades, now) /\ UNCHANGED <<now, failures>>

\* It stays so.
LEMMA HistoryKept == HistoryInv /\ HistoryStep => HistoryInv'
<1> SUFFICES ASSUME HistoryInv, HistoryStep PROVE HistoryInv'
  OBVIOUS
<1>1. /\ MaxTime \in Nat /\ MaxFailures \in Nat /\ MaxTrades \in Nat
  BY SizeAssumption
<1>2. CASE UNCHANGED <<now, trades>> /\ failures' \in {failures, failures + 1}
             /\ (failures' = failures \/ failures < MaxFailures)
  <2>1. failures' \in 0 .. MaxFailures
    BY <1>1, <1>2 DEF HistoryInv
  <2> QED BY <1>2, <2>1 DEF HistoryInv
<1>5. CASE UNCHANGED <<now, trades>> /\ failures' <= MaxFailures
             /\ \E n \in Nat : failures' = failures + n
  <2>1. failures' \in 0 .. MaxFailures
    BY <1>1, <1>5 DEF HistoryInv
  <2> QED BY <1>5, <2>1 DEF HistoryInv
<1>3. CASE now < MaxTime /\ now' = now + 1 /\ UNCHANGED <<trades, failures>>
  <2>1. now' \in 0 .. MaxTime
    BY <1>1, <1>3 DEF HistoryInv
  <2>2. \A i \in DOMAIN trades : trades[i] <= now'
    BY <1>3, HistoryIs
  <2> QED BY <1>3, <2>1, <2>2 DEF HistoryInv
<1>4. CASE Len(trades) < MaxTrades /\ trades' = Append(trades, now) /\ UNCHANGED <<now, failures>>
  <2> DEFINE n == Len(trades)
  <2>1. /\ trades' \in Seq(0 .. MaxTime) /\ Len(trades') = n + 1
        /\ DOMAIN (trades') = 1 .. n + 1
        /\ \A i \in 1 .. n : trades'[i] = trades[i]
        /\ trades'[n + 1] = now
    BY <1>4, TradeAdds
  <2>2. /\ n \in Nat /\ now \in Nat /\ DOMAIN trades = 1 .. n
        /\ \A i \in 1 .. n : trades[i] \in Nat /\ trades[i] <= now
    BY HistoryIs
  <2>3. \A i, j \in 1 .. n : i <= j => trades[i] <= trades[j]
    BY <2>2 DEF HistoryInv
  <2>4. Len(trades') \in 1 .. MaxTrades
    BY <1>1, <1>4, <2>1, <2>2
  <2> HIDE DEF n
  <2>5. \A i \in 1 .. n + 1 : trades'[i] <= now
    BY <2>1, <2>2
  <2>6. \A i, j \in 1 .. n + 1 : i <= j => trades'[i] <= trades'[j]
    <3> TAKE i, j \in 1 .. n + 1
    <3>1. CASE j = n + 1
      BY <2>1, <2>5, <3>1
    <3>2. CASE j # n + 1
      <4>1. i <= j => i \in 1 .. n /\ j \in 1 .. n
        BY <2>2, <3>2
      <4> QED BY <2>1, <2>3, <4>1
    <3> QED BY <3>1, <3>2
  <2> QED BY <1>4, <2>1, <2>4, <2>5, <2>6 DEF HistoryInv
<1> QED BY <1>2, <1>3, <1>4, <1>5 DEF HistoryStep

\* Errors among the answers are so many failures.
LEMMA RefusesCounts ==
    ASSUME NEW r, NEW refused \in SUBSET {"candles", "statistics", "orders"}, Refuses(r, refused)
    PROVE  failures' <= MaxFailures /\ \E n \in Nat : failures' = failures + n
<1>1. IsFiniteSet({"candles", "statistics", "orders"})
  <2>1. IsFiniteSet({"candles"}) /\ IsFiniteSet({"statistics"}) /\ IsFiniteSet({"orders"})
    BY FS_Singleton
  <2>2. IsFiniteSet(({"candles"} \cup {"statistics"}) \cup {"orders"})
    BY <2>1, FS_Union
  <2>3. {"candles", "statistics", "orders"} = ({"candles"} \cup {"statistics"}) \cup {"orders"}
    OBVIOUS
  <2> QED BY <2>2, <2>3
<1>2. Cardinality(refused) \in Nat
  BY <1>1, FS_Subset, FS_CardinalityType
<1> QED BY <1>2 DEF Refuses

\* Every step of the system is such a step.
LEMMA HistorySteps == MarketNext => HistoryStep
<1> SUFFICES ASSUME MarketNext PROVE HistoryStep
  OBVIOUS
<1>1. CASE CandleStep
  BY <1>1 DEF CandleStep, Clock, Trade, UpdateBegin, Fetch, Save, GivesUp, HistoryStep
<1>2. CASE BittrexStep
  BY <1>2 DEF BittrexStep, BittrexBegin, PoloniexUpdated, BittrexFetch, BittrexAgain,
              BittrexInvalid, BittrexDrop, BittrexSave, BittrexGivesUp, Fault, HistoryStep
<1>3. CASE OrderStep
  BY <1>3 DEF OrderStep, OrdersBegin, OrdersArrive, OrdersSave, OrdersGiveUp, OffersChange,
              Fault, HistoryStep
<1>4. CASE RateStep
  <2>1. UNCHANGED <<now, trades>> /\ (UNCHANGED failures \/ Fault)
    BY <1>4, Zenon DEF RateStep, PricesChange, LoadBegin, LoadEnds, PriceArrives
  <2> QED BY <2>1 DEF Fault, HistoryStep
<1>5. CASE WatchStep
  <2> DEFINE Refused == \E r : \E refused \in SUBSET {"candles", "statistics", "orders"} :
                          Refuses(r, refused)
  <2>1. UNCHANGED <<now, trades>> /\ (UNCHANGED failures \/ Fault \/ Refused)
    BY <1>5, Zenon DEF WatchStep, CandlesStored, BooksStored, ExchangesFail, DrawStock, DrawDepth,
                ClickTab, ExchangesArrive, Interval, AnswersArrive, AnswerFails, ClickExchange,
                ClickDuration
  <2>2. CASE Refused
    BY <2>1, <2>2, RefusesCounts DEF HistoryStep
  <2> QED BY <2>1, <2>2 DEF Fault, HistoryStep
<1> QED BY <1>1, <1>2, <1>3, <1>4, <1>5 DEF MarketNext
-----------------------------------------------------------------------------
(* The types of Poloniex' candles and their updates. *)

\* The newest candle of a list of one's own.
LEMMA LastIs ==
    ASSUME NEW T, NEW s \in Seq(T), s # <<>>
    PROVE  Last(s) = s[Len(s)] /\ Last(s) \in T /\ Head(s) = s[1] /\ Head(s) \in T
           /\ Len(s) \in Nat /\ Len(s) >= 1 /\ DOMAIN s = 1 .. Len(s)
<1>1. Len(s) \in Nat /\ DOMAIN s = 1 .. Len(s) /\ Len(s) # 0
  BY LenProperties, EmptySeq
<1>2. Len(s) \in 1 .. Len(s) /\ 1 \in 1 .. Len(s)
  BY <1>1
<1>3. Last(s) = s[Len(s)]
  BY DEF Last
<1>4. Head(s) = s[1]
  BY HeadTailProperties
<1> QED BY <1>1, <1>2, <1>3, <1>4, ElementOfSeq

\* An update's fields make it one of Job.
LEMMA JobIs ==
    ASSUME NEW step \in {"idle", "fetch", "save"}, NEW since \in Int, NEW last \in Nat,
           NEW end \in Int, NEW acc \in Seq(1 .. Len(trades)), NEW done \in Nat
    PROVE  [step |-> step, since |-> since, last |-> last, end |-> end, acc |-> acc,
            done |-> done] \in Job
BY DEF Job

\* What an update of Job has.
LEMMA JobHas ==
    ASSUME NEW j \in Job
    PROVE  /\ j.step \in {"idle", "fetch", "save"} /\ j.since \in Int /\ j.last \in Nat
           /\ j.end \in Int /\ j.acc \in Seq(1 .. Len(trades)) /\ j.done \in Nat
           /\ j = [step |-> j.step, since |-> j.since, last |-> j.last, end |-> j.end,
                   acc |-> j.acc, done |-> j.done]
BY DEF Job

\* No update is one of Job.
LEMMA IdleIs == HistoryInv => Idle \in Job /\ Idle.step = "idle"
<1> SUFFICES ASSUME HistoryInv PROVE Idle \in Job /\ Idle.step = "idle"
  OBVIOUS
<1>1. Always \in Int /\ 0 \in Int /\ 0 \in Nat
  BY HistoryIs DEF Always
<1>2. <<>> \in Seq(1 .. Len(trades))
  BY EmptySeq
<1>3. Idle \in Job
  BY <1>1, <1>2, JobIs DEF Idle
<1> QED BY <1>3 DEF Idle

\* A stored candle has a trade, the last of which is one of the exchange's.
LEMMA StoredIs ==
    ASSUME HistoryInv, NEW d, NEW c \in Stored(d)
    PROVE  /\ c.ids # <<>> /\ c.ids \in Seq(1 .. Len(trades)) /\ c.period \in 0 .. MaxTime
           /\ LastTrade(c) \in 1 .. Len(trades) /\ Head(c.ids) \in 1 .. Len(trades)
           /\ LastTrade(c) = c.ids[Len(c.ids)]
           /\ \A i \in Range(c.ids) : Period(trades[i], Durations[d]) = c.period
<1>1. c.ids # <<>> /\ c.ids \in Seq(1 .. Len(trades)) /\ c.period \in 0 .. MaxTime
      /\ \A i \in Range(c.ids) : Period(trades[i], Durations[d]) = c.period
  BY DEF Stored
<1>2. Last(c.ids) \in 1 .. Len(trades) /\ Head(c.ids) \in 1 .. Len(trades)
      /\ Last(c.ids) = c.ids[Len(c.ids)]
  BY <1>1, LastIs
<1> QED BY <1>1, <1>2 DEF LastTrade

\* The candles made of a list of trades can be stored.
LEMMA CandlesStore ==
    ASSUME HistoryInv, NEW ids \in Seq(1 .. Len(trades)), NEW d \in DOMAIN Durations
    PROVE  CandlesOf(ids, Durations[d]) \in Seq(Stored(d))
<1> DEFINE cs == CandlesOf(ids, Durations[d])
           Of(c) == {i \in Range(ids) : Period(trades[i], Durations[d]) = c.period}
<1>1. Durations[d] \in Nat \ {0}
  BY DurationsAre
<1>2. CandlesFacts(cs, ids, Durations[d])
  BY <1>1, CandlesAre
<1> HIDE DEF cs
<1>3. cs \in Seq(Ticks) /\ Len(cs) \in Nat /\ DOMAIN cs = 1 .. Len(cs)
  BY <1>2 DEF CandlesFacts
<1>4. \A k \in 1 .. Len(cs) : cs[k] \in Ticks
  BY <1>3, ElementOfSeq
<1>5. ASSUME NEW k \in 1 .. Len(cs) PROVE cs[k] \in Stored(d)
  <2> DEFINE c == cs[k]
             r == c.ids
  <2>1. /\ c \in Ticks /\ r = Picked(ids, Of(c))
        /\ \E i \in DOMAIN trades : Has(ids, Len(ids), i) /\ Period(trades[i], Durations[d]) = c.period
    BY <1>2, <1>4 DEF CandlesFacts
  <2> HIDE DEF c, Of
  <2>2. /\ r \in Seq(1 .. Len(trades))
        /\ \A x \in 1 .. Len(trades) : Has(r, Len(r), x) <=> (x \in Of(c) /\ Has(ids, Len(ids), x))
    <3> DEFINE R == (1 .. Len(trades)) \X (1 .. Len(trades))
    <3>1. Ordered(ids, R)
      BY LenProperties, ElementOfSeq DEF Ordered
    <3> HIDE DEF R
    <3> DEFINE S == Of(c)
    <3> HIDE DEF S
    <3>2. /\ Picked(ids, S) \in Seq(1 .. Len(trades))
          /\ \A x \in 1 .. Len(trades) : Has(Picked(ids, S), Len(Picked(ids, S)), x)
                                            <=> (x \in S /\ Has(ids, Len(ids), x))
      BY <3>1, PickedIs
    <3> HIDE DEF r
    <3> QED BY <2>1, <3>2 DEF S
  <2>3. r # <<>>
    <3>1. PICK i \in DOMAIN trades : Has(ids, Len(ids), i) /\ Period(trades[i], Durations[d]) = c.period
      BY <2>1
    <3>2. i \in Range(ids) /\ i \in 1 .. Len(trades)
      BY <3>1, RangeHas, HistoryIs
    <3>3. Has(r, Len(r), i)
      BY <2>2, <3>1, <3>2 DEF Of
    <3>4. PICK k2 \in 1 .. Len(r) : r[k2] = i
      BY <3>3 DEF Has
    <3> QED BY <3>4, EmptySeq
  <2>4. \A i \in Range(r) : Period(trades[i], Durations[d]) = c.period
    <3> TAKE i \in Range(r)
    <3>1. Has(r, Len(r), i) /\ i \in 1 .. Len(trades)
      BY <2>2, RangeHas
    <3> QED BY <2>2, <3>1 DEF Of
  <2>5. c \in [period : 0 .. MaxTime, ids : Seq(1 .. Len(trades))]
    BY <2>1 DEF Ticks
  <2> QED BY <2>3, <2>4, <2>5 DEF Stored, c
<1>6. cs \in Seq(Stored(d))
  <2>1. cs = [k \in 1 .. Len(cs) |-> cs[k]]
    BY <1>3, LenProperties
  <2>2. cs \in [1 .. Len(cs) -> Stored(d)]
    BY <1>5, <2>1
  <2> QED BY <1>3, <2>2, Listed
<1> QED BY <1>6 DEF cs

\* What is stored stays so when a trade is made.
LEMMA StoredStays ==
    ASSUME HistoryInv, trades' = Append(trades, now), NEW d
    PROVE  /\ Seq(1 .. Len(trades)) \subseteq Seq(1 .. Len(trades'))
           /\ Seq(Stored(d)) \subseteq Seq(Stored(d)')
           /\ Seq(Ticks) \subseteq Seq(Ticks')
<1>1. /\ Len(trades) \in Nat /\ Len(trades') = Len(trades) + 1
      /\ \A i \in 1 .. Len(trades) : trades'[i] = trades[i]
  BY TradeAdds, HistoryIs
<1>2. 1 .. Len(trades) \subseteq 1 .. Len(trades')
  BY <1>1
<1>3. Seq(1 .. Len(trades)) \subseteq Seq(1 .. Len(trades'))
  BY <1>2
<1>4. ASSUME NEW c \in Stored(d) PROVE c \in Stored(d)'
  <2>1. /\ c \in [period : 0 .. MaxTime, ids : Seq(1 .. Len(trades))]
        /\ c.ids # <<>> /\ c.ids \in Seq(1 .. Len(trades))
        /\ \A i \in Range(c.ids) : Period(trades[i], Durations[d]) = c.period
    BY DEF Stored
  <2>2. c \in [period : 0 .. MaxTime, ids : Seq(1 .. Len(trades'))]
    BY <1>3, <2>1
  <2>3. ASSUME NEW i \in Range(c.ids) PROVE Period(trades'[i], Durations[d]) = c.period
    <3>1. i \in 1 .. Len(trades)
      BY <2>1, RangeHas
    <3> QED BY <1>1, <2>1, <3>1
  <2> QED BY <2>1, <2>2, <2>3 DEF Stored
<1>5. Seq(Stored(d)) \subseteq Seq(Stored(d)')
  <2> DEFINE A == Stored(d)
             B == Stored(d)'
  <2>1. A \subseteq B
    BY <1>4
  <2> HIDE DEF A, B
  <2>2. Seq(A) \subseteq Seq(B)
    BY <2>1
  <2> QED BY <2>2 DEF A, B
<1>6. Ticks \subseteq Ticks'
  BY <1>3 DEF Ticks
<1> QED BY <1>3, <1>5, <1>6

\* A page has trades of the exchange.
LEMMA PageIs ==
    ASSUME HistoryInv, NEW start, NEW end, NEW S
    PROVE  Picked(PageOf(start, end), S) \in Seq(1 .. Len(trades))
<1> DEFINE n == Len(trades)
           found == Picked(Reverse(Upto(n)),
                           {i \in DOMAIN trades : trades[i] >= start /\ trades[i] <= end})
           m == IF Len(found) < PageLimit THEN Len(found) ELSE PageLimit
<1>1. n \in Nat
  BY HistoryIs
<1> HIDE DEF n
<1>2. Reverse(Upto(n)) \in Seq(1 .. n)
  BY <1>1, DownIs
<1>3. found \in Seq(1 .. n)
  BY <1>2, PickedType
<1> HIDE DEF found
<1>4. Len(found) \in Nat /\ m \in 0 .. Len(found)
  <2>1. Len(found) \in Nat /\ PageLimit \in Nat
    BY <1>3, LenProperties, SizeAssumption
  <2> QED BY <2>1
<1> HIDE DEF m
<1>5. SubSeq(found, 1, m) \in Seq(1 .. n)
  <2>1. m \in Int /\ 1 \in Int /\ \A i \in 1 .. m : i \in 1 .. Len(found)
    BY <1>4
  <2>2. \A i \in 1 .. m : found[i] \in 1 .. n
    BY <1>3, <2>1, ElementOfSeq
  <2> QED BY <2>1, <2>2, SubSeqProperties
<1>6. PageOf(start, end) = SubSeq(found, 1, m)
  BY DEF PageOf, found, m, n
<1>7. PageOf(start, end) \in Seq(1 .. n)
  BY <1>5, <1>6
<1>8. Picked(PageOf(start, end), S) \in Seq(1 .. n)
  <2> DEFINE s == PageOf(start, end)
  <2>1. s \in Seq(1 .. n)
    BY <1>7
  <2> HIDE DEF s
  <2>2. Picked(s, S) \in Seq(1 .. n)
    BY <2>1, PickedType
  <2> QED BY <2>2 DEF s
<1> QED BY <1>8 DEF n

\* The updates that the steps make.
LEMMA JobBegins ==
    ASSUME NEW since, NEW last
    PROVE  [Idle EXCEPT !.step = "fetch", !.since = since, !.last = last]
             = [step |-> "fetch", since |-> since, last |-> last, end |-> Always,
                acc |-> <<>>, done |-> 0]
<1> DEFINE j == Idle
           k == [j EXCEPT !.step = "fetch"]
           l == [k EXCEPT !.since = since]
           e == Always
<1>1. j = [step |-> "idle", since |-> 0, last |-> 0, end |-> e, acc |-> <<>>, done |-> 0]
  BY DEF Idle
<1> HIDE DEF e
<1>2. k = [step |-> "fetch", since |-> 0, last |-> 0, end |-> e, acc |-> <<>>, done |-> 0]
  <2> HIDE DEF j
  <2> QED BY <1>1
<1>3. l = [step |-> "fetch", since |-> since, last |-> 0, end |-> e, acc |-> <<>>, done |-> 0]
  <2> HIDE DEF k
  <2> QED BY <1>2
<1>4. [l EXCEPT !.last = last] = [step |-> "fetch", since |-> since, last |-> last, end |-> e,
                                  acc |-> <<>>, done |-> 0]
  <2> HIDE DEF l
  <2> QED BY <1>3
<1>5. [j EXCEPT !.step = "fetch", !.since = since, !.last = last] = [l EXCEPT !.last = last]
  <2> HIDE DEF j
  <2> QED OBVIOUS
<1> QED BY <1>4, <1>5 DEF e

\* An update that goes on to save.
LEMMA JobSaves ==
    ASSUME NEW j \in Job
    PROVE  LET k == [j EXCEPT !.step = "save", !.done = 1]
           IN  /\ k \in Job /\ k.step = "save" /\ k.done = 1
               /\ k.since = j.since /\ k.last = j.last /\ k.end = j.end /\ k.acc = j.acc
<1> DEFINE h == [j EXCEPT !.step = "save"]
           k == [h EXCEPT !.done = 1]
<1>1. /\ h \in Job /\ h.step = "save" /\ h.since = j.since /\ h.last = j.last
      /\ h.end = j.end /\ h.acc = j.acc
  BY DEF Job
<1>2. [j EXCEPT !.step = "save", !.done = 1] = k
  BY DEF Job
<1> HIDE DEF h
<1>3. /\ k \in Job /\ k.step = "save" /\ k.done = 1
      /\ k.since = j.since /\ k.last = j.last /\ k.end = j.end /\ k.acc = j.acc
  BY <1>1 DEF Job
<1> HIDE DEF k
<1> QED BY <1>2, <1>3

\* An update that has collected one more page.
LEMMA JobGoesOn ==
    ASSUME NEW j \in Job, NEW r, j.acc \o r \in Seq(1 .. Len(trades)), NEW x \in Int
    PROVE  LET k == [j EXCEPT !.acc = @ \o r, !.end = x]
           IN  /\ k \in Job /\ k.step = j.step /\ k.done = j.done
               /\ k.since = j.since /\ k.last = j.last /\ k.end = x /\ k.acc = j.acc \o r
<1> DEFINE y == j.acc \o r
           h == [j EXCEPT !.acc = y]
           k == [h EXCEPT !.end = x]
<1>1. [j EXCEPT !.acc = @ \o r, !.end = x] = k
  BY DEF Job
<1> HIDE DEF y
<1>2. y \in Seq(1 .. Len(trades))
  BY DEF y
<1>3. /\ h \in Job /\ h.step = j.step /\ h.since = j.since /\ h.last = j.last
      /\ h.done = j.done /\ h.acc = y
  BY <1>2 DEF Job
<1> HIDE DEF h
<1>4. /\ k \in Job /\ k.step = j.step /\ k.done = j.done
      /\ k.since = j.since /\ k.last = j.last /\ k.end = x /\ k.acc = y
  BY <1>3 DEF Job
<1> HIDE DEF k
<1> QED BY <1>1, <1>4 DEF y

\* An update that goes on to the next duration.
LEMMA JobNext ==
    ASSUME NEW j \in Job, NEW x \in Nat
    PROVE  LET k == [j EXCEPT !.done = x]
           IN  /\ k \in Job /\ k.step = j.step /\ k.done = x
               /\ k.since = j.since /\ k.last = j.last /\ k.end = j.end /\ k.acc = j.acc
BY DEF Job

\* Two outcomes of a page.
LEMMA JobCollects ==
    ASSUME HistoryInv, NEW j \in Job, NEW got \in Seq(1 .. Len(trades))
    PROVE  LET k == Collected(j, got)
           IN  /\ k \in Job /\ k.since = j.since /\ k.last = j.last
               /\ ~ Valid(j.acc, got) =>
                    k.step = "save" /\ k.done = 1 /\ k.end = j.end /\ k.acc = j.acc
               /\ Valid(j.acc, got) =>
                    /\ k.step = j.step /\ k.done = j.done /\ k.end = trades[Last(got)] - 1
                    /\ k.acc = j.acc \o Reverse(got)
<1> DEFINE k == Collected(j, got)
<1>1. CASE Valid(j.acc, got)
  <2> DEFINE r == Reverse(got)
             x == trades[Last(got)] - 1
             h == [j EXCEPT !.acc = @ \o r, !.end = x]
  <2>1. got # <<>>
    BY <1>1 DEF Valid
  <2>2. x \in Int
    BY <2>1, LastIs, HistoryIs
  <2>3. j.acc \o r \in Seq(1 .. Len(trades))
    <3>1. r \in Seq(1 .. Len(trades)) /\ j.acc \in Seq(1 .. Len(trades))
      BY Reversed, JobHas
    <3> HIDE DEF r
    <3> QED BY <3>1, ConcatProperties
  <2>4. k = h
    BY <1>1 DEF Collected
  <2> HIDE DEF r, x
  <2>5. /\ h \in Job /\ h.step = j.step /\ h.done = j.done
        /\ h.since = j.since /\ h.last = j.last /\ h.end = x /\ h.acc = j.acc \o r
    BY <2>2, <2>3, JobGoesOn
  <2> HIDE DEF k, h
  <2> QED BY <1>1, <2>4, <2>5 DEF r, x, k
<1>2. CASE ~ Valid(j.acc, got)
  <2> DEFINE h == [j EXCEPT !.step = "save", !.done = 1]
  <2>1. k = h
    BY <1>2 DEF Collected
  <2>2. /\ h \in Job /\ h.step = "save" /\ h.done = 1
        /\ h.since = j.since /\ h.last = j.last /\ h.end = j.end /\ h.acc = j.acc
    BY JobSaves
  <2> HIDE DEF k, h
  <2> QED BY <1>2, <2>1, <2>2 DEF k
<1> QED BY <1>1, <1>2

\* The candles that candles:build leaves.
LEMMA CandlesStart == CandlesInit /\ HistoryInv => CandlesInv
<1> SUFFICES ASSUME CandlesInit, HistoryInv PROVE CandlesInv
  OBVIOUS
<1> DEFINE d == Durations[1]
           a == [period |-> 0, ids |-> <<1>>]
           b == [period |-> d, ids |-> <<2>>]
<1>1. d \in Nat \ {0} /\ 2 * d <= MaxTime /\ MaxTime \in Nat
  BY SizeAssumption, DurationsAre
<1>2. trades = <<0, d>> /\ Len(trades) = 2
  BY DEF CandlesInit
<1>3. /\ lists = [e \in DOMAIN Durations |-> IF e = 1 THEN <<a, b>> ELSE <<>>]
      /\ jobs = [p \in Process |-> Idle]
  BY DEF CandlesInit
<1>4. Period(0, d) = 0 /\ Period(d, d) = d
  <2>1. 0 \div d = 0 /\ d \div d = 1
    BY <1>1
  <2> QED BY <1>1, <2>1 DEF Period
<1>5. /\ a.ids = <<1>> /\ b.ids = <<2>> /\ a.period = 0 /\ b.period = d
      /\ <<1>> \in Seq(1 .. Len(trades)) /\ <<2>> \in Seq(1 .. Len(trades))
      /\ <<1>> # <<>> /\ <<2>> # <<>> /\ Range(<<1>>) = {1} /\ Range(<<2>>) = {2}
      /\ 0 \in 0 .. MaxTime /\ d \in 0 .. MaxTime /\ trades[1] = 0 /\ trades[2] = d
  <2>1. <<1>> \in Seq({1, 2}) /\ <<2>> \in Seq({1, 2}) /\ 1 .. Len(trades) = {1, 2}
    BY <1>2
  <2>2. Range(<<1>>) = {1} /\ Range(<<2>>) = {2}
    <3>1. DOMAIN <<1>> = {1} /\ DOMAIN <<2>> = {1}
      OBVIOUS
    <3> QED BY <3>1 DEF Range
  <2> QED BY <1>1, <1>2, <2>1, <2>2
<1>6. a \in Stored(1) /\ b \in Stored(1)
  <2>1. /\ a \in [period : 0 .. MaxTime, ids : Seq(1 .. Len(trades))]
        /\ b \in [period : 0 .. MaxTime, ids : Seq(1 .. Len(trades))]
    BY <1>5
  <2>2. \A i \in Range(a.ids) : Period(trades[i], Durations[1]) = a.period
    BY <1>4, <1>5
  <2>3. \A i \in Range(b.ids) : Period(trades[i], Durations[1]) = b.period
    BY <1>4, <1>5
  <2> HIDE DEF d
  <2> QED BY <1>5, <2>1, <2>2, <2>3 DEF Stored
<1> HIDE DEF a, b
<1>7. \A e \in DOMAIN Durations : lists[e] \in Seq(Stored(e))
  <2> TAKE e \in DOMAIN Durations
  <2>1. CASE e = 1
    BY <1>3, <1>6, <2>1
  <2>2. CASE e # 1
    BY <1>3, <2>2, EmptySeq
  <2> QED BY <2>1, <2>2
<1>8. jobs \in [Process -> Job] /\ \A p \in Process : jobs[p].step # "save"
  BY <1>3, IdleIs
<1> QED BY <1>3, <1>7, <1>8 DEF CandlesInv

\* A step that leaves the candles and their updates alone.
LEMMA CandlesKept ==
    ASSUME HistoryInv, CandlesInv, HistoryStep, UNCHANGED <<lists, jobs>>
    PROVE  CandlesInv'
<1>1. CASE trades' = trades
  BY <1>1 DEF CandlesInv, Stored, Job
<1>2. CASE trades' = Append(trades, now)
  <2>1. \A d \in DOMAIN Durations : lists[d] \in Seq(Stored(d)')
    BY <1>2, StoredStays DEF CandlesInv
  <2>2. Job \subseteq Job'
    BY <1>2, StoredStays DEF Job
  <2>3. jobs \in [Process -> Job']
    BY <2>2 DEF CandlesInv
  <2> QED BY <2>1, <2>3 DEF CandlesInv
<1> QED BY <1>1, <1>2 DEF HistoryStep

\* One update's step.
LEMMA CandlesUpdate ==
    ASSUME HistoryInv, CandlesInv, NEW p \in Process,
           UpdateBegin(p) \/ Fetch(p) \/ Save(p) \/ GivesUp(p)
    PROVE  CandlesInv'
<1> DEFINE j == jobs[p]
<1>0. /\ j \in Job /\ jobs = [q \in Process |-> jobs[q]] /\ \A q \in Process : jobs[q] \in Job
      /\ \A q \in Process : jobs[q].step = "save" => jobs[q].done \in DOMAIN Durations
  BY DEF CandlesInv
<1>1. /\ j.step \in {"idle", "fetch", "save"} /\ j.since \in Int /\ j.last \in Nat
      /\ j.end \in Int /\ j.acc \in Seq(1 .. Len(trades)) /\ j.done \in Nat
      /\ j = [step |-> j.step, since |-> j.since, last |-> j.last, end |-> j.end,
              acc |-> j.acc, done |-> j.done]
  BY <1>0, JobHas
<1>2. ASSUME NEW J \in Job, J.step = "save" => J.done \in DOMAIN Durations,
             jobs' = [jobs EXCEPT ![p] = J], UNCHANGED <<trades, lists>>
      PROVE  CandlesInv'
  <2>1. jobs' \in [Process -> Job]
    BY <1>0, <1>2
  <2>2. \A q \in Process : jobs'[q].step = "save" => jobs'[q].done \in DOMAIN Durations
    <3> TAKE q \in Process
    <3>1. jobs'[q] = IF q = p THEN J ELSE jobs[q]
      BY <1>0, <1>2
    <3> QED BY <1>0, <1>2, <3>1
  <2>3. Job' = Job
    BY <1>2 DEF Job
  <2>4. ASSUME NEW d PROVE Stored(d)' = Stored(d)
    BY <1>2 DEF Stored
  <2>5. DOMAIN lists' = DOMAIN Durations
    BY <1>2 DEF CandlesInv
  <2>6. \A d \in DOMAIN Durations : lists'[d] \in Seq(Stored(d)')
    BY <1>2, <2>4 DEF CandlesInv
  <2>7. jobs' \in [Process -> Job']
    BY <2>1, <2>3
  <2> QED BY <2>2, <2>5, <2>6, <2>7 DEF CandlesInv
<1>3. CASE UpdateBegin(p)
  <2> DEFINE c == Last(lists[1])
             J == [Idle EXCEPT !.step = "fetch", !.since = NextEnd(c), !.last = LastTrade(c)]
  <2>1. lists[1] \in Seq(Stored(1)) /\ lists[1] # <<>>
    BY <1>3, DurationsAre DEF UpdateBegin, CandlesInv
  <2>2. c \in Stored(1)
    BY <2>1, LastIs
  <2> HIDE DEF c
  <2>3. LastTrade(c) \in 1 .. Len(trades) /\ Head(c.ids) \in 1 .. Len(trades)
    BY <2>2, StoredIs
  <2>4. NextEnd(c) \in Int /\ LastTrade(c) \in Nat
    BY <2>3, HistoryIs DEF NextEnd
  <2>5. J = [step |-> "fetch", since |-> NextEnd(c), last |-> LastTrade(c), end |-> Always,
             acc |-> <<>>, done |-> 0]
    BY JobBegins
  <2> HIDE DEF J
  <2>6. J \in Job /\ J.step # "save"
    <3>1. Always \in Int /\ <<>> \in Seq(1 .. Len(trades))
      BY HistoryIs, EmptySeq DEF Always
    <3> QED BY <2>4, <2>5, <3>1, JobIs
  <2>7. jobs' = [jobs EXCEPT ![p] = J] /\ UNCHANGED <<trades, lists>>
    BY <1>3 DEF UpdateBegin, J, c
  <2> QED BY <1>2, <2>6, <2>7
<1>4. CASE Fetch(p)
  <2> DEFINE got == Picked(PageOf(j.since, j.end), {i \in DOMAIN trades : i > j.last})
             J == Collected(j, got)
  <2>1. got \in Seq(1 .. Len(trades))
    BY PageIs
  <2>2. j.step = "fetch" /\ jobs' = [jobs EXCEPT ![p] = J] /\ UNCHANGED <<trades, lists>>
    BY <1>4 DEF Fetch
  <2> HIDE DEF got, j
  <2>3. /\ J \in Job /\ (~ Valid(j.acc, got) => J.done = 1)
        /\ (Valid(j.acc, got) => J.step = j.step)
    BY <1>0, <2>1, JobCollects
  <2> HIDE DEF J
  <2>4. J.step = "save" => J.done \in DOMAIN Durations
    BY <2>2, <2>3, DurationsAre
  <2> QED BY <1>2, <2>2, <2>3, <2>4
<1>5. CASE Save(p)
  <2> DEFINE d == j.done
             cs == CandlesOf(j.acc, Durations[d])
             J == IF d = Len(Durations) THEN Idle ELSE [j EXCEPT !.done = d + 1]
  <2>1. /\ j.step = "save" /\ lists' = [lists EXCEPT ![d] = @ \o cs]
        /\ jobs' = [jobs EXCEPT ![p] = J] /\ UNCHANGED trades
    BY <1>5 DEF Save
  <2>2. d \in DOMAIN Durations
    BY <1>0, <2>1
  <2>3. cs \in Seq(Stored(d)) /\ lists[d] \in Seq(Stored(d))
    BY <1>1, <2>2, CandlesStore DEF CandlesInv
  <2>4. lists[d] \o cs \in Seq(Stored(d))
    <3> HIDE DEF cs
    <3> QED BY <2>3, ConcatProperties
  <2>5. J \in Job /\ (J.step = "save" => J.done \in DOMAIN Durations)
    <3>1. CASE d = Len(Durations)
      BY <3>1, IdleIs
    <3>2. CASE d # Len(Durations)
      <4> DEFINE K == [j EXCEPT !.done = d + 1]
      <4>1. d + 1 \in DOMAIN Durations /\ d + 1 \in Nat
        BY <2>2, <3>2, DurationsAre
      <4>2. K \in Job /\ K.done = d + 1
        <5> HIDE DEF d
        <5> QED BY <1>0, <4>1, JobNext
      <4> QED BY <3>2, <4>1, <4>2
    <3> QED BY <3>1, <3>2
  <2> HIDE DEF J
  <2>6. jobs' \in [Process -> Job]
    BY <1>0, <2>1, <2>5
  <2>7. \A q \in Process : jobs'[q].step = "save" => jobs'[q].done \in DOMAIN Durations
    <3> TAKE q \in Process
    <3>1. jobs'[q] = IF q = p THEN J ELSE jobs[q]
      BY <1>0, <2>1
    <3> QED BY <1>0, <2>5, <3>1
  <2>8. /\ DOMAIN lists' = DOMAIN Durations
        /\ \A e \in DOMAIN Durations : lists'[e] \in Seq(Stored(e))
    <3>1. DOMAIN lists = DOMAIN Durations
      BY DEF CandlesInv
    <3>2. \A e \in DOMAIN Durations : lists'[e] = IF e = d THEN lists[d] \o cs ELSE lists[e]
      <4> HIDE DEF cs, d
      <4> QED BY <2>1, <3>1
    <3>3. \A e \in DOMAIN Durations : lists'[e] \in Seq(Stored(e))
      <4> HIDE DEF cs
      <4> QED BY <2>4, <3>2 DEF CandlesInv
    <3> QED BY <2>1, <3>1, <3>3
  <2>9. Job' = Job /\ \A e \in DOMAIN Durations : Stored(e)' = Stored(e)
    BY <2>1 DEF Job, Stored
  <2> QED BY <2>6, <2>7, <2>8, <2>9 DEF CandlesInv
<1>6. CASE GivesUp(p)
  <2>1. jobs' = [jobs EXCEPT ![p] = Idle] /\ UNCHANGED <<trades, lists>>
    BY <1>6 DEF GivesUp
  <2> QED BY <1>2, <2>1, IdleIs
<1> QED BY <1>3, <1>4, <1>5, <1>6
-----------------------------------------------------------------------------
(* Poloniex' minutes: candles whose trades follow one another. *)

\* The first and the last number of a rising sequence.
LEMMA RisingEnds ==
    ASSUME NEW s \in Seq(Int), Rising(s), NEW x, Has(s, Len(s), x)
    PROVE  s[1] <= x /\ x <= s[Len(s)] /\ s[1] \in Int /\ s[Len(s)] \in Int /\ x \in Int
<1> DEFINE n == Len(s)
           a == s[1]
           b == s[n]
<1>1. n \in Nat /\ DOMAIN s = 1 .. n /\ \A i \in 1 .. n : s[i] \in Int
  BY LenProperties, ElementOfSeq
<1>2. \A i, j \in 1 .. n : i < j => s[i] < s[j]
  BY <1>1 DEF Rising
<1>3. PICK k \in 1 .. n : s[k] = x
  BY DEF Has
<1>4. 1 \in 1 .. n /\ n \in 1 .. n
  BY <1>1
<1>5. s[1] \in Int /\ s[n] \in Int /\ x \in Int
  BY <1>1, <1>3, <1>4
<1>6. (k = 1 \/ 1 < k) /\ (k = n \/ k < n)
  <2>1. n \in Nat
    BY <1>1
  <2> HIDE DEF n
  <2>2. k \in 1 .. n
    BY <1>3 DEF n
  <2> QED BY <2>1, <2>2
<1>7. 1 < k => s[1] < s[k]
  BY <1>2, <1>4
<1>8. k < n => s[k] < s[n]
  BY <1>2, <1>4
<1>9. a \in Int /\ b \in Int /\ x \in Int /\ (a = x \/ a < x) /\ (x = b \/ x < b)
  BY <1>3, <1>5, <1>6, <1>7, <1>8
<1> HIDE DEF a, b
<1>10. a <= x /\ x <= b
  BY <1>9
<1> QED BY <1>5, <1>10 DEF a, b

\* A list of trades that follow one another has all of them between two of its own.
LEMMA ConsecutiveIs ==
    ASSUME NEW n \in Nat, NEW s \in Seq(1 .. n), NEW a \in Int, Consecutive(s, a)
    PROVE  /\ s \in Seq(Int) /\ Rising(s)
           /\ \A x \in Int : Has(s, Len(s), x) => a <= x
           /\ \A x, y \in Int : Has(s, Len(s), y) /\ a <= x /\ x <= y => Has(s, Len(s), x)
<1>1. Len(s) \in Nat /\ DOMAIN s = 1 .. Len(s)
  BY LenProperties
<1>2. \A k \in 1 .. Len(s) : s[k] = (a + k) - 1
  BY <1>1 DEF Consecutive
<1>3. s \in Seq(Int)
  BY <1>1
<1>4. Rising(s)
  BY <1>1, <1>2 DEF Rising
<1>5. \A x \in Int : Has(s, Len(s), x) => a <= x
  BY <1>1, <1>2 DEF Has
<1>6. ASSUME NEW x \in Int, NEW y \in Int, Has(s, Len(s), y), a <= x, x <= y
      PROVE  Has(s, Len(s), x)
  <2>1. PICK k \in 1 .. Len(s) : s[k] = y
    BY <1>6 DEF Has
  <2>2. y = (a + k) - 1
    BY <1>2, <2>1
  <2>3. PICK l \in Int : l = (x - a) + 1
    OBVIOUS
  <2>4. l \in 1 .. Len(s) /\ (a + l) - 1 = x
    BY <1>1, <1>6, <2>2, <2>3
  <2> QED BY <1>2, <2>4 DEF Has
<1> QED BY <1>3, <1>4, <1>5, <1>6

\* A later trade is in the same period or in a later one.
LEMMA PeriodOfTrade ==
    ASSUME HistoryInv, NEW d \in Nat \ {0}, NEW i \in 1 .. Len(trades)
    PROVE  /\ Period(trades[i], d) \in Nat
           /\ \A j \in 1 .. Len(trades) : i <= j => Period(trades[i], d) <= Period(trades[j], d)
<1>1. /\ \A j \in 1 .. Len(trades) : trades[j] \in Nat
      /\ \A j \in 1 .. Len(trades) : i <= j => trades[i] <= trades[j]
  BY HistoryIs DEF HistoryInv
<1> QED BY <1>1, PeriodIs, PeriodRises

\* What a candle of such a list has.
LEMMA CandleOfChain ==
    ASSUME HistoryInv, NEW d \in Nat \ {0}, NEW ids \in Seq(1 .. Len(trades)), NEW a \in Int,
           Consecutive(ids, a), NEW p,
           NEW S, S = {i \in Range(ids) : Period(trades[i], d) = p}, NEW r, r = Picked(ids, S)
    PROVE  /\ r \in Seq(Int) /\ Rising(r) /\ Consecutive(r, r[1])
           /\ \A x \in Int : Has(r, Len(r), x) <=>
                               (Has(ids, Len(ids), x) /\ Period(trades[x], d) = p)
<1> DEFINE n == Len(trades)
<1>1. n \in Nat
  BY HistoryIs
<1>2. /\ ids \in Seq(Int) /\ Rising(ids)
      /\ \A x \in Int : Has(ids, Len(ids), x) => a <= x
      /\ \A x, y \in Int : Has(ids, Len(ids), y) /\ a <= x /\ x <= y => Has(ids, Len(ids), x)
  BY <1>1, ConsecutiveIs
<1>3. /\ \A x : x \in Range(ids) <=> Has(ids, Len(ids), x)
      /\ Range(ids) \subseteq 1 .. n
  BY RangeHas
<1>4. \A x : x \in S <=> (Has(ids, Len(ids), x) /\ Period(trades[x], d) = p)
  BY <1>3
<1>5. /\ r \in Seq(Int) /\ Rising(r) /\ Len(r) \in Nat /\ DOMAIN r = 1 .. Len(r)
      /\ \A x \in Int : Has(r, Len(r), x) <=> (x \in S /\ Has(ids, Len(ids), x))
  <2> DEFINE q == Picked(ids, S)
  <2>1. /\ q \in Seq(Int) /\ Rising(q) /\ Len(q) \in Nat /\ DOMAIN q = 1 .. Len(q)
        /\ \A x \in Int : Has(q, Len(q), x) <=> (x \in S /\ Has(ids, Len(ids), x))
    BY <1>2, PickedRises
  <2>2. r = q
    OBVIOUS
  <2> HIDE DEF q
  <2> QED BY <2>1, <2>2
<1>6. \A x \in Int : Has(r, Len(r), x) <=> (Has(ids, Len(ids), x) /\ Period(trades[x], d) = p)
  BY <1>4, <1>5
<1>7. ASSUME NEW x \in Int, NEW i \in DOMAIN r, NEW j \in DOMAIN r, r[i] <= x, x <= r[j]
      PROVE  Has(r, Len(r), x)
  <2> DEFINE y == r[i]
             z == r[j]
  <2>1. y \in Int /\ z \in Int /\ Has(r, Len(r), y) /\ Has(r, Len(r), z)
    BY <1>5, ElementOfSeq DEF Has
  <2>2. y <= x /\ x <= z
    BY <1>7
  <2> HIDE DEF y, z
  <2>3. /\ Has(ids, Len(ids), y) /\ Has(ids, Len(ids), z)
        /\ Period(trades[y], d) = p /\ Period(trades[z], d) = p
    BY <1>6, <2>1
  <2>4. a <= y
    BY <1>2, <2>1, <2>3
  <2>5. a <= x
    BY <2>1, <2>2, <2>4
  <2>6. Has(ids, Len(ids), x)
    BY <1>2, <2>1, <2>2, <2>3, <2>5
  <2>7. x \in 1 .. n /\ y \in 1 .. n /\ z \in 1 .. n
    BY <1>3, <2>3, <2>6
  <2>8. Period(trades[y], d) <= Period(trades[x], d) /\ Period(trades[x], d) <= Period(trades[z], d)
    BY <2>2, <2>7, PeriodOfTrade
  <2>9. Period(trades[x], d) \in Nat /\ Period(trades[y], d) \in Nat
    BY <2>7, PeriodOfTrade
  <2>10. Period(trades[x], d) = p
    BY <2>3, <2>8, <2>9
  <2> QED BY <1>6, <2>6, <2>10
<1>8. Consecutive(r, r[1])
  BY <1>5, <1>7, RisingByOne
<1> QED BY <1>5, <1>6, <1>8

\* Candles of trades that follow one another do so too.
LEMMA CandlesChain ==
    ASSUME HistoryInv, NEW d \in DOMAIN Durations, NEW ids \in Seq(1 .. Len(trades)),
           NEW a \in Int, Consecutive(ids, a)
    PROVE  ChainFrom(CandlesOf(ids, Durations[d]), a)
<1> DEFINE cs == CandlesOf(ids, Durations[d])
           D == Durations[d]
           n == Len(trades)
           P(x) == Period(trades[x], D)
<1>1. D \in Nat \ {0} /\ n \in Nat /\ now \in Nat
  BY DurationsAre, HistoryIs
<1>2. cs \in Seq(Stored(d))
  BY CandlesStore
<1>3. CandlesFacts(cs, ids, D)
  BY <1>1, CandlesAre
<1> HIDE DEF cs, D
<1>4. /\ Len(cs) \in Nat /\ DOMAIN cs = 1 .. Len(cs)
      /\ \A k \in 1 .. Len(cs) :
           /\ Complete(cs[k].period, D)
           /\ cs[k].ids = Picked(ids, {i \in Range(ids) : P(i) = cs[k].period})
      /\ \A j, k \in 1 .. Len(cs) : j < k => cs[j].period < cs[k].period
      /\ \A i \in DOMAIN trades :
           Has(ids, Len(ids), i) /\ Complete(P(i), D) => \E k \in 1 .. Len(cs) : cs[k].period = P(i)
  BY <1>3 DEF CandlesFacts
<1>5. /\ \A x \in Int : Has(ids, Len(ids), x) => a <= x /\ x \in 1 .. n
      /\ \A x, y \in Int : Has(ids, Len(ids), y) /\ a <= x /\ x <= y => Has(ids, Len(ids), x)
  BY <1>1, ConsecutiveIs, RangeHas
<1>6. ASSUME NEW k \in 1 .. Len(cs)
      PROVE  /\ cs[k].ids \in Seq(Int) /\ Rising(cs[k].ids) /\ cs[k].ids # <<>>
             /\ Consecutive(cs[k].ids, cs[k].ids[1])
             /\ \A x \in Int : Has(cs[k].ids, Len(cs[k].ids), x) <=>
                                 (Has(ids, Len(ids), x) /\ P(x) = cs[k].period)
  <2> DEFINE r == cs[k].ids
             p == cs[k].period
             S == {i \in Range(ids) : P(i) = p}
  <2>1. r = Picked(ids, S)
    BY <1>4
  <2>2. r # <<>>
    BY <1>2, <1>4, ElementOfSeq, StoredIs
  <2> HIDE DEF r, p
  <2>3. S = {i \in Range(ids) : Period(trades[i], D) = p}
    OBVIOUS
  <2> HIDE DEF S
  <2>4. /\ r \in Seq(Int) /\ Rising(r) /\ Consecutive(r, r[1])
        /\ \A x \in Int : Has(r, Len(r), x) <=> (Has(ids, Len(ids), x) /\ P(x) = p)
    BY <1>1, <2>1, <2>3, CandleOfChain, ZenonT(30)
  <2> QED BY <2>2, <2>4 DEF r, p
<1> DEFINE F(k) == cs[k].ids[1]
           L(k) == LastTrade(cs[k])
<1>7. ASSUME NEW k \in 1 .. Len(cs)
      PROVE  /\ F(k) \in 1 .. n /\ L(k) \in 1 .. n /\ a <= F(k) /\ F(k) <= L(k)
             /\ Has(ids, Len(ids), F(k)) /\ Has(ids, Len(ids), L(k))
             /\ P(F(k)) = cs[k].period /\ P(L(k)) = cs[k].period
             /\ \A x \in Int : Has(ids, Len(ids), x) /\ P(x) = cs[k].period =>
                                 F(k) <= x /\ x <= L(k)
  <2> DEFINE r == cs[k].ids
             p == cs[k].period
  <2>1. /\ r \in Seq(Int) /\ Rising(r) /\ r # <<>>
        /\ \A x \in Int : Has(r, Len(r), x) <=> (Has(ids, Len(ids), x) /\ P(x) = p)
    BY <1>6
  <2>2. F(k) = r[1] /\ L(k) = Last(r)
    BY DEF LastTrade
  <2> HIDE DEF r, p
  <2>3. /\ Len(r) \in Nat /\ Len(r) >= 1 /\ Last(r) = r[Len(r)] /\ r[1] \in Int /\ Last(r) \in Int
    BY <2>1, LastIs, HeadTailProperties
  <2>4. Has(r, Len(r), r[1]) /\ Has(r, Len(r), Last(r))
    BY <2>3 DEF Has
  <2>5. /\ Has(ids, Len(ids), r[1]) /\ Has(ids, Len(ids), Last(r))
        /\ P(r[1]) = p /\ P(Last(r)) = p
    BY <2>1, <2>3, <2>4
  <2>6. \A x \in Int : Has(r, Len(r), x) => r[1] <= x /\ x <= Last(r)
    BY <2>1, <2>3, RisingEnds
  <2>7. r[1] <= Last(r) /\ a <= r[1] /\ r[1] \in 1 .. n /\ Last(r) \in 1 .. n
    BY <1>5, <2>3, <2>4, <2>5, <2>6
  <2>8. \A x \in Int : Has(ids, Len(ids), x) /\ P(x) = p => r[1] <= x /\ x <= Last(r)
    BY <2>1, <2>6
  <2> HIDE DEF P
  <2>9. P(F(k)) = p /\ P(L(k)) = p
    BY <2>2, <2>5
  <2> HIDE DEF F, L
  <2> QED BY <2>2, <2>5, <2>7, <2>8, <2>9 DEF p
<1> HIDE DEF F, L
<1>8. \A i, j \in 1 .. n : P(i) \in Nat /\ (i <= j => P(i) <= P(j))
  BY <1>1, PeriodOfTrade
<1>9. Period(now, D) \in Nat
  BY <1>1, PeriodIs
<1>10. \A k \in 1 .. Len(cs) : cs[k].period < Period(now, D) /\ cs[k].period \in Nat
  <2> TAKE k \in 1 .. Len(cs)
  <2>1. Complete(cs[k].period, D) /\ P(F(k)) = cs[k].period /\ F(k) \in 1 .. n
    BY <1>4, <1>7
  <2> HIDE DEF P
  <2> QED BY <1>8, <2>1 DEF Complete
<1> HIDE DEF P
\* a trade no later than one in a candle is in one too
<1>11. ASSUME NEW x \in Int, Has(ids, Len(ids), x), NEW k \in 1 .. Len(cs), P(x) <= cs[k].period
       PROVE  \E m \in 1 .. Len(cs) : cs[m].period = P(x)
  <2>1. x \in 1 .. n /\ P(x) \in Nat
    BY <1>5, <1>8, <1>11
  <2>2. P(x) < Period(now, D)
    BY <1>9, <1>10, <1>11, <2>1
  <2>3. Complete(P(x), D) /\ x \in DOMAIN trades
    BY <2>1, <2>2, HistoryIs DEF Complete
  <2> QED BY <1>4, <1>11, <2>3
<1>12. ASSUME 1 \in 1 .. Len(cs) PROVE F(1) = a
  <2>1. /\ F(1) \in 1 .. n /\ a <= F(1) /\ Has(ids, Len(ids), F(1)) /\ P(F(1)) = cs[1].period
        /\ \A x \in Int : Has(ids, Len(ids), x) /\ P(x) = cs[1].period => F(1) <= x
    BY <1>7, <1>12
  <2>2. Has(ids, Len(ids), a) /\ a \in 1 .. n
    BY <1>5, <2>1
  <2>3. P(a) <= P(F(1)) /\ P(a) \in Nat
    BY <1>8, <2>1, <2>2
  <2>4. PICK m \in 1 .. Len(cs) : cs[m].period = P(a)
    BY <1>11, <1>12, <2>1, <2>2, <2>3
  <2>5. m = 1
    <3>1. 1 < m => cs[1].period < cs[m].period
      BY <1>4, <1>12
    <3>2. ~ (1 < m)
      BY <1>10, <1>12, <2>1, <2>3, <2>4, <3>1
    <3> QED BY <3>2
  <2>6. F(1) <= a
    BY <2>1, <2>2, <2>4, <2>5
  <2> QED BY <2>1, <2>6
<1>13. ASSUME NEW k \in 1 .. Len(cs), k > 1 PROVE F(k) = L(k - 1) + 1
  <2> DEFINE m == k - 1
             f == F(k)
             l == L(m)
             y == l + 1
  <2>1. m \in 1 .. Len(cs) /\ m < k /\ m + 1 = k
    BY <1>4, <1>13
  <2>2. /\ f \in 1 .. n /\ Has(ids, Len(ids), f) /\ P(f) = cs[k].period
        /\ \A x \in Int : Has(ids, Len(ids), x) /\ P(x) = cs[k].period => f <= x
    BY <1>7
  <2>3. /\ l \in 1 .. n /\ Has(ids, Len(ids), l) /\ P(l) = cs[m].period /\ a <= l
        /\ \A x \in Int : Has(ids, Len(ids), x) /\ P(x) = cs[m].period => x <= l
    <3>1. l \in 1 .. n /\ Has(ids, Len(ids), l)
      BY <1>7, <2>1
    <3> QED BY <1>5, <1>7, <2>1, <3>1
  <2>4. cs[m].period < cs[k].period
    BY <1>4, <2>1
  <2> HIDE DEF m, f, l
  <2>5. l < f
    <3>1. f <= l => P(f) <= P(l)
      BY <1>8, <2>2, <2>3
    <3>2. P(f) \in Nat /\ P(l) \in Nat /\ P(l) < P(f)
      BY <1>8, <2>2, <2>3, <2>4
    <3> QED BY <2>2, <2>3, <3>1, <3>2
  <2>6. f = l + 1
    <3> SUFFICES ASSUME y < f PROVE FALSE
      BY <2>2, <2>3, <2>5
    <3>1. y \in Int /\ a <= y /\ y <= f /\ l < y /\ f \in Int
      BY <1>1, <2>2, <2>3
    <3>2. Has(ids, Len(ids), y) /\ y \in 1 .. n
      BY <1>5, <2>2, <3>1
    <3>20. l <= y /\ y <= f
      BY <2>3, <3>1
    <3> HIDE DEF y
    <3>3. P(l) <= P(y) /\ P(y) <= P(f) /\ P(y) \in Nat
      BY <1>8, <2>2, <2>3, <3>2, <3>20
    <3>4. PICK o \in 1 .. Len(cs) : cs[o].period = P(y)
      BY <1>11, <2>2, <3>2, <3>1, <3>3
    <3>5. P(y) # cs[m].period /\ P(y) # cs[k].period
      BY <2>2, <2>3, <3>1, <3>2
    <3>6. o < m \/ o = m \/ o = k \/ k < o
      BY <1>4, <2>1
    <3>7. (o < m => cs[o].period < cs[m].period) /\ (k < o => cs[k].period < cs[o].period)
      BY <1>4, <2>1
    <3>8. cs[m].period <= cs[o].period /\ cs[o].period <= cs[k].period
      BY <2>2, <2>3, <3>3, <3>4
    <3>9. cs[m].period \in Nat /\ cs[o].period \in Nat /\ cs[k].period \in Nat
      BY <1>10, <2>1
    <3> QED BY <3>4, <3>5, <3>6, <3>7, <3>8, <3>9
  <2> QED BY <2>6 DEF f, l, m
<1>14. ChainFrom(cs, a)
  <2>1. \A k \in DOMAIN cs : cs[k].ids # <<>> /\ Consecutive(cs[k].ids, cs[k].ids[1])
    BY <1>4, <1>6
  <2>2. \A k \in DOMAIN cs : k = 1 => cs[k].ids[1] = a
    BY <1>4, <1>12 DEF F
  <2>3. \A k \in DOMAIN cs : k > 1 => cs[k].ids[1] = LastTrade(cs[k - 1]) + 1
    BY <1>4, <1>13 DEF F, L
  <2> QED BY <2>1, <2>2, <2>3 DEF ChainFrom
<1> QED BY <1>14 DEF cs
-----------------------------------------------------------------------------
(* The minutes' trades one behind the other. *)

\* What FlattenSeq puts together step by step.
FlatStep(h, s, i) == IF i = 1 THEN s[i] ELSE h[i - 1] \o s[i]

\* A function that computes these steps up to n.
Flattens(h, s, n) == h = [i \in 1 .. n |-> FlatStep(h, s, i)]

\* FlattenSeq is what the last value of the step function is.
LEMMA FlatDef ==
    ASSUME NEW s, Len(s) # 0
    PROVE  FlattenSeq(s) = (CHOOSE h : Flattens(h, s, Len(s)))[Len(s)]
BY DEF FlattenSeq, FlatStep, Flattens

\* There is such a function.
LEMMA FlatExists ==
    ASSUME NEW s, NEW n \in Nat
    PROVE  \E h : Flattens(h, s, n)
<1> DEFINE Steps(h, m) == h = [i \in 1 .. m |-> FlatStep(h, s, i)]
           G == {m \in Nat : \E h : Steps(h, m)}
<1>1. 0 \in G
  <2> DEFINE h == [i \in 1 .. 0 |-> 0]
  <2>1. Steps(h, 0)
    OBVIOUS
  <2> HIDE DEF h, Steps
  <2> QED BY <2>1
<1>2. ASSUME NEW m \in Nat, m \in G PROVE m + 1 \in G
  <2>1. PICK h : Steps(h, m)
    BY <1>2
  <2> DEFINE k == [i \in 1 .. m + 1 |-> FlatStep(h, s, i)]
  <2>2. \A i \in 1 .. m : k[i] = h[i]
    BY <2>1
  <2>3. \A i \in 1 .. m + 1 : FlatStep(h, s, i) = FlatStep(k, s, i)
    <3> SUFFICES ASSUME NEW i \in 1 .. m + 1, i # 1 PROVE h[i - 1] = k[i - 1]
      BY DEF FlatStep
    <3>1. i - 1 \in 1 .. m
      OBVIOUS
    <3> HIDE DEF k
    <3> QED BY <2>2, <3>1
  <2>4. Steps(k, m + 1)
    BY <2>3
  <2> HIDE DEF k, Steps
  <2>5. m + 1 \in Nat
    OBVIOUS
  <2> QED BY <2>4, <2>5
<1> HIDE DEF G
<1>3. n \in G
  BY <1>1, <1>2, Induction
<1> QED BY <1>3 DEF G, Flattens

\* The trades of a chain from the first trade on are the first trades, in their order.
LEMMA ChainTrades ==
    ASSUME NEW list, NEW n \in Nat, DOMAIN list = 1 .. n,
           \A k \in 1 .. n : list[k].ids \in Seq(Int), ChainFrom(list, 1)
    PROVE  \A k \in DOMAIN TradesOf(list) : TradesOf(list)[k] = k
<1> DEFINE s == [k \in DOMAIN list |-> list[k].ids]
           L(k) == LastTrade(list[k])
<1>1. \A k \in 1 .. n : s[k] = list[k].ids /\ s[k] \in Seq(Int)
  OBVIOUS
<1>2. s \in [1 .. n -> Seq(Int)]
  BY <1>1
<1>20. TradesOf(list) = FlattenSeq(s)
  BY DEF TradesOf
<1> HIDE DEF s
<1>3. Len(s) = n
  BY <1>2, Listed
<1>4. ASSUME NEW k \in 1 .. n
      PROVE  /\ s[k] # <<>> /\ Len(s[k]) \in Nat /\ Len(s[k]) >= 1
             /\ DOMAIN s[k] = 1 .. Len(s[k])
             /\ \A i \in 1 .. Len(s[k]) : s[k][i] = (s[k][1] + i) - 1
             /\ s[k][1] = (IF k = 1 THEN 1 ELSE L(k - 1) + 1)
             /\ L(k) = s[k][Len(s[k])] /\ s[k][1] \in Int
  <2> DEFINE r == s[k]
  <2>1. r \in Seq(Int) /\ r = list[k].ids /\ r # <<>> /\ Consecutive(r, r[1])
    BY <1>1 DEF ChainFrom
  <2>2. s[k][1] = (IF k = 1 THEN 1 ELSE L(k - 1) + 1)
    BY <1>1 DEF ChainFrom
  <2>3. L(k) = Last(r)
    BY <2>1 DEF LastTrade
  <2> HIDE DEF r, L
  <2>4. Len(r) \in Nat /\ Len(r) >= 1 /\ DOMAIN r = 1 .. Len(r) /\ Last(r) = r[Len(r)]
    BY <2>1, LastIs
  <2>6. r[1] \in Int
    BY <2>1, <2>4, ElementOfSeq
  <2>5. \A i \in 1 .. Len(r) : r[i] = (r[1] + i) - 1
    <3> DEFINE f == r[1]
    <3>1. f \in Int /\ Consecutive(r, f)
      BY <2>1, <2>6
    <3> HIDE DEF f
    <3>2. \A i \in 1 .. Len(r) : r[i] = (f + i) - 1
      BY <2>4, <3>1 DEF Consecutive
    <3> QED BY <3>2 DEF f
  <2> QED BY <2>1, <2>2, <2>3, <2>4, <2>5, <2>6 DEF r
<1> HIDE DEF L
<1>5. CASE n = 0
  <2>1. DOMAIN s = {}
    BY <1>2, <1>5
  <2>2. FlattenSeq(s) = s
    BY <1>3, <1>5 DEF FlattenSeq
  <2> QED BY <1>20, <2>1, <2>2
<1>6. CASE n # 0
  <2> DEFINE h == CHOOSE h : Flattens(h, s, n)
  <2>1. Flattens(h, s, n)
    <3>1. \E g : Flattens(g, s, n)
      BY FlatExists
    <3> QED BY <3>1
  <2>2. FlattenSeq(s) = h[n]
    BY <1>3, <1>6, FlatDef
  <2> HIDE DEF h
  <2>3. \A i \in 1 .. n : h[i] = FlatStep(h, s, i)
    BY <2>1, Zenon DEF Flattens
  <2> DEFINE Good(i) == /\ h[i] \in Seq(Int) /\ Len(h[i]) = L(i)
                        /\ \A k \in 1 .. Len(h[i]) : h[i][k] = k
             G == {i \in Nat : i + 1 \in 1 .. n => Good(i + 1)}
  <2>4. 0 \in G
    <3>1. 0 + 1 = 1 /\ 1 \in 1 .. n
      BY <1>6
    <3> DEFINE r == s[1]
    <3>2. h[1] = r
      BY <2>3, <3>1 DEF FlatStep
    <3>3. /\ r \in Seq(Int) /\ Len(r) \in Nat /\ Len(r) >= 1 /\ L(1) = r[Len(r)] /\ r[1] = 1
          /\ \A i \in 1 .. Len(r) : r[i] = (r[1] + i) - 1
      BY <1>1, <1>4, <3>1
    <3> HIDE DEF r
    <3>4. \A i \in 1 .. Len(r) : r[i] = i
      BY <3>3
    <3>5. L(1) = Len(r)
      BY <3>3, <3>4
    <3>6. Good(1)
      BY <3>2, <3>3, <3>4, <3>5
    <3> HIDE DEF Good
    <3> QED BY <3>1, <3>6
  <2>5. ASSUME NEW i \in Nat, i \in G PROVE i + 1 \in G
    <3> SUFFICES ASSUME (i + 1) + 1 \in 1 .. n PROVE Good((i + 1) + 1)
      OBVIOUS
    <3> DEFINE a == i + 1
               b == (i + 1) + 1
               r == s[b]
               q == h[a]
               t == q \o r
    <3>1. a \in 1 .. n /\ b \in 1 .. n /\ b # 1 /\ b - 1 = a
      OBVIOUS
    <3>2. Good(a)
      BY <2>5, <3>1
    <3> HIDE DEF a, b
    <3>3. h[b] = t
      <4>1. h[b] = FlatStep(h, s, b)
        BY <2>3, <3>1
      <4> QED BY <3>1, <4>1, Zenon DEF FlatStep
    <3>4. q \in Seq(Int) /\ Len(q) = L(a) /\ \A k \in 1 .. Len(q) : q[k] = k
      BY <3>2
    <3>5. /\ r \in Seq(Int) /\ Len(r) \in Nat /\ Len(r) >= 1 /\ L(b) = r[Len(r)]
          /\ r[1] = L(a) + 1
          /\ \A k \in 1 .. Len(r) : r[k] = (r[1] + k) - 1
      BY <1>1, <1>4, <3>1
    <3> HIDE DEF q, r, Good
    <3>6. Len(q) \in Nat
      BY <3>4, LenProperties
    <3>7. /\ t \in Seq(Int) /\ Len(t) = Len(q) + Len(r)
          /\ \A k \in 1 .. Len(q) + Len(r) : t[k] = IF k <= Len(q) THEN q[k] ELSE r[k - Len(q)]
      <4>1. q \in Seq(Int) /\ r \in Seq(Int)
        BY <3>4, <3>5
      <4> QED BY <4>1, ConcatProperties
    <3>8. \A k \in 1 .. Len(r) : r[k] = Len(q) + k
      BY <3>4, <3>5, <3>6
    <3> HIDE DEF t
    <3>9. ASSUME NEW k \in 1 .. Len(t) PROVE t[k] = k
      <4>1. CASE k <= Len(q)
        BY <3>4, <3>5, <3>6, <3>7, <4>1
      <4>2. CASE ~ (k <= Len(q))
        <5>1. k - Len(q) \in 1 .. Len(r) /\ Len(q) + (k - Len(q)) = k
          BY <3>5, <3>6, <3>7, <4>2
        <5>2. r[k - Len(q)] = Len(q) + (k - Len(q))
          BY <3>8, <5>1
        <5> QED BY <3>7, <4>2, <5>1, <5>2
      <4> QED BY <4>1, <4>2
    <3>10. L(b) = Len(t)
      BY <3>5, <3>7, <3>8
    <3>11. Good(b)
      BY <3>3, <3>7, <3>9, <3>10 DEF Good
    <3> QED BY <3>11 DEF b
  <2> HIDE DEF G
  <2>6. Nat \subseteq G
    BY <2>4, <2>5, Induction
  <2>7. n - 1 \in Nat /\ (n - 1) + 1 = n /\ n \in 1 .. n
    BY <1>6
  <2>8. Good(n)
    BY <2>6, <2>7 DEF G
  <2>9. DOMAIN h[n] = 1 .. Len(h[n])
    BY <2>8, LenProperties
  <2> QED BY <1>20, <2>2, <2>8, <2>9
<1> QED BY <1>5, <1>6

\* A chain put behind a chain.
LEMMA ChainJoins ==
    ASSUME NEW T, NEW s \in Seq(T), NEW t \in Seq(T), NEW a, s # <<>>,
           ChainFrom(s, a), ChainFrom(t, LastTrade(Last(s)) + 1)
    PROVE  ChainFrom(s \o t, a) /\ s \o t # <<>>
<1> DEFINE r == s \o t
           m == Len(s)
           n == Len(t)
<1>1. /\ m \in Nat /\ n \in Nat /\ m >= 1 /\ Last(s) = s[m]
      /\ DOMAIN s = 1 .. m /\ DOMAIN t = 1 .. n
  BY LastIs, LenProperties
<1>2. /\ r \in Seq(T) /\ Len(r) = m + n
      /\ \A k \in 1 .. m + n : r[k] = IF k <= m THEN s[k] ELSE t[k - m]
  BY ConcatProperties
<1>3. DOMAIN r = 1 .. m + n
  BY <1>2, LenProperties
<1> HIDE DEF r, m, n
<1>4. r # <<>>
  BY <1>1, <1>2, EmptySeq
<1>5. ASSUME NEW k \in 1 .. m + n
      PROVE  /\ r[k].ids # <<>> /\ Consecutive(r[k].ids, r[k].ids[1])
             /\ k = 1 => r[k].ids[1] = a
             /\ k > 1 => r[k].ids[1] = LastTrade(r[k - 1]) + 1
  <2>1. CASE k <= m
    <3>1. k \in 1 .. m /\ r[k] = s[k] /\ (k > 1 => k - 1 \in 1 .. m + n /\ k - 1 <= m)
      BY <1>1, <1>2, <2>1
    <3>2. k > 1 => r[k - 1] = s[k - 1]
      BY <1>2, <3>1
    <3> QED BY <1>1, <3>1, <3>2 DEF ChainFrom
  <2>2. CASE ~ (k <= m)
    <3> DEFINE l == k - m
    <3>1. l \in 1 .. n /\ r[k] = t[l] /\ k > 1 /\ k # 1 /\ k - 1 \in 1 .. m + n
      BY <1>1, <1>2, <2>2
    <3>2. t[l].ids # <<>> /\ Consecutive(t[l].ids, t[l].ids[1])
      BY <1>1, <3>1 DEF ChainFrom
    <3>3. r[k].ids[1] = LastTrade(r[k - 1]) + 1
      <4>1. CASE l = 1
        <5>1. k - 1 = m /\ r[k - 1] = s[m]
          BY <1>1, <1>2, <3>1, <4>1
        <5>2. t[l].ids[1] = LastTrade(s[m]) + 1
          BY <1>1, <3>1, <4>1 DEF ChainFrom
        <5> QED BY <3>1, <5>1, <5>2
      <4>2. CASE l # 1
        <5>1. ~ (k - 1 <= m) /\ (k - 1) - m = l - 1 /\ l > 1
          BY <1>1, <3>1, <4>2
        <5>2. r[k - 1] = t[l - 1]
          BY <1>2, <3>1, <5>1
        <5>3. t[l].ids[1] = LastTrade(t[l - 1]) + 1
          BY <1>1, <3>1, <5>1 DEF ChainFrom
        <5> QED BY <3>1, <5>2, <5>3
      <4> QED BY <4>1, <4>2
    <3> QED BY <3>1, <3>2, <3>3
  <2> QED BY <2>1, <2>2
<1>6. ChainFrom(r, a)
  BY <1>3, <1>5 DEF ChainFrom
<1> QED BY <1>4, <1>6 DEF r
-----------------------------------------------------------------------------
(* Pages of the exchange. *)

\* A falling sequence of members of a finite set is no longer than the set is large.
LEMMA FallingFits ==
    ASSUME NEW s \in Seq(Int), Falling(s), NEW S, IsFiniteSet(S),
           \A i \in 1 .. Len(s) : s[i] \in S
    PROVE  Len(s) <= Cardinality(S)
<1> DEFINE n == Len(s)
<1>1. n \in Nat /\ DOMAIN s = 1 .. n /\ \A i \in 1 .. n : s[i] \in Int
  BY LenProperties, ElementOfSeq
<1>2. \A i, j \in 1 .. n : i < j => s[j] < s[i]
  BY <1>1 DEF Falling
<1>3. s \in [1 .. n -> S]
  <2>1. s = [i \in 1 .. n |-> s[i]]
    BY <1>1, LenProperties
  <2> QED BY <2>1
<1> HIDE DEF n
<1>4. IsFiniteSet(1 .. n) /\ Cardinality(1 .. n) = n /\ Cardinality(S) \in Nat
  <2>1. IsFiniteSet(1 .. n) /\ Cardinality(1 .. n) = IF 1 > n THEN 0 ELSE (n - 1) + 1
    BY <1>1, FS_Interval
  <2> QED BY <1>1, <2>1, FS_CardinalityType
<1> SUFFICES ASSUME Cardinality(S) < n PROVE FALSE
  BY <1>1, <1>4 DEF n
<1>5. \E x, y \in 1 .. n : x # y /\ s[x] = s[y]
  <2>1. Cardinality(S) < Cardinality(1 .. n)
    BY <1>4
  <2> QED BY <1>3, <1>4, <2>1, FS_PigeonHole
<1>6. PICK x \in 1 .. n, y \in 1 .. n : x # y /\ s[x] = s[y]
  BY <1>5
<1>7. (x < y => s[y] < s[x]) /\ (y < x => s[x] < s[y])
  BY <1>2
<1> QED BY <1>1, <1>6, <1>7

\* The trades between two times, the newest first.
LEMMA FoundIs ==
    ASSUME HistoryInv, NEW S, S \subseteq 1 .. Len(trades)
    PROVE  LET s == Picked(Reverse(Upto(Len(trades))), S)
           IN  /\ s \in Seq(Int) /\ Falling(s) /\ Len(s) \in Nat
               /\ \A x \in Int : Has(s, Len(s), x) <=> x \in S
               /\ Len(s) <= Cardinality(S)
<1> DEFINE n == Len(trades)
           r == Reverse(Upto(n))
           s == Picked(r, S)
<1>1. n \in Nat
  BY HistoryIs
<1> HIDE DEF n
<1>2. r \in Seq(1 .. n) /\ Len(r) = n /\ Falling(r) /\ \A x : Has(r, n, x) <=> x \in 1 .. n
  BY <1>1, DownIs
<1> HIDE DEF r
<1>3. r \in Seq(Int)
  <2>1. 1 .. n \subseteq Int
    OBVIOUS
  <2> QED BY <1>2, <2>1
<1>4. /\ s \in Seq(Int) /\ Falling(s) /\ Len(s) \in Nat /\ DOMAIN s = 1 .. Len(s)
      /\ \A x \in Int : Has(s, Len(s), x) <=> (x \in S /\ Has(r, Len(r), x))
  BY <1>2, <1>3, PickedFalls
<1> HIDE DEF s
<1>5. \A x \in Int : Has(s, Len(s), x) <=> x \in S
  BY <1>2, <1>4 DEF n
<1>6. IsFiniteSet(S)
  <2>1. IsFiniteSet(1 .. n)
    BY <1>1, FS_Interval
  <2> QED BY <2>1, FS_Subset DEF n
<1>7. \A i \in 1 .. Len(s) : s[i] \in S
  <2> TAKE i \in 1 .. Len(s)
  <2>1. s[i] \in Int /\ Has(s, Len(s), s[i])
    BY <1>4, ElementOfSeq DEF Has
  <2> QED BY <1>5, <2>1
<1>8. Len(s) <= Cardinality(S)
  BY <1>4, <1>6, <1>7, FallingFits
<1> QED BY <1>4, <1>5, <1>8 DEF s, r, n

\* The trades between two times.
Between(start, end) == {i \in DOMAIN trades : trades[i] >= start /\ trades[i] <= end}

\* A page has no trades but those between the two times, and all of them if they fit.
LEMMA PageHas ==
    ASSUME HistoryInv, NEW start \in Int, NEW end \in Int, NEW T
    PROVE  LET got == Picked(PageOf(start, end), T)
           IN  /\ got \in Seq(Int) /\ Falling(got)
               /\ \A x \in Int : Has(got, Len(got), x) => x \in Between(start, end) /\ x \in T
               /\ Cardinality(Between(start, end)) <= PageLimit =>
                    \A x \in Int : x \in Between(start, end) /\ x \in T => Has(got, Len(got), x)
<1> DEFINE S == Between(start, end)
           s == Picked(Reverse(Upto(Len(trades))), S)
           m == IF Len(s) < PageLimit THEN Len(s) ELSE PageLimit
           t == SubSeq(s, 1, m)
           got == Picked(t, T)
<1>1. PageOf(start, end) = t
  BY DEF PageOf, Between
<1>2. S \subseteq 1 .. Len(trades)
  BY HistoryIs DEF Between
<1> HIDE DEF S
<1>3. /\ s \in Seq(Int) /\ Falling(s) /\ Len(s) \in Nat
      /\ \A x \in Int : Has(s, Len(s), x) <=> x \in S
      /\ Len(s) <= Cardinality(S)
  BY <1>2, FoundIs
<1> HIDE DEF s
<1>30. Cardinality(S) \in Nat
  <2>1. IsFiniteSet(1 .. Len(trades))
    BY HistoryIs, FS_Interval
  <2>2. IsFiniteSet(S)
    BY <1>2, <2>1, FS_Subset
  <2> QED BY <2>2, FS_CardinalityType
<1>4. m \in Nat /\ m <= Len(s) /\ (Cardinality(S) <= PageLimit => m = Len(s))
  <2>1. PageLimit \in Nat
    BY SizeAssumption
  <2> QED BY <1>3, <1>30, <2>1
<1> HIDE DEF m
<1>5. /\ t \in Seq(Int) /\ Len(t) = m /\ \A i \in 1 .. m : t[i] = s[i]
      /\ DOMAIN t = 1 .. m
  <2> DEFINE r == [i \in 1 .. m |-> s[i]]
  <2>1. \A i \in 1 .. m : i \in 1 .. Len(s)
    BY <1>3, <1>4
  <2>2. \A i \in 1 .. m : s[i] \in Int
    BY <1>3, <2>1, ElementOfSeq
  <2>3. t \in Seq(Int) /\ Len(t) = m
    <3>1. /\ t \in Seq(Int)
          /\ Len(t) = IF 1 <= m THEN (m - 1) + 1 ELSE 0
      BY <1>4, <2>2, SubSeqProperties
    <3> QED BY <1>4, <3>1
  <2>4. \A i \in 1 .. m : t[i] = s[(1 + i) - 1]
    <3>1. \A i \in 1 .. (m - 1) + 1 : t[i] = s[(1 + i) - 1]
      BY <1>4, <2>2, SubSeqProperties
    <3> QED BY <1>4, <3>1
  <2>5. \A i \in 1 .. m : (1 + i) - 1 = i
    BY <1>4
  <2> QED BY <2>3, <2>4, <2>5, LenProperties
<1> HIDE DEF t
<1>6. Falling(t)
  <2>1. DOMAIN s = 1 .. Len(s) /\ \A i \in 1 .. m : i \in 1 .. Len(s)
    BY <1>3, <1>4, LenProperties
  <2> QED BY <1>3, <1>5, <2>1 DEF Falling
<1>7. /\ \A x \in Int : Has(t, Len(t), x) => x \in S
      /\ m = Len(s) => \A x \in Int : Has(t, Len(t), x) <=> x \in S
  <2>1. \A i \in 1 .. m : i \in 1 .. Len(s)
    BY <1>3, <1>4
  <2>2. \A x \in Int : Has(t, Len(t), x) => Has(s, Len(s), x)
    BY <1>5, <2>1 DEF Has
  <2>3. m = Len(s) => \A x \in Int : Has(s, Len(s), x) => Has(t, Len(t), x)
    BY <1>5 DEF Has
  <2> QED BY <1>3, <2>2, <2>3
<1>8. /\ got \in Seq(Int) /\ Falling(got)
      /\ \A x \in Int : Has(got, Len(got), x) <=> (x \in T /\ Has(t, Len(t), x))
  BY <1>5, <1>6, PickedFalls
<1> HIDE DEF got
<1>9. \A x \in Int : Has(got, Len(got), x) => x \in S /\ x \in T
  BY <1>7, <1>8
<1>10. Cardinality(S) <= PageLimit =>
         \A x \in Int : x \in S /\ x \in T => Has(got, Len(got), x)
  BY <1>4, <1>7, <1>8
<1>11. got = Picked(PageOf(start, end), T)
  BY <1>1 DEF got
<1> HIDE DEF got
<1> QED BY <1>8, <1>9, <1>10, <1>11 DEF S

\* The first page: all trades after a trade, if they fit with those of its time.
LEMMA FirstPage ==
    ASSUME HistoryInv, NEW a \in 1 .. Len(trades), NEW start \in Int, start <= trades[a],
           Cardinality(Between(start, Always)) <= PageLimit,
           NEW got, got = Picked(PageOf(start, Always), {i \in DOMAIN trades : i > a})
    PROVE  /\ Consecutive(Reverse(got), a + 1)
           /\ got # <<>> => a + 1 \in 1 .. Len(trades) /\ Last(got) = a + 1
<1> DEFINE n == Len(trades)
           T == {i \in DOMAIN trades : i > a}
           r == Reverse(got)
<1>1. Always \in Int /\ \A i \in 1 .. n : trades[i] \in Int /\ trades[i] <= Always
  <2>1. \A i \in 1 .. n : trades[i] \in 0 .. MaxTime
    BY HistoryIs
  <2>2. MaxTime \in Nat /\ Always = MaxTime + 1
    BY SizeAssumption DEF Always
  <2> QED BY <2>1, <2>2
<1>2. n \in Nat /\ DOMAIN trades = 1 .. n
  BY HistoryIs
<1>3. \A x \in Int : x \in T <=> x \in a + 1 .. n
  BY <1>2
<1>4. \A x \in a + 1 .. n : x \in Between(start, Always)
  <2> TAKE x \in a + 1 .. n
  <2>1. x \in 1 .. n /\ a <= x /\ a \in 1 .. n
    BY <1>2
  <2>2. trades[a] <= trades[x]
    BY <1>2, <2>1 DEF HistoryInv
  <2>3. trades[x] >= start /\ trades[x] <= Always
    BY <1>1, <2>1, <2>2
  <2> QED BY <1>2, <2>1, <2>3 DEF Between
<1> HIDE DEF T
<1>5. /\ got \in Seq(Int) /\ Falling(got)
      /\ \A x \in Int : Has(got, Len(got), x) <=> x \in a + 1 .. n
  <2>1. got = Picked(PageOf(start, Always), T)
    BY DEF T
  <2> DEFINE q == Picked(PageOf(start, Always), T)
  <2>2. /\ q \in Seq(Int) /\ Falling(q)
        /\ \A x \in Int : Has(q, Len(q), x) => x \in Between(start, Always) /\ x \in T
        /\ Cardinality(Between(start, Always)) <= PageLimit =>
             \A x \in Int : x \in Between(start, Always) /\ x \in T => Has(q, Len(q), x)
    BY <1>1, PageHas
  <2> HIDE DEF q
  <2>3. \A x \in Int : Has(q, Len(q), x) <=> x \in a + 1 .. n
    BY <1>3, <1>4, <2>2
  <2>4. got = q
    BY <2>1 DEF q
  <2> QED BY <2>2, <2>3, <2>4
<1>6. /\ r \in Seq(Int) /\ Len(r) = Len(got) /\ Len(got) \in Nat
      /\ \A i \in 1 .. Len(got) : r[i] = got[(Len(got) - i) + 1]
      /\ \A x : Has(r, Len(got), x) <=> Has(got, Len(got), x)
  BY <1>5, Reversed
<1>7. Rising(r)
  BY <1>5, ReverseRises
<1> HIDE DEF r
<1>8. \A x \in Int : Has(r, Len(r), x) <=> x \in a + 1 .. n
  BY <1>5, <1>6
<1>9. Consecutive(r, r[1])
  <2> SUFFICES ASSUME NEW x \in Int, NEW i \in DOMAIN r, NEW j \in DOMAIN r,
                      r[i] <= x, x <= r[j]
               PROVE  x \in a + 1 .. n
    BY <1>6, <1>7, <1>8, RisingByOne
  <2> DEFINE y == r[i]
             z == r[j]
  <2>1. y \in Int /\ z \in Int /\ Has(r, Len(r), y) /\ Has(r, Len(r), z)
    BY <1>6, LenProperties, ElementOfSeq DEF Has
  <2>2. y <= x /\ x <= z
    OBVIOUS
  <2> HIDE DEF y, z
  <2>3. y \in a + 1 .. n /\ z \in a + 1 .. n
    BY <1>8, <2>1
  <2> QED BY <2>2, <2>3
<1>10. CASE got = <<>>
  <2>1. Len(r) = 0
    BY <1>6, <1>10, EmptySeq
  <2>2. DOMAIN r = {}
    BY <1>6, <2>1, LenProperties
  <2>3. Consecutive(r, a + 1)
    BY <2>2 DEF Consecutive
  <2> QED BY <1>10, <2>3 DEF r
<1>11. CASE got # <<>>
  <2>1. /\ Len(got) >= 1 /\ Last(got) = got[Len(got)] /\ Last(got) \in Int
    BY <1>5, <1>11, LastIs
  <2>2. r[1] = Last(got)
    <3>1. 1 \in 1 .. Len(got) /\ (Len(got) - 1) + 1 = Len(got)
      BY <1>6, <2>1
    <3> QED BY <1>6, <2>1, <3>1
  <2>3. Has(r, Len(r), r[1]) /\ r[1] \in Int
    <3>1. 1 \in 1 .. Len(r)
      BY <1>6, <2>1
    <3> QED BY <2>1, <2>2, <3>1 DEF Has
  <2>4. r[1] \in a + 1 .. n
    BY <1>8, <2>3
  <2>5. a + 1 \in 1 .. n /\ a + 1 \in a + 1 .. n /\ a + 1 \in Int
    BY <1>2, <2>4
  <2>6. r[1] <= a + 1
    BY <1>6, <1>7, <1>8, <2>5, RisingEnds
  <2>7. r[1] = a + 1
    BY <2>4, <2>5, <2>6
  <2> QED BY <1>9, <2>2, <2>5, <2>7 DEF r
<1> QED BY <1>10, <1>11

\* A page that ends before the trade after a trade has nothing new.
LEMMA LaterPage ==
    ASSUME HistoryInv, NEW a \in 1 .. Len(trades), a + 1 \in 1 .. Len(trades),
           NEW start \in Int, NEW end \in Int, end < trades[a + 1],
           NEW got, got = Picked(PageOf(start, end), {i \in DOMAIN trades : i > a})
    PROVE  got = <<>>
<1> SUFFICES ASSUME got # <<>> PROVE FALSE
  OBVIOUS
<1> DEFINE T == {i \in DOMAIN trades : i > a}
           b == a + 1
<1>0. b \in 1 .. Len(trades) /\ end < trades[b]
  OBVIOUS
<1>1. \A x \in T : x \in 1 .. Len(trades) /\ b <= x
  BY HistoryIs
<1> HIDE DEF T, b
<1>2. /\ got \in Seq(Int)
      /\ \A x \in Int : Has(got, Len(got), x) => x \in Between(start, end) /\ x \in T
  <2> DEFINE q == Picked(PageOf(start, end), T)
  <2>1. /\ q \in Seq(Int)
        /\ \A x \in Int : Has(q, Len(q), x) => x \in Between(start, end) /\ x \in T
    BY PageHas
  <2>2. got = q
    BY DEF T
  <2> HIDE DEF q
  <2> QED BY <2>1, <2>2
<1>3. Len(got) >= 1 /\ Len(got) \in Nat /\ got[Len(got)] \in Int
  BY <1>2, LastIs
<1>4. Has(got, Len(got), got[Len(got)])
  <2>1. Len(got) \in 1 .. Len(got)
    BY <1>3
  <2> QED BY <2>1 DEF Has
<1>5. PICK x \in Int : x \in Between(start, end) /\ x \in T
  BY <1>2, <1>3, <1>4
<1>6. trades[x] <= end /\ x \in 1 .. Len(trades) /\ b <= x
  BY <1>1, <1>5 DEF Between
<1>7. trades[b] <= trades[x] /\ trades[b] \in Nat /\ trades[x] \in Nat
  BY <1>0, <1>6, HistoryIs DEF HistoryInv
<1> QED BY <1>0, <1>6, <1>7
-----------------------------------------------------------------------------
(* The minutes of one process that updates. *)

\* The newest trade of the minutes is one of the exchange's; its candle begins no later.
LEMMA SeenIs ==
    ASSUME HistoryInv, CandlesInv, lists[1] # <<>>, ChainFrom(lists[1], 1)
    PROVE  /\ Seen \in 1 .. Len(trades)
           /\ NextEnd(Last(lists[1])) \in Int /\ NextEnd(Last(lists[1])) <= trades[Seen]
<1> DEFINE c == Last(lists[1])
           r == c.ids
<1>1. /\ lists[1] \in Seq(Stored(1)) /\ c \in Stored(1)
      /\ c = lists[1][Len(lists[1])] /\ Len(lists[1]) \in DOMAIN lists[1]
  <2>1. lists[1] \in Seq(Stored(1))
    BY DurationsAre DEF CandlesInv
  <2>2. /\ c = lists[1][Len(lists[1])] /\ c \in Stored(1) /\ Len(lists[1]) \in Nat
        /\ Len(lists[1]) >= 1 /\ DOMAIN lists[1] = 1 .. Len(lists[1])
    BY <2>1, LastIs
  <2> HIDE DEF c
  <2> QED BY <2>1, <2>2
<1>2. Consecutive(r, r[1])
  BY <1>1 DEF ChainFrom
<1> HIDE DEF c
<1>3. /\ r # <<>> /\ r \in Seq(1 .. Len(trades)) /\ Seen = Last(r)
      /\ Seen \in 1 .. Len(trades) /\ Head(r) \in 1 .. Len(trades)
  BY <1>1, StoredIs DEF Seen, c, LastTrade
<1>4. /\ Last(r) = r[Len(r)] /\ Head(r) = r[1] /\ Len(r) \in Nat /\ Len(r) >= 1
      /\ DOMAIN r = 1 .. Len(r)
  BY <1>3, LastIs
<1> DEFINE f == r[1]
           l == r[Len(r)]
<1>5. l = (f + Len(r)) - 1
  <2>1. Len(r) \in DOMAIN r /\ f \in Int
    BY <1>3, <1>4
  <2>2. Consecutive(r, f)
    BY <1>2
  <2> HIDE DEF f
  <2> QED BY <2>1, <2>2 DEF Consecutive
<1>6. f \in 1 .. Len(trades) /\ l \in 1 .. Len(trades) /\ Seen = l /\ Head(r) = f
  BY <1>3, <1>4
<1> HIDE DEF f, l
<1>7. f <= l
  BY <1>4, <1>5, <1>6
<1>8. trades[f] <= trades[l] /\ trades[f] \in Int /\ trades[l] \in Int
  BY <1>6, <1>7, HistoryIs DEF HistoryInv
<1>9. NextEnd(c) = trades[f] - 1
  BY <1>6 DEF NextEnd
<1>10. NextEnd(c) \in Int /\ NextEnd(c) <= trades[Seen]
  BY <1>6, <1>8, <1>9
<1> QED BY <1>6, <1>10 DEF c

\* When both minutes are built, the candles are a chain and no update is under way.
LEMMA MinutesStart == CandlesInit => MinutesInv
<1> SUFFICES ASSUME CandlesInit PROVE MinutesInv
  OBVIOUS
<1> DEFINE a == [period |-> 0, ids |-> <<1>>]
           b == [period |-> Durations[1], ids |-> <<2>>]
           l == <<a, b>>
<1>1. lists[1] = l
  BY DurationsAre DEF CandlesInit
<1>2. a.ids = <<1>> /\ b.ids = <<2>>
  OBVIOUS
<1> HIDE DEF a, b
<1>3. l # <<>> /\ DOMAIN l = {1, 2} /\ l[1] = a /\ l[2] = b
  OBVIOUS
<1>4. Consecutive(<<1>>, 1) /\ Consecutive(<<2>>, 2) /\ LastTrade(a) = 1
  <2>1. DOMAIN <<1>> = {1} /\ DOMAIN <<2>> = {1}
    OBVIOUS
  <2> QED BY <1>2, <2>1 DEF Consecutive, LastTrade, Last
<1> HIDE DEF l
<1>5. ChainFrom(l, 1)
  <2>1. \A k \in DOMAIN l : k = 1 \/ k = 2
    BY <1>3
  <2>2. <<1>> # <<>> /\ <<2>> # <<>> /\ <<1>>[1] = 1 /\ <<2>>[1] = 2
    OBVIOUS
  <2>3. l[1].ids = <<1>> /\ l[2].ids = <<2>>
    BY <1>2, <1>3
  <2>4. \A k \in DOMAIN l : l[k].ids # <<>> /\ Consecutive(l[k].ids, l[k].ids[1])
    BY <1>4, <2>1, <2>2, <2>3
  <2>5. l[1].ids[1] = 1 /\ l[2].ids[1] = LastTrade(l[1]) + 1
    BY <1>3, <1>4, <2>2, <2>3
  <2>6. \A k \in DOMAIN l : k = 1 => l[k].ids[1] = 1
    BY <2>5
  <2>7. \A k \in DOMAIN l : k > 1 => l[k].ids[1] = LastTrade(l[k - 1]) + 1
    <3>1. \A k \in DOMAIN l : k > 1 => k = 2 /\ k - 1 = 1
      BY <2>1
    <3> QED BY <2>5, <3>1
  <2> QED BY <2>4, <2>6, <2>7 DEF ChainFrom
<1>6. \A p \in Process : MinuteJob(jobs[p])
  <2>1. \A p \in Process : jobs[p].step = "idle"
    BY DEF CandlesInit, Idle
  <2> QED BY <2>1 DEF MinuteJob
<1> QED BY <1>1, <1>3, <1>5, <1>6 DEF MinutesInv

\* Where trades that follow one another begin.
LEMMA StartsAt ==
    ASSUME NEW n \in Nat, NEW s \in Seq(1 .. n), s # <<>>, NEW x \in Int, Consecutive(s, x)
    PROVE  x \in 1 .. n
<1>1. Len(s) \in Nat /\ Len(s) >= 1 /\ DOMAIN s = 1 .. Len(s)
  BY LastIs
<1>2. s[1] \in 1 .. n /\ 1 \in DOMAIN s
  BY <1>1
<1>3. s[1] = (x + 1) - 1
  BY <1>2 DEF Consecutive
<1> QED BY <1>2, <1>3

\* A step that leaves the candles and their updates alone.
LEMMA MinutesKept ==
    ASSUME HistoryInv, CandlesInv, MinutesInv, HistoryStep, UNCHANGED <<lists, jobs>>
    PROVE  MinutesInv'
<1>1. CASE trades' = trades
  BY <1>1 DEF MinutesInv, MinuteJob, Seen
<1>2. CASE trades' = Append(trades, now)
  <2> DEFINE n == Len(trades)
             a == Seen
  <2>1. \A i \in 1 .. n : trades'[i] = trades[i]
    BY <1>2, TradeAdds
  <2>2. a \in 1 .. n /\ Seen' = a /\ n \in Nat
    BY SeenIs, HistoryIs DEF MinutesInv, Seen
  <2> HIDE DEF a, n
  <2>3. ASSUME NEW p \in Process PROVE MinuteJob(jobs[p])'
    <3> DEFINE j == jobs[p]
    <3>1. j.acc \in Seq(1 .. n) /\ jobs'[p] = j
      BY JobHas DEF CandlesInv, n
    <3>2. MinuteJob(j)
      BY DEF MinutesInv
    <3> HIDE DEF j
    <3>3. CASE j.step = "fetch" /\ j.acc = <<>>
      BY <2>1, <2>2, <3>1, <3>2, <3>3 DEF MinuteJob, a
    <3>4. CASE j.step = "fetch" /\ j.acc # <<>>
      <4>1. Consecutive(j.acc, a + 1) /\ j.end < trades[a + 1]
        BY <3>2, <3>4 DEF MinuteJob, a
      <4>2. a + 1 \in 1 .. n
        <5>1. a + 1 \in Int
          BY <2>2
        <5> QED BY <2>2, <3>1, <3>4, <4>1, <5>1, StartsAt
      <4>3. trades'[a + 1] = trades[a + 1] /\ trades'[a] = trades[a]
        BY <2>1, <2>2, <4>2
      <4> QED BY <2>2, <3>1, <3>2, <3>4, <4>3 DEF MinuteJob, a
    <3>5. CASE j.step # "fetch"
      BY <2>2, <3>1, <3>2, <3>5 DEF MinuteJob, a
    <3> QED BY <3>3, <3>4, <3>5
  <2> QED BY <2>3 DEF MinutesInv
<1> QED BY <1>1, <1>2 DEF HistoryStep

\* Only one process updates.
Alone == \A p, q \in Process : p = q

\* A single process whose pages fit keeps the minutes exact.
LEMMA MinutesUpdate ==
    ASSUME HistoryInv, CandlesInv, MinutesInv, Alone, Fits, NEW p \in Process,
           UpdateBegin(p) \/ Fetch(p) \/ Save(p) \/ GivesUp(p)
    PROVE  MinutesInv'
<1> DEFINE j == jobs[p]
           a == Seen
<1>0. /\ jobs \in [Process -> Job] /\ j \in Job /\ lists[1] \in Seq(Stored(1))
      /\ lists[1] # <<>> /\ ChainFrom(lists[1], 1) /\ MinuteJob(j)
      /\ \A q \in Process : jobs[q].step = "save" => jobs[q].done \in DOMAIN Durations
      /\ DOMAIN lists = DOMAIN Durations
  BY DurationsAre DEF CandlesInv, MinutesInv
<1>1. /\ a \in 1 .. Len(trades)
      /\ NextEnd(Last(lists[1])) \in Int /\ NextEnd(Last(lists[1])) <= trades[a]
  BY <1>0, SeenIs
<1>2. ASSUME NEW J, jobs' = [jobs EXCEPT ![p] = J], NEW q \in Process PROVE jobs'[q] = J
  <2>1. q = p
    BY DEF Alone
  <2> QED BY <1>0, <1>2, <2>1
<1>3. ASSUME NEW J, jobs' = [jobs EXCEPT ![p] = J], UNCHANGED <<lists, trades>>, MinuteJob(J)
      PROVE  MinutesInv'
  <2>1. ASSUME NEW q \in Process PROVE MinuteJob(jobs[q])'
    <3>1. jobs'[q] = J /\ Seen' = Seen
      BY <1>2, <1>3 DEF Seen
    <3> QED BY <1>3, <3>1 DEF MinuteJob
  <2> QED BY <1>0, <1>3, <2>1 DEF MinutesInv
<1>4. MinuteJob(Idle)
  BY DEF MinuteJob, Idle
<1>5. CASE UpdateBegin(p)
  <2> DEFINE c == Last(lists[1])
             J == [Idle EXCEPT !.step = "fetch", !.since = NextEnd(c), !.last = LastTrade(c)]
  <2>1. jobs' = [jobs EXCEPT ![p] = J] /\ UNCHANGED <<lists, trades>>
    BY <1>5 DEF UpdateBegin
  <2>2. a = LastTrade(c) /\ NextEnd(c) <= trades[a]
    BY <1>1 DEF Seen
  <2> HIDE DEF c
  <2>3. J = [step |-> "fetch", since |-> NextEnd(c), last |-> LastTrade(c), end |-> Always,
             acc |-> <<>>, done |-> 0]
    BY JobBegins
  <2> HIDE DEF J
  <2>4. MinuteJob(J)
    BY <2>2, <2>3 DEF MinuteJob
  <2> QED BY <1>3, <2>1, <2>4
<1>6. CASE Fetch(p)
  <2> DEFINE got == Picked(PageOf(j.since, j.end), {i \in DOMAIN trades : i > j.last})
             J == Collected(j, got)
  <2>1. got \in Seq(1 .. Len(trades))
    BY PageIs
  <2>2. j.step = "fetch" /\ jobs' = [jobs EXCEPT ![p] = J] /\ UNCHANGED <<lists, trades>>
    BY <1>6 DEF Fetch
  <2>3. /\ j.last = a /\ j.since <= trades[a]
        /\ IF j.acc = <<>> THEN j.end = Always
           ELSE Consecutive(j.acc, a + 1) /\ j.end < trades[a + 1]
    BY <1>0, <2>2 DEF MinuteJob
  <2>30. j.since \in Int /\ j.end \in Int /\ j.acc \in Seq(1 .. Len(trades))
    BY <1>0, JobHas
  <2>31. Cardinality(Between(j.since, j.end)) <= PageLimit
    <3>1. Between(j.since, j.end) = {i \in DOMAIN trades : j.since <= trades[i] /\ trades[i] <= j.end}
      <4>1. \A i \in DOMAIN trades : trades[i] \in Int
        BY HistoryIs
      <4> HIDE DEF j
      <4> QED BY <2>30, <4>1 DEF Between
    <3>2. Cardinality({i \in DOMAIN trades : j.since <= trades[i] /\ trades[i] <= j.end}) <= PageLimit
      BY <2>2 DEF Fits
    <3> QED BY <3>1, <3>2
  <2> HIDE DEF a, got, j
  <2>4. /\ J.since = j.since /\ J.last = j.last
        /\ ~ Valid(j.acc, got) =>
             J.step = "save" /\ J.done = 1 /\ J.end = j.end /\ J.acc = j.acc
        /\ Valid(j.acc, got) =>
             /\ J.step = j.step /\ J.done = j.done /\ J.end = trades[Last(got)] - 1
             /\ J.acc = j.acc \o Reverse(got)
    BY <1>0, <2>1, JobCollects
  <2> HIDE DEF J
  <2>5. CASE j.acc # <<>>
    <3>1. Consecutive(j.acc, a + 1) /\ j.end < trades[a + 1]
      BY <2>3, <2>5
    <3>2. a + 1 \in 1 .. Len(trades)
      <4>1. a + 1 \in Int /\ Len(trades) \in Nat
        BY <1>1, HistoryIs DEF a
      <4> QED BY <2>5, <2>30, <3>1, <4>1, StartsAt
    <3>3. got = <<>>
      <4> DEFINE T == {i \in DOMAIN trades : i > a}
      <4>1. got = Picked(PageOf(j.since, j.end), T)
        BY <2>3 DEF got
      <4>2. a \in 1 .. Len(trades)
        BY <1>1 DEF a
      <4> QED BY <2>30, <3>1, <3>2, <4>1, <4>2, LaterPage
    <3>4. ~ Valid(j.acc, got)
      BY <3>3 DEF Valid
    <3>5. MinuteJob(J)
      BY <2>4, <3>1, <3>4 DEF MinuteJob, a
    <3> QED BY <1>3, <2>2, <3>5
  <2>6. CASE j.acc = <<>>
    <3>1. j.end = Always
      BY <2>3, <2>6
    <3>2. /\ Consecutive(Reverse(got), a + 1)
          /\ got # <<>> => a + 1 \in 1 .. Len(trades) /\ Last(got) = a + 1
      <4> DEFINE T == {i \in DOMAIN trades : i > a}
      <4>1. got = Picked(PageOf(j.since, Always), T)
        BY <2>3, <3>1 DEF got
      <4>2. a \in 1 .. Len(trades)
        BY <1>1 DEF a
      <4>3. Cardinality(Between(j.since, Always)) <= PageLimit
        BY <2>31, <3>1
      <4> QED BY <2>3, <2>30, <4>1, <4>2, <4>3, FirstPage
    <3>3. CASE Valid(j.acc, got)
      <4>1. got # <<>>
        BY <3>3 DEF Valid
      <4> DEFINE r == Reverse(got)
      <4>2. r \in Seq(1 .. Len(trades)) /\ r # <<>>
        <5>1. r \in Seq(1 .. Len(trades)) /\ Len(r) = Len(got)
          BY <2>1, Reversed
        <5>2. Len(got) >= 1 /\ Len(got) \in Nat
          BY <2>1, <4>1, LastIs
        <5> HIDE DEF r
        <5>3. Len(r) # 0
          BY <5>1, <5>2
        <5> QED BY <5>1, <5>3, EmptySeq
      <4>3. Consecutive(r, a + 1)
        BY <3>2
      <4> HIDE DEF r
      <4>4. J.acc = r
        BY <2>4, <2>6, <3>3, <4>2, ConcatEmptySeq DEF r
      <4>5. J.end = trades[a + 1] - 1 /\ trades[a + 1] \in Nat
        BY <2>4, <3>2, <3>3, <4>1, HistoryIs
      <4>6. J.step = "fetch" /\ J.since = j.since /\ J.last = j.last
        BY <2>2, <2>4, <3>3
      <4>7. J.end < trades[a + 1]
        BY <4>5
      <4>8. MinuteJob(J)
        BY <2>3, <4>2, <4>3, <4>4, <4>6, <4>7 DEF MinuteJob, a
      <4> QED BY <1>3, <2>2, <4>8
    <3>4. CASE ~ Valid(j.acc, got)
      <4>1. J.acc = <<>> /\ J.step = "save"
        BY <2>4, <2>6, <3>4
      <4>2. Consecutive(<<>>, a + 1)
        BY DEF Consecutive
      <4>3. MinuteJob(J)
        BY <4>1, <4>2 DEF MinuteJob, a
      <4> QED BY <1>3, <2>2, <4>3
    <3> QED BY <3>3, <3>4
  <2> QED BY <2>5, <2>6
<1>7. CASE Save(p)
  <2> DEFINE d == j.done
             cs == CandlesOf(j.acc, Durations[d])
             J == IF d = Len(Durations) THEN Idle ELSE [j EXCEPT !.done = d + 1]
             l == lists[1]
  <2>1. /\ j.step = "save" /\ lists' = [lists EXCEPT ![d] = @ \o cs]
        /\ jobs' = [jobs EXCEPT ![p] = J] /\ UNCHANGED trades
    BY <1>7 DEF Save
  <2>2. d \in DOMAIN Durations
    BY <1>0, <2>1
  <2>3. lists'[1] = IF d = 1 THEN l \o cs ELSE l
    <3> HIDE DEF cs, d
    <3> QED BY <1>0, <2>1, <2>2, DurationsAre
  <2>4. J.step = "idle" \/ (J.done # 1 /\ J.step = "save")
    <3>1. CASE d = Len(Durations)
      BY <3>1 DEF Idle
    <3>2. CASE d # Len(Durations)
      <4> DEFINE K == [j EXCEPT !.done = d + 1]
      <4>1. d \in Nat /\ d >= 1
        BY <2>2, DurationsAre
      <4>2. K.step = j.step /\ K.done = d + 1
        <5> HIDE DEF d
        <5>1. d + 1 \in Nat
          BY <4>1
        <5> QED BY <1>0, <5>1, JobNext
      <4>3. d + 1 # 1
        BY <4>1
      <4> QED BY <2>1, <3>2, <4>2, <4>3
    <3> QED BY <3>1, <3>2
  <2> HIDE DEF J
  <2>5. ASSUME NEW q \in Process PROVE MinuteJob(jobs[q])'
    <3>1. jobs'[q] = J
      BY <1>2, <2>1
    <3> QED BY <2>4, <3>1 DEF MinuteJob
  <2>6. ChainFrom(lists'[1], 1) /\ lists'[1] # <<>>
    <3>1. CASE d # 1
      BY <1>0, <2>3, <3>1
    <3>2. CASE d = 1
      <4>1. Consecutive(j.acc, LastTrade(Last(l)) + 1) /\ a = LastTrade(Last(l))
        BY <1>0, <2>1, <3>2 DEF MinuteJob, Seen
      <4>2. a + 1 \in Int /\ j.acc \in Seq(1 .. Len(trades))
        BY <1>0, <1>1, JobHas
      <4>3. ChainFrom(cs, LastTrade(Last(l)) + 1)
        <5> HIDE DEF a
        <5> QED BY <2>2, <4>1, <4>2, CandlesChain
      <4>4. cs \in Seq(Stored(1))
        BY <2>2, <3>2, <4>2, CandlesStore
      <4> HIDE DEF cs
      <4>5. ChainFrom(l \o cs, 1) /\ l \o cs # <<>>
        BY <1>0, <4>3, <4>4, ChainJoins
      <4> QED BY <2>3, <3>2, <4>5
    <3> QED BY <3>1, <3>2
  <2>7. LET m == lists'[1] IN m # <<>> /\ ChainFrom(m, 1)
    BY <2>6
  <2> HIDE DEF j, a
  <2> QED BY <2>1, <2>5, <2>6 DEF MinutesInv
<1>8. CASE GivesUp(p)
  <2>1. jobs' = [jobs EXCEPT ![p] = Idle] /\ UNCHANGED <<lists, trades>>
    BY <1>8 DEF GivesUp
  <2> QED BY <1>3, <1>4, <2>1
<1> QED BY <1>5, <1>6, <1>7, <1>8

\* What the invariant says of the minutes' trades.
LEMMA MinutesAre ==
    ASSUME CandlesInv, MinutesInv
    PROVE  MinutesExact
<1> DEFINE l == lists[1]
           n == Len(l)
<1>1. l \in Seq(Stored(1)) /\ ChainFrom(l, 1)
  BY DurationsAre DEF CandlesInv, MinutesInv
<1> HIDE DEF l
<1>2. n \in Nat /\ DOMAIN l = 1 .. n /\ \A k \in 1 .. n : l[k] \in Stored(1)
  BY <1>1, LenProperties, ElementOfSeq
<1>3. \A k \in 1 .. n : l[k].ids \in Seq(Int)
  BY <1>2 DEF Stored
<1> HIDE DEF n
<1>4. \A k \in DOMAIN TradesOf(l) : TradesOf(l)[k] = k
  BY <1>1, <1>2, <1>3, ChainTrades
<1> QED BY <1>4 DEF MinutesExact, l
-----------------------------------------------------------------------------
(* Bittrex' candles. *)

\* Whole lengths that fit into a length.
LEMMA LengthsFit ==
    ASSUME NEW x \in Nat, NEW d \in Nat \ {0}, NEW k \in Nat, k <= x \div d
    PROVE  k * d \in Nat /\ k * d <= x
<1>1. Period(x, d) <= x /\ Period(x, d) \in Nat
  BY PeriodIs
<1>2. PICK q \in Nat : q = x \div d
  OBVIOUS
<1>3. k * d \in Nat /\ q * d \in Nat /\ k * d <= q * d
  BY <1>2
<1>4. q * d <= x
  BY <1>1, <1>2 DEF Period
<1>5. PICK a \in Nat, b \in Nat : a = k * d /\ b = q * d /\ a <= b /\ b <= x
  BY <1>3, <1>4
<1> QED BY <1>5

\* The ticks of a period.
TicksOf(m, d, p) == {i \in 1 .. m : Period(trades[i], d) = p}

\* What the candles of the first trades are: each with the trades of its period, the first of
\* the period of the first trade.
TickFacts(cs, m, d) ==
    /\ cs \in Seq(Ticks) /\ Len(cs) \in Nat /\ DOMAIN cs = 1 .. Len(cs)
    /\ \A k \in 1 .. Len(cs) :
         /\ cs[k].period \in Nat /\ cs[k].period <= MaxTime
         /\ Range(cs[k].ids) = TicksOf(m, d, cs[k].period)
         /\ cs[k].period <= cs[Len(cs)].period
    /\ \A i \in 1 .. m : \A k \in 1 .. Len(cs) : Period(trades[i], d) <= cs[k].period =>
         \E l \in 1 .. Len(cs) : cs[l].period = Period(trades[i], d)
    /\ cs # <<>> => m \in DOMAIN trades /\ cs[1].period = Period(trades[1], d)

\* CandlesOf makes such candles of the ticks of any moment.
LEMMA TickCandles ==
    ASSUME HistoryInv, NEW m \in 0 .. Len(trades), NEW d \in Nat \ {0},
           NEW cs, cs = CandlesOf(Reverse(Upto(m)), d)
    PROVE  TickFacts(cs, m, d)
<1> DEFINE ids == Reverse(Upto(m))
           n == Len(trades)
           P(x) == Period(trades[x], d)
<1>1. n \in Nat /\ now \in Nat /\ m \in Nat /\ m <= n /\ DOMAIN trades = 1 .. n /\ 1 .. m \subseteq 1 .. n
  BY HistoryIs
<1>2. ids \in Seq(1 .. m) /\ Len(ids) = m /\ \A x : Has(ids, m, x) <=> x \in 1 .. m
  BY <1>1, DownIs
<1> HIDE DEF ids
<1>3. ids \in Seq(1 .. n)
  BY <1>1, <1>2
<1>4. CandlesFacts(cs, ids, d)
  BY <1>3, CandlesAre DEF ids
<1>5. /\ cs \in Seq(Ticks) /\ Len(cs) \in Nat /\ DOMAIN cs = 1 .. Len(cs)
      /\ \A k \in 1 .. Len(cs) :
           /\ Complete(cs[k].period, d)
           /\ cs[k].ids = Picked(ids, {i \in Range(ids) : P(i) = cs[k].period})
           /\ \E i \in DOMAIN trades : Has(ids, Len(ids), i) /\ P(i) = cs[k].period
      /\ \A j, k \in 1 .. Len(cs) : j < k => cs[j].period < cs[k].period
      /\ \A i \in DOMAIN trades :
           Has(ids, Len(ids), i) /\ Complete(P(i), d) => \E k \in 1 .. Len(cs) : cs[k].period = P(i)
  BY <1>4 DEF CandlesFacts
<1>6. \A i, j \in 1 .. n : P(i) \in Nat /\ (i <= j => P(i) <= P(j))
  BY PeriodOfTrade
<1>7. \A k \in 1 .. Len(cs) : cs[k].period \in Nat /\ cs[k].period <= MaxTime
                              /\ cs[k].period < Period(now, d)
  <2> TAKE k \in 1 .. Len(cs)
  <2>1. cs[k] \in Ticks
    BY <1>5, ElementOfSeq
  <2>2. cs[k].period \in 0 .. MaxTime
    BY <2>1 DEF Ticks
  <2>3. MaxTime \in Nat
    BY HistoryIs
  <2>4. Complete(cs[k].period, d)
    BY <1>5
  <2> QED BY <2>2, <2>3, <2>4 DEF Complete
<1>8. ASSUME NEW k \in 1 .. Len(cs)
      PROVE  Range(cs[k].ids) = {i \in 1 .. m : P(i) = cs[k].period}
  <2> DEFINE p == cs[k].period
             S == {i \in Range(ids) : P(i) = p}
             r == cs[k].ids
             R == (1 .. n) \X (1 .. n)
  <2>1. r = Picked(ids, S)
    BY <1>5
  <2>2. \A x : x \in Range(ids) <=> x \in 1 .. m
    BY <1>2, RangeHas
  <2>3. \A x : x \in S <=> (x \in 1 .. m /\ P(x) = p)
    BY <2>2
  <2>4. Ordered(ids, R)
    BY <1>3, LenProperties, ElementOfSeq DEF Ordered
  <2> HIDE DEF S, R, r, p
  <2> DEFINE q == Picked(ids, S)
  <2>5. /\ q \in Seq(1 .. n)
        /\ \A x \in 1 .. n : Has(q, Len(q), x) <=> (x \in S /\ Has(ids, Len(ids), x))
    BY <1>3, <2>4, PickedIs
  <2> HIDE DEF q
  <2>6. \A x : x \in Range(q) <=> (x \in 1 .. m /\ P(x) = p)
    <3>1. \A x : x \in Range(q) <=> Has(q, Len(q), x)
      BY <2>5, RangeHas
    <3>2. Range(q) \subseteq 1 .. n
      BY <2>5, RangeHas
    <3> HIDE DEF P
    <3> QED BY <1>1, <1>2, <2>3, <2>5, <3>1, <3>2
  <2>7. r = q
    BY <2>1 DEF q
  <2>8. \A x : x \in Range(r) <=> (x \in 1 .. m /\ P(x) = p)
    BY <2>6, <2>7
  <2>9. Range(r) = {i \in 1 .. m : P(i) = p}
    BY <2>8
  <2> QED BY <2>9 DEF r, p
<1> HIDE DEF P
<1>9. ASSUME NEW i \in 1 .. m, NEW k \in 1 .. Len(cs), P(i) <= cs[k].period
      PROVE  \E l \in 1 .. Len(cs) : cs[l].period = P(i)
  <2>1. i \in 1 .. n /\ P(i) \in Nat
    BY <1>1, <1>6
  <2>2. P(i) < Period(now, d)
    <3>1. Period(now, d) \in Nat
      BY <1>1, PeriodIs
    <3> QED BY <1>7, <1>9, <2>1, <3>1
  <2>3. Complete(P(i), d)
    BY <2>2 DEF Complete
  <2> QED BY <1>1, <1>2, <1>5, <2>1, <2>3
<1>10. ASSUME cs # <<>> PROVE m \in DOMAIN trades /\ cs[1].period = P(1)
  <2>1. 1 \in 1 .. Len(cs)
    BY <1>5, <1>10, EmptySeq, LastIs
  <2>2. PICK i \in DOMAIN trades : Has(ids, Len(ids), i) /\ P(i) = cs[1].period
    BY <1>5, <2>1
  <2>3. i \in 1 .. m
    BY <1>2, <2>2
  <2>4. m \in DOMAIN trades /\ 1 \in 1 .. m /\ 1 \in 1 .. n /\ i \in 1 .. n /\ 1 <= i
    BY <1>1, <2>3
  <2>5. P(1) <= P(i) /\ P(1) \in Nat
    BY <1>6, <2>4
  <2>6. PICK l \in 1 .. Len(cs) : cs[l].period = P(1)
    <3>1. P(1) <= cs[1].period
      BY <2>2, <2>5
    <3> QED BY <1>9, <2>1, <2>4, <3>1
  <2>7. l = 1
    <3>1. 1 < l => cs[1].period < cs[l].period
      BY <1>5, <2>1
    <3>2. ~ (1 < l)
      BY <1>7, <2>1, <2>2, <2>5, <2>6, <3>1
    <3> QED BY <1>5, <3>2
  <2> QED BY <2>4, <2>6, <2>7
<1>11. \A k \in 1 .. Len(cs) : cs[k].period <= cs[Len(cs)].period
  <2> TAKE k \in 1 .. Len(cs)
  <2>1. Len(cs) \in 1 .. Len(cs) /\ (k = Len(cs) \/ k < Len(cs))
    <3> DEFINE l == Len(cs)
    <3>1. l \in Nat /\ k \in 1 .. l
      BY <1>5
    <3> HIDE DEF l
    <3>2. l \in 1 .. l /\ (k = l \/ k < l)
      BY <3>1
    <3> QED BY <3>2 DEF l
  <2>2. k < Len(cs) => cs[k].period < cs[Len(cs)].period
    BY <1>5, <2>1
  <2> QED BY <1>7, <2>1, <2>2
<1>12. \A k \in 1 .. Len(cs) :
         /\ cs[k].period \in Nat /\ cs[k].period <= MaxTime
         /\ Range(cs[k].ids) = TicksOf(m, d, cs[k].period)
         /\ cs[k].period <= cs[Len(cs)].period
  <2>1. \A k \in 1 .. Len(cs) :
          Range(cs[k].ids) = TicksOf(m, d, cs[k].period)
    BY <1>8 DEF P, TicksOf
  <2> QED BY <1>7, <1>11, <2>1
<1>13. \A i \in 1 .. m : \A k \in 1 .. Len(cs) : Period(trades[i], d) <= cs[k].period =>
         \E l \in 1 .. Len(cs) : cs[l].period = Period(trades[i], d)
  BY <1>9 DEF P
<1>14. cs # <<>> => m \in DOMAIN trades /\ cs[1].period = Period(trades[1], d)
  BY <1>10 DEF P
<1> QED BY <1>5, <1>12, <1>13, <1>14 DEF TickFacts

\* With the gaps filled there is a candle for every period from the first trade's on.
LEMMA FilledIs ==
    ASSUME HistoryInv, NEW m \in 0 .. Len(trades), NEW d \in Nat \ {0},
           NEW cs, cs = CandlesOf(Reverse(Upto(m)), d)
    PROVE  FillGaps(cs, d) \in Seq(Ticks) /\ Gapless(FillGaps(cs, d), d)
<1>0. TickFacts(cs, m, d)
  BY TickCandles
<1>1. /\ cs \in Seq(Ticks) /\ Len(cs) \in Nat /\ DOMAIN cs = 1 .. Len(cs)
      /\ \A k \in 1 .. Len(cs) :
           /\ cs[k].period \in Nat /\ cs[k].period <= MaxTime
           /\ Range(cs[k].ids) = TicksOf(m, d, cs[k].period)
           /\ cs[k].period <= cs[Len(cs)].period
      /\ \A i \in 1 .. m : \A k \in 1 .. Len(cs) : Period(trades[i], d) <= cs[k].period =>
           \E l \in 1 .. Len(cs) : cs[l].period = Period(trades[i], d)
      /\ cs # <<>> => m \in DOMAIN trades /\ cs[1].period = Period(trades[1], d)
  BY <1>0 DEF TickFacts
<1>2. CASE cs = <<>>
  <2>1. FillGaps(cs, d) = <<>>
    BY <1>2 DEF FillGaps
  <2> QED BY <2>1, EmptySeq DEF Gapless
<1>3. CASE cs # <<>>
  <2> DEFINE first == Head(cs).period
             last == Last(cs).period
             n == ((last - first) \div d) + 1
             p(k) == first + (k - 1) * d
             f(k) == IF \E c \in Range(cs) : c.period = p(k)
                     THEN CHOOSE c \in Range(cs) : c.period = p(k)
                     ELSE [period |-> p(k), ids |-> <<>>]
             r == [k \in 1 .. n |-> f(k)]
  <2>1. FillGaps(cs, d) = r
    BY <1>3 DEF FillGaps
  <2>2. /\ Len(cs) >= 1 /\ first = cs[1].period /\ last = cs[Len(cs)].period
        /\ 1 \in 1 .. Len(cs) /\ Len(cs) \in 1 .. Len(cs)
    <3>1. /\ Last(cs) = cs[Len(cs)] /\ Head(cs) = cs[1] /\ Len(cs) >= 1
          /\ Len(cs) \in Nat
      BY <1>1, <1>3, LastIs
    <3> QED BY <3>1
  <2> HIDE DEF first, last
  <2>3. /\ first \in Nat /\ last \in Nat /\ first <= last /\ last <= MaxTime /\ MaxTime \in Nat
        /\ first = Period(trades[1], d) /\ m \in DOMAIN trades
    BY <1>1, <1>3, <2>2, HistoryIs
  <2>4. n \in Nat
    <3>1. PICK x \in Nat : x = last - first
      BY <2>3
    <3>2. x \div d \in Nat
      OBVIOUS
    <3> QED BY <3>1, <3>2
  <2>5. ASSUME NEW k \in 1 .. n PROVE p(k) \in 0 .. MaxTime /\ p(k) <= last
    <3>1. PICK x \in Nat : x = last - first
      BY <2>3
    <3>2. PICK l \in Nat : l = k - 1
      BY <2>4
    <3>3. l <= x \div d
      <4>1. x \div d \in Int /\ n = (x \div d) + 1
        BY <3>1
      <4> HIDE DEF n
      <4> QED BY <2>4, <3>2, <4>1
    <3>4. l * d \in Nat /\ l * d <= x
      BY <3>3, LengthsFit
    <3>5. p(k) = first + l * d
      BY <3>2
    <3>6. PICK y \in Nat : y = l * d /\ y <= x
      BY <3>4
    <3>7. p(k) = first + y
      BY <3>5, <3>6
    <3> DEFINE z == p(k)
    <3>8. z = first + y
      BY <3>7
    <3> HIDE DEF z
    <3>9. z \in 0 .. MaxTime /\ z <= last
      <4>1. first \in Nat /\ last \in Nat /\ first <= last /\ last <= MaxTime /\ MaxTime \in Nat
        BY <2>3
      <4>2. x = last - first /\ y <= x
        BY <3>1, <3>6
      <4> QED BY <3>8, <4>1, <4>2
    <3> QED BY <3>9 DEF z
  <2>6. ASSUME NEW k \in 1 .. n
        PROVE  /\ f(k) \in Ticks /\ f(k).period = p(k)
               /\ Range(f(k).ids) = TicksOf(m, d, f(k).period)
    <3> DEFINE c == CHOOSE c \in Range(cs) : c.period = p(k)
               e == [period |-> p(k), ids |-> <<>>]
               g == f(k)
    <3>1. p(k) \in 0 .. MaxTime /\ p(k) <= last
      BY <2>5
    <3> HIDE DEF p
    <3>2. CASE \E x \in Range(cs) : x.period = p(k)
      <4>1. g = c /\ c \in Range(cs) /\ c.period = p(k)
        BY <3>2
      <4> HIDE DEF c, g
      <4>2. PICK l \in 1 .. Len(cs) : c = cs[l]
        BY <1>1, <4>1, RangeHas DEF Has
      <4>3. c \in Ticks
        BY <1>1, <4>2, ElementOfSeq
      <4>4. Range(c.ids) = TicksOf(m, d, c.period)
        BY <1>1, <4>2
      <4>5. /\ g \in Ticks /\ g.period = p(k)
            /\ Range(g.ids) = TicksOf(m, d, g.period)
        BY <4>1, <4>3, <4>4
      <4> QED BY <4>5 DEF g
    <3>3. CASE ~ \E x \in Range(cs) : x.period = p(k)
      <4>1. g = e
        BY <3>3
      <4>2. e.period = p(k) /\ e.ids = <<>>
        OBVIOUS
      <4>3. e \in Ticks
        <5>1. <<>> \in Seq(1 .. Len(trades))
          BY EmptySeq
        <5> QED BY <3>1, <5>1, TickIs
      <4>4. Range(<<>>) = {}
        BY DEF Range
      <4>5. ASSUME NEW i \in 1 .. m, Period(trades[i], d) = p(k) PROVE FALSE
        <5>1. Period(trades[i], d) <= cs[Len(cs)].period
          BY <2>2, <3>1, <4>5
        <5>2. PICK l \in 1 .. Len(cs) : cs[l].period = Period(trades[i], d)
          BY <1>1, <2>2, <5>1
        <5>3. cs[l] \in Range(cs)
          BY <1>1 DEF Range
        <5> QED BY <3>3, <4>5, <5>2, <5>3
      <4> HIDE DEF e, g
      <4>6. /\ g \in Ticks /\ g.period = p(k)
            /\ Range(g.ids) = TicksOf(m, d, g.period)
        BY <4>1, <4>2, <4>3, <4>4, <4>5 DEF TicksOf
      <4> QED BY <4>6 DEF g
    <3> QED BY <3>2, <3>3 DEF p
  <2> HIDE DEF f, n
  <2>7. r \in [1 .. n -> Ticks] /\ \A k \in 1 .. n : r[k] = f(k)
    BY <2>6
  <2> HIDE DEF r
  <2>8. r \in Seq(Ticks) /\ DOMAIN r = 1 .. n
    BY <2>4, <2>7, Listed
  <2>9. Gapless(r, d)
    <3>1. \A k \in DOMAIN r :
            /\ r[k].period = Period(trades[1], d) + (k - 1) * d
            /\ Range(r[k].ids) = {i \in 1 .. m : Period(trades[i], d) = r[k].period}
      BY <2>3, <2>6, <2>7, <2>8 DEF TicksOf
    <3> QED BY <2>3, <3>1 DEF Gapless
  <2> QED BY <2>1, <2>8, <2>9
<1> QED BY <1>2, <1>3

\* No update is one of TickUpdate.
LEMMA NoUpdateIs == NoUpdate \in TickUpdate /\ NoUpdate.step = "idle" /\ NoUpdate.ids = <<>>
BY EmptySeq DEF NoUpdate, TickUpdate

\* No ticks yet.
LEMMA NothingYet == HistoryInv => \E n \in 0 .. Len(trades) : <<>> = Reverse(Upto(n))
<1> SUFFICES ASSUME HistoryInv PROVE \E n \in 0 .. Len(trades) : <<>> = Reverse(Upto(n))
  OBVIOUS
<1>1. 0 \in 0 .. Len(trades) /\ 0 \in Nat
  BY HistoryIs
<1> DEFINE r == Reverse(Upto(0))
<1>2. r \in Seq(1 .. 0) /\ Len(r) = 0
  BY <1>1, DownIs
<1> HIDE DEF r
<1>3. r = <<>>
  BY <1>2, EmptySeq
<1> QED BY <1>1, <1>3 DEF r

\* The updates that the steps make.
LEMMA UpdateAt ==
    ASSUME NEW u \in TickUpdate, NEW s \in {"idle", "poloniex", "fetch", "again", "drop", "save"}
    PROVE  LET v == [u EXCEPT !.step = s]
           IN  /\ v \in TickUpdate /\ v.step = s /\ v.ids = u.ids /\ v.done = u.done
               /\ v.candles = u.candles
BY DEF TickUpdate

\* The update that drops the first list.
LEMMA UpdateFirst ==
    ASSUME NEW u \in TickUpdate
    PROVE  LET v == [u EXCEPT !.step = "drop", !.done = 1]
           IN  /\ v \in TickUpdate /\ v.step = "drop" /\ v.ids = u.ids /\ v.done = 1
<1> DEFINE h == [u EXCEPT !.step = "drop"]
           v == [h EXCEPT !.done = 1]
<1>1. [u EXCEPT !.step = "drop", !.done = 1] = v
  BY DEF TickUpdate
<1>2. h \in TickUpdate /\ h.step = "drop" /\ h.ids = u.ids
  BY DEF TickUpdate
<1> HIDE DEF h
<1>3. v \in TickUpdate /\ v.step = "drop" /\ v.ids = u.ids /\ v.done = 1
  BY <1>2 DEF TickUpdate
<1> HIDE DEF v
<1> QED BY <1>1, <1>3

\* The update that has its ticks.
LEMMA UpdateFetched ==
    ASSUME NEW u \in TickUpdate, NEW r \in Seq(1 .. Len(trades))
    PROVE  LET v == [u EXCEPT !.ids = r, !.step = "again"]
           IN  /\ v \in TickUpdate /\ v.step = "again" /\ v.ids = r
<1> DEFINE h == [u EXCEPT !.ids = r]
           v == [h EXCEPT !.step = "again"]
<1>1. [u EXCEPT !.ids = r, !.step = "again"] = v
  BY DEF TickUpdate
<1>2. h \in TickUpdate /\ h.ids = r
  BY DEF TickUpdate
<1> HIDE DEF h
<1>3. v \in TickUpdate /\ v.step = "again" /\ v.ids = r
  BY <1>2 DEF TickUpdate
<1> HIDE DEF v
<1> QED BY <1>1, <1>3

\* The update that has the candles of a list.
LEMMA UpdateSaves ==
    ASSUME NEW u \in TickUpdate, NEW cs \in Seq(Ticks)
    PROVE  LET v == [u EXCEPT !.step = "save", !.candles = cs]
           IN  /\ v \in TickUpdate /\ v.step = "save" /\ v.ids = u.ids /\ v.done = u.done
               /\ v.candles = cs
<1> DEFINE h == [u EXCEPT !.step = "save"]
           v == [h EXCEPT !.candles = cs]
<1>1. [u EXCEPT !.step = "save", !.candles = cs] = v
  BY DEF TickUpdate
<1>2. h \in TickUpdate /\ h.step = "save" /\ h.ids = u.ids /\ h.done = u.done
  BY DEF TickUpdate
<1> HIDE DEF h
<1>3. v \in TickUpdate /\ v.step = "save" /\ v.ids = u.ids /\ v.done = u.done /\ v.candles = cs
  BY <1>2 DEF TickUpdate
<1> HIDE DEF v
<1> QED BY <1>1, <1>3

\* The update that goes on to the next list.
LEMMA UpdateNext ==
    ASSUME NEW u \in TickUpdate
    PROVE  LET v == [u EXCEPT !.step = "drop", !.done = @ + 1, !.candles = <<>>]
           IN  /\ v \in TickUpdate /\ v.step = "drop" /\ v.ids = u.ids /\ v.done = u.done + 1
<1> DEFINE x == u.done + 1
           h == [u EXCEPT !.step = "drop"]
           k == [h EXCEPT !.done = x]
           v == [k EXCEPT !.candles = <<>>]
<1>0. x \in Nat
  BY DEF TickUpdate
<1>1. [u EXCEPT !.step = "drop", !.done = @ + 1, !.candles = <<>>] = v
  BY DEF TickUpdate
<1> HIDE DEF x
<1>2. h \in TickUpdate /\ h.step = "drop" /\ h.ids = u.ids
  BY DEF TickUpdate
<1> HIDE DEF h
<1>3. k \in TickUpdate /\ k.step = "drop" /\ k.ids = u.ids /\ k.done = x
  BY <1>0, <1>2 DEF TickUpdate
<1> HIDE DEF k
<1>4. v \in TickUpdate /\ v.step = "drop" /\ v.ids = u.ids /\ v.done = x
  <2>1. <<>> \in Seq(Ticks)
    BY EmptySeq
  <2> QED BY <1>3, <2>1 DEF TickUpdate
<1> HIDE DEF v
<1> QED BY <1>1, <1>4 DEF x

\* Nothing is stored of Bittrex at first.
LEMMA BittrexStart == HistoryInv /\ ExchangesInit => BittrexInv
<1> SUFFICES ASSUME HistoryInv, ExchangesInit PROVE BittrexInv
  OBVIOUS
<1>1. bittrex = NoUpdate /\ bittrexLists = [d \in DOMAIN Durations |-> <<>>]
  BY DEF ExchangesInit
<1>2. bittrex \in TickUpdate /\ bittrex.step = "idle" /\ bittrex.ids = <<>>
  BY <1>1, NoUpdateIs
<1>3. \E n \in 0 .. Len(trades) : bittrex.ids = Reverse(Upto(n))
  BY <1>2, NothingYet
<1>4. \A d \in DOMAIN Durations :
        bittrexLists[d] \in Seq(Ticks) /\ Gapless(bittrexLists[d], Durations[d])
  BY <1>1, EmptySeq DEF Gapless
<1> QED BY <1>1, <1>2, <1>3, <1>4 DEF BittrexInv

\* A list without gaps stays so when a trade is made.
LEMMA GaplessStays ==
    ASSUME HistoryInv, trades' = Append(trades, now), NEW list, NEW span, Gapless(list, span)
    PROVE  Gapless(list, span)'
<1> SUFFICES ASSUME list # <<>>
             PROVE  \E n \in DOMAIN trades' :
                      \A k \in DOMAIN list :
                        /\ list[k].period = Period(trades'[1], span) + (k - 1) * span
                        /\ Range(list[k].ids) =
                             {i \in 1 .. n : Period(trades'[i], span) = list[k].period}
  BY DEF Gapless
<1>1. PICK n \in DOMAIN trades :
        \A k \in DOMAIN list :
          /\ list[k].period = Period(trades[1], span) + (k - 1) * span
          /\ Range(list[k].ids) = {i \in 1 .. n : Period(trades[i], span) = list[k].period}
  BY DEF Gapless
<1>2. /\ n \in 1 .. Len(trades) /\ Len(trades) \in Nat /\ DOMAIN (trades') = 1 .. Len(trades) + 1
      /\ \A i \in 1 .. Len(trades) : trades'[i] = trades[i]
  BY TradeAdds, HistoryIs
<1>3. n \in DOMAIN trades' /\ trades'[1] = trades[1] /\ \A i \in 1 .. n : trades'[i] = trades[i]
  BY <1>2
<1>4. ASSUME NEW k \in DOMAIN list
      PROVE  /\ list[k].period = Period(trades'[1], span) + (k - 1) * span
             /\ Range(list[k].ids) = {i \in 1 .. n : Period(trades'[i], span) = list[k].period}
  <2>1. list[k].period = Period(trades'[1], span) + (k - 1) * span
    BY <1>1, <1>3
  <2>2. {i \in 1 .. n : Period(trades'[i], span) = list[k].period}
          = {i \in 1 .. n : Period(trades[i], span) = list[k].period}
    BY <1>3
  <2> QED BY <1>1, <2>1, <2>2
<1> QED BY <1>3, <1>4

\* A list without gaps stays so when nothing is traded.
LEMMA GaplessSame ==
    ASSUME trades' = trades, NEW list, NEW span, Gapless(list, span)
    PROVE  Gapless(list, span)'
BY DEF Gapless

\* So do all lists.
LEMMA GaplessListed ==
    ASSUME trades' = trades,
           \A d \in DOMAIN Durations : Gapless(bittrexLists'[d], Durations[d])
    PROVE  \A d \in DOMAIN Durations : Gapless(bittrexLists[d], Durations[d])'
<1> TAKE d \in DOMAIN Durations
<1>1. PICK l, e : l = bittrexLists'[d] /\ e = Durations[d]
  OBVIOUS
<1>2. Gapless(l, e)'
  BY <1>1, GaplessSame
<1> QED BY <1>1, <1>2

\* A step that leaves Bittrex alone.
LEMMA BittrexKept ==
    ASSUME HistoryInv, BittrexInv, HistoryStep, UNCHANGED bittrexVars
    PROVE  BittrexInv'
<1>0. UNCHANGED <<bittrex, bittrexLists>>
  BY DEF bittrexVars
<1>1. CASE trades' = trades
  <2>1. TickUpdate' = TickUpdate /\ Ticks' = Ticks
    BY <1>1 DEF TickUpdate, Ticks
  <2>2. \A d \in DOMAIN Durations : Gapless(bittrexLists[d], Durations[d])'
    <3>1. \A d \in DOMAIN Durations : Gapless(bittrexLists'[d], Durations[d])
      BY <1>0 DEF BittrexInv
    <3> QED BY <1>1, <3>1, GaplessListed
  <2>3. bittrex.step = "save" => Gapless(bittrex.candles, Durations[bittrex.done])'
    <3> SUFFICES ASSUME bittrex.step = "save"
                 PROVE  Gapless(bittrex.candles, Durations[bittrex.done])'
      OBVIOUS
    <3>1. PICK l, e : l = bittrex.candles /\ e = Durations[bittrex.done]
      OBVIOUS
    <3>2. Gapless(l, e)'
      BY <1>1, <3>1, GaplessSame DEF BittrexInv
    <3> QED BY <1>0, <3>1, <3>2
  <2> QED BY <1>0, <1>1, <2>1, <2>2, <2>3 DEF BittrexInv
<1>2. CASE trades' = Append(trades, now)
  <2>1. Seq(1 .. Len(trades)) \subseteq Seq(1 .. Len(trades')) /\ Seq(Ticks) \subseteq Seq(Ticks')
    BY <1>2, StoredStays
  <2>2. TickUpdate \subseteq TickUpdate'
    BY <2>1 DEF TickUpdate
  <2>3. \A d \in DOMAIN Durations : Gapless(bittrexLists[d], Durations[d])'
    <3> TAKE d \in DOMAIN Durations
    <3> DEFINE l == bittrexLists[d]
               e == Durations[d]
    <3>1. Gapless(l, e)
      BY DEF BittrexInv
    <3> HIDE DEF l, e
    <3>2. PICK x, y : x = l /\ y = e
      OBVIOUS
    <3>3. Gapless(x, y)'
      BY <1>2, <3>1, <3>2, GaplessStays
    <3> QED BY <1>0, <3>2, <3>3 DEF l, e
  <2>4. bittrex.step = "save" => Gapless(bittrex.candles, Durations[bittrex.done])'
    <3> SUFFICES ASSUME bittrex.step = "save"
                 PROVE  Gapless(bittrex.candles, Durations[bittrex.done])'
      OBVIOUS
    <3> DEFINE l == bittrex.candles
               e == Durations[bittrex.done]
    <3>1. Gapless(l, e)
      BY DEF BittrexInv
    <3> HIDE DEF l, e
    <3>2. PICK x, y : x = l /\ y = e
      OBVIOUS
    <3>3. Gapless(x, y)'
      BY <1>2, <3>1, <3>2, GaplessStays
    <3> QED BY <1>0, <3>2, <3>3 DEF l, e
  <2>5. \E n \in 0 .. Len(trades') : bittrex.ids = Reverse(Upto(n))
    <3>1. PICK n \in 0 .. Len(trades) : bittrex.ids = Reverse(Upto(n))
      BY DEF BittrexInv
    <3>2. n \in 0 .. Len(trades')
      BY <1>2, TradeAdds, HistoryIs
    <3> QED BY <3>1, <3>2
  <2> QED BY <1>0, <2>1, <2>2, <2>3, <2>4, <2>5 DEF BittrexInv
<1> QED BY <1>1, <1>2 DEF HistoryStep

\* A step of Bittrex' update.
LEMMA BittrexUpdate ==
    ASSUME HistoryInv, BittrexInv, BittrexStep
    PROVE  BittrexInv'
<1> DEFINE u == bittrex
           v == bittrex'
           I(w) == \E n \in 0 .. Len(trades) : w.ids = Reverse(Upto(n))
<1>0. /\ UNCHANGED trades /\ u \in TickUpdate /\ I(u) /\ DOMAIN bittrexLists = DOMAIN Durations
      /\ (u.step \in {"drop", "save"} => u.done \in DOMAIN Durations)
      /\ \A d \in DOMAIN Durations :
           bittrexLists[d] \in Seq(Ticks) /\ Gapless(bittrexLists[d], Durations[d])
      /\ (u.step = "save" =>
           bittrexLists[u.done] = <<>> /\ Gapless(u.candles, Durations[u.done]))
      /\ u.candles \in Seq(Ticks)
  BY DEF BittrexStep, BittrexInv, TickUpdate
<1>1. NoUpdate \in TickUpdate /\ NoUpdate.step = "idle" /\ I(NoUpdate)
  <2>1. NoUpdate \in TickUpdate /\ NoUpdate.step = "idle" /\ NoUpdate.ids = <<>>
    BY NoUpdateIs
  <2> QED BY <2>1, NothingYet
\* a step that leaves the lists as they are, and does not go to save
<1>2. ASSUME NEW w \in TickUpdate, I(w), bittrex' = w, UNCHANGED bittrexLists,
             w.step # "save", w.step = "drop" => w.done \in DOMAIN Durations
      PROVE  BittrexInv'
  <2>1. TickUpdate' = TickUpdate /\ Ticks' = Ticks
    BY <1>0 DEF TickUpdate, Ticks
  <2>2. \A d \in DOMAIN Durations : Gapless(bittrexLists[d], Durations[d])'
    <3>1. trades' = trades /\ \A f \in DOMAIN Durations : Gapless(bittrexLists'[f], Durations[f])
      BY <1>0, <1>2
    <3> QED BY <3>1, GaplessListed
  <2>3. \E n \in 0 .. Len(trades') : bittrex'.ids = Reverse(Upto(n))
    BY <1>0, <1>2
  <2> HIDE DEF v, u, I
  <2>4. /\ DOMAIN bittrexLists' = DOMAIN Durations
        /\ \A d \in DOMAIN Durations : bittrexLists'[d] \in Seq(Ticks)
    BY <1>0, <1>2
  <2>5. /\ bittrex' \in TickUpdate /\ bittrex'.step # "save"
        /\ (bittrex'.step = "drop" => bittrex'.done \in DOMAIN Durations)
    BY <1>2
  <2> QED BY <2>1, <2>2, <2>3, <2>4, <2>5 DEF BittrexInv
<1> HIDE DEF v
<1>3. CASE BittrexBegin
  <2> DEFINE w == [NoUpdate EXCEPT !.step = "poloniex"]
  <2>1. w \in TickUpdate /\ w.step = "poloniex" /\ w.ids = NoUpdate.ids
    BY <1>1, UpdateAt
  <2>2. bittrex' = w /\ UNCHANGED bittrexLists
    BY <1>3 DEF BittrexBegin
  <2> HIDE DEF w
  <2> QED BY <1>1, <1>2, <2>1, <2>2
<1>4. CASE PoloniexUpdated
  <2> DEFINE w == [u EXCEPT !.step = "fetch"]
  <2>2. bittrex' = w /\ UNCHANGED bittrexLists
    BY <1>4 DEF PoloniexUpdated
  <2> HIDE DEF u
  <2>1. w \in TickUpdate /\ w.step = "fetch" /\ w.ids = u.ids
    BY <1>0, UpdateAt
  <2> HIDE DEF w
  <2> QED BY <1>0, <1>2, <2>1, <2>2
<1>5. ASSUME bittrex' = [bittrex EXCEPT !.step = "drop", !.done = 1], UNCHANGED bittrexLists
      PROVE  BittrexInv'
  <2> DEFINE w == [u EXCEPT !.step = "drop", !.done = 1]
  <2>2. bittrex' = w
    BY <1>5
  <2> HIDE DEF u
  <2>1. w \in TickUpdate /\ w.step = "drop" /\ w.ids = u.ids /\ w.done = 1
    BY <1>0, UpdateFirst
  <2> HIDE DEF w
  <2> QED BY <1>0, <1>2, <1>5, <2>1, <2>2, DurationsAre
<1>6. CASE BittrexFetch
  <2> DEFINE r == Reverse(Upto(Len(trades)))
             w == [u EXCEPT !.ids = r, !.step = "again"]
  <2>1. CASE bittrex' = [bittrex EXCEPT !.ids = Reverse([i \in DOMAIN trades |-> i]),
                                        !.step = "again"]
    <3>1. Reverse([i \in DOMAIN trades |-> i]) = r
      BY HistoryIs DEF Upto
    <3>2. bittrex' = w /\ UNCHANGED bittrexLists
      BY <1>6, <2>1, <3>1 DEF BittrexFetch
    <3>3. r \in Seq(1 .. Len(trades)) /\ Len(trades) \in 0 .. Len(trades)
      BY HistoryIs, DownIs
    <3>4. I([ids |-> r])
      BY <3>3
    <3> HIDE DEF r, u
    <3>5. w \in TickUpdate /\ w.step = "again" /\ w.ids = r
      BY <1>0, <3>3, UpdateFetched
    <3> HIDE DEF w
    <3>6. I(w)
      BY <3>4, <3>5
    <3> HIDE DEF I
    <3> QED BY <1>2, <3>2, <3>5, <3>6
  <2>2. CASE bittrex' = [bittrex EXCEPT !.step = "drop", !.done = 1]
    BY <1>5, <1>6, <2>2 DEF BittrexFetch
  <2> QED BY <1>6, <2>1, <2>2 DEF BittrexFetch
<1>7. CASE BittrexAgain
  BY <1>5, <1>7 DEF BittrexAgain
<1>8. CASE BittrexInvalid
  <2>1. bittrex' = u /\ UNCHANGED bittrexLists /\ u.step # "save" /\ u.step # "drop"
    BY <1>8 DEF BittrexInvalid
  <2> HIDE DEF u
  <2> QED BY <1>0, <1>2, <2>1
<1>9. CASE BittrexDrop
  <2> DEFINE d == u.done
             e == Durations[d]
             cs == CandlesOf(u.ids, e)
             fs == FillGaps(cs, e)
             w == [u EXCEPT !.step = "save", !.candles = fs]
  <2>1. /\ u.step = "drop"
        /\ \/ bittrex' = NoUpdate /\ UNCHANGED bittrexLists
           \/ /\ bittrexLists' = [bittrexLists EXCEPT ![d] = <<>>] /\ bittrex' = w
    BY <1>9, Zenon DEF BittrexDrop
  <2>2. d \in DOMAIN Durations /\ e \in Nat \ {0}
    BY <1>0, <2>1, DurationsAre
  <2>3. PICK m \in 0 .. Len(trades) : u.ids = Reverse(Upto(m))
    BY <1>0
  <2>4. fs \in Seq(Ticks) /\ Gapless(fs, e)
    <3> HIDE DEF e
    <3>1. cs = CandlesOf(Reverse(Upto(m)), e)
      BY <2>3
    <3> HIDE DEF cs
    <3> QED BY <2>2, <3>1, FilledIs
  <2> HIDE DEF fs, u, I
  <2>5. /\ w \in TickUpdate /\ w.step = "save" /\ w.ids = u.ids /\ w.done = d
        /\ w.candles = fs
    BY <1>0, <2>4, UpdateSaves
  <2> HIDE DEF w
  <2>6. CASE bittrex' = NoUpdate /\ UNCHANGED bittrexLists
    BY <1>1, <1>2, <2>6
  <2>7. CASE bittrexLists' = [bittrexLists EXCEPT ![d] = <<>>] /\ bittrex' = w
    <3>1. TickUpdate' = TickUpdate /\ Ticks' = Ticks
      BY <1>0 DEF TickUpdate, Ticks
    <3>2. \A f \in DOMAIN Durations : bittrexLists'[f] = IF f = d THEN <<>> ELSE bittrexLists[f]
      <4> HIDE DEF d
      <4> QED BY <1>0, <2>7
    <3>3. \A f \in DOMAIN Durations :
            bittrexLists'[f] \in Seq(Ticks) /\ Gapless(bittrexLists'[f], Durations[f])
      <4>1. Gapless(<<>>, e)
        BY DEF Gapless
      <4> QED BY <1>0, <3>2, <4>1, EmptySeq
    <3>4. \A f \in DOMAIN Durations : Gapless(bittrexLists[f], Durations[f])'
      BY <1>0, <3>3, GaplessListed
    <3>5. Gapless(bittrex.candles, Durations[bittrex.done])'
      <4>1. Gapless(bittrex'.candles, Durations[bittrex'.done])
        BY <2>4, <2>5, <2>7
      <4> QED BY <1>0, <4>1 DEF Gapless
    <3>6. bittrexLists'[bittrex'.done] = <<>> /\ bittrex'.done \in DOMAIN Durations
      BY <2>2, <2>5, <2>7, <3>2
    <3>7. \E n \in 0 .. Len(trades') : bittrex'.ids = Reverse(Upto(n))
      BY <1>0, <2>3, <2>5, <2>7
    <3>8. DOMAIN bittrexLists' = DOMAIN Durations
      BY <1>0, <2>7
    <3>9. bittrex' \in TickUpdate
      BY <2>5, <2>7
    <3> QED BY <3>1, <3>3, <3>4, <3>5, <3>6, <3>7, <3>8, <3>9 DEF BittrexInv
  <2> QED BY <2>1, <2>6, <2>7
<1>10. CASE BittrexSave
  <2> DEFINE d == u.done
             w == IF d = Len(Durations) THEN NoUpdate
                  ELSE [u EXCEPT !.step = "drop", !.done = @ + 1, !.candles = <<>>]
  <2>1. /\ u.step = "save" /\ bittrex' = w
        /\ bittrexLists' = [bittrexLists EXCEPT ![d] = @ \o u.candles]
    <3>1. u.step = "save" /\ bittrexLists' = [bittrexLists EXCEPT ![d] = @ \o u.candles]
      BY <1>10 DEF BittrexSave
    <3>2. bittrex' = w
      BY <1>10, Zenon DEF BittrexSave
    <3> QED BY <3>1, <3>2
  <2>2. d \in DOMAIN Durations /\ bittrexLists[d] = <<>> /\ Gapless(u.candles, Durations[d])
    BY <1>0, <2>1
  <2> HIDE DEF u, I
  <2>3. w \in TickUpdate /\ I(w) /\ w.step # "save" /\ (w.step = "drop" => w.done \in DOMAIN Durations)
    <3>1. CASE d = Len(Durations)
      BY <1>1, <3>1
    <3>2. CASE d # Len(Durations)
      <4> DEFINE x == [u EXCEPT !.step = "drop", !.done = @ + 1, !.candles = <<>>]
      <4>1. x \in TickUpdate /\ x.step = "drop" /\ x.ids = u.ids /\ x.done = u.done + 1
        BY <1>0, UpdateNext
      <4> HIDE DEF x
      <4>2. w = x
        BY <3>2 DEF x
      <4>3. d + 1 \in DOMAIN Durations
        BY <2>2, <3>2, DurationsAre
      <4>4. I(x)
        BY <1>0, <4>1 DEF I
      <4> HIDE DEF w
      <4> QED BY <4>1, <4>2, <4>3, <4>4
    <3> QED BY <3>1, <3>2
  <2> HIDE DEF w
  <2>4. TickUpdate' = TickUpdate /\ Ticks' = Ticks
    BY <1>0 DEF TickUpdate, Ticks
  <2>5. <<>> \o u.candles = u.candles
    BY <1>0, ConcatEmptySeq
  <2>6. \A f \in DOMAIN Durations : bittrexLists'[f] = IF f = d THEN u.candles ELSE bittrexLists[f]
    <3> HIDE DEF d
    <3> QED BY <1>0, <2>1, <2>2, <2>5
  <2>7. \A f \in DOMAIN Durations :
          bittrexLists'[f] \in Seq(Ticks) /\ Gapless(bittrexLists'[f], Durations[f])
    BY <1>0, <2>2, <2>6
  <2>8. \A f \in DOMAIN Durations : Gapless(bittrexLists[f], Durations[f])'
    <3>1. trades' = trades /\ \A f \in DOMAIN Durations : Gapless(bittrexLists'[f], Durations[f])
      BY <1>0, <2>7
    <3> QED BY <3>1, GaplessListed
  <2>9. DOMAIN bittrexLists' = DOMAIN Durations
    BY <1>0, <2>1
  <2>10. \E n \in 0 .. Len(trades') : bittrex'.ids = Reverse(Upto(n))
    BY <1>0, <2>1, <2>3 DEF I
  <2>11. bittrex' \in TickUpdate /\ bittrex'.step # "save"
         /\ (bittrex'.step = "drop" => bittrex'.done \in DOMAIN Durations)
    BY <2>1, <2>3
  <2> QED BY <2>4, <2>7, <2>8, <2>9, <2>10, <2>11 DEF BittrexInv
<1>11. CASE BittrexGivesUp
  <2>1. bittrex' = NoUpdate /\ UNCHANGED bittrexLists
    BY <1>11 DEF BittrexGivesUp
  <2> HIDE DEF I
  <2> QED BY <1>1, <1>2, <2>1
<1> QED BY <1>3, <1>4, <1>6, <1>7, <1>8, <1>9, <1>10, <1>11 DEF BittrexStep
-----------------------------------------------------------------------------
(* The sums of the order books. *)

\* What Total computes step by step, for every set of indices of f.
TotalStep(f, h, s) == IF s = {} THEN 0
                      ELSE LET x == Max(s) IN h[s \ {x}] + f[x]

\* Total is what the last value of the step function is.
LEMMA TotalDef ==
    ASSUME NEW v, NEW n
    PROVE  Total(v, n) =
             (CHOOSE h : h = [s \in SUBSET DOMAIN SubSeq(v, 1, n) |->
                                TotalStep(SubSeq(v, 1, n), h, s)])[DOMAIN SubSeq(v, 1, n)]
BY DEF Total, FoldLeft, MapThenFoldSet, TotalStep

\* A set of the first naturals has a greatest member.
LEMMA GreatestOf ==
    ASSUME NEW n \in Nat, NEW s \in SUBSET (1 .. n), s # {}
    PROVE  Max(s) \in s /\ \A y \in s : y <= Max(s)
<1> DEFINE T == {n - x : x \in s}
<1>0. \A x \in s : x \in Nat /\ n - x \in Nat
  OBVIOUS
<1>1. T \subseteq Nat /\ T # {}
  BY <1>0
<1> HIDE DEF T
<1>2. PICK t \in T : \A u \in T : t <= u
  BY <1>1, SmallestOf
<1>3. PICK x \in s : t = n - x
  BY <1>2 DEF T
<1>4. ASSUME NEW y \in s PROVE x >= y
  <2>1. n - x <= n - y
    BY <1>2, <1>3 DEF T
  <2> QED BY <1>0, <2>1
<1>5. \E z \in s : \A y \in s : z >= y
  BY <1>4
<1>6. Max(s) \in s /\ \A y \in s : Max(s) >= y
  BY <1>5 DEF Max
<1> QED BY <1>6

\* The sum of a sequence's first members is that of the set of their indices.
LEMMA TotalIs ==
    ASSUME NEW v \in Seq(Nat), NEW n \in 0 .. Len(v)
    PROVE  Total(v, n) = SumOf(v, 1 .. n)
<1> DEFINE w == SubSeq(v, 1, n)
<1>1. DOMAIN w = 1 .. n /\ \A i \in 1 .. n : w[i] = v[i] /\ v[i] \in Int
  OBVIOUS
<1>2. Total(v, n) = (CHOOSE h : h = [s \in SUBSET (1 .. n) |-> TotalStep(w, h, s)])[1 .. n]
  BY <1>1, TotalDef, Zenon
<1> HIDE DEF w
<1>3. IsFiniteSet(1 .. n)
  BY FS_Interval
<1>4. PICK g : IsSum(g, v, 1 .. n)
  BY <1>1, <1>3, PartialSums
<1>5. ASSUME NEW s \in SUBSET (1 .. n) PROVE g[s] = TotalStep(w, g, s)
  <2>1. CASE s = {}
    BY <1>4, <2>1 DEF IsSum, TotalStep
  <2>2. CASE s # {}
    <3> DEFINE x == Max(s)
    <3>1. x \in s
      <4>1. s \in SUBSET (1 .. n) /\ n \in Nat
        OBVIOUS
      <4> QED BY <2>2, <4>1, GreatestOf
    <3>2. TotalStep(w, g, s) = g[s \ {x}] + w[x]
      BY <2>2 DEF TotalStep
    <3> HIDE DEF x
    <3>3. g[s] = v[x] + g[s \ {x}] /\ g[s \ {x}] \in Int /\ v[x] \in Int /\ w[x] = v[x]
      <4>1. s \ {x} \in SUBSET (1 .. n)
        OBVIOUS
      <4> QED BY <1>1, <1>4, <3>1, <4>1 DEF IsSum
    <3> QED BY <3>2, <3>3
  <2> QED BY <2>1, <2>2
<1> DEFINE h == CHOOSE h : h = [s \in SUBSET (1 .. n) |-> TotalStep(w, h, s)]
<1>6. h = [s \in SUBSET (1 .. n) |-> TotalStep(w, h, s)]
  <2>1. g = [s \in SUBSET (1 .. n) |-> TotalStep(w, g, s)]
    BY <1>4, <1>5 DEF IsSum
  <2> QED BY <2>1, Zenon
<1>7. Total(v, n) = h[1 .. n]
  BY <1>2
<1> HIDE DEF h
<1> DEFINE G == {s \in SUBSET (1 .. n) : h[s] = g[s]}
<1>8. ASSUME NEW s \in SUBSET (1 .. n), \A x \in s : s \ {x} \in G PROVE s \in G
  <2>1. h[s] = TotalStep(w, h, s)
    BY <1>6, Zenon
  <2>2. TotalStep(w, h, s) = TotalStep(w, g, s)
    <3>1. CASE s = {}
      BY <3>1 DEF TotalStep
    <3>2. CASE s # {}
      <4>1. Max(s) \in s
        <5>1. s \in SUBSET (1 .. n) /\ n \in Nat
          OBVIOUS
        <5> QED BY <3>2, <5>1, GreatestOf
      <4>2. h[s \ {Max(s)}] = g[s \ {Max(s)}]
        BY <1>8, <4>1
      <4> QED BY <3>2, <4>2, Zenon DEF TotalStep
    <3> QED BY <3>1, <3>2
  <2> QED BY <1>5, <2>1, <2>2
<1> HIDE DEF G
<1>9. SUBSET (1 .. n) \subseteq G
  <2> DEFINE U == 1 .. n
  <2>1. \A s \in SUBSET U : (\A x \in s : s \ {x} \in G) => s \in G
    BY <1>8
  <2>2. IsFiniteSet(U)
    BY <1>3
  <2> HIDE DEF U
  <2>3. SUBSET U \subseteq G
    BY <2>1, <2>2, SetInduction
  <2> QED BY <2>3 DEF U
<1>10. h[1 .. n] = g[1 .. n]
  BY <1>9 DEF G
<1>11. g[1 .. n] = SumOf(v, 1 .. n)
  BY <1>4 DEF IsSum
<1> QED BY <1>7, <1>10, <1>11

\* One member more adds its value.
LEMMA SumGrows ==
    ASSUME NEW v \in Seq(Nat), NEW n \in 0 .. Len(v)
    PROVE  /\ SumOf(v, 1 .. n) \in Int /\ SumOf(v, 1 .. 0) = 0
           /\ n < Len(v) => SumOf(v, 1 .. n + 1) = SumOf(v, 1 .. n) + v[n + 1]
<1> DEFINE S == 1 .. Len(v)
<1>0. Len(v) \in Nat /\ \A i \in S : v[i] \in Int
  OBVIOUS
<1>1. IsFiniteSet(S)
  BY <1>0, FS_Interval
<1>2. PICK g : IsSum(g, v, S)
  BY <1>0, <1>1, PartialSums
<1>3. 1 .. n \in SUBSET S /\ 1 .. 0 = {} /\ {} \in SUBSET S
  BY <1>0
<1>4. g[1 .. n] = SumOf(v, 1 .. n) /\ g[1 .. n] \in Int /\ g[{}] = SumOf(v, {}) /\ g[{}] = 0
  BY <1>2, <1>3 DEF IsSum
<1>5. ASSUME n < Len(v) PROVE SumOf(v, 1 .. n + 1) = SumOf(v, 1 .. n) + v[n + 1]
  <2>1. 1 .. n + 1 \in SUBSET S /\ n + 1 \in 1 .. n + 1 /\ (1 .. n + 1) \ {n + 1} = 1 .. n
    BY <1>0, <1>5
  <2>2. g[1 .. n + 1] = v[n + 1] + g[1 .. n] /\ g[1 .. n + 1] = SumOf(v, 1 .. n + 1)
    <3> DEFINE m == n + 1
               B == 1 .. m
    <3>1. B \in SUBSET S /\ m \in B /\ B \ {m} = 1 .. n
      BY <2>1
    <3> HIDE DEF S, B, m
    <3>2. g[B] = v[m] + g[B \ {m}] /\ g[B] = SumOf(v, B)
      BY <1>2, <3>1 DEF IsSum
    <3> QED BY <3>1, <3>2 DEF B, m
  <2>3. v[n + 1] \in Int
    BY <1>0, <2>1
  <2> QED BY <1>4, <2>2, <2>3
<1> QED BY <1>3, <1>4, <1>5

\* What is left of the bids from the worst on is the sum of the better ones.
LEMMA TotalLeft ==
    ASSUME NEW v \in Seq(Nat), NEW i \in 0 .. Len(v)
    PROVE  Total(Reverse(v), Len(Reverse(v))) - Total(Reverse(v), i) = SumOf(v, 1 .. Len(v) - i)
<1> DEFINE w == Reverse(v)
           n == Len(v)
<1>1. n \in Nat /\ w \in Seq(Nat) /\ Len(w) = n /\ \A k \in 1 .. n : w[k] = v[(n - k) + 1]
  BY DEF Reverse
<1> HIDE DEF w
<1> DEFINE T(k) == SumOf(w, 1 .. k)
           U(k) == SumOf(v, 1 .. k)
<1>2. \A k \in 0 .. n : T(k) \in Int /\ U(k) \in Int /\ T(k) = Total(w, k) /\ U(0) = 0
  BY <1>1, SumGrows, TotalIs
<1>3. \A k \in 0 .. n : k < n => T(k + 1) = T(k) + w[k + 1] /\ U(k + 1) = U(k) + v[k + 1]
  BY <1>1, SumGrows
<1>v. \A k \in 1 .. n : v[k] \in Int
  OBVIOUS
<1> HIDE DEF T, U, n
<1> DEFINE G == {m \in Nat : m <= n => T(n) - T(n - m) = U(m)}
<1>4. 0 \in G
  BY <1>1, <1>2
<1>5. ASSUME NEW m \in Nat, m \in G PROVE m + 1 \in G
  <2> SUFFICES ASSUME m + 1 <= n PROVE T(n) - T(n - (m + 1)) = U(m + 1)
    OBVIOUS
  <2> DEFINE k == n - (m + 1)
  <2>1. k \in 0 .. n /\ k < n /\ k + 1 = n - m /\ m \in 0 .. n /\ m < n /\ m + 1 \in 1 .. n
        /\ k + 1 \in 1 .. n /\ (n - (k + 1)) + 1 = m + 1
    BY <1>1
  <2>2. T(n) - T(k + 1) = U(m)
    BY <1>5, <2>1
  <2> HIDE DEF k
  <2>3. T(k + 1) = T(k) + w[k + 1] /\ U(m + 1) = U(m) + v[m + 1]
    BY <1>3, <2>1
  <2>4. w[k + 1] = v[m + 1] /\ v[m + 1] \in Int
    BY <1>1, <1>v, <2>1
  <2>5. T(n) \in Int /\ T(k) \in Int /\ U(m) \in Int
    BY <1>1, <1>2, <2>1
  <2>6. T(n) - T(k) = U(m + 1)
    BY <2>2, <2>3, <2>4, <2>5
  <2> QED BY <2>6 DEF k
<1> HIDE DEF G
<1>6. Nat \subseteq G
  BY <1>4, <1>5, Induction
<1>7. n - i \in Nat /\ n - i <= n /\ n - (n - i) = i
  BY <1>1 DEF n
<1>8. T(n) - T(i) = U(n - i)
  BY <1>6, <1>7 DEF G
<1>9. n \in 0 .. n /\ i \in 0 .. n
  BY <1>1 DEF n
<1>10. Total(w, n) - Total(w, i) = U(n - i)
  BY <1>2, <1>8, <1>9
<1> QED BY <1>1, <1>10 DEF w, n, U

-----------------------------------------------------------------------------
(* The depth of the order books. *)

\* The book with its depth that addDepth returns is true.
LEMMA DepthAdds ==
    ASSUME NEW bids \in Seq(Nat), NEW asks \in Seq(Nat)
    PROVE  DepthOf(AddDepth(bids, asks))
<1> DEFINE n == Len(bids)
           m == Len(asks)
           w == Reverse(bids)
           A == [i \in 1 .. n |-> <<"bid", Total(w, Len(w)) - Total(w, i)>>]
           B == [i \in 1 .. m |-> <<"ask", Total(asks, i)>>]
           b == AddDepth(bids, asks)
<1>1. n \in Nat /\ m \in Nat
  OBVIOUS
<1>2. b = [bids |-> bids, asks |-> asks, depth |-> A \o B]
  BY DEF AddDepth
<1>3. \A i \in 1 .. n : A[i] = <<"bid", SumOf(bids, 1 .. n - i)>>
  <2> TAKE i \in 1 .. n
  <2>1. i \in 0 .. Len(bids)
    OBVIOUS
  <2>2. Total(w, Len(w)) - Total(w, i) = SumOf(bids, 1 .. n - i)
    BY <2>1, TotalLeft
  <2> QED BY <2>2
<1>4. \A i \in 1 .. m : B[i] = <<"ask", SumOf(asks, 1 .. i)>>
  <2> TAKE i \in 1 .. m
  <2>1. i \in 0 .. Len(asks)
    OBVIOUS
  <2>2. Total(asks, i) = SumOf(asks, 1 .. i)
    BY <2>1, TotalIs
  <2> QED BY <2>2
<1>5. DOMAIN A = 1 .. n /\ DOMAIN B = 1 .. m
  OBVIOUS
<1>6. A \in Seq({A[i] : i \in 1 .. n}) /\ B \in Seq({B[i] : i \in 1 .. m}) /\ Len(A) = n /\ Len(B) = m
  <2> HIDE DEF n, m
  <2>1. A \in [1 .. n -> {A[i] : i \in 1 .. n}] /\ B \in [1 .. m -> {B[i] : i \in 1 .. m}]
    OBVIOUS
  <2> HIDE DEF A, B
  <2> QED BY <1>1, <2>1, <1>5, Listed, LenProperties
<1> HIDE DEF A, B
<1>7. /\ Len(A \o B) = n + m
      /\ \A i \in 1 .. n : (A \o B)[i] = A[i]
      /\ \A i \in 1 .. m : (A \o B)[n + i] = B[i]
  <2> DEFINE T == {A[i] : i \in 1 .. n} \cup {B[i] : i \in 1 .. m}
  <2>1. A \in Seq(T) /\ B \in Seq(T)
    BY <1>6
  <2> HIDE DEF T, n, m
  <2>2. /\ Len(A \o B) = Len(A) + Len(B)
        /\ \A i \in 1 .. Len(A) + Len(B) :
             (A \o B)[i] = IF i <= Len(A) THEN A[i] ELSE B[i - Len(A)]
    BY <2>1, ConcatProperties
  <2>3. Len(A \o B) = n + m
    BY <1>6, <2>2
  <2>4. \A i \in 1 .. n : i \in 1 .. n + m /\ i <= n
    BY <1>1
  <2>5. \A i \in 1 .. m : n + i \in 1 .. n + m /\ ~ (n + i <= n) /\ (n + i) - n = i
    BY <1>1
  <2>6. \A i \in 1 .. n + m : (A \o B)[i] = IF i <= n THEN A[i] ELSE B[i - n]
    BY <1>6, <2>2
  <2>7. \A i \in 1 .. m : (A \o B)[n + i] = B[(n + i) - n]
    BY <2>5, <2>6
  <2>8. \A i \in 1 .. m : (A \o B)[n + i] = B[i]
    BY <2>5, <2>7
  <2> QED BY <2>3, <2>4, <2>6, <2>8
<1> HIDE DEF n, m, b
<1>8. b.bids = bids /\ b.asks = asks /\ b.depth = A \o B
  BY <1>2
<1>9. /\ Len(b.bids) = n /\ Len(b.asks) = m /\ Len(b.depth) = n + m
      /\ \A i \in 1 .. n : b.depth[i] = <<"bid", SumOf(b.bids, 1 .. n - i)>>
      /\ \A i \in 1 .. m : b.depth[n + i] = <<"ask", SumOf(b.asks, 1 .. i)>>
  BY <1>3, <1>4, <1>7, <1>8 DEF n, m
<1>10. DepthOf(b)
  BY <1>9 DEF DepthOf, SumOf
<1> QED BY <1>10 DEF b

\* So is that of no book at all.
LEMMA NoDepth == DepthOf(NoBook)
<1> DEFINE b == NoBook
<1>1. b.bids = <<>> /\ b.asks = <<>> /\ b.depth = <<>>
  BY DEF NoBook
<1>2. Len(b.bids) = 0 /\ Len(b.asks) = 0 /\ Len(b.depth) = 0
  BY <1>1
<1> HIDE DEF b
<1>3. DepthOf(b)
  BY <1>2 DEF DepthOf
<1> QED BY <1>3 DEF b

\* The volumes of an exchange's book.
LEMMA OffersAre ==
    ASSUME OrdersInv, NEW e \in Exchange
    PROVE  /\ offers.book[e].bids \in Seq(Nat) /\ offers.book[e].asks \in Seq(Nat)
           /\ Len(offers.book[e].bids) \in Nat
<1>1. offers.book[e] \in Book \cup {EmptyBook}
  BY DEF OrdersInv
<1>2. \A b \in Book \cup {EmptyBook} : b.bids \in Seq(Nat) /\ b.asks \in Seq(Nat)
  <2>1. EmptyBook.bids \in Seq(Nat) /\ EmptyBook.asks \in Seq(Nat)
    BY EmptySeq DEF EmptyBook
  <2>2. \A b \in Book : b.bids \in Seq(Nat) /\ b.asks \in Seq(Nat)
    BY ExchangesAssumption
  <2> QED BY <2>1, <2>2
<1> QED BY <1>1, <1>2

\* What orders are on their way or saved before and after a step.
OrderUpdate(o) ==
    /\ o.step \in {"idle", "ask", "save"} /\ o.of \in Exchange
    /\ o = [step |-> o.step, of |-> o.of, book |-> o.book]
    /\ o.step = "save" => DepthOf(o.book)

\* No books are stored at first.
LEMMA OrdersStart ==
    ASSUME ExchangesInit
    PROVE  OrdersInv
<1>1. orders = NoOrders /\ books = [e \in Exchange |-> NoBook]
      /\ offers = [book |-> [e \in Exchange |-> EmptyBook], changes |-> 0]
  BY DEF ExchangesInit
<1>2. /\ orders.step \in {"idle", "ask", "save"} /\ orders.of \in Exchange /\ orders.step # "save"
      /\ orders = [step |-> orders.step, of |-> orders.of, book |-> orders.book]
  BY <1>1 DEF NoOrders, Exchange
<1>3. /\ offers = [book |-> offers.book, changes |-> offers.changes]
      /\ offers.book \in [Exchange -> Book \cup {EmptyBook}] /\ offers.changes \in 0 .. MaxBooks
  BY <1>1, ExchangesAssumption
<1>4. DOMAIN books = Exchange /\ \A e \in Exchange : books[e] = NoBook
  BY <1>1
<1> QED BY <1>2, <1>3, <1>4, NoDepth DEF OrdersInv

\* Other steps leave the books as they are.
LEMMA OrdersKept ==
    ASSUME OrdersInv, UNCHANGED orderVars
    PROVE  OrdersInv'
<1>1. orders' = orders /\ offers' = offers /\ books' = books
  BY DEF orderVars
<1>2. (\A e \in Exchange : DepthOf(books[e]))' <=> \A e \in Exchange : DepthOf(books[e])
  BY <1>1
<1>3. DepthOf(orders.book)' <=> DepthOf(orders.book)
  BY <1>1
<1> QED BY <1>1, <1>2, <1>3 DEF OrdersInv

\* The updates of the order books keep what is saved true.
LEMMA OrdersUpdate ==
    ASSUME OrdersInv, OrderStep
    PROVE  OrdersInv'
<1>0. OrderUpdate(NoOrders)
  BY DEF OrderUpdate, NoOrders, Exchange
<1>1. SUFFICES
        /\ OrderUpdate(orders')
        /\ offers' = [book |-> (offers').book, changes |-> (offers').changes]
        /\ (offers').book \in [Exchange -> Book \cup {EmptyBook}] /\ (offers').changes \in 0 .. MaxBooks
        /\ DOMAIN books' = Exchange /\ \A e \in Exchange : DepthOf((books')[e])
  BY DEF OrdersInv, OrderUpdate
<1>2. /\ orders.step \in {"idle", "ask", "save"} /\ orders.of \in Exchange
      /\ orders = [step |-> orders.step, of |-> orders.of, book |-> orders.book]
      /\ offers = [book |-> offers.book, changes |-> offers.changes]
      /\ offers.book \in [Exchange -> Book \cup {EmptyBook}] /\ offers.changes \in 0 .. MaxBooks
      /\ DOMAIN books = Exchange /\ \A e \in Exchange : DepthOf(books[e])
      /\ orders.step = "save" => DepthOf(orders.book)
      /\ OrderUpdate(orders)
  BY DEF OrdersInv, OrderUpdate
<1>3. CASE OrdersBegin /\ UNCHANGED offers
  <2>1. orders' = [NoOrders EXCEPT !.step = "ask"] /\ UNCHANGED <<books, offers>>
    BY <1>3 DEF OrdersBegin
  <2>2. OrderUpdate(orders')
    BY <2>1 DEF OrderUpdate, NoOrders, Exchange
  <2> QED BY <1>2, <2>1, <2>2
<1>4. CASE OrdersArrive /\ UNCHANGED offers
  <2>1. orders.step = "ask" /\ UNCHANGED <<books, offers>>
    BY <1>4 DEF OrdersArrive
  <2> DEFINE b == offers.book[orders.of]
             n == Len(b.bids)
             Put(k) == [orders EXCEPT !.step = "save", !.book = k]
  <2>2. \/ orders' = Put(AddDepth(b.bids, b.asks))
        \/ n <= Len(b.asks) /\ orders' = Put(AddDepth(b.bids, SubSeq(b.asks, 1, n)))
        \/ orders' = NoOrders
    BY <1>4 DEF OrdersArrive
  <2>3. b.bids \in Seq(Nat) /\ b.asks \in Seq(Nat) /\ n \in Nat
    BY <1>2, OffersAre
  <2>4. n <= Len(b.asks) => SubSeq(b.asks, 1, n) \in Seq(Nat)
    <3> HIDE DEF b, n
    <3> QED BY <2>3
  <2>5. ASSUME NEW k, DepthOf(k) PROVE OrderUpdate(Put(k))
    <3> DEFINE o == orders.of
               h == [orders EXCEPT !.step = "save"]
    <3>0. h = [step |-> "save", of |-> o, book |-> orders.book]
      BY <1>2
    <3>a. Put(k) = [h EXCEPT !.book = k]
      BY <1>2
    <3> HIDE DEF h
    <3>1. Put(k) = [step |-> "save", of |-> o, book |-> k]
      BY <3>0, <3>a
    <3> HIDE DEF Put
    <3> QED BY <1>2, <2>5, <3>1 DEF OrderUpdate
  <2> HIDE DEF b, n, Put
  <2>6. OrderUpdate(orders')
    <3>1. CASE orders' = Put(AddDepth(b.bids, b.asks))
      BY <2>3, <2>5, <3>1, DepthAdds
    <3>2. CASE n <= Len(b.asks) /\ orders' = Put(AddDepth(b.bids, SubSeq(b.asks, 1, n)))
      BY <2>3, <2>4, <2>5, <3>2, DepthAdds
    <3>3. CASE orders' = NoOrders
      BY <1>0, <3>3
    <3> QED BY <2>2, <3>1, <3>2, <3>3
  <2> QED BY <1>2, <2>1, <2>6
<1>5. CASE OrdersSave /\ UNCHANGED offers
  <2>1. /\ orders.step = "save" /\ UNCHANGED offers
        /\ books' = [books EXCEPT ![orders.of] = orders.book]
        /\ orders' \in {NoOrders, [NoOrders EXCEPT !.step = "ask", !.of = "bittrex"]}
    BY <1>5 DEF OrdersSave
  <2>2. OrderUpdate(orders')
    <3> DEFINE o == [NoOrders EXCEPT !.step = "ask", !.of = "bittrex"]
    <3>1. o = [step |-> "ask", of |-> "bittrex", book |-> NoBook]
      <4> DEFINE h == [NoOrders EXCEPT !.step = "ask"]
      <4>1. h = [step |-> "ask", of |-> "poloniex", book |-> NoBook]
        BY DEF NoOrders
      <4>2. o = [h EXCEPT !.of = "bittrex"]
        BY DEF NoOrders
      <4> HIDE DEF h, o
      <4> QED BY <4>1, <4>2
    <3>2. OrderUpdate(o)
      BY <3>1 DEF OrderUpdate, Exchange
    <3>3. orders' = NoOrders \/ orders' = o
      BY <2>1
    <3> HIDE DEF o
    <3> QED BY <1>0, <3>2, <3>3
  <2>3. DOMAIN books' = Exchange /\ \A e \in Exchange : DepthOf((books')[e])
    <3>1. \A e \in Exchange : (books')[e] = orders.book \/ (books')[e] = books[e]
      BY <1>2, <2>1
    <3> QED BY <1>2, <2>1, <3>1
  <2> QED BY <1>2, <2>1, <2>2, <2>3
<1>6. CASE OrdersGiveUp /\ UNCHANGED offers
  <2>1. orders' = NoOrders /\ UNCHANGED <<books, offers>>
    BY <1>6 DEF OrdersGiveUp
  <2> QED BY <1>0, <1>2, <2>1
<1>7. CASE OffersChange
  <2>1. PICK e \in Exchange, b \in Book :
          offers' = [book |-> [offers.book EXCEPT ![e] = b], changes |-> offers.changes + 1]
    BY <1>7 DEF OffersChange
  <2>2. offers.changes < MaxBooks /\ UNCHANGED <<orders, books>>
    BY <1>7 DEF OffersChange
  <2>3. /\ (offers').book = [offers.book EXCEPT ![e] = b]
        /\ (offers').changes = offers.changes + 1
        /\ offers' = [book |-> (offers').book, changes |-> (offers').changes]
    BY <2>1
  <2>4. (offers').book \in [Exchange -> Book \cup {EmptyBook}]
    BY <1>2, <2>3
  <2>5. (offers').changes \in 0 .. MaxBooks
    BY <1>2, <2>2, <2>3, ExchangesAssumption
  <2> QED BY <1>2, <2>2, <2>3, <2>4, <2>5
<1> QED BY <1>3, <1>4, <1>5, <1>6, <1>7 DEF OrderStep

\* The depth of the books that are saved is what the invariant says.
LEMMA DepthsAre ==
    ASSUME OrdersInv
    PROVE  DepthTrue
BY DEF OrdersInv, DepthOf, DepthTrue

-----------------------------------------------------------------------------
(* The rates. *)

\* The state of a load that is not under way.
LEMMA NoLoadIs ==
    ASSUME NEW n \in Nat
    PROVE  NoLoad \in Loading(n)
BY DEF NoLoad, Loading

\* No rates are loaded at first.
LEMMA RatesStart ==
    ASSUME ExchangesInit
    PROVE  RatesInv
<1>1. price = 1 /\ loads = [l \in Load |-> NoLoad] /\ tickers = <<>>
  BY DEF ExchangesInit
<1>2. price \in 1 .. MaxPrices /\ price \in Nat
  BY <1>1, ExchangesAssumption
<1>3. loads \in [Load -> Loading(price)]
  BY <1>1, <1>2, NoLoadIs
<1>4. DOMAIN tickers \subseteq Currency
  <2>1. DOMAIN <<>> = {}
    OBVIOUS
  <2> QED BY <1>1, <2>1
<1> QED BY <1>2, <1>3, <1>4 DEF RatesInv

\* Other steps leave the rates as they are.
LEMMA RatesKept ==
    ASSUME RatesInv, UNCHANGED rateVars
    PROVE  RatesInv'
BY DEF RatesInv, rateVars

\* A load with one answer less to wait for, which may have brought a price.
LEMMA LoadAsks ==
    ASSUME NEW n \in Nat, NEW j \in Loading(n), NEW p \in Pair, NEW x \in {Missing} \cup 1 .. n
    PROVE  /\ [j EXCEPT !.asked = @ \ {p}] \in Loading(n)
           /\ [j EXCEPT !.asked = @ \ {p}, !.prices[p] = x] \in Loading(n)
<1> DEFINE h == [j EXCEPT !.asked = @ \ {p}]
           f == [j.prices EXCEPT ![p] = x]
<1>1. h \in Loading(n) /\ h.prices = j.prices
  BY DEF Loading
<1>2. f \in [Pair -> {Missing} \cup 1 .. n]
  BY DEF Loading
<1>3. [j EXCEPT !.asked = @ \ {p}, !.prices[p] = x] = [h EXCEPT !.prices = f]
  BY DEF Loading
<1> HIDE DEF h, f
<1>4. [h EXCEPT !.prices = f] \in Loading(n)
  BY <1>1, <1>2 DEF Loading
<1> QED BY <1>1, <1>3, <1>4 DEF h

\* The loads keep to the pairs and the prices there are.
LEMMA RatesUpdate ==
    ASSUME RatesInv, RateStep
    PROVE  RatesInv'
<1>0. /\ price \in 1 .. MaxPrices /\ price \in Nat /\ loads \in [Load -> Loading(price)]
      /\ DOMAIN tickers \subseteq Currency /\ MaxPrices \in Nat
  BY ExchangesAssumption DEF RatesInv
<1>1. CASE PricesChange
  <2>1. price < MaxPrices /\ price' = price + 1 /\ loads' = loads /\ tickers' = tickers
    BY <1>1 DEF PricesChange
  <2>2. Loading(price) \subseteq Loading(price + 1)
    <3>1. 1 .. price \subseteq 1 .. price + 1
      BY <1>0
    <3> QED BY <3>1 DEF Loading
  <2>3. price + 1 \in 1 .. MaxPrices
    BY <1>0, <2>1
  <2>4. loads \in [Load -> Loading(price + 1)]
    BY <1>0, <2>2
  <2> QED BY <1>0, <2>1, <2>3, <2>4 DEF RatesInv, Loading
<1>2. ASSUME NEW l \in Load, LoadBegin(l) PROVE RatesInv'
  <2> DEFINE k == [NoLoad EXCEPT !.active = TRUE, !.asked = Pair]
  <2>1. price' = price /\ tickers' = tickers /\ loads' = [loads EXCEPT ![l] = k]
    BY <1>2 DEF LoadBegin
  <2>2. k \in Loading(price)
    BY <1>0, NoLoadIs DEF Loading
  <2> HIDE DEF k
  <2>3. loads' \in [Load -> Loading(price)]
    BY <1>0, <2>1, <2>2
  <2> QED BY <1>0, <2>1, <2>3 DEF RatesInv, Loading
<1>3. ASSUME NEW l \in Load, LoadEnds(l) PROVE RatesInv'
  <2>1. price' = price /\ loads' = [loads EXCEPT ![l] = NoLoad]
    BY <1>3 DEF LoadEnds
  <2>2. DOMAIN tickers' \subseteq Currency
    <3>1. tickers' = [c \in {x \in Currency : loads[l].prices[x] # Missing} |->
                        RateOf(loads[l].prices, c)]
      BY <1>3 DEF LoadEnds
    <3> QED BY <3>1
  <2>3. loads' \in [Load -> Loading(price)]
    BY <1>0, <2>1, NoLoadIs
  <2> QED BY <1>0, <2>1, <2>2, <2>3 DEF RatesInv, Loading
<1>4. ASSUME NEW l \in Load, NEW p \in Pair, PriceArrives(l, p) PROVE RatesInv'
  <2> DEFINE j == loads[l]
             a == [j EXCEPT !.asked = @ \ {p}, !.prices[p] = price]
             b == [j EXCEPT !.asked = @ \ {p}]
  <2>1. /\ price' = price /\ tickers' = tickers
        /\ loads' = [loads EXCEPT ![l] = a] \/ loads' = [loads EXCEPT ![l] = b]
    BY <1>0, <1>4 DEF PriceArrives
  <2>2. a \in Loading(price) /\ b \in Loading(price)
    <3>1. j \in Loading(price) /\ price \in {Missing} \cup 1 .. price
      BY <1>0
    <3> HIDE DEF j
    <3> QED BY <1>0, <3>1, LoadAsks
  <2> HIDE DEF a, b
  <2>3. loads' \in [Load -> Loading(price)]
    BY <1>0, <2>1, <2>2
  <2> QED BY <1>0, <2>1, <2>3 DEF RatesInv, Loading
<1> QED BY <1>1, <1>2, <1>3, <1>4 DEF RateStep

-----------------------------------------------------------------------------
(* The market page. *)

\* What a page may hold of an answer.
LEMMA AnswersAre ==
    ASSUME NEW e \in Exchange, NEW d \in Span, WatchInv
    PROVE  /\ GetCandles(e, d) \in Exchange \X Span \X Nat
           /\ GetOrders(e) \in Exchange \X Nat /\ GetOrders(e)[1] = e
           /\ GetStatistics(e) # NoData =>
                GetStatistics(e) \in Exchange \X Nat /\ GetStatistics(e)[1] = e
<1>1. stored.candles[e] \in Nat /\ stored.books[e] \in Nat /\ Empty \in Nat
  BY DEF WatchInv, StoredType, Empty
<1>2. \A n \in Nat : <<e, n>>[1] = e
  OBVIOUS
<1> QED BY <1>1, <1>2 DEF GetCandles, GetOrders, GetStatistics, NoData

\* The first page.
LEMMA FirstIs == PageInv(NewPage)
<1> DEFINE p == NewPage
<1>1. p \in PageType
  BY DEF NewPage, PageType, Span, Tab, NoExchange
<1>2. /\ p.step = "loading" /\ p.exchange = NoExchange /\ p.drawn = {} /\ p.timers = {}
      /\ p.statistics = NoData /\ p.orders = NoData
  BY DEF NewPage
<1>3. NoExchange \notin Exchange
  BY DEF NoExchange, Exchange
<1> HIDE DEF p
<1>4. PageInv(p)
  BY <1>1, <1>2, <1>3 DEF PageInv, PageFits
<1> QED BY <1>4 DEF p

\* The page once the exchanges are there, and without them.
LEMMA PageLoads ==
    ASSUME NEW p, PageInv(p)
    PROVE  LET k == [p EXCEPT !.step = "ready", !.exchange = "poloniex",
                              !.newExchange = TRUE, !.newDuration = TRUE]
           IN  PageInv(k) /\ k.exchange \in Exchange
<1> DEFINE k == [p EXCEPT !.step = "ready", !.exchange = "poloniex",
                          !.newExchange = TRUE, !.newDuration = TRUE]
<1>0. "poloniex" \in Exchange
  BY DEF Exchange
<1>1. k \in PageType
  BY <1>0 DEF PageInv, PageFits, PageType
<1>2. /\ k.step = "ready" /\ k.exchange = "poloniex" /\ k.drawn = p.drawn /\ k.timers = p.timers
      /\ k.statistics = p.statistics /\ k.orders = p.orders /\ k.candles = p.candles
      /\ k.made = p.made
  BY DEF PageInv, PageFits, PageType
<1> HIDE DEF k
<1>3. PageInv(k) /\ k.exchange \in Exchange
  BY <1>0, <1>1, <1>2 DEF PageInv, PageFits
<1> QED BY <1>3 DEF k

\* The page without the exchanges.
LEMMA PageFails ==
    ASSUME NEW p, PageInv(p), p.step = "loading"
    PROVE  PageInv([p EXCEPT !.step = "failed"])
<1> DEFINE k == [p EXCEPT !.step = "failed"]
<1>1. k \in PageType
  BY DEF PageInv, PageFits, PageType
<1>2. /\ k.step = "failed" /\ k.exchange = p.exchange /\ k.drawn = p.drawn /\ k.timers = p.timers
      /\ k.statistics = p.statistics /\ k.orders = p.orders /\ k.candles = p.candles
      /\ k.made = p.made
  BY DEF PageInv, PageFits, PageType
<1> HIDE DEF k
<1>3. PageInv(k)
  BY <1>1, <1>2 DEF PageInv, PageFits
<1> QED BY <1>3 DEF k

\* Another exchange, or another duration, on a page that is ready.
LEMMA PageTurns ==
    ASSUME NEW p, PageInv(p), p.step = "ready", NEW e \in Exchange, NEW d \in Span, NEW b \in BOOLEAN
    PROVE  /\ PageInv([p EXCEPT !.exchange = e, !.newExchange = b])
           /\ [p EXCEPT !.exchange = e, !.newExchange = b].step = "ready"
           /\ PageInv([p EXCEPT !.duration = d, !.newDuration = b])
<1>0. p \in PageType
  BY DEF PageInv, PageFits
<1> DEFINE k == [p EXCEPT !.exchange = e, !.newExchange = b]
           h == [p EXCEPT !.duration = d, !.newDuration = b]
<1>1. k \in PageType /\ h \in PageType
  BY <1>0 DEF PageType
<1>2. /\ k.step = p.step /\ k.exchange = e /\ k.drawn = p.drawn /\ k.timers = p.timers
      /\ k.statistics = p.statistics /\ k.orders = p.orders /\ k.candles = p.candles
      /\ k.made = p.made
  BY <1>0 DEF PageType
<1>3. /\ h.step = p.step /\ h.exchange = p.exchange /\ h.drawn = p.drawn /\ h.timers = p.timers
      /\ h.statistics = p.statistics /\ h.orders = p.orders /\ h.candles = p.candles
      /\ h.made = p.made
  BY <1>0 DEF PageType
<1> HIDE DEF k, h
<1>4. PageInv(k) /\ PageInv(h) /\ k.step = "ready"
  BY <1>1, <1>2, <1>3 DEF PageInv, PageFits
<1> QED BY <1>4 DEF k, h

\* Another tab, whose chart is about to be drawn.
LEMMA PageTabs ==
    ASSUME NEW p, PageInv(p), NEW t \in Tab
    PROVE  PageInv([p EXCEPT !.tab = t, !.timers = @ \cup ({t} \ {"orderBook"}),
                             !.made = @ \/ t = "stockChart"])
<1>0. p \in PageType
  BY DEF PageInv, PageFits
<1> DEFINE T == p.timers \cup ({t} \ {"orderBook"})
           m == (p.made \/ t = "stockChart")
           k == [p EXCEPT !.tab = t, !.timers = T, !.made = m]
<1>1. T \in SUBSET (Tab \ {"orderBook"}) /\ m \in BOOLEAN
  BY <1>0 DEF PageType
<1>2. ("stockChart" \in T => m) /\ (p.made => m)
  BY DEF PageInv, PageFits
<1> HIDE DEF T, m
<1>3. k \in PageType
  BY <1>0, <1>1 DEF PageType
<1>4. /\ k.step = p.step /\ k.exchange = p.exchange /\ k.drawn = p.drawn /\ k.timers = T
      /\ k.statistics = p.statistics /\ k.orders = p.orders /\ k.candles = p.candles
      /\ k.made = m
  BY <1>0, <1>1 DEF PageType
<1> HIDE DEF k
<1>5. PageInv(k)
  BY <1>2, <1>3, <1>4 DEF PageInv, PageFits
<1> QED BY <1>5 DEF k, T, m

\* A page that shows fewer charts.
LEMMA PageBlanks ==
    ASSUME NEW p, PageFits(p), NEW D, D \subseteq p.drawn,
           "depthChart" \in D => p.orders # NoData
    PROVE  PageInv([p EXCEPT !.drawn = D])
<1>0. p \in PageType
  BY DEF PageInv, PageFits
<1> DEFINE k == [p EXCEPT !.drawn = D]
<1>1. D \in SUBSET (Tab \ {"orderBook"})
  BY <1>0 DEF PageType
<1>2. k \in PageType
  BY <1>0, <1>1 DEF PageType
<1>3. /\ k.step = p.step /\ k.exchange = p.exchange /\ k.drawn = D /\ k.timers = p.timers
      /\ k.statistics = p.statistics /\ k.orders = p.orders /\ k.candles = p.candles
      /\ k.made = p.made
  BY <1>0 DEF PageType
<1> HIDE DEF k
<1>4. PageInv(k)
  BY <1>2, <1>3 DEF PageInv, PageFits
<1> QED BY <1>4 DEF k

\* New candles, on a page that keeps what else it has.
LEMMA PageCandles ==
    ASSUME NEW p, PageFits(p), NEW c \in {NoData} \cup (Exchange \X Span \X Nat)
    PROVE  PageFits([p EXCEPT !.candles = c, !.made = TRUE, !.timers = @ \cup {"stockChart"}])
<1>0. p \in PageType
  BY DEF PageFits
<1> DEFINE T == p.timers \cup {"stockChart"}
           k == [p EXCEPT !.candles = c, !.made = TRUE, !.timers = T]
<1>1. T \in SUBSET (Tab \ {"orderBook"})
  BY <1>0 DEF PageType, Tab
<1> HIDE DEF T
<1>2. k \in PageType
  BY <1>0, <1>1 DEF PageType
<1>3. /\ k.step = p.step /\ k.exchange = p.exchange /\ k.drawn = p.drawn /\ k.timers = T
      /\ k.statistics = p.statistics /\ k.orders = p.orders /\ k.candles = c /\ k.made = TRUE
  BY <1>0, <1>1 DEF PageType
<1> HIDE DEF k
<1>4. PageFits(k)
  BY <1>2, <1>3 DEF PageFits
<1> QED BY <1>4 DEF k, T

\* New statistics and orders, of one exchange when both are there.
LEMMA PageShows ==
    ASSUME NEW p, PageFits(p),
           NEW s \in {NoData} \cup (Exchange \X Nat), NEW o \in {NoData} \cup (Exchange \X Nat),
           s # NoData /\ o # NoData => s[1] = o[1]
    PROVE  PageFits([p EXCEPT !.statistics = s, !.orders = o, !.timers = @ \cup {"depthChart"}])
<1>0. p \in PageType
  BY DEF PageFits
<1> DEFINE T == p.timers \cup {"depthChart"}
           k == [p EXCEPT !.statistics = s, !.orders = o, !.timers = T]
<1>1. T \in SUBSET (Tab \ {"orderBook"})
  BY <1>0 DEF PageType, Tab
<1>2. "stockChart" \in T => "stockChart" \in p.timers
  OBVIOUS
<1> HIDE DEF T
<1>3. k \in PageType
  BY <1>0, <1>1 DEF PageType
<1>4. /\ k.step = p.step /\ k.exchange = p.exchange /\ k.drawn = p.drawn /\ k.timers = T
      /\ k.statistics = s /\ k.orders = o /\ k.candles = p.candles /\ k.made = p.made
  BY <1>0, <1>1 DEF PageType
<1> HIDE DEF k
<1>5. PageFits(k)
  BY <1>2, <1>3, <1>4 DEF PageFits
<1> QED BY <1>5 DEF k, T

\* A chart that is drawn, or not.
LEMMA PageDraws ==
    ASSUME NEW p, PageInv(p), NEW c \in {"stockChart", "depthChart"}, c \in p.timers
    PROVE  LET k == [p EXCEPT !.timers = @ \ {c}]
           IN  /\ PageInv(k)
               /\ c = "stockChart" =>
                    PageInv([k EXCEPT !.drawn = @ \cup {c}, !.newExchange = FALSE, !.newDuration = FALSE])
               /\ c = "depthChart" /\ p.orders # NoData => PageInv([k EXCEPT !.drawn = @ \cup {c}])
<1>0. p \in PageType
  BY DEF PageInv, PageFits
<1> DEFINE T == p.timers \ {c}
           k == [p EXCEPT !.timers = T]
<1>1. T \in SUBSET (Tab \ {"orderBook"})
  BY <1>0 DEF PageType
<1>2. k \in PageType
  BY <1>0, <1>1 DEF PageType
<1>3. /\ k.step = p.step /\ k.exchange = p.exchange /\ k.drawn = p.drawn /\ k.timers = T
      /\ k.statistics = p.statistics /\ k.orders = p.orders /\ k.candles = p.candles
      /\ k.made = p.made
  BY <1>0 DEF PageType
<1>4. T \subseteq p.timers
  OBVIOUS
<1> HIDE DEF k, T
<1>5. PageInv(k)
  BY <1>2, <1>3, <1>4 DEF PageInv, PageFits
<1> DEFINE D == k.drawn \cup {c}
<1>6. D \in SUBSET (Tab \ {"orderBook"})
  BY <1>2 DEF PageType, Tab
<1>7. /\ "stockChart" \in D => "stockChart" \in p.drawn \/ c = "stockChart"
      /\ "depthChart" \in D => "depthChart" \in p.drawn \/ c = "depthChart"
  BY <1>3
<1> HIDE DEF D
<1>8. ASSUME c = "stockChart"
      PROVE  PageInv([k EXCEPT !.drawn = D, !.newExchange = FALSE, !.newDuration = FALSE])
  <2> DEFINE h == [k EXCEPT !.drawn = D, !.newExchange = FALSE, !.newDuration = FALSE]
  <2>1. h \in PageType
    BY <1>2, <1>6 DEF PageType
  <2>2. /\ h.step = k.step /\ h.exchange = k.exchange /\ h.drawn = D /\ h.timers = k.timers
        /\ h.statistics = k.statistics /\ h.orders = k.orders /\ h.candles = k.candles
        /\ h.made = k.made
    BY <1>2, <1>6 DEF PageType
  <2>3. k.made
    BY <1>3, <1>8 DEF PageInv, PageFits
  <2> HIDE DEF h
  <2>4. "depthChart" \in D => "depthChart" \in k.drawn
    BY <1>3, <1>7, <1>8
  <2>5. PageInv(h)
    BY <1>5, <2>1, <2>2, <2>3, <2>4 DEF PageInv, PageFits
  <2> QED BY <2>5 DEF h
<1>9. ASSUME c = "depthChart", p.orders # NoData PROVE PageInv([k EXCEPT !.drawn = D])
  <2> DEFINE h == [k EXCEPT !.drawn = D]
  <2>1. h \in PageType
    BY <1>2, <1>6 DEF PageType
  <2>2. /\ h.step = k.step /\ h.exchange = k.exchange /\ h.drawn = D /\ h.timers = k.timers
        /\ h.statistics = k.statistics /\ h.orders = k.orders /\ h.candles = k.candles
        /\ h.made = k.made
    BY <1>2, <1>6 DEF PageType
  <2>3. k.orders # NoData
    BY <1>3, <1>9
  <2> HIDE DEF h
  <2>4. "stockChart" \in D => "stockChart" \in k.drawn
    BY <1>3, <1>7, <1>9
  <2>5. PageInv(h)
    BY <1>5, <2>1, <2>2, <2>3, <2>4 DEF PageInv, PageFits
  <2> QED BY <2>5 DEF h
<1> QED BY <1>5, <1>8, <1>9 DEF k, T, D

\* Loading keeps the page and asks for what is selected.
LEMMA LoadsData ==
    ASSUME WatchInv, NEW q \in Query, NEW p, PageInv(p), p.exchange \in Exchange, GetData(q, p)
    PROVE  PageInv(page') /\ DOMAIN queries' = Query /\ \A r \in Query : Asks((queries')[r])
<1> DEFINE k == [active |-> TRUE, exchange |-> p.exchange, duration |-> p.duration,
                 all |-> UpdateAll(p)]
<1>1. page' = p /\ queries' = [queries EXCEPT ![q] = k]
  BY DEF GetData
<1>2. p.duration \in Span /\ p.newExchange \in BOOLEAN /\ p.newDuration \in BOOLEAN
  BY DEF PageInv, PageFits, PageType
<1>3. UpdateAll(p) \in BOOLEAN
  BY <1>2 DEF UpdateAll
<1>4. Asks(k)
  BY <1>2, <1>3 DEF Asks, QueryType
<1> HIDE DEF k
<1>5. DOMAIN queries = Query /\ \A r \in Query : Asks(queries[r])
  BY DEF WatchInv
<1> QED BY <1>1, <1>4, <1>5

\* The invariant before and after a step.
LEMMA WatchNext ==
    ASSUME /\ stored' \in StoredType /\ \A e \in Exchange : (stored').full[e] => (stored').candles[e] > Empty
           /\ PageInv(page')
           /\ DOMAIN queries' = Query /\ \A q \in Query : Asks((queries')[q])
    PROVE  WatchInv'
BY DEF WatchInv, StoredType, PageInv, PageFits, PageType, Asks, QueryType

\* The page before the exchanges are there.
LEMMA WatchStart ==
    ASSUME WatchInit
    PROVE  WatchInv
<1>0. PICK some \in {{"poloniex"}, Exchange} :
        LET saved == [e \in Exchange |-> IF e \in some THEN 1 ELSE Empty]
        IN  stored = [candles |-> saved, books |-> saved, saves |-> 0,
                      full |-> [e \in Exchange |-> e \in some]]
  BY DEF WatchInit
<1> DEFINE before == [e \in Exchange |-> IF e \in some THEN 1 ELSE Empty]
           full == [e \in Exchange |-> e \in some]
<1>1. /\ stored = [candles |-> before, books |-> before, saves |-> 0, full |-> full]
      /\ page = NewPage /\ queries = [q \in Query |-> NoQuery]
  BY <1>0 DEF WatchInit
<1>2. before \in [Exchange -> Nat] /\ full \in [Exchange -> BOOLEAN]
      /\ \A e \in Exchange : full[e] => before[e] > Empty
  <2>1. \A e \in Exchange : full[e] <=> e \in some
    OBVIOUS
  <2>2. \A e \in Exchange : before[e] = IF e \in some THEN 1 ELSE Empty
    OBVIOUS
  <2>3. before \in [Exchange -> Nat] /\ full \in [Exchange -> BOOLEAN]
    BY DEF Empty
  <2> HIDE DEF before, full
  <2> QED BY <2>1, <2>2, <2>3 DEF Empty
<1> HIDE DEF before, full
<1>3. stored \in StoredType /\ \A e \in Exchange : stored.full[e] => stored.candles[e] > Empty
  BY <1>1, <1>2, WatchAssumption DEF StoredType
<1>4. Asks(NoQuery)
  BY DEF Asks, NoQuery, QueryType, NoExchange, Span
<1> QED BY <1>1, <1>3, <1>4, FirstIs DEF WatchInv

\* Other steps leave the page as it is.
LEMMA WatchKept ==
    ASSUME WatchInv, UNCHANGED <<stored, page, queries>>
    PROVE  WatchInv'
<1>1. stored' = stored /\ page' = page /\ queries' = queries
  OBVIOUS
<1>2. /\ stored \in StoredType /\ \A e \in Exchange : stored.full[e] => stored.candles[e] > Empty
      /\ PageInv(page) /\ DOMAIN queries = Query /\ \A q \in Query : Asks(queries[q])
  BY DEF WatchInv
<1> QED BY <1>1, <1>2, WatchNext

\* What is saved, and what is dropped, of an exchange.
LEMMA SavesAre ==
    ASSUME WatchInv, NEW e \in Exchange, CandlesStored(e) \/ BooksStored(e)
    PROVE  /\ stored' \in StoredType
           /\ \A x \in Exchange : (stored').full[x] => (stored').candles[x] > Empty
<1> DEFINE n == stored.saves + 1
           c == [stored.candles EXCEPT ![e] = @ + 1]
           b == [stored.books EXCEPT ![e] = @ + 1]
           t == [stored.full EXCEPT ![e] = TRUE]
           f == [stored.full EXCEPT ![e] = FALSE]
<1>0. /\ stored.candles \in [Exchange -> Nat] /\ stored.books \in [Exchange -> Nat]
      /\ stored.saves \in 0 .. MaxSaves /\ stored.full \in [Exchange -> BOOLEAN]
      /\ \A x \in Exchange : stored.full[x] => stored.candles[x] > Empty
      /\ stored \in StoredType
  BY DEF WatchInv, StoredType
<1>1. stored.saves < MaxSaves
  BY DEF CandlesStored, BooksStored, Saved
<1>2. n \in 0 .. MaxSaves
  BY <1>0, <1>1, WatchAssumption
<1>3. /\ c \in [Exchange -> Nat] /\ b \in [Exchange -> Nat]
      /\ t \in [Exchange -> BOOLEAN] /\ f \in [Exchange -> BOOLEAN]
  BY <1>0
<1>4. \A x \in Exchange : t[x] => c[x] > Empty
  BY <1>0 DEF Empty
<1>5. \A x \in Exchange : f[x] => stored.candles[x] > Empty
  BY <1>0
<1>6. \/ stored' = [stored EXCEPT !.candles = c, !.full = t, !.saves = n]
      \/ stored' = [stored EXCEPT !.full = f, !.saves = n]
      \/ stored' = [stored EXCEPT !.books = b, !.saves = n]
  BY <1>0 DEF CandlesStored, BooksStored, StoredType
<1> HIDE DEF n, c, b, t, f
<1>7. CASE stored' = [stored EXCEPT !.candles = c, !.full = t, !.saves = n]
  <2> DEFINE k == [stored EXCEPT !.candles = c, !.full = t, !.saves = n]
  <2>1. k \in StoredType /\ k.full = t /\ k.candles = c
    BY <1>0, <1>2, <1>3 DEF StoredType
  <2> HIDE DEF k
  <2>2. k \in StoredType /\ \A x \in Exchange : k.full[x] => k.candles[x] > Empty
    BY <1>4, <2>1
  <2> QED BY <1>7, <2>2 DEF k
<1>8. CASE stored' = [stored EXCEPT !.full = f, !.saves = n]
  <2> DEFINE k == [stored EXCEPT !.full = f, !.saves = n]
  <2>1. k \in StoredType /\ k.full = f /\ k.candles = stored.candles
    BY <1>0, <1>2, <1>3 DEF StoredType
  <2> HIDE DEF k
  <2>2. k \in StoredType /\ \A x \in Exchange : k.full[x] => k.candles[x] > Empty
    BY <1>5, <2>1
  <2> QED BY <1>8, <2>2 DEF k
<1>9. CASE stored' = [stored EXCEPT !.books = b, !.saves = n]
  <2> DEFINE k == [stored EXCEPT !.books = b, !.saves = n]
  <2>1. k \in StoredType /\ k.full = stored.full /\ k.candles = stored.candles
    BY <1>0, <1>2, <1>3 DEF StoredType
  <2> HIDE DEF k
  <2>2. k \in StoredType /\ \A x \in Exchange : k.full[x] => k.candles[x] > Empty
    BY <1>0, <2>1
  <2> QED BY <1>9, <2>2 DEF k
<1> QED BY <1>6, <1>7, <1>8, <1>9

\* What an answer shows: a chart stays that shows what the page had and still has.
LEMMA PageCame ==
    ASSUME PageInv(page), NEW p, PageFits(p), p.drawn = page.drawn, Came(p)
    PROVE  PageInv(page')
<1> DEFINE D == {c \in p.drawn : IF c = "stockChart" THEN p.candles = page.candles
                                 ELSE p.orders = page.orders}
<1>1. page' = [p EXCEPT !.drawn = D]
  BY DEF Came, PageFits, PageType
<1>2. D \subseteq p.drawn
  OBVIOUS
<1>3. "depthChart" \in D => p.orders # NoData
  BY DEF PageInv
<1> HIDE DEF D
<1> QED BY <1>1, <1>2, <1>3, PageBlanks

\* The page after the answers of a load, errors among them.
LEMMA PageAnswers ==
    ASSUME WatchInv, NEW q \in Query, AnswersArrive(q)
    PROVE  PageInv(page')
<1> DEFINE r == queries[q]
<1>1. PICK refused \in SUBSET {"candles", "statistics", "orders"} :
        Came(IF r.all
             THEN [WithCandles(r, refused) EXCEPT
                     !.statistics = Given(refused, "statistics", GetStatistics(r.exchange)),
                     !.orders = Given(refused, "orders", GetOrders(r.exchange)),
                     !.timers = @ \cup {"depthChart"}]
             ELSE WithCandles(r, refused))
  BY DEF AnswersArrive
<1> DEFINE c == Given(refused, "candles", GetCandles(r.exchange, r.duration))
           p == WithCandles(r, refused)
           s == Given(refused, "statistics", GetStatistics(r.exchange))
           o == Given(refused, "orders", GetOrders(r.exchange))
           k == [p EXCEPT !.statistics = s, !.orders = o, !.timers = @ \cup {"depthChart"}]
<1>2. PageInv(page) /\ PageFits(page) /\ page \in PageType /\ Asks(r) /\ r.active
  BY DEF WatchInv, PageInv, PageFits, AnswersArrive
<1>3. p = [page EXCEPT !.candles = c, !.made = TRUE, !.timers = @ \cup {"stockChart"}]
  BY DEF WithCandles
<1>4. Came(p) \/ Came(k)
  BY <1>1
<1>5. r.exchange \in Exchange /\ r.duration \in Span
  BY <1>2 DEF Asks, QueryType
<1> HIDE DEF r
<1>6. /\ c \in {NoData} \cup (Exchange \X Span \X Nat)
      /\ s \in {NoData} \cup (Exchange \X Nat) /\ o \in {NoData} \cup (Exchange \X Nat)
      /\ s # NoData => s[1] = r.exchange
      /\ o # NoData => o[1] = r.exchange
  BY <1>5, AnswersAre DEF Given
<1> HIDE DEF c, s, o, p
<1>7. PageFits(p) /\ p.drawn = page.drawn
  <2>1. PageFits(p)
    BY <1>2, <1>3, <1>6, PageCandles
  <2>2. p.drawn = page.drawn
    BY <1>2, <1>3 DEF PageType
  <2> QED BY <2>1, <2>2
<1>8. PageFits(k) /\ k.drawn = page.drawn
  <2>1. PageFits(k)
    BY <1>6, <1>7, PageShows
  <2>2. k.drawn = p.drawn
    BY <1>7 DEF PageFits, PageType
  <2> QED BY <1>7, <2>1, <2>2
<1> HIDE DEF k
<1> QED BY <1>2, <1>4, <1>7, <1>8, PageCame

\* The steps of the page that change neither what is stored nor what is asked.
LEMMA PageMoves ==
    ASSUME WatchInv, ExchangesFail \/ DrawStock \/ DrawDepth \/ \E t \in Tab : ClickTab(t)
    PROVE  PageInv(page') /\ UNCHANGED <<stored, queries>>
<1>0. PageInv(page) /\ page \in PageType
  BY DEF WatchInv, PageInv, PageFits
<1>1. CASE ExchangesFail
  BY <1>0, <1>1, PageFails DEF ExchangesFail
<1>2. CASE DrawStock
  <2> DEFINE p == [page EXCEPT !.timers = @ \ {"stockChart"}]
             k == [p EXCEPT !.drawn = @ \cup {"stockChart"}, !.newExchange = FALSE,
                            !.newDuration = FALSE]
  <2>1. "stockChart" \in page.timers /\ (page' = p \/ page' = k) /\ UNCHANGED <<stored, queries>>
    BY <1>2 DEF DrawStock
  <2>2. PageInv(p) /\ PageInv(k)
    BY <1>0, <2>1, PageDraws
  <2> HIDE DEF p, k
  <2> QED BY <2>1, <2>2
<1>3. CASE DrawDepth
  <2> DEFINE p == [page EXCEPT !.timers = @ \ {"depthChart"}]
             k == [p EXCEPT !.drawn = @ \cup {"depthChart"}]
  <2>1. /\ "depthChart" \in page.timers /\ UNCHANGED <<stored, queries>>
        /\ page' = p \/ (page.orders # NoData /\ page' = k)
    BY <1>3 DEF DrawDepth
  <2>2. PageInv(p) /\ (page.orders # NoData => PageInv(k))
    BY <1>0, <2>1, PageDraws
  <2> HIDE DEF p, k
  <2> QED BY <2>1, <2>2
<1>4. CASE \E t \in Tab : ClickTab(t)
  <2>1. PICK t \in Tab : ClickTab(t)
    BY <1>4
  <2> DEFINE k == [page EXCEPT !.tab = t, !.timers = @ \cup ({t} \ {"orderBook"}),
                               !.made = @ \/ t = "stockChart"]
  <2>2. page' = k /\ UNCHANGED <<stored, queries>>
    BY <2>1 DEF ClickTab
  <2>3. PageInv(k)
    BY <1>0, PageTabs
  <2> HIDE DEF k
  <2> QED BY <2>2, <2>3
<1> QED BY <1>1, <1>2, <1>3, <1>4

\* The steps that load.
LEMMA PageLoadsData ==
    ASSUME WatchInv, NEW q \in Query,
           \/ ExchangesArrive(q) \/ Interval(q)
           \/ \E e \in Exchange : ClickExchange(q, e)
           \/ \E d \in Span : ClickDuration(q, d)
    PROVE  /\ PageInv(page') /\ UNCHANGED stored
           /\ DOMAIN queries' = Query /\ \A r \in Query : Asks((queries')[r])
<1>0. PageInv(page) /\ page \in PageType /\ page.duration \in Span
  BY DEF WatchInv, PageInv, PageFits, PageType
<1>1. CASE ExchangesArrive(q)
  <2> DEFINE k == [page EXCEPT !.step = "ready", !.exchange = "poloniex",
                               !.newExchange = TRUE, !.newDuration = TRUE]
  <2>1. GetData(q, k) /\ UNCHANGED stored
    BY <1>1 DEF ExchangesArrive
  <2>2. PageInv(k) /\ k.exchange \in Exchange
    BY <1>0, PageLoads
  <2> HIDE DEF k
  <2> QED BY <2>1, <2>2, LoadsData
<1>2. CASE Interval(q)
  <2>1. page.step = "ready" /\ GetData(q, page) /\ UNCHANGED stored
    BY <1>2 DEF Interval
  <2>2. page.exchange \in Exchange
    BY <1>0, <2>1 DEF PageInv, PageFits
  <2> QED BY <1>0, <2>1, <2>2, LoadsData
<1>3. ASSUME NEW p, PageInv(p), p.step = "ready", NEW d \in Span, SetDuration(q, p, d)
      PROVE  /\ PageInv(page') /\ DOMAIN queries' = Query
             /\ \A r \in Query : Asks((queries')[r])
  <2> DEFINE b == d # p.duration
             k == [p EXCEPT !.duration = d, !.newDuration = b]
  <2>1. GetData(q, k)
    BY <1>3 DEF SetDuration
  <2>2. b \in BOOLEAN
    OBVIOUS
  <2> HIDE DEF b
  <2>3. PageInv(k)
    BY <1>3, <2>2, PageTurns, Zenon DEF Exchange
  <2>4. k.exchange \in Exchange
    <3>1. p.exchange \in Exchange /\ p \in PageType
      BY <1>3 DEF PageInv, PageFits
    <3>2. k.exchange = p.exchange
      BY <3>1, <2>2 DEF PageType
    <3> QED BY <3>1, <3>2
  <2> HIDE DEF k
  <2> QED BY <2>1, <2>3, <2>4, LoadsData
<1>4. ASSUME NEW e \in Exchange, ClickExchange(q, e)
      PROVE  /\ PageInv(page') /\ UNCHANGED stored /\ DOMAIN queries' = Query
             /\ \A r \in Query : Asks((queries')[r])
  <2> DEFINE b == e # page.exchange
             k == [page EXCEPT !.exchange = e, !.newExchange = b]
  <2>1. page.step = "ready" /\ SetDuration(q, k, page.duration) /\ UNCHANGED stored
    BY <1>4 DEF ClickExchange, Click
  <2>2. b \in BOOLEAN
    OBVIOUS
  <2> HIDE DEF b
  <2>3. PageInv(k) /\ k.step = "ready"
    BY <1>0, <2>1, <2>2, PageTurns
  <2> HIDE DEF k
  <2> QED BY <1>0, <1>3, <2>1, <2>3
<1>5. ASSUME NEW d \in Span, ClickDuration(q, d)
      PROVE  /\ PageInv(page') /\ UNCHANGED stored /\ DOMAIN queries' = Query
             /\ \A r \in Query : Asks((queries')[r])
  <2>1. page.step = "ready" /\ SetDuration(q, page, d) /\ UNCHANGED stored
    BY <1>5 DEF ClickDuration, Click
  <2> QED BY <1>0, <1>3, <2>1
<1> QED BY <1>1, <1>2, <1>4, <1>5

\* The page holds together through every step.
LEMMA WatchUpdate ==
    ASSUME WatchInv, WatchStep
    PROVE  WatchInv'
<1>0. /\ stored \in StoredType /\ \A e \in Exchange : stored.full[e] => stored.candles[e] > Empty
      /\ PageInv(page) /\ DOMAIN queries = Query /\ \A q \in Query : Asks(queries[q])
  BY DEF WatchInv
<1>1. CASE \E e \in Exchange : CandlesStored(e) \/ BooksStored(e)
  <2>1. PICK e \in Exchange : CandlesStored(e) \/ BooksStored(e)
    BY <1>1
  <2>2. page' = page /\ queries' = queries
    BY <2>1 DEF CandlesStored, BooksStored
  <2>3. /\ stored' \in StoredType
        /\ \A x \in Exchange : (stored').full[x] => (stored').candles[x] > Empty
    BY <2>1, SavesAre
  <2> QED BY <1>0, <2>2, <2>3, WatchNext
<1>2. CASE ExchangesFail \/ DrawStock \/ DrawDepth \/ \E t \in Tab : ClickTab(t)
  <2>1. PageInv(page') /\ stored' = stored /\ queries' = queries
    BY <1>2, PageMoves
  <2> QED BY <1>0, <2>1, WatchNext
<1>3. ASSUME NEW q \in Query,
             \/ ExchangesArrive(q) \/ Interval(q)
             \/ \E e \in Exchange : ClickExchange(q, e)
             \/ \E d \in Span : ClickDuration(q, d)
      PROVE  WatchInv'
  <2>1. /\ PageInv(page') /\ stored' = stored
        /\ DOMAIN queries' = Query /\ \A r \in Query : Asks((queries')[r])
    BY <1>3, PageLoadsData
  <2> QED BY <1>0, <2>1, WatchNext
<1>4. ASSUME NEW q \in Query, AnswersArrive(q) \/ AnswerFails(q) PROVE WatchInv'
  <2>1. queries' = [queries EXCEPT ![q] = NoQuery] /\ stored' = stored
    BY <1>4 DEF AnswersArrive, AnswerFails, Done
  <2>2. Asks(NoQuery)
    BY DEF Asks, NoQuery, QueryType, NoExchange, Span
  <2>3. DOMAIN queries' = Query /\ \A r \in Query : Asks((queries')[r])
    BY <1>0, <2>1, <2>2
  <2>4. PageInv(page')
    <3>1. CASE AnswersArrive(q)
      BY <3>1, PageAnswers
    <3>2. CASE AnswerFails(q)
      BY <1>0, <3>2 DEF AnswerFails
    <3> QED BY <1>4, <3>1, <3>2
  <2> QED BY <1>0, <2>1, <2>3, <2>4, WatchNext
<1> QED BY <1>1, <1>2, <1>3, <1>4 DEF WatchStep

-----------------------------------------------------------------------------
(* The market data as a whole. *)

\* The inductive invariant: what holds of each part.
MarketInv ==
    /\ part \in MarketPart /\ HistoryInv /\ CandlesInv /\ BittrexInv
    /\ OrdersInv /\ RatesInv /\ WatchInv

\* A step is one of each part, or leaves its state alone.
LEMMA StepsAre ==
    ASSUME [MarketNext]_marketVars
    PROVE  /\ part' = part /\ HistoryStep
           /\ \/ UNCHANGED <<lists, jobs>>
              \/ \E p \in Process : UpdateBegin(p) \/ Fetch(p) \/ Save(p) \/ GivesUp(p)
           /\ UNCHANGED bittrexVars \/ BittrexStep
           /\ UNCHANGED orderVars \/ OrderStep
           /\ UNCHANGED rateVars \/ RateStep
           /\ UNCHANGED watchVars \/ WatchStep
<1>1. CASE UNCHANGED marketVars
  BY <1>1 DEF marketVars, candleVars, exchangeVars, HistoryStep
<1>2. CASE MarketNext
  <2>1. HistoryStep /\ part' = part
    BY <1>2, HistorySteps DEF MarketNext
  <2>2. CASE CandleStep
    <3>1. UNCHANGED <<exchangeVars, watchVars>>
      BY <2>2 DEF CandleStep
    <3>2. \/ UNCHANGED <<lists, jobs>>
          \/ \E p \in Process : UpdateBegin(p) \/ Fetch(p) \/ Save(p) \/ GivesUp(p)
      BY <2>2 DEF CandleStep, Clock, Trade
    <3> QED BY <2>1, <3>1, <3>2 DEF exchangeVars
  <2>3. CASE BittrexStep /\ UNCHANGED <<lists, jobs, orderVars, rateVars, watchVars>>
    BY <2>1, <2>3
  <2>4. CASE OrderStep /\ UNCHANGED <<lists, jobs, bittrexVars, rateVars, watchVars>>
    BY <2>1, <2>4
  <2>5. CASE RateStep /\ UNCHANGED <<lists, jobs, bittrexVars, orderVars, watchVars>>
    BY <2>1, <2>5
  <2>6. CASE WatchStep /\ UNCHANGED <<lists, jobs, exchangeVars>>
    BY <2>1, <2>6 DEF exchangeVars
  <2> QED BY <1>2, <2>2, <2>3, <2>4, <2>5, <2>6 DEF MarketNext
<1> QED BY <1>1, <1>2

\* The invariant holds at first,
LEMMA MarketStarts == MarketInit => MarketInv
BY HistoryInit, CandlesStart, BittrexStart, OrdersStart, RatesStart, WatchStart
   DEF MarketInit, MarketInv

\* and every step keeps it.
LEMMA MarketSteps == MarketInv /\ [MarketNext]_marketVars => MarketInv'
<1> SUFFICES ASSUME MarketInv, [MarketNext]_marketVars PROVE MarketInv'
  OBVIOUS
<1>1. /\ part \in MarketPart /\ HistoryInv /\ CandlesInv /\ BittrexInv
      /\ OrdersInv /\ RatesInv /\ WatchInv
  BY DEF MarketInv
<1>2. part' \in MarketPart
  BY <1>1, StepsAre DEF MarketPart
<1>3. HistoryStep /\ HistoryInv'
  BY <1>1, StepsAre, HistoryKept
<1>4. CandlesInv'
  <2>1. CASE UNCHANGED <<lists, jobs>>
    BY <1>1, <1>3, <2>1, CandlesKept
  <2>2. CASE \E p \in Process : UpdateBegin(p) \/ Fetch(p) \/ Save(p) \/ GivesUp(p)
    BY <1>1, <2>2, CandlesUpdate
  <2> QED BY <2>1, <2>2, StepsAre
<1>5. BittrexInv'
  BY <1>1, <1>3, StepsAre, BittrexKept, BittrexUpdate
<1>6. OrdersInv'
  BY <1>1, StepsAre, OrdersKept, OrdersUpdate
<1>7. RatesInv'
  BY <1>1, StepsAre, RatesKept, RatesUpdate
<1>8. WatchInv'
  <2>1. CASE UNCHANGED watchVars
    BY <1>1, <2>1, WatchKept DEF watchVars
  <2>2. CASE WatchStep
    BY <1>1, <2>2, WatchUpdate
  <2> QED BY <2>1, <2>2, StepsAre
<1> QED BY <1>2, <1>3, <1>4, <1>5, <1>6, <1>7, <1>8 DEF MarketInv, MarketPart

\* A sequence over a part of a set is one over the set.
LEMMA SeqGrows ==
    ASSUME NEW A, NEW B, A \subseteq B
    PROVE  Seq(A) \subseteq Seq(B)
OBVIOUS

\* The candles the lists hold are of the types the model names.
LEMMA CandlesTyped ==
    ASSUME HistoryInv, CandlesInv
    PROVE  CandlesTypeOK
<1>1. Len(trades) \in Nat /\ Len(trades) <= MaxTrades /\ MaxTrades \in Nat
  BY SizeAssumption DEF HistoryInv
<1>2. Seq(1 .. Len(trades)) \subseteq Seq(1 .. MaxTrades)
  <2>1. 1 .. Len(trades) \subseteq 1 .. MaxTrades
    BY <1>1
  <2> QED BY <2>1, SeqGrows
<1>3. \A d \in DOMAIN Durations : lists[d] \in Seq(Candle)
  <2> TAKE d \in DOMAIN Durations
  <2>1. Stored(d) \subseteq Candle
    BY <1>2 DEF Stored, Candle
  <2>2. lists[d] \in Seq(Stored(d))
    BY DEF CandlesInv
  <2> QED BY <2>1, <2>2
<1>4. ASSUME NEW d \in DOMAIN Durations, NEW candle \in Range(lists[d]), NEW i \in Range(candle.ids)
      PROVE  Period(trades[i], Durations[d]) = candle.period
  <2>1. lists[d] \in Seq(Stored(d))
    BY DEF CandlesInv
  <2>2. PICK k \in DOMAIN lists[d] : candle = lists[d][k]
    BY DEF Range
  <2>3. candle \in Stored(d)
    BY <2>1, <2>2
  <2> QED BY <1>4, <2>3 DEF Stored
<1>5. ASSUME NEW p \in Process
      PROVE  /\ jobs[p].step \in {"idle", "fetch", "save"}
             /\ jobs[p].acc \in Seq(1 .. Len(trades))
             /\ jobs[p].step = "save" => jobs[p].done \in DOMAIN Durations
  BY DEF CandlesInv, Job
<1>6. now \in 0 .. MaxTime /\ trades \in Seq(0 .. MaxTime) /\ failures \in 0 .. MaxFailures
  BY DEF HistoryInv
<1> QED BY <1>3, <1>4, <1>5, <1>6 DEF CandlesTypeOK

\* So is what the explorer has of the exchanges.
LEMMA ExchangesTyped ==
    ASSUME HistoryInv, BittrexInv, OrdersInv, RatesInv
    PROVE  ExchangesTypeOK
<1>1. Len(trades) \in Nat /\ Len(trades) <= MaxTrades /\ MaxTrades \in Nat
  BY SizeAssumption DEF HistoryInv
<1>2. Seq(1 .. Len(trades)) \subseteq Seq(1 .. MaxTrades)
  <2>1. 1 .. Len(trades) \subseteq 1 .. MaxTrades
    BY <1>1
  <2> QED BY <2>1, SeqGrows
<1>3. Ticks \subseteq Candle
  BY <1>2 DEF Ticks, Candle
<1>4. \A d \in DOMAIN Durations : bittrexLists[d] \in Seq(Candle)
  BY <1>3 DEF BittrexInv
<1>5. /\ bittrex.step \in {"idle", "poloniex", "fetch", "again", "drop", "save"}
      /\ bittrex.step \in {"drop", "save"} => bittrex.done \in DOMAIN Durations
  BY DEF BittrexInv, TickUpdate
<1>6. /\ orders.step \in {"idle", "ask", "save"} /\ orders.of \in Exchange
      /\ offers.book \in [Exchange -> Book \cup {EmptyBook}] /\ offers.changes \in 0 .. MaxBooks
  BY DEF OrdersInv
<1>7. /\ price \in 1 .. MaxPrices /\ DOMAIN tickers \subseteq Currency
      /\ \A l \in Load : loads[l].asked \subseteq Pair
                           /\ loads[l].prices \in [Pair -> {Missing} \cup 1 .. price]
  BY DEF RatesInv, Loading
<1> QED BY <1>4, <1>5, <1>6, <1>7 DEF ExchangesTypeOK

\* And what the page holds.
LEMMA WatchTyped ==
    ASSUME WatchInv
    PROVE  WatchTypeOK
<1>1. /\ stored.saves \in 0 .. MaxSaves
      /\ \A e \in Exchange : stored.full[e] => stored.candles[e] > Empty
  BY DEF WatchInv, StoredType
<1>2. PageInv(page)
  BY DEF WatchInv
<1>3. /\ page.step \in {"loading", "ready", "failed"} /\ page.duration \in Span
      /\ page.tab \in Tab /\ page.timers \subseteq Tab \ {"orderBook"}
  BY <1>2 DEF PageInv, PageFits, PageType
<1> QED BY <1>1, <1>2, <1>3 DEF WatchTypeOK, PageInv, PageFits

\* Bittrex' lists have no gap and no tick twice.
LEMMA TicksTrue ==
    ASSUME BittrexInv
    PROVE  BittrexTrue
BY DEF BittrexInv, BittrexTrue, Gapless

\* lib/candles, lib/orders, utils and market-watcher: the updaters and the market page keep
\* their state well typed, through every failure: candles hold known trades of their own
\* period, and on the page statistics and orders, when both are there, are of one exchange,
\* and no book is drawn that is not there, whichever of the answers were errors.
THEOREM MarketTyped == MarketSpec => []MarketTypeOK
<1>1. MarketInv => MarketTypeOK
  BY CandlesTyped, ExchangesTyped, WatchTyped DEF MarketInv, MarketTypeOK
<1> QED BY <1>1, MarketStarts, MarketSteps, PTL DEF MarketSpec

\* lib/candles/bittrex.js and lib/orders: for any history, clock and order books, and with
\* any number of processes, what is stored of Bittrex' candles and of the order books is true
\* at every moment, in the middle of an update and after one that broke off.
THEOREM ExchangesTrue == MarketSpec => [](BittrexTrue /\ DepthTrue)
<1>1. MarketInv => BittrexTrue /\ DepthTrue
  BY TicksTrue, DepthsAre DEF MarketInv
<1> QED BY <1>1, MarketStarts, MarketSteps, PTL DEF MarketSpec

\* lib/candles/poloniex.js: with one process, as long as the trades of an update fit one page
\* of the exchange, everything stored is true: no update, failed, interrupted or overtaken by
\* the clock, loses a trade of Poloniex, counts it twice or puts it out of order.
THEOREM StoresStayTrue ==
    ASSUME Alone
    PROVE  MarketSpec /\ []Fits => []StoresTrue
<1> DEFINE Inv == MarketInv /\ MinutesInv
<1>1. MarketInit => Inv
  BY MarketStarts, MinutesStart DEF MarketInit
<1>2. Inv /\ Fits /\ [MarketNext]_marketVars => Inv'
  <2> SUFFICES ASSUME MarketInv, MinutesInv, Fits, [MarketNext]_marketVars
               PROVE  MarketInv' /\ MinutesInv'
    OBVIOUS
  <2>1. MarketInv'
    BY MarketSteps
  <2>2. HistoryInv /\ CandlesInv
    BY DEF MarketInv
  <2>3. HistoryStep
    BY StepsAre
  <2>4. CASE UNCHANGED <<lists, jobs>>
    BY <2>1, <2>2, <2>3, <2>4, MinutesKept
  <2>5. CASE \E p \in Process : UpdateBegin(p) \/ Fetch(p) \/ Save(p) \/ GivesUp(p)
    BY <2>1, <2>2, <2>5, MinutesUpdate
  <2> QED BY <2>4, <2>5, StepsAre
<1>3. Inv => StoresTrue
  BY MinutesAre, TicksTrue, DepthsAre DEF MarketInv, StoresTrue
<1> HIDE DEF Inv
<1> QED BY <1>1, <1>2, <1>3, PTL DEF MarketSpec

\* The trades of an update fit a page that is as large as the history.
LEMMA AllFit ==
    ASSUME HistoryInv, MaxTrades <= PageLimit
    PROVE  Fits
<1>1. /\ Len(trades) \in Nat /\ Len(trades) <= PageLimit /\ DOMAIN trades = 1 .. Len(trades)
      /\ PageLimit \in Nat
  BY SizeAssumption DEF HistoryInv
<1>2. IsFiniteSet(1 .. Len(trades)) /\ Cardinality(1 .. Len(trades)) = Len(trades)
  <2> DEFINE n == Len(trades)
  <2>1. n \in Nat /\ 1 \in Int
    BY <1>1
  <2> HIDE DEF n
  <2>2. IsFiniteSet(1 .. n) /\ Cardinality(1 .. n) = IF 1 > n THEN 0 ELSE (n - 1) + 1
    BY <2>1, FS_Interval
  <2>3. (n - 1) + 1 = n /\ (1 > n => n = 0)
    BY <2>1
  <2> QED BY <2>2, <2>3 DEF n
<1>3. ASSUME NEW S, S \subseteq 1 .. Len(trades) PROVE Cardinality(S) <= PageLimit
  <2>1. Cardinality(S) <= Cardinality(1 .. Len(trades)) /\ Cardinality(S) \in Nat
    BY <1>2, <1>3, FS_Subset, FS_CardinalityType
  <2> QED BY <1>1, <1>2, <2>1
<1>4. ASSUME NEW p \in Process
      PROVE  Cardinality({i \in DOMAIN trades :
                            jobs[p].since <= trades[i] /\ trades[i] <= jobs[p].end}) <= PageLimit
  <2> DEFINE S == {i \in DOMAIN trades : jobs[p].since <= trades[i] /\ trades[i] <= jobs[p].end}
  <2>1. S \subseteq 1 .. Len(trades)
    BY <1>1
  <2> HIDE DEF S
  <2>2. Cardinality(S) <= PageLimit
    BY <1>3, <2>1
  <2> QED BY <2>2 DEF S
<1> QED BY <1>4 DEF Fits

\* lib/candles/poloniex.js: the same without a condition on the updates, for histories no
\* longer than a page of the exchange.
THEOREM StoresStayTrueInOnePage ==
    ASSUME Alone, MaxTrades <= PageLimit
    PROVE  MarketSpec => []StoresTrue
<1>1. MarketInv => Fits
  BY AllFit DEF MarketInv
<1>2. MarketSpec => []Fits
  BY <1>1, MarketStarts, MarketSteps, PTL DEF MarketSpec
<1> QED BY <1>2, StoresStayTrue, PTL

-----------------------------------------------------------------------------
(* Header. *)

Started(k) == calls[k].part["status"] # "none" /\ calls[k].part["constants"] # "none"
Waits(k)   == \E p \in Part : calls[k].part[p] = "asked"

(* TypeOK and OneLiveCall are not inductive.  That loaded means data needs that a     *)
(* call begun later than the first one began on a loaded header, and that an answered *)
(* status has a block; that the header never goes back needs that the call that is    *)
(* live began when the node was as high as the data.                                  *)

Shape ==
    /\ height \in 1 .. MaxHeight /\ notice \in BOOLEAN /\ faults \in 0 .. MaxFaults
    /\ up \in BOOLEAN /\ loaded \in BOOLEAN /\ recent \in BOOLEAN /\ running \in BOOLEAN
    /\ calls \in [Call -> CallType] /\ data \in 0 .. height

\* A call is as one that never began, or has begun with both of its requests.
Begun ==
    \A k \in Call :
        /\ Waits(k) => Started(k)
        /\ Waits(k) => calls[k].asked >= 1 /\ (calls[k].first \/ loaded)

Fresh ==
    \A k \in Call : Live(k) =>
        /\ data <= calls[k].asked
        /\ calls[k].part["status"] = "ok" => calls[k].block \in calls[k].asked .. height

Down == ~up => ~running /\ ~loaded /\ data = Nothing /\ \A k \in Call : ~Waits(k)

Inv == Shape /\ (loaded <=> data # Nothing) /\ Begun /\ OneLiveCall /\ Fresh /\ Down

-----------------------------------------------------------------------------

LEMMA Parts ==
    ASSUME NEW k, NEW p \in Part
    PROVE  /\ Part = {p, Other(p)} /\ Other(p) \in Part /\ Other(p) # p
           /\ Other(Other(p)) = p
BY DEF Part, Other

LEMMA InvInit == Init => Inv
<1> SUFFICES ASSUME Init PROVE Inv
  OBVIOUS
<1>1. PICK k \in Call :
        calls = [[c \in Call |-> Free] EXCEPT
                   ![k] = [part |-> [p \in Part |-> "asked"], first |-> TRUE,
                           asked |-> 1, block |-> Nothing]]
  BY DEF Init
<1>2. Free \in CallType
  BY BoundAssumption DEF Free, CallType, Nothing
<1>3. [part |-> [p \in Part |-> "asked"], first |-> TRUE, asked |-> 1,
       block |-> Nothing] \in CallType
  BY BoundAssumption DEF CallType, Nothing
<1>4. Shape
  <2>1. calls \in [Call -> CallType]
    BY <1>1, <1>2, <1>3
  <2>2. height \in 1 .. MaxHeight /\ faults \in 0 .. MaxFaults /\ data \in 0 .. height
    BY BoundAssumption DEF Init, Nothing
  <2> QED BY <2>1, <2>2 DEF Init, Shape
<1>5. /\ calls[k].part = [p \in Part |-> "asked"]
      /\ calls[k].first = TRUE /\ calls[k].asked = 1
      /\ \A c \in Call \ {k} : calls[c] = Free
  BY <1>1
<1>6. Live(k) /\ Waits(k) /\ Started(k) /\ calls[k].part["status"] # "ok"
  BY <1>5 DEF Live, Waits, Started, Part
<1>7. \A c \in Call \ {k} : ~Live(c) /\ ~Waits(c)
  BY <1>5 DEF Live, Waits, Free
<1> QED BY <1>4, <1>5, <1>6, <1>7
        DEF Init, Inv, Begun, OneLiveCall, Fresh, Down, Nothing

\* A step that leaves the calls alone, and the data, while the chain may grow.
LEMMA InvUnchanged ==
    ASSUME Inv, UNCHANGED <<calls, running, data, loaded>>, height' \in height .. MaxHeight,
           notice' \in BOOLEAN, recent' \in BOOLEAN, UNCHANGED <<faults, up>>
    PROVE  Inv'
<1>1. Shape'
  BY DEF Inv, Shape
<1>2. \A k \in Call : (Live(k)' <=> Live(k)) /\ (Waits(k)' <=> Waits(k)) /\ (Started(k)' <=> Started(k))
  BY DEF Live, Waits, Started
<1>3. Begun' /\ OneLiveCall' /\ Down'
  BY <1>2 DEF Inv, Begun, OneLiveCall, Down
<1>4. Fresh'
  BY <1>2 DEF Inv, Shape, Fresh, CallType
<1> QED BY <1>1, <1>3, <1>4 DEF Inv

\* A call begins: none was live before, and nothing else changes.
LEMMA InvBegin ==
    ASSUME Inv, NEW k \in Call, NEW first \in BOOLEAN, Begin(k, first), ~running, up',
           first \/ loaded, UNCHANGED <<height, faults, loaded, data>>,
           notice' \in BOOLEAN, recent' \in BOOLEAN
    PROVE  Inv'
<1> DEFINE new == [part |-> [p \in Part |-> "asked"], first |-> first,
                   asked |-> height, block |-> Nothing]
<1>1. new \in CallType
  BY BoundAssumption DEF CallType, Nothing, Inv, Shape
<1>2. calls' = [calls EXCEPT ![k] = new] /\ running' = TRUE
  BY DEF Begin
<1>3. calls'[k] = new /\ \A c \in Call \ {k} : calls'[c] = calls[c]
  BY <1>2 DEF Inv, Shape
<1>4. Shape'
  BY <1>1, <1>2 DEF Inv, Shape
<1>5. \A c \in Call : ~Live(c)
  BY DEF Inv, OneLiveCall
<1>6. Live(k)' /\ Waits(k)' /\ Started(k)' /\ calls'[k].part["status"] # "ok"
  BY <1>3 DEF Live, Waits, Started, Part
<1>7. \A c \in Call \ {k} : ~Live(c)' /\ (Waits(c)' <=> Waits(c)) /\ (Started(c)' <=> Started(c))
  BY <1>3, <1>5 DEF Live, Waits, Started
<1>8. calls'[k].asked = height /\ calls'[k].first = first
  BY <1>3
<1>9. Begun'
  BY <1>3, <1>6, <1>7, <1>8 DEF Inv, Shape, Begun
<1>10. OneLiveCall'
  BY <1>2, <1>6, <1>7 DEF OneLiveCall
<1>11. Fresh'
  BY <1>6, <1>7, <1>8 DEF Fresh, Inv, Shape
<1>12. Down'
  BY DEF Down
<1> QED BY <1>4, <1>9, <1>10, <1>11, <1>12 DEF Inv

\* What a failed request leaves of the other calls.
LEMMA InvFirstFailure ==
    ASSUME Inv, NEW k \in Call, NEW p \in Part, FirstFailure(k, p)
    PROVE  Inv'
<1>1. Part = {p, Other(p)} /\ Other(p) # p
  BY Parts
<1>2. calls[k] \in CallType /\ calls \in [Call -> CallType]
  BY DEF Inv, Shape
<1> DEFINE call == [calls[k] EXCEPT !.part[p] = "failed"]
<1>3. call \in CallType
  BY <1>2 DEF CallType
<1>4. calls'[k] = call /\ \A c \in Call \ {k} : calls'[c] = calls[c]
  BY <1>2 DEF FirstFailure
<1>5. /\ call.first = calls[k].first /\ call.asked = calls[k].asked
      /\ call.part[p] = "failed" /\ call.part[Other(p)] = calls[k].part[Other(p)]
  BY <1>1, <1>2 DEF CallType
<1>6. Live(k) /\ Waits(k)
  BY <1>1 DEF FirstFailure, Live, Waits
<1>7. ~Live(k)' /\ Started(k)'
  <2>1. ~Live(k)'
    BY <1>4, <1>5 DEF Live
  <2>2. Started(k)
    BY <1>6 DEF Inv, Begun
  <2> QED BY <1>1, <1>4, <1>5, <2>1, <2>2 DEF Started, Part
<1>8. \A c \in Call \ {k} :
        /\ ~Live(c) /\ ~Live(c)' /\ (Waits(c)' <=> Waits(c)) /\ (Started(c)' <=> Started(c))
  <2>1. \A c \in Call \ {k} : ~Live(c)
    BY <1>6 DEF Inv, OneLiveCall
  <2> QED BY <1>4, <2>1 DEF Live, Waits, Started
<1>9. Shape'
  <2>1. calls' \in [Call -> CallType]
    BY <1>2, <1>3 DEF FirstFailure
  <2>2. faults' \in 0 .. MaxFaults
    BY BoundAssumption DEF FirstFailure, Inv, Shape
  <2> QED BY <2>1, <2>2 DEF FirstFailure, Inv, Shape
<1>10. Begun'
  <2>1. loaded' = loaded
    BY DEF FirstFailure
  <2>2. calls'[k].first = calls[k].first /\ calls'[k].asked = calls[k].asked
    BY <1>4, <1>5
  <2> QED BY <1>4, <1>6, <1>7, <1>8, <2>1, <2>2 DEF Inv, Begun
<1>11. OneLiveCall'
  BY <1>7, <1>8 DEF FirstFailure, OneLiveCall
<1>12. Fresh' /\ Down'
  BY <1>7, <1>8 DEF Fresh, Down, FirstFailure
<1> QED BY <1>9, <1>10, <1>11, <1>12 DEF Inv, FirstFailure

\* With the second failure the process ends, and no call is left.
LEMMA InvSecondFailure ==
    ASSUME Inv, NEW k \in Call, NEW p \in Part, SecondFailure(k, p)
    PROVE  Inv'
<1>1. Free \in CallType
  BY BoundAssumption DEF Free, CallType, Nothing
<1>2. calls' = [c \in Call |-> Free]
  BY DEF SecondFailure
<1>3. \A c \in Call : ~Live(c)' /\ ~Waits(c)'
  BY <1>2 DEF Live, Waits, Free
<1>4. Shape'
  <2>1. calls' \in [Call -> CallType]
    BY <1>1, <1>2
  <2>2. faults' \in 0 .. MaxFaults /\ data' \in 0 .. height'
    BY BoundAssumption DEF SecondFailure, Inv, Shape, Nothing
  <2> QED BY <2>1, <2>2 DEF SecondFailure, Inv, Shape
<1> QED BY <1>3, <1>4 DEF SecondFailure, Inv, Begun, OneLiveCall, Fresh, Down

\* What is known of a call that waits for the answer to p.
LEMMA Waiting ==
    ASSUME Inv, NEW k \in Call, NEW p \in Part, calls[k].part[p] = "asked"
    PROVE  /\ Waits(k) /\ calls[k] \in CallType
           /\ Live(k) <=> calls[k].part[Other(p)] \in {"asked", "ok"}
           /\ ~Live(k) <=> calls[k].part[Other(p)] = "failed"
<1>1. Part = {p, Other(p)} /\ Other(p) # p
  BY Parts
<1>2. calls[k] \in CallType
  BY DEF Inv, Shape
<1>3. calls[k].part[Other(p)] \in {"none", "asked", "ok", "failed"}
  BY <1>1, <1>2 DEF CallType
<1>4. Waits(k)
  BY DEF Waits
<1>5. calls[k].part[Other(p)] # "none"
  BY <1>1, <1>4 DEF Inv, Begun, Started, Part
<1>6. Live(k) <=> calls[k].part[Other(p)] # "failed"
  BY <1>1 DEF Live
<1> QED BY <1>2, <1>3, <1>4, <1>5, <1>6

\* An answer, and with the second one the success of the call.
LEMMA InvAnswer ==
    ASSUME Inv, NEW k \in Call, NEW p \in Part, Answer(k, p)
    PROVE  Inv' /\ (data' # Nothing => data' >= data)
<1>1. Part = {p, Other(p)} /\ Other(p) # p
  BY Parts
<1>2. calls[k].part[p] = "asked" /\ up
  BY DEF Answer
<1>3. /\ Waits(k) /\ calls[k] \in CallType
      /\ Live(k) <=> calls[k].part[Other(p)] \in {"asked", "ok"}
      /\ ~Live(k) <=> calls[k].part[Other(p)] = "failed"
  BY <1>2, Waiting
<1>4. PICK block \in calls[k].asked .. height :
        LET call == [calls[k] EXCEPT !.part[p] = "ok",
                       !.block = IF p = "status" THEN block ELSE @]
            done == \A q \in Part : call.part[q] = "ok"
        IN  /\ calls' = [calls EXCEPT ![k] = call]
            /\ running' = (running /\ ~done)
            /\ data' = IF done THEN call.block ELSE data
            /\ loaded' = (loaded \/ (done /\ call.first))
  BY DEF Answer
<1> DEFINE call == [calls[k] EXCEPT !.part[p] = "ok",
                      !.block = IF p = "status" THEN block ELSE @]
           done == \A q \in Part : call.part[q] = "ok"
<1>5. /\ call.first = calls[k].first /\ call.asked = calls[k].asked
      /\ call.part[p] = "ok" /\ call.part[Other(p)] = calls[k].part[Other(p)]
      /\ call.block = IF p = "status" THEN block ELSE calls[k].block
  BY <1>1, <1>3 DEF CallType
<1>6. done <=> calls[k].part[Other(p)] = "ok"
  BY <1>1, <1>5
<1>7. /\ calls[k].asked \in Nat /\ calls[k].asked >= 1
      /\ block \in 1 .. height /\ height \in 1 .. MaxHeight /\ data \in 0 .. height
      /\ calls[k].first \/ loaded
  BY <1>3, <1>4 DEF Inv, Shape, Begun, CallType
<1>8. call \in CallType /\ calls \in [Call -> CallType]
  <2>1. call.block \in 0 .. MaxHeight
    BY <1>3, <1>5, <1>7, BoundAssumption DEF CallType
  <2>2. [calls[k].part EXCEPT ![p] = "ok"] \in [Part -> {"none", "asked", "ok", "failed"}]
    BY <1>3 DEF CallType
  <2>3. call \in CallType
    BY <1>3, <1>5, <2>1, <2>2 DEF CallType
  <2> QED BY <2>3 DEF Inv, Shape
<1> HIDE DEF call, done
<1>9. /\ calls' = [calls EXCEPT ![k] = call] /\ running' = (running /\ ~done)
      /\ data' = IF done THEN call.block ELSE data
      /\ loaded' = (loaded \/ (done /\ call.first))
  BY <1>4 DEF call, done
<1>10. calls'[k] = call /\ \A c \in Call \ {k} : calls'[c] = calls[c]
  BY <1>8, <1>9
<1>11. \A c \in Call \ {k} :
         (Live(c)' <=> Live(c)) /\ (Waits(c)' <=> Waits(c)) /\ (Started(c)' <=> Started(c))
  BY <1>10 DEF Live, Waits, Started
<1>12. Started(k)' /\ (Live(k)' <=> calls[k].part[Other(p)] = "asked")
  BY <1>1, <1>3, <1>5, <1>10 DEF Live, Started, Part
<1>13. Live(k) => /\ data <= calls[k].asked
                  /\ calls[k].part["status"] = "ok" => calls[k].block \in calls[k].asked .. height
  BY DEF Inv, Fresh
<1>14. Live(k) /\ call.part["status"] = "ok" => call.block \in calls[k].asked .. height
  BY <1>1, <1>4, <1>5, <1>7, <1>13 DEF Part
<1>15. done => Live(k) /\ call.block \in calls[k].asked .. height /\ call.block >= data
  <2>1. done => Live(k) /\ call.part["status"] = "ok"
    BY <1>1, <1>3, <1>6 DEF done, Part
  <2> QED BY <1>7, <1>13, <1>14, <2>1
<1>16. data' >= data /\ data' \in 0 .. height
  BY <1>7, <1>9, <1>15
<1>17. UNCHANGED <<height, notice, faults, up, recent>>
  BY DEF Answer, node
<1>18. Shape'
  <2>1. calls' \in [Call -> CallType]
    BY <1>8, <1>9
  <2>2. running' \in BOOLEAN /\ loaded' \in BOOLEAN
    BY <1>9
  <2> QED BY <1>16, <1>17, <2>1, <2>2 DEF Inv, Shape
<1>19. loaded' <=> data' # Nothing
  <2>1. loaded <=> data # Nothing
    BY DEF Inv
  <2>2. CASE done
    <3>1. loaded'
      BY <1>5, <1>7, <1>9, <2>2
    <3>2. data' # Nothing
      BY <1>7, <1>9, <1>15, <2>2 DEF Nothing
    <3> QED BY <3>1, <3>2
  <2>3. CASE ~done
    BY <1>9, <2>1, <2>3
  <2> QED BY <2>2, <2>3
<1>20. Begun'
  BY <1>5, <1>7, <1>9, <1>10, <1>11, <1>12 DEF Inv, Begun
<1>21. OneLiveCall'
  <2>1. running <=> \E c \in Call : Live(c)
    BY DEF Inv, OneLiveCall
  <2>2. \A c, l \in Call : Live(c) /\ Live(l) => c = l
    BY DEF Inv, OneLiveCall
  <2>3. Live(k)' <=> Live(k) /\ ~done
    BY <1>3, <1>6, <1>12
  <2>4. running' <=> \E c \in Call : Live(c)'
    BY <1>9, <1>11, <1>15, <2>1, <2>2, <2>3
  <2>5. \A c, l \in Call : Live(c)' /\ Live(l)' => c = l
    BY <1>11, <2>2, <2>3
  <2> QED BY <2>4, <2>5 DEF OneLiveCall
<1>22. Fresh'
  <2>1. Live(k)' => Live(k) /\ ~done
    BY <1>3, <1>6, <1>12
  <2>2. \A c \in Call \ {k} : Live(c)' => data' = data
    BY <1>9, <1>11, <1>15 DEF Inv, OneLiveCall
  <2>3. ASSUME NEW c \in Call, Live(c)'
        PROVE  /\ data' <= calls'[c].asked
               /\ calls'[c].part["status"] = "ok" => calls'[c].block \in calls'[c].asked .. height'
    <3>1. CASE c = k
      BY <1>5, <1>9, <1>10, <1>13, <1>14, <1>17, <2>1, <2>3, <3>1
    <3>2. CASE c # k
      BY <1>10, <1>11, <1>17, <2>2, <2>3, <3>2 DEF Inv, Fresh
    <3> QED BY <3>1, <3>2
  <2> QED BY <2>3 DEF Fresh
<1>23. Down'
  BY <1>2, <1>17 DEF Down
<1> QED BY <1>16, <1>18, <1>19, <1>20, <1>21, <1>22, <1>23 DEF Inv

\* What HeaderNeverGoesBack asks of a step.
Kept == data' # Nothing => data' >= data

LEMMA InvStep == Inv /\ [Next]_vars => Inv' /\ Kept
<1> SUFFICES ASSUME Inv, [Next]_vars PROVE Inv' /\ Kept
  OBVIOUS
<1>1. (data' = data => Kept) /\ (data' = Nothing => Kept)
  BY DEF Kept, Inv, Shape
<1>2. /\ notice \in BOOLEAN /\ recent \in BOOLEAN
      /\ height \in height .. MaxHeight
  BY DEF Inv, Shape
<1>3. CASE NewBlock
  <2>1. notice' \in BOOLEAN /\ recent' \in BOOLEAN
    BY <1>2, <1>3 DEF NewBlock
  <2>2. height' \in height .. MaxHeight
    BY <1>2, <1>3, BoundAssumption DEF NewBlock, Inv, Shape
  <2>3. UNCHANGED <<calls, running, data, loaded, faults, up>>
    BY <1>3 DEF NewBlock
  <2>4. Inv'
    BY <2>1, <2>2, <2>3, InvUnchanged
  <2> QED BY <1>1, <2>3, <2>4
<1>4. CASE BlocksChange \/ Tick
  <2>1. /\ up /\ up' /\ notice' \in BOOLEAN /\ recent' \in BOOLEAN
        /\ UNCHANGED <<height, faults, up, loaded, data>>
    <3>1. up /\ UNCHANGED <<height, faults, up, loaded, data>>
      BY <1>4 DEF BlocksChange, Tick, node
    <3>2. notice' = notice \/ notice' = FALSE
      BY <1>4 DEF BlocksChange, Tick, node
    <3>3. recent' = recent \/ recent' = TRUE
      BY <1>4 DEF BlocksChange, Tick, node
    <3> QED BY <1>2, <3>1, <3>2, <3>3
  <2>2. CASE UNCHANGED <<running, calls>>
    <3>1. height' \in height .. MaxHeight
      BY <1>2, <2>1
    <3>2. Inv'
      BY <2>1, <2>2, <3>1, InvUnchanged
    <3> QED BY <1>1, <2>1, <3>2
  <2>3. ASSUME NEW k \in Call, Begin(k, FALSE), ~running, loaded PROVE Inv' /\ Kept
    <3>1. Inv'
      BY <2>1, <2>3, InvBegin
    <3> QED BY <1>1, <2>1, <3>1
  <2>4. \/ UNCHANGED <<running, calls>>
        \/ \E k \in Call : Begin(k, FALSE) /\ ~running /\ loaded
    BY <1>4 DEF BlocksChange, Tick, EmitData
  <2> QED BY <2>2, <2>3, <2>4
<1>5. CASE Elapse \/ UNCHANGED vars
  <2>1. /\ notice' \in BOOLEAN /\ recent' \in BOOLEAN /\ height' = height
        /\ UNCHANGED <<calls, running, data, loaded, faults, up>>
    BY <1>2, <1>5 DEF Elapse, node, vars
  <2>2. height' \in height .. MaxHeight
    BY <1>2, <2>1
  <2>3. Inv'
    BY <2>1, <2>2, InvUnchanged
  <2> QED BY <1>1, <2>1, <2>3
<1>6. CASE Restart
  <2>1. ~running
    BY <1>6 DEF Restart, Inv, Down
  <2>2. /\ notice' \in BOOLEAN /\ recent' \in BOOLEAN /\ up'
        /\ UNCHANGED <<height, faults, loaded, data>>
    BY <1>2, <1>6 DEF Restart, node
  <2>3. PICK k \in Call : Begin(k, TRUE)
    BY <1>6 DEF Restart
  <2>4. Inv'
    BY <2>1, <2>2, <2>3, InvBegin
  <2> QED BY <1>1, <2>2, <2>4
<1>7. ASSUME NEW k \in Call, NEW p \in Part, Answer(k, p) PROVE Inv' /\ Kept
  BY <1>7, InvAnswer DEF Kept
<1>8. ASSUME NEW k \in Call, NEW p \in Part, FirstFailure(k, p) PROVE Inv' /\ Kept
  <2>1. data' = data
    BY <1>8 DEF FirstFailure
  <2> QED BY <1>1, <1>8, <2>1, InvFirstFailure
<1>9. ASSUME NEW k \in Call, NEW p \in Part, SecondFailure(k, p) PROVE Inv' /\ Kept
  <2>1. data' = Nothing
    BY <1>9 DEF SecondFailure
  <2> QED BY <1>1, <1>9, <2>1, InvSecondFailure
<1> QED BY <1>3, <1>4, <1>5, <1>6, <1>7, <1>8, <1>9 DEF Next

-----------------------------------------------------------------------------

\* The inductive invariant holds in every reachable state.
THEOREM InvCorrect == Spec => []Inv
<1>1. Inv /\ [Next]_vars => Inv'
  BY InvStep
<1> QED BY <1>1, InvInit, PTL DEF Spec

\* The state keeps its types, and the header has data exactly when it has its
\* subscription and its timer.
THEOREM TypeCorrect == Spec => []TypeOK
<1>1. Inv => TypeOK
  BY BoundAssumption DEF Inv, Shape, TypeOK
<1> QED BY <1>1, InvCorrect, PTL

\* One call at most is live, and the flag says whether one is, however many failed
\* calls still wait for their other request.
THEOREM OneLiveCallCorrect == Spec => []OneLiveCall
<1>1. Inv => OneLiveCall
  BY DEF Inv
<1> QED BY <1>1, InvCorrect, PTL

\* The header never shows an older block than before.
THEOREM HeaderNeverGoesBackCorrect == Spec => HeaderNeverGoesBack
<1>1. Inv /\ [Next]_vars => [data' # Nothing => data' >= data]_vars
  BY InvStep DEF Kept
<1> QED BY <1>1, InvCorrect, PTL DEF Spec, HeaderNeverGoesBack
==============================================================================
