------------------------ MODULE KnownAddressesProofs ------------------------
(* Proofs about KnownAddresses: its types, and that no registration up to the *)
(* newest one seen is left without a name but those whose name Redis refused, *)
(* for any delegates, pages, checks and restarts, as long as the node         *)
(* confirms in the order of the timestamps.                                   *)
EXTENDS KnownAddresses, FiniteSetTheorems, SequenceTheorems, TLAPS

CheckType ==
    [active : BOOLEAN, from : 0 .. MaxStamp + 1, offset : Nat, acc : Seq(Registration)]

\* TypeOK, and the domain of checks.
Types == TypeOK /\ checks \in [Check -> CheckType]

Newest == \A i, j \in DOMAIN chain : i < j => chain[i].stamp > chain[j].stamp

\* A timestamp that has been seen is on the chain, so what is confirmed later is newer.
Seen ==
    /\ latest = -1 \/ \E i \in DOMAIN chain : chain[i].stamp = latest
    /\ \A c \in Check : checks[c].active =>
         /\ checks[c].from = 0 \/ \E i \in DOMAIN chain : chain[i].stamp = checks[c].from - 1
         /\ \A k \in DOMAIN checks[c].acc : \E i \in DOMAIN chain : checks[c].acc[k] = chain[i]

\* No check runs before load.
Quiet == phase # "ready" => latest = -1 /\ \A c \in Check : ~checks[c].active

\* Whatever was there before a check began has its name, or its name was refused.
Before ==
    \A c \in Check : checks[c].active =>
      \A i \in DOMAIN chain : chain[i].stamp < checks[c].from =>
        store[chain[i].delegate] # None \/ chain[i].delegate \in unwritten

\* A check has collected all that is now behind its offset, except for what was confirmed
\* after its first page, which is newer than the newest it has.
Collected ==
    \A c \in Check : checks[c].active /\ checks[c].acc # <<>> =>
      \A i \in DOMAIN chain :
        /\ i <= checks[c].offset /\ chain[i].stamp >= checks[c].from
        /\ chain[i].stamp <= checks[c].acc[1].stamp
        => \E k \in DOMAIN checks[c].acc : checks[c].acc[k] = chain[i]

\* NothingSkipped is not inductive: it says nothing of the checks under way.
Inv == Types /\ Newest /\ Seen /\ Quiet /\ NothingSkipped /\ Before /\ Collected

-----------------------------------------------------------------------------
(* Lemmas about the pages. *)

\* What the constants are.
LEMMA Constants ==
    /\ PageLimit \in Nat \ {0} /\ MaxStamp \in Nat /\ MaxFaults \in Nat
    /\ IsFiniteSet(Delegate) /\ Known \subseteq Delegate
BY KnownAssumption

\* The registrations since a timestamp are some of the chain.
LEMMA SinceBounds ==
    ASSUME chain \in Seq(Registration), NEW stamp \in Int
    PROVE  Since(stamp) \in 0 .. Len(chain)
<1> DEFINE S == {i \in DOMAIN chain : chain[i].stamp >= stamp}
<1>1. Len(chain) \in Nat /\ DOMAIN chain = 1 .. Len(chain)
  BY LenProperties
<1>2. IsFiniteSet(1 .. Len(chain)) /\ Cardinality(1 .. Len(chain)) = Len(chain)
  BY <1>1, FS_Interval
<1>3. S \in SUBSET (1 .. Len(chain))
  BY <1>1
<1>4. IsFiniteSet(S) /\ Cardinality(S) <= Len(chain)
  BY <1>2, <1>3, FS_Subset
<1>5. Cardinality(S) \in Nat
  BY <1>4, FS_CardinalityType
<1> QED BY <1>1, <1>4, <1>5 DEF Since

\* When the newest are first, the registrations since a timestamp are the first ones.
LEMMA SinceFirst ==
    ASSUME chain \in Seq(Registration), Newest, NEW stamp \in Int, NEW i \in DOMAIN chain
    PROVE  i <= Since(stamp) <=> chain[i].stamp >= stamp
<1> DEFINE S == {j \in DOMAIN chain : chain[j].stamp >= stamp}
<1>1. /\ Len(chain) \in Nat /\ DOMAIN chain = 1 .. Len(chain)
      /\ \A j \in DOMAIN chain : chain[j].stamp \in Nat
  <2>1. Len(chain) \in Nat /\ DOMAIN chain = 1 .. Len(chain)
    BY LenProperties
  <2>2. \A j \in DOMAIN chain : chain[j] \in Registration
    BY <2>1, ElementOfSeq
  <2> QED BY <2>1, <2>2, Constants DEF Registration
<1>2. IsFiniteSet(S) /\ Cardinality(S) \in Nat /\ Since(stamp) = Cardinality(S)
  <2>1. S \in SUBSET (1 .. Len(chain))
    BY <1>1
  <2>2. IsFiniteSet(1 .. Len(chain))
    BY <1>1, FS_Interval
  <2>3. IsFiniteSet(S)
    BY <2>1, <2>2, FS_Subset
  <2> QED BY <2>3, FS_CardinalityType DEF Since
<1>3. CASE chain[i].stamp >= stamp
  <2>1. 1 .. i \in SUBSET S
    BY <1>1, <1>3 DEF Newest
  <2>2. Cardinality(1 .. i) <= Cardinality(S)
    BY <1>2, <2>1, FS_Subset
  <2> QED BY <1>1, <1>2, <1>3, <2>2, FS_Interval
<1>4. CASE ~ (chain[i].stamp >= stamp)
  <2>1. S \in SUBSET (1 .. i - 1)
    BY <1>1, <1>4 DEF Newest
  <2>2. IsFiniteSet(1 .. i - 1) /\ Cardinality(1 .. i - 1) = i - 1
    <3>1. PICK n \in Nat : n = i - 1
      BY <1>1
    <3>2. IsFiniteSet(1 .. n) /\ Cardinality(1 .. n) = n
      BY FS_Interval
    <3> QED BY <3>1, <3>2
  <2>3. Cardinality(S) <= i - 1
    BY <2>1, <2>2, FS_Subset
  <2> QED BY <1>1, <1>2, <1>4, <2>3
<1> QED BY <1>3, <1>4

\* What is on a page.
LEMMA PageFacts ==
    ASSUME chain \in Seq(Registration), NEW from \in Nat, NEW offset \in Nat
    PROVE  /\ PageOf(from, offset) \in Seq(Registration)
           /\ Len(PageOf(from, offset)) \in 0 .. PageLimit
           /\ Len(PageOf(from, offset)) < PageLimit => offset + Len(PageOf(from, offset)) >= Since(from)
           /\ \A k \in 1 .. Len(PageOf(from, offset)) :
                /\ offset + k \in DOMAIN chain
                /\ PageOf(from, offset)[k] = chain[offset + k]
<1> DEFINE last == IF offset + PageLimit < Since(from) THEN offset + PageLimit ELSE Since(from)
           page == SubSeq(chain, offset + 1, last)
<1>1. /\ Len(chain) \in Nat /\ DOMAIN chain = 1 .. Len(chain)
      /\ Since(from) \in 0 .. Len(chain) /\ PageLimit \in Nat \ {0}
  BY LenProperties, SinceBounds, Constants
<1>2. last \in 0 .. Len(chain)
  BY <1>1
<1>3. \A k \in offset + 1 .. last : chain[k] \in Registration
  BY <1>1, <1>2, ElementOfSeq
<1>4. /\ page \in Seq(Registration)
      /\ Len(page) = IF offset + 1 <= last THEN last - offset ELSE 0
      /\ \A k \in 1 .. last - offset : page[k] = chain[offset + k]
  <2> HIDE DEF last
  <2>1. last \in Int /\ offset + 1 \in Int /\ last - (offset + 1) + 1 = last - offset
    BY <1>2
  <2>2. \A k \in 1 .. last - offset : offset + 1 + k - 1 = offset + k
    BY <2>1
  <2>3. \A k \in 1 .. last - offset : page[k] = chain[offset + 1 + k - 1]
    <3>1. \A k \in 1 .. last - (offset + 1) + 1 : page[k] = chain[offset + 1 + k - 1]
      BY <1>3, <2>1, SubSeqProperties
    <3> QED BY <2>1, <3>1
  <2>4. /\ page \in Seq(Registration)
        /\ Len(page) = IF offset + 1 <= last THEN last - (offset + 1) + 1 ELSE 0
    BY <1>3, <2>1, SubSeqProperties
  <2> QED BY <2>1, <2>2, <2>3, <2>4
<1>5. PageOf(from, offset) = page
  BY DEF PageOf
<1> HIDE DEF page
<1>6. Len(page) \in 0 .. PageLimit
  BY <1>1, <1>4
<1>7. Len(page) < PageLimit => offset + Len(page) >= Since(from)
  BY <1>1, <1>4
<1>8. \A k \in 1 .. Len(page) : offset + k \in DOMAIN chain /\ page[k] = chain[offset + k]
  BY <1>1, <1>2, <1>4
<1> QED BY <1>4, <1>5, <1>6, <1>7, <1>8

-----------------------------------------------------------------------------
(* Type correctness. *)

LEMMA TypesInit == Init => Types
<1> SUFFICES ASSUME Init PROVE Types
  OBVIOUS
<1>1. chain \in Seq(Registration)
  BY EmptySeq DEF Init
<1>2. IdleCheck \in CheckType /\ Len(IdleCheck.acc) = IdleCheck.offset
  BY Constants, EmptySeq DEF IdleCheck, CheckType
<1>3. /\ IdleCheck.active \in BOOLEAN /\ IdleCheck.from \in 0 .. MaxStamp + 1
      /\ IdleCheck.acc \in Seq(Registration)
  BY <1>2 DEF CheckType
<1>4. checks \in [Check -> CheckType] /\ \A c \in Check : checks[c] = IdleCheck
  BY <1>2 DEF Init
<1>5. latest \in -1 .. MaxStamp /\ faults \in 0 .. MaxFaults
  BY Constants DEF Init
<1>6. store \in [Delegate -> {None, Username, Label}]
  BY DEF Init
<1> QED BY <1>1, <1>2, <1>3, <1>4, <1>5, <1>6 DEF Init, Types, TypeOK

\* A check that begins, or ends.
LEMMA TypesChecks ==
    ASSUME Types, NEW c \in Check, NEW call \in CheckType, Len(call.acc) = call.offset,
           checks' = [checks EXCEPT ![c] = call], UNCHANGED chain, faults' \in 0 .. MaxFaults,
           store' \in [Delegate -> {None, Username, Label}], unwritten' \subseteq Delegate,
           phase' \in {"loading", "ready", "failed"}, list' \in BOOLEAN,
           latest' \in -1 .. MaxStamp
    PROVE  Types'
<1>1. checks' \in [Check -> CheckType]
  BY DEF Types
<1>2. \A k \in Check : Len(checks'[k].acc) = checks'[k].offset
  BY DEF Types, TypeOK
<1> QED BY <1>1, <1>2 DEF Types, TypeOK, CheckType

\* The check that Begin begins.
NewCheck == [IdleCheck EXCEPT !.active = TRUE, !.from = latest + 1]

LEMMA IdleFacts ==
    /\ IdleCheck \in CheckType /\ ~IdleCheck.active
    /\ Len(IdleCheck.acc) = IdleCheck.offset
BY Constants, EmptySeq DEF IdleCheck, CheckType

LEMMA NewCheckFacts ==
    ASSUME Types
    PROVE  /\ NewCheck \in CheckType /\ NewCheck.active /\ NewCheck.from = latest + 1
           /\ NewCheck.acc = <<>> /\ NewCheck.offset = 0 /\ Len(NewCheck.acc) = 0
<1>1. latest + 1 \in 0 .. MaxStamp + 1
  BY Constants DEF Types, TypeOK
<1>2. IdleCheck.acc = <<>> /\ IdleCheck.offset = 0
  BY DEF IdleCheck
<1>3. IdleCheck \in CheckType
  BY IdleFacts
<1>4. /\ NewCheck \in CheckType /\ NewCheck.active /\ NewCheck.from = latest + 1
      /\ NewCheck.acc = IdleCheck.acc /\ NewCheck.offset = IdleCheck.offset
  BY <1>1, <1>3 DEF NewCheck, CheckType
<1> QED BY <1>2, <1>4

\* What is confirmed is put somewhere into the chain.
LEMMA ConfirmType ==
    ASSUME Types, NEW d \in Delegate, NEW stamp \in 0 .. MaxStamp, Confirm(d, stamp)
    PROVE  chain' \in Seq(Registration)
<1> DEFINE r == [delegate |-> d, stamp |-> stamp]
           n == Since(stamp + 1)
           before == SubSeq(chain, 1, n)
           after == SubSeq(chain, n + 1, Len(chain))
<1>1. chain \in Seq(Registration) /\ Len(chain) \in Nat /\ DOMAIN chain = 1 .. Len(chain)
  BY LenProperties DEF Types, TypeOK
<1>2. n \in 0 .. Len(chain)
  <2>1. PICK next \in Int : next = stamp + 1
    BY Constants
  <2>2. Since(next) \in 0 .. Len(chain)
    BY <1>1, <2>1, SinceBounds
  <2> QED BY <2>1, <2>2
<1>3. \A k \in 1 .. Len(chain) : chain[k] \in Registration
  BY <1>1, ElementOfSeq
<1>4. before \in Seq(Registration) /\ after \in Seq(Registration)
  <2> HIDE DEF n
  <2> QED BY <1>1, <1>2, <1>3, SubSeqProperties
<1>5. r \in Registration
  BY DEF Registration
<1> HIDE DEF before, after, r
<1>6. before \o <<r>> \o after \in Seq(Registration)
  BY <1>4, <1>5
<1> QED BY <1>6 DEF Confirm, before, after, r

\* What a registration of the chain is.
LEMMA ChainFacts ==
    ASSUME Types
    PROVE  /\ DOMAIN chain = 1 .. Len(chain) /\ Len(chain) \in Nat
           /\ \A i \in DOMAIN chain : /\ chain[i].stamp \in 0 .. MaxStamp
                                     /\ chain[i].stamp \in Nat
                                     /\ chain[i].delegate \in Delegate
<1>1. chain \in Seq(Registration) /\ Len(chain) \in Nat /\ DOMAIN chain = 1 .. Len(chain)
  BY LenProperties DEF Types, TypeOK
<1>2. \A i \in DOMAIN chain : chain[i] \in Registration
  BY <1>1, ElementOfSeq
<1> QED BY <1>1, <1>2, Constants DEF Registration

\* A page is added to what a check has, or ends it.
LEMMA PageType ==
    ASSUME Types, NEW c \in Check
    PROVE  LET page == PageOf(checks[c].from, checks[c].offset)
               all  == checks[c].acc \o page
           IN  /\ checks[c] \in CheckType /\ checks[c].acc \in Seq(Registration)
               /\ checks[c].offset = Len(checks[c].acc)
               /\ page \in Seq(Registration) /\ all \in Seq(Registration)
               /\ Len(all) = checks[c].offset + Len(page)
               /\ \A k \in 1 .. checks[c].offset : all[k] = checks[c].acc[k]
               /\ \A k \in 1 .. Len(page) : all[checks[c].offset + k] = page[k]
<1> DEFINE page == PageOf(checks[c].from, checks[c].offset)
<1>1. /\ checks[c] \in CheckType /\ checks[c].acc \in Seq(Registration)
      /\ checks[c].offset = Len(checks[c].acc) /\ checks[c].offset \in Nat
      /\ checks[c].from \in Nat /\ chain \in Seq(Registration)
  BY Constants DEF Types, TypeOK, CheckType
<1>2. page \in Seq(Registration) /\ Len(page) \in Nat
  BY <1>1, PageFacts, LenProperties
<1> HIDE DEF page
<1>3. /\ checks[c].acc \o page \in Seq(Registration)
      /\ Len(checks[c].acc \o page) = Len(checks[c].acc) + Len(page)
      /\ \A k \in 1 .. Len(checks[c].acc) + Len(page) :
           (checks[c].acc \o page)[k] = IF k <= Len(checks[c].acc) THEN checks[c].acc[k]
                                        ELSE page[k - Len(checks[c].acc)]
  BY <1>1, <1>2, ConcatProperties
<1> DEFINE all == checks[c].acc \o page
<1> HIDE DEF all
<1>4. \A k \in 1 .. checks[c].offset : all[k] = checks[c].acc[k]
  BY <1>1, <1>2, <1>3 DEF all
<1>5. \A k \in 1 .. Len(page) : all[checks[c].offset + k] = page[k]
  <2> SUFFICES ASSUME NEW k \in 1 .. Len(page)
               PROVE  all[checks[c].offset + k] = page[k]
    OBVIOUS
  <2>1. PICK j \in Nat : j = checks[c].offset + k
    BY <1>1, <1>2
  <2>2. /\ j \in 1 .. Len(checks[c].acc) + Len(page) /\ ~ (j <= Len(checks[c].acc))
        /\ j - Len(checks[c].acc) = k
    BY <1>1, <1>2, <2>1
  <2>3. all[j] = page[j - Len(checks[c].acc)]
    BY <1>3, <2>2 DEF all
  <2> QED BY <2>1, <2>2, <2>3
<1>6. all \in Seq(Registration) /\ Len(all) = checks[c].offset + Len(page)
  BY <1>1, <1>3 DEF all
<1> QED BY <1>1, <1>2, <1>4, <1>5, <1>6 DEF page, all

\* One more fault, or none, is within the bound.
LEMMA FaultType == ASSUME Types, Fault PROVE faults' \in 0 .. MaxFaults
BY Constants DEF Fault, Types, TypeOK

LEMMA RefusesType ==
    ASSUME Types, NEW refused, Refuses(refused) PROVE faults' \in 0 .. MaxFaults
BY FaultType DEF Refuses, Types, TypeOK

\* What Learn does to the names and to the newest timestamp.
LEMMA LearnFacts ==
    ASSUME Types, NEW all \in Seq(Registration), Learn(all)
    PROVE  /\ latest' \in -1 .. MaxStamp
           /\ latest' = latest \/ (all # <<>> /\ latest' = all[1].stamp)
           /\ store' \in [Delegate -> {None, Username, Label}] /\ unwritten' \subseteq Delegate
           /\ faults' \in 0 .. MaxFaults
           /\ \A d \in Delegate : store[d] # None \/ d \in unwritten => store'[d] # None \/ d \in unwritten'
           /\ \A k \in DOMAIN all : store'[all[k].delegate] # None \/ all[k].delegate \in unwritten'
<1>1. all # <<>> => Head(all) = all[1] /\ Head(all) \in Registration
  BY HeadTailProperties
<1>2. latest' = latest \/ (all # <<>> /\ latest' = all[1].stamp)
  BY <1>1 DEF Learn
<1>3. latest' \in -1 .. MaxStamp
  BY <1>1, <1>2, Constants DEF Registration, Types, TypeOK
<1>4. \A k \in DOMAIN all : all[k].delegate \in Delegate
  <2>1. DOMAIN all = 1 .. Len(all)
    BY LenProperties
  <2>2. \A k \in 1 .. Len(all) : all[k] \in Registration
    BY ElementOfSeq
  <2> QED BY <2>1, <2>2 DEF Registration
<1>5. PICK refused \in SUBSET Delegates(all) :
        /\ Refuses(refused)
        /\ store' = [d \in Delegate |->
                       IF d \in Delegates(all) \ refused THEN Username ELSE store[d]]
        /\ unwritten' = (unwritten \ Delegates(all)) \cup refused
  BY DEF Learn
<1>6. Delegates(all) \subseteq Delegate /\ \A k \in DOMAIN all : all[k].delegate \in Delegates(all)
  BY <1>4 DEF Delegates
<1>7. store' \in [Delegate -> {None, Username, Label}] /\ unwritten' \subseteq Delegate
  BY <1>5, <1>6 DEF Types, TypeOK
<1>8. faults' \in 0 .. MaxFaults
  BY <1>5, RefusesType
<1>9. Username # None
  BY DEF Username, None
<1>10. \A d \in Delegate : store[d] # None \/ d \in unwritten
                          => store'[d] # None \/ d \in unwritten'
  BY <1>5, <1>9
<1>11. \A d \in Delegates(all) : store'[d] # None \/ d \in unwritten'
  BY <1>5, <1>6, <1>9
<1> QED BY <1>2, <1>3, <1>6, <1>7, <1>8, <1>10, <1>11

LEMMA TypesPage ==
    ASSUME Types, NEW c \in Check, PageArrives(c)
    PROVE  Types'
<1> DEFINE page == PageOf(checks[c].from, checks[c].offset)
           all  == checks[c].acc \o page
<1>1. /\ checks[c] \in CheckType /\ checks[c].offset = Len(checks[c].acc)
      /\ page \in Seq(Registration) /\ all \in Seq(Registration)
      /\ Len(all) = checks[c].offset + Len(page)
  BY PageType
<1>2. Len(page) \in 0 .. PageLimit
  <2>1. checks[c].from \in Nat /\ checks[c].offset \in Nat /\ chain \in Seq(Registration)
    BY <1>1, Constants DEF Types, TypeOK, CheckType
  <2> QED BY <2>1, PageFacts
<1>3. UNCHANGED <<chain, phase, list>>
  BY DEF PageArrives
<1> HIDE DEF page, all
<1>4. CASE Len(page) < PageLimit
  <2>1. Learn(all) /\ checks' = [checks EXCEPT ![c] = IdleCheck]
    BY <1>4 DEF PageArrives, page, all
  <2>2. /\ latest' \in -1 .. MaxStamp /\ store' \in [Delegate -> {None, Username, Label}]
        /\ unwritten' \subseteq Delegate /\ faults' \in 0 .. MaxFaults
    BY <1>1, <2>1, LearnFacts
  <2> QED BY <1>3, <2>1, <2>2, IdleFacts, TypesChecks DEF Types, TypeOK
<1>5. CASE ~ (Len(page) < PageLimit)
  <2> DEFINE call == [checks[c] EXCEPT !.acc = all, !.offset = @ + PageLimit]
  <2>1. checks' = [checks EXCEPT ![c] = call]
    BY <1>5 DEF PageArrives, page, all, Types
  <2>2. call \in CheckType /\ call.acc = all /\ call.offset = checks[c].offset + PageLimit
    <3>1. checks[c].offset + PageLimit \in Nat
      BY <1>1, Constants DEF CheckType
    <3> QED BY <1>1, <3>1 DEF CheckType
  <2>3. Len(call.acc) = call.offset
    <3>1. Len(page) = PageLimit
      BY <1>2, <1>5, Constants
    <3> QED BY <1>1, <2>2, <3>1
  <2>4. UNCHANGED <<latest, store, unwritten, faults>>
    BY <1>5 DEF PageArrives, page
  <2> HIDE DEF call
  <2> QED BY <1>3, <2>1, <2>2, <2>3, <2>4, TypesChecks DEF Types, TypeOK
<1> QED BY <1>4, <1>5

LEMMA TypesBegin ==
    ASSUME Types, NEW c \in Check, Begin(c), UNCHANGED <<chain, unwritten, latest>>,
           faults' \in 0 .. MaxFaults,
           store' \in [Delegate -> {None, Username, Label}],
           phase' \in {"loading", "ready", "failed"}, list' \in BOOLEAN
    PROVE  Types'
<1>1. checks' = [checks EXCEPT ![c] = NewCheck]
  BY DEF Begin, NewCheck
<1> QED BY <1>1, NewCheckFacts, TypesChecks DEF Types, TypeOK

LEMMA TypesStep == Types /\ [Next]_vars => Types'
<1> SUFFICES ASSUME Types, [Next]_vars PROVE Types'
  OBVIOUS
<1>1. CASE Load
  <2>1. PICK c \in Check : Begin(c)
    BY <1>1 DEF Load
  <2>2. faults' \in 0 .. MaxFaults /\ store' \in [Delegate -> {None, Username, Label}]
    BY <1>1, RefusesType DEF Load, Types, TypeOK
  <2> QED BY <1>1, <2>1, <2>2, TypesBegin DEF Load
<1>2. CASE LoadFails
  <2>1. faults' \in 0 .. MaxFaults
    BY <1>2, FaultType DEF LoadFails
  <2> QED BY <1>2, <2>1 DEF LoadFails, Types, TypeOK
<1>3. CASE ListArrives
  <2>1. store' \in [Delegate -> {None, Username, Label}]
    BY <1>3 DEF ListArrives, Types, TypeOK
  <2>2. faults' \in 0 .. MaxFaults
    BY <1>3, RefusesType DEF ListArrives
  <2> QED BY <1>3, <2>1, <2>2 DEF ListArrives, Types, TypeOK
<1>4. CASE Restart
  <2>1. faults' \in 0 .. MaxFaults
    BY <1>4, FaultType DEF Restart
  <2>2. checks' \in [Check -> CheckType] /\ \A c \in Check : checks'[c] = IdleCheck
    BY <1>4, IdleFacts DEF Restart
  <2>3. latest' \in -1 .. MaxStamp
    BY <1>4, Constants DEF Restart
  <2>4. \A c \in Check : /\ checks'[c].active \in BOOLEAN /\ checks'[c].from \in 0 .. MaxStamp + 1
                         /\ checks'[c].acc \in Seq(Registration)
                         /\ Len(checks'[c].acc) = checks'[c].offset
    BY <2>2, IdleFacts DEF CheckType
  <2> QED BY <1>4, <2>1, <2>2, <2>3, <2>4 DEF Restart, Types, TypeOK
<1>5. ASSUME NEW d \in Delegate, NEW stamp \in 0 .. MaxStamp, Confirm(d, stamp) PROVE Types'
  BY <1>5, ConfirmType DEF Confirm, Types, TypeOK
<1>6. ASSUME NEW c \in Check, Tick(c) PROVE Types'
  BY <1>6, TypesBegin DEF Tick, Types, TypeOK
<1>7. ASSUME NEW c \in Check, PageArrives(c) PROVE Types'
  BY <1>7, TypesPage
<1>8. ASSUME NEW c \in Check, CheckFails(c) PROVE Types'
  <2>1. faults' \in 0 .. MaxFaults
    BY <1>8, FaultType DEF CheckFails
  <2> QED BY <1>8, <2>1, IdleFacts, TypesChecks DEF CheckFails, Types, TypeOK
<1>9. CASE UNCHANGED vars
  BY <1>9 DEF vars, Types, TypeOK
<1> QED BY <1>1, <1>2, <1>3, <1>4, <1>5, <1>6, <1>7, <1>8, <1>9 DEF Next

\* The state of the store of names keeps its types, whatever is confirmed, fails or
\* overlaps; a check's offset is the number of registrations it has.
THEOREM TypeCorrect == Spec => []TypeOK
<1>1. Init => Types
  BY TypesInit
<1>2. Types /\ [Next]_vars => Types'
  BY TypesStep
<1>3. Types => TypeOK
  BY DEF Types
<1> QED BY <1>1, <1>2, <1>3, PTL DEF Spec

-----------------------------------------------------------------------------
(* No registration is left behind. *)

LEMMA InvInit == Init => Inv
<1> SUFFICES ASSUME Init PROVE Inv
  OBVIOUS
<1>1. DOMAIN chain = {} /\ latest = -1 /\ phase = "loading"
  BY DEF Init
<1>2. \A c \in Check : ~checks[c].active
  BY DEF Init, IdleCheck
<1> QED BY <1>1, <1>2, TypesInit
        DEF Inv, Newest, Seen, Quiet, NothingSkipped, Before, Collected

\* Confirmed in order, a registration comes first and moves the others on by one.
LEMMA ConfirmFirst ==
    ASSUME InOrder, Types, NEW d \in Delegate, NEW stamp \in 0 .. MaxStamp, Confirm(d, stamp)
    PROVE  /\ \A i \in DOMAIN chain' :
                \/ i = 1 /\ chain'[i].stamp = stamp
                \/ \E j \in DOMAIN chain : i = j + 1 /\ chain'[i] = chain[j]
           /\ \A j \in DOMAIN chain : j + 1 \in DOMAIN chain' /\ chain'[j + 1] = chain[j]
<1> DEFINE r == [delegate |-> d, stamp |-> stamp]
<1>1. chain \in Seq(Registration) /\ Len(chain) \in Nat /\ DOMAIN chain = 1 .. Len(chain)
  BY LenProperties DEF Types, TypeOK
<1>2. \A i \in DOMAIN chain : chain[i].stamp < stamp /\ chain[i].stamp \in Nat
  <2>1. \A i \in DOMAIN chain : chain[i] \in Registration
    BY <1>1, ElementOfSeq
  <2> QED BY <2>1, Constants DEF Confirm, Registration
<1>3. Since(stamp + 1) = 0
  <2>1. {i \in DOMAIN chain : chain[i].stamp >= stamp + 1} = {}
    BY <1>2, Constants
  <2> QED BY <2>1, FS_EmptySet DEF Since
<1>4. SubSeq(chain, 1, Since(stamp + 1)) = <<>>
  BY <1>3, SubSeqEmpty
<1>5. SubSeq(chain, Since(stamp + 1) + 1, Len(chain)) = chain
  BY <1>1, <1>3, SubSeqFull
<1>6. r \in Registration /\ <<r>> \in Seq(Registration)
  BY DEF Registration
<1>7. chain' = <<r>> \o chain
  <2>1. chain' = <<>> \o <<r>> \o chain
    BY <1>4, <1>5 DEF Confirm
  <2>2. <<>> \o <<r>> = <<r>>
    BY <1>6, ConcatEmptySeq
  <2> QED BY <2>1, <2>2
<1> HIDE DEF r
<1>8. /\ chain' \in Seq(Registration) /\ Len(chain') = 1 + Len(chain)
      /\ \A i \in 1 .. 1 + Len(chain) : chain'[i] = IF i <= 1 THEN r ELSE chain[i - 1]
  <2>1. Len(<<r>>) = 1 /\ <<r>>[1] = r
    OBVIOUS
  <2>2. /\ Len(<<r>> \o chain) = Len(<<r>>) + Len(chain)
        /\ \A i \in 1 .. Len(<<r>>) + Len(chain) :
             (<<r>> \o chain)[i] = IF i <= Len(<<r>>) THEN <<r>>[i] ELSE chain[i - Len(<<r>>)]
    BY <1>1, <1>6, ConcatProperties
  <2>3. \A i \in 1 .. 1 + Len(chain) : i <= 1 => i = 1
    BY <1>1
  <2> QED BY <1>7, <2>1, <2>2, <2>3, ConfirmType
<1>9. DOMAIN chain' = 1 .. 1 + Len(chain)
  BY <1>8, LenProperties
<1>10. ASSUME NEW i \in DOMAIN chain'
       PROVE  \/ i = 1 /\ chain'[i].stamp = stamp
              \/ \E j \in DOMAIN chain : i = j + 1 /\ chain'[i] = chain[j]
  <2>1. CASE i = 1
    BY <1>8, <1>9, <2>1 DEF r
  <2>2. CASE i # 1
    <3>1. i \in 1 .. 1 + Len(chain) /\ ~ (i <= 1)
      BY <1>1, <1>9, <2>2
    <3>2. chain'[i] = chain[i - 1]
      BY <1>8, <3>1
    <3>3. PICK j \in DOMAIN chain : j = i - 1
      BY <1>1, <3>1
    <3>4. i = j + 1
      BY <1>1, <3>1, <3>3
    <3> QED BY <3>2, <3>3, <3>4
  <2> QED BY <2>1, <2>2
<1>11. ASSUME NEW j \in DOMAIN chain
       PROVE  j + 1 \in DOMAIN chain' /\ chain'[j + 1] = chain[j]
  <2>1. PICK i \in Nat : i = j + 1
    BY <1>1
  <2>2. i \in 1 .. 1 + Len(chain) /\ ~ (i <= 1) /\ i - 1 = j
    BY <1>1, <2>1
  <2> QED BY <1>8, <1>9, <2>1, <2>2
<1> QED BY <1>10, <1>11

LEMMA InvConfirm ==
    ASSUME InOrder, Inv, NEW d \in Delegate, NEW stamp \in 0 .. MaxStamp, Confirm(d, stamp)
    PROVE  Inv'
<1>1. /\ \A i \in DOMAIN chain' :
           \/ i = 1 /\ chain'[i].stamp = stamp
           \/ \E j \in DOMAIN chain : i = j + 1 /\ chain'[i] = chain[j]
      /\ \A j \in DOMAIN chain : j + 1 \in DOMAIN chain' /\ chain'[j + 1] = chain[j]
  BY ConfirmFirst DEF Inv
<1>2. /\ \A i \in DOMAIN chain : chain[i].stamp < stamp /\ chain[i].stamp \in Nat
      /\ DOMAIN chain \subseteq Nat \ {0} /\ stamp \in Nat
  <2>1. chain \in Seq(Registration) /\ Len(chain) \in Nat /\ DOMAIN chain = 1 .. Len(chain)
    BY LenProperties DEF Inv, Types, TypeOK
  <2>2. \A i \in DOMAIN chain : chain[i] \in Registration
    BY <2>1, ElementOfSeq
  <2>3. \A i \in DOMAIN chain : chain[i].stamp < stamp /\ chain[i].stamp \in Nat
    BY <2>2, Constants DEF Confirm, Registration
  <2>4. DOMAIN chain \subseteq Nat \ {0} /\ stamp \in Nat
    BY <2>1, Constants
  <2> QED BY <2>3, <2>4
<1>3. UNCHANGED <<store, unwritten, phase, latest, checks>>
  BY DEF Confirm
<1>4. \A c \in Check : checks[c].from \in Nat /\ checks[c].offset \in Nat
  BY Constants DEF Inv, Types, CheckType
<1>5. Types'
  BY TypesStep DEF Inv, Next
<1>6. Newest'
  BY <1>1, <1>2 DEF Inv, Newest
<1>7. Seen'
  BY <1>1, <1>3 DEF Inv, Seen
<1>8. NothingSkipped'
  BY <1>1, <1>2, <1>3 DEF Inv, NothingSkipped, Seen
<1>9. Before'
  BY <1>1, <1>2, <1>3, <1>4 DEF Inv, Before, Seen
<1>10. Collected'
  <2> SUFFICES ASSUME NEW c \in Check, checks[c].active, checks[c].acc # <<>>,
                      NEW i \in DOMAIN chain',
                      i <= checks[c].offset, chain'[i].stamp >= checks[c].from,
                      chain'[i].stamp <= checks[c].acc[1].stamp
               PROVE  \E k \in DOMAIN checks[c].acc : checks[c].acc[k] = chain'[i]
    BY <1>3 DEF Collected
  <2>1. 1 \in DOMAIN checks[c].acc
    BY EmptySeq, LenProperties DEF Inv, Types, CheckType
  <2>2. \E x \in DOMAIN chain : checks[c].acc[1] = chain[x]
    BY <2>1 DEF Inv, Seen
  <2>3. PICK j \in DOMAIN chain : i = j + 1 /\ chain'[i] = chain[j]
    BY <1>1, <1>2, <2>2
  <2>4. j <= checks[c].offset
    BY <1>2, <1>4, <2>3
  <2> QED BY <2>3, <2>4 DEF Inv, Collected
<1> QED BY <1>3, <1>5, <1>6, <1>7, <1>8, <1>9, <1>10 DEF Inv, Quiet

\* A step that keeps the chain and the newest timestamp, takes no name away that matters,
\* and only begins and ends checks.
LEMMA InvKept ==
    ASSUME Inv, Types', UNCHANGED <<chain, latest>>,
           phase' # "ready" => latest = -1 /\ \A c \in Check : ~checks'[c].active,
           \/ latest = -1 /\ \A c \in Check : ~checks[c].active
           \/ \A d \in Delegate : store[d] # None \/ d \in unwritten => store'[d] # None \/ d \in unwritten',
           \A c \in Check :
             checks'[c] = checks[c] \/ ~checks'[c].active \/ checks'[c] = NewCheck
    PROVE  Inv'
<1>1. \A i \in DOMAIN chain : chain[i].stamp \in Nat /\ chain[i].delegate \in Delegate
  BY ChainFacts DEF Inv
<1>2. \A c \in Check : checks[c].from \in Nat
  BY Constants DEF Inv, Types, CheckType
<1>3. latest \in Int /\ (phase # "ready" => latest = -1)
  BY DEF Inv, Types, TypeOK, Quiet
<1>4. /\ NewCheck.active /\ NewCheck.from = latest + 1 /\ NewCheck.acc = <<>>
      /\ DOMAIN NewCheck.acc = {}
  BY NewCheckFacts DEF Inv
<1>5. \A i \in DOMAIN chain : chain[i].stamp <= latest =>
        store'[chain[i].delegate] # None \/ chain[i].delegate \in unwritten'
  BY <1>1, <1>3 DEF Inv, NothingSkipped
<1>6. Newest' /\ Quiet' /\ NothingSkipped'
  BY <1>5 DEF Inv, Newest, Quiet, NothingSkipped
<1>7. Seen'
  <2> SUFFICES ASSUME NEW c \in Check, checks'[c].active
               PROVE  /\ \/ checks'[c].from = 0
                         \/ \E i \in DOMAIN chain : chain[i].stamp = checks'[c].from - 1
                      /\ \A k \in DOMAIN checks'[c].acc :
                           \E i \in DOMAIN chain : checks'[c].acc[k] = chain[i]
    BY DEF Seen, Inv
  <2>1. CASE checks'[c] = checks[c]
    BY <2>1 DEF Inv, Seen
  <2>2. CASE checks'[c] = NewCheck
    <3>1. latest = -1 => checks'[c].from = 0
      BY <1>4, <2>2
    <3>2. checks'[c].from - 1 = latest
      BY <1>3, <1>4, <2>2
    <3> QED BY <1>4, <2>2, <3>1, <3>2 DEF Inv, Seen
  <2> QED BY <2>1, <2>2
<1>8. Before'
  <2> SUFFICES ASSUME NEW c \in Check, checks'[c].active, NEW i \in DOMAIN chain,
                      chain[i].stamp < checks'[c].from
               PROVE  store'[chain[i].delegate] # None \/ chain[i].delegate \in unwritten'
    BY DEF Before
  <2>1. CASE checks'[c] = checks[c]
    BY <1>1, <2>1 DEF Inv, Before
  <2>2. CASE checks'[c] = NewCheck
    BY <1>1, <1>3, <1>4, <1>5, <2>2
  <2> QED BY <2>1, <2>2
<1>9. Collected'
  <2> SUFFICES ASSUME NEW c \in Check, checks'[c].active, checks'[c].acc # <<>>
               PROVE  checks'[c] = checks[c]
    BY DEF Inv, Collected
  <2> QED BY <1>4
<1> QED BY <1>6, <1>7, <1>8, <1>9 DEF Inv

\* With the page that is there a check has all that is behind the page's end, except for
\* what was confirmed after its first page.
LEMMA Gathered ==
    ASSUME Inv, NEW c \in Check, checks[c].active
    PROVE  LET page == PageOf(checks[c].from, checks[c].offset)
               all  == checks[c].acc \o page
           IN  /\ \A k \in 1 .. Len(all) : \E i \in DOMAIN chain : all[k] = chain[i]
               /\ \A i \in DOMAIN chain :
                    /\ i <= checks[c].offset + Len(page) /\ chain[i].stamp >= checks[c].from
                    /\ chain[i].stamp <= all[1].stamp
                    => \E k \in 1 .. Len(all) : all[k] = chain[i]
<1> DEFINE page == PageOf(checks[c].from, checks[c].offset)
           all  == checks[c].acc \o page
           o    == checks[c].offset
<1>1. /\ checks[c] \in CheckType /\ checks[c].acc \in Seq(Registration)
      /\ o = Len(checks[c].acc) /\ page \in Seq(Registration)
      /\ Len(all) = o + Len(page) /\ o \in Nat /\ Len(page) \in Nat
      /\ \A k \in 1 .. o : all[k] = checks[c].acc[k]
      /\ \A k \in 1 .. Len(page) : all[o + k] = page[k]
  BY PageType, LenProperties DEF Inv, CheckType
<1>2. DOMAIN checks[c].acc = 1 .. o /\ (o # 0 => checks[c].acc # <<>>)
  BY <1>1, LenProperties, EmptySeq
<1>3. \A k \in 1 .. Len(page) : o + k \in DOMAIN chain /\ page[k] = chain[o + k]
  <2>1. checks[c].from \in Nat /\ o \in Nat /\ chain \in Seq(Registration)
    BY <1>1, Constants DEF Inv, Types, TypeOK, CheckType
  <2> QED BY <2>1, PageFacts
<1> HIDE DEF page, all, o
<1>4. \A k \in 1 .. o : \E i \in DOMAIN chain : all[k] = chain[i]
  <2>1. \A k \in DOMAIN checks[c].acc : \E i \in DOMAIN chain : checks[c].acc[k] = chain[i]
    BY DEF Inv, Seen
  <2>2. \A k \in 1 .. o : all[k] = checks[c].acc[k]
    BY <1>1
  <2> QED BY <1>2, <2>1, <2>2
<1>5. \A k \in 1 .. Len(all) : k \in 1 .. o \/ \E j \in 1 .. Len(page) : k = o + j
  <2> SUFFICES ASSUME NEW k \in 1 .. Len(all), k \notin 1 .. o
               PROVE  \E j \in 1 .. Len(page) : k = o + j
    OBVIOUS
  <2>1. k - o \in 1 .. Len(page) /\ k = o + (k - o)
    BY <1>1
  <2> QED BY <2>1
<1>6. \A k \in 1 .. Len(all) : \E i \in DOMAIN chain : all[k] = chain[i]
  <2> SUFFICES ASSUME NEW k \in 1 .. Len(all)
               PROVE  \E i \in DOMAIN chain : all[k] = chain[i]
    OBVIOUS
  <2>1. CASE k \in 1 .. o
    BY <1>4, <2>1
  <2>2. ASSUME NEW j \in 1 .. Len(page), k = o + j PROVE \E i \in DOMAIN chain : all[k] = chain[i]
    <3>1. all[o + j] = page[j] /\ o + j \in DOMAIN chain /\ page[j] = chain[o + j]
      BY <1>1, <1>3
    <3> QED BY <2>2, <3>1
  <2> QED BY <1>5, <2>1, <2>2
<1>7. ASSUME NEW i \in DOMAIN chain, i <= o + Len(page), chain[i].stamp >= checks[c].from,
             chain[i].stamp <= all[1].stamp
      PROVE  \E k \in 1 .. Len(all) : all[k] = chain[i]
  <2>1. i \in Nat \ {0}
    BY ChainFacts DEF Inv
  <2>2. CASE i <= o
    <3>1. o # 0 /\ 1 \in 1 .. o
      BY <1>1, <2>1, <2>2
    <3>2. all[1] = checks[c].acc[1] /\ checks[c].acc # <<>>
      BY <1>1, <1>2, <3>1
    <3>3. PICK k \in 1 .. o : checks[c].acc[k] = chain[i]
      BY <1>2, <1>7, <2>2, <3>2 DEF Inv, Collected, o
    <3>4. k \in 1 .. Len(all) /\ all[k] = checks[c].acc[k]
      BY <1>1, <3>3
    <3> QED BY <3>3, <3>4
  <2>3. CASE ~ (i <= o)
    <3>1. i - o \in 1 .. Len(page) /\ o + (i - o) = i
      <4>1. o \in Nat /\ Len(page) \in Nat /\ i <= o + Len(page)
        BY <1>1, <1>7
      <4> QED BY <2>1, <2>3, <4>1
    <3>2. PICK j \in 1 .. Len(page) : o + j = i
      BY <3>1
    <3>3. all[o + j] = page[j] /\ page[j] = chain[o + j]
      BY <1>1, <1>3
    <3>4. i \in 1 .. Len(all)
      BY <1>1, <1>7, <2>1
    <3> QED BY <3>2, <3>3, <3>4
  <2> QED BY <2>2, <2>3
<1> QED BY <1>6, <1>7 DEF page, all, o

\* The last page: nothing up to the newest of what the check has is left without a name,
\* but for what Redis refuses.
LEMMA InvLastPage ==
    ASSUME Inv, NEW c \in Check, PageArrives(c),
           Len(PageOf(checks[c].from, checks[c].offset)) < PageLimit
    PROVE  Inv'
<1> DEFINE page == PageOf(checks[c].from, checks[c].offset)
           all  == checks[c].acc \o page
<1>1. /\ checks[c].active /\ Learn(all) /\ checks' = [checks EXCEPT ![c] = IdleCheck]
      /\ UNCHANGED <<chain, phase>>
  BY DEF PageArrives
<1>2. /\ all \in Seq(Registration) /\ DOMAIN all = 1 .. Len(all) /\ Len(all) \in Nat
      /\ checks[c].from \in Nat /\ checks[c].offset \in Nat /\ Len(page) \in Nat
  <2>1. all \in Seq(Registration) /\ page \in Seq(Registration) /\ checks[c] \in CheckType
    BY PageType DEF Inv
  <2> HIDE DEF page, all
  <2>2. checks[c].from \in Nat /\ checks[c].offset \in Nat
    BY <2>1, Constants DEF CheckType
  <2> QED BY <2>1, <2>2, LenProperties
<1>3. \A i \in DOMAIN chain : chain[i].stamp >= checks[c].from => i <= checks[c].offset + Len(page)
  <2>1. chain \in Seq(Registration) /\ checks[c].from \in Int
    BY <1>2 DEF Inv, Types, TypeOK
  <2>2. checks[c].offset + Len(page) >= Since(checks[c].from)
    BY <1>2, <2>1, PageFacts
  <2>3. Since(checks[c].from) \in Nat
    <3>1. Since(checks[c].from) \in 0 .. Len(chain)
      BY <2>1, SinceBounds
    <3> QED BY <3>1
  <2>4. \A i \in DOMAIN chain : i \in Nat
    BY ChainFacts DEF Inv
  <2>5. \A i \in DOMAIN chain : chain[i].stamp >= checks[c].from => i <= Since(checks[c].from)
    BY <2>1, SinceFirst DEF Inv
  <2> HIDE DEF page
  <2> QED BY <1>2, <2>2, <2>3, <2>4, <2>5
<1>4. /\ \A k \in 1 .. Len(all) : \E i \in DOMAIN chain : all[k] = chain[i]
      /\ \A i \in DOMAIN chain :
           /\ i <= checks[c].offset + Len(page) /\ chain[i].stamp >= checks[c].from
           /\ chain[i].stamp <= all[1].stamp
           => \E k \in 1 .. Len(all) : all[k] = chain[i]
  BY <1>1, Gathered
<1> HIDE DEF page, all
<1>5. /\ latest' = latest \/ (all # <<>> /\ latest' = all[1].stamp)
      /\ \A d \in Delegate : store[d] # None \/ d \in unwritten => store'[d] # None \/ d \in unwritten'
      /\ \A k \in DOMAIN all : store'[all[k].delegate] # None \/ all[k].delegate \in unwritten'
  BY <1>1, <1>2, LearnFacts DEF Inv
<1>6. phase = "ready" /\ \A i \in DOMAIN chain : chain[i].stamp \in Nat /\ chain[i].delegate \in Delegate
  BY <1>1, ChainFacts DEF Inv, Quiet
<1>7. all # <<>> => 1 \in 1 .. Len(all)
  BY <1>2, EmptySeq
<1>8. \A k \in Check : k # c => checks'[k] = checks[k]
  BY <1>1 DEF Inv, Types
<1>9. ~checks'[c].active
  BY <1>1, IdleFacts DEF Inv, Types
<1>10. Types'
  BY TypesStep DEF Inv, Next
<1>11. Newest' /\ Quiet'
  BY <1>1, <1>6 DEF Inv, Newest, Quiet
<1>12. Seen'
  BY <1>1, <1>4, <1>5, <1>7, <1>8, <1>9 DEF Inv, Seen
<1>13. NothingSkipped'
  <2> SUFFICES ASSUME NEW i \in DOMAIN chain, chain[i].stamp <= latest'
               PROVE  store'[chain[i].delegate] # None \/ chain[i].delegate \in unwritten'
    BY <1>1 DEF NothingSkipped
  <2>1. CASE latest' = latest
    BY <1>5, <1>6, <2>1 DEF Inv, NothingSkipped
  <2>2. CASE chain[i].stamp < checks[c].from
    BY <1>1, <1>5, <1>6, <2>2 DEF Inv, Before
  <2>3. CASE latest' = all[1].stamp /\ ~ (chain[i].stamp < checks[c].from)
    <3>1. chain[i].stamp >= checks[c].from
      BY <1>2, <1>6, <2>3
    <3>2. PICK k \in 1 .. Len(all) : all[k] = chain[i]
      BY <1>3, <1>4, <2>3, <3>1
    <3> QED BY <1>2, <1>5, <3>2
  <2> QED BY <1>5, <2>1, <2>2, <2>3
<1>14. Before'
  BY <1>1, <1>5, <1>6, <1>8, <1>9 DEF Inv, Before
<1>15. Collected'
  BY <1>1, <1>8, <1>9 DEF Inv, Collected
<1> QED BY <1>10, <1>11, <1>12, <1>13, <1>14, <1>15 DEF Inv

\* A full page is put behind what the check has.
LEMMA InvFullPage ==
    ASSUME Inv, NEW c \in Check, PageArrives(c),
           ~ (Len(PageOf(checks[c].from, checks[c].offset)) < PageLimit)
    PROVE  Inv'
<1> DEFINE page == PageOf(checks[c].from, checks[c].offset)
           all  == checks[c].acc \o page
<1>1. /\ checks[c].active /\ UNCHANGED <<chain, phase, latest, store, unwritten>>
      /\ checks' = [checks EXCEPT ![c].acc = all, ![c].offset = @ + PageLimit]
  BY DEF PageArrives
<1>2. all \in Seq(Registration) /\ DOMAIN all = 1 .. Len(all)
  BY PageType, LenProperties DEF Inv
<1>3. Len(page) = PageLimit
  <2>1. checks[c].from \in Nat /\ checks[c].offset \in Nat /\ chain \in Seq(Registration)
    BY Constants DEF Inv, Types, TypeOK, CheckType
  <2>2. Len(page) \in 0 .. PageLimit
    BY <2>1, PageFacts
  <2> QED BY <2>2, Constants
<1>4. /\ \A k \in 1 .. Len(all) : \E i \in DOMAIN chain : all[k] = chain[i]
      /\ \A i \in DOMAIN chain :
           /\ i <= checks[c].offset + Len(page) /\ chain[i].stamp >= checks[c].from
           /\ chain[i].stamp <= all[1].stamp
           => \E k \in 1 .. Len(all) : all[k] = chain[i]
  BY <1>1, Gathered
<1> HIDE DEF page, all
<1>5. /\ \A k \in Check : k # c => checks'[k] = checks[k]
      /\ checks'[c].active /\ checks'[c].from = checks[c].from /\ checks'[c].acc = all
      /\ checks'[c].offset = checks[c].offset + Len(page)
  BY <1>1, <1>3 DEF Inv, Types, CheckType
<1>6. UNCHANGED <<chain, phase, latest, store, unwritten>>
  BY <1>1
<1>7. Types'
  BY TypesStep DEF Inv, Next
<1>8. Newest' /\ Quiet' /\ NothingSkipped'
  BY <1>1 DEF Inv, Newest, Quiet, NothingSkipped
<1>9. Seen'
  <2> SUFFICES ASSUME NEW k \in Check, checks'[k].active
               PROVE  /\ \/ checks'[k].from = 0
                         \/ \E i \in DOMAIN chain : chain[i].stamp = checks'[k].from - 1
                      /\ \A n \in DOMAIN checks'[k].acc :
                           \E i \in DOMAIN chain : checks'[k].acc[n] = chain[i]
    BY <1>6 DEF Inv, Seen
  <2>1. CASE k = c
    <3>1. \/ checks[c].from = 0
          \/ \E i \in DOMAIN chain : chain[i].stamp = checks[c].from - 1
      BY <1>1 DEF Inv, Seen
    <3>2. \A n \in DOMAIN all : \E i \in DOMAIN chain : all[n] = chain[i]
      BY <1>2, <1>4
    <3> QED BY <1>5, <2>1, <3>1, <3>2
  <2>2. CASE k # c
    BY <1>5, <2>2 DEF Inv, Seen
  <2> QED BY <2>1, <2>2
<1>10. Before'
  <2>1. \A k \in Check : checks'[k].active => checks[k].active /\ checks'[k].from = checks[k].from
    BY <1>1, <1>5
  <2> QED BY <1>6, <2>1 DEF Inv, Before
<1>11. Collected'
  <2> SUFFICES ASSUME NEW k \in Check, checks'[k].active, checks'[k].acc # <<>>,
                      NEW i \in DOMAIN chain,
                      i <= checks'[k].offset, chain[i].stamp >= checks'[k].from,
                      chain[i].stamp <= checks'[k].acc[1].stamp
               PROVE  \E n \in DOMAIN checks'[k].acc : checks'[k].acc[n] = chain[i]
    BY <1>6 DEF Collected
  <2>1. CASE k = c
    BY <1>2, <1>4, <1>5, <2>1
  <2>2. CASE k # c
    BY <1>5, <2>2 DEF Inv, Collected
  <2> QED BY <2>1, <2>2
<1> QED BY <1>7, <1>8, <1>9, <1>10, <1>11 DEF Inv

LEMMA InvStep == InOrder /\ Inv /\ [Next]_vars => Inv'
<1> SUFFICES ASSUME InOrder, Inv, [Next]_vars PROVE Inv'
  OBVIOUS
<1>1. Types'
  BY TypesStep DEF Inv
<1>2. Username # None /\ Label # None
  BY DEF Username, Label, None
<1>3. CASE Load
  <2>1. PICK c \in Check : Begin(c)
    BY <1>3 DEF Load
  <2>2. \A k \in Check : checks'[k] = checks[k] \/ checks'[k] = NewCheck
    BY <2>1 DEF Begin, NewCheck, Inv, Types
  <2>3. latest = -1 /\ \A k \in Check : ~checks[k].active
    BY <1>3 DEF Load, Inv, Quiet
  <2> QED BY <1>1, <1>3, <2>2, <2>3, InvKept DEF Load
<1>4. CASE LoadFails
  BY <1>1, <1>4, InvKept DEF LoadFails, Inv, Quiet
<1>5. CASE ListArrives
  <2>1. \A d \in Delegate : store[d] # None \/ d \in unwritten => store'[d] # None \/ d \in unwritten'
    BY <1>2, <1>5 DEF ListArrives
  <2> QED BY <1>1, <1>5, <2>1, InvKept DEF ListArrives, Inv, Quiet
<1>6. CASE Restart
  <2>1. \A c \in Check : ~checks'[c].active
    BY <1>6, IdleFacts DEF Restart
  <2> QED BY <1>1, <1>6, <2>1
          DEF Restart, Inv, Newest, Seen, Quiet, NothingSkipped, Before, Collected
<1>7. ASSUME NEW d \in Delegate, NEW stamp \in 0 .. MaxStamp, Confirm(d, stamp) PROVE Inv'
  BY <1>7, InvConfirm
<1>8. ASSUME NEW c \in Check, Tick(c) PROVE Inv'
  <2>1. \A k \in Check : checks'[k] = checks[k] \/ checks'[k] = NewCheck
    BY <1>8 DEF Tick, Begin, NewCheck, Inv, Types
  <2> QED BY <1>1, <1>8, <2>1, InvKept DEF Tick
<1>9. ASSUME NEW c \in Check, PageArrives(c) PROVE Inv'
  BY <1>9, InvLastPage, InvFullPage
<1>10. ASSUME NEW c \in Check, CheckFails(c) PROVE Inv'
  <2>1. phase = "ready"
    BY <1>10 DEF CheckFails, Inv, Quiet
  <2>2. \A k \in Check : checks'[k] = checks[k] \/ ~checks'[k].active
    BY <1>10, IdleFacts DEF CheckFails, Inv, Types
  <2> QED BY <1>1, <1>10, <2>1, <2>2, InvKept DEF CheckFails
<1>11. CASE UNCHANGED vars
  BY <1>1, <1>11, InvKept DEF vars, Inv, Quiet
<1> QED BY <1>3, <1>4, <1>5, <1>6, <1>7, <1>8, <1>9, <1>10, <1>11 DEF Next

\* As long as the node confirms registrations in the order of their timestamps (InOrder),
\* every delegate up to the newest registration the explorer has seen has its name in the
\* store, or Redis refused to write that very name, however the checks overlap, their
\* pages shift, and requests and writes fail: what checkNewDelegates asks for next, "since
\* the newest", leaves out nobody but the refused.
THEOREM NothingSkippedCorrect ==
    ASSUME InOrder PROVE Spec => []NothingSkipped
<1>1. Init => Inv
  BY InvInit
<1>2. Inv /\ [Next]_vars => Inv'
  BY InvStep
<1>3. Inv => NothingSkipped
  BY DEF Inv
<1> QED BY <1>1, <1>2, <1>3, PTL DEF Spec
==============================================================================
