------------------------- MODULE DelegateCacheProofs -------------------------
(* Proofs about DelegateCache: its types, and what a list of delegates whose  *)
(* pages come from one ranking holds, for any delegates, approvals, sizes of  *)
(* pages and of windows, and any number of loads under way.                   *)
EXTENDS DelegateCache, FiniteSetTheorems, SequenceTheorems, TLAPS

N == Cardinality(Delegate)

LoadType == [kind : Kind, state : State, offset : Nat, acc : Seq(Entry),
             answer : Seq(Entry), clean : BOOLEAN]

\* TypeOK, the domain of loads, and a fresh list that is not empty.
Types == TypeOK /\ loads \in [Load -> LoadType] /\ (fresh => allDelegates # <<>>)

\* The node lists each of its delegates, the best first.
Ranked == Names(node) = Delegate /\ Descending(node)

\* A load has not passed the end of the node's list; when it has seen one ranking
\* only, it holds the beginning of that ranking.
Progress ==
    \A l \in Load : loads[l].state = "loading" =>
        /\ loads[l].offset <= N
        /\ loads[l].clean => \A k \in 1 .. loads[l].offset : loads[l].acc[k] = node[k]

\* CleanListExact is not inductive: it says nothing of the loads that make the next list.
Inv == Types /\ Ranked /\ Progress /\ CleanListExact

-----------------------------------------------------------------------------
(* Lemmas about the operators. *)

\* What the constants are.
LEMMA Constants ==
    /\ PageLimit \in Nat \ {0} /\ ActiveSize \in Nat \ {0} /\ StandbySize \in Nat \ {0}
    /\ MaxVotes \in Nat /\ MaxChanges \in Nat /\ N \in Nat \ {0}
<1>1. IsFiniteSet(Delegate) /\ Delegate # {}
  BY DelegateAssumption
<1>2. N \in Nat /\ N # 0
  BY <1>1, FS_CardinalityType, FS_EmptySet DEF N
<1> QED BY <1>2, SizeAssumption

\* A function from the first numbers is a list.
LEMMA FunctionIsList ==
    ASSUME NEW n \in Nat, NEW f \in [1 .. n -> Entry]
    PROVE  f \in Seq(Entry) /\ Len(f) = n /\ DOMAIN f = 1 .. n
BY SeqDef

\* The node's list.
LEMMA NodeFacts ==
    ASSUME Types
    PROVE  /\ node \in Seq(Entry) /\ Len(node) = N /\ DOMAIN node = 1 .. N
           /\ \A i \in 1 .. N : node[i] \in Entry
<1>1. node \in [1 .. N -> Entry] /\ N \in Nat
  BY Constants DEF Types, TypeOK, N
<1> QED BY <1>1, FunctionIsList

\* What a slice of a list holds.
LEMMA SliceFacts ==
    ASSUME NEW list \in Seq(Entry), NEW offset \in Nat, NEW n \in Nat
    PROVE  LET s    == Slice(list, offset, n)
               last == IF offset + n < Len(list) THEN offset + n ELSE Len(list)
           IN  /\ s \in Seq(Entry)
               /\ Len(s) = IF offset < last THEN last - offset ELSE 0
               /\ \A k \in 1 .. Len(s) : offset + k \in 1 .. Len(list) /\ s[k] = list[offset + k]
<1> DEFINE last == IF offset + n < Len(list) THEN offset + n ELSE Len(list)
           s    == SubSeq(list, offset + 1, last)
<1>1. Len(list) \in Nat
  BY LenProperties
<1>2. last \in 0 .. Len(list) /\ last \in Int
  BY <1>1
<1>3. Slice(list, offset, n) = s
  BY DEF Slice
<1> HIDE DEF last
<1>4. \A k \in offset + 1 .. last : list[k] \in Entry
  BY <1>1, <1>2, ElementOfSeq
<1>5. /\ s \in Seq(Entry)
      /\ Len(s) = IF offset + 1 <= last THEN last - (offset + 1) + 1 ELSE 0
      /\ \A k \in 1 .. last - (offset + 1) + 1 : s[k] = list[offset + 1 + k - 1]
  BY <1>2, <1>4, SubSeqProperties
<1> HIDE DEF s
<1>6. Len(s) = IF offset < last THEN last - offset ELSE 0
  BY <1>2, <1>5
<1>7. ASSUME NEW k \in 1 .. Len(s) PROVE offset + k \in 1 .. Len(list) /\ s[k] = list[offset + k]
  <2>1. k \in 1 .. last - (offset + 1) + 1 /\ offset + 1 + k - 1 = offset + k
    BY <1>2, <1>6
  <2>2. offset + k \in 1 .. Len(list)
    BY <1>1, <1>2, <1>6
  <2> QED BY <1>5, <2>1, <2>2
<1> QED BY <1>3, <1>5, <1>6, <1>7 DEF last

\* Sorting keeps the entries and their number.
LEMMA SortedFacts ==
    ASSUME NEW list \in Seq(Entry), NEW s \in Sorted(list)
    PROVE  /\ s \in Seq(Entry) /\ Len(s) = Len(list)
           /\ Names(s) = Names(list) /\ Descending(s)
<1>1. Len(list) \in Nat /\ DOMAIN list = 1 .. Len(list)
  BY LenProperties
<1>2. PICK p \in Bijection(DOMAIN list, DOMAIN list) : s = [i \in DOMAIN list |-> list[p[i]]]
  BY DEF Sorted
<1>3. /\ p \in [DOMAIN list -> DOMAIN list]
      /\ \A j \in DOMAIN list : \E i \in DOMAIN list : p[i] = j
  BY <1>2 DEF Bijection, Injection, Surjection
<1>4. \A i \in DOMAIN list : list[i] \in Entry
  BY <1>1, ElementOfSeq
<1>5. s \in [1 .. Len(list) -> Entry]
  BY <1>1, <1>2, <1>3, <1>4
<1>6. s \in Seq(Entry) /\ Len(s) = Len(list) /\ DOMAIN s = DOMAIN list
  BY <1>1, <1>5, FunctionIsList
<1>7. Names(s) = Names(list)
  <2>1. \A i \in DOMAIN s : \E j \in DOMAIN list : s[i] = list[j]
    BY <1>2, <1>3, <1>6
  <2>2. \A j \in DOMAIN list : \E i \in DOMAIN s : s[i] = list[j]
    BY <1>2, <1>3, <1>6
  <2> QED BY <2>1, <2>2 DEF Names
<1>8. Descending(s)
  BY DEF Sorted
<1> QED BY <1>6, <1>7, <1>8

\* A window is a list, and the one of the active delegates is empty only when the list is.
LEMMA WindowFacts ==
    ASSUME NEW kind \in Kind, NEW list \in Seq(Entry)
    PROVE  /\ Window(kind, list) \in Seq(Entry)
           /\ kind = "active" /\ list # <<>> => Window(kind, list) # <<>>
<1>1. Len(list) \in Nat /\ (list # <<>> => Len(list) # 0)
  BY LenProperties, EmptySeq
<1>2. CASE kind = "active"
  <2>1. Slice(list, 0, ActiveSize) \in Seq(Entry)
    BY SliceFacts, Constants
  <2>2. list # <<>> => Len(Slice(list, 0, ActiveSize)) # 0
    <3> DEFINE last == IF 0 + ActiveSize < Len(list) THEN 0 + ActiveSize ELSE Len(list)
    <3>1. Len(Slice(list, 0, ActiveSize)) = IF 0 < last THEN last - 0 ELSE 0
      BY SliceFacts, Constants
    <3>2. list # <<>> => last \in Nat \ {0}
      BY <1>1, Constants
    <3> HIDE DEF last
    <3> QED BY <3>1, <3>2
  <2> QED BY <1>2, <2>1, <2>2, EmptySeq DEF Window
<1>3. CASE kind = "standby"
  BY <1>3, SliceFacts, Constants DEF Window
<1>4. CASE kind # "active" /\ kind # "standby"
  BY <1>4, EmptySeq DEF Window
<1> QED BY <1>2, <1>3, <1>4

-----------------------------------------------------------------------------
(* Type correctness. *)

CallOK(call) ==
    /\ call \in LoadType /\ Len(call.acc) = call.offset
    /\ call.kind = "active" /\ call.state = "done" => call.answer # <<>>

LEMMA TypesCalls == Types => \A l \in Load : CallOK(loads[l])
BY DEF Types, TypeOK, CallOK

\* Types holds after a step that keeps the rest, when it keeps each call's.
LEMMA TypesFromCalls ==
    ASSUME loads' \in [Load -> LoadType], \A l \in Load : CallOK(loads'[l]),
           node' \in [1 .. N -> Entry], changes' \in 0 .. MaxChanges, fresh' \in BOOLEAN,
           allDelegates' \in Seq(Entry), listClean' \in BOOLEAN,
           fresh' => allDelegates' # <<>>
    PROVE  Types'
<1>1. \A l \in Load :
        /\ loads'[l].kind \in Kind /\ loads'[l].state \in State
        /\ loads'[l].offset \in Nat /\ loads'[l].clean \in BOOLEAN
        /\ loads'[l].acc \in Seq(Entry) /\ loads'[l].answer \in Seq(Entry)
  BY DEF CallOK, LoadType
<1> QED BY <1>1 DEF Types, TypeOK, CallOK, N

\* One call moves on.
LEMMA TypesCall ==
    ASSUME Types, NEW l \in Load, NEW call, CallOK(call), loads' = [loads EXCEPT ![l] = call],
           UNCHANGED <<node, changes>>, fresh' \in BOOLEAN,
           allDelegates' \in Seq(Entry), listClean' \in BOOLEAN,
           fresh' => allDelegates' # <<>>
    PROVE  Types'
<1>1. loads' \in [Load -> LoadType]
  BY DEF Types, CallOK
<1>2. \A k \in Load : loads'[k] = IF k = l THEN call ELSE loads[k]
  BY DEF Types
<1>3. \A k \in Load : CallOK(loads'[k])
  BY <1>2, TypesCalls
<1>4. node' \in [1 .. N -> Entry] /\ changes' \in 0 .. MaxChanges
  BY DEF Types, TypeOK, N
<1> QED BY <1>1, <1>3, <1>4, TypesFromCalls

LEMMA UnusedFacts ==
    /\ Unused \in LoadType /\ Len(Unused.acc) = Unused.offset
    /\ Unused.acc = <<>> /\ Unused.offset = 0 /\ Unused.state = "idle"
    /\ Unused.answer = <<>> /\ Unused.clean = TRUE
BY EmptySeq DEF Unused, LoadType, Kind, State

\* The call that Begin begins.
Begun(kind) == [Unused EXCEPT !.kind = kind, !.state = "loading"]

LEMMA BegunFacts ==
    ASSUME NEW kind \in Kind
    PROVE  CallOK(Begun(kind)) /\ Begun(kind).offset = 0 /\ Begun(kind).state = "loading"
BY UnusedFacts DEF Begun, CallOK, LoadType, State

\* The call that is answered from a list.
Served(kind, list) ==
    [Unused EXCEPT !.kind = kind, !.state = "done", !.answer = Window(kind, list)]

LEMMA ServedFacts ==
    ASSUME NEW kind \in Kind, NEW list \in Seq(Entry), list # <<>>
    PROVE  CallOK(Served(kind, list)) /\ Served(kind, list).state = "done"
<1>1. /\ Window(kind, list) \in Seq(Entry)
      /\ kind = "active" => Window(kind, list) # <<>>
  BY WindowFacts
<1> QED BY <1>1, UnusedFacts DEF Served, CallOK, LoadType, State

LEMMA TypesInit == Init => Types
<1> SUFFICES ASSUME Init PROVE Types
  OBVIOUS
<1>1. loads \in [Load -> LoadType] /\ \A l \in Load : loads[l] = Unused
  BY UnusedFacts DEF Init
<1>2. node \in [1 .. N -> Entry] /\ changes \in 0 .. MaxChanges
  BY Constants DEF Init, N
<1>3. \A l \in Load :
        /\ loads[l].kind \in Kind /\ loads[l].state \in State
        /\ loads[l].offset \in Nat /\ loads[l].clean \in BOOLEAN
        /\ loads[l].acc \in Seq(Entry) /\ loads[l].answer \in Seq(Entry)
        /\ Len(loads[l].acc) = loads[l].offset /\ loads[l].state = "idle"
  BY <1>1, UnusedFacts DEF LoadType
<1>4. allDelegates \in Seq(Entry) /\ fresh = FALSE /\ listClean = FALSE
  BY EmptySeq DEF Init
<1> QED BY <1>1, <1>2, <1>3, <1>4 DEF Types, TypeOK, N

\* The page of a loading call, and what the call has with it.
LEMMA PageFacts ==
    ASSUME Types, NEW l \in Load
    PROVE  LET page == Slice(node, loads[l].offset, PageLimit)
               all  == loads[l].acc \o page
               o    == loads[l].offset
           IN  /\ o \in Nat /\ page \in Seq(Entry) /\ Len(page) \in 0 .. PageLimit
               /\ all \in Seq(Entry) /\ Len(all) = o + Len(page)
               /\ Len(page) < PageLimit => Len(all) >= N
               /\ o <= N => Len(all) <= N
               /\ \A k \in 1 .. o : all[k] = loads[l].acc[k]
               /\ \A k \in 1 .. Len(page) : o + k \in 1 .. N /\ all[o + k] = node[o + k]
<1> DEFINE o    == loads[l].offset
           page == Slice(node, o, PageLimit)
           acc  == loads[l].acc
           all  == acc \o page
           last == IF o + PageLimit < Len(node) THEN o + PageLimit ELSE Len(node)
<1>1. acc \in Seq(Entry) /\ o \in Nat /\ Len(acc) = o
  BY DEF Types, TypeOK
<1>2. node \in Seq(Entry) /\ Len(node) = N
  BY NodeFacts
<1> HIDE DEF o, acc
<1>3. /\ page \in Seq(Entry) /\ Len(page) = IF o < last THEN last - o ELSE 0
      /\ \A k \in 1 .. Len(page) : o + k \in 1 .. Len(node) /\ page[k] = node[o + k]
  <2>1. PageLimit \in Nat
    BY Constants
  <2>2. /\ page \in Seq(Entry) /\ Len(page) = IF o < last THEN last - o ELSE 0
        /\ \A k \in 1 .. Len(page) : o + k \in 1 .. Len(node) /\ page[k] = node[o + k]
    BY <1>1, <1>2, <2>1, SliceFacts
  <2> QED BY <2>2
<1> HIDE DEF page
<1>4. /\ all \in Seq(Entry) /\ Len(all) = o + Len(page)
      /\ \A k \in 1 .. o + Len(page) : all[k] = IF k <= o THEN acc[k] ELSE page[k - o]
  BY <1>1, <1>3, ConcatProperties
<1> HIDE DEF all
<1>5. Len(page) \in 0 .. PageLimit
  BY <1>1, <1>2, <1>3, Constants
<1>6. Len(page) < PageLimit => o + Len(page) >= N
  BY <1>1, <1>2, <1>3, Constants
<1>7. o <= N => o + Len(page) <= N
  BY <1>1, <1>2, <1>3, Constants
<1>8. \A k \in 1 .. o : all[k] = acc[k]
  BY <1>1, <1>4, <1>5, Constants
<1>9. ASSUME NEW k \in 1 .. Len(page) PROVE o + k \in 1 .. N /\ all[o + k] = node[o + k]
  <2>1. PICK j \in Nat : j = o + k
    BY <1>1, <1>5, Constants
  <2>2. j \in 1 .. o + Len(page) /\ ~ (j <= o) /\ j - o = k
    BY <1>1, <1>5, <2>1, Constants
  <2>3. all[j] = page[k]
    BY <1>4, <2>2
  <2> QED BY <1>2, <1>3, <2>1, <2>3
<1> QED BY <1>1, <1>3, <1>4, <1>5, <1>6, <1>7, <1>8, <1>9 DEF o, page, acc, all

\* The call that Finish leaves, and the one that goes on.
Finished(l, list) ==
    [loads[l] EXCEPT !.state = "done", !.acc = <<>>, !.offset = 0,
                     !.answer = Window(loads[l].kind, list)]

Longer(l, all) == [loads[l] EXCEPT !.acc = all, !.offset = @ + PageLimit]

LEMMA FinishedFacts ==
    ASSUME Types, NEW l \in Load, NEW list \in Seq(Entry), list # <<>>
    PROVE  /\ CallOK(Finished(l, list)) /\ Finished(l, list).state = "done"
           /\ Finished(l, list).answer = Window(loads[l].kind, list)
           /\ Finished(l, list).kind = loads[l].kind
<1>1. loads[l] \in LoadType /\ loads[l].kind \in Kind
  BY DEF Types, LoadType
<1>2. /\ Window(loads[l].kind, list) \in Seq(Entry)
      /\ loads[l].kind = "active" => Window(loads[l].kind, list) # <<>>
  BY <1>1, WindowFacts
<1>3. Finished(l, list) \in LoadType /\ Finished(l, list).acc = <<>> /\ Finished(l, list).offset = 0
  BY <1>1, <1>2, EmptySeq DEF Finished, LoadType, State
<1>4. /\ Finished(l, list).kind = loads[l].kind /\ Finished(l, list).state = "done"
      /\ Finished(l, list).answer = Window(loads[l].kind, list)
  BY <1>1 DEF Finished, LoadType
<1> QED BY <1>2, <1>3, <1>4, EmptySeq DEF CallOK

LEMMA LongerFacts ==
    ASSUME Types, NEW l \in Load, NEW all \in Seq(Entry), loads[l].state = "loading",
           Len(all) = loads[l].offset + PageLimit
    PROVE  /\ CallOK(Longer(l, all)) /\ Longer(l, all).acc = all
           /\ Longer(l, all).offset = loads[l].offset + PageLimit
           /\ Longer(l, all).clean = loads[l].clean /\ Longer(l, all).state = "loading"
<1>1. loads[l] \in LoadType /\ loads[l].offset + PageLimit \in Nat
  BY Constants DEF Types, LoadType
<1> QED BY <1>1 DEF Longer, CallOK, LoadType

\* The node ranks its delegates anew.
LEMMA ChangeFacts ==
    ASSUME Types, NEW i \in DOMAIN node, NEW v \in 0 .. MaxVotes, ChangeVotes(i, v)
    PROVE  node' \in [1 .. N -> Entry] /\ Names(node') = Names(node) /\ Descending(node')
<1> DEFINE list == [node EXCEPT ![i].approval = v]
<1>1. /\ node \in [1 .. N -> Entry] /\ DOMAIN node = 1 .. N /\ N \in Nat
  BY NodeFacts, Constants DEF Types, TypeOK, N
<1>2. list \in [1 .. N -> Entry] /\ \A j \in 1 .. N : list[j].name = node[j].name
  BY <1>1 DEF Entry
<1>3. node' \in Sorted(list)
  BY DEF ChangeVotes
<1> HIDE DEF list
<1>4. list \in Seq(Entry) /\ Len(list) = N /\ DOMAIN list = 1 .. N
  BY <1>1, <1>2, FunctionIsList
<1>5. node' \in Seq(Entry) /\ Len(node') = N /\ Names(node') = Names(list) /\ Descending(node')
  BY <1>3, <1>4, SortedFacts
<1>6. Names(list) = Names(node)
  BY <1>1, <1>2, <1>4 DEF Names
<1>7. node' \in [1 .. N -> Entry]
  BY <1>5, LenProperties
<1> QED BY <1>5, <1>6, <1>7

LEMMA TypesPage ==
    ASSUME Types, NEW l \in Load, PageArrives(l)
    PROVE  Types'
<1> DEFINE page == Slice(node, loads[l].offset, PageLimit)
           all  == loads[l].acc \o page
<1>1. /\ loads[l].offset \in Nat /\ page \in Seq(Entry) /\ Len(page) \in 0 .. PageLimit
      /\ all \in Seq(Entry) /\ Len(all) = loads[l].offset + Len(page)
      /\ Len(page) < PageLimit => Len(all) >= N
  BY PageFacts
<1>2. UNCHANGED <<node, changes>> /\ loads[l].state = "loading"
  BY DEF PageArrives
<1>3. loads[l] \in LoadType
  BY DEF Types
<1> HIDE DEF page, all
<1>4. CASE LastPage(page)
  <2>1. PICK list \in Sorted(all) :
          /\ allDelegates' = list /\ listClean' = loads[l].clean
          /\ fresh' = (fresh \/ loads[l].kind # "refresh")
          /\ loads' = [loads EXCEPT ![l].state = "done", ![l].acc = <<>>, ![l].offset = 0,
                                    ![l].answer = Window(loads[l].kind, list)]
    BY <1>4 DEF PageArrives, Finish, page, all
  <2>2. list \in Seq(Entry) /\ Len(list) = Len(all)
    BY <1>1, <2>1, SortedFacts
  <2>3. list # <<>>
    <3>1. Len(list) # 0
      BY <1>1, <1>4, <2>2, Constants DEF LastPage
    <3> QED BY <3>1, EmptySeq
  <2>4. loads' = [loads EXCEPT ![l] = Finished(l, list)]
    BY <2>1 DEF Types, Finished
  <2>5. CallOK(Finished(l, list))
    BY <2>2, <2>3, FinishedFacts
  <2>6. fresh' \in BOOLEAN /\ listClean' \in BOOLEAN
    BY <1>3, <2>1 DEF Types, TypeOK, LoadType
  <2> QED BY <1>2, <2>1, <2>2, <2>3, <2>4, <2>5, <2>6, TypesCall
<1>5. CASE ~LastPage(page)
  <2>1. loads' = [loads EXCEPT ![l].acc = all, ![l].offset = @ + PageLimit]
    BY <1>5 DEF PageArrives, page, all
  <2>2. UNCHANGED <<allDelegates, fresh, listClean>>
    BY <1>5 DEF PageArrives, page
  <2>3. loads' = [loads EXCEPT ![l] = Longer(l, all)]
    BY <2>1 DEF Types, Longer
  <2>4. Len(all) = loads[l].offset + PageLimit
    BY <1>1, <1>5, Constants DEF LastPage
  <2>5. CallOK(Longer(l, all))
    BY <1>1, <1>2, <2>4, LongerFacts
  <2> QED BY <1>2, <2>2, <2>3, <2>5, TypesCall DEF Types, TypeOK
<1> QED BY <1>4, <1>5

LEMMA TypesStep == Types /\ [Next]_vars => Types'
<1> SUFFICES ASSUME Types, [Next]_vars PROVE Types'
  OBVIOUS
<1>1. ASSUME NEW l \in Load, Refresh(l) PROVE Types'
  <2>1. loads' = [loads EXCEPT ![l] = Begun("refresh")] /\ CallOK(Begun("refresh"))
    BY <1>1, BegunFacts DEF Refresh, Begin, Begun, Kind
  <2> QED BY <1>1, <2>1, TypesCall DEF Refresh, Types, TypeOK
<1>2. ASSUME NEW l \in Load, PageArrives(l) PROVE Types'
  BY <1>2, TypesPage
<1>3. ASSUME NEW l \in Load, PageFails(l) PROVE Types'
  <2> DEFINE lost(k) == [loads[k] EXCEPT !.state = "lost", !.acc = <<>>, !.offset = 0]
  <2>1. \A k \in Load : CallOK(loads[k]) /\ CallOK(lost(k))
    <3>1. ASSUME NEW k \in Load
          PROVE  lost(k) \in LoadType /\ lost(k).acc = <<>> /\ lost(k).offset = 0 /\ lost(k).state = "lost"
      BY EmptySeq DEF Types, LoadType, State
    <3> HIDE DEF lost
    <3> QED BY <3>1, TypesCalls, EmptySeq DEF CallOK
  <2>2. loads' = [k \in Load |-> IF loads[k].state = "loading" THEN lost(k) ELSE loads[k]]
    BY <1>3 DEF PageFails
  <2> HIDE DEF lost
  <2>3. loads' \in [Load -> LoadType] /\ \A k \in Load : CallOK(loads'[k])
    BY <2>1, <2>2 DEF CallOK
  <2> QED BY <1>3, <2>3, TypesFromCalls, EmptySeq DEF PageFails, Types, TypeOK, N
<1>4. ASSUME NEW l \in Load, NEW kind \in {"active", "standby"}, Request(l, kind) PROVE Types'
  <2>1. kind \in Kind
    BY DEF Kind
  <2>2. CASE fresh
    <3>1. loads' = [loads EXCEPT ![l] = Served(kind, allDelegates)]
      BY <1>4, <2>2 DEF Request, Served
    <3>2. CallOK(Served(kind, allDelegates))
      BY <2>1, <2>2, ServedFacts DEF Types, TypeOK
    <3> QED BY <1>4, <3>1, <3>2, TypesCall DEF Request, Types, TypeOK
  <2>3. CASE ~fresh
    <3>1. loads' = [loads EXCEPT ![l] = Begun(kind)] /\ CallOK(Begun(kind))
      BY <1>4, <2>1, <2>3, BegunFacts DEF Request, Begin, Begun
    <3> QED BY <1>4, <3>1, TypesCall DEF Request, Types, TypeOK
  <2> QED BY <2>2, <2>3
<1>5. CASE Expire
  BY <1>5 DEF Expire, Types, TypeOK
<1>6. ASSUME NEW i \in DOMAIN node, NEW v \in 0 .. MaxVotes, ChangeVotes(i, v) PROVE Types'
  <2>1. node' \in [1 .. N -> Entry]
    BY <1>6, ChangeFacts
  <2>2. changes' \in 0 .. MaxChanges
    BY <1>6, Constants DEF ChangeVotes, Types, TypeOK
  <2> DEFINE call(l) == [loads[l] EXCEPT !.clean = @ /\ loads[l].offset = 0]
  <2>3. \A l \in Load : CallOK(call(l))
    <3>1. ASSUME NEW l \in Load
          PROVE  /\ call(l) \in LoadType /\ call(l).acc = loads[l].acc
                 /\ call(l).offset = loads[l].offset /\ call(l).kind = loads[l].kind
                 /\ call(l).state = loads[l].state /\ call(l).answer = loads[l].answer
      BY DEF Types, LoadType
    <3> HIDE DEF call
    <3> QED BY <3>1, TypesCalls DEF CallOK
  <2>4. loads' = [l \in Load |-> call(l)]
    BY <1>6 DEF ChangeVotes
  <2> HIDE DEF call
  <2>5. loads' \in [Load -> LoadType] /\ \A l \in Load : CallOK(loads'[l])
    BY <2>3, <2>4 DEF CallOK
  <2> QED BY <1>6, <2>1, <2>2, <2>5, TypesFromCalls DEF ChangeVotes, Types, TypeOK
<1>7. CASE UNCHANGED vars
  BY <1>7 DEF vars, Types, TypeOK
<1> QED BY <1>1, <1>2, <1>3, <1>4, <1>5, <1>6, <1>7 DEF Next

\* The local list of delegates and the calls that load it keep their types, whatever
\* overlaps, fails or expires; a call's offset is the number of delegates it has, and no
\* request for the active delegates is answered with an empty list.
THEOREM TypeCorrect == Spec => []TypeOK
<1>1. Types => TypeOK
  BY DEF Types
<1> QED BY <1>1, TypesInit, TypesStep, PTL DEF Spec

-----------------------------------------------------------------------------
(* A list from one ranking is that ranking. *)

LEMMA InvInit == Init => Inv
<1> SUFFICES ASSUME Init PROVE Inv
  OBVIOUS
<1>1. \A l \in Load : loads[l].state = "idle"
  BY UnusedFacts DEF Init
<1>2. Names(node) = Delegate /\ Descending(node) /\ ~listClean
  BY DEF Init
<1> QED BY <1>1, <1>2, TypesInit DEF Inv, Ranked, Progress, CleanListExact

\* A step of calls that begin, end or stand still, while the node and the list stay.
LEMMA InvKept ==
    ASSUME Inv, Types', UNCHANGED <<node, allDelegates, listClean>>,
           \A l \in Load : \/ loads'[l] = loads[l] \/ loads'[l].state # "loading"
                           \/ loads'[l].offset = 0
    PROVE  Inv'
<1>1. Ranked' /\ CleanListExact'
  BY DEF Inv, Ranked, CleanListExact
<1>2. Progress'
  BY Constants DEF Inv, Progress
<1> QED BY <1>1, <1>2 DEF Inv

\* What a call of one ranking has with the page that is there is the beginning of that ranking.
LEMMA PageClean ==
    ASSUME Inv, NEW l \in Load, loads[l].state = "loading", loads[l].clean
    PROVE  LET all == loads[l].acc \o Slice(node, loads[l].offset, PageLimit)
           IN  Len(all) <= N /\ \A k \in 1 .. Len(all) : all[k] = node[k]
<1> DEFINE o    == loads[l].offset
           page == Slice(node, o, PageLimit)
           all  == loads[l].acc \o page
<1>1. /\ o \in Nat /\ Len(page) \in Nat /\ Len(all) = o + Len(page)
      /\ o <= N => Len(all) <= N
      /\ \A k \in 1 .. o : all[k] = loads[l].acc[k]
      /\ \A k \in 1 .. Len(page) : all[o + k] = node[o + k]
  <2>1. Len(page) \in 0 .. PageLimit
    BY PageFacts DEF Inv
  <2>2. Len(page) \in Nat
    BY <2>1, Constants
  <2> QED BY <2>2, PageFacts DEF Inv
<1>2. o <= N /\ \A k \in 1 .. o : loads[l].acc[k] = node[k]
  BY DEF Inv, Progress
<1> HIDE DEF o, page, all
<1>3. ASSUME NEW k \in 1 .. Len(all) PROVE all[k] = node[k]
  <2>1. CASE k <= o
    BY <1>1, <1>2, <2>1
  <2>2. CASE ~ (k <= o)
    <3>1. k - o \in 1 .. Len(page) /\ o + (k - o) = k
      BY <1>1, <2>2
    <3>2. PICK j \in 1 .. Len(page) : o + j = k
      BY <3>1
    <3> QED BY <1>1, <3>2
  <2> QED BY <2>1, <2>2
<1> QED BY <1>1, <1>2, <1>3 DEF o, page, all

LEMMA InvPage ==
    ASSUME Inv, NEW l \in Load, PageArrives(l)
    PROVE  Inv'
<1> DEFINE page == Slice(node, loads[l].offset, PageLimit)
           all  == loads[l].acc \o page
<1>1. /\ loads[l].offset \in Nat /\ Len(page) \in 0 .. PageLimit
      /\ all \in Seq(Entry) /\ Len(all) = loads[l].offset + Len(page)
      /\ Len(page) < PageLimit => Len(all) >= N
      /\ loads[l].offset <= N => Len(all) <= N
  BY PageFacts DEF Inv
<1>2. UNCHANGED <<node, changes>> /\ loads[l].state = "loading"
  BY DEF PageArrives
<1>3. loads[l].clean => Len(all) <= N /\ \A k \in 1 .. Len(all) : all[k] = node[k]
  BY <1>2, PageClean
<1>4. loads[l] \in LoadType /\ loads[l].offset <= N
  BY <1>2 DEF Inv, Types, Progress
<1>5. Types' /\ Ranked'
  BY <1>2, TypesPage DEF Inv, Ranked
<1>6. /\ node \in Seq(Entry) /\ Len(node) = N /\ DOMAIN node = 1 .. N
      /\ Names(node) = Delegate /\ N \in Nat
  BY NodeFacts, Constants DEF Inv, Ranked
<1> HIDE DEF page, all
<1>7. CASE LastPage(page)
  <2>1. PICK list \in Sorted(all) :
          /\ allDelegates' = list /\ listClean' = loads[l].clean
          /\ loads' = [loads EXCEPT ![l].state = "done", ![l].acc = <<>>, ![l].offset = 0,
                                    ![l].answer = Window(loads[l].kind, list)]
    BY <1>7 DEF PageArrives, Finish, page, all
  <2>2. \A k \in Load : loads'[k] = loads[k] \/ loads'[k].state = "done"
    BY <2>1 DEF Inv, Types, LoadType
  <2>3. Progress'
    BY <1>2, <2>2 DEF Inv, Progress
  <2>4. Len(list) = Len(all) /\ Names(list) = Names(all) /\ Descending(list)
    BY <1>1, <2>1, SortedFacts
  <2>5. loads[l].clean => Len(all) = N /\ Names(all) = Names(node)
    <3>1. loads[l].clean => Len(all) = N
      BY <1>1, <1>3, <1>6, <1>7, Constants DEF LastPage
    <3>2. DOMAIN all = 1 .. Len(all)
      BY <1>1, LenProperties
    <3> QED BY <1>3, <1>6, <3>1, <3>2 DEF Names
  <2>6. CleanListExact'
    BY <1>6, <2>1, <2>4, <2>5 DEF CleanListExact, N
  <2> QED BY <1>5, <2>3, <2>6 DEF Inv
<1>8. CASE ~LastPage(page)
  <2>1. /\ loads' = [loads EXCEPT ![l].acc = all, ![l].offset = @ + PageLimit]
        /\ UNCHANGED <<allDelegates, fresh, listClean>>
    BY <1>8 DEF PageArrives, page, all
  <2>2. Len(all) = loads[l].offset + PageLimit
    <3>1. Len(page) = PageLimit
      BY <1>1, <1>8, Constants DEF LastPage
    <3> QED BY <1>1, <3>1
  <2>3. /\ \A k \in Load : k # l => loads'[k] = loads[k]
        /\ loads'[l].acc = all /\ loads'[l].offset = Len(all)
        /\ loads'[l].clean = loads[l].clean
    BY <2>1, <2>2 DEF Inv, Types, LoadType
  <2>4. Progress'
    <3> SUFFICES ASSUME NEW k \in Load, loads'[k].state = "loading"
                 PROVE  /\ loads'[k].offset <= N
                        /\ loads'[k].clean =>
                             \A i \in 1 .. loads'[k].offset : loads'[k].acc[i] = node[i]
      BY <1>2 DEF Progress, N
    <3>1. CASE k = l
      BY <1>1, <1>3, <1>4, <2>3, <3>1
    <3>2. CASE k # l
      BY <2>3, <3>2 DEF Inv, Progress
    <3> QED BY <3>1, <3>2
  <2>5. CleanListExact'
    BY <2>1 DEF Inv, CleanListExact
  <2> QED BY <1>5, <2>4, <2>5 DEF Inv
<1> QED BY <1>7, <1>8

LEMMA InvStep == Inv /\ [Next]_vars => Inv'
<1> SUFFICES ASSUME Inv, [Next]_vars PROVE Inv'
  OBVIOUS
<1>1. Types'
  BY TypesStep DEF Inv
<1>2. ASSUME NEW l \in Load, Refresh(l) PROVE Inv'
  <2>1. loads' = [loads EXCEPT ![l] = Begun("refresh")] /\ Begun("refresh").offset = 0
    BY <1>2, BegunFacts DEF Refresh, Begin, Begun, Kind
  <2>2. \A k \in Load : loads'[k] = loads[k] \/ loads'[k].offset = 0
    BY <2>1 DEF Inv, Types
  <2> QED BY <1>1, <1>2, <2>2, InvKept DEF Refresh
<1>3. ASSUME NEW l \in Load, PageArrives(l) PROVE Inv'
  BY <1>3, InvPage
<1>4. ASSUME NEW l \in Load, PageFails(l) PROVE Inv'
  <2>1. \A k \in Load : loads'[k] = loads[k] \/ loads'[k].state = "lost"
    BY <1>4 DEF PageFails, Inv, Types, LoadType
  <2>2. node' = node /\ listClean' = FALSE
    BY <1>4 DEF PageFails
  <2>3. Progress'
    BY <2>1, <2>2 DEF Inv, Progress
  <2> QED BY <1>1, <2>2, <2>3 DEF Inv, Ranked, CleanListExact
<1>5. ASSUME NEW l \in Load, NEW kind \in {"active", "standby"}, Request(l, kind) PROVE Inv'
  <2>1. kind \in Kind
    BY DEF Kind
  <2>2. CASE fresh
    <3>1. loads' = [loads EXCEPT ![l] = Served(kind, allDelegates)]
      BY <1>5, <2>2 DEF Request, Served
    <3>2. Served(kind, allDelegates).state = "done"
      BY <2>1, <2>2, ServedFacts DEF Inv, Types, TypeOK
    <3>3. \A k \in Load : loads'[k] = loads[k] \/ loads'[k].state = "done"
      BY <3>1, <3>2 DEF Inv, Types
    <3> QED BY <1>1, <1>5, <3>3, InvKept DEF Request
  <2>3. CASE ~fresh
    <3>1. loads' = [loads EXCEPT ![l] = Begun(kind)] /\ Begun(kind).offset = 0
      BY <1>5, <2>1, <2>3, BegunFacts DEF Request, Begin, Begun
    <3>2. \A k \in Load : loads'[k] = loads[k] \/ loads'[k].offset = 0
      BY <3>1 DEF Inv, Types
    <3> QED BY <1>1, <1>5, <3>2, InvKept DEF Request
  <2> QED BY <2>2, <2>3
<1>6. CASE Expire
  BY <1>1, <1>6, InvKept DEF Expire
<1>7. ASSUME NEW i \in DOMAIN node, NEW v \in 0 .. MaxVotes, ChangeVotes(i, v) PROVE Inv'
  <2>1. Ranked'
    BY <1>7, ChangeFacts DEF Inv, Ranked
  <2>2. \A l \in Load :
          /\ loads'[l].state = loads[l].state /\ loads'[l].offset = loads[l].offset
          /\ loads'[l].clean => loads[l].offset = 0
    BY <1>7 DEF ChangeVotes, Inv, Types, LoadType
  <2>3. Progress'
    BY <2>2, Constants DEF Inv, Progress
  <2>4. CleanListExact'
    BY <1>7 DEF ChangeVotes, Inv, CleanListExact
  <2> QED BY <1>1, <2>1, <2>3, <2>4 DEF Inv
<1>8. CASE UNCHANGED vars
  BY <1>1, <1>8, InvKept DEF vars
<1> QED BY <1>2, <1>3, <1>4, <1>5, <1>6, <1>7, <1>8 DEF Next

LEMMA InvCorrect == Spec => []Inv
BY InvInit, InvStep, PTL DEF Spec

\* A local list whose pages come from one ranking holds every delegate exactly once and in
\* that order, whatever other loads have done meanwhile, and also when the delegates fill
\* the last page to the brim.
THEOREM CleanListCorrect == Spec => []CleanListExact
<1>1. Inv => CleanListExact
  BY DEF Inv
<1> QED BY <1>1, InvCorrect, PTL

-----------------------------------------------------------------------------
(* Standby delegates. *)

\* A list with as many entries as names has each name once.
LEMMA NamesOnce ==
    ASSUME NEW list \in Seq(Entry), Names(list) = Delegate, Len(list) = N
    PROVE  \A i, j \in 1 .. N : list[i].name = list[j].name => i = j
<1> DEFINE f == [i \in 1 .. N |-> list[i].name]
<1>1. DOMAIN list = 1 .. N /\ N \in Nat
  BY LenProperties, Constants
<1>2. \A i \in 1 .. N : list[i].name \in Delegate
  BY <1>1 DEF Names
<1>3. \A d \in Delegate : \E i \in 1 .. N : list[i].name = d
  BY <1>1 DEF Names
<1>4. f \in Surjection(1 .. N, Delegate)
  BY <1>2, <1>3 DEF Surjection
<1>5. IsFiniteSet(1 .. N) /\ Cardinality(1 .. N) = Cardinality(Delegate)
  BY <1>1, FS_Interval DEF N
<1>6. f \in Injection(1 .. N, Delegate)
  BY <1>4, <1>5, FS_SurjSameCardinalityImpliesInj
<1> QED BY <1>6 DEF Injection, IsInjective

\* The standby delegates of a list that has every delegate once.
LEMMA WindowsApart ==
    ASSUME NEW list \in Seq(Entry), Names(list) = Delegate, Len(list) = N, Descending(list)
    PROVE  LET active  == Window("active", list)
               standby == Window("standby", list)
           IN  /\ Names(standby) \cap Names(active) = {}
               /\ \A i \in DOMAIN active, j \in DOMAIN standby :
                    active[i].approval >= standby[j].approval
<1> DEFINE active  == Slice(list, 0, ActiveSize)
           standby == Slice(list, ActiveSize, StandbySize)
<1>1. /\ ActiveSize \in Nat \ {0} /\ StandbySize \in Nat /\ N \in Nat
      /\ DOMAIN list = 1 .. N
  BY LenProperties, Constants
<1>2. /\ active \in Seq(Entry) /\ Len(active) <= ActiveSize
      /\ \A k \in 1 .. Len(active) : 0 + k \in 1 .. N /\ active[k] = list[0 + k]
  <2>1. active \in Seq(Entry)
    BY <1>1, SliceFacts
  <2>2. \A k \in 1 .. Len(active) : 0 + k \in 1 .. N /\ active[k] = list[0 + k]
    <3>1. ActiveSize \in Nat /\ 0 \in Nat
      BY <1>1
    <3>2. \A k \in 1 .. Len(active) : 0 + k \in 1 .. Len(list) /\ active[k] = list[0 + k]
      BY <3>1, SliceFacts
    <3> QED BY <3>2
  <2>3. Len(active) <= ActiveSize
    <3> DEFINE last == IF 0 + ActiveSize < Len(list) THEN 0 + ActiveSize ELSE Len(list)
    <3>1. Len(active) = IF 0 < last THEN last - 0 ELSE 0
      BY <1>1, SliceFacts
    <3>2. last \in Int /\ last <= ActiveSize
      BY <1>1
    <3> HIDE DEF last, active
    <3> QED BY <1>1, <3>1, <3>2
  <2> QED BY <2>1, <2>2, <2>3
<1>3. /\ standby \in Seq(Entry)
      /\ \A k \in 1 .. Len(standby) :
           ActiveSize + k \in 1 .. N /\ standby[k] = list[ActiveSize + k]
  <2>1. ActiveSize \in Nat /\ StandbySize \in Nat
    BY <1>1
  <2>2. /\ Slice(list, ActiveSize, StandbySize) \in Seq(Entry)
        /\ \A k \in 1 .. Len(Slice(list, ActiveSize, StandbySize)) :
             /\ ActiveSize + k \in 1 .. Len(list)
             /\ Slice(list, ActiveSize, StandbySize)[k] = list[ActiveSize + k]
    BY <2>1, SliceFacts
  <2> QED BY <2>2
<1>4. Window("active", list) = active /\ Window("standby", list) = standby
  BY DEF Window
<1>5. /\ DOMAIN active = 1 .. Len(active) /\ DOMAIN standby = 1 .. Len(standby)
      /\ Len(active) \in Nat /\ Len(standby) \in Nat
  BY <1>2, <1>3, LenProperties
<1> HIDE DEF active, standby
<1>6. ASSUME NEW i \in 1 .. Len(active), NEW j \in 1 .. Len(standby)
      PROVE  active[i].approval >= standby[j].approval /\ active[i].name # standby[j].name
  <2>1. PICK a \in 1 .. N : a = i /\ a <= ActiveSize /\ active[i] = list[a]
    <3>1. 0 + i = i /\ i <= ActiveSize
      BY <1>1, <1>2, <1>5
    <3> QED BY <1>2, <3>1
  <2>2. PICK b \in 1 .. N : b = ActiveSize + j /\ standby[j] = list[b]
    BY <1>3
  <2>3. a < b
    BY <1>1, <1>5, <2>1, <2>2
  <2>4. list[a].approval >= list[b].approval
    BY <1>1, <2>3 DEF Descending
  <2>5. list[a].name # list[b].name
    <3>1. a # b
      BY <1>1, <2>3
    <3> QED BY <3>1, NamesOnce
  <2> QED BY <2>1, <2>2, <2>4, <2>5
<1>7. Names(standby) \cap Names(active) = {}
  BY <1>5, <1>6 DEF Names
<1> QED BY <1>4, <1>5, <1>6, <1>7

\* What a call is answered with is cut from the list that is kept at that time.
LEMMA AnswerFromList ==
    ASSUME Types, [Next]_vars, NEW l \in Load, Answered(l)
    PROVE  loads'[l].answer = Window(loads'[l].kind, allDelegates')
<1>1. loads[l].state # "done" /\ loads'[l].state = "done"
  BY DEF Answered
<1>2. ASSUME NEW k \in Load, Refresh(k) PROVE FALSE
  <2>1. loads' = [loads EXCEPT ![k] = Begun("refresh")] /\ Begun("refresh").state = "loading"
    BY <1>2, BegunFacts DEF Refresh, Begin, Begun, Kind
  <2> QED BY <1>1, <2>1 DEF Types
<1>3. ASSUME NEW k \in Load, PageArrives(k)
      PROVE  loads'[l].answer = Window(loads'[l].kind, allDelegates')
  <2> DEFINE page == Slice(node, loads[k].offset, PageLimit)
             all  == loads[k].acc \o page
  <2>1. CASE LastPage(page)
    <3>1. PICK list \in Sorted(all) :
            /\ allDelegates' = list
            /\ loads' = [loads EXCEPT ![k].state = "done", ![k].acc = <<>>, ![k].offset = 0,
                                      ![k].answer = Window(loads[k].kind, list)]
      BY <1>3, <2>1 DEF PageArrives, Finish
    <3>2. k = l
      BY <1>1, <3>1 DEF Types
    <3>3. loads'[l].kind = loads[l].kind /\ loads'[l].answer = Window(loads[l].kind, list)
      BY <3>1, <3>2 DEF Types, LoadType
    <3> QED BY <3>1, <3>3
  <2>2. CASE ~LastPage(page)
    <3>1. loads' = [loads EXCEPT ![k].acc = all, ![k].offset = @ + PageLimit]
      BY <1>3, <2>2 DEF PageArrives
    <3>2. loads'[l].state = loads[l].state
      BY <3>1 DEF Types, LoadType
    <3> QED BY <1>1, <3>2
  <2> QED BY <2>1, <2>2
<1>4. ASSUME NEW k \in Load, PageFails(k) PROVE FALSE
  <2>1. loads'[l] = loads[l] \/ loads'[l].state = "lost"
    BY <1>4 DEF PageFails, Types, LoadType
  <2> QED BY <1>1, <2>1
<1>5. ASSUME NEW k \in Load, NEW kind \in {"active", "standby"}, Request(k, kind)
      PROVE  loads'[l].answer = Window(loads'[l].kind, allDelegates')
  <2>1. kind \in Kind
    BY DEF Kind
  <2>2. CASE fresh
    <3>1. loads' = [loads EXCEPT ![k] = Served(kind, allDelegates)] /\ allDelegates' = allDelegates
      BY <1>5, <2>2 DEF Request, Served
    <3>2. k = l
      BY <1>1, <3>1 DEF Types
    <3>3. loads'[l] = Served(kind, allDelegates)
      BY <3>1, <3>2 DEF Types
    <3>4. Served(kind, allDelegates).kind = kind
      BY <2>1, UnusedFacts DEF Served, LoadType
    <3>5. Served(kind, allDelegates).answer = Window(kind, allDelegates)
      BY UnusedFacts DEF Served, LoadType
    <3> QED BY <3>1, <3>3, <3>4, <3>5
  <2>3. CASE ~fresh
    <3>1. loads' = [loads EXCEPT ![k] = Begun(kind)] /\ Begun(kind).state = "loading"
      BY <1>5, <2>1, <2>3, BegunFacts DEF Request, Begin, Begun
    <3> QED BY <1>1, <3>1 DEF Types
  <2> QED BY <2>2, <2>3
<1>6. CASE Expire
  BY <1>1, <1>6 DEF Expire
<1>7. ASSUME NEW i \in DOMAIN node, NEW v \in 0 .. MaxVotes, ChangeVotes(i, v) PROVE FALSE
  <2>1. loads'[l].state = loads[l].state
    BY <1>7 DEF ChangeVotes, Types, LoadType
  <2> QED BY <1>1, <2>1
<1>8. CASE UNCHANGED vars
  BY <1>1, <1>8 DEF vars
<1> QED BY <1>2, <1>3, <1>4, <1>5, <1>6, <1>7, <1>8 DEF Next

\* An answer for standby delegates, cut from a list that comes from one ranking, shows none
\* that the same list has among the active delegates, and none that is better than those.
THEOREM StandbyCorrect == Spec => StandbyBehindActive
<1>1. Inv /\ Inv' /\ [Next]_vars => AnswersBehind
  <2> SUFFICES ASSUME Inv, Inv', [Next]_vars, NEW l \in Load, Answered(l),
                      loads'[l].kind = "standby", listClean'
               PROVE  LET active == Window("active", allDelegates')
                      IN  /\ Names(loads'[l].answer) \cap Names(active) = {}
                          /\ \A i \in DOMAIN active, j \in DOMAIN loads'[l].answer :
                               active[i].approval >= loads'[l].answer[j].approval
    BY DEF AnswersBehind
  <2>1. loads'[l].answer = Window("standby", allDelegates')
    BY AnswerFromList DEF Inv
  <2>2. /\ allDelegates' \in Seq(Entry) /\ Names(allDelegates') = Delegate
        /\ Len(allDelegates') = N /\ Descending(allDelegates')
    BY DEF Inv, Types, TypeOK, CleanListExact, N
  <2> QED BY <2>1, <2>2, WindowsApart
<1> QED BY <1>1, InvCorrect, PTL DEF Spec, StandbyBehindActive
=============================================================================
