------------------------- MODULE NetworkMonitorProofs -------------------------
(* Proofs about NetworkMonitor: its types, and that the list of peers holds   *)
(* each peer once, for any peers, sizes of pages and lookups under way.       *)
EXTENDS NetworkMonitor, SequenceTheorems, TLAPS

\* What getPeers has collected: each peer once, none that is hidden, and all of
\* them among the addresses it tells known peers by.
Collected ==
    /\ \A e, f \in pages.list : e.peer = f.peer => e = f
    /\ \A e \in pages.list : e.peer \in pages.ips /\ e.peer \notin Hidden

PagesType == [offset : 0 .. MaxOffset, ips : SUBSET Peer, list : SUBSET Entry]

\* TypeOK, and the keys of the call of getPeers.
Types == TypeOK /\ pages \in PagesType

\* ListedOnce is not inductive: it says nothing of the list under way.
Inv == Types /\ Collected /\ ListedOnce

-----------------------------------------------------------------------------
(* Type correctness. *)

\* What the constants are.
LEMMA Constants ==
    /\ PageLimit \in Nat /\ PageLimit > 0 /\ MaxOffset \in Nat /\ MaxLookups \in Nat
    /\ MaxChanges \in Nat /\ MaxFaults \in Nat
    /\ "Peers" \in Getter /\ Other \subseteq Getter
BY PeerAssumption DEF Getter

\* The state of a process that has just begun or crashed.
LEMMA NothingFacts ==
    /\ NoPages \in PagesType /\ NoPages.list = {} /\ NoPages.ips = {}
    /\ NoLookup \in Lookup
BY Constants DEF NoPages, PagesType, NoLookup, Lookup

\* Types says of pages what PagesType says.
LEMMA TypesFrom ==
    ASSUME node' \in Seq(Peer), changes' \in 0 .. MaxChanges, faults' \in 0 .. MaxFaults,
           phase' \in {"down", "starting", "live", "failed"},
           running' \in [Getter -> BOOLEAN], waiting' \subseteq Getter, pages' \in PagesType,
           filled' = IF phase' = "live" THEN Getter ELSE {}, listed' \subseteq Entry,
           cache' \in [Peer -> Location], lookups' \in [Peer -> [Slot -> Lookup]]
    PROVE  Types'
<1>1. pages'.offset \in 0 .. MaxOffset /\ pages'.ips \subseteq Peer /\ pages'.list \subseteq Entry
  BY DEF PagesType
<1> QED BY <1>1 DEF Types, TypeOK

LEMMA TypesInit == Init => Types
<1> SUFFICES ASSUME Init PROVE Types
  OBVIOUS
<1>1. /\ pages.offset \in 0 .. MaxOffset /\ pages.ips \subseteq Peer /\ pages.list \subseteq Entry
      /\ pages \in PagesType
  BY NothingFacts DEF Init, PagesType
<1>2. node \in Seq(Peer) /\ changes \in 0 .. MaxChanges /\ faults \in 0 .. MaxFaults
  BY Constants, EmptySeq DEF Init
<1>3. cache \in [Peer -> Location] /\ lookups \in [Peer -> [Slot -> Lookup]]
  BY NothingFacts DEF Init, Location
<1>4. running \in [Getter -> BOOLEAN] /\ waiting \subseteq Getter
  BY DEF Init
<1> QED BY <1>1, <1>2, <1>3, <1>4 DEF Init, Types, TypeOK

\* Parts of the node's list make a list.
LEMMA PartFacts ==
    ASSUME Types, NEW i \in Int, NEW j \in Int, 1 <= i, j <= Len(node)
    PROVE  SubSeq(node, i, j) \in Seq(Peer)
<1>1. node \in Seq(Peer) /\ Len(node) \in Nat
  BY LenProperties DEF Types, TypeOK
<1>2. \A k \in i .. j : node[k] \in Peer
  BY <1>1, ElementOfSeq
<1> QED BY <1>2, SubSeqProperties

LEMMA NodeType ==
    ASSUME Types
    PROVE  /\ \A p \in Peer : PeerComes(p) => node' \in Seq(Peer)
           /\ \A k \in DOMAIN node : PeerGoes(k) => node' \in Seq(Peer)
<1>1. node \in Seq(Peer) /\ Len(node) \in Nat /\ DOMAIN node = 1 .. Len(node)
  BY LenProperties DEF Types, TypeOK
<1>2. ASSUME NEW p \in Peer, PeerComes(p) PROVE node' \in Seq(Peer)
  <2>1. PICK k \in 0 .. Len(node) :
          node' = SubSeq(node, 1, k) \o <<p>> \o SubSeq(node, k + 1, Len(node))
    BY <1>2 DEF PeerComes
  <2>2. SubSeq(node, 1, k) \in Seq(Peer) /\ SubSeq(node, k + 1, Len(node)) \in Seq(Peer)
    BY <1>1, PartFacts
  <2> QED BY <2>1, <2>2
<1>3. ASSUME NEW k \in DOMAIN node, PeerGoes(k) PROVE node' \in Seq(Peer)
  <2>1. SubSeq(node, 1, k - 1) \in Seq(Peer) /\ SubSeq(node, k + 1, Len(node)) \in Seq(Peer)
    BY <1>1, PartFacts
  <2> QED BY <1>3, <2>1 DEF PeerGoes
<1> QED BY <1>2, <1>3

\* The new peers of a page are peers.
LEMMA NewFacts ==
    ASSUME Types
    PROVE  New(pages.ips) \subseteq Peer \ (Hidden \cup pages.ips)
<1> DEFINE last == IF pages.offset + PageLimit < Len(node)
                   THEN pages.offset + PageLimit ELSE Len(node)
<1>1. pages.offset \in Nat /\ Len(node) \in Nat
  BY LenProperties, Constants DEF Types, TypeOK
<1>2. Page \in Seq(Peer)
  <2>1. last \in Int /\ last <= Len(node) /\ pages.offset + 1 \in Int /\ 1 <= pages.offset + 1
    BY <1>1, Constants
  <2> HIDE DEF last
  <2>2. SubSeq(node, pages.offset + 1, last) \in Seq(Peer)
    BY <2>1, PartFacts
  <2> QED BY <2>2 DEF Page, last
<1>3. \A i \in DOMAIN Page : Page[i] \in Peer
  BY <1>2, LenProperties, ElementOfSeq
<1> QED BY <1>3 DEF New

LEMMA LocateType ==
    ASSUME Types, NEW P, \A p \in P : FreeSlots(p) # {}, Locate(P)
    PROVE  lookups' \in [Peer -> [Slot -> Lookup]]
<1>1. [place |-> "asked", name |-> "asked"] \in Lookup
  BY DEF Lookup
<1>2. ASSUME NEW p \in P, NEW s \in Slot
      PROVE  (CHOOSE t \in FreeSlots(p) : TRUE) \in Slot
  BY DEF FreeSlots
<1>3. lookups \in [Peer -> [Slot -> Lookup]]
  BY DEF Types, TypeOK
<1> DEFINE asks(p) == [lookups[p] EXCEPT ![CHOOSE s \in FreeSlots(p) : TRUE]
                         = [place |-> "asked", name |-> "asked"]]
<1>4. \A p \in Peer : asks(p) \in [Slot -> Lookup]
  BY <1>1, <1>3
<1>5. lookups' = [p \in Peer |-> IF p \in P THEN asks(p) ELSE lookups[p]]
  BY DEF Locate
<1> HIDE DEF asks
<1> QED BY <1>3, <1>4, <1>5

LEMMA UpdateType ==
    ASSUME Types, NEW ips, Update(ips)
    PROVE  cache' \in [Peer -> Location]
BY DEF Types, TypeOK, Update, Location

\* A getter ends, the one way or the other.
LEMMA SucceedsType ==
    ASSUME Types, NEW g \in Getter, Succeeds(g)
    PROVE  /\ phase' \in {"down", "starting", "live", "failed"}
           /\ running' \in [Getter -> BOOLEAN] /\ waiting' \subseteq Getter
           /\ filled' = IF phase' = "live" THEN Getter ELSE {}
BY DEF Succeeds, Types, TypeOK

LEMMA FailsType ==
    ASSUME Types, NEW g \in Getter, Fails(g)
    PROVE  /\ phase' \in {"down", "starting", "live", "failed"}
           /\ running' \in [Getter -> BOOLEAN] /\ waiting' \subseteq Getter
           /\ filled' = IF phase' = "live" THEN Getter ELSE {}
BY DEF Fails, Types, TypeOK

\* The entries a page adds to the list.
Added == {[page |-> pages.offset, peer |-> p, location |-> cache[p]] : p \in New(pages.ips)}

LEMMA AddedFacts ==
    ASSUME Types
    PROVE  /\ Added \subseteq Entry
           /\ \A e \in Added : e.peer \in New(pages.ips)
           /\ \A e, f \in Added : e.peer = f.peer => e = f
<1>1. pages.offset \in Nat /\ cache \in [Peer -> Location]
  BY Constants DEF Types, TypeOK
<1>2. New(pages.ips) \subseteq Peer
  BY NewFacts
<1> QED BY <1>1, <1>2 DEF Added, Entry

LEMMA TypesPage ==
    ASSUME Types, PageArrives
    PROVE  Types'
<1> DEFINE ips  == pages.ips \cup New(pages.ips)
           list == pages.list \cup Added
<1>1. ips \subseteq Peer /\ list \subseteq Entry
  BY NewFacts, AddedFacts DEF Types, TypeOK
<1>2. lookups' \in [Peer -> [Slot -> Lookup]]
  BY LocateType DEF PageArrives
<1>3. UNCHANGED <<node, changes, faults>>
  BY DEF PageArrives, env
<1>4. CASE IsLast
  <2>1. Update(ips) /\ listed' = list /\ pages' = NoPages /\ Succeeds("Peers")
    BY <1>4 DEF PageArrives, Added
  <2>2. cache' \in [Peer -> Location]
    BY <2>1, UpdateType
  <2> QED BY <1>1, <1>2, <1>3, <2>1, <2>2, SucceedsType, TypesFrom, NothingFacts, Constants
          DEF Types, TypeOK
<1>5. CASE ~IsLast
  <2>1. /\ pages' = [offset |-> pages.offset + PageLimit, ips |-> ips, list |-> list]
        /\ UNCHANGED <<phase, running, waiting, filled, listed, cache>>
    BY <1>5 DEF PageArrives, Added, data
  <2>2. pages.offset + PageLimit \in 0 .. MaxOffset
    BY <1>5, Constants DEF IsLast, Types, TypeOK
  <2>3. pages' \in PagesType
    BY <1>1, <2>1, <2>2 DEF PagesType
  <2> QED BY <1>2, <1>3, <2>1, <2>3, TypesFrom DEF Types, TypeOK
<1> QED BY <1>4, <1>5

LEMMA TypesCrash ==
    ASSUME Types, Crash, UNCHANGED <<node, changes, faults>>
    PROVE  Types'
<1>1. cache' \in [Peer -> Location] /\ lookups' \in [Peer -> [Slot -> Lookup]]
  BY NothingFacts DEF Crash, Location
<1>2. running' \in [Getter -> BOOLEAN] /\ waiting' \subseteq Getter
  BY DEF Crash
<1> QED BY <1>1, <1>2, NothingFacts, TypesFrom DEF Crash, Types, TypeOK

\* A lookup gets an answer.
LEMMA TypesAnswer ==
    ASSUME Types, NEW p \in Peer, NEW s \in Slot, Answer(p, s)
    PROVE  Types' /\ UNCHANGED <<pages, listed>>
<1>1. /\ lookups \in [Peer -> [Slot -> Lookup]] /\ cache \in [Peer -> Location]
      /\ lookups[p][s] \in Lookup
  BY DEF Types, TypeOK
<1>2. ASSUME NEW location \in Location, Ends(p, s, location)
      PROVE  cache' \in [Peer -> Location] /\ lookups' \in [Peer -> [Slot -> Lookup]]
  BY <1>1, <1>2, NothingFacts DEF Ends
<1>3. "full" \in Location /\ "partial" \in Location
  BY DEF Location
<1>4. /\ cache' \in [Peer -> Location] /\ lookups' \in [Peer -> [Slot -> Lookup]]
      /\ UNCHANGED <<node, changes, faults, phase, running, waiting, pages, filled, listed>>
  <2>1. ASSUME NEW place \in {"ok", "empty"}, Place(p, s, place)
        PROVE  /\ cache' \in [Peer -> Location] /\ lookups' \in [Peer -> [Slot -> Lookup]]
               /\ UNCHANGED <<node, changes, faults, phase, running, waiting, pages, filled, listed>>
    <3>1. [lookups[p][s] EXCEPT !.place = place] \in Lookup
      BY <1>1 DEF Lookup
    <3>2. ASSUME lookups[p][s].name = "ok"
          PROVE  cache' \in [Peer -> Location] /\ lookups' \in [Peer -> [Slot -> Lookup]]
      <4>1. Ends(p, s, IF place = "ok" THEN "full" ELSE "partial")
        BY <2>1, <3>2 DEF Place
      <4>2. (IF place = "ok" THEN "full" ELSE "partial") \in Location
        BY <1>3
      <4> QED BY <1>2, <4>1, <4>2
    <3>3. ASSUME lookups[p][s].name # "ok"
          PROVE  cache' \in [Peer -> Location] /\ lookups' \in [Peer -> [Slot -> Lookup]]
      <4>1. lookups' = [lookups EXCEPT ![p][s].place = place] /\ cache' = cache
        BY <2>1, <3>3 DEF Place
      <4>2. lookups' = [lookups EXCEPT ![p][s] = [lookups[p][s] EXCEPT !.place = place]]
        BY <1>1, <4>1
      <4> QED BY <1>1, <3>1, <4>1, <4>2
    <3>4. UNCHANGED <<node, changes, faults, phase, running, waiting, pages, filled, listed>>
      BY <2>1 DEF Place, env, data
    <3> QED BY <3>2, <3>3, <3>4
  <2>2. CASE PlaceFails(p, s)
    BY <1>2, <1>3, <2>2 DEF PlaceFails, env, data
  <2>3. CASE NameArrives(p, s)
    <3>1. [lookups[p][s] EXCEPT !.name = "ok"] \in Lookup
      BY <1>1 DEF Lookup
    <3>2. ASSUME lookups[p][s].place = "asked"
          PROVE  cache' \in [Peer -> Location] /\ lookups' \in [Peer -> [Slot -> Lookup]]
      <4>1. lookups' = [lookups EXCEPT ![p][s].name = "ok"] /\ cache' = cache
        BY <2>3, <3>2 DEF NameArrives
      <4>2. lookups' = [lookups EXCEPT ![p][s] = [lookups[p][s] EXCEPT !.name = "ok"]]
        BY <1>1, <4>1
      <4> QED BY <1>1, <3>1, <4>1, <4>2
    <3>3. ASSUME lookups[p][s].place # "asked"
          PROVE  cache' \in [Peer -> Location] /\ lookups' \in [Peer -> [Slot -> Lookup]]
      <4>1. Ends(p, s, IF lookups[p][s].place = "ok" THEN "full" ELSE "partial")
        BY <2>3, <3>3 DEF NameArrives
      <4>2. (IF lookups[p][s].place = "ok" THEN "full" ELSE "partial") \in Location
        BY <1>3
      <4> QED BY <1>2, <4>1, <4>2
    <3>4. UNCHANGED <<node, changes, faults, phase, running, waiting, pages, filled, listed>>
      BY <2>3 DEF NameArrives, env, data
    <3> QED BY <3>2, <3>3, <3>4
  <2>4. CASE NameFails(p, s)
    BY <1>2, <1>3, <2>4 DEF NameFails, env, data
  <2> QED BY <2>1, <2>2, <2>3, <2>4 DEF Answer, PlaceArrives, PlaceRefused
<1> QED BY <1>4, TypesFrom DEF Types, TypeOK

LEMMA TypesStep == Types /\ [Next]_vars => Types'
<1> SUFFICES ASSUME Types, [Next]_vars PROVE Types'
  OBVIOUS
<1>1. ASSUME NEW p \in Peer, PeerComes(p) PROVE Types'
  <2>1. node' \in Seq(Peer)
    BY <1>1, NodeType
  <2> QED BY <1>1, <2>1, Constants DEF PeerComes, data, Types, TypeOK
<1>2. ASSUME NEW k \in DOMAIN node, PeerGoes(k) PROVE Types'
  <2>1. node' \in Seq(Peer)
    BY <1>2, NodeType
  <2> QED BY <1>2, <2>1, Constants DEF PeerGoes, data, Types, TypeOK
<1>3. CASE Start
  BY <1>3 DEF Start, env, data, Types, TypeOK
<1>4. CASE PageArrives
  BY <1>4, TypesPage
<1>5. CASE HiddenPage
  BY <1>5, TypesCrash DEF HiddenPage, env
<1>6. CASE PageFails
  <2>1. faults' \in 0 .. MaxFaults /\ cache' \in [Peer -> Location] /\ Fails("Peers")
    BY <1>6, UpdateType, Constants DEF PageFails, Fault, Types, TypeOK
  <2> QED BY <1>6, <2>1, FailsType, TypesFrom, NothingFacts, Constants
          DEF PageFails, env, Types, TypeOK
<1>7. ASSUME NEW g \in Getter, Tick(g) PROVE Types'
  BY <1>7 DEF Tick, env, data, Types, TypeOK
<1>8. ASSUME NEW g \in Other, Arrives(g) PROVE Types'
  <2>1. g \in Getter
    BY Constants
  <2> QED BY <1>8, <2>1, SucceedsType, TypesFrom DEF Arrives, env, Types, TypeOK
<1>9. ASSUME NEW g \in Other, RequestFails(g) PROVE Types'
  <2>1. g \in Getter
    BY Constants
  <2>2. faults' \in 0 .. MaxFaults
    BY <1>9, Constants DEF RequestFails, Fault, Types, TypeOK
  <2> QED BY <1>9, <2>1, <2>2, FailsType, TypesFrom DEF RequestFails, env, Types, TypeOK
<1>10. ASSUME NEW p \in Peer, NEW s \in Slot, Answer(p, s) PROVE Types'
  BY <1>10, TypesAnswer
<1>11. CASE UNCHANGED vars
  BY <1>11 DEF vars, Types, TypeOK
<1> QED BY <1>1, <1>2, <1>3, <1>4, <1>5, <1>6, <1>7, <1>8, <1>9, <1>10, <1>11 DEF Next

\* The monitor's state keeps its types, whatever comes, goes, fails or is looked up: no page
\* beyond the last is asked for, and the data have all their keys or none.
THEOREM TypeCorrect == Spec => []TypeOK
<1>1. Types => TypeOK
  BY DEF Types
<1> QED BY <1>1, TypesInit, TypesStep, PTL DEF Spec

-----------------------------------------------------------------------------
(* Each peer once. *)

LEMMA InvInit == Init => Inv
<1> SUFFICES ASSUME Init PROVE Inv
  OBVIOUS
<1>1. pages.list = {} /\ listed = {}
  BY DEF Init, NoPages
<1> QED BY <1>1, TypesInit DEF Inv, Collected, ListedOnce

LEMMA InvPage ==
    ASSUME Inv, PageArrives
    PROVE  Inv'
<1> DEFINE ips  == pages.ips \cup New(pages.ips)
           list == pages.list \cup Added
<1>1. Types'
  BY TypesPage DEF Inv
<1>2. New(pages.ips) \cap pages.ips = {} /\ New(pages.ips) \cap Hidden = {}
  BY NewFacts DEF Inv
<1>3. \A e \in list : e.peer \in ips /\ e.peer \notin Hidden
  BY <1>2, AddedFacts DEF Inv, Collected
<1>4. \A e, f \in list : e.peer = f.peer => e = f
  BY <1>2, AddedFacts DEF Inv, Collected
<1>5. CASE IsLast
  <2>1. listed' = list /\ pages' = NoPages
    BY <1>5 DEF PageArrives, Added
  <2> HIDE DEF list, ips
  <2> QED BY <1>1, <1>3, <1>4, <2>1, NothingFacts DEF Inv, Collected, ListedOnce
<1>6. CASE ~IsLast
  <2>1. pages'.ips = ips /\ pages'.list = list /\ UNCHANGED listed
    BY <1>6 DEF PageArrives, Added, data
  <2> HIDE DEF list, ips
  <2> QED BY <1>1, <1>3, <1>4, <2>1 DEF Inv, Collected, ListedOnce
<1> QED BY <1>5, <1>6

LEMMA InvStep == Inv /\ [Next]_vars => Inv'
<1> SUFFICES ASSUME Inv, [Next]_vars PROVE Inv'
  OBVIOUS
<1>1. Types'
  BY TypesStep DEF Inv
<1>2. CASE PageArrives
  BY <1>2, InvPage
<1>3. CASE (pages' = pages \/ pages' = NoPages) /\ (listed' = listed \/ listed' = {})
  BY <1>1, <1>3, NothingFacts DEF Inv, Collected, ListedOnce
<1>4. ASSUME NEW p \in Peer, NEW s \in Slot, Answer(p, s) PROVE UNCHANGED <<pages, listed>>
  BY <1>4, TypesAnswer DEF Inv
<1>5. \/ (pages' = pages \/ pages' = NoPages) /\ (listed' = listed \/ listed' = {})
      \/ PageArrives
  BY <1>4 DEF Next, PeerComes, PeerGoes, Start, HiddenPage, Crash, PageFails, Tick, Arrives,
              RequestFails, data, vars
<1> QED BY <1>2, <1>3, <1>5

\* The list of peers shows no peer twice and none that is 0.0.0.0, however the node's pages
\* move while they are read: a peer that moved to a later page is told by its address.
THEOREM ListedOnceCorrect == Spec => []ListedOnce
<1>1. Inv => ListedOnce
  BY DEF Inv
<1> QED BY <1>1, InvInit, InvStep, PTL DEF Spec
==============================================================================
