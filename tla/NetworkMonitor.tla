--------------------------- MODULE NetworkMonitor ---------------------------
(***************************************************************************)
(* The /networkMonitor namespace: sockets/networkMonitor.js on top of      *)
(* lib/api/statistics.js.  It keeps the last block, figures of the blocks  *)
(* of a day, and the peers the node knows, with the place where each is.   *)
(* Peers come page by page; places come from a cache that is filled in the *)
(* background by two requests per peer, for its place and for its name.    *)
(*                                                                         *)
(* What the node answers about its peers and when that answer is looked at *)
(* are one step: nothing else the code does depends on the node's peers in *)
(* between.  Clients are sent the data whenever they change, so the data   *)
(* are what clients see.                                                   *)
(***************************************************************************)
EXTENDS Integers, Sequences, FiniteSets

CONSTANTS
    Other,       \* the getters besides Peers: LastBlock and Blocks
    Peer,        \* addresses of peers
    Hidden,      \* those among them that are 0.0.0.0
    NoName,      \* those whose reverse DNS lookup fails
    NoPlace,     \* those the geo-IP service knows nothing of
    PageLimit,   \* peers on a page: 100 in the code
    MaxOffset,   \* the last page that is asked for: 900 in the code
    MaxLookups,  \* bound of the model: lookups under way for a peer
    MaxChanges,  \* bound of the model: peers that come and go
    MaxFaults    \* bound of the model: requests to the node that fail

ASSUME PeerAssumption ==
    /\ "Peers" \notin Other
    /\ Hidden \subseteq Peer /\ NoName \subseteq Peer /\ NoPlace \subseteq Peer
    /\ PageLimit \in Nat \ {0} /\ MaxOffset \in Nat /\ MaxLookups \in Nat \ {0}
    /\ MaxChanges \in Nat /\ MaxFaults \in Nat

VARIABLES
    node,     \* the peers the node knows, in the order of its pages
    changes,  \* how often they have changed
    faults,   \* requests that have failed
    phase,    \* "down" | "starting" | "live" | "failed"
    running,  \* the flags of `running`
    waiting,  \* getters the first load waits for
    pages,    \* the call of getPeers: how far it is, its ips and its list
    filled,   \* the keys of data
    listed,   \* data.peers, and before the first load is done its result; their order,
              \* which is that of the pages, is left out
    cache,    \* cache of the Locator
    lookups   \* calls of getLocation under way

vars == <<node, changes, faults, phase, running, waiting, pages, filled, listed,
          cache, lookups>>

env  == <<node, changes>>
data == <<filled, listed>>

Getter == Other \cup {"Peers"}
Slot   == 1 .. MaxLookups

\* A location in the cache: none, one without coordinates, or one with them.
Location == {"none", "partial", "full"}

NoPages  == [offset |-> 0, ips |-> {}, list |-> {}]
NoLookup == [place |-> "none", name |-> "none"]
Entry    == [page : Nat, peer : Peer, location : Location]
Lookup   == [place : {"none", "asked", "ok", "empty"}, name : {"none", "asked", "ok"}]

-----------------------------------------------------------------------------
(* The node. *)

PeerComes(p) ==
    /\ changes < MaxChanges /\ changes' = changes + 1
    /\ \A i \in DOMAIN node : node[i] # p
    /\ \E k \in 0 .. Len(node) :
         node' = SubSeq(node, 1, k) \o <<p>> \o SubSeq(node, k + 1, Len(node))
    /\ UNCHANGED <<faults, phase, running, waiting, pages, data, cache, lookups>>

PeerGoes(k) ==
    /\ changes < MaxChanges /\ changes' = changes + 1
    /\ node' = SubSeq(node, 1, k - 1) \o SubSeq(node, k + 1, Len(node))
    /\ UNCHANGED <<faults, phase, running, waiting, pages, data, cache, lookups>>

Fault == faults < MaxFaults /\ faults' = faults + 1

-----------------------------------------------------------------------------
(* The process. *)

Init ==
    /\ node = <<>> /\ changes = 0 /\ faults = 0
    /\ phase = "down"
    /\ running = [g \in Getter |-> FALSE] /\ waiting = {} /\ pages = NoPages
    /\ filled = {} /\ listed = {}
    /\ cache = [p \in Peer |-> "none"]
    /\ lookups = [p \in Peer |-> [s \in Slot |-> NoLookup]]

\* networkMonitor is created and asks for everything at once.
Start ==
    /\ phase = "down" /\ phase' = "starting"
    /\ running' = [g \in Getter |-> TRUE] /\ waiting' = Getter
    /\ UNCHANGED <<env, faults, pages, data, cache, lookups>>

\* An exception in a callback ends the process.
Crash ==
    /\ phase' = "down"
    /\ running' = [g \in Getter |-> FALSE] /\ waiting' = {} /\ pages' = NoPages
    /\ filled' = {} /\ listed' = {}
    /\ cache' = [p \in Peer |-> "none"]
    /\ lookups' = [p \in Peer |-> [s \in Slot |-> NoLookup]]

\* A getter succeeds.  The first load is over when all have; then data get their
\* results and the intervals are set.
Succeeds(g) ==
    /\ running' = [running EXCEPT ![g] = FALSE]
    /\ waiting' = waiting \ {g}
    /\ IF phase = "starting" /\ waiting = {g}
       THEN phase' = "live" /\ filled' = Getter
       ELSE UNCHANGED <<phase, filled>>

\* A getter fails, and with it the first load, which is not tried again.
Fails(g) ==
    /\ running' = [running EXCEPT ![g] = FALSE]
    /\ waiting' = {}
    /\ phase' = IF phase = "starting" THEN "failed" ELSE phase
    /\ UNCHANGED filled

\* The intervals: emitData1, emitData2 and emitData3.  A getter that is busy is left
\* alone.
Tick(g) ==
    /\ phase = "live" /\ ~running[g]
    /\ running' = [running EXCEPT ![g] = TRUE]
    /\ UNCHANGED <<env, faults, phase, waiting, pages, data, cache, lookups>>

\* The last block, or the last of the pages the figures of a day are made of, is there.
Arrives(g) ==
    /\ running[g] /\ Succeeds(g)
    /\ UNCHANGED <<env, faults, pages, listed, cache, lookups>>

RequestFails(g) ==
    /\ running[g] /\ Fault /\ Fails(g)
    /\ UNCHANGED <<env, pages, listed, cache, lookups>>

-----------------------------------------------------------------------------
(* getPeers and the Locator. *)

\* The page that is asked for.
Page == SubSeq(node, pages.offset + 1,
               IF pages.offset + PageLimit < Len(node)
               THEN pages.offset + PageLimit ELSE Len(node))

OnlyHidden == \A i \in DOMAIN Page : Page[i] \in Hidden

\* Mutant: the offset is compared before it is raised.
IsLast_Early == Page = <<>> \/ pages.offset > MaxOffset

\* No page follows.
IsLast == Page = <<>> \/ pages.offset + PageLimit > MaxOffset

\* Mutant: peers that were on an earlier page are collected again.
New_Again(ips) == {Page[i] : i \in DOMAIN Page} \ Hidden

\* collect: the peers of a page that are not hidden and were on no earlier page.
New(ips) == {Page[i] : i \in DOMAIN Page} \ (Hidden \cup ips)

FreeSlots(p) == {s \in Slot : lookups[p][s] = NoLookup}

\* locate: for peers that are not in the cache lookups begin, though some may be under
\* way; the peers are listed without a place for now.
Locate(P) ==
    lookups' =
      [p \in Peer |->
         IF p \in P
         THEN [lookups[p] EXCEPT ![CHOOSE s \in FreeSlots(p) : TRUE]
                 = [place |-> "asked", name |-> "asked"]]
         ELSE lookups[p]]

\* Mutant: stale locations are kept.
Update_Keeps(ips) == UNCHANGED cache

\* update: locations of peers that were on no page are removed.
Update(ips) == cache' = [p \in Peer |-> IF p \in ips THEN cache[p] ELSE "none"]

\* A page arrives.  Its new peers are listed with what the cache has of them; after
\* the last page the cache is updated and the list is shown.
PageArrives ==
    LET new     == New(pages.ips)
        unknown == {p \in new : cache[p] = "none"}
        ips     == pages.ips \cup new
        list    == pages.list \cup
                     {[page |-> pages.offset, peer |-> p, location |-> cache[p]] : p \in new}
    IN  /\ running["Peers"]
        /\ Page # <<>> => ~OnlyHidden
        /\ \A p \in unknown : FreeSlots(p) # {}
        /\ Locate(unknown)
        /\ IF IsLast
           THEN /\ Update(ips)
                /\ listed' = list
                /\ pages' = NoPages
                /\ Succeeds("Peers")
           ELSE /\ pages' = [offset |-> pages.offset + PageLimit, ips |-> ips, list |-> list]
                /\ UNCHANGED <<phase, running, waiting, data, cache>>
        /\ UNCHANGED <<env, faults>>

\* A page has nothing but peers on 0.0.0.0: collect processes a peer that is not there,
\* which throws.
HiddenPage ==
    /\ running["Peers"] /\ Page # <<>> /\ OnlyHidden
    /\ Crash
    /\ UNCHANGED <<env, faults>>

\* A page cannot be had: locations of peers that were not yet on a page are removed.
PageFails ==
    /\ running["Peers"] /\ Fault
    /\ Update(pages.ips)
    /\ pages' = NoPages
    /\ Fails("Peers")
    /\ UNCHANGED <<env, listed, lookups>>

-----------------------------------------------------------------------------
(* getLocation. *)

\* A lookup ends: the cache gets what is there.
Ends(p, s, location) ==
    /\ cache' = [cache EXCEPT ![p] = location]
    /\ lookups' = [lookups EXCEPT ![p][s] = NoLookup]

\* The place is there; with the name the lookup ends.
Place(p, s, place) ==
    /\ lookups[p][s].place = "asked"
    /\ IF lookups[p][s].name = "ok"
       THEN Ends(p, s, IF place = "ok" THEN "full" ELSE "partial")
       ELSE /\ lookups' = [lookups EXCEPT ![p][s].place = place]
            /\ UNCHANGED cache
    /\ UNCHANGED <<env, faults, phase, running, waiting, pages, data>>

\* Mutant: the place is kept only when the name is there first.
PlaceArrives_Named(p, s) ==
    /\ p \notin NoPlace
    /\ Place(p, s, IF lookups[p][s].name = "ok" THEN "ok" ELSE "empty")

PlaceArrives(p, s) == p \notin NoPlace /\ Place(p, s, "ok")

\* The service refuses: no error is passed on, and no place.
PlaceRefused(p, s) == p \in NoPlace /\ Place(p, s, "empty")

\* The service fails: the lookup ends with what there is, without a place.
PlaceFails(p, s) ==
    /\ p \in NoPlace /\ lookups[p][s].place = "asked"
    /\ Ends(p, s, "partial")
    /\ UNCHANGED <<env, faults, phase, running, waiting, pages, data>>

NameArrives(p, s) ==
    /\ p \notin NoName /\ lookups[p][s].name = "asked"
    /\ IF lookups[p][s].place = "asked"
       THEN /\ lookups' = [lookups EXCEPT ![p][s].name = "ok"]
            /\ UNCHANGED cache
       ELSE Ends(p, s, IF lookups[p][s].place = "ok" THEN "full" ELSE "partial")
    /\ UNCHANGED <<env, faults, phase, running, waiting, pages, data>>

\* The address has no name: this is passed on as an error, and the lookup ends with
\* what there is.
NameFails(p, s) ==
    /\ p \in NoName /\ lookups[p][s].name = "asked"
    /\ Ends(p, s, IF lookups[p][s].place = "ok" THEN "full" ELSE "partial")
    /\ UNCHANGED <<env, faults, phase, running, waiting, pages, data>>

Answer(p, s) ==
    \/ PlaceArrives(p, s) \/ PlaceRefused(p, s) \/ PlaceFails(p, s)
    \/ NameArrives(p, s) \/ NameFails(p, s)

-----------------------------------------------------------------------------

Next ==
    \/ \E p \in Peer : PeerComes(p)
    \/ \E k \in DOMAIN node : PeerGoes(k)
    \/ Start \/ PageArrives \/ HiddenPage \/ PageFails
    \/ \E g \in Getter : Tick(g)
    \/ \E g \in Other : Arrives(g) \/ RequestFails(g)
    \/ \E p \in Peer, s \in Slot : Answer(p, s)

Spec == Init /\ [][Next]_vars

\* Requests are answered in the end, intervals fire, and the process is restarted.
FairSpec ==
    /\ Spec
    /\ WF_vars(Start) /\ WF_vars(PageArrives) /\ WF_vars(HiddenPage)
    /\ \A g \in Getter : WF_vars(Tick(g))
    /\ \A g \in Other : WF_vars(Arrives(g))
    /\ \A p \in Peer, s \in Slot : WF_vars(Answer(p, s))

-----------------------------------------------------------------------------
(* Properties. *)


TypeOK ==
    /\ node \in Seq(Peer) /\ changes \in 0 .. MaxChanges /\ faults \in 0 .. MaxFaults
    /\ phase \in {"down", "starting", "live", "failed"}
    /\ running \in [Getter -> BOOLEAN] /\ waiting \subseteq Getter
    /\ pages.offset \in 0 .. MaxOffset /\ pages.ips \subseteq Peer /\ pages.list \subseteq Entry
    \* no data object with a key missing is emitted
    /\ filled = IF phase = "live" THEN Getter ELSE {}
    /\ listed \subseteq Entry
    /\ cache \in [Peer -> Location]
    /\ lookups \in [Peer -> [Slot -> Lookup]]

\* No peer is shown twice, however the pages move while they are read, and none that is
\* 0.0.0.0.  lib/api/statistics.js, Peers.collect.
ListedOnce ==
    /\ \A e, f \in listed : e.peer = f.peer => e = f
    /\ \A e \in listed : e.peer \notin Hidden

Known(p) == \E i \in DOMAIN node : node[i] = p

Shown(p, location) ==
    \E e \in listed : e.peer = p /\ e.location = location

\* A peer that has left does not stay in the cache for ever, although a lookup that ends
\* late puts it back.  lib/api/statistics.js, Locator.update.
StaleGone ==
    \A p \in Peer :
      <>[](~Known(p) /\ phase = "live") => <>[](cache[p] = "none" /\ ~Shown(p, "full"))

\* A peer that has a name and a place is shown with its place in the end, whatever was
\* removed from the cache in between.  lib/api/statistics.js, Locator.
Located ==
    \A p \in Peer \ (Hidden \cup NoName \cup NoPlace) :
      <>[](Known(p) /\ phase = "live") => <>[]Shown(p, "full")

\* "Public IPs are shown with domain names and geographical location", says
\* README.md:30: with a location whenever the service has one, also without a name.
PlacesShown ==
    \A p \in Peer \ (Hidden \cup NoPlace) :
      <>[](Known(p) /\ phase = "live") => <>[]Shown(p, "full")
==============================================================================
