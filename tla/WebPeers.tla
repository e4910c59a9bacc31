------------------------------- MODULE WebPeers -------------------------------
(***************************************************************************)
(* The network monitor page: network-monitor.service.js counts the peers   *)
(* that are pushed and keeps a marker on a map for each connected one.     *)
(* Peers are pushed whole when the page connects, and every few seconds    *)
(* after that, of which it takes one push in four.                         *)
(***************************************************************************)
EXTENDS Integers, FiniteSets, FiniteSetsExt

CONSTANTS
    Peer,      \* the peers there may be: records, see PeerAssumption
    MaxMoves   \* bound of the model: changes of the peers

\* A peer has no height (0) until it has told one; its group is that of its system; a
\* peer without a location has no marker.
ASSUME PeerAssumption ==
    /\ IsFiniteSet(Peer) /\ MaxMoves \in Nat
    /\ \A p \in Peer : /\ DOMAIN p = {"ip", "port", "version", "height", "group", "located"}
                       /\ p.group \in 0 .. 3 /\ {p.version, p.height} \subseteq Nat

VARIABLES
    online,   \* the peers the server finds connected
    moves,    \* how often they have changed
    period,   \* pushes of peers since the last one that was taken
    peers,    \* vm.peers: the connected ones, none before the first push
    counter,  \* vm.counter
    map       \* the map: there or not, to be filled, and the ips with a marker

peerVars == <<online, moves, period, peers, counter, map>>

Rate == 3
NoPeers == {}
NoCounter == [connected |-> -1]

\* A list cut to its first n members, from the greatest down.
Greatest(values, n) == {v \in values : Cardinality({w \in values : w > v}) < n}

\* Platforms: one count for each group.
Platforms(list) == [g \in 0 .. 3 |-> Cardinality({p \in list : p.group = g})]

\* Versions: the three newest, and all others together.
Versions(list) ==
    LET top == Greatest({p.version : p \in list}, 3)
    IN  [one   |-> [v \in top |-> Cardinality({p \in list : p.version = v})],
         other |-> Cardinality({p \in list : p.version \notin top})]

\* A missing height is sorted before all others and takes the place of one.
TopHeights(list) ==
    LET heights == {p.height : p \in list}
    IN  IF 0 \in heights THEN {0} \cup Greatest(heights \ {0}, 3) ELSE Greatest(heights, 4)

\* Mutant: a peer without a height is not counted among the others.
Heights_Known(list) ==
    LET top == TopHeights(list)
    IN  [one   |-> [h \in top |-> Cardinality({p \in list : p.height = h /\ h # 0})],
         other |-> Cardinality({p \in list : p.height \notin top})]

\* Heights: the first four, and all others; a missing height is one of the others even
\* if it is among the four.
Heights(list) ==
    LET top == TopHeights(list)
    IN  [one   |-> [h \in top |-> Cardinality({p \in list : p.height = h /\ h # 0})],
         other |-> Cardinality({p \in list : p.height \notin top \/ p.height = 0})]

\* Every value of a field with its count; a missing height counts not.
Distribution(list, field) ==
    [v \in {p[field] : p \in list} |-> Cardinality({p \in list : p[field] = v})]
VersionDistribution(list)  == Distribution(list, "version")
PlatformDistribution(list) == Distribution(list, "group")
HeightDistribution(list) ==
    [h \in {p.height : p \in list} \ {0} |-> Cardinality({p \in list : p.height = h})]

Counter(list) ==
    [connected |-> Cardinality(list), platforms |-> Platforms(list),
     versions |-> Versions(list), heights |-> Heights(list),
     versionDistribution |-> VersionDistribution(list),
     platformDistribution |-> PlatformDistribution(list),
     heightDistribution |-> HeightDistribution(list)]

\* Mutant: markers of peers that are gone stay.
AddConnected_Only(markers, list) == markers \cup {p.ip : p \in {q \in list : q.located}}

\* addConnected and removeDisconnected: a marker for each ip with a location.
AddConnected(markers, list) ==
    LET connected == {p.ip : p \in {q \in list : q.located}}
        added     == markers \cup connected
    IN  added \ (added \ connected)

\* updatePeers
UpdatePeers ==
    /\ peers' = online
    /\ counter' = Counter(online)
    /\ map' = IF map.there THEN [map EXCEPT !.markers = AddConnected(@, online)] ELSE map

-----------------------------------------------------------------------------

\* The server lists an ip once, with whatever port.
PeersInit ==
    /\ \/ online = NoPeers
       \/ /\ online \in SUBSET Peer
          /\ \A p \in Peer : Cardinality({q \in online : q.ip = p.ip}) = 1
    /\ moves = 0 /\ period = 0
    /\ peers = NoPeers /\ counter = NoCounter
    /\ map = [there |-> FALSE, waits |-> FALSE, markers |-> {}]

\* A peer comes or goes.
PeerMoves(p) ==
    /\ moves < MaxMoves /\ moves' = moves + 1
    /\ online' = IF p \in online THEN online \ {p}
                 ELSE {q \in online : q.ip # p.ip} \cup {p}
    /\ UNCHANGED <<period, peers, counter, map>>

\* The event 'data', when the page connects: all peers, shown at once.
PushData ==
    /\ UpdatePeers
    /\ UNCHANGED <<online, moves, period>>

\* The event 'data3': one push in four is shown.
PushPeers ==
    /\ period' = IF period >= Rate THEN 0 ELSE period + 1
    /\ IF period' = Rate - 1 THEN UpdatePeers ELSE UNCHANGED <<peers, counter, map>>
    /\ UNCHANGED <<online, moves>>

\* enableMap: the map is made, and filled a moment later.
EnableMap ==
    /\ ~map.waits
    /\ map' = [map EXCEPT !.there = TRUE, !.waits = TRUE]
    /\ UNCHANGED <<online, moves, period, peers, counter>>

FillMap ==
    /\ map.waits
    /\ map' = [map EXCEPT !.waits = FALSE, !.markers = AddConnected(@, peers)]
    /\ UNCHANGED <<online, moves, period, peers, counter>>

PeersStep ==
    \/ \E p \in Peer : PeerMoves(p)
    \/ (counter = NoCounter /\ PushData)
    \/ PushPeers \/ EnableMap \/ FillMap

PeersTypeOK ==
    /\ online \subseteq Peer /\ peers \subseteq Peer
    /\ moves \in 0 .. MaxMoves /\ period \in 0 .. Rate
    /\ map.there \in BOOLEAN /\ map.waits \in BOOLEAN
    /\ map.markers \subseteq {p.ip : p \in Peer}

-----------------------------------------------------------------------------
(* Properties. *)

\* The sum of what is counted apart.
CountsOf(parts) == MapThenSumSet(LAMBDA k : parts[k], DOMAIN parts)

\* network-monitor.service.js: whenever the map was opened and whoever came or went, it
\* has a marker for each ip of a connected peer with a location, and no other; and each
\* of the counts counts every connected peer once, although values are cut off and
\* heights may be missing.
PeersTrue ==
    /\ map.there /\ ~map.waits =>
         \A ip \in {p.ip : p \in Peer} :
             ip \in map.markers <=> \E p \in peers : p.ip = ip /\ p.located
    /\ counter # NoCounter =>
         /\ counter.connected = Cardinality(peers)
         /\ CountsOf(counter.platforms) = counter.connected
         /\ CountsOf(counter.versions.one) + counter.versions.other = counter.connected
         /\ CountsOf(counter.heights.one) + counter.heights.other = counter.connected
         /\ CountsOf(counter.versionDistribution) = counter.connected
         /\ CountsOf(counter.platformDistribution) = counter.connected
         /\ CountsOf(counter.heightDistribution) = Cardinality({p \in peers : p.height # 0})

\* What the page shows in the end: the peers there are.
PeersCurrent == peers = online /\ counter = Counter(online)
==============================================================================
