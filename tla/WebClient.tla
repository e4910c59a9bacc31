------------------------------ MODULE WebClient ------------------------------
(***************************************************************************)
(* The web client: one of its pages is open, with the server it asks or    *)
(* that pushes to it.  Each page is a module of its own; here they are put *)
(* together, and the properties of all pages are stated.                   *)
(***************************************************************************)
EXTENDS WebLists, WebGraph, WebStatus, WebPeers

vars == <<httpVars, listVars, graphVars, statusVars, peerVars>>

Init ==
    /\ page \in ListPages \cup {"activityGraph", "delegateMonitor", "networkMonitor"}
    /\ ListInit /\ GraphInit /\ StatusInit /\ PeersInit
    /\ page # "delegateMonitor" => chain.blocks = CHOOSE b \in Before : TRUE
    /\ page # "networkMonitor" => online = NoPeers

OnLists      == page \in ListPages /\ UNCHANGED <<graphVars, statusVars, peerVars>>
OnGraph      == page = "activityGraph" /\ UNCHANGED <<httpVars, listVars, statusVars, peerVars>>
OnDelegates  == page = "delegateMonitor" /\ UNCHANGED <<httpVars, listVars, graphVars, peerVars>>
OnPeers      == page = "networkMonitor" /\ UNCHANGED <<httpVars, listVars, graphVars, statusVars>>

Next ==
    \/ ListStep /\ OnLists
    \/ GraphStep /\ OnGraph
    \/ StatusStep /\ OnDelegates
    \/ PeersStep /\ OnPeers

\* The server and its handlers answer, the server is started again, Redis forgets and an
\* open page asks; connections come back, timers fire, and the server goes on pushing.
Fairness ==
    /\ WF_vars(ServerStarts /\ OnLists) /\ WF_vars(RedisForgets /\ OnLists)
    /\ WF_vars(ListOpens /\ OnLists)
    /\ \A r \in Request :
         WF_vars(HandlerAnswers(r) /\ OnLists) /\ WF_vars(Arrive(r) /\ OnLists)
    /\ WF_vars(HeaderPush /\ OnDelegates) /\ WF_vars(DataPush /\ OnDelegates)
    /\ WF_vars(TimerFires /\ OnDelegates)
    /\ \A d \in Active : WF_vars(DelegatePush(d) /\ OnDelegates)
    /\ \A s \in {"header", "monitor"} : WF_vars(Connect(s) /\ OnDelegates)
    /\ WF_vars(PushPeers /\ OnPeers)

Spec == Init /\ [][Next]_vars /\ Fairness

-----------------------------------------------------------------------------

TypeOK == ListTypeOK /\ GraphTypeOK /\ StatusTypeOK /\ PeersTypeOK

\* Each page shows what the answers and pushes it got say: lists without a hole and the
\* right buttons, a graph of the blocks it counts, counts that add up, markers of the
\* peers that are connected.
PagesTrue == ListsTrue /\ GraphExact /\ PeersTrue

\* When the chain and the peers no longer change, the delegate monitor page in the end
\* shows for every delegate what the blocks of the chain say, and that it is connected,
\* although height and blocks come apart and connections were lost; and the network
\* monitor page shows the peers there are.
PagesSettle ==
    <>[](/\ page = "delegateMonitor" => StatusesTrue
         /\ page = "networkMonitor" => PeersCurrent)
==============================================================================
