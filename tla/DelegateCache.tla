---------------------------- MODULE DelegateCache ----------------------------
(***************************************************************************)
(* The local list of delegates of lib/api/delegates.js.  The node no longer *)
(* says which rank a delegate has, so the explorer fetches the delegates   *)
(* page by page, sorts them and keeps them as allDelegates for three       *)
(* minutes; the lists of active and of standby delegates are cut from it.  *)
(*                                                                         *)
(* Several loads may be under way at a time: the monitor's refresh when a  *)
(* round starts, and one for each request that finds the list too old.     *)
(***************************************************************************)
EXTENDS Integers, Sequences, FiniteSets, Functions

CONSTANTS
    Delegate,    \* the delegates registered on the chain
    MaxVotes,    \* bound of the model: approval of a delegate
    MaxChanges,  \* bound of the model: changes of the ranking
    PageLimit,   \* delegates on a page: 100 in the code
    ActiveSize,  \* delegates of a round: 101 in the code
    StandbySize, \* standby delegates of an answer: 20 in the code
    Load         \* names of loads; bound of the model: each is used once

ASSUME SizeAssumption ==
    /\ PageLimit \in Nat \ {0} /\ ActiveSize \in Nat \ {0} /\ StandbySize \in Nat \ {0}
    /\ MaxVotes \in Nat /\ MaxChanges \in Nat
ASSUME DelegateAssumption == IsFiniteSet(Delegate) /\ Delegate # {}

VARIABLES
    node,         \* the node: its delegates with their approvals, best first
    changes,      \* how often that ranking has changed
    loads,        \* the calls of loadAllDelegates
    allDelegates, \* allDelegates, by rank
    fresh,        \* lastDelegateUpdate is at most delegateUpdateInterval ago
    listClean     \* history: all pages of allDelegates come from one ranking

vars == <<node, changes, loads, allDelegates, fresh, listClean>>

Entry == [name : Delegate, approval : 0 .. MaxVotes]

\* A call: who asked for it, how far it is, what it has collected, and what the
\* caller was given.  clean is history: whether all its pages come from one ranking.
Kind  == {"unused", "refresh", "active", "standby"}
State == {"idle", "loading", "done", "lost"}
Unused == [kind |-> "unused", state |-> "idle", offset |-> 0, acc |-> <<>>,
           answer |-> <<>>, clean |-> TRUE]

-----------------------------------------------------------------------------
(* Pure parts. *)

Names(list) == {list[i].name : i \in DOMAIN list}

Descending(list) ==
    \A i, j \in DOMAIN list : i < j => list[i].approval >= list[j].approval

\* slice(offset, offset + n)
Slice(list, offset, n) ==
    SubSeq(list, offset + 1, IF offset + n < Len(list) THEN offset + n ELSE Len(list))

\* Mutant: the standby delegates start at the first rank.
Window_NoOffset(kind, list) ==
    CASE kind = "active"  -> Slice(list, 0, ActiveSize)
      [] kind = "standby" -> Slice(list, 0, StandbySize)
      [] OTHER            -> <<>>

\* What getActive and getStandby, first page, cut from the list.
Window(kind, list) ==
    CASE kind = "active"  -> Slice(list, 0, ActiveSize)
      [] kind = "standby" -> Slice(list, ActiveSize, StandbySize)
      [] OTHER            -> <<>>

\* The orders of a list by approval.  The comparator of loadAllDelegates never
\* finds two delegates equal: those with equal approvals end up in any order.
Sorted(list) ==
    {s \in {[i \in DOMAIN list |-> list[p[i]]] : p \in Bijection(DOMAIN list, DOMAIN list)} :
        Descending(s)}

\* Mutant: a full page is taken for the last one.
LastPage_Full(page) == Len(page) <= PageLimit

\* doUntil stops at the first page that is not full.
LastPage(page) == Len(page) < PageLimit

-----------------------------------------------------------------------------

Init ==
    /\ node \in {s \in [1 .. Cardinality(Delegate) -> Entry] :
                   Names(s) = Delegate /\ Descending(s)}
    /\ changes = 0
    /\ loads = [l \in Load |-> Unused]
    /\ allDelegates = <<>> /\ fresh = FALSE
    /\ listClean = FALSE

Begin(l, kind) ==
    loads' = [loads EXCEPT ![l] =
                [Unused EXCEPT !.kind = kind, !.state = "loading"]]

\* loadAllDelegates, called by app.js and when a round starts.
Refresh(l) ==
    /\ loads[l].kind = "unused"
    /\ Begin(l, "refresh")
    /\ UNCHANGED <<node, changes, allDelegates, fresh, listClean>>

\* getDelegatesFromLocalList: the list answers at once while it is fresh.
Request(l, kind) ==
    /\ loads[l].kind = "unused"
    /\ IF fresh
       THEN loads' = [loads EXCEPT ![l] =
                        [Unused EXCEPT !.kind = kind, !.state = "done",
                                       !.answer = Window(kind, allDelegates)]]
       ELSE Begin(l, kind)
    /\ UNCHANGED <<node, changes, allDelegates, fresh, listClean>>

\* The last page is there: the list is sorted and kept, and the caller gets what
\* it asked for, cut from that list.
Finish(l, all) ==
    \E list \in Sorted(all) :
        /\ allDelegates' = list
        /\ listClean' = loads[l].clean
        /\ fresh' = (fresh \/ loads[l].kind # "refresh")
        /\ loads' = [loads EXCEPT ![l].state = "done", ![l].acc = <<>>, ![l].offset = 0,
                                  ![l].answer = Window(loads[l].kind, list)]

\* Mutant: the offset is not moved on.
PageArrives_SamePage(l) ==
    LET page == Slice(node, loads[l].offset, PageLimit)
        all  == loads[l].acc \o page
    IN  /\ loads[l].state = "loading"
        /\ IF LastPage(page)
           THEN Finish(l, all)
           ELSE /\ loads' = [loads EXCEPT ![l].acc = page]
                /\ UNCHANGED <<allDelegates, fresh, listClean>>
        /\ UNCHANGED <<node, changes>>

\* The next page of call l: the delegates the node ranks there by now.  _.union
\* compares objects by identity, so it keeps whatever the pages hold.
PageArrives(l) ==
    LET page == Slice(node, loads[l].offset, PageLimit)
        all  == loads[l].acc \o page
    IN  /\ loads[l].state = "loading"
        /\ IF LastPage(page)
           THEN Finish(l, all)
           ELSE /\ loads' = [loads EXCEPT ![l].acc = all, ![l].offset = @ + PageLimit]
                /\ UNCHANGED <<allDelegates, fresh, listClean>>
        /\ UNCHANGED <<node, changes>>

\* A page cannot be had: sorting a list that is not there throws, the process
\* ends and starts again with nothing.
PageFails(l) ==
    /\ loads[l].state = "loading"
    /\ loads' = [k \in Load |-> IF loads[k].state = "loading"
                                THEN [loads[k] EXCEPT !.state = "lost", !.acc = <<>>,
                                                      !.offset = 0]
                                ELSE loads[k]]
    /\ allDelegates' = <<>> /\ fresh' = FALSE
    /\ listClean' = FALSE
    /\ UNCHANGED <<node, changes>>

\* delegateUpdateInterval goes by.
Expire ==
    /\ fresh /\ fresh' = FALSE
    /\ UNCHANGED <<node, changes, loads, allDelegates, listClean>>

\* The node: the approval of a delegate changes, and with it the ranking.  A
\* call that has some of its pages sees two rankings.
ChangeVotes(i, v) ==
    /\ changes < MaxChanges /\ v # node[i].approval
    /\ node' \in Sorted([node EXCEPT ![i].approval = v])
    /\ changes' = changes + 1
    /\ loads' = [l \in Load |-> [loads[l] EXCEPT !.clean = @ /\ loads[l].offset = 0]]
    /\ UNCHANGED <<allDelegates, fresh, listClean>>

Next ==
    \/ \E l \in Load :
         \/ Refresh(l) \/ PageArrives(l) \/ PageFails(l)
         \/ \E kind \in {"active", "standby"} : Request(l, kind)
    \/ Expire
    \/ \E i \in DOMAIN node, v \in 0 .. MaxVotes : ChangeVotes(i, v)

Spec == Init /\ [][Next]_vars

-----------------------------------------------------------------------------
(* Properties. *)

TypeOK ==
    /\ node \in [1 .. Cardinality(Delegate) -> Entry]
    /\ changes \in 0 .. MaxChanges /\ fresh \in BOOLEAN
    /\ allDelegates \in Seq(Entry)
    /\ listClean \in BOOLEAN
    /\ \A l \in Load :
         /\ loads[l].kind \in Kind /\ loads[l].state \in State
         /\ loads[l].offset \in Nat
         /\ loads[l].clean \in BOOLEAN
         /\ loads[l].acc \in Seq(Entry) /\ loads[l].answer \in Seq(Entry)
         /\ Len(loads[l].acc) = loads[l].offset
         \* no request is answered from a list that has not been loaded
         /\ loads[l].kind = "active" /\ loads[l].state = "done" => loads[l].answer # <<>>

\* A list whose pages come from one ranking holds every delegate exactly once,
\* also when the delegates fill the last page to the brim, and getDelegateRank
\* finds better ranks for better approvals.
CleanListExact ==
    listClean =>
        /\ Names(allDelegates) = Delegate
        /\ Len(allDelegates) = Cardinality(Delegate)
        /\ Descending(allDelegates)

Answered(l) == loads[l].state # "done" /\ loads'[l].state = "done"

\* The delegates of an answer for standby delegates are not among the active ones of the
\* list it is cut from, and have no better approval than those.
AnswersBehind ==
    \A l \in Load :
        Answered(l) /\ loads'[l].kind = "standby" /\ listClean' =>
          LET active == Window("active", allDelegates')
          IN  /\ Names(loads'[l].answer) \cap Names(active) = {}
              /\ \A i \in DOMAIN active, j \in DOMAIN loads'[l].answer :
                   active[i].approval >= loads'[l].answer[j].approval

\* A list of standby delegates shows none that the list it is cut from has among
\* the active ones, and ranks them behind those.
StandbyBehindActive == [][AnswersBehind]_vars
==============================================================================
