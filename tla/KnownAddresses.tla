--------------------------- MODULE KnownAddresses ---------------------------
(***************************************************************************)
(* utils/knownAddresses.js: which name belongs to which address, kept in   *)
(* Redis.  When the explorer starts it empties the store, loads a list of  *)
(* known accounts, and once a minute asks the node for the delegates       *)
(* registered since the newest one it has seen.  A check that takes longer *)
(* than a minute overlaps with the next one.                               *)
(***************************************************************************)
EXTENDS Integers, Sequences, FiniteSets

CONSTANTS
    Delegate,    \* the delegates that may register
    Known,       \* those of them on the list of known accounts
    Check,       \* bound of the model: checks under way at a time
    PageLimit,   \* registrations on a page: 100 in the code
    InOrder,     \* whether registrations are confirmed in the order of their timestamps
    MaxStamp,    \* bound of the model: timestamps
    MaxFaults    \* bound of the model: failed requests and writes, and restarts

ASSUME KnownAssumption ==
    /\ Known \subseteq Delegate /\ IsFiniteSet(Delegate)
    /\ PageLimit \in Nat \ {0} /\ MaxStamp \in Nat /\ MaxFaults \in Nat
    /\ InOrder \in BOOLEAN

VARIABLES
    chain,   \* the confirmed registrations, the newest timestamp first
    faults,  \* failed requests and writes, and restarts so far
    store,   \* Redis: whose name an address has
    unwritten, \* history: delegates whose username Redis refused when it was last written
    phase,   \* how far load() is
    list,    \* the list of known accounts is on its way
    checks,  \* the calls of checkNewDelegates
    latest   \* latestDelegateRegisteredAt

vars == <<chain, faults, store, unwritten, phase, list, checks, latest>>

None == "none"          \* no entry
Username == "username"  \* the name the delegate registered
Label == "label"        \* the name on the list of known accounts

Registration == [delegate : Delegate, stamp : 0 .. MaxStamp]

IdleCheck == [active |-> FALSE, from |-> 0, offset |-> 0, acc |-> <<>>]

Confirmed == {chain[i].delegate : i \in DOMAIN chain}

Fault == faults < MaxFaults /\ faults' = faults + 1

\* Redis refuses the writes for the delegates of `refused`, together one fault.
Refuses(refused) == IF refused = {} THEN UNCHANGED faults ELSE Fault

-----------------------------------------------------------------------------

Init ==
    /\ chain = <<>> /\ faults = 0
    /\ store = [d \in Delegate |-> None] /\ unwritten = {}
    /\ phase = "loading" /\ list = FALSE
    /\ checks = [c \in Check |-> IdleCheck]
    /\ latest = -1

\* How many registrations there are since a timestamp: they come first.
Since(stamp) == Cardinality({i \in DOMAIN chain : chain[i].stamp >= stamp})

\* A registration is confirmed; its timestamp is the sender's.
Confirm(d, stamp) ==
    /\ d \notin Confirmed
    /\ InOrder => \A i \in DOMAIN chain : chain[i].stamp < stamp
    /\ LET newer == Since(stamp + 1)
       IN  chain' = SubSeq(chain, 1, newer)
                      \o <<[delegate |-> d, stamp |-> stamp]>>
                      \o SubSeq(chain, newer + 1, Len(chain))
    /\ UNCHANGED <<faults, store, unwritten, phase, list, checks, latest>>

Begin(c) == checks' = [checks EXCEPT ![c] = [IdleCheck EXCEPT !.active = TRUE,
                                                              !.from = latest + 1]]

\* load: the old entries are deleted, the list is asked for, the first check begins.
\* An entry Redis does not delete stays: nothing waits for the deletions.
Load ==
    /\ phase = "loading" /\ phase' = "ready"
    /\ \E refused \in SUBSET {d \in Delegate : store[d] # None} :
         /\ Refuses(refused)
         /\ store' = [d \in Delegate |-> IF d \in refused THEN store[d] ELSE None]
    /\ list' = TRUE
    /\ \E c \in Check : Begin(c)
    /\ UNCHANGED <<chain, unwritten, latest>>

\* The keys cannot be read: load ends there, and nothing calls it again.
LoadFails ==
    /\ phase = "loading" /\ phase' = "failed"
    /\ Fault
    /\ UNCHANGED <<chain, store, unwritten, list, checks, latest>>

\* loadFromServer: the list, or the local copy of it, is written over what is there,
\* but for the accounts whose write Redis refuses.
ListArrives ==
    /\ list /\ list' = FALSE
    /\ \E refused \in SUBSET Known :
         /\ Refuses(refused)
         /\ store' = [d \in Delegate |-> IF d \in Known \ refused THEN Label ELSE store[d]]
    /\ UNCHANGED <<chain, unwritten, phase, checks, latest>>

\* Mutant: only the first check asks.
Tick_Once(c) ==
    /\ phase = "ready" /\ ~checks[c].active /\ latest = -1
    /\ Begin(c)
    /\ UNCHANGED <<chain, faults, store, unwritten, phase, list, latest>>

\* The interval: checkNewDelegates, whether or not the last check has ended.
Tick(c) ==
    /\ phase = "ready" /\ ~checks[c].active
    /\ Begin(c)
    /\ UNCHANGED <<chain, faults, store, unwritten, phase, list, latest>>

\* The page of the registrations since a timestamp.
PageOf(from, offset) ==
    SubSeq(chain, offset + 1,
           IF offset + PageLimit < Since(from) THEN offset + PageLimit ELSE Since(from))

Delegates(all) == {all[i].delegate : i \in DOMAIN all}

\* The new registrations are there: the newest one is remembered, unless its
\* timestamp is zero, and all are given their username.  A write that Redis refuses
\* is logged, and the newest timestamp has moved on all the same.
Learn(all) ==
    /\ latest' = IF all # <<>> /\ Head(all).stamp # 0 THEN Head(all).stamp ELSE latest
    /\ \E refused \in SUBSET Delegates(all) :
         /\ Refuses(refused)
         /\ store' = [d \in Delegate |->
                        IF d \in Delegates(all) \ refused THEN Username ELSE store[d]]
         /\ unwritten' = (unwritten \ Delegates(all)) \cup refused

\* Mutant: every page is learned from as it comes.
PageArrives_Early(c) ==
    LET page == PageOf(checks[c].from, checks[c].offset)
        all  == checks[c].acc \o page
    IN  /\ checks[c].active
        /\ Learn(all)
        /\ checks' = [checks EXCEPT ![c] =
             IF Len(page) < PageLimit
             THEN IdleCheck
             ELSE [@ EXCEPT !.acc = all, !.offset = @ + PageLimit]]
        /\ UNCHANGED <<chain, phase, list>>

\* Mutant: the offset is not moved on.
PageArrives_SamePage(c) ==
    LET page == PageOf(checks[c].from, checks[c].offset)
        all  == checks[c].acc \o page
    IN  /\ checks[c].active
        /\ IF Len(page) < PageLimit
           THEN Learn(all) /\ checks' = [checks EXCEPT ![c] = IdleCheck]
           ELSE /\ checks' = [checks EXCEPT ![c].acc = page]
                /\ UNCHANGED <<latest, store, unwritten, faults>>
        /\ UNCHANGED <<chain, phase, list>>

\* The next page of a check; registrations confirmed meanwhile have moved the pages.
PageArrives(c) ==
    LET page == PageOf(checks[c].from, checks[c].offset)
        all  == checks[c].acc \o page
    IN  /\ checks[c].active
        /\ IF Len(page) < PageLimit
           THEN Learn(all) /\ checks' = [checks EXCEPT ![c] = IdleCheck]
           ELSE /\ checks' = [checks EXCEPT ![c].acc = all, ![c].offset = @ + PageLimit]
                /\ UNCHANGED <<latest, store, unwritten, faults>>
        /\ UNCHANGED <<chain, phase, list>>

\* A request of a check fails: the pages it has are forgotten.
CheckFails(c) ==
    /\ checks[c].active /\ Fault
    /\ checks' = [checks EXCEPT ![c] = IdleCheck]
    /\ UNCHANGED <<chain, store, unwritten, phase, list, latest>>

\* The process ends and starts again; Redis keeps the old entries until load.
Restart ==
    /\ Fault
    /\ phase' = "loading" /\ list' = FALSE /\ unwritten' = {}
    /\ checks' = [c \in Check |-> IdleCheck] /\ latest' = -1
    /\ UNCHANGED <<chain, store>>

Next ==
    \/ Load \/ LoadFails \/ ListArrives \/ Restart
    \/ \E d \in Delegate, stamp \in 0 .. MaxStamp : Confirm(d, stamp)
    \/ \E c \in Check : Tick(c) \/ PageArrives(c) \/ CheckFails(c)

Spec == Init /\ [][Next]_vars

\* Redis and the node answer, and the interval fires.
FairSpec ==
    /\ Spec
    /\ WF_vars(Load) /\ WF_vars(ListArrives)
    /\ \A c \in Check : WF_vars(Tick(c)) /\ WF_vars(PageArrives(c))

-----------------------------------------------------------------------------
(* Properties. *)

TypeOK ==
    /\ chain \in Seq(Registration) /\ faults \in 0 .. MaxFaults
    /\ store \in [Delegate -> {None, Username, Label}] /\ unwritten \subseteq Delegate
    /\ phase \in {"loading", "ready", "failed"} /\ list \in BOOLEAN
    /\ latest \in -1 .. MaxStamp
    /\ \A c \in Check :
         /\ checks[c].active \in BOOLEAN /\ checks[c].from \in 0 .. MaxStamp + 1
         /\ checks[c].acc \in Seq(Registration) /\ Len(checks[c].acc) = checks[c].offset

\* Every delegate up to the newest registration seen has its name in the store, or its
\* name was refused by Redis and not written since: no shifted page, failed check,
\* overlapping check or restart leaves another one behind for good.  A refused name does
\* stay behind: the checks that follow ask for newer registrations only.
NothingSkipped ==
    phase = "ready" =>
        \A i \in DOMAIN chain : chain[i].stamp <= latest =>
            store[chain[i].delegate] # None \/ chain[i].delegate \in unwritten

\* A delegate that is registered gets its name, unless load has failed, the explorer
\* starts anew, or Redis refuses the name: then it is missing until the next start.
NamesArrive ==
    \A d \in Delegate :
        phase = "ready" /\ d \in Confirmed
            ~> phase # "ready" \/ store[d] # None \/ d \in unwritten
==============================================================================
