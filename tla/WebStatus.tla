------------------------------ MODULE WebStatus ------------------------------
(***************************************************************************)
(* The header and the delegate monitor page of the web client.  The height *)
(* comes on the header's socket, the delegates and their last blocks on    *)
(* that of the page; the status of a delegate is made of both, and each of *)
(* the two may be behind the other, or down.                               *)
(***************************************************************************)
EXTENDS Integers, FiniteSets, Sequences

CONSTANTS
    Roster,      \* the active delegates, in the order of their slots: 101 in the code
    Before,      \* the chains there may be at first: sequences of generators
    MaxSlots,    \* bound of the model: slots, with those that are missed
    MaxDrops     \* bound of the model: lost connections

ASSUME StatusAssumption ==
    /\ Roster \in Seq(Nat) /\ Roster # <<>>
    /\ \A b \in Before : b # <<>> /\ b \in Seq({Roster[i] : i \in DOMAIN Roster})
    /\ MaxSlots \in Nat /\ MaxDrops \in Nat

VARIABLES
    chain,     \* the generators of the blocks, and the slots that have passed
    monitor,   \* the server's delegate monitor
    sockets,   \* which of the two are connected, and how many connections were lost
    header,    \* what the header shows
    delegates  \* what the delegate monitor page shows

statusVars == <<chain, monitor, sockets, header, delegates>>

Active == {Roster[i] : i \in DOMAIN Roster}
RoundLength == Len(Roster)

None == 0   \* no block, or no height

Height == Len(chain.blocks)
LastBlockOf(d) ==
    LET mine == {h \in 1 .. Height : chain.blocks[h] = d}
    IN  IF mine = {} THEN None ELSE CHOOSE h \in mine : \A other \in mine : other <= h

\* filters/round.js
Round(height) == (height + RoundLength - 1) \div RoundLength

\* getRoundDelegates: of the next forgers those whose turn comes in this round.
NextForger(i) == Roster[((chain.slots + i) % RoundLength) + 1]
RoundDelegates ==
    {NextForger(i) : i \in {k \in 0 .. RoundLength - 1 : Round(Height + k + 1) = Round(Height)}}

-----------------------------------------------------------------------------
(* services/forging-status.js and forging-monitor.js. *)

\* Mutant: a delegate that missed its slot is told from one that waits for it only if
\* both have forged in the last round.
Code_Waiting(last, isRoundDelegate, height) ==
    LET awaitingSlot == Round(height) - Round(last)
    IN  IF last = None THEN 5
        ELSE CASE awaitingSlot = 0  -> 0
               [] awaitingSlot = 1  -> IF isRoundDelegate THEN 3 ELSE 1
               [] awaitingSlot = 2  -> 4
               [] OTHER             -> 2

\* The code of a status.  A height that is behind the last block makes awaitingSlot
\* negative, and the delegate one that is not forging.
Code(last, isRoundDelegate, height) ==
    LET awaitingSlot == Round(height) - Round(last)
    IN  IF last = None THEN 5
        ELSE CASE awaitingSlot = 0                      -> 0
               [] awaitingSlot = 1                      -> IF isRoundDelegate THEN 3 ELSE 1
               [] awaitingSlot = 2 /\ isRoundDelegate   -> 4
               [] OTHER                                 -> 2

\* Without a height the status of a delegate with a block cannot be made: it throws.
Throws(last) == header.height = None /\ last # None

\* getForgingTotals; progress is all but the unprocessed.
Totals(active) ==
    LET Count(codes) == Cardinality({d \in Active : active[d].code \in codes})
    IN  [forging |-> Count({0, 3}), missedBlock |-> Count({1, 4}), notForging |-> Count({2}),
         unprocessed |-> Count({5}), awaitingSlot |-> Count({3, 4}),
         processed |-> RoundLength - Count({5})]

NoDelegates == [d \in {} |-> None]

\* updateActive: the page shows what was pushed, unless a status throws.
UpdateActive(pushed) ==
    IF \E d \in Active : Throws(pushed.last[d]) THEN UNCHANGED delegates
    ELSE LET active == [d \in Active |->
                [last |-> pushed.last[d], flag |-> d \in pushed.flagged,
                 code |-> Code(pushed.last[d], d \in pushed.flagged, header.height)]]
         IN  delegates' = [active |-> active, totals |-> Totals(active)]

\* updateLastBlocks: the other statuses are made again, of what the page knew, then
\* that of the delegate that was pushed, of what was pushed.  If that one throws, the
\* page has the block and not the status.
UpdateLastBlocks(d, last, flag) ==
    LET active  == delegates.active
        again   == [e \in Active |->
                      [active[e] EXCEPT !.code = Code(active[e].last, active[e].flag, header.height)]]
        changed == [again EXCEPT ![d] = [last |-> last, flag |-> active[d].flag,
                                         code |-> Code(last, flag, header.height)]]
    IN  IF active = NoDelegates \/ \E e \in Active : Throws(active[e].last)
        THEN UNCHANGED delegates
        ELSE delegates' = IF Throws(last)
                          THEN [delegates EXCEPT !.active = [again EXCEPT ![d].last = last]]
                          ELSE [active |-> changed, totals |-> Totals(changed)]

-----------------------------------------------------------------------------

\* The monitor has loaded the delegates and no block of theirs; none of them is flagged
\* as long as there are no older ones to be compared with.
StatusInit ==
    /\ chain \in [blocks : Before, slots : {0}]
    /\ monitor = [last |-> [d \in Active |-> None], round |-> RoundDelegates, flagged |-> {}]
    /\ sockets = [up |-> {"header", "monitor"}, drops |-> 0]
    /\ header = [height |-> None, connected |-> TRUE, timers |-> 0]
    /\ delegates = [active |-> NoDelegates, totals |-> {}]

\* The delegate whose slot it is forges, or misses it.
Slot ==
    /\ chain.slots < MaxSlots
    /\ \E forged \in BOOLEAN :
         chain' = [blocks |-> IF forged THEN Append(chain.blocks, NextForger(0)) ELSE chain.blocks,
                   slots  |-> chain.slots + 1]
    /\ UNCHANGED <<monitor, sockets, header, delegates>>

\* The server pushes the state of the node on the header's socket.
HeaderPush ==
    /\ "header" \in sockets.up
    /\ header' = [header EXCEPT !.height = Height, !.connected = TRUE]
    /\ UNCHANGED <<chain, monitor, sockets, delegates>>

\* emitData: delegates and their flags, with the blocks the monitor had.
DataPush ==
    /\ monitor' = [monitor EXCEPT !.round = RoundDelegates, !.flagged = RoundDelegates]
    /\ IF "monitor" \in sockets.up THEN UpdateActive(monitor') ELSE UNCHANGED delegates
    /\ UNCHANGED <<chain, sockets, header>>

\* emitDelegate: the monitor has asked for the last block of a delegate.
DelegatePush(d) ==
    /\ monitor' = [monitor EXCEPT
         !.last[d] = LastBlockOf(d),
         !.flagged = IF d \in monitor.round THEN @ \cup {d} ELSE @ \ {d}]
    /\ IF "monitor" \in sockets.up
       THEN UpdateLastBlocks(d, LastBlockOf(d), d \in monitor.round)
       ELSE UNCHANGED delegates
    /\ UNCHANGED <<chain, sockets, header>>

\* A connection is lost; the header says so five seconds later.
Drop(s) ==
    /\ s \in sockets.up /\ sockets.drops < MaxDrops
    /\ sockets' = [up |-> sockets.up \ {s}, drops |-> sockets.drops + 1]
    /\ header' = IF s = "header" THEN [header EXCEPT !.timers = @ + 1] ELSE header
    /\ UNCHANGED <<chain, monitor, delegates>>

\* The five seconds are over, whether or not the connection is there again.
TimerFires ==
    /\ header.timers > 0
    /\ header' = [header EXCEPT !.timers = @ - 1, !.connected = FALSE]
    /\ UNCHANGED <<chain, monitor, sockets, delegates>>

\* The connection is there again: the monitor pushes what it has.
Connect(s) ==
    /\ s \notin sockets.up
    /\ sockets' = [sockets EXCEPT !.up = @ \cup {s}]
    /\ IF s = "header"
       THEN header' = [header EXCEPT !.connected = TRUE] /\ UNCHANGED delegates
       ELSE UpdateActive(monitor) /\ UNCHANGED header
    /\ UNCHANGED <<chain, monitor>>

StatusStep ==
    \/ Slot \/ HeaderPush \/ DataPush \/ TimerFires
    \/ \E d \in Active : DelegatePush(d)
    \/ \E s \in {"header", "monitor"} : Drop(s) \/ Connect(s)

StatusTypeOK ==
    /\ chain.blocks \in Seq(Active) /\ chain.slots \in 0 .. MaxSlots
    /\ monitor.last \in [Active -> 0 .. Height]
    /\ monitor.round \subseteq Active /\ monitor.flagged \subseteq Active
    /\ sockets.up \subseteq {"header", "monitor"} /\ sockets.drops \in 0 .. MaxDrops
    /\ header \in [height : 0 .. Height, connected : BOOLEAN, timers : 0 .. MaxDrops]
    /\ delegates.active = NoDelegates
         \/ delegates.active \in [Active -> [last : 0 .. Height, flag : BOOLEAN, code : 0 .. 5]]

-----------------------------------------------------------------------------
(* Properties. *)

ForgedIn(d, round) == \E h \in 1 .. Height : chain.blocks[h] = d /\ Round(h) = round

\* What the comments of forging-status.js say of the codes, told by the blocks of the
\* chain.
TrueCode(d) ==
    LET now == Round(Height)
    IN  IF LastBlockOf(d) = None THEN 5
        ELSE IF ForgedIn(d, now) THEN 0
        ELSE IF ForgedIn(d, now - 1) THEN IF d \in RoundDelegates THEN 3 ELSE 1
        ELSE IF d \in RoundDelegates /\ ForgedIn(d, now - 2) THEN 4
        ELSE 2

StatusesTrue ==
    /\ header.connected /\ header.height = Height
    /\ delegates.active # NoDelegates
    /\ \A d \in Active : delegates.active[d].code = TrueCode(d)
    /\ delegates.totals = Totals([d \in Active |-> [code |-> TrueCode(d)]])
==============================================================================
