------------------------------ MODULE WebGraph ------------------------------
(***************************************************************************)
(* The activity graph page: activity-graph.service.js turns the blocks the *)
(* server pushes into a graph of blocks, transactions and accounts, and    *)
(* begins a new one when it is full.  A block may be pushed again, left    *)
(* out, or be replaced by one of a fork with the same transactions.        *)
(***************************************************************************)
EXTENDS Integers, FiniteSets, FiniteSetsExt

CONSTANTS
    Block,       \* the blocks: records, see BlockAssumption
    MaxBlocks    \* blocks of a graph at most: 20 in the code

\* Transactions are records with their two accounts; recipient is NoAccount when they
\* have none.
NoAccount == "none"
ASSUME BlockAssumption ==
    /\ MaxBlocks \in Nat \ {0} /\ IsFiniteSet(Block)
    /\ \A b \in Block :
         /\ DOMAIN b = {"id", "timestamp", "generator", "txs"}
         /\ b.timestamp \in Nat /\ IsFiniteSet(b.txs)
         /\ \A t \in b.txs : /\ DOMAIN t = {"id", "amount", "sender", "recipient"}
                             /\ t.amount \in Nat

AllTxs == UNION {b.txs : b \in Block}
AccountsOf(b) ==
    {b.generator} \cup {t.sender : t \in b.txs} \cup ({t.recipient : t \in b.txs} \ {NoAccount})
AllAccounts == UNION {AccountsOf(b) : b \in Block}

\* The node gives every block and every transaction an id of its own, and no account has
\* the id of one of them.
ASSUME IdAssumption ==
    /\ \A b, c \in Block : b.id = c.id => b = c
    /\ \A t, u \in AllTxs : t.id = u.id => t = u
    /\ \A b \in Block : \A t \in AllTxs : b.id # t.id
    /\ \A a \in AllAccounts : (\A b \in Block : a # b.id) /\ (\A t \in AllTxs : a # t.id)

VARIABLES
    graph,    \* nodes and edges of sigma's graph
    indexes,  \* the ids that are in it: of a node one part, of an edge two
    blocks,   \* how many blocks are in it
    selected, \* the node object that is selected: its id, and whether the graph has it
    painted,  \* the nodes of the graph in the colour of a selection
    figures,  \* the statistics beside the graph
    lastPush  \* history: the block pushed last

graphVars == <<graph, indexes, blocks, selected, painted, figures, lastPush>>

EmptyGraph == [nodes |-> {}, edges |-> {}]
Node(id, type, value) == [id |-> id, type |-> type, value |-> value]
\* The ids of the edges at an account are random: they are never found in indexes.
Edge(source, target) == [source |-> source, target |-> target]

\* What addBlock works on.
State == [graph |-> graph, indexes |-> indexes]

AddNode(s, node) ==
    IF <<node.id>> \in s.indexes THEN s
    ELSE [graph |-> [s.graph EXCEPT !.nodes = @ \cup {node}], indexes |-> s.indexes \cup {<<node.id>>}]

\* sigma refuses an edge between nodes it does not have.
AddEdge(s, edge) ==
    IF <<edge.source, edge.target>> \in s.indexes THEN s
    ELSE [graph |-> [s.graph EXCEPT !.edges = @ \cup {edge}],
          indexes |-> s.indexes \cup {<<edge.source, edge.target>>}]

AddAccount(s, id) == AddNode(s, Node(id, "account", 0))

AddTxSender(s, tx) == AddEdge(AddAccount(s, tx.sender), Edge(tx.sender, tx.id))

AddTxRecipient(s, tx) ==
    IF tx.recipient = NoAccount THEN s
    ELSE AddEdge(AddAccount(s, tx.recipient), Edge(tx.id, tx.recipient))

AddTx(s, tx) ==
    IF <<tx.id>> \in s.indexes THEN s
    ELSE AddTxRecipient(AddTxSender(AddNode(s, Node(tx.id, "tx", tx.amount)), tx), tx)

AddBlockGenerator(s, block) ==
    AddEdge(AddAccount(s, block.generator), Edge(block.generator, block.id))

AddBlockTxs(s, block) ==
    FoldSet(LAMBDA tx, acc : AddEdge(AddTx(acc, tx), Edge(block.id, tx.id)), s, block.txs)

\* Mutant: clear forgets to empty the indexes.
Cleared_KeepsIndexes == [graph |-> EmptyGraph, indexes |-> indexes]

\* clear
Cleared == [graph |-> EmptyGraph, indexes |-> {}]

IsFull == blocks + 1 > MaxBlocks

\* addBlock
AddBlock(block) ==
    LET s == IF IsFull THEN Cleared ELSE State
        added == AddBlockTxs(
                   AddBlockGenerator(AddNode(s, Node(block.id, "block", block.timestamp)), block),
                   block)
    IN  /\ graph' = added.graph /\ indexes' = added.indexes
        /\ blocks' = (IF IsFull THEN 0 ELSE blocks) + 1

NodesByType(g, type) == {n \in g.nodes : n.type = type}
Values(nodes) == {n.value : n \in nodes}

\* Statistics.refresh; without a block there is no beginning.
Refreshed(g) ==
    [txs |-> Cardinality(NodesByType(g, "tx")),
     volume |-> MapThenSumSet(LAMBDA n : n.value, NodesByType(g, "tx")),
     blocks |-> Cardinality(NodesByType(g, "block")),
     accounts |-> Cardinality(NodesByType(g, "account")),
     beginning |-> Min(Values(NodesByType(g, "block"))),
     end |-> Max(Values(NodesByType(g, "block")))]

-----------------------------------------------------------------------------

NoNode == [id |-> "none", live |-> FALSE]
NoFigures == [txs |-> 0]

GraphInit ==
    /\ graph = EmptyGraph /\ indexes = {} /\ blocks = 0
    /\ selected = NoNode /\ painted = {} /\ figures = NoFigures /\ lastPush = {}

\* The server pushes a block: refresh adds it unless it is there, clearing a full graph
\* first, and counts again.  What was selected in a graph that is cleared stays selected,
\* an object no graph has.
Push(block) ==
    /\ lastPush' = {block}
    /\ IF <<block.id>> \in indexes
       THEN UNCHANGED <<graph, indexes, blocks, selected, painted>>
       ELSE /\ AddBlock(block)
            /\ painted' = IF IsFull THEN {} ELSE painted
            /\ selected' = [selected EXCEPT !.live = @ /\ ~IsFull]
    /\ figures' = Refreshed(graph')

\* NodeSelect.add: the colour moves from the node selected before to this one.
Select(node) ==
    /\ node \in graph.nodes
    /\ selected' = [id |-> node.id, live |-> TRUE]
    /\ painted' = (painted \ (IF selected.live THEN {selected.id} ELSE {})) \cup {node.id}
    /\ UNCHANGED <<graph, indexes, blocks, figures, lastPush>>

\* NodeSelect.remove: a click beside the nodes.
Unselect ==
    /\ selected # NoNode
    /\ selected' = NoNode
    /\ painted' = painted \ (IF selected.live THEN {selected.id} ELSE {})
    /\ UNCHANGED <<graph, indexes, blocks, figures, lastPush>>

GraphStep ==
    \/ \E block \in Block : Push(block)
    \/ \E node \in graph.nodes : Select(node)
    \/ Unselect

GraphTypeOK ==
    /\ \A e \in graph.edges : {e.source, e.target} \subseteq {n.id : n \in graph.nodes}
    /\ blocks \in 0 .. MaxBlocks
    /\ {<<n.id>> : n \in graph.nodes} \subseteq indexes
    /\ lastPush \subseteq Block

-----------------------------------------------------------------------------
(* Properties. *)

\* activity-graph.service.js: whatever was pushed, again, in another order or from a fork,
\* the graph is that of the blocks it counts, with every transaction and account of
\* theirs once and no other; the block pushed last is among them; the statistics are
\* those of these blocks; and nothing but what is selected has the selection's colour.
GraphExact ==
    LET shown == {b \in Block : \E n \in NodesByType(graph, "block") : n.id = b.id}
        txs   == UNION {b.txs : b \in shown}
    IN  /\ graph.nodes =
             {Node(b.id, "block", b.timestamp) : b \in shown}
             \cup {Node(t.id, "tx", t.amount) : t \in txs}
             \cup {Node(a, "account", 0) : a \in UNION {AccountsOf(b) : b \in shown}}
        /\ graph.edges =
             {Edge(b.generator, b.id) : b \in shown}
             \cup (UNION {{Edge(b.id, t.id) : t \in b.txs} : b \in shown})
             \cup {Edge(t.sender, t.id) : t \in txs}
             \cup {Edge(t.id, t.recipient) : t \in {u \in txs : u.recipient # NoAccount}}
        /\ blocks = Cardinality(shown)
        /\ lastPush \subseteq shown
        /\ shown # {} =>
             /\ figures.blocks = blocks /\ figures.txs = Cardinality(txs)
             /\ figures.volume = MapThenSumSet(LAMBDA t : t.amount, txs)
             /\ \A b \in shown : figures.beginning <= b.timestamp /\ b.timestamp <= figures.end
        /\ painted = IF selected.live THEN {selected.id} ELSE {}
=============================================================================
