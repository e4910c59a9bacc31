----------------------------- MODULE MCWebClient -----------------------------
(* A small instance of WebClient: pages of two entries, a graph of two blocks. *)
EXTENDS WebClient

MCPath == {k * Limit : k \in 0 .. MaxPages - 1}

Tx(id, sender, recipient) ==
    [id |-> id, amount |-> 1, sender |-> sender, recipient |-> recipient]
Blk(id, timestamp, generator, txs) ==
    [id |-> id, timestamp |-> timestamp, generator |-> generator, txs |-> txs]

\* b2 and b3 are of two branches, with a transaction in common; t3 is to oneself.
MCBlock ==
    {Blk("b1", 1, "a1", {}), Blk("b2", 2, "a2", {Tx("t1", "a1", "a3")}),
     Blk("b3", 3, "a1", {Tx("t1", "a1", "a3"), Tx("t2", "a2", NoAccount)}),
     Blk("b4", 4, "a3", {Tx("t3", "a2", "a2")})}

MCRoster == <<1, 2>>
\* A delegate that has not forged yet, and one that has missed two rounds.
MCBefore == {<<2>>, <<1, 2, 2, 2, 2>>}

Pr(ip, port, v, h, g, located) ==
    [ip |-> ip, port |-> port, version |-> v, height |-> h, group |-> g, located |-> located]

\* More versions and heights than are counted apart, two ports of one ip, a peer without
\* a height, and some without a location.
MCPeer ==
    {Pr(1, 1, 1, 5, 1, TRUE), Pr(1, 2, 2, 6, 2, TRUE), Pr(2, 1, 3, 0, 0, TRUE),
     Pr(3, 1, 4, 7, 3, FALSE), Pr(4, 1, 4, 8, 1, TRUE), Pr(5, 1, 4, 9, 1, FALSE),
     Pr(6, 1, 5, 4, 1, FALSE)}
==============================================================================
