--------------------------- MODULE TransactionsApi ---------------------------
(***************************************************************************)
(* lib/api/transactions.js: one transaction, confirmed or not, and the     *)
(* lists of transactions.  The Redis lookups of known names are left out:  *)
(* they hand on what they find, and an error is ignored.                   *)
(***************************************************************************)
EXTENDS ApiFlows, Integers, FiniteSets, Sequences, SequencesExt

\* getTransaction: among the confirmed ones first, then among the unconfirmed; a
\* vote asks for all its delegates at once, and the first of them that cannot be had
\* is the answer.
GetTransaction(votes) ==
    Flow({"transaction"},
         Overlay([transaction |-> [Lists(Ask({"unconfirmed"})) EXCEPT
                                     !["ok"] = Ask(votes),
                                     !["refused"] = Ask({"unconfirmed"}),
                                     !["odd"] = Ask({"unconfirmed"})],
                  unconfirmed |-> Needs(Ask(votes))],
                 [v \in votes |-> [Always(Done) EXCEPT !["status"] = Pass, !["fail"] = Pass]]))

\* getUnconfirmedTransactions: when the pool cannot be had it goes on with the list
\* it was given, and without one that is undefined.
PoolCall(given) ==
    [Lists(Done) EXCEPT !["status"] = IF given THEN Done ELSE Crash,
                        !["fail"]   = IF given THEN Done ELSE Crash]

GetUnconfirmedTransactions == Flow({"pool"}, [pool |-> PoolCall(FALSE)])

\* getLastTransactions: the newest confirmed ones, then those of the pool.
GetLastTransactions ==
    Flow({"confirmed"}, [confirmed |-> Lists(Ask({"pool"})), pool |-> PoolCall(TRUE)])

\* parseLiskAddress: a name is looked up in Redis; an error there rejects a
\* promise nobody waits for.
ParseLiskAddress(next) == [Always(next) EXCEPT !["fail"] = Hang]

\* getTransactionsCall: normalizeTransactionParams always makes one query.
GetTransactionsCall == Lists(Done)

\* getTransactions and getTransactionsByAddress, with a sender and a recipient
\* given by name.
GetTransactions ==
    Flow({"sender"},
         [sender    |-> ParseLiskAddress(Ask({"recipient"})),
          recipient |-> ParseLiskAddress(Ask({"list"})),
          list      |-> GetTransactionsCall])

GetTransactionsByBlock == Flow({"list"}, [list |-> Lists(Done)])

\* The routes of api/transactions.js; a vote is a transaction of its own kind.
TransactionsOperation(votes) ==
    [getTransaction             |-> Alone(GetTransaction({})),
     getVote                    |-> Alone(GetTransaction(votes)),
     getUnconfirmedTransactions |-> Alone(GetUnconfirmedTransactions),
     getLastTransactions        |-> Alone(GetLastTransactions),
     getTransactions            |-> Alone(GetTransactions),
     getTransactionsByAddress   |-> Alone(GetTransactions),
     getTransactionsByBlock     |-> Alone(GetTransactionsByBlock)]

\* The elements of a set in an order of them, a set of pairs: sort.
Arranged(S, before) ==
    [k \in 1 .. Cardinality(S) |->
       CHOOSE x \in S : Cardinality({y \in S : <<y, x>> \in before}) = k - 1]

\* The newest of a list of transactions, which are known by their timestamps.
Newest(list, n) ==
    LET before == {p \in (DOMAIN list) \X (DOMAIN list) :
                     \/ list[p[1]] > list[p[2]]
                     \/ list[p[1]] = list[p[2]] /\ p[1] < p[2]}
        sorted == Arranged(DOMAIN list, before)
    IN  [k \in 1 .. (IF Len(list) < n THEN Len(list) ELSE n) |-> list[sorted[k]]]

\* concatenate: both lists, sorted by timestamp, the newest of them.
Concatenate(transactions, newTransactions, n) == Newest(transactions \o newTransactions, n)
==============================================================================
