---------------------------- MODULE MCApiRequest ----------------------------
(* A small instance of ApiRequest. *)
EXTENDS ApiRequest
MCTx == {1, 2, 3}
MCVote == {"vote1", "vote2"}
MCForger == {"forger1", "forger2"}
==============================================================================
