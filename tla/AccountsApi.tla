----------------------------- MODULE AccountsApi -----------------------------
(***************************************************************************)
(* lib/api/accounts.js: an account with all that belongs to it, its votes  *)
(* and voters, and the richest accounts.                                   *)
(***************************************************************************)
EXTENDS ApiFlows

\* cb(body.error) where the body has no error: the waterfall goes on without a
\* result, the next task takes its callback for the account, and calling the
\* callback it does not have ends the process.
WithoutResult(row, lost) == [row EXCEPT !["odd"] = Ask({lost})]

\* An account the node does not know is an empty list, which goes down the waterfall.
AccountCall(next) ==
    WithoutResult([Needs(next) EXCEPT !["empty"] = Ask({"noGroups"})], "lostGroups")

\* getMultisignaturesGroups reads response before it looks at err.
GetMultisignaturesGroups(next) ==
    WithoutResult([Lists(next) EXCEPT !["fail"] = Crash], "lostMemberships")

\* getMultisignaturesMemberships; the task after it, getDelegate, asks only Redis.
GetMultisignaturesMemberships(next) == [Lists(next) EXCEPT !["odd"] = Crash]

\* getForged, getIncomingTxsCnt, getOutgoingTxsCnt: zero when there are no data.
CountCall(next) == [Always(next) EXCEPT !["status"] = Error, !["fail"] = Error]

\* getAccount: one request after the other, and for delegates one more.
GetAccount(isDelegate) ==
    Flow({"account"},
         [account         |-> AccountCall(Ask({"groups"})),
          groups          |-> GetMultisignaturesGroups(Ask({"memberships"})),
          memberships     |-> GetMultisignaturesMemberships(
                                Ask({IF isDelegate THEN "forged" ELSE "incoming"})),
          forged          |-> CountCall(Ask({"incoming"})),
          incoming        |-> CountCall(Ask({"outgoing"})),
          outgoing        |-> CountCall(Done),
          noGroups        |-> GetMultisignaturesGroups(Ask({"noMemberships"})),
          noMemberships   |-> GetMultisignaturesMemberships(Done),
          lostGroups      |-> Always(Crash),
          lostMemberships |-> Always(Crash)])

\* getVotes: no votes when the body has none.
GetVotes == Flow({"votes"}, [votes |-> CountCall(Done)])

\* getVoters: without an error in the body the answer is read although there is none.
GetVoters == Flow({"voters"}, [voters |-> [Lists(Done) EXCEPT !["odd"] = Crash]])

GetTopAccounts == Flow({"accounts"}, [accounts |-> Lists(Done)])

\* The routes of api/accounts.js.
AccountsOperation ==
    [getAccount         |-> Alone(GetAccount(FALSE)),
     getDelegateAccount |-> Alone(GetAccount(TRUE)),
     getVotes           |-> Alone(GetVotes),
     getVoters          |-> Alone(GetVoters),
     getTopAccounts     |-> Alone(GetTopAccounts)]
==============================================================================
