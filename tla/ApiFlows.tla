------------------------------ MODULE ApiFlows ------------------------------
(***************************************************************************)
(* How a handler of lib/api goes from one request to the next.  A flow     *)
(* gives for every call to the node (or to Redis) and every kind of reply  *)
(* what the code does with it; an operation is one flow or several that    *)
(* run side by side or take over from each other.                          *)
(***************************************************************************)

\* The kinds of reply the callbacks tell apart.
\*   ok       the data asked for
\*   empty    a list without entries, or the 404 that says there is none
\*   refused  status 200 and a body with an error in place of the data
\*   odd      status 200 and a body with neither
\*   status   another status code
\*   fail     no response: err is set, response and body are undefined
Reply == {"ok", "empty", "refused", "odd", "status", "fail"}

\* What a callback does: it sends further requests, none when it hands its result
\* on to async; it calls the error function of the handler, or gives the error to
\* async; it throws, which ends the process; or it calls nobody, ever.
Ask(calls) == [then |-> "ask", calls |-> calls]
Done  == Ask({})
Error == [then |-> "error", calls |-> {}]
Pass  == [then |-> "pass",  calls |-> {}]
Crash == [then |-> "crash", calls |-> {}]
Hang  == [then |-> "hang",  calls |-> {}]

\* A callback that wants the data, and one that goes on with or without it.
Needs(next) == [r \in Reply |-> IF r = "ok" THEN next ELSE Error]
Always(next) == [r \in Reply |-> next]
\* One that takes an empty list as well as a full one.
Lists(next) == [Needs(next) EXCEPT !["empty"] = next]

\* A flow and the call it begins with.
Flow(first, calls) == [first |-> first, calls |-> calls]

\* An operation: its flows by name, those it begins with, and what becomes of a
\* flow that ends in an error: "respond" answers the request with it, "note" takes
\* it for a result as good as any other, the name of a flow tries that flow instead.
Operation(flows, begin, onError) ==
    [flows |-> flows, begin |-> begin, onError |-> onError]
Alone(flow) == Operation([main |-> flow], {"main"}, [main |-> "respond"])

\* Two tables in one, f where both have an entry.
Overlay(f, g) == [x \in DOMAIN f \cup DOMAIN g |-> IF x \in DOMAIN f THEN f[x] ELSE g[x]]
==============================================================================
