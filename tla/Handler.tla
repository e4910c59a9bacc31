------------------------------- MODULE Handler -------------------------------
(***************************************************************************)
(* What handler.js is promised: a handler of lib/api calls one of the two  *)
(* functions it is given, and calls none after that; but an error may be   *)
(* reported again, which ends the process, as does a handler that throws.  *)
(***************************************************************************)
EXTENDS Sequences

VARIABLES
    calls, \* the calls of the functions success and error
    alive  \* the process runs

HandlerInit == calls \in {<<>>, <<"error">>} /\ alive = TRUE

CallBack(function) == calls = <<>> /\ calls' = <<function>> /\ UNCHANGED alive
ErrorAgain  == calls = <<"error">> /\ calls' = Append(calls, "error") /\ alive' = FALSE
ProcessEnds == alive' = FALSE /\ UNCHANGED calls

HandlerNext ==
    /\ alive
    /\ CallBack("success") \/ CallBack("error") \/ ErrorAgain \/ ProcessEnds

HandlerSpec == HandlerInit /\ [][HandlerNext]_<<calls, alive>>
==============================================================================
