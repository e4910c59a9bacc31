------------------------------- MODULE MCMarket -------------------------------
(* A small instance of Market: minutes of two time units, hours of six, order *)
(* books with fewer, as many and more asks than bids, one currency.           *)
EXTENDS Market

CONSTANTS explorer, euro, one, two

MCProcess == {explorer}
MCDurations == <<2, 6>>
MCBook == {[bids |-> <<1, 2>>, asks |-> <<1>>],
           [bids |-> <<2, 1>>, asks |-> <<1, 2, 1>>],
           [bids |-> <<1>>, asks |-> <<2>>]}
MCCurrency == {euro}
MCTwo == {one, two}
===============================================================================
