------------------------------ MODULE MCCandles ------------------------------
(* Small instances of Candles: minutes of two time units, hours of six. *)
EXTENDS Candles

CONSTANTS explorer, grunt

MCExplorer == {explorer}
MCBoth == {explorer, grunt}
MCDurations == <<2, 6>>
==============================================================================
