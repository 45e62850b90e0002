--------------------------- MODULE MCGameEngines ---------------------------
(* Small boards and decks for GameEngines, with crash points on, below and   *)
(* above the multipliers the ticks reach, and the defaults of every other    *)
(* engine.                                                                  *)
EXTENDS GameEngines

MCCrashPoints == {10000, 10001, 10500, 10501, 11025, 50000, 100000}
=============================================================================
