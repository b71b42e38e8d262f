---------------------------- MODULE MCSignalFeed ----------------------------
(***************************************************************************)
(* Four candles, of which the exchange shows three at a time, so that the  *)
(* first can be missed; two runners and a hub that holds two signals, so   *)
(* that the next one drops the oldest; one restart.                        *)
(***************************************************************************)
EXTENDS SignalFeed

CONSTANTS rsi, ema

MCRunnerSeq == <<rsi, ema>>

=============================================================================
