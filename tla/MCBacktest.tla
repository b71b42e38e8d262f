----------------------------- MODULE MCBacktest -----------------------------
\* Candles around an entry at 10: a quiet one, one through each of the targets,
\* one through the stop, one through both, one that opens below the stop.
EXTENDS Backtest

Candle(o, l, h, c) == [open |-> o, low |-> l, high |-> h, close |-> c]
MCBars == {Candle(10, 9, 11, 10), Candle(10, 9, 13, 12), Candle(11, 9, 16, 14),
           Candle(10, 6, 10, 7), Candle(10, 6, 16, 10), Candle(6, 5, 8, 6)}
MCLevels == <<2, 4>>
=============================================================================
