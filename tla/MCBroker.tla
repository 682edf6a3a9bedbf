------------------------------- MODULE MCBroker -------------------------------
(***************************************************************************)
(* A small market for Broker: prices 1 .. 7, a stop two ticks and a target *)
(* five ticks away from the signal's price, one tick of slippage.          *)
(***************************************************************************)
EXTENDS Broker

Candle(o, h, l, c) == [O |-> o, H |-> h, L |-> l, C |-> c]

(* A quiet bar, one move each way that stays inside the brackets, a gap    *)
(* through either bracket, and a wide bar that reaches both.               *)
MCCandles ==
  { Candle(4, 4, 4, 4), Candle(4, 5, 4, 5), Candle(4, 4, 3, 3),
    Candle(7, 7, 6, 7), Candle(1, 2, 1, 1), Candle(4, 7, 1, 4) }

Plain(family) ==
  [ family |-> family, nextOpen |-> FALSE, windowed |-> FALSE, start |-> 0,
    end |-> 0, manage |-> {}, anchored |-> FALSE, slots |-> FALSE,
    liquidate |-> TRUE ]

MCRunConfigs ==
  { [Plain("bracket") EXCEPT !.windowed = TRUE, !.start = 1, !.end = 3,
                             !.manage = {"trail", "hold"}],
    [Plain("bracket") EXCEPT !.nextOpen = TRUE, !.manage = {"partial", "breakeven"}],
    [Plain("bracket") EXCEPT !.nextOpen = TRUE, !.anchored = TRUE, !.slots = TRUE],
    [Plain("bracket") EXCEPT !.nextOpen = TRUE, !.windowed = TRUE, !.start = 1,
                             !.end = 2, !.liquidate = FALSE],
    [Plain("limit")   EXCEPT !.manage = {"partial"}],
    [Plain("limit")   EXCEPT !.windowed = TRUE, !.start = 1, !.end = 3,
                             !.manage = {"closeAll"}],
    Plain("ribbon"), Plain("dualEma"), Plain("regimeHold"),
    Plain("capturedMarket"), Plain("capturedLimit"),
    [Plain("capturedMarket") EXCEPT !.nextOpen = TRUE, !.windowed = TRUE, !.start = 1,
                              !.end = 3] }
===============================================================================
