--------------------------------- MODULE MCGrid ---------------------------------
(***************************************************************************)
(* Either up to three variants on two slots with two cost modes, over a tape of   *)
(* two bars: more variants than slots, so that main blocks on the channel, *)
(* and failures in either mode; or one variant that succeeds, over all     *)
(* tapes of twelve bars: a word of four candles repeated along a drift,    *)
(* with gaps, missing bars and weekends between the opens.                 *)
(***************************************************************************)
EXTENDS Grid

Bar(o, h, l, c, v) == [o |-> o, h |-> h, l |-> l, c |-> c, v |-> v]
Up == Bar(4, 6, 3, 5, 2)
Bull == Bar(3, 7, 2, 7, 1)
Bear == Bar(7, 8, 3, 3, 3)
Mute == Bar(5, 5, 3, 5, -1)

Words ==
  { << Bull, Bear, Bull, Bear >>, << Bull, Up, Bear, Up >>, << Up, Bear, Mute, Bull >>,
    << Up, Mute, Bull, Bear >>, << Bear, Bear, Up, Bull >>, << Mute, Bull, Up, Bear >>,
    << Up, Bull, Bear, Mute >>, << Bear, Up, Bear, Bull >>,
    << Bar(5, 6, 3, 3, 1), Bar(4, 6, 3, 6, 2), Bar(6, 9, 6, 9, 1), Bar(8, 9, 6, 6, 2) >> }
Drifts ==
  { [j \in 1 .. 12 |-> 0], [j \in 1 .. 12 |-> j \div 2], [j \in 1 .. 12 |-> (12 - j) \div 2],
    [j \in 1 .. 12 |-> IF j > 9 THEN 6 * (j - 9) ELSE 0] }
Times ==
  { << 0, 4, 8, 12, 16, 20, 24, 28, 32, 36, 40, 44 >>,
    << 0, 4, 12, 20, 24, 36, 44, 48, 56, 60, 72, 76 >>,
    << 24, 28, 32, 36, 40, 44, 96, 100, 104, 108, 112, 116 >>,
    << 0, 24, 48, 52, 56, 60, 72, 96, 100, 120, 124, 168 >>,
    << 6, 7, 8, 9, 30, 31, 32, 33, 54, 55, 56, 57 >> }

Moved(s, d, t) == [o |-> s.o + d, h |-> s.h + d, l |-> s.l + d, c |-> s.c + d, v |-> s.v, t |-> t]
Chart(w, d, ts) == [j \in DOMAIN ts |-> Moved(w[1 + (j % 4)], d[j], ts[j])]

(* The other series lack one bar each.                                     *)
Higher(w, d, ts) ==
  LET opens == SelectSeq([k \in 1 .. 8 |-> ts[1] - (ts[1] % 12) + 12 * (k - 4)], LAMBDA t : t # 36)
  IN [k \in DOMAIN opens |-> Moved(w[1 + (k % 4)], d[k], opens[k])]
Source(w, ts) ==
  LET opens == SelectSeq([k \in 1 .. 14 |-> ts[1] - (ts[1] % 8) + 8 * (k - 3)], LAMBDA t : t # 16)
  IN [k \in DOMAIN opens |-> Moved(w[1 + (k % 4)], 0, opens[k])]

Tape(w, d, ts) ==
  [chart |-> Chart(w, d, ts), higher |-> Higher(w, d, ts), source |-> Source(w, ts)]
Short == Tape(<< Up, Bull, Bear, Mute >>, [j \in 1 .. 12 |-> 0], << 0, 4 >>)

(* The higher timeframe lacks a Thursday evening and the Friday.           *)
Holiday ==
  [Tape(<< Up, Bull, Bear, Mute >>, [j \in 1 .. 12 |-> 0], [j \in 1 .. 12 |-> 4 * j])
     EXCEPT !.higher = << Moved(Up, 0, -12), Moved(Up, 0, 0), Moved(Bull, 0, 12), Moved(Bear, 0, 96) >>]

TapesDef == {Short, Holiday} \cup {Tape(w, d, ts) : w \in Words, d \in Drifts, ts \in Times}

(* The long tapes have one variant that succeeds.                          *)
MCInit ==
  /\ Init
  /\ Len(tape.chart) > 2 => failsAt = << 0 >> /\ ~refused

MCSpec == MCInit /\ [][Next]_vars /\ Fairness
===============================================================================
