------------------------------- MODULE LoopTape -------------------------------
(***************************************************************************)
(* The strategies that replay their bars in a loop of their own, without   *)
(* the shared broker handler: what they have in common.  A bar is replayed *)
(* in three phases, what is due at its open, what its range touches, and   *)
(* what its close decides; the phases of a loop are the parts of the       *)
(* loop's body in their order.  The series grows by a bar at a time, with  *)
(* gaps where the market was shut, and may end after any bar.              *)
(*                                                                         *)
(* Prices are integers, times count bars, and a distance that the code     *)
(* computes from an ATR, a percentage or a pip size is an integer of the   *)
(* run.  s is the side, 1 for long and -1 for short.                       *)
(***************************************************************************)
EXTENDS Integers, Sequences, FiniteSets

VARIABLES loop,   \* the run: which loop, its parameters, its candles
          bars,   \* the bars so far, Go index j at j + 1: time and candle
          phase,  \* "next", "open", "range", "close", "done", or a step of
                  \* the loop's own at the bar's open
          pos,    \* the open position, or Flat
          order,  \* the pending entry, or NoOrder
          mark,   \* what the loop remembers besides
          trades, \* the closed trades, in the order of their closing
          audits  \* what the loop recorded of its days, rows or signals

vars == <<loop, bars, phase, pos, order, mark, trades, audits>>

None == -1000

Flat == [side |-> 0]
NoOrder == [side |-> 0]

i == Len(bars) - 1

T(j) == bars[j + 1].t
Candle(j) == loop.candles[bars[j + 1].c]
O(j) == Candle(j).O
H(j) == Candle(j).H
L(j) == Candle(j).L
C(j) == Candle(j).C

Held == pos.side # 0
Ordered == order.side # 0

Abs(x) == IF x < 0 THEN -x ELSE x
Lowest(S) == CHOOSE x \in S : \A y \in S : x <= y
Highest(S) == CHOOSE x \in S : \A y \in S : x >= y

RangeHigh(S) == Highest({H(j) : j \in S})
RangeLow(S) == Lowest({L(j) : j \in S})

Beyond(s, a, b) == s * (a - b)

(* The bar's extreme on the losing and on the winning side of s, and the   *)
(* price of a set that is worst for s.                                     *)
Adverse(s, j) == IF s = 1 THEN L(j) ELSE H(j)
Favorable(s, j) == IF s = 1 THEN H(j) ELSE L(j)
Worst(s, S) == IF s = 1 THEN Lowest(S) ELSE Highest(S)

OpensThroughStop(s, stop, j) == Beyond(s, O(j), stop) <= 0
TouchesStop(s, stop, j) == Beyond(s, Adverse(s, j), stop) <= 0
TouchesTarget(s, target, j) == target # None /\ Beyond(s, Favorable(s, j), target) >= 0

(* The instants of a bar, in order.                                        *)
Instant(j, ph) ==
  4 * T(j) + (CASE ph = "range" -> 1 [] ph \in {"close", "next"} -> 3 [] OTHER -> 0)

(* A position entered at this bar, in this phase; tag is what it came from.*)
Position(s, price, stop, target, tag) ==
  [side |-> s, entry |-> price, at |-> i, entered |-> Instant(i, phase),
   stop |-> stop, target |-> target, tag |-> tag]

Trade(p, price, reason) ==
  [side |-> p.side, entry |-> p.entry, at |-> p.at, entered |-> p.entered,
   stop |-> p.stop, target |-> p.target, tag |-> p.tag,
   exit |-> price, out |-> i, left |-> Instant(i, phase), reason |-> reason]

CloseAt(price, reason) ==
  /\ pos' = Flat
  /\ trades' = Append(trades, Trade(pos, price, reason))

Audited(n, outcome) == [audits EXCEPT ![n].outcome = outcome]

(* The series: loop.series bounds it, bar by bar, to a set of gaps since   *)
(* the bar before and a set of candles.                                    *)
NewBar ==
  /\ phase = "next" /\ Len(bars) < Len(loop.series)
  /\ \E gap \in loop.series[Len(bars) + 1].gaps, c \in loop.series[Len(bars) + 1].candles :
       bars' = Append(bars, [t |-> IF bars = <<>> THEN loop.first ELSE T(i) + gap, c |-> c])
  /\ phase' = "open"
  /\ UNCHANGED <<loop, pos, order, mark, trades, audits>>

(* A position at the end of the series is closed at the last close; an     *)
(* order that no bar filled is dropped.                                    *)
SeriesEnds ==
  /\ phase = "next" /\ bars # <<>> /\ phase' = "done"
  /\ IF Held THEN CloseAt(C(i), "end-of-data") ELSE UNCHANGED <<pos, trades>>
  /\ UNCHANGED <<loop, bars, order, mark, audits>>

(* Mutant: a gap through the stop is paid at the stop.                     *)
StopPriceFill(p) == p.stop

(* The broker's bracket: the stop before the target, and at the open when  *)
(* the stop was carried over it, or its order is aware of gaps, and the    *)
(* bar opened beyond it.                                                   *)
StopFill(p) ==
  IF (loop.gapAware \/ p.at < i) /\ OpensThroughStop(p.side, p.stop, i) THEN O(i) ELSE p.stop

StopTouched == Held /\ pos.stop # None /\ TouchesStop(pos.side, pos.stop, i)
TargetTouched == Held /\ ~StopTouched /\ TouchesTarget(pos.side, pos.target, i)

Bracket ==
  \/ StopTouched /\ CloseAt(StopFill(pos), "sl")
  \/ TargetTouched /\ CloseAt(pos.target, "tp")
  \/ ~StopTouched /\ ~TargetTouched /\ UNCHANGED <<pos, trades>>

BracketRange == phase = "range" /\ Bracket /\ UNCHANGED <<order, mark, audits>>

Phase(from, to) == phase = from /\ phase' = to /\ UNCHANGED <<loop, bars>>

Unchanged == UNCHANGED <<pos, order, mark, trades, audits>>

NothingDue == Phase("open", "range") /\ Unchanged

(* The bars from j to k follow each other without a gap.                   *)
Contiguous(j, k) == \A n \in j+1..k : T(n) - T(n - 1) = 1

(* The latest bars of the ATR's length are there; the distance "k ATR" is  *)
(* the integer k.                                                          *)
ATRReady(j) == j + 1 >= loop.atrLength
==============================================================================
