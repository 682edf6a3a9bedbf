------------------------------ MODULE FamilyTape ------------------------------
(***************************************************************************)
(* What a strategy family's bar handler reads: the bars up to the current  *)
(* one, the context columns at the current bar, and the run's parameters,  *)
(* with the candle tests of flag.go and the admission tests of             *)
(* family_helpers.go that the families share.                              *)
(*                                                                         *)
(* Prices are integers and the ATR is 1 or, when it is not available, 0:   *)
(* a distance "k ATR" of the code is the integer k here.  The code has one *)
(* set of parameters per family; a run has one family, so parameters with  *)
(* the same role share a field.  s is the side, 1 for long and -1 for      *)
(* short, and the two mirrored halves of the code are one formula on       *)
(* directed prices.                                                        *)
(***************************************************************************)
EXTENDS Integers, Sequences, FiniteSets

VARIABLES run,    \* the run: its parameters, the candles a bar may be, and
                  \* the values the context columns may have at a bar
          bars,   \* the candles up to the current bar, Go index j at j + 1
          market  \* the context columns at the current bar

cols == run.columns[market]

Candle(j) == run.candles[bars[j + 1]]

Missing == -1000  \* NaN or an absent level

i == Len(bars) - 1

O(j) == Candle(j).O
H(j) == Candle(j).H
L(j) == Candle(j).L
C(j) == Candle(j).C

Abs(x) == IF x < 0 THEN -x ELSE x

AtLeast0(x) == IF x < 0 THEN 0 ELSE x

Lowest(S) == CHOOSE x \in S : \A y \in S : x <= y

Highest(S) == CHOOSE x \in S : \A y \in S : x >= y

(* How far price a lies beyond b in the direction of side s.               *)
Beyond(s, a, b) == s * (a - b)

(* The bar's extreme on the losing and on the winning side of s.           *)
Adverse(s, j) == IF s = 1 THEN L(j) ELSE H(j)
Favorable(s, j) == IF s = 1 THEN H(j) ELSE L(j)

(* Of a set of prices, the one worst and the one best for side s.          *)
Worst(s, S) == IF s = 1 THEN Lowest(S) ELSE Highest(S)
Best(s, S)  == IF s = 1 THEN Highest(S) ELSE Lowest(S)

(* The last n bars; a lookback of zero means the current bar.              *)
LastBars(n) == AtLeast0(i - n + 1)..i

RangeHigh(S) == Highest({H(j) : j \in S})
RangeLow(S) == Lowest({L(j) : j \in S})

(* The best price of a set of bars for side s, and the worst.              *)
RangeEdge(s, S) == IF s = 1 THEN RangeHigh(S) ELSE RangeLow(S)

RecentExtreme(s, lookback) ==
  Worst(s, {Adverse(s, j) : j \in LastBars(IF lookback <= 0 THEN 1 ELSE lookback)})

(* Days, trade windows and UTC slots are blocks of consecutive bars.       *)
Day(j) == j \div run.dayBars
MinutesFromStart(j) == j % run.dayBars
InWindow(j) == MinutesFromStart(j) < run.windowBars

------------------------------------------------------------------------------
(* Candles.                                                                *)

Body(j) == Abs(C(j) - O(j))
RangeSize(j) == H(j) - L(j)
BodyTop(j) == IF O(j) > C(j) THEN O(j) ELSE C(j)
BodyBottom(j) == IF O(j) < C(j) THEN O(j) ELSE C(j)
TailSize(s, j) == IF s = 1 THEN BodyBottom(j) - L(j) ELSE H(j) - BodyTop(j)

(* isBullPin, isBearPin: a long tail, a short nose, and a close no worse   *)
(* than the open.                                                          *)
IsPin(s, j) ==
  /\ 100 * TailSize(s, j) >= 45 * RangeSize(j)
  /\ 2 * TailSize(s, j) >= 3 * Body(j)
  /\ 100 * TailSize(-s, j) <= 35 * RangeSize(j)
  /\ Beyond(s, C(j), O(j)) >= 0

IsEngulf(s, j) ==
  /\ j >= 1
  /\ Beyond(s, O(j-1), C(j-1)) > 0 /\ Beyond(s, C(j), O(j)) > 0
  /\ Beyond(s, O(j), C(j-1)) <= 0 /\ Beyond(s, C(j), O(j-1)) >= 0

IsOutsideBar(j) == j >= 1 /\ H(j) > H(j-1) /\ L(j) < L(j-1)

Trigger(s, j) ==
  IsPin(s, j) \/ IsEngulf(s, j) \/ (IsOutsideBar(j) /\ Beyond(s, C(j), O(j)) > 0)

TriggerOK(s) == run.useTrigger => Trigger(s, i)

(* Shares of the bar's range, in percent.                                  *)
CandleQualityOK(s) ==
  /\ run.closeMin # 0 =>
       IF RangeSize(i) = 0 THEN 50 >= run.closeMin
       ELSE 100 * Abs(C(i) - Adverse(s, i)) >= run.closeMin * RangeSize(i)
  /\ run.tailMin # 0 =>
       RangeSize(i) > 0 /\ 100 * TailSize(s, i) >= run.tailMin * RangeSize(i)

StopOK(entry, stop) ==
  /\ cols.atr # 0
  /\ Abs(entry - stop) \in run.minStop..run.maxStop

------------------------------------------------------------------------------
(* Closes that hold beyond a level, and levels.                            *)

(* hold closes beyond the level, and the close before them not beyond it.  *)
HeldBeyond(s, level, hold) ==
  /\ i >= hold
  /\ \A j \in i-hold+1..i : Beyond(s, C(j), level) > 0
  /\ Beyond(s, C(i - hold), level) <= 0

(* The bars of the last n whose close crossed the level.                   *)
Breaks(s, level, n) ==
  {j \in (IF i - n + 1 < 1 THEN 1 ELSE i - n + 1)..i :
     Beyond(s, C(j-1), level) <= 0 /\ Beyond(s, C(j), level) > 0}

(* The first key of the run's priority whose level exists and passes test. *)
FirstLevel(test(_)) ==
  LET fit == {n \in DOMAIN run.priority :
                /\ cols.levels[run.priority[n]] # Missing
                /\ test(run.priority[n])}
  IN  IF fit = {} THEN "none" ELSE run.priority[Lowest(fit)]

NearestLevel(ref, reach) ==
  LET near(k) == Abs(cols.levels[k] - ref) <= reach
  IN  IF cols.atr = 0 THEN "none" ELSE FirstLevel(near)

(* "Must not oppose": an unavailable trend fails closed.                   *)
HTFAllows(s) ==
  run.useHTF => cols.htf = "flat" \/ cols.htf = (IF s = 1 THEN "up" ELSE "down")

------------------------------------------------------------------------------
(* Setups.  level is what the dedup key and typedEntryDistanceOK read.     *)

NoSetup == [ok |-> FALSE]

Setup(s, entry, stop, target, key, level) ==
  [ok |-> TRUE, side |-> s, entry |-> entry, stop |-> stop, target |-> target,
   noTarget |-> FALSE, key |-> key, level |-> level, limit |-> FALSE]

(* A stop at least minStop away.                                           *)
Widened(s, stop) ==
  IF Abs(C(i) - stop) < run.minStop THEN C(i) - s * run.minStop ELSE stop

(* The common tail of the setups: the stop's size decides, the target is a *)
(* multiple of the risk.                                                   *)
FixedR(s, stop, key, level) ==
  IF StopOK(C(i), stop)
  THEN Setup(s, C(i), stop, C(i) + s * Abs(C(i) - stop) * run.targetR, key, level)
  ELSE NoSetup

(* inferDayTheme and dayThemeAdmission.                                    *)
DayTheme ==
  IF cols.regime = "trending" /\ cols.trend \in {1, -1} THEN "join_momentum"
  ELSE IF cols.openLocation \in {"sell_highs", "buy_lows"} THEN cols.openLocation
  ELSE LET h == cols.levels["PDH"]  l == cols.levels["PDL"]
       IN  IF Missing \in {h, l} \/ h <= l THEN "stand_aside"
           ELSE IF 100 * (C(i) - l) <= 38 * (h - l) THEN "buy_lows"
           ELSE IF 100 * (C(i) - l) >= 62 * (h - l) THEN "sell_highs"
           ELSE "stand_aside"

ThemeAdmits(s) ==
  run.themes # {} =>
    /\ DayTheme \in run.themes
    /\ CASE DayTheme = "join_momentum" -> s = cols.trend
         [] DayTheme = "buy_lows"      -> s = 1
         [] DayTheme = "sell_highs"    -> s = -1
         [] OTHER                      -> FALSE

EntryDistanceOK(level) ==
  \/ run.family = "failedBreakout" \/ run.maxEntryDistance = 0
  \/ cols.atr = 0 \/ level = Missing
  \/ Abs(C(i) - level) <= run.maxEntryDistance
==============================================================================
