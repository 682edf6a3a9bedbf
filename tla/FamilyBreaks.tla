----------------------------- MODULE FamilyBreaks -----------------------------
(***************************************************************************)
(* The setups of the families that trade a break: of the opening range,    *)
(* of an inside day, of a level that is then retested, of a prior          *)
(* session's extreme, of a channel's rail, and of a Donchian channel.      *)
(* Each operator is the setup function of the family at the current bar    *)
(* for side s, with the side's HTF test that its handler makes first.      *)
(***************************************************************************)
EXTENDS FamilyTape

(* openingRangeFor: the bars of today's window (or of the current UTC      *)
(* slot, a window that takes the whole block) before the current one; the  *)
(* range is the first minutes of it, or its first candles.                 *)
OpeningBars ==
  LET prior == {j \in 0..i-1 : Day(j) = Day(i) /\ InWindow(j)}
  IN  IF ~InWindow(i) THEN {}
      ELSE IF run.firstMinutes > 0
      THEN IF MinutesFromStart(i) < run.firstMinutes THEN {}
           ELSE {j \in prior : MinutesFromStart(j) < run.firstMinutes}
      ELSE IF run.firstCandles \in 1..Cardinality(prior)
      THEN {j \in prior : j < Lowest(prior) + run.firstCandles}
      ELSE {}

(* openingHeldBeyond: the hold closes also lie after the range's last bar, *)
(* and the close before them is the range's or a later one inside.         *)
OpeningHeldBeyond(s, edge, last) ==
  /\ i > last /\ i - run.hold >= last
  /\ HeldBeyond(s, edge + s * run.breakBuffer, run.hold)

OpeningRetested(s, edge, last) ==
  run.retest > 0 =>
    \E j \in (LastBars(run.retest) \ 0..last) :
      Beyond(s, Adverse(s, j), edge) <= run.tolerance /\ Beyond(s, C(j), edge) > 0

(* With fixed distances the broker measures stop and target from the fill  *)
(* ("entry-fill"), and the size of the stop is not examined.               *)
OpeningStop(s, far) ==
  CASE run.fixedStop > 0 -> C(i) - s * run.fixedStop
    [] run.fixedStop <= 0 /\ run.stopATR > 0 -> C(i) - s * run.stopATR
    [] OTHER -> far - s * run.stopBuffer

OpeningReward(stop, width) ==
  CASE run.fixedTarget > 0 -> run.fixedTarget
    [] run.fixedTarget <= 0 /\ run.rangeMultiple > 0 -> width * run.rangeMultiple
    [] OTHER -> Abs(C(i) - stop) * run.targetR

OpeningSetup(s, stop, width) ==
  IF run.fixedStop > 0 \/ StopOK(C(i), stop)
  THEN Setup(s, C(i), stop, C(i) + s * OpeningReward(stop, width), <<"orb">>, Missing)
  ELSE NoSetup

OpeningBreak(s, rb) ==
  IF /\ rb # {} /\ cols.atr # 0 /\ HTFAllows(s)
     /\ RangeHigh(rb) > RangeLow(rb)
     /\ OpeningHeldBeyond(s, RangeEdge(s, rb), Highest(rb))
     /\ OpeningRetested(s, RangeEdge(s, rb), Highest(rb))
  THEN OpeningSetup(s, OpeningStop(s, RangeEdge(-s, rb)), RangeHigh(rb) - RangeLow(rb))
  ELSE NoSetup

OpeningRangeBreakout(s) == OpeningBreak(s, OpeningBars)

------------------------------------------------------------------------------
DayBars(d) == {j \in 0..i-1 : Day(j) = d}

(* insideDayRange: yesterday lies within the day before, up to a tolerance.*)
Inside(prev, prior) ==
  /\ cols.atr # 0 /\ prev # {} /\ prior # {}
  /\ RangeHigh(prev) <= RangeHigh(prior) + run.tolerance
  /\ RangeLow(prev) >= RangeLow(prior) - run.tolerance

ExpansionFrom(s, level) ==
  IF HTFAllows(s) /\ HeldBeyond(s, level, run.hold) /\ TriggerOK(s)
  THEN FixedR(s, level - s * run.stopBuffer, <<s, level>>, level)
  ELSE NoSetup

InsideDayExpansion(s) ==
  IF Inside(DayBars(Day(i) - 1), DayBars(Day(i) - 2))
  THEN ExpansionFrom(s, RangeEdge(s, DayBars(Day(i) - 1)))
  ELSE NoSetup

------------------------------------------------------------------------------
(* breakRetest.  Levels above the market serve longs, below it shorts; the *)
(* first level of the priority that passes every test makes the setup, and *)
(* the prior day's extreme stands in when no level of the priority exists. *)
LevelSide(k) == IF k \in {"PDH", "WH", "AH", "LH"} THEN 1 ELSE -1

BreakRetestUsable(s, k) == LevelSide(k) = s /\ cols.levels[k] # Missing

BreakRetestLevels(s) ==
  IF \E n \in DOMAIN run.priority : BreakRetestUsable(s, run.priority[n]) THEN run.priority
  ELSE <<IF s = 1 THEN "PDH" ELSE "PDL">>

BreakRunDistance(s, level) ==
  Highest({0} \cup {Beyond(s, Favorable(s, j), level) : j \in LastBars(run.fresh)})

RetestedLevel(s, level) ==
  \E j \in LastBars(run.retest) :
    Beyond(s, Adverse(s, j), level) \in -(2 * run.tolerance)..run.tolerance

(* The Fibonacci stop replaces the stop that was just examined; the        *)
(* fixed-R target keeps the risk of the one examined.                      *)
FibStop(s, top, distance) == top - s * ((distance * 3) \div 5) - s * run.stopBuffer

BreakRetestSetup(s, key, level, ran, stop) ==
  IF /\ Breaks(s, level, run.fresh) # {} /\ ran >= run.minBreak
     /\ RetestedLevel(s, level)
     /\ Beyond(s, C(i), level) > 0 /\ Trigger(s, i)
     /\ RangeSize(i) >= run.displacement
     /\ StopOK(C(i), stop)
  THEN Setup(s, C(i),
             IF run.mode = "fibRetrace" THEN FibStop(s, level + s * ran, ran) ELSE stop,
             IF run.fibExtension > 0 THEN C(i) + s * ran * run.fibExtension
             ELSE C(i) + s * Abs(C(i) - stop) * run.targetR,
             <<s, key, level>>, level)
  ELSE NoSetup

BreakRetestAt(s, key, level) ==
  BreakRetestSetup(s, key, level, BreakRunDistance(s, level),
                   Widened(s, RecentExtreme(s, run.retest) - s * run.stopBuffer))

FirstOf(tries) ==
  IF \E n \in DOMAIN tries : tries[n].ok
  THEN tries[Lowest({n \in DOMAIN tries : tries[n].ok})]
  ELSE NoSetup

BreakRetestOf(s, levels) ==
  FirstOf([n \in DOMAIN levels |->
             IF BreakRetestUsable(s, levels[n])
             THEN BreakRetestAt(s, levels[n], cols.levels[levels[n]]) ELSE NoSetup])

BreakRetest(s) ==
  IF /\ cols.regime = "trending" /\ cols.er \in run.minER..run.maxER
     /\ HTFAllows(s) /\ cols.atr # 0
  THEN BreakRetestOf(s, BreakRetestLevels(s))
  ELSE NoSetup

------------------------------------------------------------------------------
(* sessionBreakHold, for one of the four session levels.                   *)
SessionLevels == <<"AH", "AL", "LH", "LL">>

SessionHold(s, key, level) ==
  IF /\ s \in run.allow /\ HTFAllows(s)
     /\ cols.atr # 0 /\ level # Missing /\ i >= run.hold + 1
     /\ HeldBeyond(s, level, run.hold) /\ Trigger(s, i)
  THEN FixedR(s, level - s * run.stopBuffer, <<s, key>>, level)
  ELSE NoSetup

SessionBreakHold(key) ==
  IF run.levels # {} => key \in run.levels
  THEN SessionHold(LevelSide(key), key, cols.levels[key])
  ELSE NoSetup

------------------------------------------------------------------------------
(* channelBreakHold.  A rail is a line; cols.channel gives both.           *)
Rail(s, j) ==
  IF s = 1 THEN cols.channel.high + cols.channel.slope * j
  ELSE cols.channel.low + cols.channel.slope * j

ChannelFits ==
  /\ cols.channel.since \in 0..run.activeWithin
  /\ run.minWidth # 0 => cols.channel.high - cols.channel.low >= run.minWidth
  /\ run.maxWidth # 0 => cols.channel.high - cols.channel.low <= run.maxWidth
  /\ run.directions # {} => cols.channel.direction \in run.directions

ChannelBreakHold(s) ==
  IF /\ cols.atr # 0 /\ i >= run.hold /\ ChannelFits
     /\ \A j \in i-run.hold+1..i : Beyond(s, C(j), Rail(s, j)) > 0
     /\ Beyond(s, C(i - run.hold), Rail(s, i - run.hold)) <= 0
     /\ TriggerOK(s) /\ HTFAllows(s)
  THEN FixedR(s, Rail(s, i) - s * run.stopBuffer,
              <<s, cols.channel.start, Rail(s, i)>>, Rail(s, i))
  ELSE NoSetup

------------------------------------------------------------------------------
(* donchianBreakout: the close beyond the extremes of the bars before it   *)
(* and, when the run has a trend EMA, beyond that too.                     *)
DonchianBreakout(s) ==
  IF /\ i >= run.lookback
     /\ Beyond(s, C(i), RangeEdge(s, (i - run.lookback)..(i - 1))) > 0
     /\ run.useEMA => cols.ema # Missing /\ Beyond(s, C(i), cols.ema) > 0
     /\ HTFAllows(s) /\ cols.atr # 0 /\ run.stopATR > 0
  THEN [Setup(s, C(i), C(i) - s * run.stopATR, C(i) + s * run.stopATR * run.targetR,
              <<>>, Missing) EXCEPT !.noTarget = run.targetR = 0]
  ELSE NoSetup

------------------------------------------------------------------------------
(* flagContinuation: after a fresh break of the prior day's extreme, the   *)
(* shortest flag of n bars behind a pole that passes every test.           *)
PriorDayLevel(s) == cols.levels[IF s = 1 THEN "PDH" ELSE "PDL"]

FlagSetup(s, level, stop, top, poleRange) ==
  Setup(s, C(i),
        IF run.mode = "fibRetrace" THEN FibStop(s, top, poleRange) ELSE stop,
        C(i) + s * Lowest({poleRange, Abs(C(i) - stop) * run.targetR}),
        <<>>, level)

PoleOK(s, pole, level) ==
  /\ Lowest(pole) >= 0 /\ RangeHigh(pole) - RangeLow(pole) >= run.minBreak
  /\ 100 * Beyond(s, C(Highest(pole)), O(Lowest(pole)))
       >= run.minNet * (RangeHigh(pole) - RangeLow(pole))
  /\ Beyond(s, RangeEdge(s, pole), level) >= 0
  /\ run.firstTouch =>
       Highest(pole) + 1 - Highest(Breaks(s, level, run.fresh)) <= run.maxFlag

(* top is the pole's extreme, bottom the flag's on the other side.         *)
FlagOK(s, level, flagRange, poleRange, n, top, bottom) ==
  /\ 100 * Beyond(s, top, bottom) <= run.maxDepth * poleRange
  /\ Beyond(s, bottom, level) >= -run.tolerance
  /\ run.contract => flagRange * run.pole < poleRange * n
  /\ 100 * Beyond(s, C(i), bottom) >= run.closeFrac * flagRange

FlagAfter(s, level, pole, flag) ==
  IF /\ PoleOK(s, pole, level)
     /\ FlagOK(s, level, RangeHigh(flag) - RangeLow(flag), RangeHigh(pole) - RangeLow(pole),
               Cardinality(flag), RangeEdge(s, pole), RangeEdge(-s, flag))
  THEN FlagSetup(s, level, Widened(s, RangeEdge(-s, flag) - s * run.stopBuffer),
                 RangeEdge(s, pole), RangeHigh(pole) - RangeLow(pole))
  ELSE NoSetup

FlagAt(s, level, start) ==
  FlagAfter(s, level, (start - run.pole)..(start - 1), start..i)

FlagContinuation(s) ==
  IF /\ cols.regime = "trending" /\ cols.trend = s /\ cols.atr # 0
     /\ cols.er \in run.minER..run.maxER
     /\ run.avoidLunch => cols.phase # "lunch"
     /\ HTFAllows(s)
     /\ PriorDayLevel(s) # Missing
     /\ Breaks(s, PriorDayLevel(s), run.fresh) # {}
     /\ Trigger(s, i)
  THEN FirstOf([m \in 1..(run.maxFlag - run.minFlag + 1) |->
                 FlagAt(s, PriorDayLevel(s), i - (run.minFlag + m - 1) + 1)])
  ELSE NoSetup
==============================================================================
