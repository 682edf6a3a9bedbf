---------------------------- MODULE FamilyPullbacks ----------------------------
(***************************************************************************)
(* The setups of the families that join a trend, on a pullback to an       *)
(* average, a Fibonacci retracement or momentum, and those of the Keltner  *)
(* channel and of the fair value gap.                                      *)
(***************************************************************************)
EXTENDS FamilyTape

(* hiLo from the tag to the current bar on one side, and the range of the  *)
(* impulse before the tag: depth is the share of it that was given back.   *)
PullbackExtreme(s, tag) == Worst(s, {Adverse(s, j) : j \in tag..i})

GivenBack(s, tag, impulse) ==
  /\ RangeHigh(impulse) > RangeLow(impulse)
  /\ 100 * Beyond(s, RangeEdge(s, impulse), PullbackExtreme(s, tag))
       <= run.maxDepth * (RangeHigh(impulse) - RangeLow(impulse))

PullbackOK(s, tag) ==
  GivenBack(s, tag, AtLeast0(tag - run.lookback)..Highest({AtLeast0(tag - run.lookback), tag - 1}))

(* The latest bar that came within the tolerance of the EMA.               *)
EMATags(s) ==
  {j \in LastBars(run.within) : Beyond(s, Adverse(s, j), cols.ema) <= run.tolerance}

------------------------------------------------------------------------------
(* trendPullback, with the EMA or, when the run names a touch, with the    *)
(* session's VWAP: updateTrendPullbackSessionVWAPTouch counts the touches  *)
(* of the window the bar is in, also while a position is open.             *)
VWAPTouches ==
  {j \in 0..i : /\ Day(j) = Day(i) /\ InWindow(j)
                /\ IF run.mode = "close"
                   THEN BodyBottom(j) <= cols.vwap /\ cols.vwap <= BodyTop(j)
                   ELSE L(j) <= cols.vwap /\ cols.vwap <= H(j)}

TouchTag(touches) ==
  {j \in touches : /\ j = Lowest(touches) /\ i - j <= run.within
                   /\ run.firstTouch => touches = {j}}

PullbackLine == IF run.mode = "ema" THEN cols.ema ELSE cols.vwap

PullbackTags(s) == IF run.mode = "ema" THEN EMATags(s) ELSE TouchTag(VWAPTouches)

PullbackFrom(s, tag) ==
  IF PullbackOK(s, tag)
  THEN FixedR(s, Widened(s, PullbackExtreme(s, tag) - s * run.stopBuffer), <<>>, Missing)
  ELSE NoSetup

PullbackOf(s, tags) == IF tags = {} THEN NoSetup ELSE PullbackFrom(s, Highest(tags))

TrendPullback(s) ==
  IF /\ cols.regime = "trending" /\ cols.er \in run.minER..run.maxER
     /\ HTFAllows(s) /\ cols.atr # 0 /\ Missing \notin {cols.ema, PullbackLine}
     /\ Beyond(s, C(i), PullbackLine) > 0 /\ s * cols.slope > 0
     /\ TriggerOK(s)
  THEN PullbackOf(s, PullbackTags(s))
  ELSE NoSetup

------------------------------------------------------------------------------
(* elderTripleScreen.                                                      *)
EMAReclaim(s) ==
  i > 0 /\ Beyond(s, C(i-1), cols.ema) < 0 /\ Beyond(s, C(i), cols.ema) > 0

ElderSetup(s, stop) ==
  IF Abs(C(i) - stop) >= run.minStop
  THEN Setup(s, C(i), stop, C(i) + s * Abs(C(i) - stop) * run.targetR, <<>>, Missing)
  ELSE NoSetup

ElderFrom(s, tag) ==
  IF PullbackOK(s, tag)
  THEN ElderSetup(s, PullbackExtreme(s, tag) - s * run.stopBuffer)
  ELSE NoSetup

ElderTripleScreen(s) ==
  IF /\ cols.atr # 0 /\ cols.ema # Missing /\ HTFAllows(s)
     /\ s * cols.slope > 0 /\ EMATags(s) # {}
     /\ run.useTrigger => Trigger(s, i) \/ EMAReclaim(s)
  THEN ElderFrom(s, Highest(EMATags(s)))
  ELSE NoSetup

------------------------------------------------------------------------------
(* fibContinuation: the impulse runs from the first worst extreme of the   *)
(* window to the first best extreme after it, and ends before this bar.    *)
FibWindow == AtLeast0(i - run.lookback)..(i - 1)

FibStart(s) ==
  Lowest({j \in FibWindow : \A k \in FibWindow : Beyond(s, Adverse(s, j), Adverse(s, k)) <= 0})

FibEnd(s, after) ==
  Lowest({j \in after : \A k \in after : Beyond(s, Favorable(s, j), Favorable(s, k)) >= 0})

FibSetup(s, stop, extension) ==
  IF StopOK(C(i), stop)
  THEN Setup(s, C(i), stop,
             Best(s, {extension, C(i) + s * Abs(C(i) - stop) * run.targetR}), <<>>, Missing)
  ELSE NoSetup

(* The move from price from to price to, and how much of it was given back.*)
FibMove(s, from, to, move, given) ==
  IF /\ move >= run.minBreak
     /\ given >= run.minDepth * move /\ given <= run.maxDepth * move
     /\ CandleQualityOK(s)
     /\ run.useTrigger => Trigger(s, i) \/ Beyond(s, C(i), O(i)) > 0
  THEN FibSetup(s, Widened(s, to - s * ((move * run.stopFib) \div 100) - s * run.stopBuffer),
                from + s * move * run.fibExtension)
  ELSE NoSetup

FibLeg(s, from, to, end) ==
  FibMove(s, from, to, Abs(to - from),
          100 * Beyond(s, to, Worst(s, {Adverse(s, j) : j \in end+1..i})))

FibBetween(s, start, end) == FibLeg(s, Adverse(s, start), Favorable(s, end), end)

FibFrom(s, start) ==
  IF start < i - 1 THEN FibBetween(s, start, FibEnd(s, start+1..i-1)) ELSE NoSetup

FibContinuation(s) ==
  IF HTFAllows(s) /\ cols.atr # 0 /\ FibWindow # {}
  THEN FibFrom(s, FibStart(s))
  ELSE NoSetup

------------------------------------------------------------------------------
(* priceMomentum: the rate of change over the lookback, in percent.        *)
MomentumSetup(s) ==
  CASE run.stopATR <= 0 ->
         FixedR(s, RecentExtreme(s, run.stopLookback) - s * run.stopBuffer, <<>>, Missing)
    [] run.stopATR \in run.minStop..run.maxStop ->
         FixedR(s, C(i) - s * run.stopATR, <<>>, Missing)
    [] OTHER -> NoSetup

MomentumSince(s, prior) ==
  IF /\ prior > 0 /\ 100 * Beyond(s, C(i), prior) >= run.threshold * prior
     /\ HTFAllows(s) /\ cols.atr > 0
  THEN MomentumSetup(s)
  ELSE NoSetup

PriceMomentum(s) ==
  IF run.lookback > 0 /\ i >= run.lookback
  THEN MomentumSince(s, C(i - run.lookback))
  ELSE NoSetup

------------------------------------------------------------------------------
(* The Keltner channel around M, the average of the closes that every bar  *)
(* carries; each bar is judged by its own band.                            *)
M(j) == Candle(j).M
Band(s, j) == M(j) + s * run.band

KeltnerWarm == Len(bars) > run.warmup

Stretches(s) ==
  {j \in LastBars(run.reclaim) : Beyond(s, Adverse(s, j), Band(-s, j)) <= -run.pierce}

ReversionTarget(s, risk) ==
  IF run.mode = "midlineElseFixedR" /\ s * (M(i) - C(i)) >= risk * run.minTargetR
  THEN M(i) ELSE C(i) + s * risk * run.targetR

ReversionSetup(s, stop) ==
  IF StopOK(C(i), stop)
  THEN Setup(s, C(i), stop, ReversionTarget(s, Abs(C(i) - stop)), <<>>, Missing)
  ELSE NoSetup

KeltnerReversion(s) ==
  IF /\ KeltnerWarm /\ cols.atr > 0
     /\ Beyond(s, C(i), Band(-s, i)) > 0 /\ Beyond(s, C(i), M(i)) < 0
     /\ Stretches(s) # {} /\ HTFAllows(s)
  THEN ReversionSetup(s, Worst(s, {Adverse(s, j) : j \in Stretches(s)}) - s * run.stopBuffer)
  ELSE NoSetup

KeltnerExpansion(s) ==
  IF /\ KeltnerWarm /\ cols.atr > 0 /\ i >= 1
     /\ Beyond(s, C(i-1), Band(s, i-1)) > 0
     /\ Beyond(s, Favorable(s, i-1), Band(s, i-1)) >= run.pierce
     /\ Beyond(s, C(i), Band(s, i)) > 0
     /\ HTFAllows(s)
  THEN FixedR(s, Band(s, i) - s * run.stopBuffer, <<>>, Missing)
  ELSE NoSetup

------------------------------------------------------------------------------
(* fairValueGap.  A gap of side s between the bars around a displacement   *)
(* candle, after a swept pivot when the run asks for one.                  *)
Pivot(s, j, w) ==
  \A n \in 1..w : /\ Beyond(s, Adverse(s, j), Adverse(s, j-n)) < 0
                  /\ Beyond(s, Adverse(s, j), Adverse(s, j+n)) <= 0

SweptPivot(s, j, d, w) ==
  /\ Pivot(s, j, w)
  /\ \E m \in j+w..d : Beyond(s, Adverse(s, m), Adverse(s, j)) < 0

FVGSwept(s, d) ==
  \E j \in Highest({d - run.lookback + 1, run.pivot})..(d - run.pivot) :
    SweptPivot(s, j, d, run.pivot)

DetectedGaps ==
  {z \in {[at |-> i, side |-> s,
           low  |-> IF s = 1 THEN H(i-2) ELSE H(i),
           high |-> IF s = 1 THEN L(i) ELSE L(i-2)] :
            s \in {t \in {1, -1} : i >= 2 /\ Beyond(t, Adverse(t, i), Favorable(t, i-2)) > 0}} :
     /\ cols.atr > 0 /\ z.high - z.low >= run.minGap
     /\ Body(i-1) >= run.displacement
     /\ run.sweepRequired => i - 1 >= run.pivot /\ FVGSwept(z.side, i-1)}

Proximal(z) == IF z.side = 1 THEN z.high ELSE z.low
Distal(z) == IF z.side = 1 THEN z.low ELSE z.high

(* pruneFairValueGaps: too old, or closed through.                         *)
Pruned(zones) ==
  {z \in zones : /\ i - z.at <= run.retest
                 /\ Beyond(z.side, C(i), Distal(z)) >= 0}

GapSetup(s, entry, stop) ==
  IF StopOK(entry, stop)
  THEN [Setup(s, entry, stop, entry + s * Abs(entry - stop) * run.targetR, <<>>, entry)
          EXCEPT !.limit = TRUE]
  ELSE NoSetup

GapEntry(z) == IF run.mode = "proximalEdge" THEN Proximal(z) ELSE (z.low + z.high) \div 2

FairValueGap(z) ==
  IF /\ cols.atr > 0 /\ i > z.at
     /\ z.side \in run.allow /\ HTFAllows(z.side)
     /\ L(i) <= z.high /\ H(i) >= z.low
  THEN GapSetup(z.side, GapEntry(z), Distal(z) - z.side * run.stopBuffer)
  ELSE NoSetup
==============================================================================
