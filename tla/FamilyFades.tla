------------------------------ MODULE FamilyFades ------------------------------
(***************************************************************************)
(* The setups of the families that trade against a move: a fake range      *)
(* break, a reclaimed day open, a swept range edge or named level, an      *)
(* extension from VWAP, and a volume anomaly at a level.                   *)
(***************************************************************************)
EXTENDS FamilyTape

(* The stop with the extreme of the other side.                            *)
StopAtOtherExtreme(s) == RecentExtreme(-s, run.stopLookback) - s * run.stopBuffer

(* The stop behind the last extreme that most fades share.                 *)
ExtremeStop(s) == RecentExtreme(s, run.stopLookback) - s * run.stopBuffer

(* A target on the profit side and at least minTargetR risks away.         *)
WorthIt(s, target, stop) ==
  /\ Beyond(s, target, C(i)) > 0
  /\ Abs(target - C(i)) >= run.minTargetR * Abs(C(i) - stop)

FixedTarget(s, stop) == C(i) + s * Abs(C(i) - stop) * run.targetR

RangeActive == cols.range.since \in 0..run.activeWithin

(* The edge a fade of side s trades at, and the opposite one.              *)
Edge(s) == IF s = 1 THEN cols.range.low ELSE cols.range.high
FarEdge(s) == Edge(-s)

InsideRange(p) == cols.range.low < p /\ p < cols.range.high

------------------------------------------------------------------------------
RangePiercedAndReclaimed(s) ==
  /\ \E j \in LastBars(run.reclaim) : Beyond(s, Adverse(s, j), Edge(s)) < -run.pierce
  /\ run.closeInside => InsideRange(C(i))

RbfRetestOK(s) ==
  run.retest > 0 =>
    \E j \in LastBars(run.retest) :
      Beyond(s, Adverse(s, j), Edge(s)) <= 0 /\ Beyond(s, C(j), Edge(s)) > 0

RbfTarget(s, stop) ==
  CASE run.mode = "oppositeEdge"                       -> FarEdge(s)
    [] run.mode = "vwap" /\ cols.vwap # Missing        -> cols.vwap
    [] run.mode = "fixedR"                             -> FixedTarget(s, stop)
    [] OTHER -> (cols.range.high + cols.range.low) \div 2

(* A setup whose stop has the right size and whose target is worth it.     *)
WorthySetup(s, stop, target, key, level) ==
  IF StopOK(C(i), stop) /\ WorthIt(s, target, stop)
  THEN Setup(s, C(i), stop, target, key, level)
  ELSE NoSetup

RangeBreakFake(s) ==
  IF /\ cols.atr # 0 /\ RangeActive
     /\ RangePiercedAndReclaimed(s) /\ RbfRetestOK(s) /\ CandleQualityOK(s)
     /\ run.maxEntryDistance # 0 => Abs(C(i) - Edge(s)) <= run.maxEntryDistance
     /\ run.stopLookback > 0
  THEN WorthySetup(s, ExtremeStop(s), RbfTarget(s, ExtremeStop(s)), <<s, Edge(s), i>>, Edge(s))
  ELSE NoSetup

------------------------------------------------------------------------------
(* dayOpenReclaim: a stretch away from the day's open, at a level of the   *)
(* prior day or week, and a close back through the open.                   *)
ReclaimAtLevel(s, key) ==
  IF key # "none" /\ TriggerOK(s)
  THEN FixedR(s, ExtremeStop(s), <<s, key, cols.dayOpen>>, cols.levels[key])
  ELSE NoSetup

ReclaimFrom(s, extreme) ==
  IF i >= run.reclaim /\ Beyond(s, cols.dayOpen, extreme) >= run.stretch
  THEN ReclaimAtLevel(s, NearestLevel(extreme, run.reach))
  ELSE NoSetup

DayOpenReclaim(s) ==
  IF /\ HTFAllows(s) /\ i >= 1 /\ cols.dayOpen # Missing /\ cols.atr # 0
     /\ Beyond(s, C(i-1), cols.dayOpen) <= 0 /\ Beyond(s, C(i), cols.dayOpen) > 0
  THEN ReclaimFrom(s, Worst(s, {Adverse(s, j) : j \in LastBars(run.reclaim + 1)}))
  ELSE NoSetup

------------------------------------------------------------------------------
(* failedBreakout, the level sweep: an active range whose edge was swept   *)
(* within three bars and closed back inside, approached over three bars.   *)
LevelSweptAndReclaimed(s) ==
  /\ \E j \in LastBars(3) : Beyond(s, Adverse(s, j), Edge(s)) < 0
  /\ InsideRange(C(i))

SustainedApproach(s, level, n) ==
  /\ i >= n
  /\ Cardinality({j \in i-n+1..i : Beyond(s, C(j), C(j-1)) <= 0}) >= n - 1
  /\ Abs(C(i) - level) < Abs(C(i-n) - level)

EdgeTarget(s) ==
  IF run.mode = "channel" /\ cols.channel.since \in 0..run.activeWithin
  THEN IF s = 1 THEN cols.channel.high ELSE cols.channel.low
  ELSE FarEdge(s)

LevelSweepTarget(s, stop) ==
  IF WorthIt(s, EdgeTarget(s), stop) THEN EdgeTarget(s) ELSE FixedTarget(s, stop)

SweepSetup(s, stop, target, level) ==
  [Setup(s, IF run.limit THEN Edge(s) ELSE C(i), stop, target, <<s, Edge(s)>>, level)
     EXCEPT !.limit = run.limit]

SweepAt(s, key, stop, target) ==
  IF /\ run.requireLevel => key # "none"
     /\ StopOK(C(i), stop)
     /\ Abs(target - C(i)) >= run.minTargetR * Abs(C(i) - stop)
  THEN SweepSetup(s, stop, target, IF key = "none" THEN Edge(s) ELSE cols.levels[key])
  ELSE NoSetup

LevelSweep(s) ==
  IF /\ cols.atr # 0 /\ RangeActive
     /\ LevelSweptAndReclaimed(s) /\ HTFAllows(s)
     /\ SustainedApproach(s, Edge(s), 3)
     /\ Trigger(s, i) /\ CandleQualityOK(s) /\ ThemeAdmits(s)
  THEN SweepAt(s, NearestLevel(Edge(s), run.reach), ExtremeStop(s),
               LevelSweepTarget(s, ExtremeStop(s)))
  ELSE NoSetup

------------------------------------------------------------------------------
(* namedLevelSweep.  A rule names a level, a side, and how far the wick    *)
(* must pass the level (sweep, negative when a touch within a tolerance is *)
(* enough) and the close come back (reclaim).                              *)
HTFDirectionAgrees(s) == cols.htf = (IF s = 1 THEN "up" ELSE "down")

AtLeast(distance, least) == IF least = 0 THEN distance > 0 ELSE distance >= least

SweptOrTested(rule, level) ==
  /\ \E j \in LastBars(IF rule.candles < 1 THEN 1 ELSE rule.candles) :
       AtLeast(-Beyond(rule.side, Adverse(rule.side, j), level), rule.sweep)
  /\ AtLeast(Beyond(rule.side, C(i), level), rule.reclaim)

NamedLevelStop(s, level) == Worst(s, {Adverse(s, i), level}) - s * run.stopBuffer

SweepOf(rule, s, level) ==
  IF /\ s \in run.allow
     /\ run.strictHTF => HTFDirectionAgrees(s)
     /\ cols.atr # 0 /\ level # Missing
     /\ SweptOrTested(rule, level) /\ TriggerOK(s)
     /\ C(i) # NamedLevelStop(s, level)
  THEN FixedR(s, NamedLevelStop(s, level), <<s, rule.level, level>>, level)
  ELSE NoSetup

NamedLevelSweep(rule) == SweepOf(rule, rule.side, cols.levels[rule.level])

------------------------------------------------------------------------------
(* vwapExtensionFade: far from VWAP, back to it or a multiple of the risk. *)
ExtensionTarget(s, stop) ==
  IF run.mode = "vwap" /\ WorthIt(s, cols.vwap, stop) THEN cols.vwap ELSE FixedTarget(s, stop)

VWAPExtensionFade(s) ==
  IF /\ cols.atr # 0 /\ cols.vwap # Missing
     /\ run.phases # {} => cols.phase \in run.phases
     /\ run.rangeDay => cols.regime \in {"ranging", "choppy"}
     /\ Beyond(s, cols.vwap, C(i)) >= run.minDistance
     /\ CandleQualityOK(s)
  THEN WorthySetup(s, ExtremeStop(s), ExtensionTarget(s, ExtremeStop(s)),
                   <<s, cols.phase, cols.vwap>>, cols.vwap)
  ELSE NoSetup

------------------------------------------------------------------------------
(* volumeAnomalyExhaustion.  V is the bar's volume over its average: the   *)
(* latest bar with much volume and little range, or a rejecting tail.      *)
Narrow(j) == RangeSize(j) <= run.maxSpread

Rejection(s, j) ==
  RangeSize(j) > 0 /\ 100 * TailSize(s, j) >= run.rejection * RangeSize(j)

VolumeAnomalies(s) ==
  {j \in LastBars(run.lookback) :
     Candle(j).V >= run.volumeRatio /\ (Narrow(j) \/ Rejection(s, j))}

SideAllowsLevel(s, key, ref) ==
  IF key = "VWAP" THEN Beyond(s, cols.vwap, ref) >= 0
  ELSE key \in (IF s = 1 THEN {"PDL", "AL", "LL"} ELSE {"PDH", "AH", "LH"})

AnomalyLevel(s, ref) ==
  LET fits(k) == SideAllowsLevel(s, k, ref) /\ Abs(ref - cols.levels[k]) <= run.reach
  IN  FirstLevel(fits)

AnomalyTarget(s, stop) ==
  IF run.mode = "vwapElseFixedR" /\ cols.vwap # Missing /\ WorthIt(s, cols.vwap, stop)
  THEN cols.vwap ELSE FixedTarget(s, stop)

AnomalySetup(s, stop, target, key, level) ==
  IF /\ Beyond(s, C(i), level) > 0
     /\ CandleQualityOK(s) /\ StopOK(C(i), stop)
     /\ Beyond(s, target, C(i)) > 0
  THEN Setup(s, C(i), stop, target, <<s, key, level, cols.phase>>, level)
  ELSE NoSetup

AnomalyAt(s, key) ==
  IF key = "none" THEN NoSetup
  ELSE AnomalySetup(s, ExtremeStop(s), AnomalyTarget(s, ExtremeStop(s)), key, cols.levels[key])

AnomalyOf(s, at) ==
  IF Rejection(s, i) \/ run.rejection = 0 \/ Narrow(at)
  THEN AnomalyAt(s, AnomalyLevel(s, Adverse(s, at)))
  ELSE NoSetup

VolumeAnomaly(s) ==
  IF cols.atr # 0 /\ VolumeAnomalies(s) # {}
  THEN AnomalyOf(s, Highest(VolumeAnomalies(s)))
  ELSE NoSetup
==============================================================================
