------------------------------ MODULE MCFamilies ------------------------------
(***************************************************************************)
(* A strategy from its source to its trades.  The three share no state, so *)
(* a behaviour is of one of them:                                          *)
(*  - source: up to four lines out of one of nine vocabularies;           *)
(*  - handlers: one run of every family, each with the few candles that    *)
(*    make its setups, and more than one where a parameter changes the     *)
(*    route;                                                               *)
(*  - paper: up to four bars of twelve hours in slots of four and of three *)
(*    of them, one restated, under two bindings, and a third with a gate   *)
(*    on one of two recordings of the higher timeframe.                    *)
(***************************************************************************)
EXTENDS Families, PaperPrefix, PaperSource

At(o, h, l, c) == [O |-> o, H |-> h, L |-> l, C |-> c, V |-> 2, M |-> 12]

Cols ==
  [atr |-> 1, vwap |-> 12, ema |-> 11, slope |-> 1, regime |-> "trending", trend |-> 1,
   er |-> 1, htf |-> "up", openLocation |-> "none", phase |-> "am", dayOpen |-> 11,
   levels |-> [PDH |-> 13, PDL |-> 9, AH |-> 13, AL |-> 9, LH |-> 14, LL |-> 8, VWAP |-> 12],
   range |-> [low |-> 9, high |-> 14, since |-> 0],
   channel |-> [low |-> 8, high |-> 12, slope |-> 0, since |-> 0, direction |-> "up", start |-> 0]]


(* Every candle at each of n bars.                                         *)
Free(n, candles) == [m \in 1..n |-> DOMAIN candles]

HandlerCandles ==
  <<At(10, 12, 9, 11), At(12, 15, 11, 14), At(12, 13, 7, 10), At(11, 12, 11, 12)>>

Base ==
  [family |-> "none", columns |-> <<Cols>>, candles |-> HandlerCandles, series |-> Free(4, HandlerCandles),
   dayBars |-> 3, windowBars |-> 3,
   allow |-> {1, -1}, cooldown |-> 2, useHTF |-> FALSE, strictHTF |-> FALSE,
   useTrigger |-> FALSE, closeMin |-> 0, tailMin |-> 0, themes |-> {},
   minStop |-> 1, maxStop |-> 20, stopLookback |-> 2, stopBuffer |-> 1, stopATR |-> 0,
   targetR |-> 1, minTargetR |-> 0, fixedStop |-> 0, fixedTarget |-> 0,
   rangeMultiple |-> 0, fibExtension |-> 0, mode |-> "none", limit |-> FALSE,
   hold |-> 1, retest |-> 0, tolerance |-> 0, breakBuffer |-> 0, firstMinutes |-> 0,
   firstCandles |-> 1, fresh |-> 3, minBreak |-> 0, displacement |-> 0, minER |-> 0,
   maxER |-> 9, levels |-> {}, priority |-> <<>>, activeWithin |-> 9, minWidth |-> 0,
   maxWidth |-> 0, directions |-> {}, lookback |-> 2, useEMA |-> FALSE, pole |-> 1,
   minFlag |-> 1, maxFlag |-> 2, minNet |-> 0, firstTouch |-> FALSE, maxDepth |-> 100,
   minDepth |-> 0, contract |-> FALSE, closeFrac |-> 0, avoidLunch |-> FALSE,
   reclaim |-> 1, pierce |-> 0, closeInside |-> FALSE, maxEntryDistance |-> 0,
   reach |-> 2, stretch |-> 0, requireLevel |-> FALSE, phases |-> {}, rangeDay |-> FALSE,
   minDistance |-> 0, maxSpread |-> 9, rejection |-> 0, volumeRatio |-> 0, within |-> 2,
   stopFib |-> 80, threshold |-> 0, warmup |-> 0, band |-> 2, pivot |-> 1, minGap |-> 1,
   maxGap |-> 9, sweepRequired |-> FALSE, choch |-> 0, rules |-> <<>>, dedup |-> TRUE,
   attempts |-> 1, bounds |-> "wick", source |-> 0, minSource |-> 0,
   patterns |-> {"DBR", "RBR", "RBD", "DBD"}, departure |-> 0, skipOverlap |-> FALSE,
   maxBody |-> 9, maxBodyShare |-> 100, flips |-> FALSE, maxRetests |-> 1,
   mustReject |-> FALSE, maxReaction |-> 0, wait |-> 0, minBase |-> 1, maxBase |-> 1]

Of(family) == [Base EXCEPT !.family = family]

Long(r, n) == [r EXCEPT !.series = Free(n, r.candles)]

With(r, candles) == [r EXCEPT !.candles = candles, !.series = Free(Len(r.series), candles)]

Rule(level, s) == [level |-> level, side |-> s, sweep |-> 0, reclaim |-> 0, candles |-> 1]

(* Rejections of the levels above and below, after an ordinary bar.        *)
Pins ==
  <<At(10, 12, 9, 11), At(12, 15, 11, 14), At(14, 15, 11, 14), At(8, 11, 7, 8)>>

(* A fall to the lower edge of the range and a rise to the upper one.      *)
Approach ==
  <<At(12, 15, 11, 13), At(11, 12, 11, 12), At(11, 12, 7, 11), At(12, 16, 11, 12),
    At(10, 11, 9, 10)>>

(* A valley and three rising peaks, in the order a fade needs them.        *)
PushBars ==
  <<At(10, 11, 9, 10), At(12, 13, 11, 12), At(13, 14, 12, 13), At(14, 15, 13, 14),
    At(9, 10, 8, 9)>>

PushSeries == <<{1}, {1, 2}, {2}, {1, 5}, {2, 3}, {1, 5}, {3, 4}, {1, 2}, {1, 2, 5}>>

GapBars ==
  <<At(10, 12, 9, 11), At(12, 15, 11, 14), At(15, 18, 14, 17), At(13, 14, 11, 12),
    At(8, 8, 6, 7)>>

FlagBars ==
  <<At(10, 12, 9, 11), At(11, 15, 11, 14), At(15, 15, 13, 14), At(15, 18, 14, 17),
    At(11, 11, 7, 8)>>

Swings == <<At(10, 12, 9, 11), At(13, 15, 12, 13), At(9, 10, 6, 7)>>

Ranging == [Cols EXCEPT !.regime = "ranging"]

Falling == [Cols EXCEPT !.htf = "down", !.trend = -1, !.slope = -1]

Blind == [Cols EXCEPT !.atr = 0]

OneRuleRuns ==
  <<[Long(Of("openingRangeBreakout"), 5) EXCEPT !.columns = <<Cols, Blind>>],
    [Long(Of("openingRangeBreakout"), 5) EXCEPT
       !.fixedStop = 2, !.fixedTarget = 3, !.retest = 2, !.tolerance = 1, !.dayBars = 4,
       !.windowBars = 4],
    [Long(Of("insideDayExpansion"), 5) EXCEPT
       !.dayBars = 1, !.windowBars = 1, !.cooldown = 1],
    [With(Of("breakRetest"), Pins) EXCEPT
       !.priority = <<"PDH", "PDL">>, !.retest = 2, !.tolerance = 1, !.minBreak = 1,
       !.useHTF = TRUE, !.columns = <<Cols, Falling>>],
    [With(Of("breakRetest"), Pins) EXCEPT !.mode = "fibRetrace", !.retest = 2, !.tolerance = 1],
    [With(Of("sessionBreakHold"), Pins) EXCEPT
       !.levels = {"AH", "AL"}, !.useHTF = TRUE, !.columns = <<Cols, Falling>>],
    [Long(Of("channelBreakHold"), 5) EXCEPT !.cooldown = 1],
    [Long(Of("donchianBreakout"), 6) EXCEPT !.stopATR = 2, !.cooldown = 3],
    [With(Of("flagContinuation"), Pins) EXCEPT
       !.tolerance = 3, !.columns = <<Cols, Falling>>],
    [Of("rangeBreakFake") EXCEPT !.closeInside = TRUE],
    [Of("dayOpenReclaim") EXCEPT !.priority = <<"PDL", "PDH">>],
    With(Long(Of("failedBreakout"), 5), Approach),
    [With(Long(Of("failedBreakout"), 5), Approach) EXCEPT !.limit = TRUE, !.stopLookback = 3],
    [Of("namedLevelSweep") EXCEPT
       !.rules = <<Rule("PDH", -1), Rule("PDL", 1)>>, !.cooldown = 1],
    [Of("vwapExtensionFade") EXCEPT !.minDistance = 2, !.mode = "vwap"],
    [Of("volumeAnomaly") EXCEPT !.volumeRatio = 2, !.priority = <<"PDL", "VWAP", "PDH">>],
    [Of("elderTripleScreen") EXCEPT !.tolerance = 1, !.columns = <<Cols, Falling>>],
    Long(Of("fibContinuation"), 5),
    [Of("priceMomentum") EXCEPT !.threshold = 20, !.lookback = 1],
    Of("keltnerReversion"),
    [Of("keltnerExpansion") EXCEPT !.band = 1],
    With(Long([Of("doubleTopBottom") EXCEPT !.within = 3], 6), Swings),
    [Of("triplePush") EXCEPT
       !.candles = PushBars, !.series = PushSeries, !.reach = 9, !.lookback = 9,
       !.minGap = 2, !.maxDepth = 200]>>

(* The families that keep a state of their own.                            *)
StatefulRuns ==
  <<[Long(Of("trendPullback"), 5) EXCEPT
       !.mode = "ema", !.attempts = 2, !.tolerance = 1, !.columns = <<Cols, Ranging>>],
    [Of("trendPullback") EXCEPT !.mode = "touch", !.tolerance = 1],
    With(Long([Of("fairValueGap") EXCEPT
       !.retest = 3, !.minGap = 1, !.displacement = 2, !.cooldown = 1], 6), GapBars),
    Long([Of("supplyDemand") EXCEPT
       !.maxWidth = 4, !.minBreak = 1, !.retest = 4, !.mustReject = TRUE, !.maxReaction = 1], 5),
    Long([Of("supplyDemand") EXCEPT
       !.maxWidth = 4, !.minBreak = 1, !.retest = 5, !.choch = 2, !.patterns = {"DBR", "RBR"}], 6),
    [With(Long([Of("namedLevelFlag") EXCEPT
       !.priority = <<"PDH", "PDL">>, !.minBreak = 2, !.dayBars = 4, !.windowBars = 4,
       !.maxFlag = 3], 5), FlagBars) EXCEPT
       !.columns = <<Cols, [Cols EXCEPT !.levels["PDH"] = 12]>>]>>

AllRuns == OneRuleRuns \o StatefulRuns

MCRuns == {AllRuns[n] : n \in DOMAIN AllRuns}
-------------------------------------------------------------------------------
Printed(o, h, l, c, gate, step) == [O |-> o, H |-> h, L |-> l, C |-> c, gate |-> gate, step |-> step]
MCBars ==
  {Printed(5, 6, 4, 5, TRUE, 12), Printed(6, 8, 5, 8, TRUE, 12), Printed(8, 13, 7, 12, FALSE, 48),
   Printed(7, 8, 2, 3, TRUE, 12)}
Binding(slot, cooldown, hold, nextOpen, activation, htf) ==
  [slot |-> slot, cooldown |-> cooldown, hold |-> hold, nextOpen |-> nextOpen, activation |-> activation, htf |-> htf]
MCBindings == {Binding(48, 1, 3, FALSE, 0, FALSE), Binding(36, 3, 1, TRUE, 12, FALSE), Binding(48, 1, 3, FALSE, 0, TRUE)}
Row(t, change) == [t |-> t, o |-> 5, c |-> 5 + change]
(* Without a hole, the trend up from the second row on, and with one.      *)
Rows == {<< Row(-12, -1), Row(0, 1), Row(12, 0), Row(24, 1) >>, << Row(-12, 1), Row(0, 1), Row(72, -1) >>}
-------------------------------------------------------------------------------
Say(head, words, nums) == Line("", head, words, nums, {})
List(head, words, listed) == Line("", head, words, << >>, listed)
In(section, head, words, nums) == Line(section, head, words, nums, {})
ORB == Line("setup", "type", {"opening", "breakout"}, << >>, {})
VEF == Line("setup", "type", {"vwap", "fade"}, << >>, {})
Version(v) == List("dsl", {}, {v})
StopEdge(nums) == Say("stop", {"opposite", "range", "edge"}, nums)
Opening(unit, n, listed) == Line("", "opening", {"first", unit}, << << "", n >> >>, listed)
Move == {"stop", "to", "breakeven"}

Stops ==
  {ORB, Say("stop", {"atr"}, << << "", 200 >> >>), Say("stop", {"pips"}, << << "", 3000 >> >>),
   StopEdge(<< << "by", 10 >> >>), StopEdge(<< << "by", 15 >>, << "min", 50 >>, << "max", 400 >> >>),
   StopEdge(<< << "min", 50 >>, << "max", 400 >> >>), StopEdge(<< << "edge", 30 >> >>),
   Say("stop", {"size"}, << << "<=", 300 >> >>), Say("stop", {"size"}, << << "between", 100 >>, << "and", 20 >> >>),
   Say("stop", {"size"}, << << "max", Bad >> >>), Say("residue", {}, << >>)}
Targets ==
  {ORB, Say("target", {"r"}, << << "", 150 >> >>), Say("target", {"range"}, << << "", 200 >> >>),
   Say("target", {"range"}, << << "", 0 >> >>), Say("target", {"pips"}, << << "", 4000 >> >>),
   Say("take", {"channel"}, << >>), Say("minimum", {"r"}, << << "", 80 >> >>),
   Say("type", {"day", "open", "reclaim"}, << >>), Say("type", {"orb"}, << >>)}
Opens ==
  {ORB, Opening("minutes", 15, {}), Opening("minutes", 30, {"ny"}), Opening("candles", 3, {}),
   Opening("minutes", 0, {}), Say("opening", {"every", "hours", "utc"}, << << "", 4 >> >>),
   List("sessions", {}, {"asia", "london"}), Say("break", {"beyond", "edge"}, << << "by", 10 >> >>),
   Say("hold", {}, << << "", 2 >> >>), Say("retest", {}, << >>)}
HoldLimits ==
  {ORB, Version(6), Version(7), Version(8), Say("maxholdbars", {}, << << "", 5 >> >>),
   Say("maxholdcandles", {}, << << "", 8 >> >>), Say("wait", {"candles", "after", "trade"}, << << "", 6 >> >>)}
Managing ==
  {ORB, Version(6), Version(8), Say("partial", {"breakeven"}, << << "", 50 >>, << "at", 100 >> >>),
   Say("trail", {}, << << "", 100 >> >>), Say("trail", {"off"}, << >>),
   Say("move", Move, << << "after", 60 >>, << "plus", 5 >> >>), Say("breakeven", {"off"}, << >>)}
Filters ==
  {ORB, Version(7), In("filters", "rmv", {"above"}, << << "", 70 >> >>), In("filters", "rmv", {"period"}, << << "", 20 >> >>),
   Line("filters", "seasonality", {"in"}, << << "min", 3 >> >>, {"sep"}),
   Line("", "day", {"type", "or"}, << << "below", 60 >> >>, {"ranging"}),
   Line("", "day", {"type", "or"}, << << "below", Bad >> >>, {"ranging"}),
   List("day", {"type", "strictly"}, {"trending"}), List("day", {"theme"}, {"trend"}),
   Say("trade", {"unrestricted"}, << >>), List("trade", {"in"}, {<< "london", "open" >>, << "tokyo", "open" >>})}
Calendars ==
  {ORB, List("weekday", {"in"}, {"Mon", "Tue"}), List("weekday", {"not", "in"}, {"Fri"}), List("hour", {"in"}, {9, 24}),
   List("session", {}, {"open"}), List("session", {}, {"london"}), List("prior", {"type", "not"}, {"trending"})}
SeriesLines ==
  {ORB, Say("tail", {}, << << "", 120 >> >>), List("source", {}, {"4h"}), List("entrytf", {}, {"15m"}),
   List("slices", {}, {<< "XAUUSD", "15m" >>}), List("timeframes", {}, {"5m"}),
   Say("higher", {"directional", "agree"}, << >>), Say("side", {"long"}, << >>)}
Fades ==
  {VEF, ORB, Version(7), In("setup", "distance", {"vwap"}, << << "", 150 >> >>), In("setup", "require", {"range", "day"}, << >>),
   In("setup", "target", {"vwap"}, << >>), In("target", "target", {"r"}, << << "", 200 >> >>),
   In("risk", "stop", {"extreme"}, << << "last", 5 >>, << "by", 30 >> >>), In("management", "trail", {"off"}, << >>),
   In("filters", "tail", {}, << << "", 60 >> >>), In("market", "movement", {}, << << "", 70 >> >>)}
Books == {Stops, Targets, Opens, HoldLimits, Managing, Filters, Calendars, SeriesLines, Fades}
Routes == {[symbol |-> "XAUUSD", tf |-> "15m", reviewed |-> TRUE, fill |-> "close"],
           [symbol |-> "EURUSD", tf |-> "5m", reviewed |-> FALSE, fill |-> "open"]}
-------------------------------------------------------------------------------
VARIABLE layer  \* of this behaviour: "source", "handlers" or "paper"
MCInit ==
  /\ layer \in {"source", "handlers", "paper"}
  /\ IF layer = "source" THEN book \in Books ELSE book = {}
  /\ SourceInit
  /\ IF layer = "handlers" THEN Init ELSE Init /\ run = [Base EXCEPT !.family = "keltnerReversion"]
  /\ IF layer = "paper" THEN PaperInit ELSE PaperInit /\ client = CHOOSE c \in Clients : TRUE
(* Where the higher timeframe decides, no bar is restated.                 *)
PaperStep == PaperNext /\ (client.binding.htf => UNCHANGED corrections)
MCNext ==
  \/ layer = "source" /\ SourceNext(Routes) /\ UNCHANGED << layer, vars, paperVars >>
  \/ layer = "handlers" /\ Next /\ UNCHANGED << layer, paperVars, sourceVars >>
  \/ layer = "paper" /\ PaperStep /\ UNCHANGED << layer, vars, sourceVars >>
MCSpec == MCInit /\ [][MCNext]_<< layer, vars, paperVars, sourceVars >>
(* The first and the last of the three alone.                              *)
SourceAlone == MCInit /\ layer = "source" /\ [][MCNext]_<< layer, vars, paperVars, sourceVars >>
PaperAlone == MCInit /\ layer = "paper" /\ [][MCNext]_<< layer, vars, paperVars, sourceVars >>
===============================================================================
