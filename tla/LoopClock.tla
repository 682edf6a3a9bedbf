------------------------------ MODULE LoopClock ------------------------------
(***************************************************************************)
(* clockRangeBreakout: after a fixed-clock range of a day closes, stop     *)
(* orders above and below it, cancelled by the first touch and by their    *)
(* expiry; a stop, perhaps a target, and a clock close.  Wall times are    *)
(* bars after the midnight of the range date.                              *)
(***************************************************************************)
EXTENDS LoopTape

LOCAL INSTANCE FiniteSetsExt

ResolvedWall(p, wall) == IF wall < p.rangeEnd THEN wall + p.dayLength ELSE wall

(* validateClockRangeRun and ValidateClockRange, of the parameters p.      *)
ValidClockRange(p) ==
  /\ {p.rangeStart, p.rangeEnd, p.expire, p.close} \subseteq 0..p.dayLength-1
  /\ p.rangeStart < p.rangeEnd
  /\ p.expire # p.rangeEnd /\ p.close # p.rangeEnd
  /\ ResolvedWall(p, p.expire) <= ResolvedWall(p, p.close)
  /\ p.buffer >= 0 /\ p.allow # {}
  /\ IF p.edgeStop THEN p.stop = 0 ELSE p.stop > 0 /\ p.targetR = 0
  /\ p.targetR >= 0 /\ ((p.atrDays = 0) <=> (p.minATR = 0))
  /\ p.priorCandle => p.allow = {1, -1}
  /\ p.cancelOpposite => p.priorCandle

ClockDayOf(t) == (t + loop.offset) \div loop.dayLength
At(day, wall) == day * loop.dayLength - loop.offset + wall
RangeStart(day) == At(day, loop.rangeStart)
RangeEnd(day) == At(day, loop.rangeEnd)
Expiry(day) == At(day, ResolvedWall(loop, loop.expire))
ClockClose(day) == At(day, ResolvedWall(loop, loop.close))

FirstRangeDay(t) ==
  Lowest({d \in ClockDayOf(t)-1..ClockDayOf(t)+1 : RangeEnd(d) > t})

------------------------------------------------------------------------------
(* clockTradingDays, of the first n bars of a series: the dates that have  *)
(* bars, where a date that spans too little joins the next one, unless the *)
(* series ends with it.  A date is joined to the next one only: of several *)
(* short dates in a row each carries the ones before it.                   *)
DatesOf(n) == {ClockDayOf(T(j)) : j \in 0..n-1}
BarsOf(n, date) == {j \in 0..n-1 : ClockDayOf(T(j)) = date}

ShortDate(n, date) ==
  /\ T(Highest(BarsOf(n, date))) + 1 - T(Lowest(BarsOf(n, date))) < loop.minSpan
  /\ date # Highest(DatesOf(n))

TradingDates(n) == {d \in DatesOf(n) : ~ShortDate(n, d)}

Before(S, d) == {e \in S : e < d}

TradingDay(n, date) ==
  LET joined(d) == \A e \in Before(TradingDates(n), date) : e < d
  IN  {j \in 0..n-1 : ClockDayOf(T(j)) <= date /\ joined(ClockDayOf(T(j)))}

DayOpen(D) == O(Lowest(D))
DayClose(D) == C(Highest(D))

TrueRange(D, previous) ==
  Highest({RangeHigh(D) - RangeLow(D), Abs(RangeHigh(D) - DayClose(previous)),
           Abs(RangeLow(D) - DayClose(previous))})

(* The last trading days before a day; the sum of their true ranges is     *)
(* atrDays times the ATR of the code, and None when there are too few.     *)
Newest(S, k) == {d \in S : Cardinality({e \in S : e > d}) < k}

RangeOfDate(n, d) ==
  TrueRange(TradingDay(n, d), TradingDay(n, Highest(Before(TradingDates(n), d))))

SumOf(f) == MapThenSumSet(LAMBDA d : f[d], DOMAIN f)

DailyATR(n, prior) ==
  IF Cardinality(prior) <= loop.atrDays THEN None
  ELSE SumOf([d \in Newest(prior, loop.atrDays) |-> RangeOfDate(n, d)])

PriorColour(n, prior) ==
  IF prior = {} THEN None
  ELSE DayClose(TradingDay(n, Highest(prior))) - DayOpen(TradingDay(n, Highest(prior)))

(* Mutant: the day of the range counts as one of the days before it.       *)
DatesUpTo(n, day) == {e \in TradingDates(n) : e <= day}

PriorDates(n, day) == Before(TradingDates(n), day)

NotRead == [atr |-> None, colour |-> None]

(* What the gates read of the days before day, from the first n bars.      *)
DailyInputs(n, day) ==
  [atr |-> IF loop.atrDays > 0 THEN DailyATR(n, PriorDates(n, day)) ELSE None,
   colour |-> IF loop.priorCandle THEN PriorColour(n, PriorDates(n, day)) ELSE None]

------------------------------------------------------------------------------
(* placeClockRangeOrders, at the end of day's range, when n bars are known.*)
RangeBars(day, n) == {j \in 0..n-1 : T(j) >= RangeStart(day)}
ExpectedBars == loop.rangeEnd - loop.rangeStart
RangeWidth(R) == RangeHigh(R) - RangeLow(R)

RangeDefect(day, n, R) ==
  CASE R = {} -> "empty-range"
    [] R # {} /\ Cardinality(R) < (9 * ExpectedBars + 9) \div 10 -> "insufficient-bars"
    [] OTHER -> IF T(n - 1) # RangeEnd(day) - 1 THEN "missing-final-slot"
                ELSE IF RangeWidth(R) <= 0 THEN "nonpositive-width" ELSE "none"

GateDefect(R, daily) ==
  CASE loop.atrDays > 0 /\ daily.atr <= 0 -> "no-daily-atr"
    [] /\ loop.atrDays > 0 /\ daily.atr > 0
       /\ RangeWidth(R) * loop.atrDays < loop.minATR * daily.atr -> "range-too-narrow"
    [] OTHER -> IF ~loop.priorCandle THEN "none"
                ELSE IF daily.colour = None THEN "no-prior-day"
                ELSE IF daily.colour = 0 THEN "no-direction" ELSE "none"

FirstDefect(defects) ==
  IF \E n \in DOMAIN defects : defects[n] # "none"
  THEN defects[Lowest({n \in DOMAIN defects : defects[n] # "none"})] ELSE "none"

(* The prior day's candle gives the order to its side; the other trigger   *)
(* may stay, only to cancel.                                               *)
OrderSides(daily) ==
  IF loop.priorCandle THEN {s \in {1, -1} : s * daily.colour > 0} ELSE loop.allow

(* The sell trigger counts only where it is needed, to enter or to cancel; *)
(* the buy trigger lies above the range.                                   *)
BrokerDefect(R, daily) ==
  IF /\ -1 \in OrderSides(daily) \/ loop.cancelOpposite
     /\ RangeLow(R) - loop.buffer <= 0
  THEN "invalid-price"
  ELSE IF Held THEN "broker-blocked" ELSE "none"

PendingOrders(day, R, daily) ==
  [side |-> 2, day |-> day, low |-> RangeLow(R), high |-> RangeHigh(R),
   sides |-> OrderSides(daily),
   cancels |-> IF loop.cancelOpposite THEN {1, -1} \ OrderSides(daily) ELSE {}]

Trigger(s) == IF s = 1 THEN order.high + loop.buffer ELSE order.low - loop.buffer

(* The pending orders are always those of the last audit.                  *)
ExpiredAudits == IF Ordered THEN Audited(Len(audits), "expired") ELSE audits

RecordDay(day, daily, outcome) ==
  /\ mark' = [next |-> day + 1]
  /\ audits' = Append(ExpiredAudits, [day |-> day, daily |-> daily, outcome |-> outcome])
  /\ UNCHANGED <<pos, trades>>

PlaceDay(day, R, daily, defect) ==
  /\ RecordDay(day, daily, IF defect = "none" THEN "pending" ELSE defect)
  /\ order' = IF defect = "none" THEN PendingOrders(day, R, daily) ELSE NoOrder

PlaceRange(day, R, daily) ==
  PlaceDay(day, R, daily, FirstDefect(<<GateDefect(R, daily), BrokerDefect(R, daily)>>))

PlaceOrders(day, n) ==
  \E R \in {RangeBars(day, n)}, defect \in {RangeDefect(day, n, RangeBars(day, n))} :
    IF defect # "none" THEN RecordDay(day, NotRead, defect) /\ order' = NoOrder
    ELSE PlaceRange(day, R, DailyInputs(n, day))

------------------------------------------------------------------------------
(* The bar.  A range that ended in a gap is placed, and refused, before    *)
(* the bar that follows the gap is traded.                                 *)
ClockMissed ==
  /\ Phase("open", "open")
  /\ RangeEnd(mark.next) <= T(i)
  /\ PlaceOrders(mark.next, i)

AtOpen(price, reason) == CloseAt(price, reason) /\ UNCHANGED <<order, mark, audits>>

ClockOpen ==
  /\ Phase("open", "range")
  /\ RangeEnd(mark.next) > T(i)
  /\ \/ Held /\ T(i) >= pos.tag.closeT /\ AtOpen(O(i), "clock")
     \/ /\ Held /\ T(i) < pos.tag.closeT
        /\ OpensThroughStop(pos.side, pos.stop, i) /\ AtOpen(O(i), "stop")
     \/ /\ Ordered /\ T(i) >= Expiry(order.day)
        /\ audits' = ExpiredAudits /\ order' = NoOrder
        /\ UNCHANGED <<pos, mark, trades>>
     \/ /\ Held => T(i) < pos.tag.closeT /\ ~OpensThroughStop(pos.side, pos.stop, i)
        /\ Ordered => T(i) < Expiry(order.day)
        /\ UNCHANGED <<pos, order, mark, trades, audits>>

ClockHeld ==
  /\ Phase("range", "close") /\ Held
  /\ IF TouchesStop(pos.side, pos.stop, i) THEN CloseAt(pos.stop, "stop")
     ELSE IF TouchesTarget(pos.side, pos.target, i) THEN CloseAt(pos.target, "target")
     ELSE UNCHANGED <<pos, trades>>
  /\ UNCHANGED <<order, mark, audits>>

Touched ==
  {s \in order.sides \cup order.cancels : Beyond(s, Favorable(s, i), Trigger(s)) >= 0}

NearestSide ==
  IF Touched = {1, -1}
  THEN IF Abs(O(i) - Trigger(1)) <= Abs(O(i) - Trigger(-1)) THEN 1 ELSE -1
  ELSE CHOOSE s \in Touched : TRUE

ClockUntouched ==
  /\ Phase("range", "close") /\ ~Held
  /\ Ordered => Touched = {}
  /\ UNCHANGED <<pos, order, mark, trades, audits>>

(* openClockRangePosition: the fill slips once; the stop is a distance     *)
(* from the fill or the far edge of the range.  A refused fill uses the    *)
(* day up.                                                                 *)
FillPrice(s) == (IF s * O(i) > s * Trigger(s) THEN O(i) ELSE Trigger(s)) + s * loop.slip
StopPrice(s, fill) ==
  IF loop.edgeStop THEN IF s = 1 THEN order.low ELSE order.high ELSE fill - s * loop.stop
StopDistance(s, fill) == Beyond(s, fill, StopPrice(s, fill))
TargetPrice(s, fill) ==
  IF loop.targetR = 0 THEN None ELSE fill + s * loop.targetR * StopDistance(s, fill)

FillDefect(s, fill) ==
  CASE fill <= 0 -> "invalid-fill"
    [] fill > 0 /\ StopDistance(s, fill) <= 0 -> "invalid-stop"
    [] OTHER -> IF loop.targetR > 0 /\ TargetPrice(s, fill) <= 0 THEN "invalid-stop"
                ELSE IF T(i) < loop.from THEN "outside-execution-window" ELSE "none"

ClockPosition(s, fill) ==
  Position(s, fill, StopPrice(s, fill), TargetPrice(s, fill),
           [day |-> order.day, closeT |-> ClockClose(order.day)])

(* The entry bar is tested against the stop, whole, and not the target.    *)
Enter(p) ==
  IF TouchesStop(p.side, p.stop, i)
  THEN pos' = Flat /\ trades' = Append(trades, Trade(p, p.stop, "stop"))
  ELSE pos' = p /\ UNCHANGED trades

FillOrder(s, fill) ==
  IF FillDefect(s, fill) # "none"
  THEN audits' = Audited(Len(audits), FillDefect(s, fill)) /\ UNCHANGED <<pos, trades>>
  ELSE audits' = Audited(Len(audits), "entered") /\ Enter(ClockPosition(s, fill))

(* Mutant: the fill does not use the pending orders up.                    *)
ClockTouchedKept ==
  /\ Phase("range", "close") /\ ~Held /\ Ordered /\ Touched # {}
  /\ UNCHANGED <<order, mark>>
  /\ FillOrder(NearestSide, FillPrice(NearestSide))

ClockTouched ==
  /\ Phase("range", "close") /\ ~Held /\ Ordered /\ Touched # {}
  /\ order' = NoOrder /\ UNCHANGED mark
  /\ IF NearestSide \in order.cancels
     THEN /\ audits' = Audited(Len(audits), "opposite-triggered-first")
          /\ UNCHANGED <<pos, trades>>
     ELSE FillOrder(NearestSide, FillPrice(NearestSide))

ClockRangeEnds ==
  /\ Phase("close", "close")
  /\ RangeEnd(mark.next) <= T(i) + 1
  /\ PlaceOrders(mark.next, i + 1)

ClockClosed ==
  /\ Phase("close", "next")
  /\ RangeEnd(mark.next) > T(i) + 1
  /\ UNCHANGED <<pos, order, mark, trades, audits>>

ClockBar ==
  /\ loop.kind = "clock"
  /\ \/ ClockMissed \/ ClockOpen \/ ClockHeld \/ ClockUntouched \/ ClockTouched
     \/ ClockRangeEnds \/ ClockClosed

==============================================================================
