----------------------------- MODULE LoopCandles -----------------------------
(***************************************************************************)
(* The loops that trade a shape of the latest candles: the failure of a    *)
(* daily flush, the exhaustion of a run inside a clock hour, the extreme   *)
(* of a weekend, the crossing of two moving averages, and the perfected    *)
(* ninth count of the archived setup.                                      *)
(***************************************************************************)
EXTENDS LoopTape

LOCAL INSTANCE FiniteSetsExt

Body(j) == Abs(C(j) - O(j))
RangeSize(j) == H(j) - L(j)

OpenPos(p) == pos' = p /\ UNCHANGED <<order, mark, trades, audits>>

------------------------------------------------------------------------------
(* dailyFlushFailure.  A bar is a day; days 5 and 6 of a week are not      *)
(* traded, and the bars between are as if they followed each other.        *)
Weekday(j) == T(j) % 7 < 5
BeforeRetained(j) == {k \in 0..j-1 : Weekday(k)}
FlushBar(j) == Highest(BeforeRetained(j))

FlushSkipped ==
  /\ Phase("open", "next") /\ ~Weekday(i)
  /\ Unchanged

(* A setup from before the window must not enter on its first bar.         *)
FlushBefore ==
  /\ Phase("open", "next") /\ Weekday(i) /\ T(i) < loop.from
  /\ order' = NoOrder /\ mark' = [mark EXCEPT !.exiting = FALSE]
  /\ UNCHANGED <<pos, trades, audits>>

FlushDue == Weekday(i) /\ T(i) >= loop.from

FlushTimeExit ==
  /\ Phase("open", "range") /\ FlushDue
  /\ mark.exiting /\ Held
  /\ CloseAt(O(i), "time")
  /\ mark' = [mark EXCEPT !.exiting = FALSE, !.exited = TRUE]
  /\ UNCHANGED <<order, audits>>

(* The risk is measured at the slipped open; a setup is tried once.        *)
FlushEntry ==
  /\ Phase("open", "range") /\ FlushDue
  /\ ~(mark.exiting /\ Held)
  /\ order' = NoOrder
  /\ mark' = [mark EXCEPT !.survived = IF Ordered THEN 0 ELSE @, !.exited = FALSE]
  /\ IF Ordered /\ O(i) + loop.slip - order.stop \in loop.minStop..loop.maxStop
     THEN pos' = Position(1, O(i) + loop.slip, order.stop, None, [at |-> order.at])
     ELSE UNCHANGED pos
  /\ UNCHANGED <<trades, audits>>

FlushStopped ==
  /\ Phase("range", "close")
  /\ Held /\ TouchesStop(1, pos.stop, i)
  /\ CloseAt(Lowest({O(i), pos.stop}), "sl")
  /\ mark' = [mark EXCEPT !.exiting = FALSE, !.exited = TRUE]
  /\ UNCHANGED <<order, audits>>

FlushSurvived ==
  /\ Phase("range", "close")
  /\ Held => ~TouchesStop(1, pos.stop, i)
  /\ mark' = IF Held THEN [mark EXCEPT !.survived = @ + 1, !.exiting = @ \/ mark.survived + 1 >= loop.maxHold]
             ELSE mark
  /\ UNCHANGED <<pos, order, trades, audits>>

(* A wide day that closes near its low, whose low the next day undercuts   *)
(* and then closes above.                                                  *)
IsFlush(j) ==
  /\ C(j) < O(j) /\ RangeSize(j) >= loop.minFlush
  /\ 100 * (C(j) - L(j)) <= loop.maxLocation * RangeSize(j)

FailedExtension(j) == L(i) < L(j) /\ C(i) > O(i) /\ C(i) > C(j)

FlushSignal ==
  /\ ~Held /\ ~Ordered /\ ~mark.exiting /\ ~mark.exited
  /\ Cardinality(BeforeRetained(i)) >= loop.atrLength + 2
  /\ IsFlush(FlushBar(i)) /\ FailedExtension(FlushBar(i))

FlushClose ==
  /\ Phase("close", "next")
  /\ order' = IF FlushSignal
              THEN [side |-> 1, at |-> i, stop |-> Lowest({L(i), L(FlushBar(i))}) - loop.buffer]
              ELSE order
  /\ UNCHANGED <<pos, mark, trades, audits>>

FlushLoop ==
  /\ loop.kind = "flush"
  /\ \/ FlushSkipped \/ FlushBefore \/ FlushTimeExit \/ FlushEntry
     \/ FlushStopped \/ FlushSurvived \/ FlushClose

------------------------------------------------------------------------------
(* The fades that enter at a close.  The stop and the target are tested    *)
(* from the bar after the entry, at their prices whatever the open was.    *)
FadeExit ==
  /\ Phase("range", "close")
  /\ Held
  /\ \/ TouchesStop(pos.side, pos.stop, i) /\ CloseAt(pos.stop, "sl")
     \/ /\ ~TouchesStop(pos.side, pos.stop, i) /\ TouchesTarget(pos.side, pos.target, i)
        /\ CloseAt(pos.target, "tp")
  /\ UNCHANGED <<order, mark, audits>>

FadeHeld ==
  /\ Phase("range", "close")
  /\ Held => ~TouchesStop(pos.side, pos.stop, i) /\ ~TouchesTarget(pos.side, pos.target, i)
  /\ Unchanged

FadeOverdue == Held /\ i - pos.at >= loop.maxHold

(* A position that is overdue leaves at the close, and the same close may  *)
(* be an entry.                                                            *)
FadeTime ==
  /\ Phase("close", "close") /\ FadeOverdue
  /\ CloseAt(C(i), "time")
  /\ UNCHANGED <<order, mark, audits>>

(* intraHourRunDirection, of the bars from first to i - 1.                 *)
SteadyRun(s, first) ==
  \A j \in first..i-1 :
    Beyond(s, C(j), O(j)) > 0 /\ (j = first \/ Beyond(s, C(j), C(j - 1)) > 0)

FinalSlot == T(i) % loop.hourCandles = loop.hourCandles - 1

RunBars == i-loop.runCandles..i-1

Poked(s) == Beyond(s, Favorable(s, i), Worst(-s, {Favorable(s, j) : j \in RunBars})) > 0

(* A share of a range in percent, rounded up; a range of nothing is halved.*)
Share(part, whole) == IF whole = 0 THEN 50 ELSE -((-100 * part) \div whole)

ClosesBack(s) == Share(s * (C(i) - Adverse(s, i)), RangeSize(i)) <= loop.maxLocation

(* A run of side s ends against itself on the hour's final candle.         *)
Exhausted(s) ==
  /\ FinalSlot /\ ATRReady(i)
  /\ i >= loop.runCandles /\ Contiguous(i - loop.runCandles, i)
  /\ SteadyRun(s, i - loop.runCandles)
  /\ s * (C(i - 1) - O(i - loop.runCandles)) >= loop.minRun
  /\ loop.requirePoke => Poked(s)
  /\ ClosesBack(s) /\ -s \in loop.allow

HourStop(s) ==
  Worst(-s, {Favorable(s, j) : j \in RunBars \cup {i}}) + s * loop.buffer

HourFade(s) ==
  Position(-s, C(i), HourStop(s), C(i) - s * loop.targetR * Abs(HourStop(s) - C(i)), [at |-> i])

(* weekendExtremeFade.                                                     *)
MondayOpen == T(i) % loop.weekLength = 0

WeekendBars == i-loop.weekendBars..i-1

WeekendRange == RangeHigh(WeekendBars) - RangeLow(WeekendBars)

AtExtreme(s) ==
  LET far == IF s = 1 THEN RangeLow(WeekendBars) ELSE RangeHigh(WeekendBars)
  IN  Share(Abs(C(i - 1) - far), WeekendRange) <= loop.maxLocation

WeekendTurn(s) ==
  /\ MondayOpen /\ ATRReady(i)
  /\ i >= loop.weekendBars /\ Contiguous(i - loop.weekendBars, i)
  /\ WeekendRange <= loop.maxRange
  /\ s \in loop.allow /\ AtExtreme(s) /\ Beyond(s, C(i), O(i)) > 0

WeekendFade(s) ==
  Position(s, C(i), C(i) - s * loop.stop, C(i) + s * loop.targetR, [at |-> i])

Fades ==
  IF loop.kind = "hour"
  THEN {HourFade(s) : s \in {r \in {1, -1} : Exhausted(r) /\ HourStop(r) # C(i)}}
  ELSE {WeekendFade(s) : s \in {r \in {1, -1} : WeekendTurn(r)}}

(* Mutant: the entry does not look at the position.                        *)
FadeAlways(fades) ==
  \/ fades = {} /\ Unchanged
  \/ fades # {} /\ OpenPos(CHOOSE p \in fades : TRUE)

(* A long fade of the weekend goes first; a run has one direction.         *)
FadeEntered(fades) ==
  \/ Held /\ Unchanged
  \/ ~Held /\ fades = {} /\ Unchanged
  \/ /\ ~Held /\ fades # {}
     /\ OpenPos(CHOOSE p \in fades : loop.kind = "weekend" /\ Cardinality(fades) = 2 => p.side = 1)

FadeClose ==
  /\ Phase("close", "next") /\ ~FadeOverdue
  /\ T(i) >= loop.from
  /\ FadeEntered(Fades)

FadeBefore ==
  /\ Phase("close", "next") /\ T(i) < loop.from
  /\ Unchanged

FadeLoop ==
  /\ loop.kind \in {"hour", "weekend"}
  /\ NothingDue \/ FadeExit \/ FadeHeld \/ FadeTime \/ FadeClose \/ FadeBefore

------------------------------------------------------------------------------
(* smaGoldenCross: an order for the next open when the fast average of the *)
(* closes crosses above the slow one, an exit at the next open when it     *)
(* crosses below.  The averages compare as their sums times the other      *)
(* length.  mark.exiting is the pending exit.                              *)
CloseSum(n) == MapThenSumSet(C, i-n+1..i)
CloseSumBefore(n) == MapThenSumSet(C, i-n..i-1)

Spread == CloseSum(loop.fast) * loop.slow - CloseSum(loop.slow) * loop.fast
SpreadBefore == CloseSumBefore(loop.fast) * loop.slow - CloseSumBefore(loop.slow) * loop.fast

Crosses(s) == i >= loop.slow /\ s * SpreadBefore <= 0 /\ s * Spread > 0

CrossOpen ==
  /\ Phase("open", "range")
  /\ mark' = [mark EXCEPT !.exiting = FALSE]
  /\ order' = NoOrder /\ UNCHANGED audits
  /\ \/ mark.exiting /\ CloseAt(O(i), "sma-bearish-cross")
     \/ /\ Ordered /\ UNCHANGED trades
        /\ pos' = Position(1, O(i) + loop.slip,
                           IF loop.stop > 0 THEN O(i) + loop.slip - loop.stop ELSE None,
                           IF loop.stop > 0 THEN O(i) + loop.slip + loop.targetR ELSE None,
                           [at |-> order.at])
     \/ ~mark.exiting /\ ~Ordered /\ UNCHANGED <<pos, trades>>

CrossRange == Phase("range", "close") /\ BracketRange

CrossClose ==
  /\ Phase("close", "next")
  /\ mark' = [mark EXCEPT !.exiting = Held /\ Crosses(-1)]
  /\ order' = IF ~Held /\ Crosses(1) THEN [side |-> 1, at |-> i] ELSE NoOrder
  /\ UNCHANGED <<pos, trades, audits>>

CrossLoop == loop.kind = "cross" /\ (CrossOpen \/ CrossRange \/ CrossClose)

------------------------------------------------------------------------------
(* legacySetup9: the count of closes beyond the close four bars before.    *)
(* The stored count wraps like an Int8Array, the running one does not.     *)
Direction(j) ==
  CASE j >= loop.compare /\ C(j) > C(j - loop.compare) -> 1
    [] j >= loop.compare /\ C(j) < C(j - loop.compare) -> -1
    [] OTHER -> 0

RunLength(s) ==
  Highest({n \in 0..i+1 : \A j \in i-n+1..i : Direction(j) = s})

Int8(n) == ((n + 128) % 256) - 128

StoredCount == IF Direction(i) = 0 THEN 0 ELSE Int8(Direction(i) * RunLength(Direction(i)))

LegacyPerfected(s) ==
  /\ i >= 3
  /\ s * Worst(-s, {Favorable(s, i), Favorable(s, i - 1)})
       >= s * Worst(-s, {Favorable(s, i - 2), Favorable(s, i - 3)})

(* Whether the season agrees is an input; the long rule is tried first.    *)
LegacySides(agrees) ==
  {s \in agrees : /\ StoredCount = -s * loop.setupCount
                  /\ loop.perfection => LegacyPerfected(-s)}

LegacyStop(s) == Adverse(s, i) - s * loop.buffer

LegacyEnter(s) ==
  OpenPos(Position(s, C(i), LegacyStop(s),
                   C(i) + s * Abs(C(i) - LegacyStop(s)) * loop.targetR, [at |-> i]))

LegacyRange == Phase("range", "close") /\ BracketRange

LegacyClose ==
  /\ Phase("close", "next")
  /\ \E agrees \in SUBSET {1, -1} :
       IF ~Held /\ T(i) >= loop.from /\ LegacySides(agrees) # {}
       THEN LegacyEnter(Highest(LegacySides(agrees)))
       ELSE Unchanged

LegacyLoop == loop.kind = "legacy" /\ (NothingDue \/ LegacyRange \/ LegacyClose)

CandleLoops == FlushLoop \/ FadeLoop \/ CrossLoop \/ LegacyLoop
==============================================================================
