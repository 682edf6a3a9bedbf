----------------------------- MODULE LoopSchedule -----------------------------
(***************************************************************************)
(* The loops that trade by the clock or by another series: the rebound     *)
(* after a down shock of the source series, the trade scheduled on         *)
(* settlement dates, the return between two clock anchors, and the sweep   *)
(* of the Asian range in London.                                           *)
(***************************************************************************)
EXTENDS LoopTape

(* downShockRebound.  loop.signals are the times at which the shocks of    *)
(* the source series are known, in order; mark.next is the first one not   *)
(* yet consumed, mark.waiting the one that waits for its confirmation, and *)
(* order the one that is queued.  Shocks that come while the position is   *)
(* open, before it was closed, too early or too late are consumed and      *)
(* dropped.                                                                *)
NowKnown == {n \in DOMAIN loop.signals : n >= mark.next /\ loop.signals[n] <= T(i)}

Usable ==
  {n \in NowKnown : /\ loop.signals[n] >= loop.from
                    /\ loop.signals[n] >= mark.busyUntil
                    /\ T(i) - loop.signals[n] <= loop.gap
                    /\ ~Held /\ ~Ordered}

Waiting == IF Usable = {} THEN mark.waiting ELSE loop.signals[Highest(Usable)]

ShockBefore ==
  /\ Phase("open", "next") /\ T(i) < loop.from
  /\ mark' = [mark EXCEPT !.waiting = None] /\ order' = NoOrder
  /\ UNCHANGED <<pos, trades, audits>>

ShockKnown ==
  /\ Phase("open", "fill") /\ T(i) >= loop.from
  /\ mark' = [mark EXCEPT !.next = Len(SelectSeq(loop.signals, LAMBDA t : t <= T(i))) + 1,
                          !.waiting = IF loop.reversal THEN Waiting ELSE None]
  /\ order' = IF ~loop.reversal /\ Waiting # None THEN [side |-> 1, known |-> Waiting] ELSE order
  /\ UNCHANGED <<pos, trades, audits>>

GapBefore == IF i = 0 THEN 0 ELSE T(i) - T(i - 1)

ShockPosition ==
  Position(1, O(i), O(i) - loop.stop, IF loop.targetR = 0 THEN None ELSE O(i) + loop.targetR,
           [known |-> order.known])

ShockFill ==
  /\ Phase("fill", "due")
  /\ order' = NoOrder
  /\ pos' = IF /\ Ordered /\ T(i) - order.known <= loop.gap
               /\ loop.reversal => GapBefore = 1
            THEN ShockPosition ELSE pos
  /\ UNCHANGED <<mark, trades, audits>>

Overheld(t) == t - T(pos.at) >= loop.maxHold

ShockClosed == mark' = [mark EXCEPT !.busyUntil = T(i) + 1] /\ UNCHANGED <<order, audits>>

ShockDue ==
  /\ Phase("due", "range")
  /\ \/ /\ Held /\ (Overheld(T(i)) \/ GapBefore > loop.gap)
        /\ CloseAt(O(i), IF GapBefore > loop.gap THEN "gap" ELSE "time")
        /\ ShockClosed
     \/ /\ Held => ~Overheld(T(i)) /\ GapBefore <= loop.gap
        /\ Unchanged

ShockRange ==
  /\ Phase("range", "close")
  /\ Bracket
  /\ mark' = IF StopTouched \/ TargetTouched THEN [mark EXCEPT !.busyUntil = T(i) + 1] ELSE mark
  /\ UNCHANGED <<order, audits>>

ShockTime ==
  /\ Phase("close", "close")
  /\ Held /\ Overheld(T(i) + 1)
  /\ CloseAt(C(i), "time")
  /\ ShockClosed

(* A reversal is a close above the high of the minute right before.        *)
Confirms == T(i) >= mark.waiting /\ GapBefore = 1 /\ C(i) > O(i) /\ C(i) > H(i - 1)

ShockClose ==
  /\ Phase("close", "next")
  /\ Held => ~Overheld(T(i) + 1)
  /\ UNCHANGED <<pos, trades, audits>>
  /\ \/ mark.waiting = None /\ UNCHANGED <<order, mark>>
     \/ /\ mark.waiting # None /\ T(i) + 1 > mark.waiting + loop.confirm
        /\ mark' = [mark EXCEPT !.waiting = None] /\ UNCHANGED order
     \/ /\ mark.waiting # None /\ T(i) + 1 <= mark.waiting + loop.confirm
        /\ IF Confirms
           THEN /\ order' = [side |-> 1, known |-> mark.waiting]
                /\ mark' = [mark EXCEPT !.waiting = None]
           ELSE UNCHANGED <<order, mark>>

ShockLoop ==
  /\ loop.kind = "shock"
  /\ \/ ShockBefore \/ ShockKnown \/ ShockFill \/ ShockDue
     \/ ShockRange \/ ShockTime \/ ShockClose

------------------------------------------------------------------------------
(* scheduledTrade.  loop.dates are the settlement days of the series, in   *)
(* order; mark.next is the first day without a row.  The rows are made in  *)
(* the order of the days, a row's status when its position closes.         *)
DayEntry(day) == day * loop.dayLength + loop.entry
DayExit(day) == day * loop.dayLength + loop.exit

NextDate == IF mark.next <= Len(loop.dates) THEN loop.dates[mark.next] ELSE None

Row(status) ==
  /\ audits' = Append(audits, [day |-> NextDate, outcome |-> status])
  /\ mark' = [mark EXCEPT !.next = @ + 1]

ScheduledMissed ==
  /\ Phase("open", "open")
  /\ NextDate # None /\ DayEntry(NextDate) < T(i)
  /\ Row("missing-entry-bar")
  /\ UNCHANGED <<pos, order, trades>>

(* A bar on which a position is still open, or leaves, is busy.            *)
Admission ==
  CASE Held -> "busy-at-entry"
    [] ~Held /\ GapBefore # 1 -> "missing-contiguous-prior"
    [] OTHER -> "open-terminal"

ScheduledPosition(fill) ==
  Position(loop.side, fill, fill - loop.side * loop.stop, None,
           [day |-> NextDate, row |-> Len(audits) + 1])

ScheduledEntry ==
  /\ Phase("open", "exit")
  /\ UNCHANGED <<order, trades>>
  /\ \/ /\ NextDate # None /\ DayEntry(NextDate) = T(i)
        /\ Row(Admission)
        /\ pos' = IF Admission = "open-terminal"
                  THEN ScheduledPosition(O(i) + loop.side * loop.slip) ELSE pos
     \/ /\ NextDate # None => DayEntry(NextDate) > T(i)
        /\ UNCHANGED <<pos, mark, audits>>

Settled(status) == audits' = Audited(pos.tag.row, status) /\ UNCHANGED <<order, mark>>

(* A gap through the stop leaves at the open, and so does the clock.       *)
ScheduledExit ==
  /\ Phase("exit", "range")
  /\ \/ /\ Held /\ OpensThroughStop(pos.side, pos.stop, i)
        /\ CloseAt(O(i), "gap-stop") /\ Settled("stopped")
     \/ /\ Held /\ ~OpensThroughStop(pos.side, pos.stop, i) /\ T(i) >= DayExit(pos.tag.day)
        /\ CloseAt(O(i), "time") /\ Settled("time-exit")
     \/ /\ Held => ~OpensThroughStop(pos.side, pos.stop, i) /\ T(i) < DayExit(pos.tag.day)
        /\ Unchanged

ScheduledRange ==
  /\ Phase("range", "next")
  /\ \/ /\ Held /\ TouchesStop(pos.side, pos.stop, i)
        /\ CloseAt(pos.stop, "stop") /\ Settled("stopped")
     \/ /\ Held => ~TouchesStop(pos.side, pos.stop, i)
        /\ Unchanged

(* The end leaves an open position as it is; the day of the last bar has   *)
(* its row too.                                                            *)
ScheduledEnds == bars # <<>> /\ Phase("next", "unseen") /\ Unchanged

ScheduledUnseen ==
  /\ Phase("unseen", "unseen")
  /\ NextDate # None /\ NextDate * loop.dayLength <= T(i)
  /\ Row("missing-entry-bar")
  /\ UNCHANGED <<pos, order, trades>>

ScheduledDone ==
  /\ Phase("unseen", "done")
  /\ NextDate # None => NextDate * loop.dayLength > T(i)
  /\ Unchanged

ScheduledLoop ==
  /\ loop.kind = "scheduled"
  /\ \/ ScheduledMissed \/ ScheduledEntry \/ ScheduledExit \/ ScheduledRange
     \/ ScheduledEnds \/ ScheduledUnseen \/ ScheduledDone

------------------------------------------------------------------------------
(* timedReturn.  The plan of all sessions is compiled first, and one row   *)
(* that the data does not admit refuses the whole run; then the rows are   *)
(* traded one after the other.  Clock times are bars after the midnight of *)
(* the session's date.                                                     *)
Session(n) == loop.sessions[n]

PreviousOpen(n) == {m \in 1..n-1 : Session(m).kind # "closed"}
Previous(n) == Highest(PreviousOpen(n))

NeedsPrevious == "previous" \in {loop.start.session, loop.end.session}

OnDate(n, clock) == Session(n).day * loop.dayLength + clock

AnchorTime(a, n) ==
  LET m == IF a.session = "previous" THEN Previous(n) ELSE n
  IN  OnDate(m, CASE a.boundary = "open"  -> Session(m).open
                  [] a.boundary = "close" -> Session(m).close
                  [] OTHER -> a.clock)

RowStatus(n) ==
  CASE Session(n).kind # "full" -> "excluded_reference_session"
    [] /\ Session(n).kind = "full" /\ NeedsPrevious /\ PreviousOpen(n) # {}
       /\ Session(Previous(n)).kind # "full" -> "excluded_predecessor_session"
    [] OTHER -> "scheduled"

(* A boundary is acted on a bar later.                                     *)
TimedEntry(n) == OnDate(n, loop.entry) + 1
TimedExit(n) == OnDate(n, loop.exit) + 1

BarAt(t) == IF \E j \in 0..i : T(j) = t THEN CHOOSE j \in 0..i : T(j) = t ELSE None

Quoted(t) == \E q \in loop.quoted : q.from <= t /\ t < q.to

OnItsDate(n, t) == t < (Session(n).day + 1) * loop.dayLength

AnchorsOrdered(n) ==
  /\ AnchorTime(loop.start, n) < AnchorTime(loop.end, n)
  /\ AnchorTime(loop.end, n) <= OnDate(n, loop.entry)
  /\ loop.entry < loop.exit

Tradable(n, t) == OnItsDate(n, t) /\ Quoted(t) /\ BarAt(t) # None

RowAdmissible(n) ==
  RowStatus(n) = "scheduled" =>
    /\ NeedsPrevious => PreviousOpen(n) # {}
    /\ AnchorsOrdered(n)
    /\ Tradable(n, TimedEntry(n)) /\ Tradable(n, TimedExit(n))

TimedBar == Phase("open", "next") /\ Unchanged

TimedRefused ==
  /\ bars # <<>> /\ Phase("next", "done")
  /\ \E n \in loop.planned : ~RowAdmissible(n)
  /\ Unchanged

TimedPlanned ==
  /\ bars # <<>> /\ Phase("next", "rows")
  /\ \A n \in loop.planned : RowAdmissible(n)
  /\ Unchanged

Endpoint(a, n) ==
  BarAt(IF a.price = "open" THEN AnchorTime(a, n) ELSE AnchorTime(a, n) - 1)

EndpointPrice(a, n) == IF a.price = "open" THEN O(Endpoint(a, n)) ELSE C(Endpoint(a, n))

TimedReturn(n) == EndpointPrice(loop.end, n) - EndpointPrice(loop.start, n)

TimedSide(n) == (IF TimedReturn(n) > 0 THEN 1 ELSE -1) * loop.direction

TimedOutcome(n) ==
  IF RowStatus(n) # "scheduled" THEN RowStatus(n)
  ELSE IF None \in {Endpoint(loop.start, n), Endpoint(loop.end, n)} THEN "unavailable_endpoint"
  ELSE IF TimedReturn(n) = 0 THEN "zero_return"
  ELSE IF TimedSide(n) \notin loop.allow THEN "side_blocked" ELSE "executed"

TimedTrade(n) ==
  [side |-> TimedSide(n), at |-> BarAt(TimedEntry(n)), out |-> BarAt(TimedExit(n)),
   entry |-> O(BarAt(TimedEntry(n))), exit |-> O(BarAt(TimedExit(n))),
   entered |-> 4 * TimedEntry(n), left |-> 4 * TimedExit(n),
   stop |-> None, target |-> None, reason |-> "time", tag |-> [day |-> Session(n).day]]

TimedRow ==
  /\ Phase("rows", "rows") /\ mark.next <= Len(loop.sessions)
  /\ mark' = [mark EXCEPT !.next = @ + 1]
  /\ UNCHANGED <<pos, order>>
  /\ \/ /\ mark.next \in loop.planned
        /\ audits' = Append(audits, [day |-> Session(mark.next).day,
                                     outcome |-> TimedOutcome(mark.next)])
        /\ trades' = IF TimedOutcome(mark.next) = "executed"
                     THEN Append(trades, TimedTrade(mark.next)) ELSE trades
     \/ mark.next \notin loop.planned /\ UNCHANGED <<audits, trades>>

TimedDone == mark.next > Len(loop.sessions) /\ Phase("rows", "done") /\ Unchanged

TimedLoop ==
  /\ loop.kind = "timed"
  /\ TimedBar \/ TimedRefused \/ TimedPlanned \/ TimedRow \/ TimedDone

------------------------------------------------------------------------------
(* AsiaLondonSweepState.Process.  The value area of the Asian bars is      *)
(* their range less loop.area on either side; loop.minShare is the         *)
(* percentile of the earlier days' ranges that the range must reach.       *)
Hour(j) == T(j) % loop.dayLength
DayOf(j) == T(j) \div loop.dayLength

InAsia(j) == Hour(j) >= loop.asia.from /\ Hour(j) < loop.asia.to
InLondon(j) == Hour(j) >= loop.london.from /\ Hour(j) < loop.london.to /\ ~InAsia(j)

AsiaBars == {j \in 0..i : DayOf(j) = DayOf(i) /\ InAsia(j)}
AsiaHigh == RangeHigh(AsiaBars)
AsiaLow == RangeLow(AsiaBars)
AsiaRange == AsiaHigh - AsiaLow

PredictedSide ==
  CASE O(i) > AsiaHigh - loop.area -> 1
    [] O(i) <= AsiaHigh - loop.area /\ O(i) < AsiaLow + loop.area -> -1
    [] OTHER -> 0

(* The value of the sorted ranges at that percentile is at most the range. *)
Reaches(history, share) ==
  Cardinality({n \in DOMAIN history : history[n] <= AsiaRange})
    > ((Len(history) - 1) * share) \div 100

RecentRanges ==
  SubSeq(mark.history, Highest({1, Len(mark.history) - loop.lookback + 1}), Len(mark.history))

RangeOK ==
  loop.minShare > 0 => Len(RecentRanges) >= loop.minHistory /\ Reaches(RecentRanges, loop.minShare)

EdgeOf(s) == IF s = 1 THEN AsiaHigh ELSE AsiaLow

DistanceOK ==
  loop.maxDistance > 0 => 100 * Abs(EdgeOf(PredictedSide) - O(i)) <= loop.maxDistance * AsiaRange

Today == IF mark.day = DayOf(i) THEN mark ELSE [mark EXCEPT !.day = DayOf(i), !.done = FALSE, !.side = 0]

Predicts ==
  /\ InLondon(i) /\ ~Today.done /\ Today.side = 0
  /\ AsiaBars # {} /\ AsiaRange > 0

(* The first London bar predicts the edge; the range joins the history     *)
(* after it was compared with it.                                          *)
SweepOpen ==
  /\ Phase("open", "range")
  /\ UNCHANGED <<pos, order, trades, audits>>
  /\ \/ ~Predicts /\ mark' = Today
     \/ /\ Predicts /\ PredictedSide = 0
        /\ mark' = [Today EXCEPT !.done = TRUE]
     \/ /\ Predicts /\ PredictedSide # 0
        /\ mark' = [Today EXCEPT !.side = PredictedSide, !.done = ~(RangeOK /\ DistanceOK),
                                 !.history = Append(@, AsiaRange)]

Sweeps(s) == Beyond(s, Favorable(s, i), EdgeOf(s)) > 0

Sweepable == InLondon(i) /\ ~mark.done /\ mark.side # 0

SweepStop(s) == EdgeOf(s) - s * loop.buffer

SweepTaken(s) ==
  /\ ~Sweeps(-s) /\ Beyond(s, C(i), EdgeOf(s)) > 0
  /\ loop.requireOutside => PredictedSide = s
  /\ s \in loop.allow /\ C(i) # SweepStop(s)

SweepSignal(s) ==
  [day |-> DayOf(i), outcome |-> "signal", side |-> s, at |-> i, entry |-> C(i),
   stop |-> SweepStop(s), target |-> C(i) + s * Abs(C(i) - SweepStop(s)) * loop.targetR]

(* The first sweep of either edge decides the day.                         *)
SweepRange ==
  /\ Phase("range", "next")
  /\ UNCHANGED <<pos, order, trades>>
  /\ \/ /\ Sweepable /\ (Sweeps(1) \/ Sweeps(-1))
        /\ mark' = [mark EXCEPT !.done = TRUE]
        /\ audits' = IF Sweeps(mark.side) /\ SweepTaken(mark.side)
                     THEN Append(audits, SweepSignal(mark.side)) ELSE audits
     \/ /\ ~(Sweepable /\ (Sweeps(1) \/ Sweeps(-1)))
        /\ UNCHANGED <<mark, audits>>

SweepLoop == loop.kind = "sweep" /\ (SweepOpen \/ SweepRange)

ScheduleLoops == ShockLoop \/ ScheduledLoop \/ TimedLoop \/ SweepLoop
==============================================================================
