------------------------------ MODULE LoopProofs ------------------------------
(***************************************************************************)
(* Proofs about the bar loops of Loops, for any runs with any parameters,  *)
(* candles and series of any length.                                       *)
(***************************************************************************)
EXTENDS Loops, FrozenLevel, FiniteSetTheorems, SequenceTheorems, WellFoundedInduction, TLAPS

(* A position has the fields that Position gives it, and the trades are a  *)
(* list.                                                                   *)
IsPosition(p) ==
  p = [side |-> p.side, entry |-> p.entry, at |-> p.at, entered |-> p.entered,
       stop |-> p.stop, target |-> p.target, tag |-> p.tag]
Traded == \E S : trades \in Seq(S)

(* The loops that enter at once have no order; a shock that waits for its  *)
(* confirmation found neither position nor order, and both stay away.      *)
NeverOrders == {"hour", "weekend", "legacy", "scheduled", "timed", "sweep"}
ShockKept ==
  loop.kind = "shock" =>
    /\ \E n, w, b : mark = [next |-> n, waiting |-> w, busyUntil |-> b]
    /\ mark.waiting # None => ~Held /\ ~Ordered

LoopKept ==
  /\ Traded
  /\ Held => IsPosition(pos)
  /\ Ordered => ~Held
  /\ loop.kind \in NeverOrders => ~Ordered
  /\ ShockKept

(* What a step may do with a position.                                     *)
Keeps ==
  Held => \/ pos'.side # 0 /\ pos' = [pos EXCEPT !.stop = pos'.stop]
          \/ /\ Len(trades') = Len(trades) + 1
             /\ LET t == trades'[Len(trades')]
                IN  <<t.side, t.entry, t.entered>> = <<pos.side, pos.entry, pos.entered>>

Lists == trades' = trades \/ \E t : trades' = Append(trades, t)
Stays == pos' = pos /\ Lists
Moves == Held /\ trades' = trades /\ \E stop : pos' = [pos EXCEPT !.stop = stop]
Leaves == \E price, reason : CloseAt(price, reason)
Enters == ~Held /\ Lists /\ (pos' = pos \/ pos' = Flat \/ IsPosition(pos'))

Handled == Keeps /\ Traded' /\ (Held => IsPosition(pos))'

LEMMA PositionIs ==
  ASSUME NEW s, NEW price, NEW stop, NEW target, NEW tag
  PROVE  IsPosition(Position(s, price, stop, target, tag)) /\ Position(s, price, stop, target, tag).side = s
BY DEF IsPosition, Position

LEMMA ListsAreTraded == ASSUME Traded, Lists PROVE Traded'
<1>1. CASE trades' = trades
  BY <1>1 DEF Traded
<1>2. CASE \E t : trades' = Append(trades, t)
  <2>1. PICK t : trades' = Append(trades, t)
    BY <1>2
  <2>2. PICK S : trades \in Seq(S)
    BY DEF Traded
  <2>3. trades \in Seq(S \cup {t}) /\ t \in S \cup {t}
    BY <2>2
  <2>4. trades' \in Seq(S \cup {t})
    BY <2>1, <2>3, AppendProperties
  <2> QED BY <2>4 DEF Traded
<1> QED BY <1>1, <1>2 DEF Lists

LEMMA StaysHandled == ASSUME LoopKept, Stays PROVE Handled
<1>1. Traded'
  BY ListsAreTraded DEF LoopKept, Stays
<1>2. (Held => IsPosition(pos))'
  BY DEF Stays, LoopKept, Held, IsPosition
<1>3. Keeps
  <2> SUFFICES ASSUME Held PROVE pos'.side # 0 /\ pos' = [pos EXCEPT !.stop = pos'.stop]
    BY DEF Keeps
  <2>1. pos = [pos EXCEPT !.stop = pos.stop]
    BY DEF LoopKept, IsPosition
  <2> QED BY <2>1 DEF Stays, Held
<1> QED BY <1>1, <1>2, <1>3 DEF Handled

LEMMA MovesHandled == ASSUME LoopKept, Moves PROVE Handled /\ Held'
<1>1. Traded'
  BY DEF LoopKept, Moves, Traded
<1>2. PICK stop : pos' = [pos EXCEPT !.stop = stop]
  BY DEF Moves
<1>3. IsPosition(pos) /\ Held
  BY DEF LoopKept, Moves
<1>4. pos' = [side |-> pos.side, entry |-> pos.entry, at |-> pos.at, entered |-> pos.entered,
              stop |-> stop, target |-> pos.target, tag |-> pos.tag]
  BY <1>2, <1>3 DEF IsPosition
<1>5. IsPosition(pos') /\ pos'.side = pos.side /\ pos'.stop = stop
  BY <1>4 DEF IsPosition
<1>6. Keeps
  BY <1>2, <1>3, <1>5 DEF Keeps, Held
<1> QED BY <1>1, <1>3, <1>5, <1>6 DEF Handled, Held

LEMMA LeavesHandled == ASSUME LoopKept, Leaves PROVE Handled /\ ~Held'
<1>1. PICK price, reason : CloseAt(price, reason)
  BY DEF Leaves
<1>2. Traded'
  BY <1>1, ListsAreTraded DEF CloseAt, Lists, LoopKept
<1>3. ~Held'
  BY <1>1 DEF CloseAt, Flat, Held
<1>4. Keeps
  <2>1. PICK S : trades \in Seq(S)
    BY DEF LoopKept, Traded
  <2>2. trades' = Append(trades, Trade(pos, price, reason))
    BY <1>1 DEF CloseAt
  <2>3. Len(trades) \in Nat
    BY <2>1
  <2>4. Len(trades') = Len(trades) + 1 /\ trades'[Len(trades')] = Trade(pos, price, reason)
    BY <2>1, <2>2, <2>3
  <2> QED BY <2>4 DEF Keeps, Trade
<1> QED BY <1>2, <1>3, <1>4 DEF Handled

LEMMA EntersHandled == ASSUME LoopKept, Enters PROVE Handled
<1>1. Traded'
  BY ListsAreTraded DEF LoopKept, Enters
<1>2. (Held => IsPosition(pos))'
  BY DEF Enters, Flat, Held
<1> QED BY <1>1, <1>2 DEF Handled, Keeps, Enters

(* A step of a loop is one of these, and leaves no order with a position.  *)
Exclusive == Ordered => ~Held
Step == loop' = loop /\ (Stays \/ Moves \/ Leaves \/ Enters) /\ Exclusive'

LEMMA StepHandled == ASSUME LoopKept, Step PROVE Handled
BY StaysHandled, MovesHandled, LeavesHandled, EntersHandled DEF Step

LEMMA StepKept ==
  ASSUME LoopKept, Step, loop.kind # "shock", loop.kind \in NeverOrders => ~Ordered'
  PROVE  Keeps /\ LoopKept'
<1>1. Handled
  BY StepHandled
<1>2. ShockKept'
  BY DEF Step, ShockKept
<1> QED BY <1>1, <1>2 DEF Handled, LoopKept, Step, Exclusive

(* The same position and order, or one of them gone.                       *)
LEMMA NothingNew ==
  ASSUME LoopKept, loop' = loop, Stays, order' = order \/ order' = NoOrder
  PROVE  Step
BY DEF Step, Exclusive, LoopKept, Stays, Held, Ordered, NoOrder

(* An order comes only when there is no position.                          *)
LEMMA OrderedFlat ==
  ASSUME LoopKept, loop' = loop, Stays, ~Held
  PROVE  Step
BY DEF Step, Exclusive, Stays, Held

LEMMA Departs ==
  ASSUME LoopKept, loop' = loop, Leaves
  PROVE  Step /\ ~Held'
<1>1. ~Held'
  BY LeavesHandled
<1> QED BY <1>1 DEF Step, Exclusive

LEMMA Arrives ==
  ASSUME LoopKept, loop' = loop, Enters, order' = NoOrder \/ (~Ordered /\ order' = order)
  PROVE  Step
BY DEF Step, Exclusive, Ordered, NoOrder

-------------------------------------------------------------------------------
(* clockRangeBreakout: a day's orders are placed only while the broker     *)
(* holds nothing, and a fill uses them up.                                 *)
LEMMA FirstDefectNone ==
  ASSUME NEW a, NEW b, FirstDefect(<<a, b>>) = "none"
  PROVE  b = "none"
<1> DEFINE D == <<a, b>>
           bad == {n \in DOMAIN D : D[n] # "none"}
<1> SUFFICES ASSUME b # "none" PROVE FALSE
  OBVIOUS
<1>1. DOMAIN D = {1, 2} /\ D[1] = a /\ D[2] = b
  OBVIOUS
<1>2. bad \subseteq {1, 2} /\ 2 \in bad
  BY <1>1
<1>3. \E x \in bad : \A y \in bad : x <= y
  <2>1. CASE 1 \in bad
    BY <2>1, <1>2
  <2>2. CASE 1 \notin bad
    BY <2>2, <1>2
  <2> QED BY <2>1, <2>2
<1>4. Lowest(bad) \in bad
  BY <1>3 DEF Lowest
<1>5. FirstDefect(D) = D[Lowest(bad)]
  BY <1>2 DEF FirstDefect
<1> QED BY <1>4, <1>5

LEMMA PlaceOrdersSteps ==
  ASSUME LoopKept, loop' = loop, NEW day, NEW n, PlaceOrders(day, n)
  PROVE  Step
<1>1. PICK R \in {RangeBars(day, n)}, defect \in {RangeDefect(day, n, RangeBars(day, n))} :
        IF defect # "none" THEN RecordDay(day, NotRead, defect) /\ order' = NoOrder
        ELSE PlaceRange(day, R, DailyInputs(n, day))
  BY Zenon DEF PlaceOrders
<1>2. CASE RecordDay(day, NotRead, defect) /\ order' = NoOrder
  BY <1>2, NothingNew DEF RecordDay, Stays, Lists
<1>3. CASE PlaceRange(day, R, DailyInputs(n, day))
  <2> DEFINE daily == DailyInputs(n, day)
             first == FirstDefect(<<GateDefect(R, daily), BrokerDefect(R, daily)>>)
  <2>1. PlaceDay(day, R, daily, first)
    BY <1>3 DEF PlaceRange
  <2> HIDE DEF daily
  <2>2. first = "none" => ~Held
    BY FirstDefectNone DEF BrokerDefect
  <2> HIDE DEF first
  <2>3. Stays
    BY <2>1 DEF PlaceDay, RecordDay, Stays, Lists
  <2>4. first # "none" => order' = NoOrder
    BY <2>1 DEF PlaceDay
  <2> QED BY <2>2, <2>3, <2>4, NothingNew, OrderedFlat
<1> QED BY <1>1, <1>2, <1>3

LEMMA FillOrderEnters ==
  ASSUME NEW s, NEW fill, FillOrder(s, fill), ~Held
  PROVE  Enters
<1>1. CASE FillDefect(s, fill) # "none"
  <2>1. pos' = pos /\ trades' = trades
    BY <1>1 DEF FillOrder
  <2> QED BY <2>1 DEF Enters, Lists
<1>2. CASE Enter(ClockPosition(s, fill))
  BY <1>2, PositionIs DEF Enter, ClockPosition, Enters, Lists
<1> QED BY <1>1, <1>2 DEF FillOrder

LEMMA ClockSteps == ASSUME LoopKept, ClockBar PROVE Step /\ loop.kind = "clock"
<1> SUFFICES Step
  BY DEF ClockBar
<1>1. CASE ClockMissed
  BY <1>1, PlaceOrdersSteps DEF ClockMissed, Phase
<1>2. CASE ClockOpen
  <2>1. loop' = loop
    BY <1>2 DEF ClockOpen, Phase
  <2>2. (\E price, reason : AtOpen(price, reason)) \/ (Stays /\ (order' = order \/ order' = NoOrder))
    BY <1>2 DEF ClockOpen, Stays, Lists
  <2>3. CASE \E price, reason : AtOpen(price, reason)
    BY <2>1, <2>3, Departs DEF AtOpen, Leaves
  <2> QED BY <2>1, <2>2, <2>3, NothingNew
<1>3. CASE ClockHeld
  <2>1. loop' = loop /\ order' = order
    BY <1>3 DEF ClockHeld, Phase
  <2>2. Leaves \/ Stays
    BY <1>3 DEF ClockHeld, Leaves, Stays, Lists
  <2> QED BY <2>1, <2>2, NothingNew, Departs
<1>4. CASE ClockUntouched
  BY <1>4, NothingNew DEF ClockUntouched, Phase, Stays, Lists
<1>5. CASE ClockTouched
  <2>1. loop' = loop /\ order' = NoOrder /\ ~Held
    BY <1>5 DEF ClockTouched, Phase
  <2>2. Stays \/ FillOrder(NearestSide, FillPrice(NearestSide))
    BY <1>5 DEF ClockTouched, Stays, Lists
  <2> QED BY <2>1, <2>2, NothingNew, FillOrderEnters, Arrives
<1>6. CASE ClockRangeEnds
  BY <1>6, PlaceOrdersSteps DEF ClockRangeEnds, Phase
<1>7. CASE ClockClosed
  BY <1>7, NothingNew DEF ClockClosed, Phase, Stays, Lists
<1> QED BY <1>1, <1>2, <1>3, <1>4, <1>5, <1>6, <1>7 DEF ClockBar

-------------------------------------------------------------------------------
(* dailyFlushFailure: an order of the close is filled or dropped at the    *)
(* next open, before anything else is signalled.                           *)
LEMMA FlushSteps == ASSUME LoopKept, FlushLoop PROVE Step /\ loop.kind = "flush"
<1> SUFFICES Step
  BY DEF FlushLoop
<1>1. CASE FlushSkipped \/ FlushBefore
  BY <1>1, NothingNew DEF FlushSkipped, FlushBefore, Phase, Unchanged, Stays, Lists
<1>2. CASE FlushTimeExit
  BY <1>2, Departs DEF FlushTimeExit, Phase, Leaves
<1>3. CASE FlushEntry
  <2>1. loop' = loop /\ order' = NoOrder /\ trades' = trades
    BY <1>3 DEF FlushEntry, Phase
  <2>2. CASE pos' = pos
    BY <2>1, <2>2, NothingNew DEF Stays, Lists
  <2>3. CASE pos' # pos
    <3>1. Ordered /\ pos' = Position(1, O(i) + loop.slip, order.stop, None, [at |-> order.at])
      BY <1>3, <2>3 DEF FlushEntry
    <3>2. Enters
      BY <2>1, <3>1, PositionIs DEF Enters, Lists, LoopKept
    <3> QED BY <2>1, <3>2, Arrives
  <2> QED BY <2>2, <2>3
<1>4. CASE FlushStopped
  BY <1>4, Departs DEF FlushStopped, Phase, Leaves
<1>5. CASE FlushSurvived
  BY <1>5, NothingNew DEF FlushSurvived, Phase, Stays, Lists
<1>6. CASE FlushClose
  <2>1. loop' = loop /\ Stays
    BY <1>6 DEF FlushClose, Phase, Stays, Lists
  <2>2. order' = order \/ ~Held
    BY <1>6 DEF FlushClose, FlushSignal
  <2> QED BY <2>1, <2>2, NothingNew, OrderedFlat
<1> QED BY <1>1, <1>2, <1>3, <1>4, <1>5, <1>6 DEF FlushLoop

(* The fades: one of those that the candle makes is entered, and one is    *)
(* there to be chosen.                                                     *)
LEMMA FadesArePositions ==
  ASSUME NEW p \in Fades PROVE IsPosition(p)
BY PositionIs DEF Fades, HourFade, WeekendFade

LEMMA LongWeekendFade ==
  ASSUME loop.kind = "weekend", Fades # {}, Cardinality(Fades) = 2
  PROVE  \E p \in Fades : p.side = 1
<1> DEFINE R == {r \in {1, -1} : WeekendTurn(r)}
<1>1. Fades = {WeekendFade(s) : s \in R}
  BY DEF Fades
<1> HIDE DEF R
<1>2. R \subseteq {1, -1}
  BY DEF R
<1>3. CASE 1 \in R
  BY <1>1, <1>3, PositionIs DEF WeekendFade
<1>4. CASE 1 \notin R
  <2>1. Fades \subseteq {WeekendFade(-1)}
    BY <1>1, <1>2, <1>4
  <2>2. Fades = {WeekendFade(-1)}
    BY <2>1
  <2>3. Cardinality(Fades) = 1
    BY <2>2, FS_Singleton
  <2> QED BY <2>3
<1> QED BY <1>3, <1>4

LEMMA FadeEnteredSteps ==
  ASSUME LoopKept, loop' = loop, loop.kind \in {"hour", "weekend"}, FadeEntered(Fades)
  PROVE  Step /\ order' = order
<1>1. CASE Unchanged
  BY <1>1, NothingNew DEF Unchanged, Stays, Lists
<1>2. CASE /\ ~Held /\ Fades # {}
           /\ OpenPos(CHOOSE p \in Fades : loop.kind = "weekend" /\ Cardinality(Fades) = 2 => p.side = 1)
  <2>1. \E p \in Fades : loop.kind = "weekend" /\ Cardinality(Fades) = 2 => p.side = 1
    BY <1>2, LongWeekendFade
  <2>2. (CHOOSE p \in Fades : loop.kind = "weekend" /\ Cardinality(Fades) = 2 => p.side = 1) \in Fades
    BY <2>1
  <2>3. pos' \in Fades /\ order' = order /\ trades' = trades
    BY <1>2, <2>2 DEF OpenPos
  <2>4. Enters
    BY <1>2, <2>3, FadesArePositions DEF Enters, Lists
  <2>5. ~Ordered
    BY DEF LoopKept, NeverOrders
  <2> QED BY <2>3, <2>4, <2>5, Arrives
<1> QED BY <1>1, <1>2 DEF FadeEntered

LEMMA FadeSteps == ASSUME LoopKept, FadeLoop PROVE Step /\ loop.kind \in {"hour", "weekend"} /\ order' = order
<1> SUFFICES Step /\ order' = order
  BY DEF FadeLoop
<1>1. CASE NothingDue \/ FadeHeld \/ FadeBefore
  BY <1>1, NothingNew DEF NothingDue, FadeHeld, FadeBefore, Phase, Unchanged, Stays, Lists
<1>2. CASE FadeExit \/ FadeTime
  BY <1>2, Departs DEF FadeExit, FadeTime, Phase, Leaves
<1>3. CASE FadeClose
  BY <1>3, FadeEnteredSteps DEF FadeClose, Phase, FadeLoop
<1> QED BY <1>1, <1>2, <1>3 DEF FadeLoop

(* The broker's bracket, at a bar's range.                                 *)
LEMMA BracketSteps ==
  ASSUME LoopKept, loop' = loop, Bracket, order' = order
  PROVE  Step
<1>1. Leaves \/ Stays
  BY DEF Bracket, Leaves, Stays, Lists
<1> QED BY <1>1, NothingNew, Departs

LEMMA CrossSteps == ASSUME LoopKept, CrossLoop PROVE Step /\ loop.kind = "cross"
<1> SUFFICES Step
  BY DEF CrossLoop
<1>1. CASE CrossOpen
  <2>1. loop' = loop /\ order' = NoOrder
    BY <1>1 DEF CrossOpen, Phase
  <2>2. CASE \E price, reason : CloseAt(price, reason)
    BY <2>1, <2>2, Departs DEF Leaves
  <2>3. CASE Ordered /\ trades' = trades /\ IsPosition(pos')
    <3>1. Enters
      BY <2>3 DEF Enters, Lists, LoopKept
    <3> QED BY <2>1, <3>1, Arrives
  <2>4. CASE UNCHANGED <<pos, trades>>
    BY <2>1, <2>4, NothingNew DEF Stays, Lists
  <2> QED BY <1>1, <2>2, <2>3, <2>4, PositionIs DEF CrossOpen
<1>2. CASE CrossRange
  BY <1>2, BracketSteps DEF CrossRange, BracketRange, Phase
<1>3. CASE CrossClose
  <2>1. loop' = loop /\ Stays /\ (order' = NoOrder \/ ~Held)
    BY <1>3 DEF CrossClose, Phase, Stays, Lists
  <2> QED BY <2>1, NothingNew, OrderedFlat
<1> QED BY <1>1, <1>2, <1>3 DEF CrossLoop

LEMMA LegacySteps == ASSUME LoopKept, LegacyLoop PROVE Step /\ loop.kind = "legacy" /\ order' = order
<1> SUFFICES Step /\ order' = order
  BY DEF LegacyLoop
<1>1. CASE NothingDue
  BY <1>1, NothingNew DEF NothingDue, Phase, Unchanged, Stays, Lists
<1>2. CASE LegacyRange
  BY <1>2, BracketSteps DEF LegacyRange, BracketRange, Phase
<1>3. CASE LegacyClose
  <2>1. loop' = loop
    BY <1>3 DEF LegacyClose, Phase
  <2>2. Unchanged \/ (~Held /\ \E s : LegacyEnter(s))
    BY <1>3 DEF LegacyClose
  <2>3. CASE Unchanged
    BY <2>1, <2>3, NothingNew DEF Unchanged, Stays, Lists
  <2>4. CASE ~Held /\ \E s : LegacyEnter(s)
    <3>1. PICK s : LegacyEnter(s)
      BY <2>4
    <3>2. Enters /\ order' = order
      BY <2>4, <3>1, PositionIs DEF LegacyEnter, OpenPos, Enters, Lists
    <3>3. ~Ordered
      BY DEF LoopKept, NeverOrders, LegacyLoop
    <3> QED BY <2>1, <3>2, <3>3, Arrives
  <2> QED BY <2>2, <2>3, <2>4
<1> QED BY <1>1, <1>2, <1>3 DEF LegacyLoop

-------------------------------------------------------------------------------
(* downShockRebound: a shock waits, and is ordered, only while there is    *)
(* neither position nor order.                                             *)
ShockMark(m) == \E n, w, b : m = [next |-> n, waiting |-> w, busyUntil |-> b]
Idle == ~Held /\ ~Ordered
Shocked == ShockMark(mark) /\ (mark.waiting # None => Idle)

LEMMA ShockKeptIs == ASSUME loop.kind = "shock" PROVE ShockKept <=> Shocked
BY DEF ShockKept, Shocked, ShockMark, Idle

WaitingIs(m, w) == ShockMark(m) /\ m.waiting = w
LEMMA ShockMarkSet ==
  ASSUME NEW m, ShockMark(m), NEW n, NEW w, NEW b
  PROVE  /\ WaitingIs([m EXCEPT !.waiting = w], w)
         /\ WaitingIs([m EXCEPT !.busyUntil = b], m.waiting)
         /\ WaitingIs([m EXCEPT !.next = n, !.waiting = w], w)
<1>1. PICK x, y, z : m = [next |-> x, waiting |-> y, busyUntil |-> z]
  BY DEF ShockMark
<1>2. [m EXCEPT !.waiting = w] = [next |-> x, waiting |-> w, busyUntil |-> z]
  BY <1>1
<1>3. [m EXCEPT !.busyUntil = b] = [next |-> x, waiting |-> y, busyUntil |-> b]
  BY <1>1
<1>4. [m EXCEPT !.next = n, !.waiting = w] = [next |-> n, waiting |-> w, busyUntil |-> z]
  <2> DEFINE k == [m EXCEPT !.next = n]
  <2>1. k = [next |-> n, waiting |-> y, busyUntil |-> z]
    BY <1>1
  <2>2. [m EXCEPT !.next = n, !.waiting = w] = [k EXCEPT !.waiting = w]
    OBVIOUS
  <2> HIDE DEF k
  <2> QED BY <2>1, <2>2
<1> QED BY <1>1, <1>2, <1>3, <1>4 DEF WaitingIs, ShockMark

LEMMA ShockClosedKeeps ==
  ASSUME Shocked, ~Held', ShockClosed
  PROVE  Shocked'
<1>1. ShockMark(mark') /\ mark'.waiting = mark.waiting
  BY ShockMarkSet DEF ShockClosed, Shocked, WaitingIs
<1> QED BY <1>1 DEF Shocked, Idle, ShockClosed, Ordered

LEMMA ShockSteps == ASSUME LoopKept, ShockLoop PROVE Step /\ loop.kind = "shock" /\ Shocked'
<1> SUFFICES Step /\ Shocked'
  BY DEF ShockLoop
<1>k. loop.kind = "shock" /\ Shocked
  BY ShockKeptIs DEF ShockLoop, LoopKept
<1>1. CASE ShockBefore
  <2>1. Step
    BY <1>1, NothingNew DEF ShockBefore, Phase, Stays, Lists
  <2>2. ShockMark(mark') /\ mark'.waiting = None
    BY <1>1, <1>k, ShockMarkSet DEF ShockBefore, Shocked, WaitingIs
  <2> QED BY <2>1, <2>2 DEF Shocked
<1>2. CASE ShockKnown
  <2>1. loop' = loop /\ Stays
    BY <1>2 DEF ShockKnown, Phase, Stays, Lists
  <2>2. Waiting # None => Idle
    <3>1. Usable # {} => Idle
      BY DEF Usable, Idle
    <3> QED BY <1>k, <3>1 DEF Waiting, Shocked
  <2>3. order' = order \/ Idle
    BY <1>2, <2>2 DEF ShockKnown
  <2>4. Step
    BY <2>1, <2>3, NothingNew, OrderedFlat DEF Idle
  <2>5. ShockMark(mark') /\ mark'.waiting = IF loop.reversal THEN Waiting ELSE None
    <3>1. ShockMark(mark)
      BY <1>k DEF Shocked
    <3>2. \E n, w : w = (IF loop.reversal THEN Waiting ELSE None) /\ mark' = [mark EXCEPT !.next = n, !.waiting = w]
      BY <1>2 DEF ShockKnown
    <3>3. PICK n, w : w = (IF loop.reversal THEN Waiting ELSE None) /\ mark' = [mark EXCEPT !.next = n, !.waiting = w]
      BY Zenon, <3>2
    <3>4. WaitingIs(mark', w)
      BY <3>1, <3>3, ShockMarkSet
    <3> QED BY <3>3, <3>4 DEF WaitingIs
  <2>6. mark'.waiting # None => Idle /\ pos' = pos /\ order' = order
    BY <1>2, <2>2, <2>5 DEF ShockKnown
  <2> QED BY <2>4, <2>5, <2>6 DEF Shocked, Idle, Held, Ordered
<1>3. CASE ShockFill
  <2>1. loop' = loop /\ order' = NoOrder /\ mark' = mark /\ trades' = trades
    BY <1>3 DEF ShockFill, Phase
  <2>2. pos' = pos \/ (Ordered /\ IsPosition(pos'))
    BY <1>3, PositionIs DEF ShockFill, ShockPosition
  <2>3. CASE pos' = pos
    <3>1. Step
      BY <2>1, <2>3, NothingNew DEF Stays, Lists
    <3> QED BY <1>k, <2>1, <2>3, <3>1 DEF Shocked, Idle, Held, Ordered, NoOrder
  <2>4. CASE Ordered /\ IsPosition(pos')
    <3>1. Enters
      BY <2>1, <2>4 DEF Enters, Lists, LoopKept
    <3>2. mark.waiting = None
      BY <1>k, <2>4 DEF Shocked, Idle
    <3> QED BY <1>k, <2>1, <3>1, <3>2, Arrives DEF Shocked
  <2> QED BY <2>2, <2>3, <2>4
<1>4. ASSUME loop' = loop, Leaves, ShockClosed
      PROVE  Step /\ Shocked'
  BY <1>4, <1>k, Departs, ShockClosedKeeps
<1>5. ASSUME loop' = loop, Stays, UNCHANGED <<order, mark>>
      PROVE  Step /\ Shocked'
  <2>1. Step
    BY <1>5, NothingNew
  <2> QED BY <1>5, <1>k, <2>1 DEF Stays, Shocked, Idle, Held, Ordered
<1>6. CASE ShockDue
  <2>1. loop' = loop
    BY <1>6 DEF ShockDue, Phase
  <2>2. (Leaves /\ ShockClosed) \/ Unchanged
    BY <1>6 DEF ShockDue, Leaves
  <2> QED BY <1>4, <1>5, <2>1, <2>2 DEF Unchanged, Stays, Lists
<1>7. CASE ShockRange
  <2>1. loop' = loop /\ order' = order
    BY <1>7 DEF ShockRange, Phase
  <2>2. CASE StopTouched \/ TargetTouched
    <3>1. Leaves /\ ShockClosed
      BY <1>7, <2>2 DEF ShockRange, Bracket, Leaves, ShockClosed
    <3> QED BY <1>4, <2>1, <3>1
  <2>3. CASE ~StopTouched /\ ~TargetTouched
    <3>1. UNCHANGED <<pos, trades, mark>>
      BY <1>7, <2>3 DEF ShockRange, Bracket
    <3> QED BY <1>5, <2>1, <3>1 DEF Stays, Lists
  <2> QED BY <2>2, <2>3
<1>8. CASE ShockTime
  BY <1>8, <1>4 DEF ShockTime, Phase, Leaves
<1>9. CASE ShockClose
  <2>1. loop' = loop /\ Stays
    BY <1>9 DEF ShockClose, Phase, Stays, Lists
  <2>2. UNCHANGED <<order, mark>> \/ (mark.waiting # None /\ mark' = [mark EXCEPT !.waiting = None])
    BY <1>9 DEF ShockClose
  <2>3. CASE mark.waiting # None /\ mark' = [mark EXCEPT !.waiting = None]
    <3>1. Step
      BY <1>k, <2>1, <2>3, OrderedFlat DEF Shocked, Idle
    <3>2. ShockMark(mark') /\ mark'.waiting = None
      BY <1>k, <2>3, ShockMarkSet DEF Shocked, WaitingIs
    <3> QED BY <3>1, <3>2 DEF Shocked
  <2> QED BY <1>5, <2>1, <2>2, <2>3
<1> QED BY <1>1, <1>2, <1>3, <1>6, <1>7, <1>8, <1>9 DEF ShockLoop

(* scheduledTrade, timedReturn and the sweep keep no order.                *)
LEMMA ScheduledSteps == ASSUME LoopKept, ScheduledLoop PROVE Step /\ loop.kind = "scheduled" /\ order' = order
<1> SUFFICES Step /\ order' = order
  BY DEF ScheduledLoop
<1>1. CASE ScheduledMissed \/ ScheduledEnds \/ ScheduledUnseen \/ ScheduledDone
  BY <1>1, NothingNew DEF ScheduledMissed, ScheduledEnds, ScheduledUnseen, ScheduledDone, Phase, Unchanged, Stays, Lists
<1>2. CASE ScheduledEntry
  <2>1. loop' = loop /\ order' = order /\ trades' = trades
    BY <1>2 DEF ScheduledEntry, Phase
  <2>2. Admission = "open-terminal" => ~Held
    BY DEF Admission
  <2>3. pos' = pos \/ (~Held /\ IsPosition(pos'))
    BY <1>2, <2>2, PositionIs DEF ScheduledEntry, ScheduledPosition
  <2>4. CASE ~Held /\ IsPosition(pos')
    <3>1. Enters /\ ~Ordered
      BY <2>1, <2>4 DEF Enters, Lists, LoopKept, NeverOrders, ScheduledLoop
    <3> QED BY <2>1, <3>1, Arrives
  <2> QED BY <2>1, <2>3, <2>4, NothingNew DEF Stays, Lists
<1>3. CASE ScheduledExit \/ ScheduledRange
  <2>1. loop' = loop /\ order' = order /\ (Leaves \/ Stays)
    BY <1>3 DEF ScheduledExit, ScheduledRange, Settled, Phase, Unchanged, Leaves, Stays, Lists
  <2> QED BY <2>1, NothingNew, Departs
<1> QED BY <1>1, <1>2, <1>3 DEF ScheduledLoop

LEMMA TimedSteps == ASSUME LoopKept, TimedLoop PROVE Step /\ loop.kind = "timed" /\ order' = order
<1>1. loop' = loop /\ order' = order /\ Stays /\ loop.kind = "timed"
  BY DEF TimedLoop, TimedBar, TimedRefused, TimedPlanned, TimedRow, TimedDone, Phase, Unchanged, Stays, Lists
<1> QED BY <1>1, NothingNew

LEMMA SweepSteps == ASSUME LoopKept, SweepLoop PROVE Step /\ loop.kind = "sweep" /\ order' = order
<1>1. loop' = loop /\ order' = order /\ Stays /\ loop.kind = "sweep"
  BY DEF SweepLoop, SweepOpen, SweepRange, Phase, Stays, Lists
<1> QED BY <1>1, NothingNew

-------------------------------------------------------------------------------
(* rangeReversion: an order is for the next open, and only a flat close    *)
(* signals one; the break-even stop replaces nothing but the stop.         *)
LEMMA ReversionSteps == ASSUME LoopKept, ReversionLoop PROVE Step /\ loop.kind = "reversion"
<1> SUFFICES Step
  BY DEF ReversionLoop
<1>1. CASE ReversionRejected \/ ReversionThrough
  BY <1>1, NothingNew DEF ReversionRejected, ReversionThrough, Phase, Stays, Lists
<1>2. CASE ReversionFilled
  <2>1. loop' = loop /\ order' = NoOrder
    BY <1>2 DEF ReversionFilled, Phase
  <2>2. Enters
    BY <1>2, PositionIs DEF ReversionFilled, ReversionPosition, Enters, Lists, LoopKept
  <2> QED BY <2>1, <2>2, Arrives
<1>3. CASE ReversionUnordered
  <2>1. loop' = loop /\ order' = order /\ trades' = trades /\ ~Ordered
    BY <1>3 DEF ReversionUnordered, Phase
  <2>2. Moves \/ Stays
    BY <1>3 DEF ReversionUnordered, Moves, Stays, Lists
  <2> QED BY <2>1, <2>2, NothingNew DEF Step, Exclusive, Ordered
<1>4. ASSUME loop' = loop, (\E price, reason : ReversionLeaves(price, reason)) \/ Unchanged
      PROVE  Step
  <2>1. (Leaves /\ order' = order) \/ (Stays /\ order' = order)
    BY <1>4 DEF ReversionLeaves, Immediately, Leaves, Unchanged, Stays, Lists
  <2> QED BY <1>4, <2>1, NothingNew, Departs
<1>5. CASE ReversionDue
  BY <1>4, <1>5 DEF ReversionDue, Phase
<1>6. CASE ReversionRange
  <2>1. loop' = loop
    BY <1>6 DEF ReversionRange, Phase
  <2>2. (\E price, reason : ReversionLeaves(price, reason)) \/ Unchanged
    BY <1>6 DEF ReversionRange
  <2> QED BY <1>4, <2>1, <2>2
<1>7. CASE ReversionHeld
  BY <1>7, NothingNew DEF ReversionHeld, Phase, Stays, Lists
<1>8. CASE ReversionClose
  BY <1>8, OrderedFlat DEF ReversionClose, Phase, Stays, Lists
<1> QED BY <1>1, <1>2, <1>3, <1>5, <1>6, <1>7, <1>8 DEF ReversionLoop

(* The gold flag: an order is placed when nothing is held or pending.      *)
LEMMA GoldSteps == ASSUME LoopKept, GoldLoop PROVE Step /\ loop.kind = "gold"
<1> SUFFICES Step
  BY DEF GoldLoop
<1>1. CASE GoldBefore
  <2>1. loop' = loop /\ Stays
    BY <1>1 DEF GoldBefore, Phase, Stays, Lists
  <2>2. ~Held \/ order' = order
    BY <1>1 DEF GoldBefore, GoldDue
  <2> QED BY <2>1, <2>2, NothingNew, OrderedFlat
<1>2. ASSUME loop' = loop, (\E price, reason : GoldClosed(price, reason)) \/ Unchanged
      PROVE  Step
  <2>1. (Leaves /\ order' = order) \/ (Stays /\ order' = order)
    BY <1>2 DEF GoldClosed, Leaves, Unchanged, Stays, Lists
  <2> QED BY <1>2, <2>1, NothingNew, Departs
<1>3. ASSUME loop' = loop, Ordered, order' = NoOrder, trades' = trades,
             pos' = pos \/ \E price : pos' = GoldPosition(price)
      PROVE  Step
  <2>1. pos' = pos \/ IsPosition(pos')
    BY <1>3, PositionIs DEF GoldPosition
  <2>2. Enters
    BY <1>3, <2>1 DEF Enters, Lists, LoopKept
  <2> QED BY <1>3, <2>2, Arrives
<1>4. CASE GoldOpen
  <2>1. loop' = loop
    BY <1>4 DEF GoldOpen, Phase
  <2>2. \/ (\E price, reason : GoldClosed(price, reason)) \/ Unchanged
        \/ /\ Ordered /\ order' = NoOrder /\ trades' = trades
           /\ pos' = pos \/ \E price : pos' = GoldPosition(price)
    BY <1>4 DEF GoldOpen
  <2> QED BY <1>2, <1>3, <2>1, <2>2
<1>5. CASE GoldTouch
  <2>1. loop' = loop /\ trades' = trades
    BY <1>5 DEF GoldTouch, Phase
  <2>2. \/ UNCHANGED <<pos, order>>
        \/ /\ Ordered /\ order' = NoOrder
           /\ pos' = pos \/ \E price : pos' = GoldPosition(price)
    BY <1>5 DEF GoldTouch
  <2> QED BY <1>3, <2>1, <2>2, NothingNew DEF Stays, Lists
<1>6. CASE GoldBracket
  <2>1. loop' = loop
    BY <1>6 DEF GoldBracket, Phase
  <2>2. (\E price, reason : GoldClosed(price, reason)) \/ Unchanged
    BY <1>6 DEF GoldBracket
  <2> QED BY <1>2, <2>1, <2>2
<1>7. CASE GoldClose
  <2>1. loop' = loop
    BY <1>7 DEF GoldClose, Phase
  <2>2. \/ (\E price, reason : GoldClosed(price, reason)) \/ Unchanged
        \/ UNCHANGED <<pos, trades>> /\ order' = NoOrder
    BY <1>7 DEF GoldClose
  <2> QED BY <1>2, <2>1, <2>2, NothingNew DEF Stays, Lists
<1> QED BY <1>1, <1>4, <1>5, <1>6, <1>7 DEF GoldLoop

(* The adaptive flag: a close that holds nothing orders, ages or drops.    *)
LEMMA FlagSteps == ASSUME LoopKept, FlagLoop PROVE Step /\ loop.kind = "adaptive"
<1> SUFFICES Step
  BY DEF FlagLoop
<1>1. CASE FlagDue
  <2>1. loop' = loop /\ order' = order /\ (Leaves \/ Stays)
    BY <1>1 DEF FlagDue, Phase, Leaves, Unchanged, Stays, Lists
  <2> QED BY <2>1, NothingNew, Departs
<1>2. ASSUME loop' = loop,
             \/ Leaves \/ UNCHANGED <<pos, order, trades>>
             \/ Ordered /\ order' = NoOrder /\ trades' = trades /\ IsPosition(pos')
      PROVE  Step
  <2>1. CASE Ordered /\ order' = NoOrder /\ trades' = trades /\ IsPosition(pos')
    <3>1. Enters
      BY <2>1 DEF Enters, Lists, LoopKept
    <3> QED BY <1>2, <2>1, <3>1, Arrives
  <2> QED BY <1>2, <2>1, NothingNew, Departs DEF Stays, Lists
<1>3. CASE FlagOpen
  <2>1. loop' = loop
    BY <1>3 DEF FlagOpen, Phase
  <2>2. \/ Leaves \/ UNCHANGED <<pos, order, trades>>
        \/ Ordered /\ order' = NoOrder /\ trades' = trades /\ IsPosition(pos')
    BY <1>3, PositionIs DEF FlagOpen, Leaves
  <2> QED BY <1>2, <2>1, <2>2
<1>4. CASE FlagRange
  <2>1. loop' = loop
    BY <1>4 DEF FlagRange, Phase
  <2>2. FlagBracket => UNCHANGED <<pos, trades>> \/ Leaves
    BY DEF FlagBracket, Leaves
  <2>3. \/ (FlagBracket /\ order' = order) \/ UNCHANGED <<pos, order, trades>>
        \/ Ordered /\ order' = NoOrder /\ trades' = trades /\ IsPosition(pos')
    BY <1>4, PositionIs DEF FlagRange
  <2> QED BY <1>2, <2>1, <2>2, <2>3
<1>5. CASE FlagHeld
  BY <1>5, NothingNew DEF FlagHeld, Phase, Stays, Lists
<1>6. CASE FlagClose
  BY <1>6, OrderedFlat DEF FlagClose, Phase, Stays, Lists
<1> QED BY <1>1, <1>3, <1>4, <1>5, <1>6 DEF FlagLoop

-------------------------------------------------------------------------------
LEMMA InitKept == Init => LoopKept
<1> SUFFICES ASSUME Init PROVE LoopKept
  OBVIOUS
<1>1. ~Held /\ ~Ordered
  BY DEF Init, Held, Ordered, Flat, NoOrder
<1>2. trades \in Seq({})
  BY DEF Init
<1>3. loop.kind = "shock" => mark = [next |-> 1, waiting |-> None, busyUntil |-> None]
  BY DEF Init, InitialMark
<1>4. ShockKept
  BY <1>1, <1>3 DEF ShockKept
<1> QED BY <1>1, <1>2, <1>4 DEF LoopKept, Traded

LEMMA StepsKept == ASSUME LoopKept, [Next]_vars PROVE Keeps /\ LoopKept'
<1>0. ASSUME loop' = loop, Stays, UNCHANGED <<order, mark>>
      PROVE  Keeps /\ LoopKept'
  <2>1. Handled
    BY <1>0, StaysHandled
  <2> QED BY <1>0, <2>1 DEF Handled, LoopKept, ShockKept, Stays, Held, Ordered
<1>1. CASE NewBar \/ UNCHANGED vars
  BY <1>0, <1>1 DEF NewBar, vars, Stays, Lists
<1>2. CASE Ends
  <2>1. loop' = loop /\ order' = order /\ mark' = mark
    BY <1>2 DEF Ends, SeriesEnds
  <2>2. CASE Leaves
    <3>1. Handled /\ ~Held'
      BY <2>2, LeavesHandled
    <3> QED BY <2>1, <3>1 DEF Handled, LoopKept, ShockKept, Held, Ordered
  <2>3. CASE UNCHANGED <<pos, trades>>
    BY <1>0, <2>1, <2>3 DEF Stays, Lists
  <2> QED BY <1>2, <2>2, <2>3 DEF Ends, SeriesEnds, Leaves
<1>3. ASSUME Step, loop.kind # "shock", loop.kind \in NeverOrders => order' = order
      PROVE  Keeps /\ LoopKept'
  <2>1. loop.kind \in NeverOrders => ~Ordered'
    BY <1>3 DEF LoopKept, Ordered
  <2> QED BY <1>3, <2>1, StepKept
<1>4. CASE ClockBar
  BY <1>3, <1>4, ClockSteps DEF NeverOrders
<1>5. CASE FlushLoop
  BY <1>3, <1>5, FlushSteps DEF NeverOrders
<1>6. CASE FadeLoop
  BY <1>3, <1>6, FadeSteps
<1>7. CASE CrossLoop
  BY <1>3, <1>7, CrossSteps DEF NeverOrders
<1>8. CASE LegacyLoop
  BY <1>3, <1>8, LegacySteps
<1>9. CASE ShockLoop
  <2>1. Step /\ loop.kind = "shock" /\ Shocked'
    BY <1>9, ShockSteps
  <2>2. Handled
    BY <2>1, StepHandled
  <2>3. ShockKept'
    BY <2>1 DEF Step, ShockKept, Shocked, ShockMark, Idle
  <2> QED BY <2>1, <2>2, <2>3 DEF Step, Handled, Exclusive, LoopKept, NeverOrders
<1>10. CASE ScheduledLoop
  BY <1>3, <1>10, ScheduledSteps
<1>11. CASE TimedLoop
  BY <1>3, <1>11, TimedSteps
<1>12. CASE SweepLoop
  BY <1>3, <1>12, SweepSteps
<1>13. CASE ReversionLoop
  BY <1>3, <1>13, ReversionSteps DEF NeverOrders
<1>14. CASE GoldLoop
  BY <1>3, <1>14, GoldSteps DEF NeverOrders
<1>15. CASE FlagLoop
  BY <1>3, <1>15, FlagSteps DEF NeverOrders
<1> QED BY <1>1, <1>2, <1>4, <1>5, <1>6, <1>7, <1>8, <1>9, <1>10, <1>11, <1>12, <1>13, <1>14, <1>15
        DEF Next, CandleLoops, ScheduleLoops, ReversionLoops

(* In every loop a position is held by itself: no order is pending beside  *)
(* it, no shock waits for a confirmation, and it has the fields its entry  *)
(* gave it.                                                                *)
THEOREM LoopInvariant == Spec => []LoopKept
<1>1. LoopKept /\ [Next]_vars => LoopKept'
  BY StepsKept
<1> QED BY InitKept, <1>1, PTL DEF Spec

(* No step of a loop replaces or forgets an open position: it stays as it  *)
(* is but for its stop, or it is the next trade (family_clock_range_       *)
(* breakout.go, family_scheduled_trade.go and the other loops' bodies).    *)
THEOREM PositionAlwaysKept == Spec => PositionKept
<1>1. LoopKept /\ [Next]_vars =>
        (Held => \/ pos'.side # 0 /\ pos' = [pos EXCEPT !.stop = pos'.stop]
                 \/ /\ Len(trades') = Len(trades) + 1
                    /\ LET t == trades'[Len(trades')]
                       IN  <<t.side, t.entry, t.entered>> = <<pos.side, pos.entry, pos.entered>>)
  BY StepsKept DEF Keeps
<1> QED BY InitKept, StepsKept, <1>1, PTL DEF Spec, PositionKept

-------------------------------------------------------------------------------
(* The rows and the positions.  The rows of the gold flag are of a bar,    *)
(* those of the other kinds of a day.                                      *)
IdOf(kind, r) == IF kind = "gold" THEN r.at ELSE r.day
KeyOf(kind, p) == IdOf(kind, p.tag)
IsRow(kind, r) ==
  \E id \in Int : \E o, x :
    IF kind = "gold" THEN r = [at |-> id, outcome |-> o]
    ELSE r = [day |-> id, outcome |-> o] \/ r = [day |-> id, daily |-> x, outcome |-> o]

LEMMA RowId == ASSUME NEW kind, NEW r, IsRow(kind, r) PROVE IdOf(kind, r) \in Int
BY DEF IsRow, IdOf

LEMMA RowSet ==
  ASSUME NEW kind, NEW r, IsRow(kind, r), NEW o
  PROVE  /\ IsRow(kind, [r EXCEPT !.outcome = o])
         /\ IdOf(kind, [r EXCEPT !.outcome = o]) = IdOf(kind, r)
         /\ [r EXCEPT !.outcome = o].outcome = o
<1>1. PICK id \in Int : \E q, x :
        IF kind = "gold" THEN r = [at |-> id, outcome |-> q]
        ELSE r = [day |-> id, outcome |-> q] \/ r = [day |-> id, daily |-> x, outcome |-> q]
  BY DEF IsRow
<1>2. PICK q, x :
        IF kind = "gold" THEN r = [at |-> id, outcome |-> q]
        ELSE r = [day |-> id, outcome |-> q] \/ r = [day |-> id, daily |-> x, outcome |-> q]
  BY <1>1
<1> DEFINE s == [r EXCEPT !.outcome = o]
<1>3. CASE kind = "gold"
  <2>1. s = [at |-> id, outcome |-> o]
    BY <1>2, <1>3
  <2> QED BY <1>2, <1>3, <2>1 DEF IsRow, IdOf
<1>4. CASE kind # "gold" /\ r = [day |-> id, outcome |-> q]
  <2>1. s = [day |-> id, outcome |-> o]
    BY <1>4
  <2> QED BY <1>4, <2>1 DEF IsRow, IdOf
<1>5. CASE kind # "gold" /\ r = [day |-> id, daily |-> x, outcome |-> q]
  <2>1. s = [day |-> id, daily |-> x, outcome |-> o]
    BY <1>5
  <2> QED BY <1>5, <2>1 DEF IsRow, IdOf
<1> QED BY <1>2, <1>3, <1>4, <1>5

TradedRows(a) == {n \in DOMAIN a : a[n].outcome \in TradedOutcomes}
TradedIds(kind, a) == {IdOf(kind, a[n]) : n \in TradedRows(a)}
TradeKeys(kind, t) == {KeyOf(kind, t[n]) : n \in DOMAIN t}
OpenKeys(kind, p) == IF p.side # 0 THEN {KeyOf(kind, p)} ELSE {}

(* Rows in the order of their ids; the ids of the traded rows are those of *)
(* the positions, each once.                                               *)
Listing(s) == \E S : s \in Seq(S)
RowsRise(kind, a) ==
  /\ Listing(a)
  /\ \A n \in DOMAIN a : IsRow(kind, a[n])
  /\ \A m, n \in DOMAIN a : m < n => IdOf(kind, a[m]) < IdOf(kind, a[n])
Book(kind, a, t, p) ==
  /\ RowsRise(kind, a)
  /\ Listing(t)
  /\ TradedIds(kind, a) = TradeKeys(kind, t) \cup OpenKeys(kind, p)
  /\ \A m, n \in DOMAIN t : KeyOf(kind, t[m]) = KeyOf(kind, t[n]) => m = n
  /\ OpenKeys(kind, p) \cap TradeKeys(kind, t) = {}

LEMMA AppendIs ==
  ASSUME NEW s, Listing(s), NEW x
  PROVE  /\ Listing(Append(s, x)) /\ Len(s) \in Nat /\ Len(Append(s, x)) = Len(s) + 1
         /\ DOMAIN s = 1 .. Len(s)
         /\ DOMAIN Append(s, x) = 1 .. Len(s) + 1
         /\ \A n \in 1 .. Len(s) : Append(s, x)[n] = s[n]
         /\ Append(s, x)[Len(s) + 1] = x
<1>1. PICK S : s \in Seq(S)
  BY DEF Listing
<1>2. s \in Seq(S \cup {x}) /\ x \in S \cup {x}
  BY <1>1
<1>3. Append(s, x) \in Seq(S \cup {x})
  BY <1>2, AppendProperties
<1> QED BY <1>2, <1>3, AppendProperties DEF Listing

(* A row with an id beyond all others, and a row of another outcome.       *)
RowComes(kind, a, r, b) ==
  /\ RowsRise(kind, b)
  /\ TradedIds(kind, b) = TradedIds(kind, a) \cup (IF r.outcome \in TradedOutcomes THEN {IdOf(kind, r)} ELSE {})
  /\ IdOf(kind, r) \notin TradedIds(kind, a)
RowTurns(kind, a, k, o, b) ==
  /\ RowsRise(kind, b) /\ DOMAIN b = DOMAIN a /\ Len(b) = Len(a)
  /\ \A n \in DOMAIN a : IdOf(kind, b[n]) = IdOf(kind, a[n])
  /\ b[k].outcome = o /\ \A n \in DOMAIN a \ {k} : b[n] = a[n]
  /\ (o \in TradedOutcomes <=> a[k].outcome \in TradedOutcomes) => TradedIds(kind, b) = TradedIds(kind, a)
  /\ (o \in TradedOutcomes /\ a[k].outcome \notin TradedOutcomes) =>
        /\ TradedIds(kind, b) = TradedIds(kind, a) \cup {IdOf(kind, a[k])}
        /\ IdOf(kind, a[k]) \notin TradedIds(kind, a)

LEMMA RowAppended ==
  ASSUME NEW kind, NEW a, RowsRise(kind, a), NEW r, IsRow(kind, r),
         \A n \in DOMAIN a : IdOf(kind, a[n]) < IdOf(kind, r)
  PROVE  RowComes(kind, a, r, Append(a, r))
<1> DEFINE b == Append(a, r)
           k == Len(a) + 1
<1>1. /\ Listing(b) /\ Len(a) \in Nat /\ DOMAIN a = 1 .. Len(a) /\ DOMAIN b = 1 .. k
      /\ \A n \in 1 .. Len(a) : b[n] = a[n]
      /\ b[k] = r
  BY AppendIs DEF RowsRise
<1> HIDE DEF b
<1>2. \A n \in DOMAIN a : IsRow(kind, a[n]) /\ IdOf(kind, a[n]) \in Int
  BY RowId DEF RowsRise
<1>3. \A n \in DOMAIN b : IsRow(kind, b[n])
  BY <1>1, <1>2
<1>4. ASSUME NEW m \in DOMAIN b, NEW n \in DOMAIN b, m < n
      PROVE  IdOf(kind, b[m]) < IdOf(kind, b[n])
  <2>1. m \in DOMAIN a /\ b[m] = a[m]
    BY <1>1, <1>4
  <2>2. CASE n = k
    BY <1>1, <2>1, <2>2
  <2>3. CASE n # k
    BY <1>1, <1>4, <2>1, <2>3 DEF RowsRise
  <2> QED BY <2>2, <2>3
<1>5. RowsRise(kind, b)
  BY <1>1, <1>3, <1>4 DEF RowsRise
<1>6. TradedRows(b) = TradedRows(a) \cup (IF r.outcome \in TradedOutcomes THEN {k} ELSE {})
  BY <1>1 DEF TradedRows
<1>7. TradedRows(a) \subseteq 1 .. Len(a)
  BY <1>1 DEF TradedRows
<1>8. TradedIds(kind, b) = TradedIds(kind, a) \cup (IF r.outcome \in TradedOutcomes THEN {IdOf(kind, r)} ELSE {})
  BY <1>1, <1>6, <1>7 DEF TradedIds
<1>9. IdOf(kind, r) \notin TradedIds(kind, a)
  <2>1. \A n \in DOMAIN a : IdOf(kind, a[n]) # IdOf(kind, r)
    BY <1>2, RowId
  <2> QED BY <1>1, <1>7, <2>1 DEF TradedIds
<1> QED BY <1>5, <1>8, <1>9 DEF b, RowComes

LEMMA RowChanged ==
  ASSUME NEW kind, NEW a, RowsRise(kind, a), NEW k \in DOMAIN a, NEW o, NEW b,
         b = [a EXCEPT ![k].outcome = o]
  PROVE  RowTurns(kind, a, k, o, b)
<1> DEFINE r == [a[k] EXCEPT !.outcome = o]
<1>1. b = [a EXCEPT ![k] = r]
  OBVIOUS
<1>2. PICK S : a \in Seq(S)
  BY DEF RowsRise, Listing
<1>3. IsRow(kind, a[k])
  BY DEF RowsRise
<1>4. IsRow(kind, r) /\ IdOf(kind, r) = IdOf(kind, a[k]) /\ r.outcome = o
  BY <1>3, RowSet
<1> HIDE DEF r
<1>5. b \in Seq(S \cup {r}) /\ Len(b) = Len(a) /\ DOMAIN b = DOMAIN a
  <2>1. a \in Seq(S \cup {r}) /\ k \in 1 .. Len(a) /\ r \in S \cup {r}
    BY <1>2
  <2> QED BY <1>1, <2>1
<1>6. b[k] = r /\ \A n \in DOMAIN a \ {k} : b[n] = a[n]
  BY <1>1, <1>2
<1>7. \A n \in DOMAIN a : IsRow(kind, b[n]) /\ IdOf(kind, b[n]) = IdOf(kind, a[n])
  BY <1>3, <1>4, <1>6 DEF RowsRise
<1>8. RowsRise(kind, b)
  BY <1>5, <1>7 DEF RowsRise, Listing
<1>9. ASSUME o \in TradedOutcomes <=> a[k].outcome \in TradedOutcomes
      PROVE  TradedIds(kind, b) = TradedIds(kind, a)
  <2>1. TradedRows(b) = TradedRows(a)
    BY <1>4, <1>5, <1>6, <1>9 DEF TradedRows
  <2>2. TradedRows(a) \subseteq DOMAIN a
    BY DEF TradedRows
  <2> QED BY <1>7, <2>1, <2>2 DEF TradedIds
<1>10. ASSUME o \in TradedOutcomes, a[k].outcome \notin TradedOutcomes
       PROVE  /\ TradedIds(kind, b) = TradedIds(kind, a) \cup {IdOf(kind, a[k])}
              /\ IdOf(kind, a[k]) \notin TradedIds(kind, a)
  <2>1. TradedRows(b) = TradedRows(a) \cup {k} /\ k \notin TradedRows(a)
    BY <1>4, <1>5, <1>6, <1>10 DEF TradedRows
  <2>2. TradedRows(a) \subseteq DOMAIN a
    BY DEF TradedRows
  <2>3. TradedIds(kind, b) = TradedIds(kind, a) \cup {IdOf(kind, a[k])}
    <3>1. TradedIds(kind, b) = {IdOf(kind, b[n]) : n \in TradedRows(a) \cup {k}}
      BY <2>1 DEF TradedIds
    <3>2. \A n \in TradedRows(a) \cup {k} : IdOf(kind, b[n]) = IdOf(kind, a[n])
      BY <1>7, <2>2
    <3>3. TradedIds(kind, b) = {IdOf(kind, a[n]) : n \in TradedRows(a) \cup {k}}
      BY <3>1, <3>2
    <3> QED BY <3>3 DEF TradedIds
  <2>4. ASSUME NEW n \in DOMAIN a, n # k PROVE IdOf(kind, a[n]) # IdOf(kind, a[k])
    <3>1. n \in Nat /\ k \in Nat
      BY <1>2
    <3>2. n < k \/ k < n
      BY <3>1, <2>4
    <3>3. IdOf(kind, a[n]) \in Int /\ IdOf(kind, a[k]) \in Int
      BY RowId DEF RowsRise
    <3> QED BY <3>2, <3>3 DEF RowsRise
  <2> QED BY <2>1, <2>2, <2>3, <2>4 DEF TradedIds
<1> QED BY <1>4, <1>5, <1>6, <1>7, <1>8, <1>9, <1>10 DEF RowTurns

LEMMA TradeKeysAppended ==
  ASSUME NEW kind, NEW t, Listing(t), NEW x
  PROVE  TradeKeys(kind, Append(t, x)) = TradeKeys(kind, t) \cup {KeyOf(kind, x)}
<1> DEFINE u == Append(t, x)
           k == Len(t) + 1
<1>1. /\ Len(t) \in Nat /\ DOMAIN t = 1 .. Len(t) /\ DOMAIN u = 1 .. k
      /\ \A n \in 1 .. Len(t) : u[n] = t[n]
      /\ u[k] = x
  BY AppendIs
<1> HIDE DEF u
<1>2. DOMAIN u = DOMAIN t \cup {k}
  BY <1>1
<1>3. \A n \in DOMAIN t : KeyOf(kind, u[n]) = KeyOf(kind, t[n])
  BY <1>1
<1>4. TradeKeys(kind, u) = {KeyOf(kind, u[n]) : n \in DOMAIN t \cup {k}}
  BY <1>2 DEF TradeKeys
<1> QED BY <1>1, <1>3, <1>4 DEF TradeKeys, u

LEMMA KeysDistinct ==
  ASSUME NEW kind, NEW t, Listing(t), NEW x,
         \A m, n \in DOMAIN t : KeyOf(kind, t[m]) = KeyOf(kind, t[n]) => m = n,
         KeyOf(kind, x) \notin TradeKeys(kind, t)
  PROVE  \A m, n \in DOMAIN Append(t, x) :
           KeyOf(kind, Append(t, x)[m]) = KeyOf(kind, Append(t, x)[n]) => m = n
<1> DEFINE u == Append(t, x)
           k == Len(t) + 1
<1>1. /\ Len(t) \in Nat /\ DOMAIN t = 1 .. Len(t) /\ DOMAIN u = 1 .. k
      /\ \A n \in 1 .. Len(t) : u[n] = t[n]
      /\ u[k] = x
  BY AppendIs
<1> HIDE DEF u
<1> SUFFICES ASSUME NEW m \in DOMAIN u, NEW n \in DOMAIN u, KeyOf(kind, u[m]) = KeyOf(kind, u[n]) PROVE m = n
  BY DEF u
<1>2. \A j \in DOMAIN t : KeyOf(kind, t[j]) # KeyOf(kind, x)
  BY DEF TradeKeys
<1>3. \A j \in DOMAIN u : j = k \/ j \in DOMAIN t
  BY <1>1
<1>4. \A j \in DOMAIN t : u[j] = t[j]
  BY <1>1
<1> QED BY <1>1, <1>2, <1>3, <1>4

-------------------------------------------------------------------------------
(* What a step does to the book: other rows, a position with its row, as   *)
(* an open one or at once as a trade, a position that leaves.              *)
LEMMA BookRows ==
  ASSUME NEW kind, NEW a, NEW t, NEW p, Book(kind, a, t, p), NEW b, RowsRise(kind, b),
         TradedIds(kind, b) = TradedIds(kind, a)
  PROVE  Book(kind, b, t, p)
BY DEF Book

LEMMA BookPosition ==
  ASSUME NEW kind, NEW a, NEW t, NEW p, Book(kind, a, t, p), NEW b, RowsRise(kind, b),
         NEW id, TradedIds(kind, b) = TradedIds(kind, a) \cup {id}, id \notin TradedIds(kind, a),
         p.side = 0, NEW q, q.side # 0, KeyOf(kind, q) = id
  PROVE  Book(kind, b, t, q)
<1>1. OpenKeys(kind, p) = {} /\ OpenKeys(kind, q) = {id}
  BY DEF OpenKeys
<1> QED BY <1>1 DEF Book

LEMMA BookTrade ==
  ASSUME NEW kind, NEW a, NEW t, NEW p, Book(kind, a, t, p), NEW b, RowsRise(kind, b),
         NEW id, TradedIds(kind, b) = TradedIds(kind, a) \cup {id}, id \notin TradedIds(kind, a),
         NEW x, KeyOf(kind, x) = id
  PROVE  Book(kind, b, Append(t, x), p)
<1>1. Listing(Append(t, x))
  BY AppendIs DEF Book
<1>2. TradeKeys(kind, Append(t, x)) = TradeKeys(kind, t) \cup {id}
  BY TradeKeysAppended DEF Book
<1>3. id \notin TradeKeys(kind, t) /\ id \notin OpenKeys(kind, p)
  BY DEF Book
<1>4. \A m, n \in DOMAIN Append(t, x) :
        KeyOf(kind, Append(t, x)[m]) = KeyOf(kind, Append(t, x)[n]) => m = n
  BY <1>3, KeysDistinct DEF Book
<1> QED BY <1>1, <1>2, <1>3, <1>4 DEF Book

LEMMA BookLeft ==
  ASSUME NEW kind, NEW a, NEW t, NEW p, Book(kind, a, t, p), p.side # 0,
         NEW x, KeyOf(kind, x) = KeyOf(kind, p), NEW q, q.side = 0
  PROVE  Book(kind, a, Append(t, x), q)
<1>1. Listing(Append(t, x))
  BY AppendIs DEF Book
<1>2. TradeKeys(kind, Append(t, x)) = TradeKeys(kind, t) \cup {KeyOf(kind, p)}
  BY TradeKeysAppended DEF Book
<1>3. OpenKeys(kind, p) = {KeyOf(kind, p)} /\ OpenKeys(kind, q) = {}
  BY DEF OpenKeys
<1>4. KeyOf(kind, x) \notin TradeKeys(kind, t)
  BY <1>3 DEF Book
<1>5. \A m, n \in DOMAIN Append(t, x) :
        KeyOf(kind, Append(t, x)[m]) = KeyOf(kind, Append(t, x)[n]) => m = n
  BY <1>4, KeysDistinct DEF Book
<1> QED BY <1>1, <1>2, <1>3, <1>5 DEF Book

(* The book is what RowsAccountForPositions says.                          *)
LEMMA BookAccounts ==
  ASSUME Book(loop.kind, audits, trades, pos)
  PROVE  /\ \A m, n \in DOMAIN audits : m < n => Id(audits[m]) < Id(audits[n])
         /\ \A n \in DOMAIN audits :
              Cardinality(PositionsOf(audits[n])) = IF audits[n].outcome \in TradedOutcomes THEN 1 ELSE 0
<1> DEFINE kind == loop.kind
<1>1. \A r : Id(r) = IdOf(kind, r)
  BY DEF Id, IdOf
<1>2. \A r : PositionsOf(r) = {n \in DOMAIN trades : KeyOf(kind, trades[n]) = IdOf(kind, r)}
                                \cup (IF Held /\ KeyOf(kind, pos) = IdOf(kind, r) THEN {0} ELSE {})
  BY <1>1 DEF PositionsOf, KeyOf, IdOf
<1> HIDE DEF kind
<1>3. Book(kind, audits, trades, pos)
  BY DEF kind
<1>4. \A m, n \in DOMAIN audits : m < n => Id(audits[m]) < Id(audits[n])
  BY <1>1, <1>3 DEF Book, RowsRise
<1>5. ASSUME NEW n \in DOMAIN audits
      PROVE  Cardinality(PositionsOf(audits[n])) = IF audits[n].outcome \in TradedOutcomes THEN 1 ELSE 0
  <2> DEFINE id == IdOf(kind, audits[n])
             closed == {m \in DOMAIN trades : KeyOf(kind, trades[m]) = id}
             open == IF Held /\ KeyOf(kind, pos) = id THEN {0} ELSE {}
  <2>1. PositionsOf(audits[n]) = closed \cup open
    BY <1>2
  <2>2. DOMAIN trades \subseteq Nat \ {0}
    <3>1. PICK S : trades \in Seq(S)
      BY <1>3 DEF Book, Listing
    <3> QED BY <3>1
  <2>3. id \in TradedIds(kind, audits) <=> audits[n].outcome \in TradedOutcomes
    <3>1. audits[n].outcome \in TradedOutcomes => id \in TradedIds(kind, audits)
      BY DEF TradedIds, TradedRows
    <3>2. ASSUME id \in TradedIds(kind, audits) PROVE audits[n].outcome \in TradedOutcomes
      <4>1. PICK m \in DOMAIN audits : IdOf(kind, audits[m]) = id /\ audits[m].outcome \in TradedOutcomes
        BY <3>2 DEF TradedIds, TradedRows
      <4>2. m \in Nat /\ n \in Nat
        <5>1. PICK S : audits \in Seq(S)
          BY <1>3 DEF Book, RowsRise, Listing
        <5> QED BY <5>1
      <4>3. id \in Int
        BY <1>3, RowId DEF Book, RowsRise
      <4>4. ~(m < n) /\ ~(n < m)
        <5>1. m < n => IdOf(kind, audits[m]) < id
          BY <1>3 DEF Book, RowsRise
        <5>2. n < m => id < IdOf(kind, audits[m])
          BY <1>3 DEF Book, RowsRise
        <5> QED BY <4>1, <4>3, <5>1, <5>2
      <4> QED BY <4>1, <4>2, <4>4
    <3> QED BY <3>1, <3>2
  <2>4. id \in TradedIds(kind, audits) <=> closed # {} \/ open # {}
    <3>1. closed # {} <=> id \in TradeKeys(kind, trades)
      BY DEF TradeKeys
    <3>2. open # {} <=> id \in OpenKeys(kind, pos)
      BY DEF OpenKeys, Held
    <3> HIDE DEF closed, open, id
    <3> QED BY <1>3, <3>1, <3>2 DEF Book
  <2>5. \A x, y \in closed \cup open : x = y
    <3>1. \A x, y \in closed : x = y
      BY <1>3 DEF Book
    <3>2. closed = {} \/ open = {}
      <4>1. SUFFICES ASSUME closed # {}, open # {} PROVE FALSE
        OBVIOUS
      <4>2. id \in TradeKeys(kind, trades) /\ id \in OpenKeys(kind, pos)
        BY <4>1 DEF TradeKeys, OpenKeys, Held
      <4> QED BY <1>3, <4>2 DEF Book
    <3>3. \A x, y \in open : x = y
      OBVIOUS
    <3> HIDE DEF closed, open
    <3> QED BY <3>1, <3>2, <3>3
  <2> HIDE DEF closed, open, id
  <2>6. CASE closed \cup open = {}
    BY <2>1, <2>3, <2>4, <2>6, FS_EmptySet
  <2>7. CASE closed \cup open # {}
    <3>1. PICK x : x \in closed \cup open
      BY <2>7
    <3>2. closed \cup open = {x}
      BY <2>5, <3>1
    <3>3. Cardinality(closed \cup open) = 1
      BY <3>2, FS_Singleton
    <3> QED BY <2>1, <2>3, <2>4, <2>7, <3>3
  <2> QED BY <2>6, <2>7
<1> QED BY <1>4, <1>5

LEMMA BookFlat ==
  ASSUME NEW kind, NEW a, NEW t, NEW p, Book(kind, a, t, p), p.side = 0, NEW q, q.side = 0
  PROVE  Book(kind, a, t, q)
BY DEF Book, OpenKeys

(* The row of an open position, and of no other, is a traded one.          *)
LEMMA OpenRowTraded ==
  ASSUME NEW kind, NEW a, NEW t, NEW p, Book(kind, a, t, p), p.side # 0,
         NEW k \in DOMAIN a, IdOf(kind, a[k]) = KeyOf(kind, p)
  PROVE  a[k].outcome \in TradedOutcomes
<1>1. IdOf(kind, a[k]) \in TradedIds(kind, a)
  BY DEF Book, OpenKeys
<1>2. PICK m \in DOMAIN a : IdOf(kind, a[m]) = IdOf(kind, a[k]) /\ a[m].outcome \in TradedOutcomes
  BY <1>1 DEF TradedIds, TradedRows
<1>3. m \in Nat /\ k \in Nat
  <2>1. PICK S : a \in Seq(S)
    BY DEF Book, RowsRise, Listing
  <2> QED BY <2>1
<1>4. IdOf(kind, a[k]) \in Int
  BY RowId DEF Book, RowsRise
<1>5. ~(m < k) /\ ~(k < m)
  <2>1. m < k => IdOf(kind, a[m]) < IdOf(kind, a[k])
    BY DEF Book, RowsRise
  <2>2. k < m => IdOf(kind, a[k]) < IdOf(kind, a[m])
    BY DEF Book, RowsRise
  <2> QED BY <1>2, <1>4, <2>1, <2>2
<1> QED BY <1>2, <1>3, <1>5

(* The last row.                                                           *)
LEMMA LastRow ==
  ASSUME NEW a, Listing(a)
  PROVE  Len(a) \in Nat /\ DOMAIN a = 1 .. Len(a) /\ (a # << >> => Len(a) \in DOMAIN a)
<1>1. PICK S : a \in Seq(S)
  BY DEF Listing
<1> QED BY <1>1, EmptySeq

-------------------------------------------------------------------------------
(* clockRangeBreakout: the rows are of the days before the next range day, *)
(* and the pending orders are those of the last row.                       *)
Pending ==
  Ordered =>
    /\ audits # << >> /\ audits[Len(audits)].day = order.day
    /\ audits[Len(audits)].outcome \notin TradedOutcomes
    /\ order.sides \cup order.cancels \subseteq {1, -1}
ClockRows ==
  /\ loop.kind = "clock"
  /\ Book(loop.kind, audits, trades, pos)
  /\ mark.next \in Int
  /\ \A n \in DOMAIN audits : audits[n].day < mark.next
  /\ Pending

LEMMA FirstDefectIs == ASSUME NEW a, NEW b PROVE FirstDefect(<<a, b>>) \in {a, b, "none"}
<1> DEFINE D == <<a, b>>
           bad == {n \in DOMAIN D : D[n] # "none"}
<1>1. DOMAIN D = {1, 2} /\ D[1] = a /\ D[2] = b
  OBVIOUS
<1>2. CASE bad = {}
  BY <1>2 DEF FirstDefect
<1>3. CASE bad # {}
  <2>1. \E x \in bad : \A y \in bad : x <= y
    <3>1. bad \subseteq {1, 2}
      BY <1>1
    <3>2. CASE 1 \in bad
      BY <3>1, <3>2
    <3>3. CASE 1 \notin bad
      BY <3>1, <3>3, <1>3
    <3> QED BY <3>2, <3>3
  <2>2. Lowest(bad) \in bad
    BY <2>1 DEF Lowest
  <2>3. FirstDefect(D) = D[Lowest(bad)]
    BY <1>3 DEF FirstDefect
  <2> QED BY <1>1, <2>2, <2>3
<1> QED BY <1>2, <1>3

LEMMA DefectsUntraded ==
  /\ \A day, n, R : RangeDefect(day, n, R) \notin TradedOutcomes
  /\ \A R, daily : FirstDefect(<<GateDefect(R, daily), BrokerDefect(R, daily)>>) \notin TradedOutcomes
  /\ \A s, fill : FillDefect(s, fill) \notin TradedOutcomes
<1>1. \A day, n, R : RangeDefect(day, n, R) \notin TradedOutcomes
  BY DEF RangeDefect, TradedOutcomes
<1>2. ASSUME NEW R, NEW daily PROVE FirstDefect(<<GateDefect(R, daily), BrokerDefect(R, daily)>>) \notin TradedOutcomes
  <2>1. GateDefect(R, daily) \notin TradedOutcomes
    BY DEF GateDefect, TradedOutcomes
  <2>2. BrokerDefect(R, daily) \notin TradedOutcomes
    BY DEF BrokerDefect, TradedOutcomes
  <2> QED BY <2>1, <2>2, FirstDefectIs DEF TradedOutcomes
<1>3. \A s, fill : FillDefect(s, fill) \notin TradedOutcomes
  BY DEF FillDefect, TradedOutcomes
<1> QED BY <1>1, <1>2, <1>3

(* The row of the pending orders becomes another one that was not traded.  *)
LEMMA PendingChanged ==
  ASSUME ClockRows, Ordered, NEW o, o \notin TradedOutcomes, NEW b, b = Audited(Len(audits), o)
  PROVE  /\ Book(loop.kind, b, trades, pos) /\ b # << >>
         /\ DOMAIN b = DOMAIN audits /\ \A n \in DOMAIN b : b[n].day = audits[n].day
<1> DEFINE k == Len(audits)
<1>1. RowsRise(loop.kind, audits) /\ k \in DOMAIN audits
  BY LastRow DEF ClockRows, Book, RowsRise, Pending
<1>2. b = [audits EXCEPT ![k].outcome = o]
  BY DEF Audited
<1>3. RowsRise(loop.kind, b) /\ DOMAIN b = DOMAIN audits
      /\ \A n \in DOMAIN audits : IdOf(loop.kind, b[n]) = IdOf(loop.kind, audits[n])
  <2>1. RowTurns(loop.kind, audits, k, o, b)
    BY <1>1, <1>2, RowChanged
  <2> QED BY <2>1 DEF RowTurns
<1>4. TradedIds(loop.kind, b) = TradedIds(loop.kind, audits)
  <2>1. RowTurns(loop.kind, audits, k, o, b)
    BY <1>1, <1>2, RowChanged
  <2> QED BY <2>1 DEF RowTurns, ClockRows, Pending
<1>5. b # << >>
  BY <1>1, <1>3
<1> QED BY <1>3, <1>4, <1>5, BookRows DEF ClockRows, IdOf

LEMMA ExpiredKept ==
  ASSUME ClockRows
  PROVE  /\ Book(loop.kind, ExpiredAudits, trades, pos)
         /\ DOMAIN ExpiredAudits = DOMAIN audits
         /\ \A n \in DOMAIN ExpiredAudits : ExpiredAudits[n].day = audits[n].day
<1>1. CASE Ordered
  <2>1. ExpiredAudits = Audited(Len(audits), "expired")
    BY <1>1 DEF ExpiredAudits
  <2>2. "expired" \notin TradedOutcomes
    BY DEF TradedOutcomes
  <2> QED BY <1>1, <2>1, <2>2, PendingChanged
<1>2. CASE ~Ordered
  BY <1>2 DEF ExpiredAudits, ClockRows
<1> QED BY <1>1, <1>2

LEMMA DayRecorded ==
  ASSUME ClockRows, NEW daily, NEW outcome, outcome \notin TradedOutcomes, RecordDay(mark.next, daily, outcome)
  PROVE  /\ Book(loop.kind, audits', trades', pos') /\ mark'.next \in Int
         /\ \A n \in DOMAIN audits' : audits'[n].day < mark'.next
         /\ audits' # << >> /\ audits'[Len(audits')].day = mark.next
         /\ audits'[Len(audits')].outcome = outcome
<1>0. loop.kind # "gold"
  BY DEF ClockRows
<1> DEFINE e == ExpiredAudits
           r == [day |-> mark.next, daily |-> daily, outcome |-> outcome]
<1>1. Book(loop.kind, e, trades, pos) /\ \A n \in DOMAIN e : e[n].day < mark.next
  <2>1. \A n \in DOMAIN e : e[n].day < mark.next
    BY ExpiredKept DEF ClockRows
  <2> QED BY <2>1, ExpiredKept
<1>2. audits' = Append(e, r) /\ mark' = [next |-> mark.next + 1] /\ pos' = pos /\ trades' = trades
  BY DEF RecordDay
<1>3. mark.next \in Int /\ IsRow(loop.kind, r) /\ IdOf(loop.kind, r) = mark.next /\ r.outcome = outcome
  BY <1>0 DEF ClockRows, IsRow, IdOf
<1> HIDE DEF e
<1>4. RowsRise(loop.kind, e) /\ \A n \in DOMAIN e : IdOf(loop.kind, e[n]) < IdOf(loop.kind, r)
  BY <1>0, <1>1, <1>3 DEF Book, IdOf
<1> HIDE DEF r
<1>5. RowsRise(loop.kind, Append(e, r)) /\ TradedIds(loop.kind, Append(e, r)) = TradedIds(loop.kind, e)
  <2>1. RowComes(loop.kind, e, r, Append(e, r))
    BY <1>3, <1>4, RowAppended
  <2> QED BY <1>3, <2>1 DEF RowComes
<1>6. Book(loop.kind, audits', trades', pos')
  BY <1>1, <1>2, <1>5, BookRows
<1>7. /\ Len(e) \in Nat /\ Len(audits') = Len(e) + 1 /\ DOMAIN audits' = 1 .. Len(e) + 1 /\ DOMAIN e = 1 .. Len(e)
      /\ \A n \in 1 .. Len(e) : audits'[n] = e[n]
      /\ audits'[Len(e) + 1] = r
  <2>1. Listing(e) /\ Listing(audits')
    BY <1>4, <1>6 DEF RowsRise, Book
  <2>3. /\ Len(e) \in Nat /\ Len(audits') = Len(e) + 1 /\ DOMAIN audits' = 1 .. Len(e) + 1 /\ DOMAIN e = 1 .. Len(e)
        /\ \A n \in 1 .. Len(e) : audits'[n] = e[n]
        /\ audits'[Len(e) + 1] = r
    BY <1>2, <2>1, AppendIs
  <2> QED BY <2>3
<1>8. ASSUME NEW n \in DOMAIN audits' PROVE audits'[n].day < mark'.next
  <2>1. CASE n \in DOMAIN e
    <3>1. audits'[n] = e[n] /\ e[n].day < mark.next
      BY <1>1, <1>7, <2>1
    <3>2. e[n].day \in Int
      BY <1>0, <1>4, <2>1, RowId DEF RowsRise, IdOf
    <3> QED BY <1>2, <1>3, <3>1, <3>2
  <2>2. CASE n = Len(e) + 1
    <3>1. audits'[n].day = mark.next
      BY <1>7, <2>2 DEF r
    <3> QED BY <1>2, <1>3, <3>1
  <2> QED BY <1>7, <2>1, <2>2
<1>9. audits' # << >>
  BY <1>7
<1> QED BY <1>2, <1>3, <1>6, <1>7, <1>8, <1>9 DEF r

LEMMA BookCloses ==
  ASSUME NEW a, Book(loop.kind, a, trades, pos), Held, NEW price, NEW reason, CloseAt(price, reason)
  PROVE  Book(loop.kind, a, trades', pos')
<1>1. trades' = Append(trades, Trade(pos, price, reason)) /\ pos' = Flat
  BY DEF CloseAt
<1>2. KeyOf(loop.kind, Trade(pos, price, reason)) = KeyOf(loop.kind, pos) /\ Flat.side = 0
  BY DEF KeyOf, Trade, Flat
<1> QED BY <1>1, <1>2, BookLeft DEF Held

LEMMA PlaceOrdersRows ==
  ASSUME ClockRows, loop' = loop, loop \in LoopRuns, NEW n, PlaceOrders(mark.next, n)
  PROVE  ClockRows'
<1> DEFINE day == mark.next
<1>1. PICK R \in {RangeBars(day, n)}, defect \in {RangeDefect(day, n, RangeBars(day, n))} :
        IF defect # "none" THEN RecordDay(day, NotRead, defect) /\ order' = NoOrder
        ELSE PlaceRange(day, R, DailyInputs(n, day))
  BY Zenon DEF PlaceOrders
<1>2. defect \notin TradedOutcomes
  BY <1>1, DefectsUntraded
<1>3. ASSUME NEW daily, NEW outcome, outcome \notin TradedOutcomes, RecordDay(day, daily, outcome), Pending'
      PROVE  ClockRows'
  BY <1>3, DayRecorded DEF ClockRows
<1>4. CASE RecordDay(day, NotRead, defect) /\ order' = NoOrder
  <2>1. Pending'
    BY <1>4 DEF Pending, Ordered, NoOrder
  <2> QED BY <1>2, <1>3, <1>4, <2>1
<1>5. CASE PlaceRange(day, R, DailyInputs(n, day))
  <2> DEFINE daily == DailyInputs(n, day)
             first == FirstDefect(<<GateDefect(R, daily), BrokerDefect(R, daily)>>)
             outcome == IF first = "none" THEN "pending" ELSE first
  <2>1. RecordDay(day, daily, outcome) /\ order' = IF first = "none" THEN PendingOrders(day, R, daily) ELSE NoOrder
    BY <1>5 DEF PlaceRange, PlaceDay
  <2> HIDE DEF daily
  <2>2. first \notin TradedOutcomes
    BY DefectsUntraded
  <2> HIDE DEF first
  <2>3. outcome \notin TradedOutcomes
    BY <2>2 DEF TradedOutcomes
  <2>4. /\ audits' # << >> /\ audits'[Len(audits')].day = day
        /\ audits'[Len(audits')].outcome = outcome
    BY <2>1, <2>3, DayRecorded
  <2> HIDE DEF outcome
  <2>5. Pending'
    <3>1. CASE order' = NoOrder
      BY <3>1 DEF Pending, Ordered, NoOrder
    <3>2. CASE order' = PendingOrders(day, R, daily)
      <4>1. loop.allow \subseteq {1, -1}
        BY LoopsAssumption DEF ClockRows
      <4>2. OrderSides(daily) \subseteq {1, -1}
        BY <4>1 DEF OrderSides
      <4>3. order'.day = day /\ order'.sides \cup order'.cancels \subseteq {1, -1}
        BY <3>2, <4>2 DEF PendingOrders
      <4> QED BY <2>3, <2>4, <4>3 DEF Pending
    <3> QED BY <2>1, <3>1, <3>2
  <2> QED BY <1>3, <2>1, <2>3, <2>5
<1> QED BY <1>1, <1>4, <1>5

LEMMA NearestSideIs ==
  ASSUME ClockRows, Ordered, Touched # {}
  PROVE  NearestSide \in {1, -1}
<1>1. Touched \subseteq {1, -1}
  BY DEF Touched, ClockRows, Pending
<1>2. (CHOOSE s \in Touched : TRUE) \in Touched
  OBVIOUS
<1> QED BY <1>1, <1>2 DEF NearestSide

LEMMA FillOrderRows ==
  ASSUME ClockRows, Ordered, ~Held, NEW s \in {1, -1}, NEW fill, FillOrder(s, fill), mark' = mark
  PROVE  /\ Book(loop.kind, audits', trades', pos')
         /\ \A n \in DOMAIN audits' : audits'[n].day < mark'.next
<1>k. loop.kind # "gold"
  BY DEF ClockRows
<1>1. CASE FillDefect(s, fill) # "none"
  <2>1. audits' = Audited(Len(audits), FillDefect(s, fill)) /\ pos' = pos /\ trades' = trades
    BY <1>1 DEF FillOrder
  <2>2. FillDefect(s, fill) \notin TradedOutcomes
    BY DefectsUntraded
  <2> HIDE DEF FillDefect
  <2>3. Book(loop.kind, audits', trades, pos) /\ DOMAIN audits' = DOMAIN audits
        /\ \A n \in DOMAIN audits' : audits'[n].day = audits[n].day
    BY <2>1, <2>2, PendingChanged
  <2> QED BY <2>1, <2>3 DEF ClockRows
<1>2. CASE FillDefect(s, fill) = "none"
  <2> DEFINE k == Len(audits)
             p == ClockPosition(s, fill)
  <2>1. audits' = [audits EXCEPT ![k].outcome = "entered"] /\ Enter(p)
    BY <1>2 DEF FillOrder, Audited
  <2>2. RowsRise(loop.kind, audits) /\ k \in DOMAIN audits /\ audits[k].outcome \notin TradedOutcomes
        /\ IdOf(loop.kind, audits[k]) = order.day
    BY <1>k, LastRow DEF ClockRows, Book, RowsRise, Pending, IdOf
  <2>3. RowTurns(loop.kind, audits, k, "entered", audits')
    BY <2>1, <2>2, RowChanged
  <2>4. /\ RowsRise(loop.kind, audits')
        /\ TradedIds(loop.kind, audits') = TradedIds(loop.kind, audits) \cup {order.day}
        /\ order.day \notin TradedIds(loop.kind, audits)
    BY <2>2, <2>3 DEF RowTurns, TradedOutcomes
  <2>5. \A n \in DOMAIN audits' : audits'[n].day < mark'.next
    BY <1>k, <2>3 DEF RowTurns, ClockRows, IdOf
  <2>6. p.side = s /\ p.tag.day = order.day
    BY DEF ClockPosition, Position
  <2>7. Book(loop.kind, audits, trades, pos) /\ pos.side = 0 /\ Flat.side = 0
    BY DEF ClockRows, Held, Flat
  <2> HIDE DEF p, k
  <2>8. KeyOf(loop.kind, p) = order.day /\ p.side # 0
    BY <1>k, <2>6 DEF KeyOf, IdOf
  <2>9. CASE pos' = p /\ trades' = trades
    <3>1. Book(loop.kind, audits', trades, p)
      BY <2>4, <2>7, <2>8, BookPosition
    <3> QED BY <2>5, <2>9, <3>1
  <2>10. CASE pos' = Flat /\ trades' = Append(trades, Trade(p, p.stop, "stop"))
    <3>1. KeyOf(loop.kind, Trade(p, p.stop, "stop")) = order.day
      BY <2>8 DEF Trade, KeyOf
    <3>2. Book(loop.kind, audits', Append(trades, Trade(p, p.stop, "stop")), pos)
      BY <2>4, <2>7, <3>1, BookTrade
    <3>3. Book(loop.kind, audits', Append(trades, Trade(p, p.stop, "stop")), Flat)
      BY <2>7, <3>2, BookFlat
    <3> QED BY <2>5, <2>10, <3>3
  <2> QED BY <2>1, <2>9, <2>10 DEF Enter
<1> QED BY <1>1, <1>2

LEMMA ClockRowsStep ==
  ASSUME ClockRows, loop \in LoopRuns, ClockBar
  PROVE  ClockRows'
<1>1. CASE ClockMissed
  BY <1>1, PlaceOrdersRows DEF ClockMissed, Phase
<1>2. ASSUME loop' = loop, UNCHANGED <<order, mark, audits>>,
             UNCHANGED <<pos, trades>> \/ (Held /\ \E price, reason : CloseAt(price, reason))
      PROVE  ClockRows'
  <2>1. Book(loop.kind, audits, trades', pos')
    BY <1>2, BookCloses DEF ClockRows
  <2> QED BY <1>2, <2>1 DEF ClockRows, Pending, Ordered
<1>3. ASSUME loop' = loop, Ordered, order' = NoOrder, UNCHANGED <<pos, mark, trades>>,
             NEW o, o \notin TradedOutcomes, audits' = Audited(Len(audits), o)
      PROVE  ClockRows'
  <2>1. Book(loop.kind, audits', trades, pos) /\ DOMAIN audits' = DOMAIN audits
        /\ \A n \in DOMAIN audits' : audits'[n].day = audits[n].day
    BY <1>3, PendingChanged
  <2>2. Pending'
    BY <1>3 DEF Pending, Ordered, NoOrder
  <2> QED BY <1>3, <2>1, <2>2 DEF ClockRows
<1>4. CASE ClockOpen
  <2>1. loop' = loop
    BY <1>4 DEF ClockOpen, Phase
  <2>2. \/ /\ UNCHANGED <<order, mark, audits>>
           /\ UNCHANGED <<pos, trades>> \/ (Held /\ \E price, reason : CloseAt(price, reason))
        \/ Ordered /\ audits' = ExpiredAudits /\ order' = NoOrder /\ UNCHANGED <<pos, mark, trades>>
    BY <1>4 DEF ClockOpen, AtOpen
  <2>3. Ordered => ExpiredAudits = Audited(Len(audits), "expired")
    BY DEF ExpiredAudits
  <2>4. "expired" \notin TradedOutcomes
    BY DEF TradedOutcomes
  <2> QED BY <1>2, <1>3, <2>1, <2>2, <2>3, <2>4
<1>5. CASE ClockHeld
  <2>1. loop' = loop /\ UNCHANGED <<order, mark, audits>>
    BY <1>5 DEF ClockHeld, Phase
  <2>2. UNCHANGED <<pos, trades>> \/ (Held /\ \E price, reason : CloseAt(price, reason))
    BY <1>5 DEF ClockHeld
  <2> QED BY <1>2, <2>1, <2>2
<1>6. CASE ClockUntouched \/ ClockClosed
  BY <1>2, <1>6 DEF ClockUntouched, ClockClosed, Phase
<1>7. CASE ClockTouched
  <2>1. loop' = loop /\ ~Held /\ Ordered /\ Touched # {} /\ order' = NoOrder /\ mark' = mark
    BY <1>7 DEF ClockTouched, Phase
  <2>2. NearestSide \in {1, -1}
    BY <2>1, NearestSideIs
  <2>3. \/ audits' = Audited(Len(audits), "opposite-triggered-first") /\ UNCHANGED <<pos, trades>>
        \/ FillOrder(NearestSide, FillPrice(NearestSide))
    BY <1>7 DEF ClockTouched
  <2>4. "opposite-triggered-first" \notin TradedOutcomes
    BY DEF TradedOutcomes
  <2>5. CASE FillOrder(NearestSide, FillPrice(NearestSide))
    <3>1. Book(loop.kind, audits', trades', pos') /\ \A n \in DOMAIN audits' : audits'[n].day < mark'.next
      BY <2>1, <2>2, <2>5, FillOrderRows
    <3>2. Pending'
      BY <2>1 DEF Pending, Ordered, NoOrder
    <3> QED BY <2>1, <3>1, <3>2 DEF ClockRows
  <2> QED BY <1>3, <2>1, <2>3, <2>4, <2>5
<1>8. CASE ClockRangeEnds
  BY <1>8, PlaceOrdersRows DEF ClockRangeEnds, Phase
<1> QED BY <1>1, <1>4, <1>5, <1>6, <1>7, <1>8 DEF ClockBar

(* A number lies between the multiples of its quotient and of the next.    *)
LEMMA DivBetween ==
  ASSUME NEW a \in Int, NEW b \in Nat \ {0}
  PROVE  a \div b \in Int /\ (a \div b) * b <= a /\ a < ((a \div b) + 1) * b
<1>1. a \div b \in Int /\ (a % b) \in 0..(b-1)
  OBVIOUS
<1>2. a = b * (a \div b) + (a % b)
  BY <1>1
<1> DEFINE q == a \div b
           r == a % b
<1>3. q \in Int /\ r \in Int /\ 0 <= r /\ r < b /\ a = b * q + r
  BY <1>1, <1>2
<1> HIDE DEF q, r
<1>4. (q + 1) * b = b * q + b /\ q * b = b * q
  BY <1>3
<1>5. b * q \in Int
  BY <1>3
<1>6. q * b <= a /\ a < (q + 1) * b
  BY <1>3, <1>4, <1>5
<1> QED BY <1>3, <1>6 DEF q

(* The first range day of a series is one of the days around its first bar.*)
LEMMA FirstDayIs ==
  ASSUME loop \in LoopRuns, loop.kind = "clock", ValidClockRange(loop)
  PROVE  FirstRangeDay(loop.first) \in Int
<1> DEFINE t == loop.first
           c == ClockDayOf(t)
           days == {d \in c - 1 .. c + 1 : RangeEnd(d) > t}
<1>1. t \in Int /\ loop.offset \in Int /\ loop.dayLength \in Nat \ {0} /\ loop.rangeEnd \in Nat
  BY LoopsAssumption DEF ValidClockRange
<1>2. c \in Int /\ t + loop.offset < (c + 1) * loop.dayLength
  <2>1. t + loop.offset \in Int
    BY <1>1
  <2> QED BY <1>1, <2>1, DivBetween DEF ClockDayOf
<1>3. RangeEnd(c + 1) = (c + 1) * loop.dayLength - loop.offset + loop.rangeEnd
  BY DEF RangeEnd, At
<1>4. (c + 1) * loop.dayLength \in Int
  BY <1>1, <1>2
<1> DEFINE m == (c + 1) * loop.dayLength
<1>5. m - loop.offset + loop.rangeEnd > t
  <2>1. m \in Int /\ t + loop.offset < m
    BY <1>2, <1>4
  <2> HIDE DEF m
  <2> QED BY <1>1, <2>1
<1>6. c + 1 \in days
  BY <1>2, <1>3, <1>5
<1>7. days \subseteq {c - 1, c, c + 1}
  BY <1>2
<1> HIDE DEF days, c
<1>8. \E x \in days : \A y \in days : x <= y
  <2>1. CASE c - 1 \in days
    BY <1>2, <1>7, <2>1
  <2>2. CASE c - 1 \notin days /\ c \in days
    BY <1>2, <1>7, <2>2
  <2>3. CASE c - 1 \notin days /\ c \notin days
    BY <1>2, <1>6, <1>7, <2>3
  <2> QED BY <2>1, <2>2, <2>3
<1>9. Lowest(days) \in days
  BY <1>8 DEF Lowest
<1>10. Lowest(days) \in Int
  <2>1. c \in Int
    BY <1>2
  <2>2. {c - 1, c, c + 1} \subseteq Int
    BY <2>1
  <2> QED BY <1>7, <1>9, <2>2
<1> QED BY <1>10 DEF FirstRangeDay, days, c

-------------------------------------------------------------------------------
(* scheduledTrade: the rows are those of the first settlement days, and an *)
(* open position knows its row.                                            *)
ScheduledRows ==
  /\ loop.kind = "scheduled"
  /\ Book(loop.kind, audits, trades, pos)
  /\ mark = [next |-> Len(audits) + 1]
  /\ \A n \in DOMAIN audits : n \in DOMAIN loop.dates /\ audits[n].day = loop.dates[n]
  /\ Held => pos.tag.row \in DOMAIN audits /\ audits[pos.tag.row].day = pos.tag.day

DateCame(status) ==
  /\ RowsRise(loop.kind, audits')
  /\ TradedIds(loop.kind, audits') = TradedIds(loop.kind, audits)
                                     \cup (IF status \in TradedOutcomes THEN {NextDate} ELSE {})
  /\ NextDate \notin TradedIds(loop.kind, audits)
  /\ mark' = [next |-> Len(audits') + 1]
  /\ \A n \in DOMAIN audits' : n \in DOMAIN loop.dates /\ audits'[n].day = loop.dates[n]
  /\ \A n \in DOMAIN audits : n \in DOMAIN audits' /\ audits'[n] = audits[n]
  /\ Len(audits) + 1 \in DOMAIN audits' /\ audits'[Len(audits) + 1].day = NextDate

LEMMA DateComes ==
  ASSUME ScheduledRows, loop \in LoopRuns, NextDate # None, NEW status, Row(status)
  PROVE  DateCame(status)
<1> DEFINE k == Len(audits) + 1
           r == [day |-> NextDate, outcome |-> status]
<1>1. /\ loop.dates \in Seq(Nat)
      /\ \A m, n \in DOMAIN loop.dates : m < n => loop.dates[m] < loop.dates[n]
      /\ loop.kind = "scheduled"
  BY LoopsAssumption DEF ScheduledRows
<1>2. RowsRise(loop.kind, audits) /\ Listing(audits)
  BY DEF ScheduledRows, Book, RowsRise
<1>3. Len(audits) \in Nat /\ DOMAIN audits = 1 .. Len(audits)
  BY <1>2, LastRow
<1>4. mark.next = k /\ k \in DOMAIN loop.dates /\ NextDate = loop.dates[k]
  BY <1>1, <1>3 DEF ScheduledRows, NextDate
<1>5. NextDate \in Int
  BY <1>1, <1>4
<1>6. IsRow(loop.kind, r) /\ IdOf(loop.kind, r) = NextDate /\ r.outcome = status /\ r.day = NextDate
  BY <1>1, <1>5 DEF IsRow, IdOf
<1>7. audits' = Append(audits, r) /\ mark' = [mark EXCEPT !.next = @ + 1]
  BY DEF Row
<1> HIDE DEF r
<1>8. \A n \in DOMAIN audits : IdOf(loop.kind, audits[n]) < IdOf(loop.kind, r)
  <2> SUFFICES ASSUME NEW n \in DOMAIN audits PROVE IdOf(loop.kind, audits[n]) < IdOf(loop.kind, r)
    OBVIOUS
  <2>1. n \in DOMAIN loop.dates /\ audits[n].day = loop.dates[n] /\ n < k
    BY <1>3 DEF ScheduledRows
  <2> QED BY <1>1, <1>4, <1>6, <2>1 DEF IdOf
<1>9. RowComes(loop.kind, audits, r, audits')
  BY <1>2, <1>6, <1>7, <1>8, RowAppended
<1>10. /\ Len(audits') = k /\ DOMAIN audits' = 1 .. k
       /\ \A n \in 1 .. Len(audits) : audits'[n] = audits[n]
       /\ audits'[k] = r
  BY <1>2, <1>7, AppendIs
<1>11. mark' = [next |-> Len(audits') + 1]
  BY <1>7, <1>10 DEF ScheduledRows
<1>12. ASSUME NEW n \in DOMAIN audits'
       PROVE  n \in DOMAIN loop.dates /\ audits'[n].day = loop.dates[n]
  <2>1. CASE n = k
    BY <1>4, <1>6, <1>10, <2>1
  <2>2. CASE n # k
    BY <1>3, <1>10, <2>2 DEF ScheduledRows
  <2> QED BY <2>1, <2>2
<1>13. \A n \in DOMAIN audits : n \in DOMAIN audits' /\ audits'[n] = audits[n]
  BY <1>3, <1>10
<1>14. k \in DOMAIN audits' /\ audits'[k].day = NextDate
  BY <1>3, <1>6, <1>10
<1>15. /\ RowsRise(loop.kind, audits')
       /\ TradedIds(loop.kind, audits') = TradedIds(loop.kind, audits)
                                          \cup (IF status \in TradedOutcomes THEN {NextDate} ELSE {})
       /\ NextDate \notin TradedIds(loop.kind, audits)
  BY <1>6, <1>9 DEF RowComes
<1> QED BY <1>11, <1>12, <1>13, <1>14, <1>15 DEF DateCame

LEMMA DatePassed ==
  ASSUME ScheduledRows, loop \in LoopRuns, NextDate # None, NEW status, status \notin TradedOutcomes,
         Row(status), loop' = loop, pos' = pos, trades' = trades
  PROVE  ScheduledRows'
<1>1. DateCame(status)
  BY DateComes
<1>2. Book(loop.kind, audits', trades, pos)
  <2>1. RowsRise(loop.kind, audits') /\ TradedIds(loop.kind, audits') = TradedIds(loop.kind, audits)
    BY <1>1 DEF DateCame
  <2> QED BY <2>1, BookRows DEF ScheduledRows
<1> QED BY <1>1, <1>2 DEF ScheduledRows, DateCame, Held

LEMMA SettledRows ==
  ASSUME ScheduledRows, loop' = loop, Held, NEW price, NEW reason, CloseAt(price, reason),
         NEW status, status \in TradedOutcomes, Settled(status)
  PROVE  ScheduledRows'
<1> DEFINE k == pos.tag.row
<1>1. Book(loop.kind, audits, trades, pos) /\ k \in DOMAIN audits /\ audits[k].day = pos.tag.day
      /\ loop.kind = "scheduled" /\ pos.side # 0
  BY DEF ScheduledRows, Held
<1>2. audits' = [audits EXCEPT ![k].outcome = status] /\ order' = order /\ mark' = mark
  BY DEF Settled, Audited
<1>3. RowTurns(loop.kind, audits, k, status, audits')
  <2>1. RowsRise(loop.kind, audits)
    BY <1>1 DEF Book
  <2> QED BY <1>1, <1>2, <2>1, RowChanged
<1>4. audits[k].outcome \in TradedOutcomes
  <2>1. IdOf(loop.kind, audits[k]) = KeyOf(loop.kind, pos)
    BY <1>1 DEF IdOf, KeyOf
  <2> QED BY <1>1, <2>1, OpenRowTraded
<1>5. /\ RowsRise(loop.kind, audits') /\ TradedIds(loop.kind, audits') = TradedIds(loop.kind, audits)
      /\ DOMAIN audits' = DOMAIN audits /\ Len(audits') = Len(audits)
      /\ \A n \in DOMAIN audits : IdOf(loop.kind, audits'[n]) = IdOf(loop.kind, audits[n])
  BY <1>3, <1>4 DEF RowTurns
<1>6. Book(loop.kind, audits', trades, pos)
  BY <1>1, <1>5, BookRows
<1>7. Book(loop.kind, audits', trades', pos')
  BY <1>6, BookCloses
<1>8. ~Held'
  BY DEF CloseAt, Flat, Held
<1>9. \A n \in DOMAIN audits' : audits'[n].day = audits[n].day
  BY <1>1, <1>5 DEF IdOf
<1> QED BY <1>1, <1>2, <1>5, <1>7, <1>8, <1>9 DEF ScheduledRows

LEMMA ScheduledRowsStep ==
  ASSUME ScheduledRows, loop \in LoopRuns, ScheduledLoop
  PROVE  ScheduledRows'
<1>1. "missing-entry-bar" \notin TradedOutcomes /\ "busy-at-entry" \notin TradedOutcomes
      /\ "missing-contiguous-prior" \notin TradedOutcomes /\ "open-terminal" \in TradedOutcomes
      /\ {"stopped", "time-exit"} \subseteq TradedOutcomes
  BY DEF TradedOutcomes
<1>2. ASSUME loop' = loop, Unchanged PROVE ScheduledRows'
  BY <1>2 DEF Unchanged, ScheduledRows, Held
<1>3. CASE ScheduledMissed \/ ScheduledUnseen
  BY <1>1, <1>3, DatePassed DEF ScheduledMissed, ScheduledUnseen, Phase
<1>4. CASE ScheduledEntry
  <2>1. loop' = loop /\ order' = order /\ trades' = trades
    BY <1>4 DEF ScheduledEntry, Phase
  <2>2. CASE UNCHANGED <<pos, mark, audits>>
    BY <1>2, <2>1, <2>2 DEF Unchanged
  <2>3. CASE /\ NextDate # None /\ Row(Admission)
             /\ pos' = IF Admission = "open-terminal"
                       THEN ScheduledPosition(O(i) + loop.side * loop.slip) ELSE pos
    <3>1. CASE Admission # "open-terminal"
      <4>1. Admission \notin TradedOutcomes /\ pos' = pos
        BY <1>1, <2>3, <3>1 DEF Admission
      <4> QED BY <2>1, <2>3, <4>1, DatePassed
    <3>2. CASE Admission = "open-terminal"
      <4>1. ~Held
        BY <3>2 DEF Admission
      <4>2. DateCame("open-terminal")
        BY <2>3, <3>2, DateComes
      <4>3. pos' = ScheduledPosition(O(i) + loop.side * loop.slip)
        BY <2>3, <3>2
      <4>4. loop.kind = "scheduled" /\ loop.side \in {1, -1}
        BY LoopsAssumption DEF ScheduledRows
      <4>5. pos'.side = loop.side /\ pos'.tag = [day |-> NextDate, row |-> Len(audits) + 1]
        BY <4>3 DEF ScheduledPosition, Position
      <4>6. pos'.side # 0 /\ KeyOf(loop.kind, pos') = NextDate
        BY <4>4, <4>5 DEF KeyOf, IdOf
      <4>7. Book(loop.kind, audits', trades, pos')
        <5>1. Book(loop.kind, audits, trades, pos) /\ pos.side = 0
          BY <4>1 DEF ScheduledRows, Held
        <5>2. /\ RowsRise(loop.kind, audits') /\ NextDate \notin TradedIds(loop.kind, audits)
              /\ TradedIds(loop.kind, audits') = TradedIds(loop.kind, audits) \cup {NextDate}
          BY <1>1, <4>2 DEF DateCame
        <5> QED BY <4>6, <5>1, <5>2, BookPosition
      <4>8. pos'.tag.row \in DOMAIN audits' /\ audits'[pos'.tag.row].day = pos'.tag.day
        BY <4>2, <4>5 DEF DateCame
      <4> QED BY <2>1, <4>2, <4>4, <4>7, <4>8 DEF ScheduledRows, DateCame
    <3> QED BY <3>1, <3>2
  <2> QED BY <1>4, <2>2, <2>3 DEF ScheduledEntry
<1>5. CASE ScheduledExit
  <2>1. loop' = loop
    BY <1>5 DEF ScheduledExit, Phase
  <2>2. \/ Held /\ CloseAt(O(i), "gap-stop") /\ Settled("stopped")
        \/ Held /\ CloseAt(O(i), "time") /\ Settled("time-exit")
        \/ Unchanged
    BY <1>5 DEF ScheduledExit
  <2> QED BY <1>1, <1>2, <2>1, <2>2, SettledRows
<1>6. CASE ScheduledRange
  <2>1. loop' = loop
    BY <1>6 DEF ScheduledRange, Phase
  <2>2. (Held /\ CloseAt(pos.stop, "stop") /\ Settled("stopped")) \/ Unchanged
    BY <1>6 DEF ScheduledRange
  <2> QED BY <1>1, <1>2, <2>1, <2>2, SettledRows
<1>7. CASE ScheduledEnds \/ ScheduledDone
  BY <1>2, <1>7 DEF ScheduledEnds, ScheduledDone, Phase
<1> QED BY <1>3, <1>4, <1>5, <1>6, <1>7 DEF ScheduledLoop

-------------------------------------------------------------------------------
(* timedReturn: the rows are of sessions before the next one, and its      *)
(* positions are trades at once.                                           *)
TimedRows ==
  /\ loop.kind = "timed"
  /\ Book(loop.kind, audits, trades, pos)
  /\ ~Held
  /\ \E k \in Nat \ {0} : mark = [next |-> k]
  /\ \A n \in DOMAIN audits :
       \E m \in DOMAIN loop.sessions : m < mark.next /\ audits[n].day = loop.sessions[m].day

LEMMA TimedRowsStep ==
  ASSUME TimedRows, loop \in LoopRuns, TimedLoop
  PROVE  TimedRows'
<1>1. ASSUME loop' = loop, Unchanged PROVE TimedRows'
  BY <1>1 DEF Unchanged, TimedRows, Held
<1>2. CASE TimedBar \/ TimedRefused \/ TimedPlanned \/ TimedDone
  BY <1>1, <1>2 DEF TimedBar, TimedRefused, TimedPlanned, TimedDone, Phase
<1>3. CASE TimedRow
  <2>1. /\ loop' = loop /\ pos' = pos /\ mark.next <= Len(loop.sessions)
        /\ mark' = [mark EXCEPT !.next = @ + 1]
    BY <1>3 DEF TimedRow, Phase
  <2>2. /\ loop.kind = "timed" /\ Len(loop.sessions) \in Nat /\ DOMAIN loop.sessions = 1 .. Len(loop.sessions)
        /\ \A n \in DOMAIN loop.sessions : loop.sessions[n].day \in Nat
        /\ \A m, n \in DOMAIN loop.sessions : m < n => loop.sessions[m].day < loop.sessions[n].day
    BY LoopsAssumption DEF TimedRows
  <2>3. PICK k \in Nat \ {0} : mark = [next |-> k]
    BY DEF TimedRows
  <2>4. k \in DOMAIN loop.sessions /\ mark' = [next |-> k + 1] /\ k + 1 \in Nat \ {0} /\ mark.next = k
        /\ mark'.next = k + 1
    BY <2>1, <2>2, <2>3
  <2>5. CASE UNCHANGED <<audits, trades>>
    <3>1. \A n \in DOMAIN audits :
            \E m \in DOMAIN loop.sessions : m < k + 1 /\ audits[n].day = loop.sessions[m].day
      <4> SUFFICES ASSUME NEW n \in DOMAIN audits
                   PROVE  \E m \in DOMAIN loop.sessions : m < k + 1 /\ audits[n].day = loop.sessions[m].day
        OBVIOUS
      <4>1. PICK m \in DOMAIN loop.sessions : m < k /\ audits[n].day = loop.sessions[m].day
        BY <2>4 DEF TimedRows
      <4>2. m < k + 1
        BY <2>2, <2>3, <4>1
      <4> QED BY <4>1, <4>2
    <3> QED BY <2>1, <2>4, <2>5, <3>1 DEF TimedRows, Held
  <2>6. CASE /\ audits' = Append(audits, [day |-> Session(k).day, outcome |-> TimedOutcome(k)])
             /\ trades' = IF TimedOutcome(k) = "executed" THEN Append(trades, TimedTrade(k)) ELSE trades
    <3> DEFINE id == loop.sessions[k].day
               r == [day |-> id, outcome |-> TimedOutcome(k)]
    <3>1. TimedOutcome(k) \in TradedOutcomes <=> TimedOutcome(k) = "executed"
      <4>1. RowStatus(k) \in {"excluded_reference_session", "excluded_predecessor_session", "scheduled"}
        BY DEF RowStatus
      <4>2. TimedOutcome(k) \in {"excluded_reference_session", "excluded_predecessor_session",
              "unavailable_endpoint", "zero_return", "side_blocked", "executed"}
        BY <4>1 DEF TimedOutcome
      <4> QED BY <4>2 DEF TradedOutcomes
    <3>2. id \in Int /\ audits' = Append(audits, r)
      BY <2>2, <2>4, <2>6 DEF Session
    <3>3. IsRow(loop.kind, r) /\ IdOf(loop.kind, r) = id /\ r.outcome = TimedOutcome(k) /\ r.day = id
      BY <2>2, <3>2 DEF IsRow, IdOf
    <3>4. KeyOf(loop.kind, TimedTrade(k)) = id
      BY <2>2 DEF TimedTrade, KeyOf, IdOf, Session
    <3> HIDE DEF id, r
    <3>5. RowsRise(loop.kind, audits) /\ Listing(audits)
      BY DEF TimedRows, Book, RowsRise
    <3>6. \A n \in DOMAIN audits : IdOf(loop.kind, audits[n]) < IdOf(loop.kind, r)
      <4> SUFFICES ASSUME NEW n \in DOMAIN audits PROVE IdOf(loop.kind, audits[n]) < IdOf(loop.kind, r)
        OBVIOUS
      <4>1. PICK m \in DOMAIN loop.sessions : m < k /\ audits[n].day = loop.sessions[m].day
        BY <2>4 DEF TimedRows
      <4>2. loop.sessions[m].day < id
        BY <2>2, <2>4, <4>1 DEF id
      <4> QED BY <2>2, <3>3, <4>1, <4>2 DEF IdOf
    <3>7. RowComes(loop.kind, audits, r, audits')
      BY <3>2, <3>3, <3>5, <3>6, RowAppended
    <3>8. Book(loop.kind, audits', trades', pos)
      <4>1. Book(loop.kind, audits, trades, pos)
        BY DEF TimedRows
      <4>2. CASE TimedOutcome(k) = "executed"
        <5>1. /\ RowsRise(loop.kind, audits') /\ id \notin TradedIds(loop.kind, audits)
              /\ TradedIds(loop.kind, audits') = TradedIds(loop.kind, audits) \cup {id}
          BY <3>1, <3>3, <3>7, <4>2 DEF RowComes
        <5>2. trades' = Append(trades, TimedTrade(k))
          BY <2>6, <4>2
        <5> QED BY <3>4, <4>1, <5>1, <5>2, BookTrade
      <4>3. CASE TimedOutcome(k) # "executed"
        <5>1. RowsRise(loop.kind, audits') /\ TradedIds(loop.kind, audits') = TradedIds(loop.kind, audits)
          BY <3>1, <3>3, <3>7, <4>3 DEF RowComes
        <5>2. trades' = trades
          BY <2>6, <4>3
        <5> QED BY <4>1, <5>1, <5>2, BookRows
      <4> QED BY <4>2, <4>3
    <3>9. ASSUME NEW n \in DOMAIN audits'
          PROVE  \E m \in DOMAIN loop.sessions : m < k + 1 /\ audits'[n].day = loop.sessions[m].day
      <4>1. /\ Len(audits) \in Nat /\ DOMAIN audits = 1 .. Len(audits) /\ DOMAIN audits' = 1 .. Len(audits) + 1
            /\ \A j \in 1 .. Len(audits) : audits'[j] = audits[j]
            /\ audits'[Len(audits) + 1] = r
        BY <3>2, <3>5, AppendIs
      <4>2. CASE n = Len(audits) + 1
        <5>1. audits'[n].day = loop.sessions[k].day
          BY <3>3, <4>1, <4>2 DEF id
        <5>2. k < k + 1
          BY <2>3
        <5> QED BY <2>4, <5>1, <5>2
      <4>3. CASE n # Len(audits) + 1
        <5>1. n \in DOMAIN audits /\ audits'[n] = audits[n]
          BY <4>1, <4>3
        <5>2. PICK m \in DOMAIN loop.sessions : m < k /\ audits[n].day = loop.sessions[m].day
          BY <2>4, <5>1 DEF TimedRows
        <5>3. m < k + 1
          BY <2>2, <2>3, <5>2
        <5> QED BY <5>1, <5>2, <5>3
      <4> QED BY <4>2, <4>3
    <3> QED BY <2>1, <2>2, <2>4, <3>8, <3>9 DEF TimedRows, Held
  <2> QED BY <1>3, <2>4, <2>5, <2>6 DEF TimedRow
<1> QED BY <1>2, <1>3 DEF TimedLoop

-------------------------------------------------------------------------------
(* goldFlag: the rows are of bars up to the last signal, and the pending   *)
(* order and the open position are those of the last row.                  *)
GoldRows ==
  /\ loop.kind = "gold"
  /\ Book(loop.kind, audits, trades, pos)
  /\ Listing(bars)
  /\ \E l \in Int : mark = [last |-> l]
  /\ mark.last = None => audits = << >>
  /\ \A n \in DOMAIN audits : audits[n].at <= mark.last
  /\ Ordered => /\ audits # << >> /\ audits[Len(audits)].at = order.at
                /\ audits[Len(audits)].outcome \notin TradedOutcomes
  /\ Held => audits # << >> /\ audits[Len(audits)].at = pos.tag.at

(* What a change of the last row leaves as it was.                         *)
GoldTurned(outcome) ==
  /\ RowTurns(loop.kind, audits, Len(audits), outcome, audits')
  /\ Len(audits') = Len(audits) /\ audits' # << >>
  /\ audits'[Len(audits')].at = audits[Len(audits)].at
  /\ audits'[Len(audits')].outcome = outcome
  /\ mark.last # None
  /\ \A n \in DOMAIN audits' : audits'[n].at <= mark.last

LEMMA GoldTurns ==
  ASSUME GoldRows, audits # << >>, NEW outcome, GoldOutcome(outcome)
  PROVE  GoldTurned(outcome)
<1> DEFINE k == Len(audits)
<1>1. RowsRise(loop.kind, audits) /\ k \in DOMAIN audits /\ loop.kind = "gold"
  BY LastRow DEF GoldRows, Book, RowsRise
<1>2. audits' = [audits EXCEPT ![k].outcome = outcome]
  BY DEF GoldOutcome, Audited
<1>3. RowTurns(loop.kind, audits, k, outcome, audits')
  BY <1>1, <1>2, RowChanged
<1>4. /\ Len(audits') = k /\ DOMAIN audits' = DOMAIN audits /\ audits'[k].outcome = outcome
      /\ \A n \in DOMAIN audits : audits'[n].at = audits[n].at
  BY <1>1, <1>3 DEF RowTurns, IdOf
<1>5. audits' # << >>
  BY <1>1, <1>4
<1>6. mark.last # None /\ \A n \in DOMAIN audits' : audits'[n].at <= mark.last
  BY <1>4 DEF GoldRows
<1> QED BY <1>1, <1>3, <1>4, <1>5, <1>6 DEF GoldTurned

LEMMA GoldDropped ==
  ASSUME GoldRows, LoopKept, loop' = loop, bars' = bars, Ordered, order' = NoOrder,
         UNCHANGED <<pos, mark, trades>>, NEW outcome, outcome \notin TradedOutcomes, GoldOutcome(outcome)
  PROVE  GoldRows'
<1>1. ~Held /\ ~Ordered' /\ ~Held'
  BY DEF LoopKept, Held, Ordered, NoOrder
<1>2. GoldTurned(outcome)
  BY GoldTurns DEF GoldRows
<1>3. Book(loop.kind, audits', trades, pos)
  <2>1. RowsRise(loop.kind, audits') /\ TradedIds(loop.kind, audits') = TradedIds(loop.kind, audits)
    BY <1>2 DEF GoldTurned, RowTurns, GoldRows
  <2> QED BY <2>1, BookRows DEF GoldRows
<1> QED BY <1>1, <1>2, <1>3 DEF GoldRows, GoldTurned

LEMMA GoldFilled ==
  ASSUME GoldRows, LoopKept, loop' = loop, bars' = bars, Ordered, order' = NoOrder,
         UNCHANGED <<mark, trades>>, NEW price, pos' = GoldPosition(price), GoldOutcome("filled")
  PROVE  GoldRows'
<1>1. ~Held /\ ~Ordered' /\ "filled" \in TradedOutcomes
  BY DEF LoopKept, Ordered, NoOrder, TradedOutcomes
<1>2. GoldTurned("filled")
  BY GoldTurns DEF GoldRows
<1>3. loop.kind = "gold" /\ pos'.side # 0 /\ pos'.tag = [at |-> order.at]
  BY DEF GoldPosition, Position, Ordered, GoldRows
<1>4. KeyOf(loop.kind, pos') = order.at /\ audits[Len(audits)].at = order.at
  BY <1>3 DEF KeyOf, IdOf, GoldRows
<1>5. Book(loop.kind, audits', trades, pos')
  <2>1. /\ RowsRise(loop.kind, audits') /\ order.at \notin TradedIds(loop.kind, audits)
        /\ TradedIds(loop.kind, audits') = TradedIds(loop.kind, audits) \cup {order.at}
    <3>1. IdOf(loop.kind, audits[Len(audits)]) = order.at
      BY <1>3, <1>4 DEF IdOf
    <3> QED BY <1>1, <1>2, <3>1 DEF GoldTurned, RowTurns, GoldRows
  <2>2. Book(loop.kind, audits, trades, pos) /\ pos.side = 0
    BY <1>1 DEF GoldRows, Held
  <2> QED BY <1>3, <1>4, <2>1, <2>2, BookPosition
<1> QED BY <1>1, <1>2, <1>3, <1>4, <1>5 DEF GoldRows, GoldTurned

LEMMA GoldLeaves ==
  ASSUME GoldRows, LoopKept, loop' = loop, bars' = bars, Held, NEW price, NEW reason, GoldClosed(price, reason)
  PROVE  GoldRows'
<1>1. /\ CloseAt(price, reason) /\ GoldOutcome("closed") /\ order' = order /\ mark' = mark
      /\ ~Ordered /\ "closed" \in TradedOutcomes
  BY DEF GoldClosed, LoopKept, TradedOutcomes
<1>2. ~Held' /\ ~Ordered'
  BY <1>1 DEF CloseAt, Flat, Held, Ordered
<1>3. GoldTurned("closed")
  BY <1>1, GoldTurns DEF GoldRows
<1>4. Book(loop.kind, audits, trades, pos) /\ pos.side # 0 /\ Len(audits) \in DOMAIN audits
      /\ IdOf(loop.kind, audits[Len(audits)]) = KeyOf(loop.kind, pos)
  <2>1. Listing(audits)
    BY DEF GoldRows, Book, RowsRise
  <2>2. Len(audits) \in DOMAIN audits
    BY <2>1, LastRow DEF GoldRows
  <2> QED BY <2>2 DEF GoldRows, Held, IdOf, KeyOf
<1>5. audits[Len(audits)].outcome \in TradedOutcomes
  BY <1>4, OpenRowTraded
<1>6. Book(loop.kind, audits', trades, pos)
  <2>1. RowsRise(loop.kind, audits') /\ TradedIds(loop.kind, audits') = TradedIds(loop.kind, audits)
    BY <1>1, <1>3, <1>5 DEF GoldTurned, RowTurns
  <2> QED BY <1>4, <2>1, BookRows
<1>7. Book(loop.kind, audits', trades', pos')
  BY <1>1, <1>6, BookCloses
<1> QED BY <1>1, <1>2, <1>3, <1>7 DEF GoldRows, GoldTurned

LEMMA GoldSignals ==
  ASSUME GoldRows, loop \in LoopRuns, loop' = loop, bars' = bars, UNCHANGED <<pos, trades>>,
         GoldDue, NEW s \in {1, -1}, GoldSignal(s)
  PROVE  GoldRows'
<1> DEFINE k == Len(audits) + 1
<1>1. i \in Int /\ i >= 2 /\ ~Held /\ ~Ordered
  <2>1. Len(bars) \in Nat
    BY LastRow DEF GoldRows
  <2> QED BY <2>1 DEF GoldDue, i
<1>2. PICK l \in Int : mark = [last |-> l]
  BY DEF GoldRows
<1>3. loop.kind = "gold" /\ loop.spacing \in Nat
  BY LoopsAssumption DEF GoldRows
<1>4. mark.last = l /\ (l # None => l < i - 1)
  BY <1>1, <1>2, <1>3 DEF GoldDue
<1>5. mark' = [last |-> i - 1] /\ mark'.last = i - 1 /\ i - 1 # None
  BY <1>1, <1>2 DEF GoldSignal, None
<1>6. \/ audits' = GoldRow("invalid-risk") /\ order' = order
      \/ audits' = GoldRow("pending") /\ order' = GoldOrder(s)
  BY DEF GoldSignal
<1>7. PICK o \in {"invalid-risk", "pending"} :
        audits' = GoldRow(o) /\ (order' = order \/ order' = GoldOrder(s))
  BY <1>6
<1> DEFINE r == [at |-> i - 1, outcome |-> o]
<1>8. o \notin TradedOutcomes
  BY DEF TradedOutcomes
<1>9. audits' = Append(audits, r) /\ IsRow(loop.kind, r) /\ IdOf(loop.kind, r) = i - 1
      /\ r.at = i - 1 /\ r.outcome = o
  <2>1. i - 1 \in Int
    BY <1>1
  <2>2. IsRow(loop.kind, r)
    BY <1>3, <2>1 DEF IsRow
  <2> QED BY <1>3, <1>7, <2>2 DEF GoldRow, IdOf
<1> HIDE DEF r
<1>10. RowsRise(loop.kind, audits) /\ Listing(audits)
  BY DEF GoldRows, Book, RowsRise
<1>11. \A n \in DOMAIN audits : audits[n].at < i - 1
  <2> SUFFICES ASSUME NEW n \in DOMAIN audits PROVE audits[n].at < i - 1
    OBVIOUS
  <2>1. audits[n].at \in Int
    BY <1>3, <1>10, RowId DEF RowsRise, IdOf
  <2>2. audits # << >>
    OBVIOUS
  <2>3. l # None /\ audits[n].at <= l
    BY <1>4, <2>2 DEF GoldRows
  <2> QED BY <1>1, <1>4, <2>1, <2>3
<1>12. RowComes(loop.kind, audits, r, audits')
  <2>1. \A n \in DOMAIN audits : IdOf(loop.kind, audits[n]) < IdOf(loop.kind, r)
    BY <1>3, <1>9, <1>11 DEF IdOf
  <2> QED BY <1>9, <1>10, <2>1, RowAppended
<1>13. Book(loop.kind, audits', trades, pos)
  <2>1. RowsRise(loop.kind, audits') /\ TradedIds(loop.kind, audits') = TradedIds(loop.kind, audits)
    BY <1>8, <1>9, <1>12 DEF RowComes
  <2> QED BY <2>1, BookRows DEF GoldRows
<1>14. /\ Len(audits) \in Nat /\ Len(audits') = k /\ DOMAIN audits = 1 .. Len(audits) /\ DOMAIN audits' = 1 .. k
       /\ \A n \in 1 .. Len(audits) : audits'[n] = audits[n]
       /\ audits'[k] = r
  BY <1>9, <1>10, AppendIs
<1>15. \A n \in DOMAIN audits' : audits'[n].at <= i - 1
  <2> SUFFICES ASSUME NEW n \in DOMAIN audits' PROVE audits'[n].at <= i - 1
    OBVIOUS
  <2>1. CASE n = k
    BY <1>1, <1>9, <1>14, <2>1
  <2>2. CASE n # k
    <3>1. n \in DOMAIN audits /\ audits'[n] = audits[n]
      BY <1>14, <2>2
    <3>2. audits[n].at \in Int
      BY <1>3, <1>10, <3>1, RowId DEF RowsRise, IdOf
    <3> QED BY <1>1, <1>11, <3>1, <3>2
  <2> QED BY <2>1, <2>2
<1>16. audits' # << >> /\ audits'[Len(audits')].at = i - 1 /\ audits'[Len(audits')].outcome = o
  BY <1>9, <1>14
<1>17. Ordered' => order'.at = i - 1
  BY <1>1, <1>7 DEF Ordered, GoldOrder
<1> QED BY <1>1, <1>3, <1>5, <1>8, <1>13, <1>15, <1>16, <1>17 DEF GoldRows, Held

LEMMA GoldRowsStep ==
  ASSUME GoldRows, LoopKept, loop \in LoopRuns, GoldLoop
  PROVE  GoldRows'
<1>1. ASSUME loop' = loop, bars' = bars, Unchanged PROVE GoldRows'
  BY <1>1 DEF Unchanged, GoldRows, Held, Ordered
<1>2. {"cancelled-open-opposite", "cancelled-opposite", "expired"} \cap TradedOutcomes = {}
  BY DEF TradedOutcomes
<1>3. ASSUME loop' = loop, bars' = bars, Ordered, order' = NoOrder, UNCHANGED <<pos, mark, trades>>,
             NEW outcome \in {"cancelled-open-opposite", "cancelled-opposite", "expired"}, GoldOutcome(outcome)
      PROVE  GoldRows'
  BY <1>2, <1>3, GoldDropped
<1>4. CASE GoldBefore
  <2>1. loop' = loop /\ bars' = bars /\ UNCHANGED <<pos, trades>>
    BY <1>4 DEF GoldBefore, Phase
  <2>2. CASE UNCHANGED <<order, mark, audits>>
    BY <1>1, <2>1, <2>2 DEF Unchanged
  <2>3. CASE GoldDue /\ \E s \in {1, -1} : GoldFlag(i - 1, s) /\ GoldSignal(s)
    BY <2>1, <2>3, GoldSignals
  <2> QED BY <1>4, <2>2, <2>3 DEF GoldBefore
<1>5. CASE GoldOpen
  <2>1. loop' = loop /\ bars' = bars
    BY <1>5 DEF GoldOpen, Phase
  <2>2. \/ Ordered /\ order' = NoOrder /\ GoldOutcome("cancelled-open-opposite") /\ UNCHANGED <<pos, mark, trades>>
        \/ /\ Ordered /\ order' = NoOrder /\ pos' = GoldPosition(O(i)) /\ GoldOutcome("filled")
           /\ UNCHANGED <<mark, trades>>
        \/ Held /\ \E price, reason : GoldClosed(price, reason)
        \/ Unchanged
    BY <1>5 DEF GoldOpen
  <2> QED BY <1>1, <1>3, <2>1, <2>2, GoldFilled, GoldLeaves
<1>6. CASE GoldTouch
  <2>1. loop' = loop /\ bars' = bars /\ UNCHANGED <<mark, trades>>
    BY <1>6 DEF GoldTouch, Phase
  <2>2. \/ Ordered /\ order' = NoOrder /\ pos' = GoldPosition(order.trigger) /\ GoldOutcome("filled")
        \/ Ordered /\ order' = NoOrder /\ GoldOutcome("cancelled-opposite") /\ UNCHANGED pos
        \/ UNCHANGED <<pos, order, audits>>
    BY <1>6 DEF GoldTouch
  <2> QED BY <1>1, <1>3, <2>1, <2>2, GoldFilled DEF Unchanged
<1>7. CASE GoldBracket
  <2>1. loop' = loop /\ bars' = bars
    BY <1>7 DEF GoldBracket, Phase
  <2>2. (Held /\ \E price, reason : GoldClosed(price, reason)) \/ Unchanged
    BY <1>7 DEF GoldBracket, StopTouched, TargetTouched
  <2> QED BY <1>1, <2>1, <2>2, GoldLeaves
<1>8. CASE GoldClose
  <2>1. loop' = loop /\ bars' = bars
    BY <1>8 DEF GoldClose, Phase
  <2>2. \/ Held /\ \E price, reason : GoldClosed(price, reason)
        \/ Ordered /\ order' = NoOrder /\ GoldOutcome("expired") /\ UNCHANGED <<pos, mark, trades>>
        \/ Unchanged
    BY <1>8 DEF GoldClose
  <2> QED BY <1>1, <1>3, <2>1, <2>2, GoldLeaves
<1> QED BY <1>4, <1>5, <1>6, <1>7, <1>8 DEF GoldLoop

-------------------------------------------------------------------------------
RowsKept ==
  /\ loop \in LoopRuns
  /\ loop.kind = "clock" => ClockRows
  /\ loop.kind = "scheduled" => ScheduledRows
  /\ loop.kind = "timed" => TimedRows
  /\ loop.kind = "gold" => GoldRows

LEMMA InitRows == Init => RowsKept
<1> SUFFICES ASSUME Init PROVE RowsKept
  OBVIOUS
<1>1. /\ loop \in LoopRuns /\ audits = << >> /\ trades = << >> /\ bars = << >>
      /\ mark = InitialMark /\ ~Held /\ ~Ordered
      /\ loop.kind = "clock" => ValidClockRange(loop)
  BY DEF Init, Held, Ordered, Flat, NoOrder
<1>2. Listing(<< >>) /\ DOMAIN << >> = {} /\ Len(<< >>) = 0
  <2>1. << >> \in Seq({})
    OBVIOUS
  <2> QED BY <2>1 DEF Listing
<1>3. Book(loop.kind, audits, trades, pos)
  <2>1. RowsRise(loop.kind, << >>) /\ TradedIds(loop.kind, << >>) = {} /\ TradeKeys(loop.kind, << >>) = {}
    BY <1>2 DEF RowsRise, TradedIds, TradedRows, TradeKeys
  <2>2. OpenKeys(loop.kind, pos) = {}
    BY <1>1 DEF OpenKeys, Held
  <2> QED BY <1>1, <1>2, <2>1, <2>2 DEF Book
<1>4. ASSUME loop.kind = "clock" PROVE ClockRows
  <2>1. FirstRangeDay(loop.first) \in Int
    BY <1>1, <1>4, FirstDayIs
  <2>2. mark.next \in Int
    BY <1>1, <1>4, <2>1 DEF InitialMark
  <2> QED BY <1>1, <1>2, <1>3, <1>4, <2>2 DEF ClockRows, Pending
<1>5. ASSUME loop.kind = "scheduled" PROVE ScheduledRows
  <2>1. mark = [next |-> 1]
    BY <1>1, <1>5 DEF InitialMark
  <2> QED BY <1>1, <1>2, <1>3, <1>5, <2>1 DEF ScheduledRows
<1>6. ASSUME loop.kind = "timed" PROVE TimedRows
  <2>1. mark = [next |-> 1]
    BY <1>1, <1>6 DEF InitialMark
  <2> QED BY <1>1, <1>2, <1>3, <1>6, <2>1 DEF TimedRows
<1>7. ASSUME loop.kind = "gold" PROVE GoldRows
  <2>1. mark = [last |-> None] /\ None \in Int
    BY <1>1, <1>7 DEF InitialMark, None
  <2> QED BY <1>1, <1>2, <1>3, <1>7, <2>1 DEF GoldRows
<1> QED BY <1>1, <1>4, <1>5, <1>6, <1>7 DEF RowsKept

LEMMA StepsKeepRows == ASSUME LoopKept, RowsKept, [Next]_vars PROVE RowsKept'
<1>1. CASE UNCHANGED vars
  <2>1. UNCHANGED <<loop, bars, pos, order, mark, trades, audits>>
    BY <1>1 DEF vars
  <2>2. loop.kind = "clock" => ClockRows'
    BY <2>1 DEF RowsKept, ClockRows, Pending, Ordered
  <2>3. loop.kind = "scheduled" => ScheduledRows'
    BY <2>1 DEF RowsKept, ScheduledRows, Held
  <2>4. loop.kind = "timed" => TimedRows'
    BY <2>1 DEF RowsKept, TimedRows, Held
  <2>5. loop.kind = "gold" => GoldRows'
    BY <2>1 DEF RowsKept, GoldRows, Held, Ordered
  <2> QED BY <2>1, <2>2, <2>3, <2>4, <2>5 DEF RowsKept
<1>2. CASE NewBar
  <2>1. UNCHANGED <<loop, pos, order, mark, trades, audits>> /\ \E b : bars' = Append(bars, b)
    BY <1>2 DEF NewBar
  <2>2. Listing(bars) => Listing(bars')
    BY <2>1, AppendIs
  <2>3. loop.kind = "clock" => ClockRows'
    BY <2>1 DEF RowsKept, ClockRows, Pending, Ordered
  <2>4. loop.kind = "scheduled" => ScheduledRows'
    BY <2>1 DEF RowsKept, ScheduledRows, Held
  <2>5. loop.kind = "timed" => TimedRows'
    BY <2>1 DEF RowsKept, TimedRows, Held
  <2>6. loop.kind = "gold" => GoldRows'
    BY <2>1, <2>2 DEF RowsKept, GoldRows, Held, Ordered
  <2> QED BY <2>1, <2>3, <2>4, <2>5, <2>6 DEF RowsKept
<1>3. CASE Ends
  <2>1. loop.kind \in Liquidates /\ UNCHANGED <<loop, bars, order, mark, audits>>
    BY <1>3 DEF Ends, SeriesEnds
  <2>2. UNCHANGED <<pos, trades>> \/ (Held /\ \E price, reason : CloseAt(price, reason))
    BY <1>3 DEF Ends, SeriesEnds
  <2>3. ASSUME loop.kind = "clock" PROVE ClockRows'
    <3>1. ClockRows
      BY <2>3 DEF RowsKept
    <3>2. Book(loop.kind, audits, trades', pos')
      BY <2>2, <3>1, BookCloses DEF ClockRows
    <3> QED BY <2>1, <3>1, <3>2 DEF ClockRows, Pending, Ordered
  <2> QED BY <2>1, <2>3 DEF RowsKept, Liquidates
<1>4. ASSUME loop' = loop, loop.kind \notin {"clock", "scheduled", "timed", "gold"} PROVE RowsKept'
  BY <1>4 DEF RowsKept
<1>5. CASE ClockBar
  <2>1. Step /\ loop.kind = "clock"
    BY <1>5, ClockSteps
  <2> QED BY <1>5, <2>1, ClockRowsStep DEF RowsKept, Step
<1>6. CASE FlushLoop
  BY <1>4, <1>6, FlushSteps DEF Step
<1>7. CASE FadeLoop
  BY <1>4, <1>7, FadeSteps DEF Step
<1>8. CASE CrossLoop
  BY <1>4, <1>8, CrossSteps DEF Step
<1>9. CASE LegacyLoop
  BY <1>4, <1>9, LegacySteps DEF Step
<1>10. CASE ShockLoop
  BY <1>4, <1>10, ShockSteps DEF Step
<1>11. CASE ScheduledLoop
  <2>1. Step /\ loop.kind = "scheduled"
    BY <1>11, ScheduledSteps
  <2> QED BY <1>11, <2>1, ScheduledRowsStep DEF RowsKept, Step
<1>12. CASE TimedLoop
  <2>1. Step /\ loop.kind = "timed"
    BY <1>12, TimedSteps
  <2> QED BY <1>12, <2>1, TimedRowsStep DEF RowsKept, Step
<1>13. CASE SweepLoop
  BY <1>4, <1>13, SweepSteps DEF Step
<1>14. CASE ReversionLoop
  BY <1>4, <1>14, ReversionSteps DEF Step
<1>15. CASE GoldLoop
  <2>1. Step /\ loop.kind = "gold"
    BY <1>15, GoldSteps
  <2> QED BY <1>15, <2>1, GoldRowsStep DEF RowsKept, Step
<1>16. CASE FlagLoop
  BY <1>4, <1>16, FlagSteps DEF Step
<1> QED BY <1>1, <1>2, <1>3, <1>5, <1>6, <1>7, <1>8, <1>9, <1>10, <1>11, <1>12, <1>13, <1>14, <1>15, <1>16
        DEF Next, CandleLoops, ScheduleLoops, ReversionLoops

(* The rows of range days, settlement days, sessions and gold signals are  *)
(* in their order, and each says that it was traded exactly when one       *)
(* position, open or closed, is of its day or bar (the audits of           *)
(* family_clock_range_breakout.go, family_scheduled_trade.go,              *)
(* family_timed_return.go and reference_gold_flag.go).                     *)
THEOREM RowsAlwaysAccount == Spec => []RowsAccountForPositions
<1>1. Init => LoopKept /\ RowsKept
  BY InitKept, InitRows
<1>2. LoopKept /\ RowsKept /\ [Next]_vars => (LoopKept /\ RowsKept)'
  BY StepsKept, StepsKeepRows
<1>3. LoopKept /\ RowsKept => RowsAccountForPositions
  <2> SUFFICES ASSUME RowsKept, loop.kind \in {"clock", "scheduled", "timed", "gold"}
               PROVE  /\ \A m, n \in DOMAIN audits : m < n => Id(audits[m]) < Id(audits[n])
                      /\ \A n \in DOMAIN audits :
                           Cardinality(PositionsOf(audits[n])) = IF audits[n].outcome \in TradedOutcomes THEN 1 ELSE 0
    BY DEF RowsAccountForPositions
  <2>1. Book(loop.kind, audits, trades, pos)
    BY DEF RowsKept, ClockRows, ScheduledRows, TimedRows, GoldRows
  <2> QED BY <2>1, BookAccounts
<1> QED BY <1>1, <1>2, <1>3, PTL DEF Spec

-------------------------------------------------------------------------------
(* What the gates of a range day read, of any series: the definitions of   *)
(* LoopClock with the run p and the bars b as parameters.                  *)
DateIn(p, b, j) == (b[j + 1].t + p.offset) \div p.dayLength
CandleIn(p, b, j) == p.candles[b[j + 1].c]
DatesIn(p, b, n) == {DateIn(p, b, j) : j \in 0..n-1}
BarsIn(p, b, n, d) == {j \in 0..n-1 : DateIn(p, b, j) = d}
SpanIn(b, D) == b[Highest(D) + 1].t + 1 - b[Lowest(D) + 1].t
ShortIn(p, b, n, d) == SpanIn(b, BarsIn(p, b, n, d)) < p.minSpan /\ d # Highest(DatesIn(p, b, n))
TradingIn(p, b, n) == {d \in DatesIn(p, b, n) : ~ShortIn(p, b, n, d)}
DayIn(p, b, n, d) ==
  {j \in 0..n-1 : DateIn(p, b, j) <= d /\ \A e \in Before(TradingIn(p, b, n), d) : e < DateIn(p, b, j)}
HighIn(p, b, D) == Highest({CandleIn(p, b, j).H : j \in D})
LowIn(p, b, D) == Lowest({CandleIn(p, b, j).L : j \in D})
OpenIn(p, b, D) == CandleIn(p, b, Lowest(D)).O
CloseIn(p, b, D) == CandleIn(p, b, Highest(D)).C
TrueRangeIn(p, b, D, E) ==
  Highest({HighIn(p, b, D) - LowIn(p, b, D), Abs(HighIn(p, b, D) - CloseIn(p, b, E)),
           Abs(LowIn(p, b, D) - CloseIn(p, b, E))})
RangeIn(p, b, n, d) ==
  TrueRangeIn(p, b, DayIn(p, b, n, d), DayIn(p, b, n, Highest(Before(TradingIn(p, b, n), d))))
ATRIn(p, b, n, prior) ==
  IF Cardinality(prior) <= p.atrDays THEN None
  ELSE SumOf([d \in Newest(prior, p.atrDays) |-> RangeIn(p, b, n, d)])
ColourIn(p, b, n, prior) ==
  IF prior = {} THEN None
  ELSE CloseIn(p, b, DayIn(p, b, n, Highest(prior))) - OpenIn(p, b, DayIn(p, b, n, Highest(prior)))
PriorIn(p, b, n, day) == Before(TradingIn(p, b, n), day)
InputsIn(p, b, n, day) ==
  [atr |-> IF p.atrDays > 0 THEN ATRIn(p, b, n, PriorIn(p, b, n, day)) ELSE None,
   colour |-> IF p.priorCandle THEN ColourIn(p, b, n, PriorIn(p, b, n, day)) ELSE None]

LEMMA InputsAre == \A n, day : DailyInputs(n, day) = InputsIn(loop, bars, n, day)
<1> TAKE n, day
<1>1. \A j : ClockDayOf(T(j)) = DateIn(loop, bars, j) /\ Candle(j) = CandleIn(loop, bars, j)
  BY DEF ClockDayOf, T, DateIn, Candle, CandleIn
<1>2. DatesOf(n) = DatesIn(loop, bars, n) /\ \A d : BarsOf(n, d) = BarsIn(loop, bars, n, d)
  BY <1>1 DEF DatesOf, DatesIn, BarsOf, BarsIn
<1>3. \A d : ShortDate(n, d) <=> ShortIn(loop, bars, n, d)
  BY <1>2 DEF ShortDate, ShortIn, SpanIn, T
<1>4. TradingDates(n) = TradingIn(loop, bars, n)
  BY <1>2, <1>3 DEF TradingDates, TradingIn
<1>5. \A d : TradingDay(n, d) = DayIn(loop, bars, n, d)
  BY <1>1, <1>4 DEF TradingDay, DayIn
<1>6. \A D : /\ RangeHigh(D) = HighIn(loop, bars, D) /\ RangeLow(D) = LowIn(loop, bars, D)
             /\ DayOpen(D) = OpenIn(loop, bars, D) /\ DayClose(D) = CloseIn(loop, bars, D)
  BY <1>1 DEF RangeHigh, RangeLow, HighIn, LowIn, DayOpen, DayClose, OpenIn, CloseIn, H, L, O, C
<1>7. \A D, E : TrueRange(D, E) = TrueRangeIn(loop, bars, D, E)
  BY <1>6 DEF TrueRange, TrueRangeIn
<1>8. \A d : RangeOfDate(n, d) = RangeIn(loop, bars, n, d)
  BY <1>4, <1>5, <1>7 DEF RangeOfDate, RangeIn
<1>9. \A prior : DailyATR(n, prior) = ATRIn(loop, bars, n, prior)
  BY <1>8 DEF DailyATR, ATRIn
<1>10. \A prior : PriorColour(n, prior) = ColourIn(loop, bars, n, prior)
  BY <1>5, <1>6 DEF PriorColour, ColourIn
<1>11. PriorDates(n, day) = PriorIn(loop, bars, n, day)
  BY <1>4 DEF PriorDates, PriorIn
<1> QED BY <1>9, <1>10, <1>11 DEF DailyInputs, InputsIn

-------------------------------------------------------------------------------
(* A set of numbers between two bounds has a lowest and a highest.         *)
LEMMA EndsOf ==
  ASSUME NEW lo \in Int, NEW hi \in Int, NEW S, S \subseteq lo..hi, S # {}
  PROVE  /\ Lowest(S) \in S /\ \A y \in S : Lowest(S) <= y
         /\ Highest(S) \in S /\ \A y \in S : Highest(S) >= y
<1> DEFINE up == {k \in Nat : lo + k \in S}
           down == {k \in Nat : hi - k \in S}
<1>1. up # {} /\ down # {}
  <2>1. PICK x \in S : TRUE
    OBVIOUS
  <2>2. x \in Int /\ x - lo \in Nat /\ lo + (x - lo) = x /\ hi - x \in Nat /\ hi - (hi - x) = x
    BY <2>1
  <2> QED BY <2>1, <2>2
<1>2. ASSUME NEW D, D \subseteq Nat, D # {} PROVE \E k \in D : \A l \in D : k <= l
  <2>1. PICK k \in D : \A l \in D : ~(<<l, k>> \in OpToRel(<, Nat))
    BY <1>2, NatLessThanWellFounded, WFMin, Zenon
  <2>2. \A l \in D : k <= l
    <3> TAKE l \in D
    <3>1. k \in Nat /\ l \in Nat /\ ~(l < k)
      BY <1>2, <2>1 DEF OpToRel
    <3> QED BY <3>1
  <2> QED BY <2>2
<1>a. \A k \in up : k \in Nat /\ lo + k \in S
  OBVIOUS
<1>b. \A k \in down : k \in Nat /\ hi - k \in S
  OBVIOUS
<1>c. \A k \in Nat : (lo + k \in S => k \in up) /\ (hi - k \in S => k \in down)
  OBVIOUS
<1>d. up \subseteq Nat /\ down \subseteq Nat
  OBVIOUS
<1> HIDE DEF up, down
<1>4. \E x \in S : \A y \in S : x <= y
  <2>1. PICK k \in up : \A l \in up : k <= l
    BY <1>1, <1>2, <1>d
  <2>2. ASSUME NEW y \in S PROVE lo + k <= y
    <3>1. y \in Int /\ lo <= y
      BY <2>2
    <3>2. y - lo \in Nat /\ lo + (y - lo) = y
      BY <3>1
    <3>3. k <= y - lo
      BY <1>c, <2>1, <2>2, <3>2
    <3>4. k \in Int
      BY <1>a, <2>1
    <3> QED BY <3>1, <3>3, <3>4
  <2> QED BY <1>a, <2>1, <2>2
<1>5. \E x \in S : \A y \in S : x >= y
  <2>1. PICK k \in down : \A l \in down : k <= l
    BY <1>1, <1>2, <1>d
  <2>2. ASSUME NEW y \in S PROVE hi - k >= y
    <3>1. y \in Int /\ y <= hi
      BY <2>2
    <3>2. hi - y \in Nat /\ hi - (hi - y) = y
      BY <3>1
    <3>3. k <= hi - y
      BY <1>c, <2>1, <2>2, <3>2
    <3>4. k \in Int
      BY <1>b, <2>1
    <3> QED BY <3>1, <3>3, <3>4
  <2> QED BY <1>b, <2>1, <2>2
<1>6. Lowest(S) \in S /\ \A y \in S : Lowest(S) <= y
  BY <1>4, Zenon DEF Lowest
<1>7. Highest(S) \in S /\ \A y \in S : Highest(S) >= y
  BY <1>5, Zenon DEF Highest
<1> QED BY <1>6, <1>7

(* A run with a clock, the bars of a series in the order of their times,   *)
(* and a series c that agrees with b as far as b goes.                     *)
Clocked(p) == p.offset \in Int /\ p.dayLength \in Nat \ {0}
Rising(b, n) ==
  /\ n \in Nat
  /\ \A j \in 0..n-1 : b[j + 1].t \in Int
  /\ \A j, k \in 0..n-1 : j < k => b[j + 1].t < b[k + 1].t
Prolongs(b, n, c, m) ==
  Rising(c, m) /\ n \in Nat /\ n <= m /\ \A j \in 0..n-1 : c[j + 1] = b[j + 1]
(* The day has come, in the first n bars of b.                             *)
Come(p, b, n, day) == day \in Int /\ \E j \in 0..n-1 : DateIn(p, b, j) = day

LEMMA TimesRise ==
  ASSUME NEW x \in Int, NEW y \in Int, x <= y, NEW z \in Nat
  PROVE  x * z <= y * z
<1> DEFINE k == y - x
<1>1. k \in Nat /\ y = x + k
  OBVIOUS
<1> HIDE DEF k
<1>2. y * z = x * z + k * z
  BY <1>1
<1>3. x * z \in Int /\ k * z \in Nat
  BY <1>1
<1> QED BY <1>2, <1>3

LEMMA DatesRise ==
  ASSUME NEW p, Clocked(p), NEW b, NEW n, Rising(b, n), NEW j \in 0..n-1, NEW k \in 0..n-1
  PROVE  DateIn(p, b, j) \in Int /\ (j <= k => DateIn(p, b, j) <= DateIn(p, b, k))
<1> DEFINE x == b[j + 1].t + p.offset
           y == b[k + 1].t + p.offset
           len == p.dayLength
<1>1. x \in Int /\ y \in Int /\ len \in Nat \ {0}
  BY DEF Rising, Clocked
<1>2. j <= k => x <= y
  <2>1. j \in Int /\ k \in Int /\ (j < k => b[j + 1].t < b[k + 1].t) /\ b[j + 1].t \in Int /\ b[k + 1].t \in Int
    BY DEF Rising
  <2> QED BY <2>1 DEF Clocked
<1>3. DateIn(p, b, j) = x \div len /\ DateIn(p, b, k) = y \div len
  BY DEF DateIn
<1> HIDE DEF x, y, len
<1>4. /\ x \div len \in Int /\ (x \div len) * len <= x /\ x < ((x \div len) + 1) * len
      /\ y \div len \in Int /\ (y \div len) * len <= y /\ y < ((y \div len) + 1) * len
  BY <1>1, DivBetween
<1>5. x <= y => x \div len <= y \div len
  <2> DEFINE r == x \div len
             s == y \div len
  <2>1. r \in Int /\ s \in Int /\ r * len <= x /\ y < (s + 1) * len
    BY <1>4
  <2> HIDE DEF r, s
  <2> SUFFICES ASSUME x <= y, s < r PROVE FALSE
    BY <2>1 DEF r, s
  <2>2. s + 1 <= r
    BY <2>1
  <2>3. (s + 1) * len <= r * len
    BY <1>1, <2>1, <2>2, TimesRise
  <2>4. (s + 1) * len \in Int /\ r * len \in Int
    BY <1>1, <2>1
  <2> QED BY <1>1, <2>1, <2>3, <2>4
<1> QED BY <1>2, <1>3, <1>4, <1>5

(* Until the day has come no bar of an earlier date is missing: the bars   *)
(* of the longer series before that day are those of the shorter one.      *)
LEMMA EarlierBars ==
  ASSUME NEW p, Clocked(p), NEW b, NEW n, NEW c, NEW m, Prolongs(b, n, c, m), NEW day, Come(p, b, n, day)
  PROVE  /\ \A j \in 0..n-1 : DateIn(p, b, j) = DateIn(p, c, j) /\ j \in 0..m-1
         /\ \A j \in 0..m-1 : DateIn(p, c, j) < day => j \in 0..n-1
         /\ \A j \in 0..m-1 : DateIn(p, c, j) \in Int
<1>1. n \in Nat /\ m \in Nat /\ n <= m /\ Rising(c, m) /\ \A j \in 0..n-1 : c[j + 1] = b[j + 1]
  BY DEF Prolongs, Rising
<1>2. \A j \in 0..n-1 : DateIn(p, b, j) = DateIn(p, c, j) /\ j \in 0..m-1
  <2> TAKE j \in 0..n-1
  <2>1. c[j + 1] = b[j + 1]
    BY <1>1
  <2> QED BY <1>1, <2>1 DEF DateIn
<1>3. \A j \in 0..m-1 : DateIn(p, c, j) \in Int
  BY <1>1, DatesRise
<1>4. PICK k \in 0..n-1 : DateIn(p, b, k) = day
  BY DEF Come
<1>5. ASSUME NEW j \in 0..m-1, DateIn(p, c, j) < day PROVE j \in 0..n-1
  <2>1. DateIn(p, c, k) = day /\ k \in 0..m-1
    BY <1>2, <1>4
  <2>2. k <= j => DateIn(p, c, k) <= DateIn(p, c, j)
    BY <1>1, <2>1, DatesRise
  <2>3. DateIn(p, c, k) \in Int /\ DateIn(p, c, j) \in Int
    BY <1>3, <2>1
  <2>4. ~(k <= j)
    BY <1>5, <2>1, <2>2, <2>3
  <2> QED BY <1>1, <2>4
<1> QED BY <1>2, <1>3, <1>5

LEMMA HighestDate ==
  ASSUME NEW p, Clocked(p), NEW b, NEW n, Rising(b, n), NEW j \in 0..n-1
  PROVE  Highest(DatesIn(p, b, n)) \in Int /\ Highest(DatesIn(p, b, n)) >= DateIn(p, b, j)
<1> DEFINE S == DatesIn(p, b, n)
           lo == DateIn(p, b, 0)
           hi == DateIn(p, b, n - 1)
<1>1. n \in Nat /\ 0 \in 0..n-1 /\ n - 1 \in 0..n-1
  BY DEF Rising
<1>2. lo \in Int /\ hi \in Int
  BY <1>1, DatesRise
<1>3. \A k \in 0..n-1 : DateIn(p, b, k) \in lo..hi
  <2> TAKE k \in 0..n-1
  <2>1. DateIn(p, b, k) \in Int /\ (0 <= k => lo <= DateIn(p, b, k)) /\ (k <= n - 1 => DateIn(p, b, k) <= hi)
    BY <1>1, DatesRise
  <2> HIDE DEF lo, hi
  <2> QED BY <1>1, <1>2, <2>1
<1>4. S \subseteq lo..hi /\ DateIn(p, b, j) \in S
  BY <1>3 DEF DatesIn
<1> HIDE DEF S, lo, hi
<1>5. Highest(S) \in S /\ \A y \in S : Highest(S) >= y
  BY <1>2, <1>4, EndsOf
<1> QED BY <1>2, <1>4, <1>5 DEF S

LEMMA SubsetEnds ==
  ASSUME NEW n \in Nat, NEW D, D \subseteq 0..n-1, D # {}
  PROVE  Lowest(D) \in D /\ Highest(D) \in D
<1>1. 0 \in Int /\ n - 1 \in Int
  OBVIOUS
<1> QED BY <1>1, EndsOf

(* The dates before the day, which of them are short, and the bars of each *)
(* are settled.                                                            *)
LEMMA EarlierDates ==
  ASSUME NEW p, Clocked(p), NEW b, NEW n, NEW c, NEW m, Prolongs(b, n, c, m), NEW day, Come(p, b, n, day)
  PROVE  PriorIn(p, b, n, day) = PriorIn(p, c, m, day)
<1>1. /\ \A j \in 0..n-1 : DateIn(p, b, j) = DateIn(p, c, j) /\ j \in 0..m-1
      /\ \A j \in 0..m-1 : DateIn(p, c, j) < day => j \in 0..n-1
      /\ \A j \in 0..m-1 : DateIn(p, c, j) \in Int
  BY EarlierBars
<1>2. n \in Nat /\ m \in Nat /\ Rising(c, m) /\ \A j \in 0..n-1 : c[j + 1] = b[j + 1]
  BY DEF Prolongs, Rising
<1>3. Rising(b, n)
  BY <1>2 DEF Prolongs, Rising
<1>4. PICK k \in 0..n-1 : DateIn(p, b, k) = day
  BY DEF Come
<1>5. day \in Int
  BY DEF Come
<1>6. Highest(DatesIn(p, b, n)) \in Int /\ Highest(DatesIn(p, b, n)) >= day
  BY <1>3, <1>4, HighestDate
<1>7. Highest(DatesIn(p, c, m)) \in Int /\ Highest(DatesIn(p, c, m)) >= day
  <2>1. DateIn(p, c, k) = day /\ k \in 0..m-1
    BY <1>1, <1>4
  <2> QED BY <1>2, <2>1, HighestDate
<1>8. ASSUME NEW d, d < day, d \in Int
      PROVE  /\ d \in DatesIn(p, b, n) <=> d \in DatesIn(p, c, m)
             /\ BarsIn(p, b, n, d) = BarsIn(p, c, m, d)
  BY <1>1, <1>8 DEF DatesIn, BarsIn
<1>9. ASSUME NEW d, d < day, d \in Int, d \in DatesIn(p, b, n)
      PROVE  ShortIn(p, b, n, d) <=> ShortIn(p, c, m, d)
  <2> DEFINE D == BarsIn(p, b, n, d)
  <2>1. D = BarsIn(p, c, m, d)
    BY <1>8, <1>9
  <2>2. D \subseteq 0..n-1 /\ D # {}
    BY <1>9 DEF BarsIn, DatesIn
  <2> HIDE DEF D
  <2>3. Lowest(D) \in 0..n-1 /\ Highest(D) \in 0..n-1
    BY <1>2, <2>2, SubsetEnds
  <2>4. SpanIn(b, D) = SpanIn(c, D)
    BY <1>2, <2>3 DEF SpanIn
  <2>5. d # Highest(DatesIn(p, b, n)) /\ d # Highest(DatesIn(p, c, m))
    BY <1>5, <1>6, <1>7, <1>9
  <2> QED BY <2>1, <2>4, <2>5 DEF ShortIn, D
<1>10. \A d \in DatesIn(p, b, n) : d \in Int
  BY <1>1 DEF DatesIn
<1>11. \A d \in DatesIn(p, c, m) : d \in Int
  BY <1>1 DEF DatesIn
<1>12. \A d : d \in PriorIn(p, b, n, day) <=> d \in PriorIn(p, c, m, day)
  <2> TAKE d
  <2>1. d \in PriorIn(p, b, n, day) <=> d \in DatesIn(p, b, n) /\ ~ShortIn(p, b, n, d) /\ d < day
    BY DEF PriorIn, TradingIn, Before
  <2>2. d \in PriorIn(p, c, m, day) <=> d \in DatesIn(p, c, m) /\ ~ShortIn(p, c, m, d) /\ d < day
    BY DEF PriorIn, TradingIn, Before
  <2> QED BY <1>8, <1>9, <1>10, <1>11, <2>1, <2>2
<1> QED BY <1>12 DEF PriorIn, Before

(* So is each trading day before it, which has a bar.                      *)
LEMMA EarlierDay ==
  ASSUME NEW p, Clocked(p), NEW b, NEW n, NEW c, NEW m, Prolongs(b, n, c, m), NEW day, Come(p, b, n, day),
         NEW d \in PriorIn(p, b, n, day)
  PROVE  /\ d \in Int /\ Before(TradingIn(p, b, n), d) = Before(TradingIn(p, c, m), d)
         /\ Before(TradingIn(p, b, n), d) = {e \in PriorIn(p, b, n, day) : e < d}
         /\ DayIn(p, b, n, d) = DayIn(p, c, m, d)
         /\ DayIn(p, b, n, d) \subseteq 0..n-1 /\ DayIn(p, b, n, d) # {}
<1>1. /\ \A j \in 0..n-1 : DateIn(p, b, j) = DateIn(p, c, j) /\ j \in 0..m-1
      /\ \A j \in 0..m-1 : DateIn(p, c, j) < day => j \in 0..n-1
      /\ \A j \in 0..m-1 : DateIn(p, c, j) \in Int
  BY EarlierBars
<1>2. PriorIn(p, b, n, day) = PriorIn(p, c, m, day)
  BY EarlierDates
<1>3. d \in DatesIn(p, b, n) /\ d < day /\ day \in Int
  BY DEF PriorIn, Before, TradingIn, Come
<1>4. \A e \in DatesIn(p, b, n) \cup DatesIn(p, c, m) : e \in Int
  BY <1>1 DEF DatesIn
<1>5. d \in Int
  BY <1>3, <1>4
<1>6. \A e \in TradingIn(p, b, n) : e \in Int
  BY <1>4 DEF TradingIn
<1>7. \A e \in TradingIn(p, c, m) : e \in Int
  BY <1>4 DEF TradingIn
<1>k. ASSUME NEW S, \A e \in S : e \in Int
      PROVE  Before(S, d) = {e \in Before(S, day) : e < d}
  <2>1. \A e : e \in S /\ e < d => e < day
    BY <1>3, <1>5, <1>k
  <2> QED BY <2>1 DEF Before
<1>8. Before(TradingIn(p, b, n), d) = {e \in PriorIn(p, b, n, day) : e < d}
  BY <1>6, <1>k DEF PriorIn
<1>9. Before(TradingIn(p, c, m), d) = {e \in PriorIn(p, c, m, day) : e < d}
  BY <1>7, <1>k DEF PriorIn
<1> DEFINE earlier == Before(TradingIn(p, b, n), d)
<1>10. earlier = Before(TradingIn(p, c, m), d)
  BY <1>2, <1>8, <1>9
<1>11. \A e \in earlier : e < d
  BY DEF Before
<1> HIDE DEF earlier
<1>12. DayIn(p, b, n, d) = {j \in 0..n-1 : DateIn(p, b, j) <= d /\ \A e \in earlier : e < DateIn(p, b, j)}
  BY DEF DayIn, earlier
<1>13. DayIn(p, c, m, d) = {j \in 0..m-1 : DateIn(p, c, j) <= d /\ \A e \in earlier : e < DateIn(p, c, j)}
  BY <1>10 DEF DayIn
<1>14. \A j \in 0..m-1 : DateIn(p, c, j) <= d => j \in 0..n-1
  BY <1>1, <1>3, <1>5
<1>15. DayIn(p, b, n, d) = DayIn(p, c, m, d)
  BY <1>1, <1>12, <1>13, <1>14
<1>16. DayIn(p, b, n, d) \subseteq 0..n-1
  BY <1>12
<1>17. DayIn(p, b, n, d) # {}
  <2>1. PICK j \in 0..n-1 : DateIn(p, b, j) = d
    BY <1>3 DEF DatesIn
  <2> QED BY <1>5, <1>11, <1>12, <2>1
<1> QED BY <1>5, <1>8, <1>10, <1>15, <1>16, <1>17 DEF earlier

(* The prices of bars that both series have are the same.                  *)
Alike(p, b, c, D) ==
  /\ HighIn(p, b, D) = HighIn(p, c, D) /\ LowIn(p, b, D) = LowIn(p, c, D)
  /\ OpenIn(p, b, D) = OpenIn(p, c, D) /\ CloseIn(p, b, D) = CloseIn(p, c, D)

LEMMA SamePrices ==
  ASSUME NEW p, NEW b, NEW n, NEW c, NEW m, Prolongs(b, n, c, m), NEW D, D \subseteq 0..n-1, D # {}
  PROVE  Alike(p, b, c, D)
<1>1. n \in Nat /\ \A j \in 0..n-1 : CandleIn(p, b, j) = CandleIn(p, c, j)
  BY DEF Prolongs, CandleIn
<1>2. Lowest(D) \in 0..n-1 /\ Highest(D) \in 0..n-1
  BY <1>1, SubsetEnds
<1>3. /\ {CandleIn(p, b, j).H : j \in D} = {CandleIn(p, c, j).H : j \in D}
      /\ {CandleIn(p, b, j).L : j \in D} = {CandleIn(p, c, j).L : j \in D}
  BY <1>1
<1>4. HighIn(p, b, D) = HighIn(p, c, D) /\ LowIn(p, b, D) = LowIn(p, c, D)
  BY <1>3 DEF HighIn, LowIn
<1> QED BY <1>1, <1>2, <1>4 DEF Alike, OpenIn, CloseIn

(* Of more dates than the average takes, its first has one before it.      *)
LEMMA NewestFollows ==
  ASSUME NEW S, IsFiniteSet(S), S \subseteq Int, NEW k \in Nat, Cardinality(S) > k, NEW d \in Newest(S, k)
  PROVE  {e \in S : e < d} # {}
<1> DEFINE later == {e \in S : e > d}
<1>1. d \in S /\ d \in Int /\ Cardinality(later) < k
  BY DEF Newest
<1> SUFFICES ASSUME {e \in S : e < d} = {} PROVE FALSE
  OBVIOUS
<1>2. S = later \cup {d}
  <2>1. \A e \in S : e \in Int /\ ~(e < d)
    OBVIOUS
  <2>2. \A e \in S : e > d \/ e = d
    BY <1>1, <2>1
  <2> QED BY <1>1, <2>2
<1>3. IsFiniteSet(later) /\ d \notin later
  <2>1. later \subseteq S
    OBVIOUS
  <2> QED BY <1>1, <2>1, FS_Subset
<1> HIDE DEF later
<1>4. Cardinality(S) = Cardinality(later) + 1
  BY <1>2, <1>3, FS_AddElement
<1>5. Cardinality(later) \in Nat
  BY <1>3, FS_CardinalityType
<1> QED BY <1>1, <1>4, <1>5

LEMMA PriorFinite ==
  ASSUME NEW p, Clocked(p), NEW b, NEW n, Rising(b, n), NEW day
  PROVE  IsFiniteSet(PriorIn(p, b, n, day)) /\ \A d \in PriorIn(p, b, n, day) : d \in Int
<1> DEFINE lo == DateIn(p, b, 0)
           hi == DateIn(p, b, n - 1)
<1>1. CASE n = 0
  <2>1. PriorIn(p, b, n, day) = {}
    BY <1>1 DEF PriorIn, Before, TradingIn, DatesIn
  <2> QED BY <2>1, FS_EmptySet
<1>2. CASE n # 0
  <2>1. n \in Nat /\ 0 \in 0..n-1 /\ n - 1 \in 0..n-1
    BY <1>2 DEF Rising
  <2>2. lo \in Int /\ hi \in Int
    BY <2>1, DatesRise
  <2>3. \A k \in 0..n-1 : DateIn(p, b, k) \in lo..hi
    <3> TAKE k \in 0..n-1
    <3>1. DateIn(p, b, k) \in Int /\ (0 <= k => lo <= DateIn(p, b, k)) /\ (k <= n - 1 => DateIn(p, b, k) <= hi)
      BY <2>1, DatesRise
    <3> HIDE DEF lo, hi
    <3> QED BY <2>1, <2>2, <3>1
  <2>4. PriorIn(p, b, n, day) \subseteq lo..hi
    BY <2>3 DEF PriorIn, Before, TradingIn, DatesIn
  <2> HIDE DEF lo, hi
  <2>5. IsFiniteSet(lo..hi)
    BY <2>2, FS_Interval
  <2> QED BY <2>2, <2>4, <2>5, FS_Subset
<1> QED BY <1>1, <1>2

LEMMA PriorEnds ==
  ASSUME NEW p, Clocked(p), NEW b, NEW n, Rising(b, n), NEW day, NEW S, S \subseteq PriorIn(p, b, n, day), S # {}
  PROVE  Highest(S) \in S
<1> DEFINE lo == DateIn(p, b, 0)
           hi == DateIn(p, b, n - 1)
<1>1. n # 0
  BY DEF PriorIn, Before, TradingIn, DatesIn
<1>2. n \in Nat /\ 0 \in 0..n-1 /\ n - 1 \in 0..n-1
  BY <1>1 DEF Rising
<1>3. lo \in Int /\ hi \in Int
  BY <1>2, DatesRise
<1>4. \A k \in 0..n-1 : DateIn(p, b, k) \in lo..hi
  <2> TAKE k \in 0..n-1
  <2>1. DateIn(p, b, k) \in Int /\ (0 <= k => lo <= DateIn(p, b, k)) /\ (k <= n - 1 => DateIn(p, b, k) <= hi)
    BY <1>2, DatesRise
  <2> HIDE DEF lo, hi
  <2> QED BY <1>2, <1>3, <2>1
<1>5. S \subseteq lo..hi
  BY <1>4 DEF PriorIn, Before, TradingIn, DatesIn
<1> HIDE DEF lo, hi
<1> QED BY <1>3, <1>5, EndsOf

(* So what the gates of the day read is what they read later on.           *)
LEMMA InputsSettled ==
  ASSUME NEW p, Clocked(p), p.atrDays \in Nat,
         NEW b, NEW n, NEW c, NEW m, Prolongs(b, n, c, m), NEW day, Come(p, b, n, day)
  PROVE  InputsIn(p, b, n, day) = InputsIn(p, c, m, day)
<1> DEFINE prior == PriorIn(p, b, n, day)
<1>1. prior = PriorIn(p, c, m, day)
  BY EarlierDates
<1>2. Rising(b, n)
  BY DEF Prolongs, Rising
<1>3. ASSUME NEW d \in prior
      PROVE  /\ DayIn(p, b, n, d) = DayIn(p, c, m, d)
             /\ DayIn(p, b, n, d) \subseteq 0..n-1 /\ DayIn(p, b, n, d) # {}
             /\ Before(TradingIn(p, b, n), d) = Before(TradingIn(p, c, m), d)
             /\ Before(TradingIn(p, b, n), d) = {e \in prior : e < d}
  BY EarlierDay
<1>4. ASSUME NEW D, D \subseteq 0..n-1, D # {}
      PROVE  Alike(p, b, c, D)
  BY <1>4, SamePrices, Zenon
<1>5. IsFiniteSet(prior) /\ \A d \in prior : d \in Int
  BY <1>2, PriorFinite
<1>6. ASSUME NEW S, S \subseteq prior, S # {} PROVE Highest(S) \in S
  BY <1>2, <1>6, PriorEnds
<1> HIDE DEF prior
<1>7. ASSUME NEW d \in prior, {e \in prior : e < d} # {}
      PROVE  RangeIn(p, b, n, d) = RangeIn(p, c, m, d)
  <2> DEFINE S == {e \in prior : e < d}
             before == Highest(S)
             D == DayIn(p, b, n, d)
             E == DayIn(p, b, n, before)
  <2>1. S \subseteq prior /\ S # {}
    BY <1>7
  <2>2. before \in prior
    <3> HIDE DEF S
    <3> QED BY <1>6, <2>1
  <2>3. S = Before(TradingIn(p, b, n), d) /\ S = Before(TradingIn(p, c, m), d)
    BY <1>3, <1>7
  <2>4. D = DayIn(p, c, m, d) /\ D \subseteq 0..n-1 /\ D # {}
    BY <1>3, <1>7
  <2> HIDE DEF S
  <2>5. E = DayIn(p, c, m, before) /\ E \subseteq 0..n-1 /\ E # {}
    BY <1>3, <2>2
  <2>6. RangeIn(p, b, n, d) = TrueRangeIn(p, b, D, E) /\ RangeIn(p, c, m, d) = TrueRangeIn(p, c, D, E)
    BY <2>3, <2>4, <2>5 DEF RangeIn
  <2> HIDE DEF D, E
  <2>7. /\ HighIn(p, b, D) = HighIn(p, c, D) /\ LowIn(p, b, D) = LowIn(p, c, D)
        /\ CloseIn(p, b, E) = CloseIn(p, c, E)
    BY <1>4, <2>4, <2>5 DEF Alike
  <2> QED BY <2>6, <2>7 DEF TrueRangeIn
<1>8. ATRIn(p, b, n, prior) = ATRIn(p, c, m, prior)
  <2>1. CASE Cardinality(prior) <= p.atrDays
    BY <2>1 DEF ATRIn
  <2>2. CASE ~(Cardinality(prior) <= p.atrDays)
    <3> DEFINE N == Newest(prior, p.atrDays)
    <3>1. Cardinality(prior) \in Nat
      BY <1>5, FS_CardinalityType
    <3>2. Cardinality(prior) > p.atrDays
      BY <2>2, <3>1
    <3>3. prior \subseteq Int
      BY <1>5
    <3>4. \A d \in N : d \in prior
      BY DEF Newest
    <3>5. \A d \in N : {e \in prior : e < d} # {}
      BY <1>5, <3>2, <3>3, NewestFollows
    <3> HIDE DEF N
    <3>6. \A d \in N : RangeIn(p, b, n, d) = RangeIn(p, c, m, d)
      BY <1>7, <3>4, <3>5
    <3>7. [d \in N |-> RangeIn(p, b, n, d)] = [d \in N |-> RangeIn(p, c, m, d)]
      BY <3>6
    <3> QED BY <2>2, <3>7 DEF ATRIn, N
  <2> QED BY <2>1, <2>2
<1>9. ColourIn(p, b, n, prior) = ColourIn(p, c, m, prior)
  <2>1. CASE prior = {}
    BY <2>1 DEF ColourIn
  <2>2. CASE prior # {}
    <3> DEFINE D == DayIn(p, b, n, Highest(prior))
    <3>1. Highest(prior) \in prior
      BY <1>6, <2>2
    <3>2. D = DayIn(p, c, m, Highest(prior)) /\ D \subseteq 0..n-1 /\ D # {}
      BY <1>3, <3>1
    <3>3. OpenIn(p, b, D) = OpenIn(p, c, D) /\ CloseIn(p, b, D) = CloseIn(p, c, D)
      <4> HIDE DEF D
      <4> QED BY <1>4, <3>2 DEF Alike
    <3> QED BY <2>2, <3>2, <3>3 DEF ColourIn
  <2> QED BY <2>1, <2>2
<1> QED BY <1>1, <1>8, <1>9 DEF InputsIn, prior

(* The invariant: the bars rise, and a day whose row has daily inputs has  *)
(* come, with the inputs that the series so far gives it.                  *)
DayRow(r) == \E day, x, o : r = [day |-> day, daily |-> x, outcome |-> o]
InputsKept(p, b, n, r) ==
  r.daily # NotRead => Come(p, b, n, r.day) /\ r.daily = InputsIn(p, b, n, r.day)
RowsCausal(p, b, n, a) ==
  /\ Listing(a)
  /\ \A k \in DOMAIN a : DayRow(a[k]) /\ InputsKept(p, b, n, a[k])
CausalKept ==
  loop.kind = "clock" =>
    /\ ValidClockRange(loop)
    /\ Listing(bars) /\ Rising(bars, Len(bars))
    /\ RowsCausal(loop, bars, Len(bars), audits)

LEMMA ClockedRun ==
  ASSUME loop \in LoopRuns, loop.kind = "clock"
  PROVE  Clocked(loop) /\ loop.atrDays \in Nat
BY LoopsAssumption DEF Clocked

LEMMA StaysKept ==
  ASSUME NEW p, Clocked(p), p.atrDays \in Nat,
         NEW b, NEW n, NEW c, NEW m, Prolongs(b, n, c, m), NEW r, InputsKept(p, b, n, r)
  PROVE  InputsKept(p, c, m, r)
<1> SUFFICES ASSUME r.daily # NotRead
             PROVE  Come(p, c, m, r.day) /\ r.daily = InputsIn(p, c, m, r.day)
  BY DEF InputsKept
<1>1. Come(p, b, n, r.day) /\ r.daily = InputsIn(p, b, n, r.day)
  BY DEF InputsKept
<1>2. InputsIn(p, b, n, r.day) = InputsIn(p, c, m, r.day)
  BY <1>1, InputsSettled
<1>3. PICK j \in 0..n-1 : DateIn(p, b, j) = r.day
  BY <1>1 DEF Come
<1>4. DateIn(p, b, j) = DateIn(p, c, j) /\ j \in 0..m-1
  BY <1>1, EarlierBars
<1> QED BY <1>1, <1>2, <1>3, <1>4 DEF Come

(* A bar more.                                                             *)
LEMMA RisingMore ==
  ASSUME NEW b, NEW n, Rising(b, n), NEW c, \A j \in 0..n-1 : c[j + 1] = b[j + 1],
         c[n + 1].t \in Int, n # 0 => b[n].t < c[n + 1].t
  PROVE  Prolongs(b, n, c, n + 1)
<1>1. n \in Nat /\ 0..(n + 1)-1 = 0..n /\ \A j \in 0..n : j \in 0..n-1 \/ j = n
  BY DEF Rising
<1>2. \A j \in 0..n-1 : c[j + 1].t \in Int
  BY DEF Rising
<1>3. ASSUME NEW j \in 0..n-1 PROVE c[j + 1].t < c[n + 1].t
  <2>1. n # 0 /\ n - 1 \in 0..n-1 /\ n - 1 + 1 = n
    BY <1>1
  <2>2. b[j + 1].t \in Int /\ b[n].t \in Int
    BY <2>1 DEF Rising
  <2>3. j = n - 1 \/ j < n - 1
    BY <1>1
  <2>4. b[j + 1].t < b[n].t \/ b[j + 1] = b[n]
    BY <2>1, <2>3 DEF Rising
  <2>5. c[j + 1] = b[j + 1]
    OBVIOUS
  <2> QED BY <2>1, <2>2, <2>4, <2>5
<1>4. ASSUME NEW j \in 0..n, NEW k \in 0..n, j < k PROVE c[j + 1].t < c[k + 1].t
  <2>1. j \in 0..n-1
    BY <1>1, <1>4
  <2>2. CASE k = n
    BY <1>3, <2>1, <2>2
  <2>3. CASE k \in 0..n-1
    BY <1>4, <2>1, <2>3 DEF Rising
  <2> QED BY <1>1, <2>2, <2>3
<1>5. \A j \in 0..n : c[j + 1].t \in Int
  BY <1>1, <1>2
<1>6. Rising(c, n + 1)
  <2>1. n + 1 \in Nat
    BY <1>1
  <2> QED BY <1>1, <1>4, <1>5, <2>1 DEF Rising
<1> QED BY <1>1, <1>6 DEF Prolongs

LEMMA BarComes ==
  ASSUME Listing(bars), Rising(bars, Len(bars)), loop \in LoopRuns, loop.kind = "clock", NewBar
  PROVE  /\ Listing(bars') /\ Len(bars') = Len(bars) + 1
         /\ Prolongs(bars, Len(bars), bars', Len(bars'))
<1>1. PICK gap \in loop.series[Len(bars) + 1].gaps, c \in loop.series[Len(bars) + 1].candles :
        bars' = Append(bars, [t |-> IF bars = << >> THEN loop.first ELSE T(i) + gap, c |-> c])
  BY Zenon DEF NewBar
<1>2. Len(bars) < Len(loop.series)
  BY DEF NewBar
<1>3. \E x : bars' = Append(bars, x) /\ x.t = IF bars = << >> THEN loop.first ELSE T(i) + gap
  BY <1>1
<1>4. PICK x : bars' = Append(bars, x) /\ x.t = IF bars = << >> THEN loop.first ELSE T(i) + gap
  BY <1>3
<1>5. /\ Listing(bars') /\ Len(bars) \in Nat /\ Len(bars') = Len(bars) + 1
      /\ \A k \in 1..Len(bars) : bars'[k] = bars[k]
      /\ bars'[Len(bars) + 1] = x
  BY <1>4, AppendIs
<1>6. loop.first \in Int /\ gap \in Nat \ {0}
  <2>1. /\ {loop.first, loop.offset} \subseteq Int /\ Len(loop.series) \in Nat
        /\ \A k \in 1..Len(loop.series) : loop.series[k].gaps \subseteq Nat \ {0}
    BY LoopsAssumption
  <2>2. Len(bars) + 1 \in 1..Len(loop.series)
    BY <1>2, <1>5, <2>1
  <2> QED BY <2>1, <2>2
<1>7. bars = << >> <=> Len(bars) = 0
  <2>1. PICK S : bars \in Seq(S)
    BY DEF Listing
  <2> QED BY <2>1, EmptySeq
<1>8. x.t \in Int /\ (Len(bars) # 0 => bars[Len(bars)].t < x.t)
  <2>1. CASE Len(bars) = 0
    BY <1>4, <1>6, <1>7, <2>1
  <2>2. CASE Len(bars) # 0
    <3>1. x.t = bars[Len(bars)].t + gap
      BY <1>4, <1>5, <1>7, <2>2 DEF T, i
    <3>2. bars[Len(bars)].t \in Int
      <4>1. Len(bars) - 1 \in 0..Len(bars)-1 /\ Len(bars) - 1 + 1 = Len(bars)
        BY <1>5, <2>2
      <4> QED BY <4>1 DEF Rising
    <3> QED BY <1>6, <3>1, <3>2
  <2> QED BY <2>1, <2>2
<1>9. \A j \in 0..Len(bars)-1 : bars'[j + 1] = bars[j + 1]
  BY <1>5
<1> QED BY <1>5, <1>8, <1>9, RisingMore

LEMMA BarCausal ==
  ASSUME CausalKept, loop \in LoopRuns, NewBar
  PROVE  CausalKept'
<1> SUFFICES ASSUME loop.kind = "clock" PROVE CausalKept'
  BY DEF NewBar, CausalKept
<1>1. loop' = loop /\ audits' = audits
  BY DEF NewBar
<1>2. /\ Listing(bars') /\ Len(bars') = Len(bars) + 1
      /\ Prolongs(bars, Len(bars), bars', Len(bars'))
  BY BarComes DEF CausalKept
<1>3. RowsCausal(loop, bars, Len(bars), audits)
  BY DEF CausalKept
<1>4. ASSUME NEW k \in DOMAIN audits PROVE InputsKept(loop, bars', Len(bars'), audits[k])
  <2>1. InputsKept(loop, bars, Len(bars), audits[k])
    BY <1>3 DEF RowsCausal
  <2> QED BY <1>2, <2>1, ClockedRun, StaysKept
<1>5. RowsCausal(loop, bars', Len(bars'), audits)
  BY <1>3, <1>4 DEF RowsCausal
<1>6. ValidClockRange(loop)'
  BY <1>1 DEF CausalKept, ValidClockRange, ResolvedWall
<1> QED BY <1>1, <1>2, <1>5, <1>6 DEF CausalKept, Prolongs

(* A row that changes its outcome, and a row more.                         *)
LEMMA RowTurned ==
  ASSUME NEW p, NEW b, NEW n, NEW a, RowsCausal(p, b, n, a), NEW k, NEW o
  PROVE  RowsCausal(p, b, n, [a EXCEPT ![k].outcome = o])
<1> DEFINE c == [a EXCEPT ![k].outcome = o]
<1>1. Listing(a) /\ \A m \in DOMAIN a : DayRow(a[m]) /\ InputsKept(p, b, n, a[m])
  BY DEF RowsCausal
<1>2. DOMAIN c = DOMAIN a
  OBVIOUS
<1>3. \A m \in DOMAIN a : c[m] = IF m = k THEN [a[m] EXCEPT !.outcome = o] ELSE a[m]
  OBVIOUS
<1>4. Listing(c)
  <2>1. PICK S : a \in Seq(S)
    BY <1>1 DEF Listing
  <2> DEFINE r == [a[k] EXCEPT !.outcome = o]
  <2>2. c = [a EXCEPT ![k] = r]
    OBVIOUS
  <2> HIDE DEF r, c
  <2>3. CASE k \in DOMAIN a
    <3>1. a \in Seq(S \cup {r}) /\ k \in 1 .. Len(a) /\ r \in S \cup {r}
      BY <2>1, <2>3
    <3>2. c \in Seq(S \cup {r})
      BY <2>2, <3>1
    <3> QED BY <3>2 DEF Listing
  <2>4. CASE k \notin DOMAIN a
    <3>1. c = a
      BY <2>1, <2>2, <2>4
    <3> QED BY <1>1, <3>1
  <2> QED BY <2>3, <2>4
<1> HIDE DEF c
<1>5. ASSUME NEW m \in DOMAIN a
      PROVE  DayRow(c[m]) /\ InputsKept(p, b, n, c[m])
  <2>1. CASE m # k
    <3>1. c[m] = a[m]
      BY <1>3, <2>1
    <3> QED BY <1>1, <3>1
  <2>2. CASE m = k
    <3>1. PICK day, x, q : a[m] = [day |-> day, daily |-> x, outcome |-> q]
      BY <1>1 DEF DayRow
    <3>2. c[m] = [a[m] EXCEPT !.outcome = o]
      BY <1>3, <2>2
    <3>3. c[m] = [day |-> day, daily |-> x, outcome |-> o]
      BY <3>1, <3>2
    <3>4. c[m].day = a[m].day /\ c[m].daily = a[m].daily
      BY <3>1, <3>3
    <3>5. InputsKept(p, b, n, c[m])
      <4>1. InputsKept(p, b, n, a[m])
        BY <1>1
      <4> QED BY <3>4, <4>1 DEF InputsKept
    <3>6. DayRow(c[m])
      BY <3>3 DEF DayRow
    <3> QED BY <3>5, <3>6
  <2> QED BY <2>1, <2>2
<1> QED BY <1>2, <1>4, <1>5 DEF RowsCausal, c

LEMMA RowAdded ==
  ASSUME NEW p, NEW b, NEW n, NEW a, RowsCausal(p, b, n, a), NEW r, DayRow(r), InputsKept(p, b, n, r)
  PROVE  RowsCausal(p, b, n, Append(a, r))
<1> DEFINE c == Append(a, r)
<1>1. Listing(a) /\ \A m \in DOMAIN a : DayRow(a[m]) /\ InputsKept(p, b, n, a[m])
  BY DEF RowsCausal
<1>2. /\ Listing(c) /\ Len(a) \in Nat
      /\ DOMAIN a = 1 .. Len(a) /\ DOMAIN c = 1 .. Len(a) + 1
      /\ \A m \in 1 .. Len(a) : c[m] = a[m]
      /\ c[Len(a) + 1] = r
  BY <1>1, AppendIs
<1> HIDE DEF c
<1>3. \A m \in DOMAIN c : DayRow(c[m]) /\ InputsKept(p, b, n, c[m])
  <2>1. \A m \in DOMAIN c : m \in DOMAIN a \/ m = Len(a) + 1
    BY <1>2
  <2> QED BY <1>1, <1>2, <2>1
<1> QED BY <1>2, <1>3 DEF RowsCausal, c

LEMMA RowsTell ==
  ASSUME CausalKept, loop' = loop, bars' = bars,
         loop.kind = "clock" => RowsCausal(loop, bars, Len(bars), audits')
  PROVE  CausalKept'
<1>1. loop.kind = "clock" => ValidClockRange(loop)'
  BY DEF CausalKept, ValidClockRange, ResolvedWall
<1> QED BY <1>1 DEF CausalKept

(* A range that is placed ended with a bar of its day.                     *)
LEMMA RangeCame ==
  ASSUME CausalKept, loop \in LoopRuns, loop.kind = "clock", NEW day \in Int,
         NEW n \in Int, n <= Len(bars), RangeDefect(day, n, RangeBars(day, n)) = "none"
  PROVE  n \in Nat /\ Come(loop, bars, n, day)
<1>1. RangeBars(day, n) # {} /\ T(n - 1) = RangeEnd(day) - 1
  BY DEF RangeDefect
<1>2. n - 1 \in 0..n-1 /\ n \in Nat
  <2>1. Len(bars) \in Nat
    BY DEF CausalKept, Rising
  <2>2. n > 0
    BY <1>1 DEF RangeBars
  <2> QED BY <2>1, <2>2
<1> DEFINE len == loop.dayLength
           m == day * len
           e == loop.rangeEnd - 1
<1>3. /\ loop.offset \in Int /\ len \in Nat \ {0} /\ e \in Int /\ 0 <= e /\ e < len
  <2>1. /\ loop.rangeStart \in 0..len-1 /\ loop.rangeEnd \in 0..len-1
        /\ loop.rangeStart < loop.rangeEnd
    BY DEF CausalKept, ValidClockRange
  <2>2. loop.offset \in Int /\ len \in Nat \ {0}
    BY LoopsAssumption
  <2> QED BY <2>1, <2>2
<1>4. T(n - 1) = m - loop.offset + loop.rangeEnd - 1
  <2>1. RangeEnd(day) = m - loop.offset + loop.rangeEnd
    BY DEF RangeEnd, At
  <2>2. m \in Int /\ loop.rangeEnd \in Int
    BY <1>3 DEF CausalKept, ValidClockRange
  <2> HIDE DEF m
  <2> QED BY <1>1, <1>3, <2>1, <2>2
<1>5. T(n - 1) + loop.offset = m + e
  <2>1. m \in Int /\ loop.rangeEnd \in Int
    BY <1>3 DEF CausalKept, ValidClockRange
  <2> HIDE DEF m
  <2> QED BY <1>3, <1>4, <2>1
<1>6. (m + e) \div len = day
  <2>1. m + e \in Int /\ m \in Int
    BY <1>3
  <2> DEFINE q == (m + e) \div len
  <2>2. q \in Int /\ q * len <= m + e /\ m + e < (q + 1) * len
    BY <1>3, <2>1, DivBetween
  <2> HIDE DEF q
  <2>3. ~(q < day)
    <3> SUFFICES ASSUME q < day PROVE FALSE
      OBVIOUS
    <3>1. q + 1 <= day /\ q + 1 \in Int
      BY <2>2
    <3>2. (q + 1) * len <= day * len
      BY <1>3, <3>1, TimesRise
    <3>3. (q + 1) * len \in Int /\ day * len \in Int
      BY <1>3, <3>1
    <3> HIDE DEF len, e
    <3> QED BY <1>3, <2>2, <3>2, <3>3
  <2>4. ~(q > day)
    <3> SUFFICES ASSUME q > day PROVE FALSE
      OBVIOUS
    <3>1. day + 1 <= q /\ day + 1 \in Int
      BY <2>2
    <3>2. (day + 1) * len <= q * len
      BY <1>3, <2>2, <3>1, TimesRise
    <3>3. (day + 1) * len = day * len + len
      BY <1>3
    <3>4. day * len \in Int /\ q * len \in Int
      BY <1>3, <2>2
    <3> HIDE DEF len, e
    <3> QED BY <1>3, <2>2, <3>2, <3>3, <3>4
  <2> QED BY <2>2, <2>3, <2>4 DEF q
<1>7. DateIn(loop, bars, n - 1) = day
  BY <1>5, <1>6 DEF DateIn, T
<1> QED BY <1>2, <1>7 DEF Come

LEMMA AuditedCausal ==
  ASSUME CausalKept, loop.kind = "clock", NEW o
  PROVE  RowsCausal(loop, bars, Len(bars), Audited(Len(audits), o))
<1>1. RowsCausal(loop, bars, Len(bars), audits)
  BY DEF CausalKept
<1> QED BY <1>1, RowTurned DEF Audited

LEMMA ExpiredCausal ==
  ASSUME CausalKept, loop.kind = "clock"
  PROVE  RowsCausal(loop, bars, Len(bars), ExpiredAudits)
<1>1. RowsCausal(loop, bars, Len(bars), audits)
  BY DEF CausalKept
<1> QED BY <1>1, AuditedCausal DEF ExpiredAudits

LEMMA PlaceCausal ==
  ASSUME CausalKept, loop \in LoopRuns, loop.kind = "clock", loop' = loop, bars' = bars,
         mark.next \in Int, NEW n \in Int, n <= Len(bars), PlaceOrders(mark.next, n)
  PROVE  CausalKept'
<1> DEFINE day == mark.next
<1>1. PICK R \in {RangeBars(day, n)}, defect \in {RangeDefect(day, n, RangeBars(day, n))} :
        IF defect # "none" THEN RecordDay(day, NotRead, defect) /\ order' = NoOrder
        ELSE PlaceRange(day, R, DailyInputs(n, day))
  BY Zenon DEF PlaceOrders
<1>2. ASSUME NEW daily, NEW outcome, RecordDay(day, daily, outcome),
             daily # NotRead => Come(loop, bars, Len(bars), day) /\ daily = InputsIn(loop, bars, Len(bars), day)
      PROVE  CausalKept'
  <2> DEFINE r == [day |-> day, daily |-> daily, outcome |-> outcome]
  <2>1. audits' = Append(ExpiredAudits, r)
    BY <1>2 DEF RecordDay
  <2>2. DayRow(r) /\ InputsKept(loop, bars, Len(bars), r)
    BY <1>2 DEF DayRow, InputsKept
  <2> HIDE DEF r
  <2>3. RowsCausal(loop, bars, Len(bars), ExpiredAudits)
    BY ExpiredCausal
  <2>4. RowsCausal(loop, bars, Len(bars), audits')
    BY <2>1, <2>2, <2>3, RowAdded
  <2> QED BY <2>4, RowsTell
<1>3. CASE defect # "none"
  <2>1. RecordDay(day, NotRead, defect)
    BY <1>1, <1>3
  <2> QED BY <1>2, <2>1
<1>4. CASE defect = "none"
  <2>1. PlaceRange(day, R, DailyInputs(n, day))
    BY <1>1, <1>4
  <2>2. \E outcome : RecordDay(day, DailyInputs(n, day), outcome)
    BY <2>1, Zenon DEF PlaceRange, PlaceDay
  <2>3. PICK outcome : RecordDay(day, DailyInputs(n, day), outcome)
    BY <2>2
  <2>4. n \in Nat /\ Come(loop, bars, n, day)
    BY <1>1, <1>4, RangeCame
  <2>5. Prolongs(bars, n, bars, Len(bars))
    BY <2>4 DEF CausalKept, Prolongs, Rising
  <2>6. Clocked(loop) /\ loop.atrDays \in Nat
    BY ClockedRun
  <2>7. DailyInputs(n, day) = InputsIn(loop, bars, Len(bars), day)
    BY <2>4, <2>5, <2>6, InputsAre, InputsSettled
  <2>8. Come(loop, bars, Len(bars), day)
    <3>1. \A j \in 0..n-1 : j \in 0..Len(bars)-1
      BY <2>4 DEF CausalKept, Rising
    <3> QED BY <2>4, <3>1 DEF Come
  <2> QED BY <1>2, <2>3, <2>7, <2>8
<1> QED BY <1>1, <1>3, <1>4

LEMMA ClockCausal ==
  ASSUME CausalKept, LoopKept, RowsKept, ClockBar
  PROVE  CausalKept'
<1>1. loop.kind = "clock" /\ loop \in LoopRuns /\ mark.next \in Int
  BY DEF ClockBar, RowsKept, ClockRows
<1>2. Len(bars) \in Nat /\ i = Len(bars) - 1
  BY <1>1 DEF CausalKept, Rising, i
<1>3. ASSUME loop' = loop, bars' = bars, audits' = audits PROVE CausalKept'
  BY <1>3, RowsTell DEF CausalKept
<1>4. ASSUME loop' = loop, bars' = bars, NEW o, audits' = Audited(Len(audits), o) PROVE CausalKept'
  BY <1>1, <1>4, AuditedCausal, RowsTell
<1>5. ASSUME loop' = loop, bars' = bars, audits' = ExpiredAudits PROVE CausalKept'
  BY <1>1, <1>5, ExpiredCausal, RowsTell
<1>6. CASE ClockMissed
  <2>1. loop' = loop /\ bars' = bars /\ PlaceOrders(mark.next, i)
    BY <1>6 DEF ClockMissed, Phase
  <2>2. i \in Int /\ i <= Len(bars)
    BY <1>2
  <2> QED BY <1>1, <2>1, <2>2, PlaceCausal
<1>7. CASE ClockOpen
  <2>1. loop' = loop /\ bars' = bars /\ (audits' = audits \/ audits' = ExpiredAudits)
    BY <1>7 DEF ClockOpen, Phase, AtOpen
  <2> QED BY <1>3, <1>5, <2>1
<1>8. CASE ClockHeld
  BY <1>3, <1>8 DEF ClockHeld, Phase
<1>9. CASE ClockUntouched
  BY <1>3, <1>9 DEF ClockUntouched, Phase
<1>10. CASE ClockTouched
  <2>1. loop' = loop /\ bars' = bars
    BY <1>10 DEF ClockTouched, Phase
  <2>2. \/ audits' = Audited(Len(audits), "opposite-triggered-first")
        \/ FillOrder(NearestSide, FillPrice(NearestSide))
    BY <1>10 DEF ClockTouched
  <2>3. \E o : audits' = Audited(Len(audits), o)
    BY <2>2, Zenon DEF FillOrder
  <2> QED BY <1>4, <2>1, <2>3
<1>11. CASE ClockRangeEnds
  <2>1. loop' = loop /\ bars' = bars /\ PlaceOrders(mark.next, i + 1)
    BY <1>11 DEF ClockRangeEnds, Phase
  <2>2. i + 1 \in Int /\ i + 1 <= Len(bars)
    BY <1>2
  <2> QED BY <1>1, <2>1, <2>2, PlaceCausal
<1>12. CASE ClockClosed
  BY <1>3, <1>12 DEF ClockClosed, Phase
<1> QED BY <1>6, <1>7, <1>8, <1>9, <1>10, <1>11, <1>12 DEF ClockBar

LEMMA StepsCausal == ASSUME LoopKept, RowsKept, CausalKept, [Next]_vars PROVE CausalKept'
<1>1. CASE UNCHANGED vars
  BY <1>1, RowsTell DEF CausalKept, vars
<1>2. loop \in LoopRuns
  BY DEF RowsKept
<1>3. CASE NewBar
  BY <1>2, <1>3, BarCausal
<1>4. CASE Ends
  <2>1. loop' = loop /\ bars' = bars /\ audits' = audits
    BY <1>4 DEF Ends, SeriesEnds
  <2> QED BY <2>1, RowsTell DEF CausalKept
<1>5. CASE ClockBar
  BY <1>5, ClockCausal
<1>6. ASSUME loop' = loop, loop.kind # "clock" PROVE CausalKept'
  BY <1>6 DEF CausalKept
<1>7. CASE CandleLoops \/ ScheduleLoops \/ ReversionLoops
  BY <1>6, <1>7, FlushSteps, FadeSteps, CrossSteps, LegacySteps, ShockSteps, ScheduledSteps, TimedSteps,
     SweepSteps, ReversionSteps, GoldSteps, FlagSteps
     DEF Step, CandleLoops, ScheduleLoops, ReversionLoops
<1> QED BY <1>1, <1>3, <1>4, <1>5, <1>7 DEF Next

LEMMA InitCausal == Init => CausalKept
<1> SUFFICES ASSUME Init, loop.kind = "clock" PROVE CausalKept
  BY DEF CausalKept
<1>1. ValidClockRange(loop) /\ bars = << >> /\ audits = << >>
  BY DEF Init
<1>2. Listing(<< >>) /\ Len(<< >>) = 0 /\ DOMAIN << >> = {}
  <2>1. << >> \in Seq({})
    OBVIOUS
  <2> QED BY <2>1 DEF Listing
<1>3. Rising(<< >>, 0)
  BY DEF Rising
<1> QED BY <1>1, <1>2, <1>3 DEF CausalKept, RowsCausal

(* The daily inputs that a range day's gates read, from the bars up to the *)
(* range's end, are those that the whole series gives the day ("building   *)
(* the whole series up front reads no future data",                        *)
(* family_clock_range_breakout.go:150-153).                                *)
THEOREM DailyInputsAreCausal == Spec => []DailyInputsCausal
<1>1. Init => LoopKept /\ RowsKept /\ CausalKept
  BY InitKept, InitRows, InitCausal
<1>2. LoopKept /\ RowsKept /\ CausalKept /\ [Next]_vars => (LoopKept /\ RowsKept /\ CausalKept)'
  BY StepsKept, StepsKeepRows, StepsCausal
<1>3. CausalKept => DailyInputsCausal
  BY InputsAre DEF CausalKept, RowsCausal, InputsKept, DailyInputsCausal
<1> QED BY <1>1, <1>2, <1>3, PTL DEF Spec

-------------------------------------------------------------------------------
(* The frozen level.  The inductive invariant relates a ready admission to *)
(* the crossing that was submitted, and each manager to the control        *)
(* without a lock: a lock only ever tightens its stop, so the barrier of   *)
(* the control is never reached by a quote that left the lock open.        *)
Quote == [at : Int, seq : Int, avail : Int, bid : Int]

Words == {"activated", "submitted", "rejected", "accepted", "canceled", "stop", "target"}

Managers ==
  [stop : Int, proposed : Int, requested : Quote, attempted : BOOLEAN, log : Seq(Words),
   status : {"open", "closed", "unresolved"}, exit : Int, cash : Int]

Levels ==
  [state : {"active", "pending", "ready", "expired", "invalidated", "consumed"},
   armed : BOOLEAN, prev : Quote, signal : Quote, ready : Quote, notBefore : Int]

TypeOK ==
  /\ stage \in {"watch", "held", "closed", "unresolved", "rejected", "error"}
  /\ side \in Sides /\ entry \in Int /\ last \in Quote
  /\ level \in Levels
  /\ ctx \in [ok : BOOLEAN, stop : Int, opening : BOOLEAN, frozenAt : Int]
  /\ mgr \in [Modes -> Managers]

(* A crossing under submission, and the quote an admission is ready on,    *)
(* which is the last the replay took.                                      *)
Submitted ==
  /\ level.state \in {"pending", "ready"} =>
       level.notBefore = level.signal.avail + SubmissionLatency
  /\ level.state = "ready" =>
       /\ After(level.ready, level.signal)
       /\ level.ready.at >= level.notBefore
       /\ level.ready.avail < Expires
       /\ stage = "watch" => last = level.ready

(* What a manager owes the control: its stop is the control's or beyond,   *)
(* it is open only while the control is, and it ends away from the control *)
(* only on a stop of its own.                                              *)
Ahead(m) ==
  /\ Directed(mgr[m].stop, ctx.stop) >= 0
  /\ ~Terminal(mgr[m]) => ~Terminal(mgr["none"]) /\ mgr[m].exit = 0
  /\ Terminal(mgr[m]) /\ mgr[m].stop = ctx.stop =>
       Terminal(mgr["none"]) /\ mgr[m].exit = mgr["none"].exit

Managed ==
  stage \in {"held", "closed", "unresolved"} =>
    /\ mgr["none"].requested = NoQuote /\ mgr["none"].stop = ctx.stop
    /\ \A m \in Modes : Ahead(m)

IInv == TypeOK /\ Submitted /\ HeldInsideBarriers /\ Managed
-------------------------------------------------------------------------------
(* The geometry of a quote.                                                *)
LEMMA SideFacts ==
  ASSUME side \in Sides
  PROVE  side = 1 \/ side = -1
BY FrozenAssumption DEF FrozenAssumption

LEMMA QuoteTyped ==
  ASSUME side \in Sides, NEW x \in Quotes
  PROVE  QuoteOf(x) \in Quote
<1>1. x.at \in Int /\ x.seq \in Int /\ x.lag \in Int /\ x.off \in Int /\ Price \in Int
  <2>1. /\ Lags \subseteq Int /\ Offsets \subseteq Int /\ Price \in Int
        /\ LastTime \in Int /\ LastSeq \in Int
    BY FrozenAssumption DEF FrozenAssumption
  <2>2. x.at \in 0 .. LastTime /\ x.seq \in 0 .. LastSeq /\ x.lag \in Lags /\ x.off \in Offsets
    BY DEF Quotes
  <2>3. x.at \in Int
    BY <2>1, <2>2
  <2>4. x.seq \in Int
    BY <2>1, <2>2
  <2>5. x.lag \in Int
    BY <2>1, <2>2
  <2>6. x.off \in Int
    BY <2>1, <2>2
  <2> QED BY <2>1, <2>3, <2>4, <2>5, <2>6, Zenon
<1>2. CASE side = 1
  BY <1>1, <1>2 DEF QuoteOf, Quote
<1>3. CASE side = -1
  BY <1>1, <1>3 DEF QuoteOf, Quote
<1> QED BY <1>2, <1>3, SideFacts

LEMMA PricesTyped ==
  ASSUME side \in Sides, NEW q \in Quote
  PROVE  Liquidation(q) \in Int /\ EntryFill(q) \in Int
BY FrozenAssumption DEF FrozenAssumption, Liquidation, EntryFill, Quote

LEMMA TargetTyped ==
  ASSUME TypeOK
  PROVE  Target \in Int
<1>1. entry \in Int /\ ctx.stop \in Int
  BY DEF TypeOK
<1> QED BY <1>1 DEF Target

LEMMA DirectedTyped ==
  ASSUME side \in Sides, NEW a \in Int, NEW b \in Int
  PROVE  Directed(a, b) \in Int
BY SideFacts DEF Directed

LEMMA DirectedDiffers ==
  ASSUME side \in Sides, NEW a \in Int, NEW b \in Int, NEW c \in Int
  PROVE  Directed(a, c) = Directed(a, b) + Directed(b, c) /\ Directed(a, a) = 0
<1>1. CASE side = 1
  BY <1>1 DEF Directed
<1>2. CASE side = -1
  BY <1>2 DEF Directed
<1> QED BY <1>1, <1>2, SideFacts

LEMMA SnapTyped ==
  ASSUME NEW p \in Int
  PROVE  Snap(p) \in Int
<1>1. Grid \in Nat \ {0}
  BY FrozenAssumption DEF FrozenAssumption
<1>2. (p \div Grid) \in Int
  BY <1>1
<1>3. (p \div Grid) * Grid \in Int
  BY <1>1, <1>2
<1> QED BY <1>1, <1>3 DEF Snap

(* The ladder's choice: among the admissible stops one is nearest the      *)
(* market, since each lies at least a grid step below it.                  *)
LEMMA BestPivotTyped ==
  ASSUME side \in Sides, NEW m \in Managers, NEW liq \in Int
  PROVE  BestPivot(m, liq) \in Int
<1> DEFINE stops == {Snap(Price + side * p) : p \in
                  {x \in LadderPivots : /\ Directed(Price + side * x, entry) > 0
                                  /\ Directed(liq, Price + side * x) >= Grid}}
           fit == {s \in stops : Admissible(m, s, liq)}
           gaps == {Directed(liq, s) : s \in fit}
<1>1. \A p \in LadderPivots : Snap(Price + side * p) \in Int
  <2> TAKE p \in LadderPivots
  <2>1. p \in Int /\ Price \in Int
    BY FrozenAssumption DEF FrozenAssumption
  <2>2. Price + side * p \in Int
    BY <2>1, SideFacts
  <2> QED BY <2>2, SnapTyped
<1>2. fit \subseteq Int
  BY <1>1
<1>3. ASSUME NEW s \in fit
      PROVE  Directed(liq, s) \in Nat
  <2>1. Admissible(m, s, liq) /\ s \in Int
    BY <1>2, <1>3
  <2>2. Directed(liq, s) >= Grid
    BY <2>1 DEF Admissible
  <2> HIDE DEF fit
  <2> QED BY <2>1, <2>2, DirectedTyped, FrozenAssumption DEF FrozenAssumption
<1>4. ASSUME fit # {}
      PROVE  \E s \in fit : \A t \in fit : Directed(s, t) >= 0
  <2> HIDE DEF fit
  <2>1. gaps \subseteq Nat /\ gaps # {}
    BY <1>3, <1>4
  <2>2. PICK g \in gaps : \A h \in gaps : ~(<<h, g>> \in OpToRel(<, Nat))
    <3> HIDE DEF gaps
    <3> QED BY <2>1, NatLessThanWellFounded, WFMin, Zenon
  <2>3. PICK s \in fit : g = Directed(liq, s)
    BY <2>2
  <2>4. ASSUME NEW t \in fit
        PROVE  Directed(s, t) >= 0
    <3>1. Directed(liq, t) \in gaps /\ Directed(liq, t) \in Nat /\ g \in Nat
      BY <1>3, <2>1
    <3>2. ~(Directed(liq, t) < g)
      BY <2>2, <3>1 DEF OpToRel
    <3>3. s \in Int /\ t \in Int
      BY <1>2
    <3>4. Directed(liq, t) = g + Directed(s, t) /\ Directed(s, t) \in Int
      BY <2>3, <3>3, DirectedDiffers, DirectedTyped
    <3> QED BY <3>1, <3>2, <3>4
  <2> QED BY <2>4
<1>5. BestPivot(m, liq) = IF fit = {} THEN 0
                          ELSE CHOOSE s \in fit : \A t \in fit : Directed(s, t) >= 0
  BY DEF BestPivot
<1> HIDE DEF fit
<1>6. CASE fit = {}
  BY <1>5, <1>6
<1>7. CASE fit # {}
  <2>1. (CHOOSE s \in fit : \A t \in fit : Directed(s, t) >= 0) \in fit
    BY <1>4, <1>7
  <2> QED BY <1>2, <1>5, <1>7, <2>1
<1> QED BY <1>6, <1>7
-------------------------------------------------------------------------------
(* LockTracker.                                                            *)

(* What a manager does with a quote that finds its position at a barrier:  *)
(* it ends at the quote, or at the target.                                 *)
LEMMA ExitDueClosed ==
  ASSUME TypeOK, NEW d \in Managers, NEW q \in Quote
  PROVE  /\ ExitDue(d, q) \in Managers
         /\ Terminal(ExitDue(d, q)) /\ ExitDue(d, q).stop = d.stop
         /\ ExitDue(d, q).requested = NoQuote
         /\ ExitDue(d, q).exit = IF Directed(Liquidation(q), d.stop) <= 0
                                 THEN Liquidation(q) ELSE Target
<1> DEFINE stops == Directed(Liquidation(q), d.stop) <= 0
           price == IF stops THEN Liquidation(q) ELSE Target
           gone == IF d.requested = NoQuote THEN <<>> ELSE <<"canceled">>
           log == d.log \o gone \o <<IF stops THEN "stop" ELSE "target">>
           cash == d.cash + Directed(price, entry) - Fee
<1>1. Liquidation(q) \in Int /\ Target \in Int /\ entry \in Int /\ Fee \in Int
  <2>1. Liquidation(q) \in Int /\ entry \in Int
    BY PricesTyped DEF TypeOK
  <2> QED BY <2>1, TargetTyped, FrozenAssumption DEF FrozenAssumption
<1>2. price \in Int
  BY <1>1
<1>3. cash \in Int
  <2>1. Directed(price, entry) \in Int
    BY <1>1, <1>2, DirectedTyped DEF TypeOK
  <2> HIDE DEF price
  <2> QED BY <1>1, <2>1 DEF Managers
<1>4. log \in Seq(Words)
  <2>1. gone \in Seq(Words) /\ <<IF stops THEN "stop" ELSE "target">> \in Seq(Words)
    <3>1. <<"canceled">> \in Seq(Words) /\ <<>> \in Seq(Words)
          /\ <<"stop">> \in Seq(Words) /\ <<"target">> \in Seq(Words)
      BY DEF Words
    <3> QED BY <3>1, Zenon
  <2>2. d.log \in Seq(Words)
    BY DEF Managers
  <2> HIDE DEF gone, stops
  <2> QED BY <2>1, <2>2
<1>5. ExitDue(d, q) = [d EXCEPT !.status = "closed", !.exit = price, !.cash = cash,
                               !.requested = NoQuote, !.log = log]
  BY DEF ExitDue, Close, Managers
<1> HIDE DEF price, log, cash
<1>6. NoQuote \in Quote
  BY DEF NoQuote, Quote
<1>7. ExitDue(d, q) \in Managers
  BY <1>2, <1>3, <1>4, <1>5, <1>6 DEF Managers
<1>8. /\ ExitDue(d, q).status = "closed" /\ ExitDue(d, q).stop = d.stop
      /\ ExitDue(d, q).requested = NoQuote /\ ExitDue(d, q).exit = price
  BY <1>5 DEF Managers
<1> QED BY <1>7, <1>8 DEF Terminal, price

(* The answer to a request keeps the position open, with its stop as it    *)
(* was or tightened to one the quote has not reached.                      *)
LEMMA AnswerKeeps ==
  ASSUME TypeOK, NEW d \in Managers, NEW q \in Quote
  PROVE  /\ Answer(d, q) \in Managers
         /\ Answer(d, q).status = d.status /\ Answer(d, q).exit = d.exit
         /\ \/ Answer(d, q).stop = d.stop
            \/ /\ Directed(Answer(d, q).stop, d.stop) > 0
               /\ Directed(Liquidation(q), Answer(d, q).stop) > 0
<1> DEFINE accepted == [d EXCEPT !.stop = d.proposed, !.requested = NoQuote,
                                 !.log = Append(d.log, "accepted")]
           rejected == [d EXCEPT !.requested = NoQuote, !.log = Append(d.log, "rejected")]
<1>1. NoQuote \in Quote
  BY DEF NoQuote, Quote
<1>2. Append(d.log, "accepted") \in Seq(Words) /\ Append(d.log, "rejected") \in Seq(Words)
  <2>1. d.log \in Seq(Words) /\ "accepted" \in Words /\ "rejected" \in Words
    BY DEF Managers, Words
  <2> QED BY <2>1
<1>3. accepted \in Managers /\ accepted.status = d.status /\ accepted.exit = d.exit
      /\ accepted.stop = d.proposed
  BY <1>1, <1>2 DEF Managers
<1>4. rejected \in Managers /\ rejected.status = d.status /\ rejected.exit = d.exit
      /\ rejected.stop = d.stop
  BY <1>1, <1>2 DEF Managers
<1>5. \/ Answer(d, q) = d
      \/ Answer(d, q) = accepted /\ Admissible(d, d.proposed, Liquidation(q))
      \/ Answer(d, q) = rejected
  BY Zenon DEF Answer
<1> HIDE DEF accepted, rejected
<1>6. ASSUME Admissible(d, d.proposed, Liquidation(q))
      PROVE  Directed(d.proposed, d.stop) > 0 /\ Directed(Liquidation(q), d.proposed) > 0
  <2>1. Liquidation(q) \in Int /\ d.proposed \in Int
    BY PricesTyped DEF Managers, TypeOK
  <2>2. Directed(Liquidation(q), d.proposed) \in Int /\ Grid \in Nat \ {0}
    BY <2>1, DirectedTyped, FrozenAssumption DEF FrozenAssumption, TypeOK
  <2> QED BY <1>6, <2>2 DEF Admissible
<1> QED BY <1>3, <1>4, <1>5, <1>6

(* An activation only proposes.                                            *)
LEMMA ActivateKeeps ==
  ASSUME TypeOK, NEW mode \in Modes, NEW d \in Managers, NEW q \in Quote
  PROVE  /\ Activate(mode, d, q) \in Managers
         /\ Activate(mode, d, q).status = d.status /\ Activate(mode, d, q).exit = d.exit
         /\ Activate(mode, d, q).stop = d.stop
<1> DEFINE prop == IF mode = "scale" THEN ScaleStop(entry) ELSE BestPivot(d, Liquidation(q))
           act == [d EXCEPT !.attempted = TRUE, !.proposed = prop,
                            !.log = Append(d.log, "activated")]
<1>1. prop \in Int
  <2>1. BestPivot(d, Liquidation(q)) \in Int
    BY BestPivotTyped, PricesTyped DEF TypeOK
  <2>2. ScaleStop(entry) \in Int
    <3>1. entry + side * ScaleDistance \in Int
      BY SideFacts, FrozenAssumption DEF TypeOK, FrozenAssumption
    <3> QED BY <3>1, SnapTyped DEF ScaleStop
  <2> QED BY <2>1, <2>2
<1> HIDE DEF prop
<1>2. Append(d.log, "activated") \in Seq(Words)
  <2>1. d.log \in Seq(Words) /\ "activated" \in Words
    BY DEF Managers, Words
  <2> QED BY <2>1
<1>3. act \in Managers /\ act.status = d.status /\ act.exit = d.exit /\ act.stop = d.stop
  BY <1>1, <1>2 DEF Managers
<1> HIDE DEF act
<1>4. Append(act.log, "submitted") \in Seq(Words) /\ Append(act.log, "rejected") \in Seq(Words)
  <2>1. act.log \in Seq(Words) /\ "submitted" \in Words /\ "rejected" \in Words
    BY <1>3 DEF Managers, Words
  <2> QED BY <2>1
<1>5. \/ Activate(mode, d, q) = [act EXCEPT !.requested = q,
                                           !.log = Append(act.log, "submitted")]
      \/ Activate(mode, d, q) = [act EXCEPT !.log = Append(act.log, "rejected")]
  BY Zenon DEF Activate, act, prop
<1> QED BY <1>3, <1>4, <1>5 DEF Managers

(* One quote to one manager whose position is open.                        *)
LEMMA TrackerStep ==
  ASSUME TypeOK, NEW mode \in Modes, NEW q \in Quote, NEW continuous \in BOOLEAN,
         NEW d \in Managers, ~Terminal(d)
  PROVE  LET e == TrackerObserve(mode, d, q, continuous)
         IN  /\ e \in Managers
             /\ Terminal(e) <=> (~continuous \/ BarrierReached(d, q))
             /\ ~continuous => e.stop = d.stop /\ e.exit = d.exit
             /\ continuous /\ BarrierReached(d, q) =>
                  /\ e.stop = d.stop
                  /\ e.exit = IF Directed(Liquidation(q), d.stop) <= 0
                              THEN Liquidation(q) ELSE Target
             /\ ~Terminal(e) =>
                  /\ e.exit = d.exit
                  /\ Directed(Liquidation(q), e.stop) > 0
                  /\ Directed(Liquidation(q), Target) < 0
                  /\ e.stop = d.stop \/ Directed(e.stop, d.stop) > 0
             /\ mode = "none" /\ d.requested = NoQuote =>
                  e.stop = d.stop /\ e.requested = NoQuote
<1> DEFINE e == TrackerObserve(mode, d, q, continuous)
<1>0. d.status = "open"
  BY DEF Terminal
<1>1. CASE ~continuous
  <2>1. e = [d EXCEPT !.status = "unresolved"]
    BY <1>1 DEF TrackerObserve
  <2>2. e \in Managers /\ e.status = "unresolved" /\ e.stop = d.stop /\ e.exit = d.exit
        /\ e.requested = d.requested
    BY <2>1 DEF Managers
  <2> HIDE DEF e
  <2>3. Terminal(e)
    BY <2>2 DEF Terminal
  <2>4. /\ e \in Managers
        /\ Terminal(e) <=> (~continuous \/ BarrierReached(d, q))
        /\ ~continuous => e.stop = d.stop /\ e.exit = d.exit
        /\ mode = "none" /\ d.requested = NoQuote => e.stop = d.stop /\ e.requested = NoQuote
    BY <1>1, <2>2, <2>3, Zenon
  <2> QED BY <1>1, <2>3, <2>4, Zenon DEF e
<1>2. CASE continuous /\ BarrierReached(d, q)
  <2>1. e = ExitDue(d, q)
    BY <1>2 DEF TrackerObserve
  <2>2. /\ e \in Managers /\ Terminal(e) /\ e.stop = d.stop /\ e.requested = NoQuote
        /\ e.exit = IF Directed(Liquidation(q), d.stop) <= 0 THEN Liquidation(q) ELSE Target
    BY <2>1, ExitDueClosed, Zenon
  <2> HIDE DEF e
  <2> QED BY <1>2, <2>2, Zenon DEF e
<1>3. CASE continuous /\ ~BarrierReached(d, q)
  <2>1. \/ e = Answer(d, q) /\ d.requested # NoQuote
        \/ e = Activate(mode, d, q) /\ mode # "none"
        \/ e = d
    BY <1>3, Zenon DEF TrackerObserve, ActivationReached
  <2>2. /\ Directed(Liquidation(q), d.stop) > 0 /\ Directed(Liquidation(q), Target) < 0
    <3>1. Liquidation(q) \in Int /\ d.stop \in Int /\ Target \in Int
      BY PricesTyped, TargetTyped DEF TypeOK, Managers
    <3>2. Directed(Liquidation(q), d.stop) \in Int /\ Directed(Liquidation(q), Target) \in Int
      BY <3>1, DirectedTyped DEF TypeOK
    <3> QED BY <1>3, <3>2 DEF BarrierReached
  <2> HIDE DEF e
  <2>3. /\ e \in Managers /\ e.status = d.status /\ e.exit = d.exit
        /\ e.stop = d.stop \/ (Directed(e.stop, d.stop) > 0 /\ Directed(Liquidation(q), e.stop) > 0)
    <3>1. CASE e = Answer(d, q)
      BY <3>1, AnswerKeeps
    <3>2. CASE e = Activate(mode, d, q)
      BY <3>2, ActivateKeeps
    <3>3. CASE e = d
      BY <3>3
    <3> QED BY <2>1, <3>1, <3>2, <3>3
  <2>4. ~Terminal(e)
    BY <1>0, <2>3, Zenon DEF Terminal
  <2>5. Directed(Liquidation(q), e.stop) > 0
    BY <2>2, <2>3, Zenon
  <2>6. e.stop = d.stop \/ Directed(e.stop, d.stop) > 0
    BY <2>3, Zenon
  <2>7. ASSUME mode = "none", d.requested = NoQuote
        PROVE  e = d
    BY <2>1, <2>7, Zenon
  <2>8. mode = "none" /\ d.requested = NoQuote => e.stop = d.stop /\ e.requested = NoQuote
    BY <2>7, Zenon
  <2> QED BY <1>3, <2>2, <2>3, <2>4, <2>5, <2>6, <2>8, Zenon DEF e
<1> QED BY <1>1, <1>2, <1>3
-------------------------------------------------------------------------------
(* LevelLifecycle: what a quote leaves of the level.                       *)
LEMMA ObserveStep ==
  ASSUME TypeOK, Submitted, NEW q \in Quote,
         NEW good \in BOOLEAN, NEW continuous \in BOOLEAN, NEW busy \in BOOLEAN
  PROVE  LET l == Observe(level, q, good, continuous, busy)
         IN  /\ l \in Levels
             /\ l.state \in {"pending", "ready"} =>
                  l.notBefore = l.signal.avail + SubmissionLatency
             /\ l.state = "ready" =>
                  /\ After(l.ready, l.signal) /\ l.ready.at >= l.notBefore
                  /\ l.ready.avail < Expires
                  /\ l.ready = q /\ ~Refused(level, q, good, continuous)
<1> DEFINE l == Observe(level, q, good, continuous, busy)
           Good(k) == /\ k \in Levels
                      /\ k.state \in {"pending", "ready"} =>
                           k.notBefore = k.signal.avail + SubmissionLatency
                      /\ k.state = "ready" =>
                           /\ After(k.ready, k.signal) /\ k.ready.at >= k.notBefore
                           /\ k.ready.avail < Expires
                           /\ k.ready = q /\ ~Refused(level, q, good, continuous)
<1>1. level \in Levels /\ NoQuote \in Quote /\ SubmissionLatency \in Nat /\ Expires \in Nat
  BY FrozenAssumption DEF TypeOK, NoQuote, Quote, FrozenAssumption
<1>2. q.at \in Int /\ q.avail \in Int /\ Inside(q) \in BOOLEAN
  <2>1. Inside(q) \in BOOLEAN
    BY DEF Inside
  <2> QED BY <2>1 DEF Quote
<1>3. CASE Refused(level, q, good, continuous)
  <2>1. l = [level EXCEPT !.state = "invalidated"]
    BY <1>3 DEF Observe, Invalid
  <2>2. l \in Levels /\ l.state = "invalidated"
    BY <1>1, <2>1 DEF Levels
  <2> HIDE DEF l
  <2> QED BY <2>2 DEF l
<1>4. CASE ~Refused(level, q, good, continuous) /\ (q.at >= Expires \/ q.avail >= Expires)
  <2>1. l = [level EXCEPT !.state = "expired"]
    BY <1>4 DEF Observe
  <2>2. l \in Levels /\ l.state = "expired"
    BY <1>1, <2>1 DEF Levels
  <2> HIDE DEF l
  <2> QED BY <2>2 DEF l
<1>5. CASE /\ ~Refused(level, q, good, continuous) /\ ~(q.at >= Expires \/ q.avail >= Expires)
           /\ level.state = "pending"
  <2> DEFINE p == [level EXCEPT !.prev = q]
  <2>1. l = ObservePending(p, q, busy)
    BY <1>5 DEF Observe
  <2>2. /\ p \in Levels /\ p.state = "pending" /\ p.signal = level.signal
        /\ p.notBefore = level.notBefore
    BY <1>1, <1>5 DEF Levels
  <2>3. p.notBefore = p.signal.avail + SubmissionLatency
    BY <1>5, <2>2, Zenon DEF Submitted
  <2> HIDE DEF p
  <2>4. CASE l = Invalid(p)
    <3>1. l \in Levels /\ l.state = "invalidated"
      BY <2>2, <2>4 DEF Levels, Invalid
    <3> HIDE DEF l
    <3> QED BY <3>1 DEF l
  <2>5. CASE l = p
    <3> HIDE DEF l
    <3> QED BY <2>2, <2>3, <2>5 DEF l
  <2>6. CASE l = [p EXCEPT !.state = "active", !.signal = NoQuote, !.armed = Inside(q)]
    <3>1. l \in Levels /\ l.state = "active"
      BY <1>1, <1>2, <2>2, <2>6 DEF Levels
    <3> HIDE DEF l
    <3> QED BY <3>1 DEF l
  <2>7. CASE /\ l = [p EXCEPT !.state = "ready", !.ready = q]
             /\ After(q, p.signal) /\ ~(q.at < p.notBefore)
    <3>1. /\ l \in Levels /\ l.state = "ready" /\ l.ready = q /\ l.signal = p.signal
          /\ l.notBefore = p.notBefore /\ p.notBefore \in Int
      BY <1>1, <2>2, <2>7 DEF Levels
    <3> HIDE DEF l
    <3>2. l.ready.at >= l.notBefore /\ l.ready.avail < Expires
      BY <1>1, <1>2, <1>5, <2>7, <3>1
    <3>3. After(l.ready, l.signal) /\ l.notBefore = l.signal.avail + SubmissionLatency
      BY <2>3, <2>7, <3>1, Zenon
    <3> QED BY <1>5, <3>1, <3>2, <3>3, Zenon DEF l
  <2>8. \/ l = Invalid(p) \/ l = p
        \/ l = [p EXCEPT !.state = "active", !.signal = NoQuote, !.armed = Inside(q)]
        \/ /\ l = [p EXCEPT !.state = "ready", !.ready = q]
           /\ After(q, p.signal) /\ ~(q.at < p.notBefore)
    <3> HIDE DEF l
    <3> QED BY <2>1, Zenon DEF ObservePending
  <2> QED BY <2>4, <2>5, <2>6, <2>7, <2>8, Zenon
<1>6. CASE /\ ~Refused(level, q, good, continuous) /\ ~(q.at >= Expires \/ q.avail >= Expires)
           /\ level.state # "pending"
  <2> DEFINE a == [level EXCEPT !.prev = q, !.armed = FALSE]
             b == [level EXCEPT !.prev = q, !.armed = Inside(q)]
  <2>1. l = IF CrossesLevel(level, q) THEN Cross(a, q, busy) ELSE b
    BY <1>6 DEF Observe, ObserveActive
  <2>2. level.state # "ready"
    BY <1>6 DEF Refused
  <2>3. /\ a \in Levels /\ a.state \notin {"pending", "ready"}
        /\ b \in Levels /\ b.state \notin {"pending", "ready"}
    BY <1>1, <1>2, <1>6, <2>2 DEF Levels
  <2> HIDE DEF a, b
  <2>4. CASE l = a \/ l = b
    <3> HIDE DEF l
    <3> QED BY <2>3, <2>4 DEF l
  <2>5. CASE l = [a EXCEPT !.state = "expired"]
    <3>1. l \in Levels /\ l.state = "expired"
      BY <2>3, <2>5 DEF Levels
    <3> HIDE DEF l
    <3> QED BY <3>1 DEF l
  <2>6. CASE l = [a EXCEPT !.state = "pending", !.signal = q,
                           !.notBefore = q.avail + SubmissionLatency]
    <3>1. q.avail + SubmissionLatency \in Int
      BY <1>1, <1>2
    <3>2. /\ l \in Levels /\ l.state = "pending" /\ l.signal = q
          /\ l.notBefore = q.avail + SubmissionLatency
      BY <2>3, <2>6, <3>1 DEF Levels
    <3> HIDE DEF l
    <3> QED BY <3>2 DEF l
  <2>7. \/ l = a \/ l = b \/ l = [a EXCEPT !.state = "expired"]
        \/ l = [a EXCEPT !.state = "pending", !.signal = q,
                         !.notBefore = q.avail + SubmissionLatency]
    <3> HIDE DEF l
    <3> QED BY <2>1, Zenon DEF Cross
  <2> QED BY <2>4, <2>5, <2>6, <2>7, Zenon
<1> QED BY <1>3, <1>4, <1>5, <1>6, Zenon
-------------------------------------------------------------------------------
LEMMA ManagerTyped ==
  ASSUME ctx.stop \in Int, NEW e
  PROVE  NewManager(e) \in Managers
<1>1. -Fee \in Int
  BY FrozenAssumption DEF FrozenAssumption
<1>2. NoQuote \in Quote /\ <<>> \in Seq(Words)
  BY DEF NoQuote, Quote
<1> QED BY <1>1, <1>2 DEF NewManager, Managers

LEMMA InitInv == LevelInit => IInv
<1> SUFFICES ASSUME LevelInit PROVE IInv
  OBVIOUS
<1> USE DEF LevelInit
<1>1. NoQuote \in Quote /\ Created \in Quote /\ NoContext.stop = 0 /\ Fee \in Int
  BY FrozenAssumption DEF NoQuote, Created, Quote, NoContext, FrozenAssumption
<1>2. level \in Levels /\ level.state = "active"
  BY <1>1 DEF NewLevel, Levels
<1>3. [NewManager(0) EXCEPT !.cash = 0] \in Managers
  <2>1. NewManager(0) \in Managers
    BY <1>1, ManagerTyped
  <2> QED BY <2>1 DEF Managers
<1>4. TypeOK
  <2>1. ctx \in [ok : BOOLEAN, stop : Int, opening : BOOLEAN, frozenAt : Int]
    BY DEF NoContext
  <2>2. mgr \in [Modes -> Managers]
    BY <1>3
  <2> QED BY <1>1, <1>2, <2>1, <2>2 DEF TypeOK
<1>5. Submitted
  BY <1>2 DEF Submitted
<1> QED BY <1>4, <1>5 DEF IInv, HeldInsideBarriers, Managed

(* A quote before the entry.                                               *)
LEMMA WatchStep ==
  ASSUME IInv, NEW x, NEW good \in BOOLEAN, NEW continuous \in BOOLEAN, NEW busy \in BOOLEAN,
         good => x \in Quotes, Watch(x, good, continuous, busy)
  PROVE  IInv'
<1> DEFINE q == QuoteOf(x)
           l == Observe(level, q, good, continuous, busy)
           taken == ~Refused(level, q, good, continuous)
<1>1. /\ stage = "watch" /\ level' = l /\ last' = IF taken THEN q ELSE last
      /\ stage' \in {"watch", "error"}
      /\ side' = side /\ entry' = entry /\ mgr' = mgr
  BY Zenon DEF Watch
<1>2. TypeOK /\ Submitted
  BY DEF IInv
<1>3. /\ l \in Levels
      /\ l.state \in {"pending", "ready"} => l.notBefore = l.signal.avail + SubmissionLatency
      /\ l.state = "ready" =>
           /\ After(l.ready, l.signal) /\ l.ready.at >= l.notBefore
           /\ l.ready.avail < Expires /\ l.ready = q /\ taken
      /\ taken => q \in Quote
  <2>1. CASE good
    <3>1. q \in Quote
      BY <1>2, <2>1, QuoteTyped DEF TypeOK
    <3> HIDE DEF q
    <3> QED BY <1>2, <3>1, ObserveStep
  <2>2. CASE ~good
    <3>1. ~taken
      BY <2>2 DEF Refused
    <3>2. l = [level EXCEPT !.state = "invalidated"]
      BY <3>1, Zenon DEF Observe, Invalid
    <3>3. l \in Levels /\ l.state = "invalidated"
      BY <1>2, <3>2 DEF TypeOK, Levels
    <3> HIDE DEF l, taken
    <3> QED BY <3>1, <3>3
  <2> QED BY <2>1, <2>2
<1>4. ctx' \in [ok : BOOLEAN, stop : Int, opening : BOOLEAN, frozenAt : Int]
  <2> DEFINE crossed == /\ taken /\ level.state = "active" /\ CrossesLevel(level, q)
                        /\ ~LevelTerminal(l)
  <2>1. SignalContext(q, crossed)
    BY Zenon DEF Watch
  <2>2. CASE ~crossed
    BY <1>2, <2>1, <2>2, Zenon DEF SignalContext, TypeOK
  <2>3. CASE crossed
    <3>1. PICK ok \in BOOLEAN, opening \in BOOLEAN, s \in Stops :
            ctx' = [ok |-> ok, stop |-> Price + side * s, opening |-> opening, frozenAt |-> q.at]
      BY <2>1, <2>3, Zenon DEF SignalContext
    <3>2. q.at \in Int
      BY <1>3, <2>3 DEF Quote
    <3>3. Price + side * s \in Int
      <4>1. Price \in Int /\ s \in Int
        BY FrozenAssumption DEF FrozenAssumption
      <4> QED BY <1>2, <4>1, SideFacts DEF TypeOK
    <3> HIDE DEF q
    <3> QED BY <3>1, <3>2, <3>3
  <2> QED BY <2>2, <2>3
<1> HIDE DEF l, taken, q
<1>5. TypeOK'
  BY <1>1, <1>2, <1>3, <1>4 DEF TypeOK
<1>6. Submitted'
  <2>1. level' = l /\ (l.state = "ready" => last' = q)
    BY <1>1, <1>3, Zenon
  <2> QED BY <1>3, <2>1, Zenon DEF Submitted
<1>7. stage' \notin {"held", "closed", "unresolved"}
  BY <1>1
<1> QED BY <1>5, <1>6, <1>7 DEF IInv, HeldInsideBarriers, Managed

(* The caller's guard at resolution: the level is active again.            *)
LEMMA ResolveBusyStep ==
  ASSUME IInv, ResolveBusy
  PROVE  IInv'
<1>1. TypeOK /\ level \in Levels /\ NoQuote \in Quote /\ Inside(level.ready) \in BOOLEAN
  BY DEF IInv, TypeOK, NoQuote, Quote, Inside
<1>2. level' = [[level EXCEPT !.ready = NoQuote, !.signal = NoQuote] EXCEPT
                  !.state = "active", !.armed = Inside(level.ready)]
  BY DEF ResolveBusy, ResolveAdmission
<1>3. level' \in Levels /\ level'.state = "active"
  BY <1>1, <1>2 DEF Levels
<1>4. UNCHANGED <<stage, side, ctx, entry, last, mgr>> /\ stage' = "watch"
  BY DEF ResolveBusy
<1>5. TypeOK'
  BY <1>1, <1>3, <1>4 DEF TypeOK
<1>6. Submitted'
  BY <1>3 DEF Submitted
<1> QED BY <1>4, <1>5, <1>6 DEF IInv, HeldInsideBarriers, Managed

LEMMA RejectStep ==
  ASSUME IInv, Reject
  PROVE  IInv'
<1>1. TypeOK /\ level \in Levels /\ NoQuote \in Quote
  BY DEF IInv, TypeOK, NoQuote, Quote
<1>2. level' = [[level EXCEPT !.ready = NoQuote, !.signal = NoQuote] EXCEPT !.state = "invalidated"]
  BY DEF Reject, ResolveAdmission, Invalid
<1>3. level' \in Levels /\ level'.state = "invalidated"
  BY <1>1, <1>2 DEF Levels
<1>4. UNCHANGED <<side, ctx, entry, last, mgr>> /\ stage' = "rejected"
  BY DEF Reject
<1>5. TypeOK'
  BY <1>1, <1>3, <1>4 DEF TypeOK
<1>6. Submitted'
  BY <1>3 DEF Submitted
<1> QED BY <1>4, <1>5, <1>6 DEF IInv, HeldInsideBarriers, Managed

(* The entry: the seed lies inside the barriers of every manager.          *)
LEMMA EnterHeldStep ==
  ASSUME IInv, EnterHeld
  PROVE  IInv'
<1> DEFINE q == level.ready
           e == EntryFill(q)
<1>1. /\ TypeOK /\ level \in Levels /\ NoQuote \in Quote /\ q \in Quote
      /\ level.state = "ready" /\ last = q
      /\ side' = side /\ ctx' = ctx /\ last' = last
  <2>1. TypeOK /\ Submitted
    BY DEF IInv
  <2>2. stage = "watch" /\ level.state = "ready" /\ side' = side /\ ctx' = ctx /\ last' = last
    BY DEF EnterHeld
  <2>3. last = q
    BY <2>1, <2>2, Zenon DEF Submitted
  <2> QED BY <2>1, <2>2, <2>3 DEF TypeOK, Levels, NoQuote, Quote
<1>2. CASE ~(SeedFits(q, e) /\ Directed(ScaleStop(e), e) > 0)
  <2>1. stage' = "error" /\ level' = level /\ entry' = entry /\ mgr' = mgr
    BY <1>2, Zenon DEF EnterHeld
  <2>2. TypeOK'
    BY <1>1, <2>1 DEF TypeOK
  <2>3. Submitted'
    <3>1. Submitted
      BY DEF IInv
    <3> QED BY <2>1, <3>1 DEF Submitted, After
  <2> QED BY <2>1, <2>2, <2>3 DEF IInv, HeldInsideBarriers, Managed
<1>3. CASE SeedFits(q, e) /\ Directed(ScaleStop(e), e) > 0
  <2>1. /\ stage' = "held" /\ level' = ResolveAdmission(level, "consumed") /\ entry' = e
        /\ mgr' = [m \in Modes |-> NewManager(e)]
    BY <1>3, Zenon DEF EnterHeld
  <2>2. level' \in Levels /\ level'.state = "consumed"
    BY <1>1, <2>1 DEF ResolveAdmission, Levels
  <2>3. e \in Int /\ Liquidation(q) \in Int /\ ctx.stop \in Int
    BY <1>1, PricesTyped DEF TypeOK
  <2>4. NewManager(e) \in Managers
    BY <2>3, ManagerTyped
  <2>5. TypeOK'
    <3> HIDE DEF e
    <3> QED BY <1>1, <2>1, <2>2, <2>3, <2>4 DEF TypeOK
  <2>6. Submitted'
    BY <2>2 DEF Submitted
  <2>7. \A m \in Modes : /\ mgr'[m].stop = ctx.stop /\ mgr'[m].exit = 0
                         /\ mgr'[m].requested = NoQuote /\ ~Terminal(mgr'[m])
    BY <2>1 DEF NewManager, Terminal
  <2>8. Directed(Liquidation(q), ctx.stop) > 0 /\ Directed(Liquidation(q), 3 * e - 2 * ctx.stop) < 0
    <3>1. /\ Directed(Liquidation(q), ctx.stop) >= Grid
          /\ Directed(Liquidation(q), e + 2 * side * Directed(e, ctx.stop)) < 0
      BY <1>3 DEF SeedFits
    <3>2. Directed(Liquidation(q), ctx.stop) \in Int /\ Grid \in Nat \ {0}
      BY <1>1, <2>3, DirectedTyped, FrozenAssumption DEF TypeOK, FrozenAssumption
    <3>3. e + 2 * side * Directed(e, ctx.stop) = 3 * e - 2 * ctx.stop
      <4> HIDE DEF e
      <4>1. CASE side = 1
        BY <2>3, <4>1 DEF Directed
      <4>2. CASE side = -1
        BY <2>3, <4>2 DEF Directed
      <4> QED BY <1>1, <4>1, <4>2, SideFacts DEF TypeOK
    <3> HIDE DEF e
    <3> QED BY <3>1, <3>2, <3>3
  <2>9. HeldInsideBarriers'
    <3>1. /\ Liquidation(last)' = Liquidation(q)
          /\ Target' = 3 * e - 2 * ctx.stop
      BY <1>1, <2>1 DEF Liquidation, Target
    <3>2. \A a, b : Directed(a, b)' = Directed(a, b)
      BY <1>1 DEF Directed
    <3>3. ASSUME NEW m \in Modes
          PROVE  /\ Directed(Liquidation(last), mgr[m].stop)' > 0
                 /\ Directed(Liquidation(last), Target)' < 0
      <4> HIDE DEF e, q
      <4>1. /\ Directed(Liquidation(last), mgr[m].stop)' = Directed(Liquidation(q), ctx.stop)
            /\ Directed(Liquidation(last), Target)' = Directed(Liquidation(q), 3 * e - 2 * ctx.stop)
        BY <1>1, <2>7, <3>1, Zenon DEF Directed
      <4> QED BY <2>8, <4>1
    <3> QED BY <3>3, Zenon DEF HeldInsideBarriers
  <2>10. Managed'
    <3>1. Directed(ctx.stop, ctx.stop) = 0
      BY <1>1, <2>3, DirectedDiffers DEF TypeOK
    <3>2. ASSUME NEW m \in Modes PROVE Ahead(m)'
      <4>1. Directed(mgr[m].stop, ctx.stop)' = 0
        BY <1>1, <2>7, <3>1 DEF Directed
      <4>2. "none" \in Modes
        BY DEF Modes
      <4> QED BY <2>7, <4>1, <4>2 DEF Ahead
    <3>3. mgr'["none"].requested = NoQuote /\ mgr'["none"].stop = ctx'.stop
      BY <1>1, <2>7 DEF Modes
    <3> QED BY <3>2, <3>3, Zenon DEF Managed
  <2> QED BY <2>5, <2>6, <2>9, <2>10 DEF IInv
<1> QED BY <1>2, <1>3
-------------------------------------------------------------------------------
(* A quote after the entry.                                                *)
LEMMA HoldStep ==
  ASSUME IInv, NEW x, NEW good \in BOOLEAN, NEW continuous \in BOOLEAN,
         good => x \in Quotes, Hold(x, good, continuous)
  PROVE  IInv'
<1> DEFINE q == QuoteOf(x)
<1>1. /\ TypeOK /\ Submitted /\ stage = "held"
      /\ side' = side /\ level' = level /\ ctx' = ctx /\ entry' = entry
  BY DEF IInv, Hold
<1>2. CASE ~(good /\ After(q, last) /\ q.avail >= last.avail)
  <2>1. stage' = "error" /\ mgr' = mgr /\ last' = last
    BY <1>2, Zenon DEF Hold
  <2>2. TypeOK'
    BY <1>1, <2>1 DEF TypeOK
  <2>3. Submitted'
    BY <1>1, <2>1 DEF Submitted, After
  <2> QED BY <2>1, <2>2, <2>3 DEF IInv, HeldInsideBarriers, Managed
<1>3. CASE good /\ After(q, last) /\ q.avail >= last.avail
  <2>1. /\ mgr' = [m \in Modes |-> TrackerObserve(m, mgr[m], q, continuous)]
        /\ last' = q /\ stage' = "held"
    BY <1>1, <1>3, Zenon DEF Hold
  <2>2. q \in Quote
    BY <1>1, <1>3, QuoteTyped DEF TypeOK
  <2> DEFINE liq == Liquidation(q)
  <2>3. /\ liq \in Int /\ ctx.stop \in Int /\ Target \in Int
        /\ mgr \in [Modes -> Managers] /\ "none" \in Modes
    BY <1>1, <2>2, PricesTyped, TargetTyped DEF TypeOK, Modes
  <2>4. /\ Liquidation(last)' = liq /\ Target' = Target
    BY <1>1, <2>1 DEF Liquidation, Target
  <2> HIDE DEF q, liq
  <2>5. ASSUME NEW m \in Modes
        PROVE  /\ mgr'[m] \in Managers
               /\ Terminal(mgr[m]) => mgr'[m] = mgr[m]
               /\ ~Terminal(mgr[m]) =>
                    /\ Terminal(mgr'[m]) <=> (~continuous \/ BarrierReached(mgr[m], q))
                    /\ ~continuous => mgr'[m].stop = mgr[m].stop /\ mgr'[m].exit = mgr[m].exit
                    /\ continuous /\ BarrierReached(mgr[m], q) =>
                         /\ mgr'[m].stop = mgr[m].stop
                         /\ mgr'[m].exit = IF Directed(liq, mgr[m].stop) <= 0
                                           THEN liq ELSE Target
                    /\ ~Terminal(mgr'[m]) =>
                         /\ mgr'[m].exit = mgr[m].exit
                         /\ Directed(liq, mgr'[m].stop) > 0 /\ Directed(liq, Target) < 0
                         /\ mgr'[m].stop = mgr[m].stop \/ Directed(mgr'[m].stop, mgr[m].stop) > 0
                    /\ m = "none" /\ mgr[m].requested = NoQuote =>
                         mgr'[m].stop = mgr[m].stop /\ mgr'[m].requested = NoQuote
    <3>1. mgr'[m] = TrackerObserve(m, mgr[m], q, continuous) /\ mgr[m] \in Managers
      BY <2>1, <2>3
    <3>2. CASE Terminal(mgr[m])
      <4>1. mgr'[m] = mgr[m]
        BY <3>1, <3>2, Zenon DEF TrackerObserve
      <4> QED BY <3>1, <3>2, <4>1
    <3>3. CASE ~Terminal(mgr[m])
      <4> DEFINE d == mgr[m]
                 e == TrackerObserve(m, d, q, continuous)
      <4>1. d \in Managers /\ ~Terminal(d) /\ mgr'[m] = e
        BY <3>1, <3>3
      <4> HIDE DEF d
      <4>2. /\ e \in Managers
            /\ Terminal(e) <=> (~continuous \/ BarrierReached(d, q))
            /\ ~continuous => e.stop = d.stop /\ e.exit = d.exit
            /\ continuous /\ BarrierReached(d, q) =>
                 /\ e.stop = d.stop
                 /\ e.exit = IF Directed(Liquidation(q), d.stop) <= 0
                             THEN Liquidation(q) ELSE Target
            /\ ~Terminal(e) =>
                 /\ e.exit = d.exit
                 /\ Directed(Liquidation(q), e.stop) > 0
                 /\ Directed(Liquidation(q), Target) < 0
                 /\ e.stop = d.stop \/ Directed(e.stop, d.stop) > 0
            /\ m = "none" /\ d.requested = NoQuote =>
                 e.stop = d.stop /\ e.requested = NoQuote
        BY <1>1, <2>2, <4>1, TrackerStep
      <4> HIDE DEF e
      <4> QED BY <3>3, <4>1, <4>2, Zenon DEF d, liq
    <3> QED BY <3>2, <3>3
  <2>6. TypeOK'
    <3>1. \A m \in Modes : mgr'[m] \in Managers
      BY <2>5
    <3>2. mgr' \in [Modes -> Managers]
      BY <2>1, <3>1
    <3> QED BY <1>1, <2>1, <2>2, <3>2 DEF TypeOK
  <2>7. Submitted'
    BY <1>1, <2>1 DEF Submitted, After
  <2>8. Managed
    BY DEF IInv
  <2>9. Ahead("none") /\ mgr["none"].stop = ctx.stop /\ mgr["none"].requested = NoQuote
    BY <1>1, <2>3, <2>8, Zenon DEF Managed
  <2>10. ~Terminal(mgr["none"]) =>
           mgr'["none"].stop = mgr["none"].stop /\ mgr'["none"].requested = NoQuote
    BY <2>3, <2>5, <2>9
  <2>11. mgr'["none"].stop = ctx.stop /\ mgr'["none"].requested = NoQuote
    BY <2>3, <2>5, <2>9, <2>10
  <2>12. ASSUME NEW m \in Modes
         PROVE  ~Terminal(mgr'[m]) =>
                  /\ ~Terminal(mgr[m])
                  /\ Directed(liq, mgr'[m].stop) > 0 /\ Directed(liq, Target) < 0
    BY <2>5, <2>12
  <2>13. HeldInsideBarriers'
    <3>1. ASSUME NEW m \in Modes, ~Terminal(mgr'[m])
          PROVE  /\ Directed(Liquidation(last), mgr[m].stop)' > 0
                 /\ Directed(Liquidation(last), Target)' < 0
      <4>1. /\ Directed(Liquidation(last), mgr[m].stop)' = Directed(liq, mgr'[m].stop)
            /\ Directed(Liquidation(last), Target)' = Directed(liq, Target)
        BY <1>1, <2>4, Zenon DEF Directed
      <4> QED BY <2>12, <3>1, <4>1
    <3> QED BY <3>1, Zenon DEF HeldInsideBarriers, Terminal
  <2>14. ASSUME NEW m \in Modes
         PROVE  /\ Directed(mgr'[m].stop, ctx.stop) >= 0
                /\ ~Terminal(mgr'[m]) => ~Terminal(mgr'["none"]) /\ mgr'[m].exit = 0
                /\ Terminal(mgr'[m]) /\ mgr'[m].stop = ctx.stop =>
                     Terminal(mgr'["none"]) /\ mgr'[m].exit = mgr'["none"].exit
    <3>1. Ahead(m)
      BY <1>1, <2>8, Zenon DEF Managed
    <3>2. CASE Terminal(mgr["none"])
      <4>1. mgr'["none"] = mgr["none"] /\ mgr'[m] = mgr[m]
        BY <2>3, <2>5, <3>1, <3>2 DEF Ahead
      <4> QED BY <3>1, <4>1 DEF Ahead
    <3>3. CASE ~Terminal(mgr["none"]) /\ Terminal(mgr[m])
      <4>1. mgr'[m] = mgr[m] /\ mgr[m].stop # ctx.stop
        BY <2>5, <3>1, <3>3 DEF Ahead
      <4> QED BY <3>1, <3>3, <4>1 DEF Ahead
    <3>4. CASE ~Terminal(mgr["none"]) /\ ~Terminal(mgr[m])
      <4>1. /\ mgr[m].exit = 0 /\ mgr["none"].exit = 0 /\ Directed(mgr[m].stop, ctx.stop) >= 0
        BY <2>9, <3>1, <3>4 DEF Ahead
      <4>2. CASE ~continuous
        <5>1. /\ Terminal(mgr'[m]) /\ Terminal(mgr'["none"]) /\ mgr'[m].stop = mgr[m].stop
              /\ mgr'[m].exit = 0 /\ mgr'["none"].exit = 0
          BY <2>3, <2>5, <3>4, <4>1, <4>2
        <5> QED BY <4>1, <5>1
      <4>3. CASE continuous /\ BarrierReached(mgr[m], q)
        <5>1. /\ Terminal(mgr'[m]) /\ mgr'[m].stop = mgr[m].stop
              /\ mgr'[m].exit = IF Directed(liq, mgr[m].stop) <= 0 THEN liq ELSE Target
          BY <2>5, <3>4, <4>3
        <5>2. ASSUME mgr[m].stop = ctx.stop
              PROVE  Terminal(mgr'["none"]) /\ mgr'[m].exit = mgr'["none"].exit
          <6>1. BarrierReached(mgr["none"], q)
            BY <2>9, <4>3, <5>2, Zenon DEF BarrierReached
          <6>2. /\ Terminal(mgr'["none"])
                /\ mgr'["none"].exit = IF Directed(liq, mgr["none"].stop) <= 0
                                       THEN liq ELSE Target
            BY <2>3, <2>5, <3>4, <4>3, <6>1
          <6> QED BY <2>9, <5>1, <5>2, <6>2, Zenon
        <5> QED BY <4>1, <5>1, <5>2
      <4>4. CASE continuous /\ ~BarrierReached(mgr[m], q)
        <5>1. /\ ~Terminal(mgr'[m]) /\ mgr'[m].exit = 0
              /\ mgr'[m].stop = mgr[m].stop \/ Directed(mgr'[m].stop, mgr[m].stop) > 0
          BY <2>5, <3>4, <4>1, <4>4
        <5>2. mgr[m].stop \in Int /\ mgr'[m].stop \in Int /\ side \in Sides
          BY <1>1, <2>3, <2>6 DEF TypeOK, Managers
        <5>3. Directed(mgr'[m].stop, ctx.stop) >= 0
          <6>1. /\ Directed(mgr'[m].stop, ctx.stop)
                     = Directed(mgr'[m].stop, mgr[m].stop) + Directed(mgr[m].stop, ctx.stop)
                /\ Directed(mgr'[m].stop, mgr[m].stop) \in Int
                /\ Directed(mgr[m].stop, ctx.stop) \in Int
            BY <2>3, <5>2, DirectedDiffers, DirectedTyped
          <6>2. CASE mgr'[m].stop = mgr[m].stop
            BY <4>1, <6>2
          <6>3. CASE Directed(mgr'[m].stop, mgr[m].stop) > 0
            BY <4>1, <6>1, <6>3
          <6> QED BY <5>1, <6>2, <6>3
        <5>4. ~BarrierReached(mgr["none"], q)
          <6>1. ~(Directed(liq, mgr[m].stop) <= 0) /\ ~(Directed(liq, Target) >= 0)
            BY <4>4, Zenon DEF BarrierReached, liq
          <6>2. /\ Directed(liq, ctx.stop) = Directed(liq, mgr[m].stop) + Directed(mgr[m].stop, ctx.stop)
                /\ Directed(liq, mgr[m].stop) \in Int /\ Directed(mgr[m].stop, ctx.stop) \in Int
            BY <2>3, <5>2, DirectedDiffers, DirectedTyped
          <6>3. ~(Directed(liq, ctx.stop) <= 0)
            BY <4>1, <6>1, <6>2
          <6> QED BY <2>9, <6>1, <6>3, Zenon DEF BarrierReached, liq
        <5>5. ~Terminal(mgr'["none"])
          BY <2>3, <2>5, <3>4, <4>4, <5>4
        <5> QED BY <5>1, <5>3, <5>5
      <4> QED BY <4>2, <4>3, <4>4
    <3> QED BY <3>2, <3>3, <3>4
  <2>15. Managed'
    <3>1. ASSUME NEW m \in Modes PROVE Ahead(m)'
      <4>1. Directed(mgr[m].stop, ctx.stop)' = Directed(mgr'[m].stop, ctx.stop)
        BY <1>1, Zenon DEF Directed
      <4> QED BY <1>1, <2>14, <4>1, Zenon DEF Ahead, Terminal
    <3>2. mgr'["none"].requested = NoQuote /\ mgr'["none"].stop = ctx'.stop
      BY <1>1, <2>11
    <3> QED BY <3>1, <3>2, Zenon DEF Managed
  <2> QED BY <2>6, <2>7, <2>13, <2>15 DEF IInv
<1> QED BY <1>2, <1>3

(* The end of the window: what is open becomes unresolved.                 *)
LEMMA EndOfInputStep ==
  ASSUME IInv, EndOfInput
  PROVE  IInv'
<1>1. /\ TypeOK /\ Submitted /\ Managed /\ stage = "held"
      /\ mgr' = [m \in Modes |-> IF Terminal(mgr[m]) THEN mgr[m]
                                 ELSE [mgr[m] EXCEPT !.status = "unresolved"]]
      /\ stage' \in {"closed", "unresolved"}
      /\ side' = side /\ level' = level /\ ctx' = ctx /\ entry' = entry /\ last' = last
  BY DEF IInv, EndOfInput
<1>2. ASSUME NEW m \in Modes
      PROVE  /\ mgr'[m] \in Managers /\ Terminal(mgr'[m]) /\ mgr'[m].stop = mgr[m].stop
             /\ mgr'[m].exit = mgr[m].exit /\ mgr'[m].requested = mgr[m].requested
  <2>1. mgr[m] \in Managers
    BY <1>1 DEF TypeOK
  <2>2. CASE Terminal(mgr[m])
    BY <1>1, <2>1, <2>2
  <2>3. CASE ~Terminal(mgr[m])
    <3>1. mgr'[m] = [mgr[m] EXCEPT !.status = "unresolved"]
      BY <1>1, <2>3
    <3> QED BY <2>1, <3>1 DEF Managers, Terminal
  <2> QED BY <2>2, <2>3
<1>3. TypeOK'
  <2>1. mgr' \in [Modes -> Managers]
    BY <1>1, <1>2
  <2> QED BY <1>1, <2>1 DEF TypeOK
<1>4. Submitted'
  BY <1>1 DEF Submitted, After
<1>5. Managed'
  <2>1. "none" \in Modes
    BY DEF Modes
  <2>2. mgr["none"].requested = NoQuote /\ mgr["none"].stop = ctx.stop
        /\ \A m \in Modes : Ahead(m)
    BY <1>1, Zenon DEF Managed
  <2>3. ASSUME NEW m \in Modes PROVE Ahead(m)'
    <3>1. Directed(mgr[m].stop, ctx.stop)' = Directed(mgr[m].stop, ctx.stop)
      BY <1>1, <1>2 DEF Directed
    <3>2. Terminal(mgr'[m]) /\ Terminal(mgr'["none"])
      BY <1>2, <2>1
    <3>3. mgr[m].stop = ctx.stop => mgr[m].exit = mgr["none"].exit
      <4>1. Ahead(m) /\ Ahead("none")
        BY <2>1, <2>2
      <4> QED BY <4>1, Zenon DEF Ahead
    <3>4. Directed(mgr[m].stop, ctx.stop) >= 0
      BY <2>2, Zenon DEF Ahead
    <3> QED BY <1>1, <1>2, <2>1, <3>1, <3>2, <3>3, <3>4 DEF Ahead
  <2> QED BY <1>1, <1>2, <2>1, <2>2, <2>3 DEF Managed
<1>6. HeldInsideBarriers'
  BY <1>1 DEF HeldInsideBarriers
<1> QED BY <1>3, <1>4, <1>5, <1>6 DEF IInv

(* A stutter.                                                              *)
LEMMA StutterStep ==
  ASSUME IInv, UNCHANGED levelVars
  PROVE  IInv'
BY DEF IInv, TypeOK, Submitted, HeldInsideBarriers, Managed, Ahead, levelVars, Directed,
       Liquidation, Target, After
-------------------------------------------------------------------------------
LEMMA Inductive == LevelSpec => []IInv
<1>1. LevelInit => IInv
  BY InitInv
<1>2. ASSUME IInv, [LevelNext]_levelVars
      PROVE  IInv'
  <2>1. ASSUME NEW x \in Quotes, NEW continuous \in BOOLEAN, NEW busy \in Busy,
               Watch(x, TRUE, continuous, busy)
        PROVE  IInv'
    <3>1. busy \in BOOLEAN
      BY FrozenAssumption DEF FrozenAssumption
    <3> QED BY <1>2, <2>1, <3>1, WatchStep
  <2>2. ASSUME NEW x \in Quotes, NEW continuous \in BOOLEAN, Hold(x, TRUE, continuous)
        PROVE  IInv'
    BY <1>2, <2>2, HoldStep
  <2>3. ASSUME NEW x, Watch(x, FALSE, TRUE, FALSE)
        PROVE  IInv'
    BY <1>2, <2>3, WatchStep
  <2>4. ASSUME NEW x, Hold(x, FALSE, TRUE)
        PROVE  IInv'
    BY <1>2, <2>4, HoldStep
  <2>5. CASE ResolveBusy \/ Reject \/ EnterHeld \/ EndOfInput
    BY <1>2, <2>5, ResolveBusyStep, RejectStep, EnterHeldStep, EndOfInputStep
  <2>6. CASE UNCHANGED levelVars
    BY <1>2, <2>6, StutterStep
  <2> QED BY <1>2, <2>1, <2>2, <2>3, <2>4, <2>5, <2>6, Zenon DEF LevelNext
<1> QED BY <1>1, <1>2, PTL DEF LevelSpec

(* An admission is executed on a quote whose own event follows the signal  *)
(* by the submission latency, whatever the order the quotes arrive in      *)
(* (LevelLifecycle.observePending).                                        *)
THEOREM Executable == LevelSpec => []ExecutableAfterSubmission
<1>1. ASSUME IInv PROVE ExecutableAfterSubmission
  <2>1. TypeOK /\ Submitted
    BY <1>1 DEF IInv
  <2> QED BY <2>1, Zenon DEF Submitted, ExecutableAfterSubmission
<1> QED BY <1>1, Inductive, PTL

(* After each quote an open position lies strictly between its stop and    *)
(* its target: neither a barrier left unexecuted, nor an amendment accepted *)
(* that the quote has passed (LockTracker.Observe).                        *)
THEOREM InsideBarriers == LevelSpec => []HeldInsideBarriers
<1>1. IInv => HeldInsideBarriers
  BY DEF IInv
<1> QED BY <1>1, Inductive, PTL

(* A lock never outlives the control without a lock, and closes away from  *)
(* its price only on a stop of its own (frozencontrol.replay).             *)
THEOREM LocksFirst == LevelSpec => []LocksExitFirst
<1>1. ASSUME IInv PROVE LocksExitFirst
  <2>1. Managed
    BY <1>1 DEF IInv
  <2>2. ASSUME stage \in {"held", "closed", "unresolved"}, Terminal(mgr["none"]), NEW m \in Modes
        PROVE  /\ Terminal(mgr[m])
               /\ mgr[m].stop = ctx.stop => mgr[m].exit = mgr["none"].exit
    <3>1. Ahead(m)
      BY <2>1, <2>2, Zenon DEF Managed
    <3> QED BY <2>2, <3>1, Zenon DEF Ahead
  <2> QED BY <2>2, Zenon DEF LocksExitFirst
<1> QED BY <1>1, Inductive, PTL
==============================================================================
