---------------------------- MODULE LoopReversion ----------------------------
(***************************************************************************)
(* The reference loops that fill an order at a later bar and hold it with  *)
(* a bracket of their own: rangeReversion, whose bracket starts with the   *)
(* entry or a bar later, the gold flag, whose order waits four bars, and   *)
(* the adaptive volume flag, whose bracket is created at the entry close.  *)
(* A position that is open when the series ends stays open.                *)
(***************************************************************************)
EXTENDS LoopTape

Between(a, z, x) == Lowest({a, z}) <= x /\ x <= Highest({a, z})

HighFirst == <<O(i), H(i), L(i), C(i)>>
LowFirst == <<O(i), L(i), H(i), C(i)>>
NearerFirst == IF H(i) - O(i) > O(i) - L(i) THEN LowFirst ELSE HighFirst

Immediately(price, reason) == CloseAt(price, reason) /\ UNCHANGED <<order, audits>>

------------------------------------------------------------------------------
(* rangeReversion.  The order is the signal of the bar before; mark.next   *)
(* is the break-even stop that the next bar starts with, mark.queued an    *)
(* exit due at the next open.                                              *)
ReversionMark == [last |-> None, rejected |-> FALSE, queued |-> FALSE, raised |-> FALSE, next |-> None]

ReversionFill == O(i) + order.side * loop.slip

ReversionPosition ==
  Position(order.side, ReversionFill, order.stop, order.target, [at |-> order.at, stop |-> order.stop])

(* A fill that slips beyond its own stop or target leaves at the raw open; *)
(* the stop names the reason when it is beyond both.                       *)
PastStop == Beyond(order.side, ReversionFill, order.stop) <= 0
PastTarget == Beyond(order.side, ReversionFill, order.target) >= 0

ReversionRejected ==
  /\ Phase("open", "due") /\ Ordered
  /\ loop.immediate /\ ReversionFill = order.stop
  /\ order' = NoOrder /\ mark' = [mark EXCEPT !.rejected = TRUE]
  /\ UNCHANGED <<pos, trades, audits>>

ReversionThrough ==
  /\ Phase("open", "due") /\ Ordered
  /\ loop.immediate /\ ReversionFill # order.stop /\ (PastStop \/ PastTarget)
  /\ order' = NoOrder /\ mark' = [mark EXCEPT !.last = i]
  /\ trades' = Append(trades, Trade(ReversionPosition, O(i), IF PastStop THEN "stop-gap" ELSE "target-gap"))
  /\ UNCHANGED <<pos, audits>>

ReversionFilled ==
  /\ Phase("open", "due") /\ Ordered
  /\ ~(loop.immediate /\ (PastStop \/ PastTarget))
  /\ order' = NoOrder /\ pos' = ReversionPosition
  /\ mark' = [ReversionMark EXCEPT !.last = mark.last]
  /\ UNCHANGED <<trades, audits>>

ReversionUnordered ==
  /\ Phase("open", "due") /\ ~Ordered
  /\ pos' = IF Held /\ mark.next # None THEN [pos EXCEPT !.stop = mark.next] ELSE pos
  /\ mark' = [mark EXCEPT !.rejected = FALSE, !.next = None]
  /\ UNCHANGED <<order, trades, audits>>

(* The bracket of the delayed policy is not there on the entry bar.        *)
Bracketed == Held /\ (loop.immediate \/ pos.at # i)

OpensThroughTarget == Beyond(pos.side, O(i), pos.target) >= 0

ReversionLeaves(price, reason) ==
  Immediately(price, reason) /\ mark' = [mark EXCEPT !.last = i, !.queued = FALSE]

ReversionDue ==
  /\ Phase("due", "range")
  /\ \/ Held /\ mark.queued /\ ReversionLeaves(O(i), "close-latched-stop")
     \/ /\ ~mark.queued /\ Bracketed /\ OpensThroughStop(pos.side, pos.stop, i)
        /\ ReversionLeaves(O(i), "stop-gap")
     \/ /\ ~mark.queued /\ Bracketed /\ ~OpensThroughStop(pos.side, pos.stop, i) /\ OpensThroughTarget
        /\ ReversionLeaves(O(i), "target-gap")
     \/ /\ ~mark.queued
        /\ Bracketed => ~OpensThroughStop(pos.side, pos.stop, i) /\ ~OpensThroughTarget
        /\ Unchanged

(* rrExit, after the open: the first leg of the bar's path that runs into  *)
(* the stop or the target.                                                 *)
ReversionPath == IF loop.immediate THEN HighFirst ELSE NearerFirst

LegStops(a, z) == Beyond(pos.side, z, a) < 0 /\ Between(a, z, pos.stop)
LegPays(a, z) == Beyond(pos.side, z, a) > 0 /\ Between(a, z, pos.target)

FirstLeg(path) ==
  LET hits == {k \in 1..3 : LegStops(path[k], path[k + 1]) \/ LegPays(path[k], path[k + 1])}
  IN  IF hits = {} THEN 0 ELSE Lowest(hits)

BothTouched == TouchesStop(pos.side, pos.stop, i) /\ TouchesTarget(pos.side, pos.target, i)

ReversionRange ==
  /\ Phase("range", "close")
  /\ \/ Bracketed /\ loop.immediate /\ BothTouched /\ ReversionLeaves(pos.stop, "stop-same-bar")
     \/ /\ Bracketed /\ ~(loop.immediate /\ BothTouched)
        /\ \E path \in {ReversionPath} : \E leg \in {FirstLeg(path)} :
             IF leg = 0 THEN Unchanged
             ELSE IF LegStops(path[leg], path[leg + 1]) THEN ReversionLeaves(pos.stop, "stop")
             ELSE ReversionLeaves(pos.target, "target")
     \/ ~Bracketed /\ Unchanged

(* The risk of the fill is a distance for the immediate policy, and signed *)
(* for the delayed one.                                                    *)
InitialRisk ==
  IF loop.immediate THEN Abs(pos.entry - pos.tag.stop) ELSE Beyond(pos.side, pos.entry, pos.tag.stop)

Raises == loop.trigger > 0 /\ ~mark.raised /\ Beyond(pos.side, C(i), pos.entry) >= InitialRisk * loop.trigger

ReversionHeld ==
  /\ Phase("close", "next") /\ Held
  /\ mark' = [mark EXCEPT
       !.raised = @ \/ Raises,
       !.next = IF Raises THEN pos.entry + pos.side * loop.offset ELSE None,
       !.queued = ~loop.immediate /\ pos.at = i /\ Beyond(pos.side, C(i), pos.stop) <= 0]
  /\ UNCHANGED <<pos, order, trades, audits>>

(* rrBounds, over the bars before or over the source rows that are known:  *)
(* a source row is known when the next one opens.                          *)
ChartBounds == {[H |-> H(j), L |-> L(j)] : j \in i-loop.lookback..i-1}

KnownSource == {n \in 1..Len(loop.source)-1 : loop.source[n + 1].t <= T(i)}

SourceBounds ==
  {[H |-> loop.source[n].H, L |-> loop.source[n].L] :
     n \in {m \in KnownSource : m > Cardinality(KnownSource) - loop.lookback}}

BoundsKnown ==
  IF loop.source = <<>> THEN i >= loop.lookback ELSE Cardinality(KnownSource) >= loop.lookback

Bounds == IF loop.source = <<>> THEN ChartBounds ELSE SourceBounds

Bound(s) == IF s = 1 THEN Lowest({b.L : b \in Bounds}) ELSE Highest({b.H : b \in Bounds})

(* The bar swept the bound against s and closed back inside.               *)
Reclaims(s) == s * (Bound(s) - Adverse(s, i)) > 0 /\ Beyond(s, C(i), Bound(s)) > 0

ReversionOpenTo ==
  /\ ~Held /\ ~Ordered /\ ~mark.rejected /\ mark.last # i
  /\ T(i) + 1 >= loop.from /\ T(i) + 1 < loop.to
  /\ mark.last # None => i - mark.last >= loop.cooldown
  /\ BoundsKnown /\ ATRReady(i)

(* gates: the sides that the trend and range indicators let through.       *)
ReversionSides(gates) ==
  IF loop.immediate /\ Reclaims(1) /\ Reclaims(-1) THEN {}
  ELSE {s \in gates : Reclaims(s) /\ (loop.requireColor => Beyond(s, C(i), O(i)) > 0)}

ReversionStop(s) == Adverse(s, i) - s * loop.stop

ReversionOrder(s) ==
  [side |-> s, at |-> i, stop |-> ReversionStop(s),
   target |-> C(i) + s * Abs(C(i) - ReversionStop(s)) * loop.targetR]

ReversionClose ==
  /\ Phase("close", "next") /\ ~Held
  /\ UNCHANGED <<pos, mark, trades, audits>>
  /\ \E gates \in SUBSET {1, -1} :
       order' = IF ReversionOpenTo /\ ReversionSides(gates) # {}
                THEN ReversionOrder(Lowest(ReversionSides(gates))) ELSE order

ReversionLoop ==
  /\ loop.kind = "reversion"
  /\ \/ ReversionRejected \/ ReversionThrough \/ ReversionFilled \/ ReversionUnordered
     \/ ReversionDue \/ ReversionRange \/ ReversionHeld \/ ReversionClose

------------------------------------------------------------------------------
(* The gold flag.  loop.valid, loop.spacing and loop.maxHold are 4, 6 and  *)
(* 24 in the code, loop.pole and loop.flag 6.  A signal of the last bar is *)
(* no order, so the bar before is looked at when the next one opens.       *)
FlagBars(j) == j-loop.flag+1..j
PoleBars(j) == j-loop.flag-loop.pole+1..j-loop.flag

FirstAt(S, s, price) == Lowest({j \in S : Favorable(s, j) = price})

PoleEdge(j, s) == Worst(-s, {Favorable(s, n) : n \in PoleBars(j)})
FlagEdge(j, s) == Worst(-s, {Favorable(s, n) : n \in FlagBars(j)})
PoleSize(j) == PoleEdge(j, 1) - PoleEdge(j, -1)
FlagSize(j) == FlagEdge(j, 1) - FlagEdge(j, -1)

(* The pole ran towards s, and the flag keeps to its far half.             *)
Hangs(j, s) ==
  /\ FirstAt(PoleBars(j), -s, PoleEdge(j, -s)) < FirstAt(PoleBars(j), s, PoleEdge(j, s))
  /\ 2 * s * (PoleEdge(j, s) - FlagEdge(j, -s)) <= PoleSize(j)

(* goldFlagExtreme, of the newest buckets that are complete at bar j.      *)
Buckets(j, size) == {b \in {T(n) \div size : n \in 0..j} : (b + 1) * size <= T(j) + 1}

Extremes(j, level) ==
  {n \in 0..j : T(n) \div level.size \in
     {b \in Buckets(j, level.size) : Cardinality({c \in Buckets(j, level.size) : c > b}) < level.count}}

NearLevel(j, s, level) ==
  /\ Cardinality(Buckets(j, level.size)) >= level.count
  /\ s * FlagEdge(j, s)
       >= s * Worst(-s, {Favorable(s, n) : n \in Extremes(j, level)}) - loop.near

GoldSides(j) ==
  IF PoleSize(j) < loop.minPole \/ 10 * FlagSize(j) > 6 * PoleSize(j) \/ FlagSize(j) > loop.maxFlag
  THEN {} ELSE {s \in {1, -1} : Hangs(j, s)}

GoldFlag(j, s) ==
  /\ j + 1 >= loop.atrLength /\ j - loop.flag - loop.pole + 1 >= 1
  /\ GoldSides(j) = {s}
  /\ \E level \in loop.levels : NearLevel(j, s, level)

GoldDue ==
  /\ i >= 2 /\ ~Held /\ ~Ordered
  /\ mark.last # None => i - 1 - mark.last > loop.spacing
  /\ trades # <<>> => trades[Len(trades)].out < i - 1

GoldOrder(s) ==
  [side |-> s, at |-> i - 1, trigger |-> FlagEdge(i - 1, s) + s * loop.buffer,
   stop |-> FlagEdge(i - 1, -s) - s * loop.buffer]

GoldRow(outcome) == Append(audits, [at |-> i - 1, outcome |-> outcome])

GoldSignal(s) ==
  /\ mark' = [mark EXCEPT !.last = i - 1]
  /\ IF Abs(GoldOrder(s).trigger - GoldOrder(s).stop) < loop.minRisk
     THEN audits' = GoldRow("invalid-risk") /\ UNCHANGED order
     ELSE audits' = GoldRow("pending") /\ order' = GoldOrder(s)

GoldBefore ==
  /\ Phase("open", "due")
  /\ UNCHANGED <<pos, trades>>
  /\ \/ GoldDue /\ \E s \in {1, -1} : GoldFlag(i - 1, s) /\ GoldSignal(s)
     \/ ~(GoldDue /\ \E s \in {1, -1} : GoldFlag(i - 1, s)) /\ UNCHANGED <<order, mark, audits>>

GoldOutcome(outcome) == audits' = Audited(Len(audits), outcome)

GoldPosition(price) ==
  Position(order.side, price, order.stop, price + order.side * 2 * Abs(price - order.stop),
           [at |-> order.at])

GoldClosed(price, reason) ==
  CloseAt(price, reason) /\ GoldOutcome("closed") /\ UNCHANGED <<order, mark>>

(* At the open the stop of the order and of the position comes first, and  *)
(* an open beyond the target pays no more than the target.                 *)
GoldOpen ==
  /\ Phase("due", "range")
  /\ \/ /\ Ordered /\ OpensThroughStop(order.side, order.stop, i)
        /\ order' = NoOrder /\ GoldOutcome("cancelled-open-opposite")
        /\ UNCHANGED <<pos, mark, trades>>
     \/ /\ Ordered /\ ~OpensThroughStop(order.side, order.stop, i)
        /\ Beyond(order.side, O(i), order.trigger) >= 0
        /\ order' = NoOrder /\ pos' = GoldPosition(O(i)) /\ GoldOutcome("filled")
        /\ UNCHANGED <<mark, trades>>
     \/ /\ Held /\ OpensThroughStop(pos.side, pos.stop, i) /\ GoldClosed(O(i), "sl-open")
     \/ /\ Held /\ ~OpensThroughStop(pos.side, pos.stop, i) /\ OpensThroughTarget
        /\ GoldClosed(pos.target, "tp-open-capped")
     \/ /\ Held => ~OpensThroughStop(pos.side, pos.stop, i) /\ ~OpensThroughTarget
        /\ Ordered => ~OpensThroughStop(order.side, order.stop, i) /\ Beyond(order.side, O(i), order.trigger) < 0
        /\ Unchanged

(* An order that the range reaches fills at its trigger, and its bracket   *)
(* is tested on the same bar; the entry comes before the opposite side.    *)
GoldTouch ==
  /\ Phase("range", "bracket")
  /\ UNCHANGED <<mark, trades>>
  /\ \/ /\ Ordered /\ Beyond(order.side, Favorable(order.side, i), order.trigger) >= 0
        /\ order' = NoOrder /\ pos' = GoldPosition(order.trigger) /\ GoldOutcome("filled")
     \/ /\ Ordered /\ Beyond(order.side, Favorable(order.side, i), order.trigger) < 0
        /\ TouchesStop(order.side, order.stop, i)
        /\ order' = NoOrder /\ GoldOutcome("cancelled-opposite") /\ UNCHANGED pos
     \/ /\ Ordered => /\ Beyond(order.side, Favorable(order.side, i), order.trigger) < 0
                      /\ ~TouchesStop(order.side, order.stop, i)
        /\ UNCHANGED <<pos, order, audits>>

GoldBracket ==
  /\ Phase("bracket", "close")
  /\ \/ StopTouched /\ GoldClosed(pos.stop, "sl")
     \/ TargetTouched /\ GoldClosed(pos.target, "tp")
     \/ ~StopTouched /\ ~TargetTouched /\ Unchanged

GoldClose ==
  /\ Phase("close", "next")
  /\ \/ Held /\ i - pos.at >= loop.maxHold /\ GoldClosed(C(i), "time")
     \/ /\ Ordered /\ i >= order.at + loop.valid
        /\ order' = NoOrder /\ GoldOutcome("expired") /\ UNCHANGED <<pos, mark, trades>>
     \/ /\ Held => i - pos.at < loop.maxHold
        /\ Ordered => i < order.at + loop.valid
        /\ Unchanged

GoldLoop ==
  /\ loop.kind = "gold"
  /\ GoldBefore \/ GoldOpen \/ GoldTouch \/ GoldBracket \/ GoldClose

------------------------------------------------------------------------------
(* The adaptive volume flag.  mark.queued is the reason of an exit that is *)
(* due at the next open.                                                   *)
FlagDue ==
  /\ Phase("open", "fill")
  /\ \/ /\ mark.queued # "none"
        /\ CloseAt(O(i), mark.queued)
        /\ mark' = [mark EXCEPT !.queued = "none"] /\ UNCHANGED <<order, audits>>
     \/ mark.queued = "none" /\ Unchanged

Open(k) == Beyond(pos.side, O(i), k)

FlagOpen ==
  /\ Phase("fill", "range")
  /\ UNCHANGED <<mark, audits>>
  /\ \/ /\ Held /\ Open(pos.stop) < 0 /\ CloseAt(O(i), "stop-gap") /\ UNCHANGED order
     \/ /\ Held /\ Open(pos.target) > 0 /\ CloseAt(O(i), "target-gap") /\ UNCHANGED order
     \/ /\ Held /\ Open(pos.stop) >= 0 /\ Open(pos.target) <= 0
        /\ UNCHANGED <<pos, order, trades>>
     \/ /\ Ordered /\ Beyond(order.side, O(i), order.trigger) >= 0
        /\ pos' = Position(order.side, O(i), order.stop, order.target, [at |-> order.at])
        /\ order' = NoOrder /\ UNCHANGED trades
     \/ /\ Ordered => Beyond(order.side, O(i), order.trigger) < 0
        /\ ~Held /\ UNCHANGED <<pos, order, trades>>

(* adaptiveFlagBracket, after the open: on the first leg that meets the    *)
(* stop or the target, the one that is nearer to where the leg starts.     *)
LegMeets(a, z) == {x \in {pos.stop, pos.target} : Between(a, z, x)}

MetLeg(path) ==
  LET hits == {k \in 1..3 : LegMeets(path[k], path[k + 1]) # {}}
  IN  IF hits = {} THEN 0 ELSE Lowest(hits)

NearestTo(a, S) ==
  IF pos.stop \in S /\ \A x \in S : Abs(pos.stop - a) <= Abs(x - a) THEN "stop"
  ELSE IF pos.target \in S THEN "target" ELSE "stop"

FlagBracket ==
  \E path \in {NearerFirst} : \E leg \in {MetLeg(path)} :
    IF leg = 0 THEN UNCHANGED <<pos, trades>>
    ELSE IF NearestTo(path[leg], LegMeets(path[leg], path[leg + 1])) = "stop"
         THEN CloseAt(pos.stop, "stop") ELSE CloseAt(pos.target, "target")

FlagRange ==
  /\ Phase("range", "close")
  /\ UNCHANGED <<mark, audits>>
  /\ \/ Held /\ pos.at # i /\ FlagBracket /\ UNCHANGED order
     \/ /\ Ordered /\ Beyond(order.side, Favorable(order.side, i), order.trigger) >= 0
        /\ pos' = Position(order.side, order.trigger, order.stop, order.target, [at |-> order.at])
        /\ order' = NoOrder /\ UNCHANGED trades
     \/ /\ Held => pos.at = i
        /\ Ordered => Beyond(order.side, Favorable(order.side, i), order.trigger) < 0
        /\ UNCHANGED <<pos, order, trades>>

(* A close at or beyond the new stop, and then the longest hold, queue the *)
(* exit.                                                                   *)
FlagHeld ==
  /\ Phase("close", "next") /\ Held
  /\ mark' = [mark EXCEPT !.queued =
       IF pos.at = i /\ Beyond(pos.side, C(i), pos.stop) <= 0 THEN "stop-activated-at-close"
       ELSE IF i - pos.at >= loop.maxHold THEN "max-hold" ELSE "none"]
  /\ UNCHANGED <<pos, order, trades, audits>>

(* Confirmed pivots: strict extremes of the bars around them.  A pole runs *)
(* from the last opposite pivot to the bar where a pivot could be.         *)
PivotAt(s, j) ==
  /\ j >= loop.sensitivity /\ j + loop.sensitivity <= i
  /\ \A n \in (j-loop.sensitivity..j+loop.sensitivity) \ {j} :
       Beyond(s, Favorable(s, j), Favorable(s, n)) > 0

Pivots(s) == {j \in 0..i : PivotAt(s, j)}
LastPivot(s) == IF Pivots(s) = {} THEN None ELSE Highest(Pivots(s))

PoleEnd == IF i >= loop.sensitivity THEN i - loop.sensitivity ELSE i
PoleHeight(s) == Beyond(s, Favorable(s, PoleEnd), Favorable(-s, LastPivot(-s)))

PoleRecent(j) == i - j <= loop.maxFlagBars + loop.sensitivity + loop.recent

Impulse(s) ==
  /\ LastPivot(-s) # None /\ PoleRecent(LastPivot(-s)) /\ ATRReady(i)
  /\ PoleHeight(s) >= loop.minPole
  /\ LastPivot(s) = None \/ LastPivot(s) > LastPivot(-s)

(* The flag's length counts from the last high, for both sides.            *)
SinceHigh == IF LastPivot(1) = None THEN 0 ELSE i - LastPivot(1)
FlagLength == Lowest({Highest({loop.minFlagBars, SinceHigh}), loop.maxFlagBars})
FlagWindow == Highest({0, i - FlagLength + 1})..i
FlagSide(s) == Worst(-s, {Favorable(s, j) : j \in FlagWindow})

FlagValid(s) ==
  /\ Impulse(s) /\ LastPivot(s) # None
  /\ 10 * Beyond(s, Favorable(s, LastPivot(s)), FlagSide(-s)) <= loop.maxRetrace * PoleHeight(s)
  /\ 10 * (FlagSide(1) - FlagSide(-1)) <= loop.maxWidth * PoleHeight(s)

FlagOrder(s) ==
  LET trigger == FlagSide(s) + s * loop.buffer
      stop == FlagSide(-s) - s * loop.stop
  IN  [side |-> s, at |-> i, trigger |-> trigger, stop |-> stop,
       target |-> trigger + s * Beyond(s, trigger, stop) * loop.targetR, age |-> 0]

(* gates: the sides that the trend and the volume let through.             *)
FlagOrders(gates) == IF T(i) < loop.from THEN {} ELSE {s \in gates : FlagValid(s)}

Aged == IF Ordered THEN order.age + 1 ELSE 0
Aging == Ordered /\ Aged <= loop.validBars

FlagClose ==
  /\ Phase("close", "next") /\ ~Held
  /\ UNCHANGED <<pos, mark, trades, audits>>
  /\ \/ Aging /\ order' = [order EXCEPT !.age = Aged]
     \/ /\ ~Aging
        /\ \E gates \in SUBSET {1, -1} :
             order' = IF FlagOrders(gates) = {} THEN NoOrder ELSE FlagOrder(Highest(FlagOrders(gates)))

FlagLoop ==
  /\ loop.kind = "adaptive"
  /\ FlagDue \/ FlagOpen \/ FlagRange \/ FlagHeld \/ FlagClose

ReversionLoops == ReversionLoop \/ GoldLoop \/ FlagLoop
==============================================================================
