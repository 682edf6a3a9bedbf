------------------------------ MODULE FamilyZones ------------------------------
(***************************************************************************)
(* supplyDemand: a tight base left by an impulse becomes a zone, which is  *)
(* touched, perhaps answered within a few bars or by a break of structure, *)
(* and traded once.  A zone is a record:                                   *)
(*   side     1 for demand, -1 for supply     lo, hi   its bounds          *)
(*   base     <<first, last>> bar of the base at       CreatedAt           *)
(*   touches  TouchCount                      pending  PendingTouchAt      *)
(*   choch    ChochTouchAt                    level    ChochLevel          *)
(*   used, flipped                                                         *)
(* with Missing for a bar or level the code flags as not set.  touched is  *)
(* a history field: the bar of the last touch that was counted.            *)
(* sdZones is the set of them; it lists them as they were added, which is  *)
(* by the last bar of the base, the later first bars first.  The cap of 80 *)
(* zones is beyond the instances; bars are evaluated once, so LastTouchAt  *)
(* never repeats the current bar and is left out.                          *)
(*                                                                         *)
(* And the setups built on confirmed pivots, after the zones.              *)
(***************************************************************************)
EXTENDS FamilyTape

(* sdBaseStats, with the bounds of the wicks, and sdZoneBounds.            *)
BaseBodies(S) == {O(j) : j \in S} \cup {C(j) : j \in S}

WickBounds(S) == [lo |-> RangeLow(S), hi |-> RangeHigh(S)]
BodyBounds(S) == [lo |-> Lowest(BaseBodies(S)), hi |-> Highest(BaseBodies(S))]

ZoneBounds(s, S) ==
  CASE run.bounds = "body" -> BodyBounds(S)
    [] run.bounds = "proximalDistal" /\ s = 1 ->
         [lo |-> RangeLow(S), hi |-> Highest(BaseBodies(S))]
    [] run.bounds = "proximalDistal" /\ s = -1 ->
         [lo |-> Lowest(BaseBodies(S)), hi |-> RangeHigh(S)]
    [] OTHER -> WickBounds(S)

Tight(S) ==
  /\ RangeHigh(S) - RangeLow(S) <= run.maxWidth
  /\ \A j \in S : /\ Body(j) <= run.maxBody
                  /\ 100 * Body(j) <= run.maxBodyShare * RangeSize(j)

(* sdSourceDirection: the leg into the base.                               *)
Direction(move) ==
  IF move >= run.minSource THEN "up" ELSE IF move <= -run.minSource THEN "down" ELSE "flat"

SourceDirection(first) ==
  IF run.source <= 0 \/ first - run.source < 0 THEN "flat"
  ELSE Direction(C(first - 1) - C(first - run.source))

PatternFor(s, source) ==
  IF s = 1 THEN IF source = "down" THEN "DBR" ELSE "RBR"
  ELSE IF source = "up" THEN "RBD" ELSE "DBD"

(* A candle of the departure closes with a large enough body its way.      *)
DepartureOK(s, S) ==
  \/ run.departure = 0
  \/ \E j \in S : /\ Beyond(s, C(j), O(j)) > 0
                  /\ 100 * Body(j) >= run.departure * RangeSize(j)

(* The zones that the base of n bars before the impulse makes.             *)
NewZone(s, S, bounds) ==
  [side |-> s, lo |-> bounds.lo, hi |-> bounds.hi, base |-> <<Lowest(S), Highest(S)>>,
   at |-> i, touches |-> 0, pending |-> Missing, choch |-> Missing, level |-> Missing,
   touched |-> Missing, used |-> FALSE, flipped |-> FALSE]

ZonesOf(S, source) ==
  {NewZone(s, S, ZoneBounds(s, S)) :
     s \in {t \in {1, -1} :
             /\ Tight(S)
             /\ run.minSource > 0 => source # "flat"
             /\ Beyond(t, C(i), RangeEdge(t, S)) >= run.minBreak
             /\ DepartureOK(t, Highest(S)+1..i)
             /\ PatternFor(t, source) \in run.patterns}}

ZonesFrom(first, last) ==
  IF cols.atr = 0 \/ first < 0 THEN {} ELSE ZonesOf(first..last, SourceDirection(first))

(* addSupplyDemandZone: no zone twice, and no overlap where it is refused. *)
SameZone(y, z) ==
  y.base = z.base /\ y.side = z.side /\ y.lo = z.lo /\ y.hi = z.hi

Overlapping(y, z) == ~y.used /\ y.side = z.side /\ z.hi >= y.lo /\ z.lo <= y.hi

AddZone(zones, z) ==
  IF \E y \in zones : SameZone(y, z) \/ (run.skipOverlap /\ Overlapping(y, z))
  THEN zones ELSE zones \cup {z}

(* An impulse leaves the base upwards or downwards, never both.            *)
AddZones(zones, made) == IF made = {} THEN zones ELSE AddZone(zones, CHOOSE z \in made : TRUE)

Detected(zones) ==
  LET added[n \in (run.minBase - 1)..run.maxBase] ==
        IF n < run.minBase THEN zones
        ELSE AddZones(added[n-1], ZonesFrom(i - run.pole - n + 1, i - run.pole))
  IN  IF run.maxBase < run.minBase THEN zones ELSE added[run.maxBase]

(* pruneSupplyDemandZones: a broken zone flips once, where it may.         *)
Far(z) == IF z.side = 1 THEN z.lo ELSE z.hi
Near(z) == IF z.side = 1 THEN z.hi ELSE z.lo

Broken(z) == Beyond(z.side, C(i), Far(z)) < -run.pierce

Flip(z) == [z EXCEPT !.side = -z.side, !.flipped = TRUE, !.used = FALSE, !.at = i]

Kept(z) ==
  /\ ~z.used /\ i - z.at <= run.retest
  /\ Broken(z) => run.flips /\ ~z.flipped

AfterBreak(z) == IF Broken(z) THEN Flip(z) ELSE z

PrunedZones(zones) == {AfterBreak(z) : z \in {y \in zones : Kept(y)}}

------------------------------------------------------------------------------
(* supplyDemandRetestAt changes the zone it examines, also where it makes  *)
(* no setup: the result is the zone left behind and whether to trade it.   *)
Leave(z) == [zone |-> z, trade |-> FALSE]
Take(z)  == [zone |-> z, trade |-> TRUE]

Reacting(z) ==
  run.maxReaction > 0 /\ z.pending # Missing /\ i - z.pending <= run.maxReaction

Touched(z) ==
  /\ Beyond(z.side, Adverse(z.side, i), Near(z)) <= run.tolerance
  /\ Beyond(z.side, C(i), Far(z)) > 0

Rejected(z) == Beyond(z.side, C(i), Near(z)) > 0

StructureLevel(s) ==
  Best(s, {Favorable(s, j) : j \in LastBars(1 + (IF run.lookback < 1 THEN 1 ELSE run.lookback))})

(* A touch that has been answered, or needs no answer, waits for a close   *)
(* through the structure, or is traded.                                    *)
Answered(z) ==
  IF run.choch > 0
  THEN Leave([z EXCEPT !.choch = i, !.level = StructureLevel(z.side)])
  ELSE Take(z)

AfterTouch(z) ==
  CASE z.touches > run.maxRetests -> Leave(z)
    [] run.mustReject /\ ~Rejected(z) ->
         Leave(IF run.maxReaction > 0 /\ z.pending = Missing
               THEN [z EXCEPT !.pending = i] ELSE z)
    [] OTHER -> Answered(IF run.mustReject THEN [z EXCEPT !.pending = Missing] ELSE z)

Untouched(z) ==
  IF run.mustReject /\ Reacting(z)
  THEN IF Rejected(z) THEN AfterTouch([z EXCEPT !.pending = Missing]) ELSE Leave(z)
  ELSE Leave(IF z.pending # Missing /\ i - z.pending > run.maxReaction
             THEN [z EXCEPT !.pending = Missing] ELSE z)

Examined(z) ==
  CASE run.choch > 0 /\ z.choch # Missing ->
         IF i - z.choch > run.choch THEN Leave([z EXCEPT !.choch = Missing, !.level = Missing])
         ELSE IF Beyond(z.side, C(i), z.level) > 0 THEN Take(z) ELSE Leave(z)
    [] ~Touched(z) -> Untouched(z)
    [] OTHER -> AfterTouch(IF Reacting(z) THEN z
                           ELSE [z EXCEPT !.touches = @ + 1, !.touched = i])

Ready(z) ==
  /\ cols.atr # 0 /\ i > z.at + run.wait
  /\ z.side \in run.allow /\ HTFAllows(z.side)

ZoneStop(z) == Widened(z.side, Far(z) - z.side * run.stopBuffer)

Tradable(z, r) ==
  /\ r.trade
  /\ run.useTrigger => Trigger(z.side, i)
  /\ StopOK(C(i), ZoneStop(z))

RetestAt(z) == IF Ready(z) THEN Examined(z) ELSE Leave(z)

(* nextSupplyDemandZone: the newest zone first, of two as new the one that *)
(* was added first.                                                        *)
Listed(y, z) ==
  \/ y.base[2] < z.base[2]
  \/ y.base[2] = z.base[2] /\ y.base[1] > z.base[1]

Sooner(y, z) == y.at > z.at \/ (y.at = z.at /\ Listed(y, z))

TradedZone(zones) ==
  LET fit == {z \in zones : ~z.used /\ Tradable(z, RetestAt(z))}
  IN  {z \in fit : \A y \in fit \ {z} : Sooner(z, y)}

(* Every zone up to the traded one has been examined.                      *)
Retested(zones, taken) ==
  LET examined(z) == ~z.used /\ \A t \in taken : z = t \/ Sooner(z, t)
  IN  {IF examined(z) THEN [RetestAt(z).zone EXCEPT !.used = z \in taken] ELSE z : z \in zones}

SupplyDemand(z) ==
  Setup(z.side, C(i), ZoneStop(z), C(i) + z.side * Abs(C(i) - ZoneStop(z)) * run.targetR,
        <<z.side, z.base, z.lo, z.hi>>, Missing)

------------------------------------------------------------------------------
(* The setups built on confirmed pivots: double tops and bottoms, and      *)
(* three pushes in one direction.                                          *)

(* A pivot on the losing side of s: lower than the w bars around it for a  *)
(* long, higher for a short.                                               *)
StrictPivot(s, j, w) ==
  \A n \in 1..w : /\ Beyond(s, Adverse(s, j), Adverse(s, j-n)) < 0
                  /\ Beyond(s, Adverse(s, j), Adverse(s, j+n)) < 0

------------------------------------------------------------------------------
(* doubleTopBottom.  captureDTBSwing runs on the flat bars only: seen is   *)
(* the set of those bars, and a pivot is known once the bar w after it was *)
(* one of them.                                                            *)
SwingPivots(s, seen) ==
  {j \in run.pivot..(i - run.pivot) : j + run.pivot \in seen /\ StrictPivot(s, j, run.pivot)}

SwingBroken(s, swings) ==
  /\ swings # {}
  /\ i - Highest(swings) <= run.choch
  /\ Beyond(s, C(i), Favorable(s, Highest(swings))) > 0

ChochStart(second) ==
  Highest({run.pivot, second - (IF run.lookback < 1 THEN 1 ELSE run.lookback)})

ChochConfirmed(s, second) ==
  run.choch # 0 =>
    SwingBroken(s, {j \in ChochStart(second)..second-1 : StrictPivot(-s, j, run.pivot)})

NecklineBroken(s, neckline, base) ==
  /\ Beyond(s, neckline, base) >= run.minBreak
  /\ Beyond(s, C(i), neckline) >= run.breakBuffer

DoubleSetup(s, first, second, base) ==
  IF /\ second - first \in run.minGap..run.maxGap
     /\ Abs(Adverse(s, first) - Adverse(s, second)) <= run.tolerance
     /\ first + 1 < second /\ second < i
     /\ NecklineBroken(s, Best(s, {Favorable(s, j) : j \in first+1..second-1}), base)
     /\ i - second <= run.within
     /\ Beyond(s, C(i), Adverse(s, second)) >= run.reach
     /\ ChochConfirmed(s, second)
  THEN FixedR(s, base - s * run.stopBuffer, <<s, first, second>>, Missing)
  ELSE NoSetup

DoubleOf(s, first, second) ==
  DoubleSetup(s, first, second, Worst(s, {Adverse(s, first), Adverse(s, second)}))

(* The n-th latest of a set of bars.                                       *)
Latest(n, S) == CHOOSE j \in S : Cardinality({k \in S : k > j}) = n - 1

LastTwo(s, pivots) ==
  IF Cardinality(pivots) >= 2 THEN DoubleOf(s, Latest(2, pivots), Latest(1, pivots)) ELSE NoSetup

DoubleTopBottom(s, seen) ==
  IF i > 1 /\ cols.atr # 0 /\ HTFAllows(s) THEN LastTwo(s, SwingPivots(s, seen)) ELSE NoSetup

------------------------------------------------------------------------------
(* triplePushExhaustion fades three pushes of the other side: its peaks    *)
(* are the pivots on the losing side of s, its valleys those opposite.     *)
PushPivots(s) == {j \in run.pivot+1..(i - run.pivot) : StrictPivot(s, j, run.pivot)}

(* htfAllowsFade: the trend must not be the fade's own side.               *)
HTFAllowsFade(s) ==
  run.useHTF => cols.htf = "flat" \/ cols.htf = (IF s = 1 THEN "down" ELSE "up")

PushTarget(s, base, risk) ==
  IF run.mode = "structure" /\ Beyond(s, base, C(i)) >= risk
  THEN base ELSE C(i) + s * risk * run.targetR

PushSetup(s, stop, base) ==
  IF StopOK(C(i), stop)
  THEN Setup(s, C(i), stop, PushTarget(s, base, Abs(C(i) - stop)), <<>>, Missing)
  ELSE NoSetup

(* ab, bc and the valleys before a lie around the peaks a, b and c.        *)
LegsShrink(s, b, c, ab, bc) ==
  100 * Abs(Adverse(s, c) - Favorable(s, Highest(bc)))
    <= run.maxDepth * Abs(Adverse(s, b) - Favorable(s, Highest(ab)))

PushesOf(s, a, b, c, ab, bc, earlier) ==
  IF /\ Beyond(s, Adverse(s, c), Adverse(s, b)) < 0
     /\ Beyond(s, Adverse(s, b), Adverse(s, a)) < 0
     /\ b - a >= run.minGap /\ c - b >= run.minGap
     /\ ab # {} /\ bc # {} /\ LegsShrink(s, b, c, ab, bc)
     /\ Beyond(s, C(i), Adverse(s, c)) \in 0..run.reach
     /\ CandleQualityOK(s) /\ TriggerOK(s)
  THEN PushSetup(s, Widened(s, Adverse(s, c) - s * run.stopBuffer),
                 Favorable(s, Highest(IF earlier # {} THEN earlier ELSE ab)))
  ELSE NoSetup

Pushes(s, a, b, c, valleys) ==
  PushesOf(s, a, b, c, {j \in valleys : a < j /\ j < b}, {j \in valleys : b < j /\ j < c},
           {j \in valleys : j < a})

LastThree(s, recent) ==
  IF Cardinality(recent) >= 3
  THEN Pushes(s, Latest(3, recent), Latest(2, recent), Latest(1, recent), PushPivots(-s))
  ELSE NoSetup

TriplePush(s) ==
  IF HTFAllowsFade(s) /\ cols.atr # 0 /\ cols.er \in run.minER..run.maxER
  THEN LastThree(s, {j \in PushPivots(s) : i - j <= run.lookback})
  ELSE NoSetup
==============================================================================
