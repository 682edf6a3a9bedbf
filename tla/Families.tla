------------------------------- MODULE Families -------------------------------
(***************************************************************************)
(* The bar handlers of the strategy families: what one bar does to the     *)
(* keys a family has already traded, its cooldown, its counters and armed  *)
(* states, and which order it places.  A run has one family, one set of    *)
(* parameters and a series that grows by a candle at a time; the broker    *)
(* around the handler (Broker.tla) is here only its outcome: a queued      *)
(* order fills or is rejected, a limit order fills, waits or expires, a    *)
(* position may close before the handler or by its management.  run.series *)
(* bounds the series: the candles that each bar of it may be.              *)
(***************************************************************************)
EXTENDS FamilyBreaks, FamilyFades, FamilyPullbacks, FamilyZones

CONSTANT Runs  \* a set of runs

(* A bar is one of the run's candles; priorities and rules are lists; a    *)
(* base has a candle, and the impulse that leaves it ends at this bar; a   *)
(* flag may be given no bar at all.                                        *)
ASSUME FamiliesAssumption ==
  \A r \in Runs :
    /\ r.series \in Seq(SUBSET DOMAIN r.candles) /\ r.allow \subseteq {1, -1}
    /\ DOMAIN r.priority \subseteq Nat /\ DOMAIN r.rules \subseteq Nat
    /\ r.minBase \in Nat \ {0} /\ r.maxBase \in Nat /\ r.pole \in Nat
    /\ r.maxFlag \in Nat

VARIABLES pc,       \* whose turn it is on a bar: "broker" or "handler"
          last,     \* the bar the cooldown counts from, or Missing
          seen,     \* the keys of the family's seen set
          busy,     \* "flat", "queued", "limit" or "held"
          signal,   \* the bar of the order that busy is about
          zones,    \* fvgZones, sdZones: a set
          flats,    \* bars a double-top handler examined for a swing
          attempts, \* trend pullback attempts of each side
          armed,    \* nlfState, or NotArmed
          prices,   \* nlfPrices
          placed    \* the accepted orders, a history

vars == <<run, bars, market, pc, last, seen, busy, signal, zones, flats, attempts,
          armed, prices, placed>>

NotArmed == [key |-> "none"]
NoAttempt == [count |-> 0, at |-> Missing]
NoPrices == [k \in {} |-> Missing]

Init ==
  /\ run \in Runs
  /\ market \in DOMAIN run.columns
  /\ bars = <<>> /\ pc = "broker"
  /\ last = Missing /\ seen = {}
  /\ busy = "flat" /\ signal = Missing
  /\ zones = {} /\ flats = {}
  /\ /\ attempts = [s \in {1, -1} |-> NoAttempt]
  /\ armed = NotArmed /\ prices = NoPrices
  /\ placed = {}

------------------------------------------------------------------------------
(* The broker's part of a bar.  A closed Donchian trade is what its        *)
(* cooldown counts from.                                                   *)
AfterOpen ==
  CASE busy = "flat"   -> {"flat"}
    [] busy = "queued" -> {"held", "flat"}
    [] busy = "limit"  -> {"limit", "held", "flat"}
    [] busy = "held"   -> {"held", "flat"}

Closes(next) == busy = "held" /\ next = "flat"

LastAfter(next) ==
  IF run.family = "donchianBreakout" /\ Closes(next) THEN signal ELSE last

BrokerBar ==
  /\ pc = "broker" /\ Len(bars) < Len(run.series)
  /\ \E b \in run.series[Len(bars) + 1] : bars' = Append(bars, b)
  /\ market' \in DOMAIN run.columns
  /\ \E next \in AfterOpen : busy' = next /\ last' = LastAfter(next)
  /\ pc' = "handler"
  /\ UNCHANGED <<run, seen, signal, zones, flats, attempts, armed, prices, placed>>

------------------------------------------------------------------------------
(* What a handler maintains on every bar, also while a position is open.   *)
ZonesNow ==
  CASE run.family = "fairValueGap" ->
         IF run.retest <= 0 THEN {} ELSE Pruned(zones \cup DetectedGaps)
    [] run.family = "supplyDemand" -> PrunedZones(Detected(zones))
    [] OTHER -> zones

(* The gates of the market: never open outside the admitted windows.       *)
MarketGates == IF InWindow(i) THEN BOOLEAN ELSE {FALSE}

(* enterSetup, enter and enterLimit.  gates is marketGatesOK, which limits *)
(* do not ask again; filters the gates that every route asks.              *)
Accepts(plan, gates, filters) ==
  /\ busy = "flat" /\ filters
  /\ plan.limit \/ (gates /\ EntryDistanceOK(plan.level))
  /\ CandleQualityOK(plan.side) /\ ThemeAdmits(plan.side)

Place(plan, gates, filters) ==
  IF Accepts(plan, gates, filters)
  THEN /\ busy' \in (IF plan.limit THEN {"limit"} ELSE {"held", "queued"})
       /\ signal' = i
       /\ placed' = placed \cup {[plan |-> plan, at |-> i]}
  ELSE UNCHANGED <<busy, signal, placed>>

NoOrder == UNCHANGED <<busy, signal, placed>>

(* A handler with an open position only manages it, and may close it: a    *)
(* breakout of a UTC slot must, when the slot is over.                     *)
Managed ==
  /\ busy = "held"
  /\ \E next \in (IF run.family = "openingRangeBreakout" /\ Day(signal) # Day(i)
                  THEN {"flat"} ELSE {"held", "flat"}) :
       busy' = next /\ last' = LastAfter(next)
  /\ zones' = ZonesNow
  /\ UNCHANGED <<seen, signal, flats, attempts, armed, prices, placed>>

------------------------------------------------------------------------------
(* The families whose handler tries its setups in an order and trades the  *)
(* first one it has not traded before.                                     *)
Tried(order, setup(_)) ==
  [n \in DOMAIN order |-> IF order[n] \in run.allow THEN setup(order[n]) ELSE NoSetup]

LongFirst == <<1, -1>>
ShortFirst == <<-1, 1>>

OnOpeningRangeBreakoutBar == Tried(LongFirst, OpeningRangeBreakout)
OnInsideDayExpansionBar == Tried(LongFirst, InsideDayExpansion)
OnBreakRetestBar == Tried(LongFirst, BreakRetest)
OnChannelBreakHoldBar == Tried(LongFirst, ChannelBreakHold)
OnDonchianBreakoutBar == Tried(LongFirst, DonchianBreakout)
OnFlagBar == Tried(LongFirst, FlagContinuation)
OnRangeBreakFakeBar == Tried(LongFirst, RangeBreakFake)
OnDayOpenReclaimBar == Tried(LongFirst, DayOpenReclaim)
OnLevelSweepBar == Tried(ShortFirst, LevelSweep)
OnVWAPExtensionFadeBar == Tried(LongFirst, VWAPExtensionFade)
OnVolumeAnomalyExhaustionBar ==
  Tried(IF C(i) < O(i) THEN ShortFirst ELSE LongFirst, VolumeAnomaly)
OnElderTripleScreenBar == Tried(LongFirst, ElderTripleScreen)
OnFibContinuationBar == Tried(LongFirst, FibContinuation)
OnPriceMomentumBar == Tried(LongFirst, PriceMomentum)
OnKeltnerReversionBar == Tried(LongFirst, KeltnerReversion)
OnKeltnerExpansionBar == Tried(LongFirst, KeltnerExpansion)
OnTriplePushExhaustionBar == Tried(ShortFirst, TriplePush)
OnSessionBreakHoldBar == [n \in 1..4 |-> SessionBreakHold(SessionLevels[n])]
OnNamedLevelSweepBar ==
  [n \in DOMAIN run.rules |-> NamedLevelSweep(run.rules[n])]
OnDoubleTopBottomBar ==
  LET side(s) == DoubleTopBottom(s, flats \cup {i}) IN Tried(ShortFirst, side)

Attempts ==
  CASE run.family = "openingRangeBreakout"  -> OnOpeningRangeBreakoutBar
    [] run.family = "insideDayExpansion"    -> OnInsideDayExpansionBar
    [] run.family = "breakRetest"           -> OnBreakRetestBar
    [] run.family = "channelBreakHold"      -> OnChannelBreakHoldBar
    [] run.family = "donchianBreakout"      -> OnDonchianBreakoutBar
    [] run.family = "rangeBreakFake"        -> OnRangeBreakFakeBar
    [] run.family = "dayOpenReclaim"        -> OnDayOpenReclaimBar
    [] run.family = "failedBreakout"        -> OnLevelSweepBar
    [] run.family = "vwapExtensionFade"     -> OnVWAPExtensionFadeBar
    [] run.family = "volumeAnomaly"         -> OnVolumeAnomalyExhaustionBar
    [] run.family = "elderTripleScreen"     -> OnElderTripleScreenBar
    [] run.family = "fibContinuation"       -> OnFibContinuationBar
    [] run.family = "priceMomentum"         -> OnPriceMomentumBar
    [] run.family = "keltnerReversion"      -> OnKeltnerReversionBar
    [] run.family = "keltnerExpansion"      -> OnKeltnerExpansionBar
    [] run.family = "triplePush"            -> OnTriplePushExhaustionBar
    [] run.family = "sessionBreakHold"      -> OnSessionBreakHoldBar
    [] run.family = "namedLevelSweep"       -> OnNamedLevelSweepBar
    [] run.family = "doubleTopBottom"       -> OnDoubleTopBottomBar
    [] OTHER                                -> OnFlagBar

(* The handlers that set the cooldown by an accepted order only, and the   *)
(* ones that look at no trade window before they try.                      *)
CoolsOnAcceptance == {"priceMomentum", "keltnerReversion", "keltnerExpansion"}
NoWindow == CoolsOnAcceptance \cup {"donchianBreakout"}
GatesFirst == {"failedBreakout", "namedLevelSweep"}

Cooling == last # Missing /\ i - last < run.cooldown

RememberedBySignal(key) == <<Day(i), key, last>>

(* A double top is remembered for the run, any other key for its day.      *)
Remembered(key) ==
  IF run.family = "doubleTopBottom" THEN <<"run", key>> ELSE <<Day(i), key>>

Keyed(plan) == plan.key # <<>> /\ (run.family = "namedLevelSweep" => run.dedup)

Unseen(plan) == Keyed(plan) => Remembered(plan.key) \notin seen

(* A seen double top ends the bar, also for the other side.                *)
FirstUnseen(tries) ==
  LET ok == {n \in DOMAIN tries : tries[n].ok}
      candidates == IF run.family = "doubleTopBottom" /\ ok # {} THEN {Lowest(ok)} ELSE ok
      fit == {n \in candidates : Unseen(tries[n])}
  IN  IF fit = {} THEN NoSetup ELSE tries[Lowest(fit)]

Chosen == FirstUnseen(Attempts)

Ordinary ==
  run.family \notin {"trendPullback", "fairValueGap", "supplyDemand", "namedLevelFlag"}

LastAfterSignal(accepted) ==
  CASE run.family = "donchianBreakout" -> last
    [] run.family \in CoolsOnAcceptance -> IF accepted THEN i ELSE last
    [] OTHER -> i

Signals(gates) ==
  /\ ~Cooling
  /\ run.family \in NoWindow \/ InWindow(i)
  /\ run.family \in GatesFirst => gates

FlatsNow == IF run.family = "doubleTopBottom" THEN flats \cup {i} ELSE flats

Trade(plan, gates, filters) ==
  /\ plan.ok
  /\ seen' = IF Keyed(plan) THEN seen \cup {Remembered(plan.key)} ELSE seen
  /\ Place(plan, gates, filters)
  /\ last' = LastAfterSignal(Accepts(plan, gates, filters))

Ordered ==
  /\ Ordinary /\ busy # "held"
  /\ \E gates \in MarketGates, filters \in BOOLEAN :
       Signals(gates) /\ Trade(Chosen, gates, filters)
  /\ flats' = FlatsNow
  /\ UNCHANGED <<zones, attempts, armed, prices>>

Passed ==
  /\ Ordinary /\ busy # "held"
  /\ \E gates \in MarketGates : Signals(gates) => ~Chosen.ok
  /\ flats' = FlatsNow
  /\ NoOrder /\ UNCHANGED <<last, seen, zones, attempts, armed, prices>>

------------------------------------------------------------------------------
(* trendPullback counts attempts, consecutive bars being one, and enters   *)
(* on the authored one; the counts start again with the entry, whether or  *)
(* not the broker takes it, and when the trend ends.                       *)
Fresh == IF cols.regime = "trending" THEN attempts ELSE [s \in {1, -1} |-> NoAttempt]

Counted(s) ==
  IF Fresh[s].at = Missing \/ i > Fresh[s].at + 1 THEN Fresh[s].count + 1 ELSE Fresh[s].count

Pulled == {s \in run.allow : TrendPullback(s).ok}

Enough(pulled) == {s \in pulled : Counted(s) >= run.attempts}

RecordedAttempt(s) == [count |-> Counted(s), at |-> i]

(* The long side is tried first; the short side only when it does not      *)
(* enter.                                                                  *)
PullbackEntry(s, pulled) ==
  /\ attempts' = [t \in {1, -1} |->
       [at |-> IF t \in pulled /\ (t = 1 \/ s = -1) THEN i ELSE Fresh[t].at, count |-> 0]]
  /\ \E gates \in MarketGates, filters \in BOOLEAN : Place(TrendPullback(s), gates, filters)

PullbackTry(pulled) ==
  /\ Enough(pulled) # {}
  /\ PullbackEntry(IF 1 \in Enough(pulled) THEN 1 ELSE -1, pulled)

PullbackRecord(pulled) ==
  /\ Enough(pulled) = {}
  /\ attempts' = [s \in {1, -1} |-> IF s \in pulled THEN RecordedAttempt(s) ELSE Fresh[s]]

PullbackOrdered ==
  /\ run.family = "trendPullback" /\ busy # "held"
  /\ InWindow(i) /\ ~Cooling
  /\ PullbackTry(Pulled)
  /\ last' = i
  /\ UNCHANGED <<seen, zones, flats, armed, prices>>

PullbackPassed ==
  /\ run.family = "trendPullback" /\ busy # "held"
  /\ PullbackRecord(IF InWindow(i) /\ ~Cooling THEN Pulled ELSE {})
  /\ NoOrder /\ UNCHANGED <<last, seen, zones, flats, armed, prices>>

------------------------------------------------------------------------------
(* fairValueGap: the newest retested gap; a closed gate or a refused limit *)
(* leaves it for a later bar.                                              *)
GapPlan(z) == [FairValueGap(z) EXCEPT !.key = <<"gap", z.side, z.at>>]

Retestable(found) == {z \in found : FairValueGap(z).ok}

Newest(found) == CHOOSE z \in found : \A y \in found : y.at <= z.at

LimitAt(zone, plan) ==
  \E gates \in MarketGates, filters \in BOOLEAN :
    IF gates /\ Accepts(plan, gates, filters)
    THEN /\ Place(plan, gates, filters)
         /\ zones' = ZonesNow \ {zone} /\ last' = i
    ELSE NoOrder /\ zones' = ZonesNow /\ UNCHANGED last

TryGap(zone) == LimitAt(zone, GapPlan(zone))

GapOrdered ==
  /\ run.family = "fairValueGap" /\ busy # "held"
  /\ ~Cooling /\ InWindow(i) /\ Retestable(ZonesNow) # {}
  /\ TryGap(Newest(Retestable(ZonesNow)))
  /\ UNCHANGED <<seen, flats, attempts, armed, prices>>

GapPassed ==
  /\ run.family = "fairValueGap" /\ busy # "held"
  /\ Cooling \/ ~InWindow(i) \/ Retestable(ZonesNow) = {}
  /\ zones' = ZonesNow
  /\ NoOrder /\ UNCHANGED <<last, seen, flats, attempts, armed, prices>>

------------------------------------------------------------------------------
(* supplyDemand: every bar examines the zones, newest first, up to the one *)
(* it trades.  DayTypes with its escape, and movement below.               *)
SupplyDemandOpen ==
  /\ ~Cooling /\ InWindow(i)
  /\ run.directions # {} => cols.regime \in run.directions \/ cols.er <= run.minER
  /\ cols.er <= run.maxER

TradeZone(found, taken) ==
  /\ zones' = Retested(found, taken)
  /\ IF taken = {} THEN NoOrder /\ UNCHANGED last
     ELSE /\ \E zone \in taken, gates \in MarketGates, filters \in BOOLEAN :
               Place(SupplyDemand(zone), gates, filters)
          /\ last' = i

ExamineZones(found) == TradeZone(found, TradedZone(found))

ZoneOrdered ==
  /\ run.family = "supplyDemand" /\ busy # "held"
  /\ SupplyDemandOpen
  /\ ExamineZones(ZonesNow)
  /\ UNCHANGED <<seen, flats, attempts, armed, prices>>

ZonePassed ==
  /\ run.family = "supplyDemand" /\ busy # "held"
  /\ ~SupplyDemandOpen
  /\ zones' = ZonesNow
  /\ NoOrder /\ UNCHANGED <<last, seen, flats, attempts, armed, prices>>

------------------------------------------------------------------------------
(* namedLevelFlag: an impulse through a level arms a flag, which ripens    *)
(* over the next bars, breaks, or is dropped.                              *)
FlagPrices == [k \in {l \in DOMAIN cols.levels : cols.levels[l] # Missing} |-> cols.levels[k]]

SameLevel(k) ==
  k \in DOMAIN FlagPrices /\ k \in DOMAIN prices /\ FlagPrices[k] = prices[k]

Spoiled(a) ==
  \/ i - a.at > run.maxFlag
  \/ a.key \notin DOMAIN FlagPrices
  \/ FlagPrices[a.key] # a.level
  \/ Beyond(a.side, C(i), a.level) < 0
  \/ a.side * (2 * Adverse(a.side, i) - a.mid2) < 0

(* High and Low are infinite until the first bar of the flag.              *)
FlagBroken(a) ==
  /\ a.count >= run.minFlag /\ a.pullback
  /\ a.count > 0 /\ Beyond(a.side, C(i), IF a.side = 1 THEN a.high ELSE a.low) > 0

KnownRoom(s) ==
  {k \in DOMAIN FlagPrices : SameLevel(k) /\ Beyond(s, FlagPrices[k], C(i)) > 0}

NamedFlag(a) ==
  LET stop == (IF a.side = 1 THEN a.low ELSE a.high) - a.side * run.stopBuffer
  IN  IF /\ run.displacement > 0 => Body(i) >= run.displacement
         /\ StopOK(C(i), stop)
         /\ run.mode = "knownLevel2R" => KnownRoom(a.side) # {}
      THEN FixedR(a.side, stop, <<a.key>>, a.level)
      ELSE NoSetup

Ripened(a) ==
  [a EXCEPT !.pullback = @ \/ Beyond(a.side, C(i), O(i)) < 0,
            !.high = IF a.count = 0 \/ H(i) > @ THEN H(i) ELSE @,
            !.low = IF a.count = 0 \/ L(i) < @ THEN L(i) ELSE @,
            !.count = @ + 1]

(* The first unseen level, in the order of the keys, that the bar crossed. *)
CrossedLevels(s) ==
  {n \in DOMAIN run.priority :
     LET k == run.priority[n]
     IN  /\ (s = 1) = (k \in {"PDH", "AH", "LH"})
         /\ <<Day(i), <<k>>>> \notin seen
         /\ SameLevel(k)
         /\ Beyond(s, C(i-1), FlagPrices[k]) <= 0
         /\ Beyond(s, C(i), FlagPrices[k]) >= run.breakBuffer}

ImpulseSide == IF C(i) < O(i) THEN -1 ELSE 1

Impulse ==
  /\ i > 0 /\ Body(i) >= run.minBreak /\ ImpulseSide \in run.allow

StandingOvernight == armed

(* A new UTC day has dropped whatever was armed.                           *)
Standing == IF armed # NotArmed /\ Day(armed.at) # Day(i) THEN NotArmed ELSE armed

FlagBar ==
  /\ run.family = "namedLevelFlag" /\ busy # "held"
  /\ prices' = FlagPrices
  /\ UNCHANGED <<last, zones, flats, attempts>>

FlagDropped ==
  /\ FlagBar
  /\ \/ FALSE \in MarketGates
     \/ /\ TRUE \in MarketGates /\ cols.atr > 0
        /\ Standing # NotArmed /\ Spoiled(Standing)
  /\ armed' = NotArmed
  /\ NoOrder /\ UNCHANGED seen

FlagIdle ==
  /\ FlagBar /\ TRUE \in MarketGates
  /\ cols.atr = 0 \/ (Standing = NotArmed /\ ~(Impulse /\ CrossedLevels(ImpulseSide) # {}))
  /\ armed' = Standing
  /\ NoOrder /\ UNCHANGED seen

FlagArmed ==
  /\ FlagBar /\ TRUE \in MarketGates /\ cols.atr > 0
  /\ Standing = NotArmed /\ Impulse /\ CrossedLevels(ImpulseSide) # {}
  /\ LET k == run.priority[Lowest(CrossedLevels(ImpulseSide))]
     IN  /\ seen' = seen \cup {<<Day(i), <<k>>>>}
         /\ armed' = [key |-> k, level |-> FlagPrices[k], side |-> ImpulseSide, at |-> i,
                      mid2 |-> H(i) + L(i), high |-> Missing, low |-> Missing,
                      count |-> 0, pullback |-> FALSE]
  /\ NoOrder

FlagRipened ==
  /\ FlagBar /\ TRUE \in MarketGates /\ cols.atr > 0
  /\ Standing # NotArmed /\ ~Spoiled(Standing) /\ ~FlagBroken(Standing)
  /\ armed' = Ripened(Standing)
  /\ NoOrder /\ UNCHANGED seen

BreakOrder(plan) ==
  IF plan.ok THEN \E filters \in BOOLEAN : Place(plan, TRUE, filters) ELSE NoOrder

FlagBreaks ==
  /\ FlagBar /\ TRUE \in MarketGates /\ cols.atr > 0
  /\ Standing # NotArmed /\ ~Spoiled(Standing) /\ FlagBroken(Standing)
  /\ armed' = NotArmed
  /\ BreakOrder(NamedFlag(Standing))
  /\ UNCHANGED seen

------------------------------------------------------------------------------
Handler ==
  /\ pc = "handler" /\ pc' = "broker"
  /\ UNCHANGED <<run, bars, market>>
  /\ \/ Managed
     \/ Ordered \/ Passed
     \/ PullbackOrdered \/ PullbackPassed
     \/ GapOrdered \/ GapPassed
     \/ ZoneOrdered \/ ZonePassed
     \/ FlagDropped \/ FlagIdle \/ FlagArmed \/ FlagRipened \/ FlagBreaks

Next == BrokerBar \/ Handler

Spec == Init /\ [][Next]_vars

------------------------------------------------------------------------------
(* Properties.                                                             *)

(* A queued or open order loses at its stop and wins at its target, for    *)
(* every family's stop and target formula: openPosition takes the bracket  *)
(* as it is given.  Two formulas promise no such thing: the Fibonacci stop *)
(* replaces the one that was examined, and the extreme of an earlier       *)
(* Keltner stretch can lie beyond a close that the bands have moved past.  *)
Unbounded == run.mode = "fibRetrace" \/ run.family = "keltnerReversion"

LosesAtStop(plan) == Beyond(plan.side, plan.entry, plan.stop) > 0
WinsAtTarget(plan) == plan.noTarget \/ Beyond(plan.side, plan.target, plan.entry) > 0

BracketSane ==
  ~Unbounded => \A o \in placed : LosesAtStop(o.plan) /\ WinsAtTarget(o.plan)

(* A key is traded once: a gap, a zone and a double top once in the run,   *)
(* the key of any other family once a day, although orders are refused,    *)
(* rejected, expire or are closed in between.                              *)
OncePerRun == {"doubleTopBottom", "fairValueGap", "supplyDemand"}

SameKey(o, p) == o.plan.key = p.plan.key /\ o.at # p.at

OneOrderPerKey ==
  \A o, p \in {q \in placed : Keyed(q.plan)} :
    SameKey(o, p) => run.family \notin OncePerRun /\ Day(o.at) # Day(p.at)

(* After a bar that had an ATR an armed flag is one of today's, young      *)
(* enough, and armed at the price its level still has.                     *)
ArmedIsCurrent ==
  (armed # NotArmed /\ pc = "broker" /\ busy # "held" /\ cols.atr # 0) =>
    /\ i - armed.at <= run.maxFlag
    /\ Day(armed.at) = Day(i)
    /\ armed.key \in DOMAIN prices /\ prices[armed.key] = armed.level
==============================================================================
