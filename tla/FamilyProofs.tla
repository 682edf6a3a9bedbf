----------------------------- MODULE FamilyProofs -----------------------------
(***************************************************************************)
(* Proofs about the bar handlers of Families, for any runs of any family   *)
(* over series of any length.                                              *)
(***************************************************************************)
EXTENDS Families, WellFoundedInduction, TLAPS

(* The run does not change, and its bars are candles of it.                *)
Taped == run \in Runs /\ bars \in Seq(DOMAIN run.candles)

SameTape == run' = run /\ bars' = bars /\ market' = market

(* An ordinary family remembers every key it placed an order for.          *)
RememberedAt(o) ==
  IF run.family = "doubleTopBottom" THEN <<"run", o.plan.key>> ELSE <<Day(o.at), o.plan.key>>

OrdinaryKept == Ordinary => \A o \in placed : Keyed(o.plan) => RememberedAt(o) \in seen

PullbackKept == run.family = "trendPullback" => \A o \in placed : ~Keyed(o.plan)

(* The bar that a gap or a base has to be older than.                      *)
Horizon == IF pc = "broker" THEN i + 1 ELSE i

(* A set of gaps of bars before n, at most one of a side and bar, and none *)
(* of them one that an order has been placed for.                          *)
Gaps(found, n) ==
  /\ \A z \in found : z.side \in Int /\ z.at \in Int /\ z.at < n
  /\ \A y, z \in found : y.side = z.side /\ y.at = z.at => y = z

GapsUsed(orders, found, n) ==
  \A o \in orders :
    \E s, at \in Int : /\ o.plan.key = <<"gap", s, at>> /\ at < n
                       /\ \A z \in found : ~(z.side = s /\ z.at = at)

GapKept ==
  run.family = "fairValueGap" => Gaps(zones, Horizon) /\ GapsUsed(placed, zones, Horizon)

(* A set of zones of bases that end before n, one of a base, and those of  *)
(* a base that an order has been placed for are used.                      *)
ZoneFields == {"side", "lo", "hi", "base", "at", "touches", "pending", "choch", "level",
               "touched", "used", "flipped"}
IsZone(z) == z = [f \in ZoneFields |-> z[f]] /\ z.at \in Int

BasedBy(z, n) == \E a, b \in Int : z.base = <<a, b>> /\ b < n

ZoneSet(found, n) ==
  /\ \A z \in found : IsZone(z) /\ BasedBy(z, n)
  /\ \A y, z \in found : y.base = z.base => y = z

ZonesUsed(orders, found, n) ==
  \A o \in orders :
    \E a, b \in Int : /\ o.plan.key[2] = <<a, b>> /\ b < n
                      /\ \A z \in found : z.base = <<a, b>> => z.used

ZoneKept ==
  run.family = "supplyDemand" =>
    ZoneSet(zones, Horizon - run.pole) /\ ZonesUsed(placed, zones, Horizon - run.pole)

(* An armed level has not been traded today, and is remembered; nothing is *)
(* armed while an order or a position is open, nor in another family.      *)
ArmedFields ==
  {"key", "level", "side", "at", "mid2", "high", "low", "count", "pullback"}
IsArmed(a) == a = [f \in ArmedFields |-> a[f]]

Untraded(a) ==
  /\ IsArmed(a) /\ a.at \in Int /\ <<Day(a.at), <<a.key>>>> \in seen
  /\ \A o \in placed : ~(o.plan.key = <<a.key>> /\ Day(o.at) = Day(a.at))

FlagKept ==
  IF run.family = "namedLevelFlag"
  THEN /\ \A o \in placed : <<Day(o.at), o.plan.key>> \in seen
       /\ armed # NotArmed => Untraded(armed) /\ busy = "flat"
       /\ busy \in {"flat", "queued", "held"} /\ (pc = "handler" => busy # "queued")
  ELSE armed = NotArmed

KeysKept ==
  /\ Taped /\ OrdinaryKept /\ PullbackKept /\ GapKept /\ ZoneKept /\ FlagKept
  /\ OneOrderPerKey

-------------------------------------------------------------------------------
(* Numbers and bars.                                                       *)

LEMMA BarNumber == Taped => Len(bars) \in Nat /\ i \in Int /\ i = Len(bars) - 1 /\ i >= -1
BY DEF Taped, i

LEMMA SameBar == SameTape => i' = i /\ \A j : Day(j)' = Day(j)
BY DEF SameTape, i, Day

(* A non-empty set of naturals has a lowest member.                        *)
LEMMA LowestOf ==
  ASSUME NEW S, S \subseteq Nat, S # {}
  PROVE  Lowest(S) \in S /\ \A y \in S : Lowest(S) <= y
<1>1. PICK x \in S : \A y \in S : ~(<<y, x>> \in OpToRel(<, Nat))
  BY NatLessThanWellFounded, WFMin, Zenon
<1>2. \A y \in S : x <= y
  <2> TAKE y \in S
  <2>1. x \in Nat /\ y \in Nat /\ ~(y < x)
    BY <1>1 DEF OpToRel
  <2> QED BY <2>1
<1> QED BY <1>2 DEF Lowest

-------------------------------------------------------------------------------
(* Orders.                                                                 *)

LEMMA Placing ==
  ASSUME NEW plan, NEW gates, NEW filters, Place(plan, gates, filters)
  PROVE  \/ placed' = placed \cup {[plan |-> plan, at |-> i]}
         \/ placed' = placed
BY DEF Place

(* An order may join the others when the keys it repeats are of other      *)
(* days, of a family that may trade a key on each.                         *)
Repeats(plan, o) == Keyed(plan) /\ Keyed(o.plan) /\ o.plan.key = plan.key /\ o.at # i

LEMMA OneMoreKey ==
  ASSUME SameTape, OneOrderPerKey, NEW plan,
         placed' = placed \cup {[plan |-> plan, at |-> i]},
         \A o \in placed : Repeats(plan, o) => run.family \notin OncePerRun /\ Day(o.at) # Day(i)
  PROVE  OneOrderPerKey'
<1> DEFINE new == [plan |-> plan, at |-> i]
<1>1. new.plan = plan /\ new.at = i
  OBVIOUS
<1>2. run' = run /\ (\A q : Keyed(q)' = Keyed(q)) /\ (\A j : Day(j)' = Day(j))
  BY SameBar DEF SameTape, Keyed
<1> HIDE DEF new
<1>3. ASSUME NEW o \in placed', NEW p \in placed', Keyed(o.plan), Keyed(p.plan), SameKey(o, p)
      PROVE  run.family \notin OncePerRun /\ Day(o.at) # Day(p.at)
  <2>1. CASE o \in placed /\ p \in placed
    BY <1>3, <2>1 DEF OneOrderPerKey
  <2>2. CASE o = new /\ p \in placed
    BY <1>1, <1>3, <2>2 DEF SameKey, Repeats
  <2>3. CASE p = new /\ o \in placed
    BY <1>1, <1>3, <2>3 DEF SameKey, Repeats
  <2>4. CASE o = new /\ p = new
    BY <1>3, <2>4 DEF SameKey
  <2> QED BY <1>3, <2>1, <2>2, <2>3, <2>4 DEF new
<1> QED BY <1>2, <1>3 DEF OneOrderPerKey, OncePerRun, SameKey

LEMMA NoMoreKeys ==
  ASSUME run' = run, OneOrderPerKey, placed' = placed
  PROVE  OneOrderPerKey'
BY DEF OneOrderPerKey, OncePerRun, SameKey, Keyed, Day

-------------------------------------------------------------------------------
(* The ordinary families.                                                  *)

LEMMA AttemptsNumbered == Taped => DOMAIN Attempts \subseteq Nat
<1> SUFFICES ASSUME Taped PROVE DOMAIN Attempts \subseteq Nat
  OBVIOUS
<1>1. DOMAIN run.rules \subseteq Nat
  BY FamiliesAssumption DEF Taped
<1>2. DOMAIN LongFirst \subseteq Nat /\ DOMAIN ShortFirst \subseteq Nat /\ DOMAIN <<>> \subseteq Nat
  BY DEF LongFirst, ShortFirst
<1>3. /\ DOMAIN OnOpeningRangeBreakoutBar = DOMAIN LongFirst
      /\ DOMAIN OnInsideDayExpansionBar = DOMAIN LongFirst
      /\ DOMAIN OnBreakRetestBar = DOMAIN LongFirst
      /\ DOMAIN OnChannelBreakHoldBar = DOMAIN LongFirst
      /\ DOMAIN OnDonchianBreakoutBar = DOMAIN LongFirst
      /\ DOMAIN OnFlagBar = DOMAIN LongFirst
      /\ DOMAIN OnRangeBreakFakeBar = DOMAIN LongFirst
      /\ DOMAIN OnDayOpenReclaimBar = DOMAIN LongFirst
      /\ DOMAIN OnVWAPExtensionFadeBar = DOMAIN LongFirst
      /\ DOMAIN OnElderTripleScreenBar = DOMAIN LongFirst
      /\ DOMAIN OnFibContinuationBar = DOMAIN LongFirst
      /\ DOMAIN OnPriceMomentumBar = DOMAIN LongFirst
      /\ DOMAIN OnKeltnerReversionBar = DOMAIN LongFirst
      /\ DOMAIN OnKeltnerExpansionBar = DOMAIN LongFirst
  BY DEF Tried, OnOpeningRangeBreakoutBar, OnInsideDayExpansionBar,
         OnBreakRetestBar, OnChannelBreakHoldBar, OnDonchianBreakoutBar,
         OnFlagBar, OnRangeBreakFakeBar, OnDayOpenReclaimBar,
         OnVWAPExtensionFadeBar, OnElderTripleScreenBar,
         OnFibContinuationBar, OnPriceMomentumBar, OnKeltnerReversionBar,
         OnKeltnerExpansionBar
<1>4. /\ DOMAIN OnLevelSweepBar = DOMAIN ShortFirst
      /\ DOMAIN OnTriplePushExhaustionBar = DOMAIN ShortFirst
      /\ DOMAIN OnDoubleTopBottomBar = DOMAIN ShortFirst
  BY DEF Tried, OnLevelSweepBar, OnTriplePushExhaustionBar,
         OnDoubleTopBottomBar
<1>5. /\ DOMAIN OnVolumeAnomalyExhaustionBar \in {DOMAIN LongFirst, DOMAIN ShortFirst}
      /\ DOMAIN OnSessionBreakHoldBar \subseteq Nat /\ DOMAIN OnNamedLevelSweepBar \subseteq Nat
  BY <1>1 DEF Tried, OnVolumeAnomalyExhaustionBar, OnSessionBreakHoldBar, OnNamedLevelSweepBar
<1> QED BY <1>2, <1>3, <1>4, <1>5 DEF Attempts

(* What is chosen has not been traded.                                     *)
LEMMA ChosenIsUnseen ==
  ASSUME Taped, Chosen.ok
  PROVE  Unseen(Chosen)
<1> DEFINE tries == Attempts
           ok == {n \in DOMAIN tries : tries[n].ok}
           candidates == IF run.family = "doubleTopBottom" /\ ok # {} THEN {Lowest(ok)} ELSE ok
           fit == {n \in candidates : Unseen(tries[n])}
<1>1. Chosen = IF fit = {} THEN NoSetup ELSE tries[Lowest(fit)]
  BY DEF Chosen, FirstUnseen
<1>2. ok \subseteq Nat
  BY AttemptsNumbered
<1>3. candidates \subseteq Nat
  <2> HIDE DEF ok
  <2> QED BY <1>2, LowestOf
<1>4. fit \subseteq Nat
  <2> HIDE DEF candidates
  <2> QED BY <1>3
<1>5. fit # {}
  <2> HIDE DEF fit
  <2> QED BY <1>1 DEF NoSetup
<1>6. Lowest(fit) \in fit
  <2> HIDE DEF fit
  <2> QED BY <1>4, <1>5, LowestOf
<1>7. Unseen(tries[Lowest(fit)])
  <2> HIDE DEF candidates
  <2> QED BY <1>6
<1> HIDE DEF fit, tries
<1> QED BY <1>1, <1>5, <1>7

LEMMA StillUnarmed ==
  ASSUME KeysKept, run' = run, armed' = armed, run.family # "namedLevelFlag"
  PROVE  FlagKept'
BY DEF KeysKept, FlagKept, NotArmed

LEMMA OrderedStep ==
  ASSUME KeysKept, SameTape, Ordered
  PROVE  KeysKept'
<1>1. PICK gates \in MarketGates, filters \in BOOLEAN : Trade(Chosen, gates, filters)
  BY DEF Ordered
<1>2. /\ Chosen.ok /\ Place(Chosen, gates, filters)
      /\ seen' = IF Keyed(Chosen) THEN seen \cup {Remembered(Chosen.key)} ELSE seen
  BY <1>1 DEF Trade
<1> DEFINE plan == Chosen
           new == [plan |-> plan, at |-> i]
<1>3. Unseen(plan)
  BY <1>2, ChosenIsUnseen DEF KeysKept
<1>4. placed' = placed \cup {new} \/ placed' = placed
  BY <1>2, Placing
<1>5. Ordinary /\ Ordinary' /\ run' = run /\ i' = i
  BY SameBar DEF Ordered, SameTape, Ordinary
<1>6. /\ (\A q : Keyed(q)' = Keyed(q)) /\ (\A o : RememberedAt(o)' = RememberedAt(o))
      /\ Remembered(plan.key) = RememberedAt(new)
  BY <1>5, SameBar DEF SameTape, Keyed, RememberedAt, Remembered
<1>7. new.plan = plan /\ new.at = i
  OBVIOUS
<1> HIDE DEF plan, new
<1>8. OrdinaryKept'
  <2> SUFFICES ASSUME NEW o \in placed', Keyed(o.plan)
               PROVE  RememberedAt(o) \in seen'
    BY <1>6 DEF OrdinaryKept
  <2>1. CASE o \in placed
    BY <1>2, <1>5, <2>1 DEF KeysKept, OrdinaryKept
  <2>2. CASE o = new
    BY <1>2, <1>6, <1>7, <2>2 DEF plan
  <2> QED BY <1>4, <2>1, <2>2
<1>9. OneOrderPerKey'
  <2>1. CASE placed' = placed
    BY <1>5, <2>1, NoMoreKeys DEF KeysKept
  <2>2. CASE placed' = placed \cup {new}
    <3>1. ASSUME NEW o \in placed, Repeats(plan, o)
          PROVE  run.family \notin OncePerRun /\ Day(o.at) # Day(i)
      <4>1. RememberedAt(o) \in seen /\ Remembered(plan.key) \notin seen
        BY <1>3, <1>5, <3>1 DEF KeysKept, OrdinaryKept, Repeats, Unseen
      <4>2. o.plan.key = plan.key
        BY <3>1 DEF Repeats
      <4>3. run.family # "doubleTopBottom" /\ Day(o.at) # Day(i)
        BY <4>1, <4>2 DEF RememberedAt, Remembered
      <4> QED BY <1>5, <4>3 DEF Ordinary, OncePerRun
    <3>2. placed' = placed \cup {[plan |-> plan, at |-> i]}
      BY <2>2 DEF new
    <3> QED BY <3>1, <3>2, OneMoreKey DEF KeysKept
  <2> QED BY <1>4, <2>1, <2>2
<1>10. Taped'
  BY DEF KeysKept, Taped, SameTape
<1>11. FlagKept'
  BY <1>5, StillUnarmed DEF Ordered, Ordinary
<1> QED BY <1>5, <1>8, <1>9, <1>10, <1>11 DEF KeysKept, PullbackKept, GapKept, ZoneKept, Ordinary

LEMMA PassedStep ==
  ASSUME KeysKept, SameTape, Passed
  PROVE  KeysKept'
<1>1. Ordinary /\ Ordinary' /\ run' = run /\ seen' = seen /\ placed' = placed
  BY DEF Passed, NoOrder, SameTape, Ordinary
<1>2. \A o : Keyed(o.plan)' = Keyed(o.plan) /\ RememberedAt(o)' = RememberedAt(o)
  BY SameBar DEF SameTape, Keyed, RememberedAt
<1>3. OrdinaryKept'
  BY <1>1, <1>2 DEF KeysKept, OrdinaryKept
<1>4. Taped' /\ OneOrderPerKey'
  BY <1>1, NoMoreKeys DEF KeysKept, Taped, SameTape
<1>5. FlagKept'
  BY <1>1, StillUnarmed DEF Passed, Ordinary
<1> QED BY <1>1, <1>3, <1>4, <1>5 DEF KeysKept, PullbackKept, GapKept, ZoneKept, Ordinary

-------------------------------------------------------------------------------
(* trendPullback: its orders have no key.                                  *)

LEMMA FixedRIs ==
  ASSUME NEW s, NEW stop, NEW key, NEW level, FixedR(s, stop, key, level).ok
  PROVE  /\ FixedR(s, stop, key, level).key = key
         /\ ~FixedR(s, stop, key, level).limit
<1> DEFINE target == C(i) + s * Abs(C(i) - stop) * run.targetR
<1>1. FixedR(s, stop, key, level) = NoSetup \/ FixedR(s, stop, key, level) = Setup(s, C(i), stop, target, key, level)
  BY DEF FixedR
<1> HIDE DEF target
<1> QED BY <1>1 DEF Setup, NoSetup

LEMMA PullbackUnkeyed ==
  ASSUME NEW s, TrendPullback(s).ok
  PROVE  ~Keyed(TrendPullback(s))
<1>1. \/ TrendPullback(s) = NoSetup
      \/ \E tag : TrendPullback(s) = PullbackFrom(s, tag)
  BY DEF TrendPullback, PullbackOf
<1>2. PICK tag : TrendPullback(s) = PullbackFrom(s, tag)
  BY <1>1 DEF NoSetup
<1>3. \/ PullbackFrom(s, tag) = NoSetup
      \/ \E stop : PullbackFrom(s, tag) = FixedR(s, stop, <<>>, Missing)
  BY DEF PullbackFrom
<1>4. PICK stop : TrendPullback(s) = FixedR(s, stop, <<>>, Missing)
  BY <1>2, <1>3 DEF NoSetup
<1>5. TrendPullback(s).key = <<>>
  BY <1>4, FixedRIs
<1> QED BY <1>5 DEF Keyed

LEMMA PullbackStep ==
  ASSUME KeysKept, SameTape, PullbackOrdered \/ PullbackPassed
  PROVE  KeysKept'
<1>1. run.family = "trendPullback" /\ run' = run
  BY DEF PullbackOrdered, PullbackPassed, SameTape
<1>2. \/ placed' = placed
      \/ \E s : TrendPullback(s).ok /\ placed' = placed \cup {[plan |-> TrendPullback(s), at |-> i]}
  <2>1. CASE PullbackPassed
    BY <2>1 DEF PullbackPassed, NoOrder
  <2>2. CASE PullbackOrdered
    <3>1. PullbackTry(Pulled)
      BY <2>2 DEF PullbackOrdered
    <3>2. PICK s \in Enough(Pulled) : PullbackEntry(s, Pulled)
      <4>1. Enough(Pulled) \subseteq {1, -1}
        BY FamiliesAssumption DEF KeysKept, Taped, Enough, Pulled
      <4> QED BY <3>1, <4>1 DEF PullbackTry
    <3>3. PICK gates, filters : Place(TrendPullback(s), gates, filters)
      BY <3>2 DEF PullbackEntry
    <3>4. TrendPullback(s).ok
      BY <3>2 DEF Enough, Pulled
    <3> QED BY <3>3, <3>4, Placing
  <2> QED BY <2>1, <2>2
<1>3. (\A o \in placed : ~Keyed(o.plan)) /\ (\A q : Keyed(q)' = Keyed(q))
  BY <1>1 DEF KeysKept, PullbackKept, Keyed
<1>4. \A o \in placed' : ~Keyed(o.plan)
  <2>1. CASE placed' = placed
    BY <1>3, <2>1
  <2>2. CASE placed' # placed
    <3>1. PICK s : TrendPullback(s).ok /\ placed' = placed \cup {[plan |-> TrendPullback(s), at |-> i]}
      BY <1>2, <2>2
    <3>2. ~Keyed(TrendPullback(s))
      BY <3>1, PullbackUnkeyed
    <3> QED BY <1>3, <3>1, <3>2
  <2> QED BY <2>1, <2>2
<1>5. PullbackKept' /\ OneOrderPerKey' /\ Taped'
  BY <1>1, <1>3, <1>4 DEF PullbackKept, OneOrderPerKey, KeysKept, Taped, SameTape
<1>6. FlagKept'
  BY <1>1, StillUnarmed DEF PullbackOrdered, PullbackPassed
<1> QED BY <1>1, <1>5, <1>6 DEF KeysKept, OrdinaryKept, GapKept, ZoneKept, Ordinary

-------------------------------------------------------------------------------
(* fairValueGap.                                                           *)

LEMMA DetectedGapsAre ==
  ASSUME Taped
  PROVE  /\ \A z \in DetectedGaps : z.side \in Int /\ z.at = i
         /\ \A y, z \in DetectedGaps : y.side = z.side => y = z
BY DEF DetectedGaps

LEMMA GapsNow ==
  ASSUME Taped, Gaps(zones, i), GapsUsed(placed, zones, i), run.family = "fairValueGap"
  PROVE  Gaps(ZonesNow, i + 1) /\ GapsUsed(placed, ZonesNow, i + 1)
<1>1. i \in Int /\ ZonesNow \subseteq zones \cup DetectedGaps
  BY BarNumber DEF ZonesNow, Pruned
<1>2. Gaps(zones \cup DetectedGaps, i + 1)
  <2>1. \A z \in zones : z.at # i /\ z.at < i + 1
    BY <1>1 DEF Gaps
  <2> QED BY <1>1, <2>1, DetectedGapsAre DEF Gaps
<1>3. GapsUsed(placed, zones \cup DetectedGaps, i + 1)
  <2> SUFFICES ASSUME NEW o \in placed
               PROVE  \E s, at \in Int : /\ o.plan.key = <<"gap", s, at>> /\ at < i + 1
                                         /\ \A z \in zones \cup DetectedGaps : ~(z.side = s /\ z.at = at)
    BY DEF GapsUsed
  <2>1. PICK s \in Int, at \in Int : /\ o.plan.key = <<"gap", s, at>> /\ at < i
                                     /\ \A z \in zones : ~(z.side = s /\ z.at = at)
    BY DEF GapsUsed
  <2>2. at < i + 1 /\ at # i
    BY <1>1, <2>1
  <2> QED BY <2>1, <2>2, DetectedGapsAre
<1> QED BY <1>1, <1>2, <1>3 DEF Gaps, GapsUsed

(* The newest of a set of gaps is one of them.                             *)
LEMMA NewestOf ==
  ASSUME NEW found, NEW n \in Int, found # {}, \A z \in found : z.at \in Int /\ z.at < n
  PROVE  Newest(found) \in found
<1> DEFINE ages == {n - z.at : z \in found}
<1>1. ages \subseteq Nat /\ ages # {}
  OBVIOUS
<1>2. PICK z \in found : n - z.at = Lowest(ages) /\ \A a \in ages : n - z.at <= a
  <2> HIDE DEF ages
  <2>1. Lowest(ages) \in ages /\ \A a \in ages : Lowest(ages) <= a
    BY <1>1, LowestOf
  <2> QED BY <2>1 DEF ages
<1>3. \A y \in found : y.at <= z.at
  <2> TAKE y \in found
  <2>1. n - z.at <= n - y.at /\ y.at \in Int /\ z.at \in Int
    BY <1>2
  <2> QED BY <2>1
<1> QED BY <1>3 DEF Newest

LEMMA GapPlanKey ==
  ASSUME NEW z, FairValueGap(z).ok
  PROVE  GapPlan(z).key = <<"gap", z.side, z.at>>
<1> DEFINE entry == GapEntry(z)
           stop == Distal(z) - z.side * run.stopBuffer
           target == entry + z.side * Abs(entry - stop) * run.targetR
           plan == Setup(z.side, entry, stop, target, <<>>, entry)
<1>1. \/ FairValueGap(z) = NoSetup
      \/ FairValueGap(z) = GapSetup(z.side, entry, stop)
  BY DEF FairValueGap
<1>2. GapSetup(z.side, entry, stop) \in {NoSetup, [plan EXCEPT !.limit = TRUE]}
  BY DEF GapSetup
<1>3. FairValueGap(z) = [plan EXCEPT !.limit = TRUE]
  <2> HIDE DEF plan, stop, entry
  <2> QED BY <1>1, <1>2 DEF NoSetup
<1> HIDE DEF entry, stop, target
<1>4. FairValueGap(z) = [ok |-> TRUE, side |-> z.side, entry |-> entry, stop |-> stop,
                         target |-> target, noTarget |-> FALSE, key |-> <<>>, level |-> entry,
                         limit |-> TRUE]
  BY <1>3 DEF Setup
<1> QED BY <1>4 DEF GapPlan

(* Every step of the handler leaves the gaps it finds, or places an order  *)
(* for one of them and takes it away.                                      *)
LEMMA GapMoves ==
  ASSUME Taped, run.family = "fairValueGap", Gaps(ZonesNow, i + 1), Managed \/ GapOrdered \/ GapPassed
  PROVE  \/ placed' = placed /\ zones' = ZonesNow
         \/ \E z \in ZonesNow :
              /\ zones' = ZonesNow \ {z}
              /\ placed' = placed \/ placed' = placed \cup {[plan |-> GapPlan(z), at |-> i]}
              /\ GapPlan(z).key = <<"gap", z.side, z.at>>
<1>1. CASE Managed \/ GapPassed
  BY <1>1 DEF Managed, GapPassed, NoOrder
<1>2. CASE GapOrdered
  <2> DEFINE fit == Retestable(ZonesNow)
  <2>1. fit # {} /\ TryGap(Newest(fit))
    BY <1>2 DEF GapOrdered
  <2>2. fit \subseteq ZonesNow /\ \A z \in fit : FairValueGap(z).ok
    BY DEF Retestable
  <2>3. Newest(fit) \in fit
    <3>1. i + 1 \in Int
      BY BarNumber
    <3>2. \A z \in fit : z.at \in Int /\ z.at < i + 1
      BY <2>2 DEF Gaps
    <3> HIDE DEF fit
    <3> QED BY <2>1, <3>1, <3>2, NewestOf
  <2> DEFINE z == Newest(fit)
  <2>4. z \in ZonesNow /\ GapPlan(z).key = <<"gap", z.side, z.at>>
    BY <2>2, <2>3, GapPlanKey
  <2>5. LimitAt(z, GapPlan(z))
    BY <2>1 DEF TryGap
  <2> HIDE DEF z
  <2>6. \/ NoOrder /\ zones' = ZonesNow
        \/ \E gates, filters : Place(GapPlan(z), gates, filters) /\ zones' = ZonesNow \ {z}
    BY <2>5 DEF LimitAt
  <2> QED BY <2>4, <2>6, Placing DEF NoOrder
<1> QED BY <1>1, <1>2

LEMMA GapStep ==
  ASSUME KeysKept, SameTape, pc = "handler", pc' = "broker", run.family = "fairValueGap",
         Managed \/ GapOrdered \/ GapPassed
  PROVE  KeysKept'
<1>1. Taped /\ Taped' /\ run' = run /\ i' = i /\ i \in Int /\ Horizon = i /\ Horizon' = i + 1
  BY SameBar, BarNumber DEF KeysKept, Taped, SameTape, Horizon
<1>2. Gaps(zones, i) /\ GapsUsed(placed, zones, i)
  BY <1>1 DEF KeysKept, GapKept
<1>3. Gaps(ZonesNow, i + 1) /\ GapsUsed(placed, ZonesNow, i + 1)
  BY <1>1, <1>2, GapsNow
<1>4. Gaps(zones', i + 1) /\ GapsUsed(placed', zones', i + 1) /\ OneOrderPerKey'
  <2>1. CASE placed' = placed /\ zones' = ZonesNow
    BY <1>1, <1>3, <2>1, NoMoreKeys DEF KeysKept
  <2>2. CASE ~(placed' = placed /\ zones' = ZonesNow)
    <3>1. PICK z \in ZonesNow :
            /\ zones' = ZonesNow \ {z}
            /\ placed' = placed \/ placed' = placed \cup {[plan |-> GapPlan(z), at |-> i]}
            /\ GapPlan(z).key = <<"gap", z.side, z.at>>
      BY <1>1, <1>3, <2>2, GapMoves
    <3> DEFINE plan == GapPlan(z)
               new == [plan |-> plan, at |-> i]
    <3>2. new.plan.key = <<"gap", z.side, z.at>> /\ (placed' = placed \/ placed' = placed \cup {new})
      BY <3>1
    <3>3. Gaps(zones', i + 1)
      BY <1>3, <3>1 DEF Gaps
    <3>4. GapsUsed(placed, zones', i + 1)
      BY <1>3, <3>1 DEF GapsUsed
    <3> HIDE DEF new
    <3>5. z.side \in Int /\ z.at \in Int /\ z.at < i + 1 /\ \A y \in zones' : ~(y.side = z.side /\ y.at = z.at)
      BY <1>3, <3>1 DEF Gaps
    <3>6. GapsUsed(placed', zones', i + 1)
      <4> SUFFICES ASSUME NEW o \in placed'
                   PROVE  \E s, at \in Int : /\ o.plan.key = <<"gap", s, at>> /\ at < i + 1
                                             /\ \A y \in zones' : ~(y.side = s /\ y.at = at)
        BY DEF GapsUsed
      <4>1. CASE o \in placed
        BY <3>4, <4>1 DEF GapsUsed
      <4>2. CASE o = new
        BY <3>2, <3>5, <4>2
      <4> QED BY <3>2, <4>1, <4>2
    <3>7. OneOrderPerKey'
      <4>1. CASE placed' = placed
        BY <1>1, <4>1, NoMoreKeys DEF KeysKept
      <4>2. CASE placed' = placed \cup {[plan |-> plan, at |-> i]}
        <5>1. ASSUME NEW o \in placed PROVE o.plan.key # plan.key
          <6>1. PICK s \in Int, at \in Int : /\ o.plan.key = <<"gap", s, at>>
                                             /\ \A y \in ZonesNow : ~(y.side = s /\ y.at = at)
            BY <1>3 DEF GapsUsed
          <6>2. <<"gap", s, at>> # <<"gap", z.side, z.at>>
            BY <3>1, <6>1
          <6> QED BY <3>1, <6>1, <6>2
        <5> HIDE DEF plan
        <5> QED BY <4>2, <5>1, OneMoreKey DEF KeysKept, Repeats
      <4> QED BY <3>2, <4>1, <4>2 DEF new
    <3> QED BY <3>3, <3>6, <3>7
  <2> QED BY <2>1, <2>2
<1>5. GapKept'
  BY <1>1, <1>4 DEF GapKept, Gaps, GapsUsed
<1>6. FlagKept'
  BY <1>1, StillUnarmed DEF Managed, GapOrdered, GapPassed
<1> QED BY <1>1, <1>4, <1>5, <1>6 DEF KeysKept, OrdinaryKept, PullbackKept, ZoneKept, Ordinary

-------------------------------------------------------------------------------
(* supplyDemand.  Induction over an interval, for a set.                   *)
LEMMA UpTo ==
  ASSUME NEW k \in Nat, NEW n \in Nat, NEW P, k \in P,
         \A m \in k .. n : m \in P /\ m + 1 <= n => m + 1 \in P
  PROVE  k .. n \subseteq P
<1> DEFINE bad == {m \in Nat : m \in k .. n /\ m \notin P}
<1> SUFFICES ASSUME bad # {} PROVE FALSE
  OBVIOUS
<1>1. Lowest(bad) \in bad /\ \A m \in bad : Lowest(bad) <= m
  <2> HIDE DEF bad
  <2>1. bad \subseteq Nat
    BY DEF bad
  <2> QED BY <2>1, LowestOf
<1> DEFINE m == Lowest(bad)
<1> HIDE DEF m
<1>2. m \in Nat /\ m \in k .. n /\ m \notin P /\ m # k /\ m - 1 \in k .. n /\ m - 1 \in Nat
  BY <1>1 DEF m
<1>3. m - 1 \in P
  BY <1>1, <1>2 DEF m
<1>4. m - 1 + 1 = m /\ m - 1 + 1 <= n
  BY <1>2
<1> QED BY <1>2, <1>3, <1>4

(* The base of the n bars before the impulse, and what bases have added.   *)
Impulsed == i - run.pole

MadeOf(n) == ZonesFrom(Impulsed - n + 1, Impulsed)

Adding(f, found, n) ==
  f = [m \in (run.minBase - 1) .. n |->
         IF m < run.minBase THEN found ELSE AddZones(f[m - 1], MadeOf(m))]

AddingSteps(f, found, n) ==
  /\ f[run.minBase - 1] = found
  /\ \A m \in run.minBase .. n : f[m] = AddZones(f[m - 1], MadeOf(m))

LEMMA AddingUnfolds ==
  ASSUME run.minBase \in Nat \ {0}, NEW f, NEW found, NEW n \in Nat, n >= run.minBase - 1,
         Adding(f, found, n)
  PROVE  AddingSteps(f, found, n)
<1> DEFINE step(m) == IF m < run.minBase THEN found ELSE AddZones(f[m - 1], MadeOf(m))
<1>1. f = [m \in (run.minBase - 1) .. n |-> step(m)]
  BY DEF Adding
<1>2. \A m \in (run.minBase - 1) .. n : f[m] = step(m)
  <2> HIDE DEF step
  <2> QED BY <1>1
<1> QED BY <1>2 DEF AddingSteps

LEMMA AddingExtends ==
  ASSUME run.minBase \in Nat \ {0}, NEW found, NEW n \in Nat, n >= run.minBase - 1,
         NEW f, Adding(f, found, n)
  PROVE  \E g : Adding(g, found, n + 1)
<1> DEFINE g == [m \in (run.minBase - 1) .. n + 1 |->
                   IF m <= n THEN f[m] ELSE AddZones(f[n], MadeOf(n + 1))]
           step(m) == IF m < run.minBase THEN found ELSE AddZones(g[m - 1], MadeOf(m))
<1>1. AddingSteps(f, found, n)
  BY AddingUnfolds
<1>2. ASSUME NEW m \in (run.minBase - 1) .. n + 1 PROVE g[m] = step(m)
  <2>1. CASE m = run.minBase - 1
    BY <1>1, <2>1 DEF AddingSteps
  <2>2. CASE m # run.minBase - 1 /\ m <= n
    <3>1. g[m] = f[m] /\ g[m - 1] = f[m - 1] /\ m \in run.minBase .. n /\ ~(m < run.minBase)
      BY <2>2
    <3>2. f[m] = AddZones(f[m - 1], MadeOf(m))
      BY <1>1, <3>1 DEF AddingSteps
    <3> HIDE DEF g
    <3> QED BY <3>1, <3>2
  <2>3. CASE m = n + 1
    <3>1. g[m] = AddZones(f[n], MadeOf(n + 1)) /\ g[n] = f[n] /\ ~(m < run.minBase) /\ m - 1 = n
      BY <2>3
    <3> HIDE DEF g
    <3> QED BY <2>3, <3>1
  <2> QED BY <2>1, <2>2, <2>3
<1>3. g = [m \in (run.minBase - 1) .. n + 1 |-> g[m]]
  OBVIOUS
<1>4. g = [m \in (run.minBase - 1) .. n + 1 |-> step(m)]
  <2> HIDE DEF g, step
  <2> QED BY <1>2, <1>3
<1> HIDE DEF g
<1> QED BY <1>4 DEF Adding

LEMMA AddingExists ==
  ASSUME run.minBase \in Nat \ {0}, NEW found, NEW n \in Nat, n >= run.minBase - 1
  PROVE  \E f : Adding(f, found, n)
<1> DEFINE k == run.minBase - 1
           P == {m \in k .. n : \E f : Adding(f, found, m)}
<1>1. k \in P
  <2> DEFINE f == [m \in k .. k |-> found]
  <2>1. k \in Nat /\ \A m \in k .. k : m < run.minBase
    OBVIOUS
  <2>2. Adding(f, found, k)
    BY <2>1 DEF Adding
  <2> HIDE DEF f
  <2> QED BY <2>1, <2>2
<1>2. ASSUME NEW m \in k .. n, m \in P, m + 1 <= n PROVE m + 1 \in P
  <2>1. m \in Nat /\ m >= run.minBase - 1 /\ m + 1 \in k .. n
    BY <1>2
  <2> QED BY <1>2, <2>1, AddingExtends
<1>3. k .. n \subseteq P
  <2>1. k \in Nat
    OBVIOUS
  <2> HIDE DEF P, k
  <2> QED BY <1>1, <1>2, <2>1, UpTo
<1> QED BY <1>3

LEMMA DetectedIs ==
  ASSUME Taped, NEW found
  PROVE  \/ Detected(found) = found
         \/ \E f : AddingSteps(f, found, run.maxBase) /\ Detected(found) = f[run.maxBase]
                   /\ run.minBase <= run.maxBase
<1>1. run.minBase \in Nat \ {0} /\ run.maxBase \in Nat
  BY FamiliesAssumption DEF Taped
<1>2. CASE run.maxBase < run.minBase
  BY <1>2 DEF Detected
<1>3. CASE ~(run.maxBase < run.minBase)
  <2> DEFINE f == CHOOSE g : Adding(g, found, run.maxBase)
  <2>1. run.maxBase >= run.minBase - 1 /\ run.minBase <= run.maxBase
    BY <1>1, <1>3
  <2>2. Adding(f, found, run.maxBase)
    BY <1>1, <2>1, AddingExists
  <2>3. Detected(found) = f[run.maxBase]
    BY <1>3 DEF Detected, Adding, MadeOf, Impulsed
  <2> HIDE DEF f
  <2> QED BY <1>1, <2>1, <2>2, <2>3, AddingUnfolds
<1> QED BY <1>2, <1>3

LEMMA EndsOf ==
  ASSUME NEW a \in Int, NEW b \in Int, a <= b
  PROVE  Lowest(a .. b) = a /\ Highest(a .. b) = b
<1>1. \E x \in a .. b : \A y \in a .. b : x <= y
  <2>1. a \in a .. b /\ \A y \in a .. b : a <= y
    OBVIOUS
  <2> QED BY <2>1
<1>2. \E x \in a .. b : \A y \in a .. b : x >= y
  <2>1. b \in a .. b /\ \A y \in a .. b : b >= y
    OBVIOUS
  <2> QED BY <2>1
<1>3. Lowest(a .. b) \in a .. b /\ \A y \in a .. b : Lowest(a .. b) <= y
  BY <1>1 DEF Lowest
<1>4. Highest(a .. b) \in a .. b /\ \A y \in a .. b : Highest(a .. b) >= y
  BY <1>2 DEF Highest
<1> QED BY <1>3, <1>4

LEMMA NewZoneIs ==
  ASSUME i \in Int, NEW s, NEW S, NEW bounds
  PROVE  LET z == NewZone(s, S, bounds)
         IN  IsZone(z) /\ z.at = i /\ z.base = <<Lowest(S), Highest(S)>>
BY DEF NewZone, IsZone, ZoneFields

LEMMA MadeOfIs ==
  ASSUME Taped, NEW n \in Nat, n >= 1, NEW z \in MadeOf(n)
  PROVE  IsZone(z) /\ z.at = i /\ z.base = <<Impulsed - n + 1, Impulsed>>
<1> DEFINE first == Impulsed - n + 1
           S == first .. Impulsed
<1>1. i \in Int /\ Impulsed \in Int /\ first \in Int /\ first <= Impulsed
  <2>1. run.pole \in Nat
    BY FamiliesAssumption DEF Taped
  <2> QED BY <2>1, BarNumber DEF Impulsed
<1>2. z \in ZonesOf(S, SourceDirection(first))
  BY DEF MadeOf, ZonesFrom
<1>3. \E s, bounds : z = NewZone(s, S, bounds)
  <2> HIDE DEF S, first
  <2> QED BY <1>2 DEF ZonesOf
<1>4. Lowest(S) = first /\ Highest(S) = Impulsed
  BY <1>1, EndsOf
<1> HIDE DEF S, first
<1>5. IsZone(z) /\ z.at = i /\ z.base = <<Lowest(S), Highest(S)>>
  BY <1>1, <1>3, NewZoneIs
<1>6. z.base = <<first, Impulsed>>
  BY <1>4, <1>5
<1> QED BY <1>5, <1>6 DEF first

LEMMA AddZonesIs ==
  ASSUME NEW found, NEW made
  PROVE  AddZones(found, made) = found \/ \E z \in made : AddZones(found, made) = found \cup {z}
BY DEF AddZones, AddZone

(* What the first bases up to n have added to zones of earlier bases.      *)
Grown(found, more, n) ==
  /\ found \subseteq more
  /\ \A z \in more \ found :
       /\ IsZone(z) /\ z.at = i
       /\ \E m \in run.minBase .. n : z.base = <<Impulsed - m + 1, Impulsed>>
  /\ \A y, z \in more : y.base = z.base => y = z

LEMMA GrownNotYet ==
  ASSUME run.pole \in Nat, i \in Int, run.minBase \in Nat \ {0}, NEW found, NEW more,
         NEW n \in Nat, run.minBase <= n, ZoneSet(found, Impulsed), Grown(found, more, n - 1),
         NEW z \in more
  PROVE  z.base # <<Impulsed - n + 1, Impulsed>>
<1>1. Impulsed \in Int
  BY DEF Impulsed
<1>2. CASE z \in found
  <2>1. PICK a \in Int, b \in Int : z.base = <<a, b>> /\ b < Impulsed
    BY <1>2 DEF ZoneSet, BasedBy
  <2>2. b # Impulsed
    BY <1>1, <2>1
  <2> QED BY <2>1, <2>2
<1>3. CASE z \notin found
  <2>1. PICK m \in run.minBase .. n - 1 : z.base = <<Impulsed - m + 1, Impulsed>>
    BY <1>3 DEF Grown
  <2>2. Impulsed - m + 1 # Impulsed - n + 1
    BY <1>1, <2>1
  <2> QED BY <2>1, <2>2
<1> QED BY <1>2, <1>3

LEMMA GrownMore ==
  ASSUME Taped, NEW found, NEW more, NEW n \in Nat, run.minBase <= n,
         ZoneSet(found, Impulsed), Grown(found, more, n - 1)
  PROVE  Grown(found, AddZones(more, MadeOf(n)), n)
<1>1. i \in Int /\ run.pole \in Nat /\ run.minBase \in Nat \ {0}
  BY FamiliesAssumption, BarNumber DEF Taped
<1>2. \A m \in run.minBase .. n - 1 : m \in run.minBase .. n
  BY <1>1
<1>3. Grown(found, more, n)
  BY <1>2 DEF Grown
<1>4. CASE AddZones(more, MadeOf(n)) = more
  BY <1>3, <1>4
<1>5. ASSUME NEW z \in MadeOf(n), AddZones(more, MadeOf(n)) = more \cup {z}
      PROVE  Grown(found, more \cup {z}, n)
  <2>1. n >= 1 /\ n \in run.minBase .. n
    BY <1>1
  <2>2. IsZone(z) /\ z.at = i /\ z.base = <<Impulsed - n + 1, Impulsed>>
    BY <2>1, MadeOfIs
  <2>3. \A y \in more : y.base # z.base
    BY <1>1, <2>2, GrownNotYet
  <2> QED BY <1>3, <2>1, <2>2, <2>3 DEF Grown
<1> QED BY <1>4, <1>5, AddZonesIs

LEMMA DetectedGrown ==
  ASSUME Taped, NEW found, ZoneSet(found, Impulsed)
  PROVE  \E n : Grown(found, Detected(found), n)
<1>0. run.minBase \in Nat \ {0} /\ run.maxBase \in Nat
  BY FamiliesAssumption DEF Taped
<1>1. Grown(found, found, run.minBase - 1)
  BY DEF Grown, ZoneSet
<1>2. ASSUME NEW f, AddingSteps(f, found, run.maxBase), run.minBase <= run.maxBase
      PROVE  Grown(found, f[run.maxBase], run.maxBase)
  <2> DEFINE k == run.minBase - 1
             P == {m \in k .. run.maxBase : Grown(found, f[m], m)}
  <2>1. k \in P
    <3>1. k \in k .. run.maxBase /\ f[k] = found
      BY <1>0, <1>2 DEF AddingSteps
    <3> QED BY <1>1, <3>1
  <2>2. ASSUME NEW m \in k .. run.maxBase, m \in P, m + 1 <= run.maxBase PROVE m + 1 \in P
    <3> DEFINE n == m + 1
    <3>1. n \in Nat /\ run.minBase <= n /\ n - 1 = m /\ n \in run.minBase .. run.maxBase
          /\ n \in k .. run.maxBase
      BY <1>0, <2>2
    <3> HIDE DEF n
    <3>2. f[n] = AddZones(f[m], MadeOf(n))
      BY <1>2, <3>1 DEF AddingSteps
    <3>3. Grown(found, f[m], n - 1)
      BY <2>2, <3>1
    <3>4. Grown(found, f[n], n)
      BY <3>1, <3>2, <3>3, GrownMore
    <3>5. n \in P
      BY <3>1, <3>4
    <3> QED BY <3>5 DEF n
  <2>3. k \in Nat /\ run.maxBase \in k .. run.maxBase
    BY <1>0, <1>2
  <2>4. k .. run.maxBase \subseteq P
    <3> HIDE DEF P, k
    <3> QED BY <1>0, <2>1, <2>2, <2>3, UpTo
  <2> QED BY <2>3, <2>4
<1> QED BY <1>1, <1>2, DetectedIs

(* The same base, whatever else has changed.                               *)
SameBase(y, z) == IsZone(y) /\ y.base = z.base

LEMMA AfterBreakKeeps ==
  ASSUME i \in Int, NEW z, IsZone(z)
  PROVE  SameBase(AfterBreak(z), z)
<1>1. SameBase(z, z)
  BY DEF SameBase
<1>2. SameBase(Flip(z), z)
  BY DEF SameBase, IsZone, Flip, ZoneFields
<1> QED BY <1>1, <1>2 DEF AfterBreak

LEMMA MarksKeep ==
  ASSUME NEW z, IsZone(z)
  PROVE  /\ \A v : SameBase([z EXCEPT !.pending = v], z) /\ SameBase([z EXCEPT !.used = v], z)
         /\ \A v, w : SameBase([z EXCEPT !.choch = v, !.level = w], z)
         /\ \A v, w : SameBase([z EXCEPT !.touches = v, !.touched = w], z)
         /\ \A v : [z EXCEPT !.used = v].used = v
BY DEF SameBase, IsZone, ZoneFields

LEMMA AnsweredKeeps ==
  ASSUME NEW z, IsZone(z)
  PROVE  SameBase(Answered(z).zone, z)
<1>1. SameBase(z, z)
  BY DEF SameBase
<1> QED BY <1>1, MarksKeep DEF Answered, Leave, Take

LEMMA AfterTouchKeeps ==
  ASSUME NEW z, IsZone(z)
  PROVE  SameBase(AfterTouch(z).zone, z)
<1> DEFINE x == [z EXCEPT !.pending = i]
           y == [z EXCEPT !.pending = Missing]
<1>1. SameBase(z, z) /\ SameBase(x, z) /\ SameBase(y, z)
  BY MarksKeep DEF SameBase
<1> HIDE DEF x, y
<1>2. SameBase(Answered(z).zone, z) /\ SameBase(Answered(y).zone, z)
  BY <1>1, AnsweredKeeps DEF SameBase
<1>3. AfterTouch(z) \in {Leave(z), Leave(x), Answered(z), Answered(y)}
  BY DEF AfterTouch, x, y
<1>4. Leave(z).zone = z /\ Leave(x).zone = x
  BY DEF Leave
<1> QED BY <1>1, <1>2, <1>3, <1>4

LEMMA RetestKeeps ==
  ASSUME NEW z, IsZone(z)
  PROVE  SameBase(RetestAt(z).zone, z)
<1> DEFINE a == [z EXCEPT !.pending = Missing]
           b == [z EXCEPT !.choch = Missing, !.level = Missing]
           c == [z EXCEPT !.touches = @ + 1, !.touched = i]
<1>1. SameBase(z, z) /\ SameBase(a, z) /\ SameBase(b, z) /\ SameBase(c, z)
  <2>1. SameBase(z, z)
    BY DEF SameBase
  <2>2. SameBase(a, z)
    BY MarksKeep
  <2>3. SameBase(b, z)
    BY MarksKeep
  <2>4. \A v, w : SameBase([z EXCEPT !.touches = v, !.touched = w], z)
    BY MarksKeep
  <2>5. SameBase(c, z)
    BY <2>4, Zenon
  <2> QED BY <2>1, <2>2, <2>3, <2>5
<1>2. Untouched(z) \in {AfterTouch(a), Leave(z), Leave(a)}
  BY DEF Untouched
<1>3. Examined(z) \in {Leave(b), Take(z), Leave(z), Untouched(z), AfterTouch(z), AfterTouch(c)}
  BY DEF Examined
<1> HIDE DEF a, b, c
<1>4. Leave(z).zone = z /\ Leave(a).zone = a /\ Leave(b).zone = b /\ Take(z).zone = z
  BY DEF Leave, Take
<1>5. /\ SameBase(AfterTouch(a).zone, z) /\ SameBase(AfterTouch(c).zone, z)
      /\ SameBase(AfterTouch(z).zone, z)
  BY <1>1, AfterTouchKeeps DEF SameBase
<1>6. SameBase(Examined(z).zone, z)
  BY <1>1, <1>2, <1>3, <1>4, <1>5
<1> QED BY <1>1, <1>4, <1>6 DEF RetestAt

(* No zone is left of a base that an order has been placed for.            *)
BasesGone(orders, found, n) ==
  \A o \in orders :
    \E a, b \in Int : /\ o.plan.key[2] = <<a, b>> /\ b < n
                      /\ \A z \in found : z.base # <<a, b>>

LEMMA ZonesNowAre ==
  ASSUME Taped, run.family = "supplyDemand", ZoneSet(zones, Impulsed),
         ZonesUsed(placed, zones, Impulsed)
  PROVE  ZoneSet(ZonesNow, Impulsed + 1) /\ BasesGone(placed, ZonesNow, Impulsed + 1)
<1> DEFINE D == Detected(zones)
<1>1. i \in Int /\ Impulsed \in Int /\ run.minBase \in Nat \ {0}
  <2>1. run.pole \in Nat /\ run.minBase \in Nat \ {0}
    BY FamiliesAssumption DEF Taped
  <2> QED BY <2>1, BarNumber DEF Impulsed
<1>2. PICK n : Grown(zones, D, n)
  BY DetectedGrown
<1>3. ZonesNow = PrunedZones(D)
  BY DEF ZonesNow
<1> HIDE DEF D
<1>4. ASSUME NEW z \in D
      PROVE  IsZone(z) /\ BasedBy(z, Impulsed + 1)
  <2>1. CASE z \in zones
    <3>1. PICK a \in Int, b \in Int : z.base = <<a, b>> /\ b < Impulsed
      BY <2>1 DEF ZoneSet, BasedBy
    <3>2. b < Impulsed + 1
      BY <1>1, <3>1
    <3> QED BY <2>1, <3>1, <3>2 DEF ZoneSet, BasedBy
  <2>2. CASE z \notin zones
    <3>1. PICK m \in run.minBase .. n : z.base = <<Impulsed - m + 1, Impulsed>>
      BY <1>2, <2>2 DEF Grown
    <3>2. Impulsed - m + 1 \in Int /\ Impulsed < Impulsed + 1
      BY <1>1, <3>1
    <3>3. IsZone(z)
      BY <1>2, <2>2 DEF Grown
    <3> QED BY <1>1, <3>1, <3>2, <3>3 DEF BasedBy
  <2> QED BY <2>1, <2>2
<1>5. \A y \in ZonesNow : \E z \in D : y = AfterBreak(z) /\ ~z.used /\ SameBase(y, z)
  <2> TAKE y \in ZonesNow
  <2>1. PICK z \in D : y = AfterBreak(z) /\ ~z.used
    BY <1>3 DEF PrunedZones, Kept
  <2> QED BY <1>1, <1>4, <2>1, AfterBreakKeeps
<1>6. ZoneSet(ZonesNow, Impulsed + 1)
  <2>1. \A y \in ZonesNow : IsZone(y) /\ BasedBy(y, Impulsed + 1)
    BY <1>4, <1>5 DEF SameBase, BasedBy
  <2>2. ASSUME NEW x \in ZonesNow, NEW y \in ZonesNow, x.base = y.base
        PROVE  x = y
    <3>1. PICK z \in D : x = AfterBreak(z) /\ SameBase(x, z)
      BY <1>5
    <3>2. PICK w \in D : y = AfterBreak(w) /\ SameBase(y, w)
      BY <1>5
    <3>3. z = w
      BY <1>2, <2>2, <3>1, <3>2 DEF SameBase, Grown
    <3> QED BY <3>1, <3>2, <3>3
  <2> QED BY <2>1, <2>2 DEF ZoneSet
<1>7. ASSUME NEW o \in placed
      PROVE  \E a, b \in Int : /\ o.plan.key[2] = <<a, b>> /\ b < Impulsed + 1
                               /\ \A z \in ZonesNow : z.base # <<a, b>>
  <2>1. PICK a \in Int, b \in Int : /\ o.plan.key[2] = <<a, b>> /\ b < Impulsed
                                    /\ \A z \in zones : z.base = <<a, b>> => z.used
    BY DEF ZonesUsed
  <2>2. b < Impulsed + 1 /\ b # Impulsed
    BY <1>1, <2>1
  <2>3. ASSUME NEW y \in ZonesNow PROVE y.base # <<a, b>>
    <3>1. PICK z \in D : ~z.used /\ SameBase(y, z)
      BY <1>5
    <3>2. CASE z \in zones
      BY <2>1, <3>1, <3>2 DEF SameBase
    <3>3. CASE z \notin zones
      <4>1. PICK m \in run.minBase .. n : z.base = <<Impulsed - m + 1, Impulsed>>
        BY <1>2, <3>3 DEF Grown
      <4> QED BY <2>2, <3>1, <4>1 DEF SameBase
    <3> QED BY <3>2, <3>3
  <2> QED BY <2>1, <2>2, <2>3
<1>8. BasesGone(placed, ZonesNow, Impulsed + 1)
  BY <1>7 DEF BasesGone
<1> QED BY <1>6, <1>8

(* Of the zones that could be traded one is.                               *)
LEMMA TradedIsOne ==
  ASSUME NEW found, NEW n, ZoneSet(found, n), NEW y \in TradedZone(found), NEW z \in TradedZone(found)
  PROVE  y = z /\ y \in found /\ ~y.used
<1>1. y \in found /\ z \in found /\ ~y.used
  BY DEF TradedZone
<1>2. ASSUME y # z PROVE FALSE
  <2>1. Sooner(y, z) /\ Sooner(z, y)
    BY <1>2 DEF TradedZone
  <2>2. y.at \in Int /\ z.at \in Int
    BY <1>1 DEF ZoneSet, IsZone
  <2>3. PICK a \in Int, b \in Int : y.base = <<a, b>>
    BY <1>1 DEF ZoneSet, BasedBy
  <2>4. PICK c \in Int, d \in Int : z.base = <<c, d>>
    BY <1>1 DEF ZoneSet, BasedBy
  <2>5. Listed(y, z) /\ Listed(z, y)
    BY <2>1, <2>2 DEF Sooner
  <2> QED BY <2>3, <2>4, <2>5 DEF Listed
<1> QED BY <1>1, <1>2

(* Examining zones keeps their bases, and marks the one that is traded.    *)
LEMMA RetestedAre ==
  ASSUME NEW found, NEW n, ZoneSet(found, n)
  PROVE  /\ ZoneSet(Retested(found, TradedZone(found)), n)
         /\ \A y \in Retested(found, TradedZone(found)) : \E z \in found : y.base = z.base
         /\ \A z \in TradedZone(found) :
              \A y \in Retested(found, TradedZone(found)) : y.base = z.base => y.used
<1> DEFINE taken == TradedZone(found)
           examined(z) == ~z.used /\ \A t \in taken : z = t \/ Sooner(z, t)
           after(z) == IF examined(z) THEN [RetestAt(z).zone EXCEPT !.used = z \in taken] ELSE z
<1>1. Retested(found, taken) = {after(z) : z \in found}
  BY DEF Retested
<1>2. ASSUME NEW z \in found
      PROVE  SameBase(after(z), z) /\ (z \in taken => after(z).used)
  <2> DEFINE x == RetestAt(z).zone
             marked == [x EXCEPT !.used = z \in taken]
  <2>1. IsZone(z)
    BY DEF ZoneSet
  <2>2. SameBase(x, z)
    BY <2>1, RetestKeeps
  <2> HIDE DEF x
  <2>3. SameBase(marked, x) /\ marked.used = (z \in taken)
    <3> DEFINE v == z \in taken
    <3>1. IsZone(x)
      BY <2>2 DEF SameBase
    <3> HIDE DEF v
    <3>2. SameBase([x EXCEPT !.used = v], x) /\ [x EXCEPT !.used = v].used = v
      BY <3>1, MarksKeep
    <3> QED BY <3>2 DEF v
  <2>4. after(z) = IF examined(z) THEN marked ELSE z
    BY DEF x
  <2>5. z \in taken => examined(z)
    BY TradedIsOne
  <2> HIDE DEF after, examined, marked, taken
  <2> QED BY <2>1, <2>2, <2>3, <2>4, <2>5 DEF SameBase
<1> HIDE DEF after
<1>3. \A y, z \in found : y.base = z.base => y = z
  BY DEF ZoneSet
<1>4. \A z \in found : BasedBy(after(z), n)
  BY <1>2 DEF ZoneSet, BasedBy, SameBase
<1>5. ZoneSet({after(z) : z \in found}, n)
  BY <1>2, <1>3, <1>4 DEF ZoneSet, SameBase
<1>6. \A z \in taken : z \in found
  BY TradedIsOne
<1>7. \A z \in taken : \A y \in {after(x) : x \in found} : y.base = z.base => y.used
  <2> HIDE DEF taken
  <2> QED BY <1>2, <1>3, <1>6 DEF SameBase
<1>8. \A y \in {after(x) : x \in found} : \E z \in found : y.base = z.base
  BY <1>2 DEF SameBase
<1> QED BY <1>1, <1>5, <1>7, <1>8

LEMMA ZonePlanKey == \A z : SupplyDemand(z).key[2] = z.base
BY DEF SupplyDemand, Setup

(* Every step of the handler leaves the zones it finds, or examines them   *)
(* and may place an order for the one it marks.                            *)
LEMMA ZoneMoves ==
  ASSUME run.family = "supplyDemand", Managed \/ ZoneOrdered \/ ZonePassed
  PROVE  \/ placed' = placed /\ zones' = ZonesNow
         \/ /\ zones' = Retested(ZonesNow, TradedZone(ZonesNow))
            /\ \/ placed' = placed
               \/ \E z \in TradedZone(ZonesNow) :
                    placed' = placed \cup {[plan |-> SupplyDemand(z), at |-> i]}
<1>1. CASE Managed \/ ZonePassed
  BY <1>1 DEF Managed, ZonePassed, NoOrder
<1>2. CASE ZoneOrdered
  <2> DEFINE taken == TradedZone(ZonesNow)
  <2>1. TradeZone(ZonesNow, taken)
    BY <1>2 DEF ZoneOrdered, ExamineZones
  <2> HIDE DEF taken
  <2>2. zones' = Retested(ZonesNow, taken)
    BY <2>1 DEF TradeZone
  <2>3. CASE taken = {}
    BY <2>1, <2>3, <2>2 DEF TradeZone, NoOrder, taken
  <2>4. CASE taken # {}
    <3>1. PICK z \in taken, gates \in MarketGates, filters \in BOOLEAN : Place(SupplyDemand(z), gates, filters)
      BY <2>1, <2>4 DEF TradeZone
    <3>2. placed' = placed \cup {[plan |-> SupplyDemand(z), at |-> i]} \/ placed' = placed
      BY <3>1, Placing
    <3> QED BY <2>2, <3>2 DEF taken
  <2> QED BY <2>3, <2>4
<1> QED BY <1>1, <1>2

LEMMA ZoneStep ==
  ASSUME KeysKept, SameTape, pc = "handler", pc' = "broker", run.family = "supplyDemand",
         Managed \/ ZoneOrdered \/ ZonePassed
  PROVE  KeysKept'
<1>1. Taped /\ Taped' /\ run' = run /\ i' = i /\ i \in Int /\ run.pole \in Nat
  BY SameBar, BarNumber, FamiliesAssumption DEF KeysKept, Taped, SameTape
<1>2. Horizon - run.pole = Impulsed /\ (Horizon - run.pole)' = Impulsed + 1 /\ Impulsed \in Int
  BY <1>1 DEF Horizon, Impulsed
<1>3. ZoneSet(zones, Impulsed) /\ ZonesUsed(placed, zones, Impulsed)
  BY <1>2 DEF KeysKept, ZoneKept
<1> DEFINE found == ZonesNow
           n == Impulsed + 1
           taken == TradedZone(found)
<1>4. ZoneSet(found, n) /\ BasesGone(placed, found, n)
  BY <1>1, <1>3, ZonesNowAre
<1>5. /\ ZoneSet(Retested(found, taken), n)
      /\ \A y \in Retested(found, taken) : \E z \in found : y.base = z.base
      /\ \A z \in taken : \A y \in Retested(found, taken) : y.base = z.base => y.used
  BY <1>4, RetestedAre
<1>6. zones' = found \/ zones' = Retested(found, taken)
  BY ZoneMoves
<1>7. \/ placed' = placed
      \/ zones' = Retested(found, taken) /\ \E z \in taken : placed' = placed \cup {[plan |-> SupplyDemand(z), at |-> i]}
  BY ZoneMoves
<1>8. \A z \in taken : z \in found
  BY <1>4, TradedIsOne
<1> HIDE DEF found, n, taken
<1>9. ZoneSet(zones', n)
  BY <1>4, <1>5, <1>6
<1>10. BasesGone(placed, zones', n)
  <2> SUFFICES ASSUME NEW o \in placed
               PROVE  \E a, b \in Int : /\ o.plan.key[2] = <<a, b>> /\ b < n
                                        /\ \A y \in zones' : y.base # <<a, b>>
    BY DEF BasesGone
  <2>1. PICK a \in Int, b \in Int : /\ o.plan.key[2] = <<a, b>> /\ b < n
                                    /\ \A z \in found : z.base # <<a, b>>
    BY <1>4 DEF BasesGone
  <2>2. \A y \in zones' : \E z \in found : y.base = z.base
    BY <1>5, <1>6
  <2> QED BY <2>1, <2>2
<1>11. ZonesUsed(placed, zones', n)
  BY <1>10 DEF BasesGone, ZonesUsed
<1>12. ZonesUsed(placed', zones', n) /\ OneOrderPerKey'
  <2>1. CASE placed' = placed
    BY <1>1, <1>11, <2>1, NoMoreKeys DEF KeysKept
  <2>2. CASE placed' # placed
    <3>1. PICK z \in taken : placed' = placed \cup {[plan |-> SupplyDemand(z), at |-> i]}
      BY <1>7, <2>2
    <3> DEFINE plan == SupplyDemand(z)
               new == [plan |-> plan, at |-> i]
    <3>2. new.plan.key[2] = z.base /\ plan.key[2] = z.base
      BY ZonePlanKey
    <3>3. placed' = placed \cup {new}
      BY <3>1
    <3>4. z \in found /\ BasedBy(z, n)
      BY <1>4, <1>8 DEF ZoneSet
    <3> HIDE DEF plan, new
    <3>5. ZonesUsed(placed', zones', n)
      <4> SUFFICES ASSUME NEW o \in placed'
                   PROVE  \E a, b \in Int : /\ o.plan.key[2] = <<a, b>> /\ b < n
                                            /\ \A y \in zones' : y.base = <<a, b>> => y.used
        BY DEF ZonesUsed
      <4>1. CASE o \in placed
        BY <1>11, <4>1 DEF ZonesUsed
      <4>2. CASE o = new
        <5>1. PICK a \in Int, b \in Int : z.base = <<a, b>> /\ b < n
          BY <3>4 DEF BasedBy
        <5>2. \A y \in zones' : y.base = z.base => y.used
          BY <1>5, <1>7, <2>2
        <5> QED BY <3>2, <4>2, <5>1, <5>2
      <4> QED BY <3>3, <4>1, <4>2
    <3>6. ASSUME NEW o \in placed PROVE o.plan.key # plan.key
      <4>1. PICK a, b : o.plan.key[2] = <<a, b>> /\ \A y \in found : y.base # <<a, b>>
        BY <1>4 DEF BasesGone
      <4> QED BY <3>2, <3>4, <4>1
    <3>7. placed' = placed \cup {[plan |-> plan, at |-> i]}
      BY <3>3 DEF new
    <3>8. OneOrderPerKey'
      BY <3>6, <3>7, OneMoreKey DEF KeysKept, Repeats
    <3> QED BY <3>5, <3>8
  <2> QED BY <2>1, <2>2
<1>13. ZoneKept'
  <2>1. ZoneSet(zones', n) => ZoneSet(zones, Horizon - run.pole)'
    BY <1>2 DEF n, ZoneSet, BasedBy, IsZone, ZoneFields
  <2>2. ZonesUsed(placed', zones', n) => ZonesUsed(placed, zones, Horizon - run.pole)'
    BY <1>2 DEF n, ZonesUsed
  <2> QED BY <1>9, <1>12, <2>1, <2>2 DEF ZoneKept
<1>14. FlagKept'
  BY <1>1, StillUnarmed DEF Managed, ZoneOrdered, ZonePassed
<1> QED BY <1>1, <1>12, <1>13, <1>14 DEF KeysKept, OrdinaryKept, PullbackKept, GapKept, Ordinary

-------------------------------------------------------------------------------
(* namedLevelFlag.                                                         *)

(* What the handler may arm, drop and place on a bar.                      *)
LEMMA NamedFlagIs ==
  ASSUME NEW a, NamedFlag(a).ok
  PROVE  NamedFlag(a).key = <<a.key>> /\ ~NamedFlag(a).limit
<1>1. NamedFlag(a) = NoSetup \/ \E stop : NamedFlag(a) = FixedR(a.side, stop, <<a.key>>, a.level)
  BY DEF NamedFlag
<1>2. PICK stop : NamedFlag(a) = FixedR(a.side, stop, <<a.key>>, a.level)
  BY <1>1 DEF NoSetup
<1> QED BY <1>2, FixedRIs

SameFlag(b, a) == IsArmed(b) /\ b.key = a.key /\ b.at = a.at /\ b.level = a.level

LEMMA RipenedIs ==
  ASSUME NEW a, IsArmed(a)
  PROVE  SameFlag(Ripened(a), a)
<1>1. ASSUME NEW p, NEW h, NEW l, NEW n
      PROVE  SameFlag([a EXCEPT !.pullback = p, !.high = h, !.low = l, !.count = n], a)
  BY DEF SameFlag, IsArmed, ArmedFields
<1> DEFINE p == a.pullback \/ Beyond(a.side, C(i), O(i)) < 0
           h == IF a.count = 0 \/ H(i) > a.high THEN H(i) ELSE a.high
           l == IF a.count = 0 \/ L(i) < a.low THEN L(i) ELSE a.low
           n == a.count + 1
<1>2. Ripened(a) = [a EXCEPT !.pullback = p, !.high = h, !.low = l, !.count = n]
  BY Zenon DEF Ripened
<1>3. SameFlag([a EXCEPT !.pullback = p, !.high = h, !.low = l, !.count = n], a)
  <2> HIDE DEF p, h, l, n
  <2> QED BY <1>1, Zenon
<1> QED BY <1>2, <1>3, Zenon

LEMMA StandingIs ==
  /\ Standing = NotArmed \/ Standing = armed
  /\ Standing # NotArmed => Day(armed.at) = Day(i)
BY DEF Standing

(* The flags of a step that places nothing.                                *)
LEMMA FlagIdles ==
  ASSUME KeysKept, SameTape, pc = "handler", pc' = "broker", run.family = "namedLevelFlag",
         placed' = placed, seen \subseteq seen', busy' \in {"flat", "held"},
         armed' # NotArmed => Untraded(armed') /\ busy' = "flat"
  PROVE  FlagKept' /\ OneOrderPerKey'
<1>1. run' = run /\ (\A j : Day(j)' = Day(j))
  BY SameBar DEF SameTape
<1>2. armed' # NotArmed => Untraded(armed)'
  BY <1>1 DEF Untraded, IsArmed, ArmedFields
<1>3. OneOrderPerKey'
  BY <1>1, NoMoreKeys DEF KeysKept
<1>4. \A o \in placed' : <<Day(o.at), o.plan.key>>' \in seen'
  BY <1>1 DEF KeysKept, FlagKept
<1> QED BY <1>1, <1>2, <1>3, <1>4 DEF FlagKept, NotArmed

LEMMA FlagStep ==
  ASSUME KeysKept, SameTape, pc = "handler", pc' = "broker", run.family = "namedLevelFlag",
         Managed \/ FlagDropped \/ FlagIdle \/ FlagArmed \/ FlagRipened \/ FlagBreaks
  PROVE  FlagKept' /\ OneOrderPerKey'
<1>1. /\ \A o \in placed : <<Day(o.at), o.plan.key>> \in seen
      /\ armed # NotArmed => Untraded(armed) /\ busy = "flat"
      /\ busy \in {"flat", "held"}
  BY DEF KeysKept, FlagKept
<1>2. CASE Managed
  <2>1. busy' \in {"flat", "held"} /\ armed' = armed /\ seen' = seen /\ placed' = placed /\ armed = NotArmed
    BY <1>1, <1>2 DEF Managed
  <2> QED BY <2>1, FlagIdles DEF NotArmed
<1>3. CASE FlagDropped
  <2>1. armed' = NotArmed /\ busy' = busy /\ seen' = seen /\ placed' = placed
    BY <1>3 DEF FlagDropped, NoOrder
  <2> QED BY <1>1, <2>1, FlagIdles
<1>4. CASE FlagIdle
  <2>1. armed' = Standing /\ busy' = busy /\ seen' = seen /\ placed' = placed
    BY <1>4 DEF FlagIdle, NoOrder
  <2>2. armed' # NotArmed => Untraded(armed') /\ busy' = "flat"
    BY <1>1, <2>1, StandingIs
  <2> QED BY <1>1, <2>1, <2>2, FlagIdles
<1>5. CASE FlagArmed
  <2> DEFINE crossed == CrossedLevels(ImpulseSide)
             k == run.priority[Lowest(crossed)]
  <2>1. /\ crossed # {} /\ busy = "flat" /\ busy' = busy /\ placed' = placed
        /\ seen' = seen \cup {<<Day(i), <<k>>>>}
        /\ armed' = [key |-> k, level |-> FlagPrices[k], side |-> ImpulseSide, at |-> i,
                     mid2 |-> H(i) + L(i), high |-> Missing, low |-> Missing,
                     count |-> 0, pullback |-> FALSE]
    BY <1>1, <1>5 DEF FlagArmed, FlagBar, NoOrder
  <2>2. <<Day(i), <<k>>>> \notin seen
    <3>1. crossed \subseteq Nat
      BY FamiliesAssumption DEF KeysKept, Taped, CrossedLevels
    <3>2. Lowest(crossed) \in crossed
      <4> HIDE DEF crossed
      <4> QED BY <2>1, <3>1, LowestOf
    <3> QED BY <3>2 DEF CrossedLevels
  <2>3. IsArmed(armed') /\ armed'.key = k /\ armed'.at = i
    <3> HIDE DEF k
    <3> QED BY <2>1 DEF IsArmed, ArmedFields
  <2> HIDE DEF k, crossed
  <2>4. \A o \in placed : ~(o.plan.key = <<k>> /\ Day(o.at) = Day(i))
    BY <1>1, <2>2
  <2> DEFINE a == armed'
  <2>5. /\ IsArmed(a) /\ a.key = k /\ a.at = i /\ a.at \in Int
        /\ seen' = seen \cup {<<Day(a.at), <<a.key>>>>}
        /\ \A o \in placed : ~(o.plan.key = <<a.key>> /\ Day(o.at) = Day(a.at))
    BY <2>1, <2>3, <2>4, BarNumber DEF KeysKept
  <2>6. FlagKept' /\ OneOrderPerKey'
    <3>1. run' = run /\ (\A j : Day(j)' = Day(j))
      BY SameBar DEF SameTape
    <3>2. Untraded(armed)'
      BY <2>1, <2>5, <3>1 DEF Untraded, IsArmed, ArmedFields
    <3>3. \A o \in placed' : <<Day(o.at), o.plan.key>>' \in seen'
      BY <1>1, <2>1, <3>1
    <3>4. OneOrderPerKey'
      BY <2>1, <3>1, NoMoreKeys DEF KeysKept
    <3> QED BY <2>1, <3>1, <3>2, <3>3, <3>4 DEF FlagKept
  <2> QED BY <2>6
<1>6. CASE FlagRipened
  <2>1. armed' = Ripened(Standing) /\ busy' = busy /\ seen' = seen /\ placed' = placed /\ Standing # NotArmed
    BY <1>6 DEF FlagRipened, NoOrder
  <2>2. Standing = armed /\ armed # NotArmed /\ Untraded(armed) /\ busy = "flat"
    BY <1>1, <2>1, StandingIs
  <2>3. SameFlag(armed', armed)
    BY <2>1, <2>2, RipenedIs DEF Untraded
  <2>4. Untraded(armed')
    BY <2>2, <2>3 DEF Untraded, SameFlag
  <2> QED BY <1>1, <2>1, <2>2, <2>4, FlagIdles
<1>7. CASE FlagBreaks
  <2> DEFINE plan == NamedFlag(Standing)
             new == [plan |-> plan, at |-> i]
  <2>1. armed' = NotArmed /\ seen' = seen /\ Standing # NotArmed /\ BreakOrder(plan)
    BY <1>7 DEF FlagBreaks
  <2>2. Standing = armed /\ armed # NotArmed /\ Untraded(armed) /\ Day(armed.at) = Day(i) /\ busy = "flat"
    BY <1>1, <2>1, StandingIs
  <2>3. CASE ~plan.ok
    <3>1. placed' = placed /\ busy' = busy
      BY <2>1, <2>3 DEF BreakOrder, NoOrder
    <3> QED BY <1>1, <2>1, <3>1, FlagIdles
  <2>4. CASE plan.ok
    <3>1. PICK filters \in BOOLEAN : Place(plan, TRUE, filters)
      BY <2>1, <2>4 DEF BreakOrder
    <3>2. plan.key = <<armed.key>> /\ ~plan.limit
      BY <2>2, <2>4, NamedFlagIs
    <3> HIDE DEF plan
    <3>3. busy' \in {"held", "queued", "flat"} /\ (placed' = placed \cup {new} \/ placed' = placed)
      BY <2>2, <3>1, <3>2 DEF Place
    <3>4. run' = run /\ (\A j : Day(j)' = Day(j))
      BY SameBar DEF SameTape
    <3>5. new.plan = plan /\ new.at = i
      OBVIOUS
    <3> HIDE DEF new
    <3>6. \A o \in placed' : <<Day(o.at), o.plan.key>>' \in seen'
      <4>1. <<Day(new.at), new.plan.key>> \in seen
        BY <2>2, <3>2, <3>5 DEF Untraded
      <4> QED BY <1>1, <2>1, <3>3, <3>4, <4>1
    <3>7. OneOrderPerKey'
      <4>1. CASE placed' = placed
        BY <3>4, <4>1, NoMoreKeys DEF KeysKept
      <4>2. CASE placed' = placed \cup {new}
        <5>1. placed' = placed \cup {[plan |-> plan, at |-> i]}
          BY <4>2 DEF new
        <5>2. ASSUME NEW o \in placed, Repeats(plan, o)
              PROVE  run.family \notin OncePerRun /\ Day(o.at) # Day(i)
          BY <2>2, <3>2, <5>2 DEF Repeats, Untraded, OncePerRun
        <5> QED BY <5>1, <5>2, OneMoreKey DEF KeysKept
      <4> QED BY <3>3, <4>1, <4>2
    <3>8. FlagKept'
      BY <2>1, <3>3, <3>4, <3>6 DEF FlagKept, NotArmed
    <3> QED BY <3>7, <3>8
  <2> QED BY <2>3, <2>4
<1> QED BY <1>2, <1>3, <1>4, <1>5, <1>6, <1>7

(* What ArmedIsCurrent says of a level that stays armed.                   *)
Current(a) ==
  /\ i - a.at <= run.maxFlag /\ Day(a.at) = Day(i)
  /\ a.key \in DOMAIN FlagPrices /\ FlagPrices[a.key] = a.level

LEMMA FlagCurrent ==
  ASSUME KeysKept, SameTape, pc = "handler", run.family = "namedLevelFlag", armed' # NotArmed,
         cols.atr # 0,
         Managed \/ FlagDropped \/ FlagIdle \/ FlagArmed \/ FlagRipened \/ FlagBreaks
  PROVE  (prices' = FlagPrices /\ Current(armed')) \/ busy' = "held"
<1>1. CASE Managed
  BY <1>1 DEF Managed, KeysKept, FlagKept
<1>2. CASE FlagDropped \/ FlagBreaks
  BY <1>2 DEF FlagDropped, FlagBreaks
<1>3. CASE FlagIdle
  BY <1>3 DEF FlagIdle
<1>4. CASE FlagArmed
  <2> DEFINE crossed == CrossedLevels(ImpulseSide)
             k == run.priority[Lowest(crossed)]
  <2>1. /\ crossed # {} /\ prices' = FlagPrices
        /\ armed'.key = k /\ armed'.level = FlagPrices[k] /\ armed'.at = i
    BY <1>4 DEF FlagArmed, FlagBar
  <2>2. SameLevel(k)
    <3>1. crossed \subseteq Nat
      BY FamiliesAssumption DEF KeysKept, Taped, CrossedLevels
    <3>2. Lowest(crossed) \in crossed
      <4> HIDE DEF crossed
      <4> QED BY <2>1, <3>1, LowestOf
    <3> QED BY <3>2 DEF CrossedLevels
  <2>3. i - i <= run.maxFlag
    <3>1. Taped /\ i \in Int
      BY BarNumber DEF KeysKept
    <3>2. run.maxFlag \in Nat
      BY <3>1, FamiliesAssumption DEF Taped
    <3> QED BY <3>1, <3>2
  <2> HIDE DEF k
  <2> QED BY <2>1, <2>2, <2>3 DEF Current, SameLevel
<1>5. CASE FlagRipened
  <2>1. /\ armed' = Ripened(Standing) /\ Standing # NotArmed /\ ~Spoiled(Standing)
        /\ prices' = FlagPrices
    BY <1>5 DEF FlagRipened, FlagBar
  <2>2. Standing = armed /\ Day(armed.at) = Day(i) /\ IsArmed(armed) /\ armed.at \in Int
    BY <2>1, StandingIs DEF KeysKept, FlagKept, Untraded
  <2>3. SameFlag(armed', armed)
    BY <2>1, <2>2, RipenedIs
  <2>4. Current(armed)
    <3>1. ~(i - armed.at > run.maxFlag) /\ armed.key \in DOMAIN FlagPrices /\ FlagPrices[armed.key] = armed.level
      BY <2>1, <2>2 DEF Spoiled
    <3>2. i - armed.at <= run.maxFlag
      <4>1. Taped /\ i \in Int
        BY BarNumber DEF KeysKept
      <4>2. run.maxFlag \in Nat
        BY <4>1, FamiliesAssumption DEF Taped
      <4> QED BY <2>2, <3>1, <4>1, <4>2
    <3> QED BY <2>2, <3>1, <3>2 DEF Current
  <2> QED BY <2>1, <2>3, <2>4 DEF Current, SameFlag
<1> QED BY <1>1, <1>2, <1>3, <1>4, <1>5

-------------------------------------------------------------------------------
(* Every step.                                                             *)

LEMMA ManagedStep ==
  ASSUME KeysKept, SameTape, Managed, Ordinary \/ run.family = "trendPullback"
  PROVE  KeysKept'
<1>1. run' = run /\ seen' = seen /\ placed' = placed /\ armed' = armed
  BY DEF Managed, SameTape
<1>2. (\A o : RememberedAt(o)' = RememberedAt(o)) /\ (\A q : Keyed(q)' = Keyed(q)) /\ Ordinary' = Ordinary
  BY <1>1, SameBar DEF RememberedAt, Keyed, Ordinary
<1>3. OrdinaryKept' /\ PullbackKept'
  BY <1>1, <1>2 DEF KeysKept, OrdinaryKept, PullbackKept
<1>4. FlagKept' /\ OneOrderPerKey' /\ Taped'
  BY <1>1, StillUnarmed, NoMoreKeys DEF KeysKept, Taped, SameTape, Ordinary
<1> QED BY <1>1, <1>3, <1>4 DEF KeysKept, GapKept, ZoneKept, Ordinary

LEMMA HandlerStep == KeysKept /\ Handler => KeysKept'
<1> SUFFICES ASSUME KeysKept, Handler PROVE KeysKept'
  OBVIOUS
<1>1. SameTape /\ pc = "handler" /\ pc' = "broker"
  BY DEF Handler, SameTape
<1>2. \/ Managed
      \/ Ordered \/ Passed
      \/ PullbackOrdered \/ PullbackPassed
      \/ GapOrdered \/ GapPassed
      \/ ZoneOrdered \/ ZonePassed
      \/ FlagDropped \/ FlagIdle \/ FlagArmed \/ FlagRipened \/ FlagBreaks
  BY DEF Handler
<1>3. CASE Ordered
  BY <1>1, <1>3, OrderedStep
<1>4. CASE Passed
  BY <1>1, <1>4, PassedStep
<1>5. CASE PullbackOrdered \/ PullbackPassed
  BY <1>1, <1>5, PullbackStep
<1>6. CASE run.family = "fairValueGap" /\ (Managed \/ GapOrdered \/ GapPassed)
  BY <1>1, <1>6, GapStep
<1>7. CASE run.family = "supplyDemand" /\ (Managed \/ ZoneOrdered \/ ZonePassed)
  BY <1>1, <1>7, ZoneStep
<1>8. CASE /\ run.family = "namedLevelFlag"
           /\ Managed \/ FlagDropped \/ FlagIdle \/ FlagArmed \/ FlagRipened \/ FlagBreaks
  <2>1. FlagKept' /\ OneOrderPerKey'
    BY <1>1, <1>8, FlagStep
  <2>2. Taped' /\ run'.family = "namedLevelFlag"
    BY <1>1, <1>8 DEF KeysKept, Taped, SameTape
  <2> QED BY <2>1, <2>2 DEF KeysKept, OrdinaryKept, PullbackKept, GapKept, ZoneKept, Ordinary
<1>9. CASE Managed /\ (Ordinary \/ run.family = "trendPullback")
  BY <1>1, <1>9, ManagedStep
<1>10. /\ GapOrdered \/ GapPassed => run.family = "fairValueGap"
       /\ ZoneOrdered \/ ZonePassed => run.family = "supplyDemand"
       /\ FlagDropped \/ FlagIdle \/ FlagArmed \/ FlagRipened \/ FlagBreaks => run.family = "namedLevelFlag"
  BY DEF GapOrdered, GapPassed, ZoneOrdered, ZonePassed, FlagBar, FlagDropped, FlagIdle,
         FlagArmed, FlagRipened, FlagBreaks
<1>11. \/ Ordinary
       \/ run.family \in {"trendPullback", "fairValueGap", "supplyDemand", "namedLevelFlag"}
  BY DEF Ordinary
<1> QED BY <1>2, <1>3, <1>4, <1>5, <1>6, <1>7, <1>8, <1>9, <1>10, <1>11

LEMMA BrokerStep == KeysKept /\ BrokerBar => KeysKept'
<1> SUFFICES ASSUME KeysKept, BrokerBar PROVE KeysKept'
  OBVIOUS
<1>1. /\ run' = run /\ seen' = seen /\ zones' = zones /\ armed' = armed /\ placed' = placed
      /\ pc = "broker" /\ pc' = "handler" /\ busy' \in AfterOpen
  BY DEF BrokerBar
<1>2. PICK b \in run.series[Len(bars) + 1] : bars' = Append(bars, b)
  BY DEF BrokerBar
<1>3. Taped' /\ i' = i + 1
  <2>1. Taped /\ run \in Runs /\ Len(bars) \in Nat /\ Len(bars) < Len(run.series)
    BY BarNumber DEF KeysKept, Taped, BrokerBar
  <2> DEFINE series == run.series
  <2>3. series \in Seq(SUBSET DOMAIN run.candles)
    BY <2>1, FamiliesAssumption
  <2> HIDE DEF series
  <2>4. Len(bars) + 1 \in DOMAIN series
    BY <2>1, <2>3 DEF series
  <2>5. series[Len(bars) + 1] \subseteq DOMAIN run.candles
    BY <2>3, <2>4
  <2>2. b \in DOMAIN run.candles
    BY <1>2, <2>5 DEF series
  <2> QED BY <1>1, <1>2, <2>2 DEF KeysKept, Taped, i
<1>4. Horizon' = Horizon
  BY <1>1, <1>3 DEF Horizon
<1>5. /\ (\A o : RememberedAt(o)' = RememberedAt(o)) /\ (\A q : Keyed(q)' = Keyed(q))
      /\ Ordinary' = Ordinary /\ (\A j : Day(j)' = Day(j))
  BY <1>1 DEF RememberedAt, Keyed, Ordinary, Day
<1>6. OrdinaryKept' /\ PullbackKept' /\ OneOrderPerKey'
  BY <1>1, <1>5, NoMoreKeys DEF KeysKept, OrdinaryKept, PullbackKept
<1>7. GapKept' /\ ZoneKept'
  BY <1>1, <1>4 DEF KeysKept, GapKept, ZoneKept, Gaps, GapsUsed, ZoneSet, ZonesUsed, IsZone,
                    ZoneFields, BasedBy
<1>8. FlagKept'
  <2>1. CASE run.family = "namedLevelFlag"
    <3>1. Untraded(armed) => Untraded(armed)'
      BY <1>1, <1>5 DEF Untraded, IsArmed, ArmedFields
    <3>2. busy' \in {"flat", "held"} /\ (busy = "flat" => busy' = "flat")
      BY <1>1, <2>1 DEF AfterOpen, KeysKept, FlagKept
    <3>3. \A o \in placed' : <<Day(o.at), o.plan.key>>' \in seen'
      BY <1>1, <1>5, <2>1 DEF KeysKept, FlagKept
    <3> QED BY <1>1, <2>1, <3>1, <3>2, <3>3 DEF KeysKept, FlagKept, NotArmed
  <2>2. CASE run.family # "namedLevelFlag"
    BY <1>1, <2>2, StillUnarmed
  <2> QED BY <2>1, <2>2
<1> QED BY <1>3, <1>6, <1>7, <1>8 DEF KeysKept

LEMMA KeysInit == Init => KeysKept
<1> SUFFICES ASSUME Init PROVE KeysKept
  OBVIOUS
<1>1. run \in Runs /\ bars = <<>> /\ placed = {} /\ zones = {} /\ armed = NotArmed /\ busy = "flat"
      /\ pc = "broker"
  BY DEF Init
<1> QED BY <1>1 DEF KeysKept, Taped, OrdinaryKept, PullbackKept, GapKept, ZoneKept, FlagKept,
                    OneOrderPerKey, Gaps, GapsUsed, ZoneSet, ZonesUsed

LEMMA KeysNext == KeysKept /\ [Next]_vars => KeysKept'
<1> SUFFICES ASSUME KeysKept, [Next]_vars PROVE KeysKept'
  OBVIOUS
<1>1. CASE UNCHANGED vars
  <2>1. /\ run' = run /\ bars' = bars /\ seen' = seen /\ zones' = zones /\ armed' = armed
        /\ placed' = placed /\ pc' = pc /\ busy' = busy
    BY <1>1 DEF vars
  <2>2. Horizon' = Horizon /\ Taped'
    BY <2>1 DEF Horizon, i, KeysKept, Taped
  <2>3. /\ (\A o : RememberedAt(o)' = RememberedAt(o)) /\ (\A q : Keyed(q)' = Keyed(q))
        /\ Ordinary' = Ordinary /\ (\A j : Day(j)' = Day(j))
    BY <2>1 DEF RememberedAt, Keyed, Ordinary, Day
  <2>4. OrdinaryKept' /\ PullbackKept' /\ OneOrderPerKey'
    BY <2>1, <2>3, NoMoreKeys DEF KeysKept, OrdinaryKept, PullbackKept
  <2>5. GapKept' /\ ZoneKept'
    BY <2>1, <2>2 DEF KeysKept, GapKept, ZoneKept, Gaps, GapsUsed, ZoneSet, ZonesUsed, IsZone,
                      ZoneFields, BasedBy
  <2>6. FlagKept'
    <3>1. Untraded(armed)' <=> Untraded(armed)
      BY <2>1, <2>3 DEF Untraded, IsArmed, ArmedFields
    <3>2. \A o \in placed : <<Day(o.at), o.plan.key>>' = <<Day(o.at), o.plan.key>>
      BY <2>3
    <3> QED BY <2>1, <3>1, <3>2 DEF KeysKept, FlagKept, NotArmed
  <2> QED BY <2>2, <2>4, <2>5, <2>6 DEF KeysKept
<1>2. CASE Next
  BY <1>2, HandlerStep, BrokerStep DEF Next
<1> QED BY <1>1, <1>2

(* A key is traded once, in the run or in its day, however orders end.     *)
THEOREM KeysTradedOnce == Spec => []OneOrderPerKey
<1>1. KeysKept => OneOrderPerKey
  BY DEF KeysKept
<1> QED BY <1>1, KeysInit, KeysNext, PTL DEF Spec

(* A level that stays armed is one of today's, young, at its own price.    *)
LEMMA CurrentNext == KeysKept /\ ArmedIsCurrent /\ [Next]_vars => ArmedIsCurrent'
<1> SUFFICES ASSUME KeysKept, ArmedIsCurrent, [Next]_vars PROVE ArmedIsCurrent'
  OBVIOUS
<1>1. CASE UNCHANGED vars
  BY <1>1 DEF vars, ArmedIsCurrent, NotArmed, cols, Day, i
<1>2. CASE BrokerBar
  BY <1>2 DEF BrokerBar, ArmedIsCurrent
<1>3. CASE Handler
  <2>1. SameTape /\ pc = "handler" /\ cols' = cols
    BY <1>3 DEF Handler, SameTape, cols
  <2>2. CASE run.family # "namedLevelFlag"
    <3>1. armed' = NotArmed
      <4>1. run' = run /\ KeysKept'
        BY <1>3, HandlerStep DEF Handler
      <4> QED BY <2>2, <4>1 DEF KeysKept, FlagKept, NotArmed
    <3> QED BY <3>1 DEF ArmedIsCurrent, NotArmed
  <2>3. CASE run.family = "namedLevelFlag"
    <3>1. Managed \/ FlagDropped \/ FlagIdle \/ FlagArmed \/ FlagRipened \/ FlagBreaks
      BY <1>3, <2>3 DEF Handler, Ordinary, Ordered, Passed, PullbackOrdered, PullbackPassed,
                        GapOrdered, GapPassed, ZoneOrdered, ZonePassed
    <3>2. CASE armed' = NotArmed \/ cols.atr = 0
      BY <2>1, <3>2 DEF ArmedIsCurrent, NotArmed
    <3>3. CASE armed' # NotArmed /\ cols.atr # 0
      <4>1. (prices' = FlagPrices /\ Current(armed')) \/ busy' = "held"
        BY <2>1, <2>3, <3>1, <3>3, FlagCurrent
      <4>2. run' = run /\ i' = i /\ (\A j : Day(j)' = Day(j))
        BY <2>1, SameBar DEF SameTape
      <4> QED BY <4>1, <4>2 DEF ArmedIsCurrent, Current
    <3> QED BY <3>2, <3>3
  <2> QED BY <2>2, <2>3
<1> QED BY <1>1, <1>2, <1>3 DEF Next

THEOREM ArmedAlwaysCurrent == Spec => []ArmedIsCurrent
<1>1. Init => ArmedIsCurrent
  BY DEF Init, ArmedIsCurrent
<1> QED BY <1>1, KeysInit, KeysNext, CurrentNext, PTL DEF Spec
==============================================================================
