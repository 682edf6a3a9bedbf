-------------------------------- MODULE Columns --------------------------------
(***************************************************************************)
(* The columns of the context (contextcols).  Those that follow the        *)
(* calendar: the days before the current one, completed sessions and       *)
(* overnight ranges, the range and the bias of the sessions so far,        *)
(* seasonality and the volume-weighted price of the day.  Those that       *)
(* follow prices: true-range volatility, efficiency, volume, confirmed     *)
(* swings, ranges, channels, the regime and the parabolic SAR.             *)
(*                                                                         *)
(* Time is in hours, hour 0 a Thursday 00:00 UTC, and periods are scaled   *)
(* to tapes of a dozen bars.  A value that is not available is the empty   *)
(* sequence, a quotient the pair of its terms.                             *)
(***************************************************************************)
EXTENDS Integers, Sequences, FiniteSets, SequencesExt, FiniteSetsExt

StatsLookback == 2  \* completed periods in a range average (scaled from 10)
SeasonDays == 1     \* days of a seasonality look-back
MinSamples == 2     \* directional bars a classification needs (scaled from 5)

UTCDayKey(t) == t \div 24
UTCWeekKey(t) == (UTCDayKey(t) + 3) \div 7
LocalHour(t) == (t + 10) % 24

Names == {"asia", "london", "ny"}
Opens == [asia |-> 0, london |-> 7, ny |-> 12]
Closes == [asia |-> 8, london |-> 16, ny |-> 21]
InSession(name, t) == t % 24 >= Opens[name] /\ t % 24 < Closes[name]
InTradeWindow(name, t) ==
  CASE name = "asia"   -> LocalHour(t) \in 9 .. 11
    [] name = "london" -> LocalHour(t) \in 16 .. 18
    [] name = "ny"     -> LocalHour(t) \in 21 .. 23

SessionPhaseAtHour(h) ==
  CASE h < 9  -> "overnight"
    [] h < 12 -> "open"
    [] h < 14 -> "lunch"
    [] h < 18 -> "middle"
    [] OTHER  -> "close"

Highest(T, I) == Max({T[j].h : j \in I})
Lowest(T, I) == Min({T[j].l : j \in I})
Candle(T, I) == [o |-> T[Min(I)].o, h |-> Highest(T, I), l |-> Lowest(T, I), c |-> T[Max(I)].c]
-------------------------------------------------------------------------------
(* Whole days, and the completed sessions of the series.                   *)

(* The days of the series, in order.                                       *)
DayKeys(T) ==
  FoldLeft(LAMBDA keys, b : IF keys # <<>> /\ keys[Len(keys)] = UTCDayKey(b.t) THEN keys
                            ELSE Append(keys, UTCDayKey(b.t)), <<>>, T)
Days(T) == ToSet(DayKeys(T))
OfDay(T, d) == {j \in DOMAIN T : UTCDayKey(T[j].t) = d}

PreviousDay(T, d) ==
  LET before == {e \in Days(T) : e < d}
  IN IF before = {} THEN <<>> ELSE << Max(before) >>

DayBefore(T, d) == LET p == PreviousDay(T, d) IN IF p = <<>> THEN <<>> ELSE << Candle(T, OfDay(T, p[1])) >>

DayBeforeThat(T, d) == LET p == PreviousDay(T, d) IN IF p = <<>> THEN <<>> ELSE DayBefore(T, p[1])

PriorDayRangeAverage(T, d) ==
  LET before == SelectSeq(DayKeys(T), LAMBDA e : e < d)
      window == SubSeq(before, Max({1, Len(before) - StatsLookback + 1}), Len(before))
      Height(e) == Highest(T, OfDay(T, e)) - Lowest(T, OfDay(T, e))
  IN << FoldLeft(LAMBDA s, e : s + Height(e), 0, window), Len(window) >>

(* Levels R3, R4, S3 and S4 in units of a fortieth.                        *)
Camarilla(prior) ==
  LET r == prior.h - prior.l
  IN IF r <= 0 THEN <<>>
     ELSE << 40 * prior.c + 11 * r, 40 * prior.c + 22 * r, 40 * prior.c - 11 * r, 40 * prior.c - 22 * r >>

ClassifyPriorDayType(day, before) ==
  LET r == day.h - day.l
      b == before.h - before.l
  IN CASE r <= 0                                   -> "none"
       [] day.h > before.h /\ day.l < before.l     -> "outside"
       [] 100 * Max({day.c - day.o, day.o - day.c}) >= 45 * r -> "trend"
       [] b <= 0                                   -> "range"
       [] 100 * r >= 145 * b                       -> "wide"
       [] 100 * r <= 65 * b                        -> "narrow"
       [] OTHER                                    -> "range"

RunsBetween(T, day, first, last) ==
  LET I == {j \in DOMAIN T : T[j].t >= 24 * day + first /\ T[j].t < 24 * day + last}
  IN IF I = {} THEN <<>> ELSE << [end |-> 24 * day + last, run |-> Candle(T, I)] >>

(* One run for each day of the series that has bars in the window.         *)
CollectRuns(T, first, last) ==
  FoldLeft(LAMBDA runs, d : runs \o RunsBetween(T, d, first, last), <<>>, DayKeys(T))

SessionRuns(T, name) == CollectRuns(T, Opens[name], Closes[name])
OvernightRuns(T) == CollectRuns(T, 20, 32)

Completed(run, t) == run.end <= t

(* The pointer advances over the runs that are completed at t.             *)
Advance(runs, ptr, t) ==
  Max({ptr} \cup {k \in ptr + 1 .. Len(runs) : \A m \in ptr + 1 .. k : Completed(runs[m], t)})

AtPointer(runs, ptr) == IF ptr = 0 THEN <<>> ELSE << runs[ptr].run >>
-------------------------------------------------------------------------------
(* The range of a period so far, with the average of the periods before.   *)

Periods == {<< "day", "utc" >>, << "week", "utc" >>} \cup ({"session", "window"} \X Names)

(* The period a bar belongs to, -1 outside every one: consecutive bars     *)
(* inside a session are one run of it, whatever day they are of.           *)
PeriodOf(p, t) ==
  CASE p[1] = "day"     -> UTCDayKey(t)
    [] p[1] = "week"    -> UTCWeekKey(t)
    [] p[1] = "session" -> IF InSession(p[2], t) THEN 0 ELSE -1
    [] p[1] = "window"  -> IF InTradeWindow(p[2], t) THEN 0 ELSE -1

NoRange == [key |-> -1, q |-> <<>>, hi |-> 0, lo |-> 0, avg |-> << 0, 0 >>, last |-> <<>>]

Average(q) == << FoldLeft(+, 0, q), Len(q) >>
LastOf(q, n) == SubSeq(q, Max({1, Len(q) - n + 1}), Len(q))

Live(tr, bar, fresh) ==
  [tr EXCEPT !.hi = IF fresh THEN bar.h ELSE Max({@, bar.h}),
             !.lo = IF fresh THEN bar.l ELSE Min({@, bar.l}),
             !.avg = IF fresh THEN Average(tr.q) ELSE @]

Entry(tr, state) == [hi |-> tr.hi, lo |-> tr.lo, avg |-> tr.avg, state |-> state]

Finalize(tr) ==
  [tr EXCEPT !.q = LastOf(Append(@, tr.hi - tr.lo), StatsLookback), !.last = << Entry(tr, "complete") >>]

(* Mutant: a period that follows another at once keeps its extremes.       *)
StepRangeStale(tr, bar, key) ==
  LET closed == [(IF tr.key # -1 /\ tr.key # key THEN Finalize(tr) ELSE tr) EXCEPT !.key = key]
  IN IF key = -1 THEN closed ELSE Live(closed, bar, tr.key = -1)

StepRange(tr, bar, key) ==
  LET closed == [(IF tr.key # -1 /\ tr.key # key THEN Finalize(tr) ELSE tr) EXCEPT !.key = key]
  IN IF key = -1 THEN closed ELSE Live(closed, bar, tr.key # key)

RangeEntry(tr) == IF tr.key = -1 THEN tr.last ELSE << Entry(tr, "live") >>
-------------------------------------------------------------------------------
(* The bias of a session so far, measured in ATRs.                         *)

NoBias == [active |-> FALSE, open |-> 0, body |-> 0, pv |-> 0, vol |-> 0, prev |-> <<>>, last |-> <<>>]

(* Sign of n / d against a threshold of pct hundredths.                    *)
Sided(n, d, pct) == IF 100 * n > pct * d THEN 1 ELSE IF 100 * n < -pct * d THEN -1 ELSE 0

Within(n, d, pct) == 100 * n < pct * d /\ -100 * n < pct * d

BiasMode(score, displaced, body, atr) ==
  CASE score >= 2  -> "up"
    [] score <= -2 -> "down"
    [] Within(displaced * atr[2], atr[1], 15) /\ Within(body * atr[2], atr[1], 15) -> "pause"
    [] OTHER       -> "mixed"

LiveBias(tr, bar, atr) ==
  LET v == IF bar.v > 0 THEN bar.v ELSE 1
      t == IF tr.active THEN tr ELSE [NoBias EXCEPT !.open = bar.o]
      body == t.body + bar.c - bar.o
      pv == t.pv + bar.c * v
      vol == t.vol + v
      slope == IF t.prev = <<>> THEN 0
               ELSE Sided((pv * t.prev[2] - t.prev[1] * vol) * atr[2], vol * t.prev[2] * atr[1], 2)
      score == IF atr[1] = 0 THEN 0
               ELSE Sided((bar.c - t.open) * atr[2], atr[1], 25) + Sided(body * atr[2], atr[1], 20) + slope
      entry == [score |-> score, state |-> "live",
                mode |-> IF atr[1] = 0 THEN "pause" ELSE BiasMode(score, bar.c - t.open, body, atr)]
  IN [active |-> TRUE, open |-> t.open, body |-> body, pv |-> pv, vol |-> vol,
      prev |-> << pv, vol >>, last |-> << entry >>]

StepBias(tr, bar, atr, inside) ==
  IF inside THEN LiveBias(tr, bar, atr)
  ELSE [tr EXCEPT !.active = FALSE,
                  !.last = IF @ = <<>> THEN @ ELSE << [@[1] EXCEPT !.state = "complete"] >>]
-------------------------------------------------------------------------------
(* Seasonality: each row is read before its bar is counted.                *)

Specs == {"intraday", "dayOfWeek"} \X {0, SeasonDays}

BucketOf(spec, t) == IF spec[1] = "intraday" THEN t % 24 ELSE UTCDayKey(t) % 7

EmptyBucket == [bullish |-> 0, bearish |-> 0, doji |-> 0, queue |-> <<>>]

Direction(bar) == IF bar.c > bar.o THEN "bullish" ELSE IF bar.c < bar.o THEN "bearish" ELSE "doji"

Expired(seen, t) == seen.t < t - 24 * SeasonDays

Prune(spec, b, t) ==
  IF spec[2] = 0 THEN b
  ELSE LET old == SelectSeq(b.queue, LAMBDA seen : Expired(seen, t))
           Gone(dir) == Len(SelectSeq(old, LAMBDA seen : seen.dir = dir))
       IN [bullish |-> b.bullish - Gone("bullish"), bearish |-> b.bearish - Gone("bearish"),
           doji |-> b.doji - Gone("doji"), queue |-> SubSeq(b.queue, Len(old) + 1, Len(b.queue))]

ClassifySeasonality(bullish, directional) ==
  CASE directional < MinSamples             -> "insufficient_data"
    [] 100 * bullish >= 76 * directional    -> "extreme_bullish"
    [] 100 * bullish >= 56 * directional    -> "bullish"
    [] 100 * bullish >= 45 * directional    -> "neutral"
    [] 100 * bullish >= 26 * directional    -> "bearish"
    [] OTHER                                -> "extreme_bearish"

SeasonEntry(b) ==
  [bullish |-> b.bullish, bearish |-> b.bearish, doji |-> b.doji,
   class |-> ClassifySeasonality(b.bullish, b.bullish + b.bearish)]

(* The buckets of one specification, a function on those ever visited.     *)
Visit(spec, buckets, k, t) ==
  [x \in DOMAIN buckets \cup {k} |->
     IF x # k THEN buckets[x] ELSE Prune(spec, IF k \in DOMAIN buckets THEN buckets[k] ELSE EmptyBucket, t)]

ReadSeason(spec, buckets, t) ==
  LET k == BucketOf(spec, t)
      own == Visit(spec, buckets, k, t)
      next == (k + 1) % 24
  IN IF spec[1] = "intraday" /\ next \in DOMAIN own THEN Visit(spec, own, next, t) ELSE own

SeasonRow(spec, buckets, t) ==
  LET k == BucketOf(spec, t)
      next == (k + 1) % 24
  IN [own |-> SeasonEntry(buckets[k]),
      next |-> IF spec[1] = "intraday" /\ next \in DOMAIN buckets THEN << SeasonEntry(buckets[next]) >> ELSE <<>>]

CountBar(spec, buckets, bar) ==
  [buckets EXCEPT ![BucketOf(spec, bar.t)] =
     [@ EXCEPT ![Direction(bar)] = @ + 1,
               !.queue = IF spec[2] = 0 THEN @ ELSE Append(@, [t |-> bar.t, dir |-> Direction(bar)])]]
-------------------------------------------------------------------------------
(* Where the close lies: the nearest reference within 0.65 ATR, the first  *)
(* of the list when two are equally near.  References are in halves.       *)
ClassifyOpenLocation(close, refs, atr) ==
  LET Away(k) == Max({2 * close - refs[k][1], refs[k][1] - 2 * close})
      Near == {k \in DOMAIN refs : refs[k] # <<>> /\ 100 * Away(k) * atr[2] <= 130 * atr[1]}
  IN IF atr[1] = 0 \/ Near = {} THEN 0
     ELSE Min({k \in Near : \A m \in Near : Away(k) <= Away(m)})

------------------------------------------------------------------------------
(* The columns that follow prices.                                         *)

ATRLen == 3     \* 14
ERLen == 2      \* 10
RMVPeriod == 2  \* 14
RMVLookback == 3 \* 100
VolumeLen == 3  \* 20
ZLen == 4       \* 50
PivotK == 1     \* 3
MinBars == 4    \* 24
MaxBars == 7    \* 160
MinTouches == 1 \* 3
MinCrossings == 2 \* 4
ChannelLookback == 8 \* 180
ChannelSpan == 4 \* 70
ChannelPivots == 2 \* 10
Persistence == 2 \* bars that a trend must last, set by the caller

Abs(x) == IF x < 0 THEN -x ELSE x
Total(F(_), I) == FoldSet(LAMBDA j, s : s + F(j), 0, I)

TrueRange(T, i) ==
  LET p == T[Max({1, i - 1})].c
      c == IF i = 1 THEN T[1].c ELSE p
  IN Max({T[i].h - T[i].l, Abs(T[i].h - c), Abs(T[i].l - c)})

ComputeATR(T, i, len) ==
  << Total(LAMBDA j : TrueRange(T, j), Max({1, i - len + 1}) .. i), Min({i, len}) >>

ATR(T, i) == ComputeATR(T, i, ATRLen)

(* The ATR's place between the extremes of a full window of complete ATRs. *)
RelativeMeasuredVolatility(T, i) ==
  IF \/ RMVPeriod > Len(T) \/ RMVLookback > Len(T) \/ RMVPeriod - 1 > Len(T) - RMVLookback
     \/ i < RMVPeriod + RMVLookback - 1
  THEN <<>>
  ELSE LET window == {ComputeATR(T, j, RMVPeriod)[1] : j \in i - RMVLookback + 1 .. i}
       IN IF Max(window) = Min(window) THEN <<>>
          ELSE << ComputeATR(T, i, RMVPeriod)[1] - Min(window), Max(window) - Min(window) >>

(* The net move over the path, of closes or of true ranges.                *)
Efficiency(T, i, trueRange) ==
  LET path == IF i <= ERLen THEN 0
              ELSE Total(LAMBDA j : IF trueRange THEN TrueRange(T, j) ELSE Abs(T[j].c - T[j - 1].c), i - ERLen + 1 .. i)
  IN IF path = 0 THEN << 0, 1 >> ELSE << Abs(T[i].c - T[i - ERLen].c), path >>

(* Volume against the bars before; a bar without volume has no row and is  *)
(* in nobody's window.  Z is the numerator and the variance below the root.*)
VolumeStats(T, i) ==
  LET before == SelectSeq([j \in 1 .. i - 1 |-> T[j].v], LAMBDA v : v >= 0)
      sma == LastOf(before, VolumeLen)
      z == LastOf(before, ZLen)
      sum == FoldLeft(+, 0, z)
      squares == FoldLeft(LAMBDA s, v : s + v * v, 0, z)
  IN IF T[i].v < 0 THEN [ratio |-> <<>>, z |-> <<>>, effort |-> <<>>]
     ELSE [ratio |-> IF Average(sma)[1] = 0 THEN <<>> ELSE << T[i].v * Len(sma), Average(sma)[1] >>,
           z |-> IF Len(z) < 2 THEN <<>>
                 ELSE << IF Len(z) * squares = sum * sum THEN 0 ELSE T[i].v * Len(z) - sum,
                         Len(z) * squares - sum * sum >>,
           effort |-> IF Average(sma)[1] = 0 \/ ATR(T, i)[1] = 0 THEN <<>>
                      ELSE << T[i].v * Len(sma), Average(sma)[1],
                              Max({10 * (T[i].h - T[i].l) * ATR(T, i)[2], ATR(T, i)[1]}), ATR(T, i)[1] >>]

(* An exponential average with factor one half, seeded with the first      *)
(* close, in units of 2^-12, and its slope over two bars.                  *)
EMA(T, i) == FoldLeft(LAMBDA e, j : (e + 4096 * T[j].c) \div 2, 4096 * T[1].c, [k \in 1 .. i - 1 |-> k + 1])
Slope(T, i) == IF i <= 2 THEN <<>> ELSE << EMA(T, i) - EMA(T, i - 2) >>
-------------------------------------------------------------------------------
(* Swings: a pivot is confirmed when PivotK bars have followed it.         *)

Above(T, p) == \A j \in p - PivotK .. p + PivotK : j # p => T[j].h < T[p].h
Below(T, p) == \A j \in p - PivotK .. p + PivotK : j # p => T[j].l > T[p].l
CloseAbove(T, p) == \A j \in p - PivotK .. p + PivotK : j # p => T[j].c < T[p].c
CloseBelow(T, p) == \A j \in p - PivotK .. p + PivotK : j # p => T[j].c > T[p].c

Inner(T) == PivotK + 1 .. Len(T) - PivotK
PivotHighs(T) == {p \in Inner(T) : Above(T, p)}
PivotLows(T) == {p \in Inner(T) : Below(T, p)}

(* Mutant: a pivot counts from its own bar on.                             *)
ConfirmedAtOnce(P, first, i) == {p \in P : p >= first /\ p <= i}
Confirmed(P, first, i) == {p \in P : p >= first /\ p + PivotK <= i}

LastSwing(P, i) == LET seen == Confirmed(P, 1, i) IN IF seen = {} THEN <<>> ELSE << Max(seen) >>
-------------------------------------------------------------------------------
(* Ranges: the longest stretch up to the bar that stays within three ATRs. *)

Methods == {"pivot", "zone"}
Upper(T, method, j) == IF method = "zone" THEN Max({T[j].o, T[j].c}) ELSE T[j].h
Lower(T, method, j) == IF method = "zone" THEN Min({T[j].o, T[j].c}) ELSE T[j].l

Band(T, method, s, i) ==
  [s |-> s, i |-> i, hi |-> Max({Upper(T, method, j) : j \in s .. i}),
   lo |-> Min({Lower(T, method, j) : j \in s .. i})]

Stretch(T, method, i, atr) ==
  LET Fits(s) == LET b == Band(T, method, s, i) IN (b.hi - b.lo) * atr[2] <= 3 * atr[1]
  IN Band(T, method, Min({i} \cup {s \in Max({1, i - MaxBars + 1}) .. i : Fits(s)}), i)

DriftOK(T, b) == 2 * Abs(T[b.i].c - T[b.s].c) <= b.hi - b.lo

(* How often the side changes, bars on the middle apart.                   *)
Crossings(sides) ==
  LET off == SelectSeq(sides, LAMBDA x : x # 0)
  IN Cardinality({k \in 2 .. Len(off) : off[k] # off[k - 1]})

Sign(x) == IF x > 0 THEN 1 ELSE IF x < 0 THEN -1 ELSE 0

CrossingsOK(T, b) ==
  Crossings([k \in 1 .. b.i - b.s + 1 |-> Sign(2 * T[b.s + k - 1].c - b.hi - b.lo)]) >= MinCrossings

(* At most fifteen in a hundred bars outside, rounded down.                *)
Contained(n, len) == 100 * n <= 15 * len

QualifiesPivot(T, b, atr) ==
  LET w == b.hi - b.lo
      Near(d) == 2 * d * atr[2] <= atr[1] \/ 100 * d <= 12 * w
      Out(d) == 2 * d * atr[2] > atr[1] /\ 100 * d > 12 * w
  IN /\ w > 0 /\ DriftOK(T, b)
     /\ Cardinality({p \in Confirmed(PivotHighs(T), b.s, b.i) : Near(Abs(T[p].h - b.hi))}) >= MinTouches
     /\ Cardinality({p \in Confirmed(PivotLows(T), b.s, b.i) : Near(Abs(T[p].l - b.lo))}) >= MinTouches
     /\ CrossingsOK(T, b)
     /\ Contained(Cardinality({j \in b.s .. b.i : Out(T[j].h - b.hi) \/ Out(b.lo - T[j].l)}), b.i - b.s + 1)

(* Touches of a zone are separate: a touch next to the last counted one is *)
(* not counted.                                                            *)
SeparateTouches(touching) ==
  FoldLeft(LAMBDA a, j : IF j - a[2] > 1 THEN << a[1] + 1, j >> ELSE a, << 0, -2 >>, touching)[1]

QualifiesZone(T, b, atr) ==
  LET w == b.hi - b.lo
      span == [k \in 1 .. b.i - b.s + 1 |-> b.s + k - 1]
      Near(d) == 2 * d * atr[2] <= atr[1]
  IN /\ w > 0 /\ w * atr[2] >= atr[1] /\ DriftOK(T, b) /\ CrossingsOK(T, b)
     /\ SeparateTouches(SelectSeq(span, LAMBDA j : Near(b.hi - Upper(T, "zone", j)))) >= MinTouches
     /\ SeparateTouches(SelectSeq(span, LAMBDA j : Near(Lower(T, "zone", j) - b.lo))) >= MinTouches
     /\ Contained(Cardinality({j \in b.s .. b.i : ~Near(T[j].h - b.hi) \/ ~Near(b.lo - T[j].l)}), b.i - b.s + 1)

(* The edges of a zone are a quarter of an ATR wider.                      *)
DetectRange(T, method, i, atr) ==
  LET b == Stretch(T, method, i, atr)
      ok == i >= MinBars /\ i - b.s + 1 >= MinBars
            /\ (IF method = "zone" THEN QualifiesZone(T, b, atr) ELSE QualifiesPivot(T, b, atr))
  IN IF ~ok THEN <<>>
     ELSE IF method = "pivot" THEN << 4 * atr[2] * b.hi, 4 * atr[2] * b.lo, 4 * atr[2] >>
     ELSE << 4 * atr[2] * b.hi + atr[1], 4 * atr[2] * b.lo - atr[1], 4 * atr[2] >>
-------------------------------------------------------------------------------
(* Channels: lines through the last confirmed swings of either side.       *)

(* The price of a line at bar j is (num * j + base) / den.                 *)
FitLine(P, Price(_)) ==
  LET n == Cardinality(P)
      sx == Total(LAMBDA p : p, P)
      sy == Total(Price, P)
      sxx == Total(LAMBDA p : p * p, P)
      sxy == Total(LAMBDA p : p * Price(p), P)
      d == n * sxx - sx * sx
      a == n * sxy - sx * sy
  IN [num |-> a * n, base |-> sy * d - a * sx, den |-> n * d]

At(line, j) == line.num * j + line.base

(* Twice the middle less the close, and the width, over both denominators. *)
Width(up, low, j) == At(up, j) * low.den - At(low, j) * up.den
Off(T, up, low, j) == 2 * T[j].c * up.den * low.den - At(up, j) * low.den - At(low, j) * up.den

LastPivots(P) == {p \in P : Cardinality({q \in P : q > p}) < ChannelPivots}

Violates(T, useClose, up, low, j, atr) ==
  LET hi == IF useClose THEN T[j].c ELSE Max({T[j].o, T[j].c})
      lo == IF useClose THEN T[j].c ELSE Min({T[j].o, T[j].c})
  IN \/ 20 * atr[2] * (hi * up.den - At(up, j)) > 7 * atr[1] * up.den
     \/ 20 * atr[2] * (At(low, j) - lo * low.den) > 7 * atr[1] * low.den

ChannelDirection(up, low, span, atr) ==
  LET slope == up.num * low.den + low.num * up.den
      dd == up.den * low.den
      threshold == 3 * atr[1] * dd
      m == 2 * slope * atr[2] * Max({ChannelSpan, span})
  IN IF m > threshold THEN "ascending" ELSE IF m < -threshold THEN "descending" ELSE "flat"

ChannelOf(T, useClose, i, highs, lows, atr) ==
  LET s == Min(highs \cup lows)
      up == FitLine(highs, LAMBDA p : IF useClose THEN T[p].c ELSE T[p].h)
      low == FitLine(lows, LAMBDA p : IF useClose THEN T[p].c ELSE T[p].l)
      dd == up.den * low.den
      width == Width(up, low, s) + Width(up, low, i)
      crossings == Crossings([k \in 1 .. i - s + 1 |->
                     LET off == Off(T, up, low, s + k - 1) IN
                     IF 10 * Abs(off) * atr[2] > 3 * atr[1] * dd THEN Sign(off) ELSE 0])
  IN IF \/ i - s < ChannelSpan
        \/ Width(up, low, s) <= 0 \/ Width(up, low, i) <= 0
        \/ 5 * width * atr[2] < 18 * atr[1] * dd \/ width * atr[2] > 28 * atr[1] * dd
        \/ 2 * Abs(up.num * low.den - low.num * up.den) * atr[2] > atr[1] * dd
        \/ 4 * Cardinality({j \in s .. i : Violates(T, useClose, up, low, j, atr)}) > i - s + 1
        \/ crossings < 1
     THEN <<>>
     ELSE << [up |-> up, low |-> low, start |-> s, end |-> i, crossings |-> crossings,
              direction |-> ChannelDirection(up, low, i - s, atr)] >>

DetectChannel(T, useClose, i, atr) ==
  LET from == Max({1, i - ChannelLookback + 1})
      P(Is(_, _)) == Confirmed({p \in Inner(T) : Is(T, p)}, from, i)
      highs == IF useClose THEN P(CloseAbove) ELSE P(Above)
      lows == IF useClose THEN P(CloseBelow) ELSE P(Below)
  IN IF Cardinality(highs) < 2 \/ Cardinality(lows) < 2 \/ atr[1] = 0 THEN <<>>
     ELSE ChannelOf(T, useClose, i, LastPivots(highs), LastPivots(lows), atr)
-------------------------------------------------------------------------------
(* What is carried from bar to bar.                                        *)

(* The last range or channel stays, with the bars since it was active.     *)
Remember(last, found) ==
  IF found # <<>> THEN << found[1], 0 >>
  ELSE IF last = <<>> THEN <<>> ELSE << last[1], last[2] + 1 >>

NoTrend == [active |-> FALSE, bars |-> 0]

(* A trend begins after bars of an efficiency of two fifths, ends below a  *)
(* fifth, and is suspended by a range.                                     *)
StepTrend(trend, er, ranging) ==
  CASE ranging                              -> NoTrend
    [] trend.active /\ 5 * er[1] < er[2]    -> NoTrend
    [] trend.active                         -> trend
    [] 5 * er[1] >= 2 * er[2] -> [active |-> trend.bars + 1 >= Persistence, bars |-> trend.bars + 1]
    [] OTHER                                -> NoTrend

Regime(T, i, trend, ranging) ==
  CASE ranging       -> "ranging"
    [] ~trend.active -> "choppy"
    [] OTHER -> IF T[i].c >= T[Max({1, i - ERLen})].c THEN "up" ELSE "down"

(* The SAR in units of 2^-12, its factor in halves: start, step one half,  *)
(* at most one.  It is read from the second bar on.                        *)
NoSAR == [on |-> FALSE, trend |-> 0, sar |-> 0, ep |-> 0, af |-> 1, flip |-> 0]
Unit == 4096

SeedSAR(T) ==
  IF T[2].c > T[1].c
  THEN [NoSAR EXCEPT !.on = TRUE, !.trend = 1, !.sar = Unit * T[1].l, !.ep = Unit * T[2].h]
  ELSE [NoSAR EXCEPT !.on = TRUE, !.trend = -1, !.sar = Unit * T[1].h, !.ep = Unit * T[2].l]

StepSAR(T, i, s) ==
  LET moved == s.sar + (s.af * (s.ep - s.sar)) \div 2
      hi == Unit * T[i].h
      lo == Unit * T[i].l
      down == s.trend = 1 /\ moved > lo
      up == s.trend = -1 /\ moved < hi
      turned == CASE down -> [s EXCEPT !.trend = -1, !.sar = Max({hi, s.ep}), !.ep = lo, !.af = 1]
                  [] up   -> [s EXCEPT !.trend = 1, !.sar = Min({lo, s.ep}), !.ep = hi, !.af = 1]
                  [] OTHER -> [s EXCEPT !.sar = moved]
      grows == /\ i > 2 /\ ~down /\ ~up
               /\ IF s.trend = 1 THEN hi > s.ep ELSE lo < s.ep
      grown == IF grows THEN [turned EXCEPT !.ep = IF s.trend = 1 THEN hi ELSE lo, !.af = Min({2, @ + 1})]
               ELSE turned
      recent == Max({1, i - 2}) .. i - 1
      held == IF grown.trend = 1 THEN Min({grown.sar} \cup {Unit * T[j].l : j \in recent})
              ELSE Max({grown.sar} \cup {Unit * T[j].h : j \in recent})
  IN [grown EXCEPT !.sar = held, !.flip = IF i > 2 /\ s.trend # grown.trend THEN grown.trend ELSE 0]

ParabolicSAR(T, i, s) ==
  CASE i = 1 -> NoSAR
    [] i = 2 -> StepSAR(T, 2, SeedSAR(T))
    [] OTHER -> StepSAR(T, i, s)
================================================================================
