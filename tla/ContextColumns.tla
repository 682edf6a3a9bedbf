----------------------------- MODULE ContextColumns -----------------------------
(***************************************************************************)
(* The context of a run (contextcols.Build and the projections of          *)
(* engine/runner.go and engine/source_projection.go): one pass over the    *)
(* whole chart series writes a row for every bar, from trackers carried    *)
(* from bar to bar and from arrays computed over the whole series before.  *)
(* Signals at a bar read its row as what was known at its close.           *)
(*                                                                         *)
(* A tape is a chart series, a higher timeframe and the opens of a source  *)
(* series.  How wide the bars of a series are is inferred from the series. *)
(***************************************************************************)
EXTENDS Columns, HigherSeries

CONSTANT Tapes

VARIABLES
  tape,   \* the series of the run
  track,  \* the trackers of Build's loop, by name
  row,    \* the row written last
  at      \* its bar, 0 before the first

context == << tape, track, row, at >>

BiasBars == 2  \* 24

NewTrack ==
  [day |-> -1, high |-> 0, low |-> 0, open |-> 0, num |-> 0, den |-> 0,
   session |-> [n \in Names |-> 0], overnight |-> 0,
   stats |-> [p \in Periods |-> NoRange],
   bias |-> [p \in {"session", "window"} \X Names |-> NoBias],
   season |-> [s \in Specs |-> <<>>], read |-> [s \in Specs |-> <<>>],
   range |-> [m \in Methods |-> <<>>], channel |-> [c \in BOOLEAN |-> <<>>],
   trend |-> NoTrend, sar |-> NoSAR]

(* A bar without volume counts for nothing in the day's weighted price.    *)
StepDay(k, bar) ==
  LET new == UTCDayKey(bar.t) # k.day
      v == IF bar.v >= 0 THEN bar.v ELSE 0
  IN [k EXCEPT !.day = UTCDayKey(bar.t),
               !.high = IF new THEN bar.h ELSE Max({@, bar.h}),
               !.low = IF new THEN bar.l ELSE Min({@, bar.l}),
               !.open = IF new THEN bar.o ELSE @,
               !.num = (IF new THEN 0 ELSE @) + bar.c * v,
               !.den = (IF new THEN 0 ELSE @) + v]

(* The buckets as they are when the row of the bar is read.                *)
Read(k, bar) ==
  [k EXCEPT !.read = [s \in Specs |-> ReadSeason(s, k.season[s], bar.t)]]

Carry(T, i, k, atr, found) ==
  LET bar == T[i]
      d == Read(StepDay(k, bar), bar)
  IN [d EXCEPT
       !.session = [n \in Names |-> Advance(SessionRuns(T, n), @[n], bar.t)],
       !.overnight = Advance(OvernightRuns(T), @, bar.t),
       !.stats = [p \in Periods |-> StepRange(@[p], bar, PeriodOf(p, bar.t))],
       !.bias = [p \in DOMAIN @ |-> StepBias(@[p], bar, atr, PeriodOf(p, bar.t) = 0)],
       !.season = [s \in Specs |-> CountBar(s, d.read[s], bar)],
       !.range = [m \in Methods |-> Remember(@[m], found.range[m])],
       !.channel = [c \in BOOLEAN |-> Remember(@[c], found.channel[c])],
       !.trend = StepTrend(@, Efficiency(T, i, FALSE), found.range["pivot"] # <<>>),
       !.sar = ParabolicSAR(T, i, @)]

FoundAt(T, i, atr) ==
  [range |-> [m \in Methods |-> DetectRange(T, m, i, atr)],
   channel |-> [c \in BOOLEAN |-> DetectChannel(T, c, i, atr)]]

(* The loop body for bar i: what it carries on.                            *)
Build(T, i, k) == Carry(T, i, k, ATR(T, i), FoundAt(T, i, ATR(T, i)))
-------------------------------------------------------------------------------
(* Rows of other series, seen from the close of a chart bar.               *)

HigherLegacyBias(H, chartWidth, open) ==
  LET width == SpacingOf(H)
      decision == open + chartWidth
      p == LatestCompleted(H, width, decision)
      atr == ComputeATR(H, p, ATRLen)
      delta == 2 * (H[p].c - H[p - BiasBars].c) * atr[2]
  IN IF chartWidth = 0 \/ width = 0 \/ p <= BiasBars THEN <<>>
     ELSE IF StaleBar(H, p, width, decision) THEN <<>>
     ELSE << IF delta > atr[1] THEN 1 ELSE IF delta < -atr[1] THEN -1 ELSE 0 >>

(* The trend for the entry retest looks at the decision alone, and its     *)
(* bars have the widths of their timeframes.                               *)
RetestSource == 8   \* 4 hours
RetestDaily == 12   \* 24 hours
RetestTrend(H, open) ==
  LET decision == open + RetestSource
      p == LatestCompleted(H, RetestDaily, decision)
      close == H[p].t + RetestDaily
  IN IF p = 0 THEN <<>>
     ELSE IF decision - close >= RetestDaily /\ ~SpansWeekendClosure(close, decision) THEN <<>>
     ELSE << TrendOfBar(H[p]) >>

SourceIndex(S, chartWidth, open) ==
  LET width == SpacingOf(S)
      decision == open + chartWidth
      p == LatestCompleted(S, width, decision)
      close == S[p].t + width
  IN IF chartWidth = 0 \/ width = 0 \/ p = 0 THEN 0
     ELSE IF decision - close >= width /\ HoleEnd(S, p, decision) - close >= width THEN 0 ELSE p

(* A source bar's setup is dispatched at the first chart bar that closes   *)
(* after the source bar; never at a bar before the chart's first open.     *)
ScheduledAt(T, S, p) ==
  LET close == S[p].t + SpacingOf(S)
      after == {j \in DOMAIN T : T[j].t + SpacingOf(T) > close}
  IN IF SpacingOf(T) = 0 \/ SpacingOf(S) = 0 \/ close < T[1].t \/ after = {} THEN 0 ELSE Min(after)
-------------------------------------------------------------------------------
(* The row of bar i, from the series and the trackers after it.            *)

Twice(run, f) == IF run = <<>> THEN <<>> ELSE << 2 * run[1][f] >>

CalendarRow(T, i, k, atr) ==
  LET d == UTCDayKey(T[i].t)
      prior == DayBefore(T, d)
      before == DayBeforeThat(T, d)
      S(n) == AtPointer(SessionRuns(T, n), k.session[n])
      night == AtPointer(OvernightRuns(T), k.overnight)
  IN [prior |-> prior,
      camarilla |-> IF prior = <<>> THEN <<>> ELSE Camarilla(prior[1]),
      type |-> IF prior = <<>> \/ before = <<>> THEN "none" ELSE ClassifyPriorDayType(prior[1], before[1]),
      session |-> [n \in Names |-> S(n)], overnight |-> night,
      phase |-> SessionPhaseAtHour(LocalHour(T[i].t)),
      inside |-> {n \in Names : InSession(n, T[i].t)},
      progress |-> << k.high - k.low, PriorDayRangeAverage(T, d) >>,
      vwap |-> IF k.den = 0 THEN <<>> ELSE << k.num, k.den >>,
      location |-> ClassifyOpenLocation(T[i].c,
                     << Twice(prior, "h"), Twice(prior, "l"), Twice(prior, "o"), Twice(prior, "c"),
                        << 2 * k.open >>, << k.high + k.low >>,
                        Twice(S("asia"), "h"), Twice(S("asia"), "l"),
                        Twice(S("london"), "h"), Twice(S("london"), "l"),
                        Twice(night, "h"), Twice(night, "l"), << 2 * k.open >> >>, atr),
      stats |-> [p \in Periods |-> RangeEntry(k.stats[p])],
      bias |-> [p \in DOMAIN k.bias |-> k.bias[p].last],
      season |-> [s \in Specs |-> SeasonRow(s, k.read[s], T[i].t)]]

PriceRow(T, i, k, atr) ==
  [atr |-> atr, rmv |-> RelativeMeasuredVolatility(T, i),
   er |-> << Efficiency(T, i, FALSE), Efficiency(T, i, TRUE) >>,
   volume |-> VolumeStats(T, i), ema |-> EMA(T, i), slope |-> Slope(T, i),
   swing |-> << LastSwing(PivotHighs(T), i), LastSwing(PivotLows(T), i) >>,
   range |-> k.range, channel |-> k.channel,
   regime |-> Regime(T, i, k.trend, k.range["pivot"] # <<>> /\ k.range["pivot"][2] = 0),
   sar |-> k.sar]

ForeignRow(S, i) ==
  LET width == SpacingOf(S.chart)
      open == S.chart[i].t
  IN [higher |-> HigherTrend(S.higher, width, open),
      bias |-> HigherLegacyBias(S.higher, width, open),
      source |-> SourceIndex(S.source, width, open),
      due |-> {p \in DOMAIN S.source : ScheduledAt(S.chart, S.source, p) = i},
      retest |-> [p \in CompletedBars(S.source, RetestSource, open) |-> RetestTrend(S.higher, S.source[p].t)]]

Row(S, i, k) ==
  [calendar |-> CalendarRow(S.chart, i, k, ATR(S.chart, i)),
   price |-> PriceRow(S.chart, i, k, ATR(S.chart, i)),
   foreign |-> ForeignRow(S, i)]
-------------------------------------------------------------------------------
ContextInit ==
  /\ tape \in Tapes
  /\ track = NewTrack /\ row = <<>> /\ at = 0

BuildRow ==
  /\ at < Len(tape.chart)
  /\ at' = at + 1
  /\ track' = Build(tape.chart, at + 1, track)
  /\ row' = Row(tape, at + 1, track')
  /\ UNCHANGED tape
-------------------------------------------------------------------------------
(* Properties.                                                             *)

(* What is known at the close of bar i: the chart up to it, and the bars   *)
(* of the other series that are open by then.                              *)
Known(S, i) ==
  LET Opened(B) == SelectSeq(B, LAMBDA b : b.t <= S.chart[i].t + SpacingOf(S.chart))
  IN [chart |-> SubSeq(S.chart, 1, i), higher |-> Opened(S.higher), source |-> Opened(S.source)]

(* No later bar changes a width: what is inferred so far is what is        *)
(* inferred of the whole series, as soon as two adjacent bars are known.   *)
Settled(S, i) == \A f \in DOMAIN S : SpacingOf(Known(S, i)[f]) = SpacingOf(S[f])

AfterHole(S, i) ==
  LET width == SpacingOf(S.higher)
      decision == S.chart[i].t + SpacingOf(S.chart)
      p == LatestCompleted(S.higher, width, decision)
  IN p > 0 /\ InHole(S.higher, p, width, decision)

(* Nothing that a signal reads at a bar depends on a later bar: the row    *)
(* that the pass over the whole series writes is the row that a pass over  *)
(* what is known at the bar's close writes.  What is read of other series  *)
(* depends besides on the inferred widths, so it is compared where these   *)
(* are settled; and the trend and bias of the higher timeframe not in a    *)
(* hole of that series (see HigherCausal).                                 *)
Causal(now, settled, hole) ==
  LET there == Row(now, at + 1, track') IN
  /\ track' = Build(now.chart, at + 1, track)
  /\ row'.calendar = there.calendar /\ row'.price = there.price
  /\ row'.foreign.retest = there.foreign.retest
  /\ settled => /\ row'.foreign.source = there.foreign.source
                /\ row'.foreign.due = there.foreign.due
                /\ hole \/ row'.foreign.higher = there.foreign.higher
                /\ hole \/ row'.foreign.bias = there.foreign.bias

ColumnsCausal ==
  [][at' = at + 1 => Causal(Known(tape, at + 1), Settled(tape, at + 1), AfterHole(tape, at + 1))]_context

(* The trend and the bias of the higher timeframe in every case.           *)
HigherCausal ==
  [][at' = at + 1 /\ Settled(tape, at + 1) =>
       LET there == Row(Known(tape, at + 1), at + 1, track').foreign
       IN row'.foreign.higher = there.higher /\ row'.foreign.bias = there.bias]_context

(* Definitions that look back over the bars 1 .. i.                        *)
Joins(T, p, j) == j > 1 /\ PeriodOf(p, T[j].t) = PeriodOf(p, T[j - 1].t)
Starts(T, p, i) == {j \in 1 .. i : PeriodOf(p, T[j].t) # -1 /\ ~Joins(T, p, j)}
RunFrom(T, p, s, i) == {e \in s .. i : \A m \in s + 1 .. e : Joins(T, p, m)}
Extent(T, p, s, i) == Highest(T, RunFrom(T, p, s, i)) - Lowest(T, RunFrom(T, p, s, i))

RangeSoFar(T, p, i) ==
  LET starts == Starts(T, p, i)
      s == Max(starts)
      run == RunFrom(T, p, s, i)
      before == {b \in starts : b < s /\ Cardinality({x \in starts : b < x /\ x < s}) < StatsLookback}
  IN IF starts = {} THEN <<>>
     ELSE << [hi |-> Highest(T, run), lo |-> Lowest(T, run),
              avg |-> << Total(LAMBDA b : Extent(T, p, b, i), before), Cardinality(before) >>,
              state |-> IF i \in run THEN "live" ELSE "complete"] >>

BiasSoFar(T, p, i) ==
  LET starts == Starts(T, p, i)
      s == Max(starts)
      e == Max(RunFrom(T, p, s, i))
      atr == ATR(T, e)
      V(j) == Max({1, T[j].v})
      PV(x) == Total(LAMBDA j : T[j].c * V(j), s .. x)
      Vol(x) == Total(V, s .. x)
      body == Total(LAMBDA j : T[j].c - T[j].o, s .. e)
      score == Sided((T[e].c - T[s].o) * atr[2], atr[1], 25) + Sided(body * atr[2], atr[1], 20)
               + (IF e = s THEN 0
                  ELSE Sided((PV(e) * Vol(e - 1) - PV(e - 1) * Vol(e)) * atr[2], Vol(e) * Vol(e - 1) * atr[1], 2))
  IN IF starts = {} THEN <<>>
     ELSE << [score |-> score, state |-> IF e = i THEN "live" ELSE "complete",
              mode |-> BiasMode(score, T[e].c - T[s].o, body, atr)] >>

SeasonBefore(T, spec, k, i) ==
  LET seen == {j \in 1 .. i - 1 : BucketOf(spec, T[j].t) = k}
      counted == {j \in seen : spec[2] = 0 \/ T[i].t - T[j].t <= 24 * spec[2]}
      Of(dir) == Cardinality({j \in counted : Direction(T[j]) = dir})
  IN IF seen = {} THEN <<>>
     ELSE << SeasonEntry([bullish |-> Of("bullish"), bearish |-> Of("bearish"), doji |-> Of("doji")]) >>

LastCompleted(T, i, first, last) ==
  LET Bars(d) == {j \in 1 .. i : T[j].t >= 24 * d + first /\ T[j].t < 24 * d + last}
      days == {d \in Days(T) : Bars(d) # {} /\ 24 * d + last <= T[i].t}
  IN IF days = {} THEN <<>> ELSE << Candle(T, Bars(Max(days))) >>

LastFound(Found(_), i) ==
  LET marks == {j \in 1 .. i : Found(j) # <<>>}
  IN IF marks = {} THEN <<>> ELSE << Found(Max(marks))[1], i - Max(marks) >>

Today(T, i) == {j \in 1 .. i : UTCDayKey(T[j].t) = UTCDayKey(T[i].t) /\ T[j].v >= 0}

(* What the trackers accumulate is what one finds by looking back: the     *)
(* range and bias of each period so far, with the average of the periods   *)
(* completed before it began; the observations within the look-back,       *)
(* without the current bar; the last completed session and night, the last *)
(* range and channel with its age; the weighted price of the day.          *)
TrackersDefined ==
  at > 0 =>
    LET T == tape.chart
        c == row.calendar
    IN /\ \A p \in Periods : c.stats[p] = RangeSoFar(T, p, at)
       /\ \A p \in DOMAIN c.bias : c.bias[p] = BiasSoFar(T, p, at)
       /\ \A s \in Specs :
            LET k == BucketOf(s, T[at].t) IN
            /\ c.season[s].own =
                 (IF SeasonBefore(T, s, k, at) = <<>> THEN SeasonEntry(EmptyBucket)
                  ELSE SeasonBefore(T, s, k, at)[1])
            /\ s[1] = "intraday" => c.season[s].next = SeasonBefore(T, s, (k + 1) % 24, at)
       /\ \A n \in Names : c.session[n] = LastCompleted(T, at, Opens[n], Closes[n])
       /\ c.overnight = LastCompleted(T, at, 20, 32)
       /\ \A m \in Methods :
            row.price.range[m] = LastFound(LAMBDA j : DetectRange(T, m, j, ATR(T, j)), at)
       /\ \A x \in BOOLEAN :
            row.price.channel[x] = LastFound(LAMBDA j : DetectChannel(T, x, j, ATR(T, j)), at)
       /\ track.den = Total(LAMBDA j : T[j].v, Today(T, at))
       /\ track.num = Total(LAMBDA j : T[j].c * T[j].v, Today(T, at))
===============================================================================
