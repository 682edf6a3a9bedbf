------------------------------- MODULE MCLoops -------------------------------
(***************************************************************************)
(* The engine's runs outside the broker.  They share no state, so a        *)
(* behaviour is of one of the two:                                         *)
(*  - bars: one run for each bar loop, and several where its parameters    *)
(*    exclude each other.  A slot of a series bounds what its bar may be:  *)
(*    the gap since the bar before, and its candle;                        *)
(*  - quotes: a frozen level at 20 and quotes around it, both directions.  *)
(***************************************************************************)
EXTENDS Loops, FrozenLevel, TLC

Bar(o, h, l, c) == [O |-> o, H |-> h, L |-> l, C |-> c]

Candles ==
  <<Bar(20, 22, 19, 21), Bar(21, 23, 15, 16), Bar(24, 27, 22, 26), Bar(16, 17, 13, 14),
    Bar(18, 24, 17, 23), Bar(22, 25, 19, 20), Bar(20, 20, 20, 20), Bar(20, 26, 14, 21),
    Bar(27, 32, 25, 30), Bar(14, 16, 12, 13), Bar(23, 25, 21, 24), Bar(39, 41, 37, 40),
    Bar(30, 40, 29, 35), Bar(16, 18, 15, 17), Bar(27, 28, 15, 16),
    Bar(21, 22, 20, 21)>>

Slot(candles) == [gaps |-> {1}, candles |-> candles]
Gap(gaps, candles) == [gaps |-> gaps, candles |-> candles]

Run(kind, series) ==
  [kind |-> kind, candles |-> Candles, series |-> series, first |-> 0, from |-> 0, slip |-> 0,
   buffer |-> 1, stop |-> 2, targetR |-> 1, atrLength |-> 1, gapAware |-> TRUE, allow |-> {1, -1},
   maxHold |-> 2]

------------------------------------------------------------------------------
Clock ==
  [dayLength |-> 4, offset |-> 0, minSpan |-> 2, rangeStart |-> 0, rangeEnd |-> 2, expire |-> 3,
   close |-> 0, edgeStop |-> FALSE, atrDays |-> 0, minATR |-> 0, priorCandle |-> FALSE,
   cancelOpposite |-> FALSE]
  @@ [Run("clock",
        <<Slot({1, 2}), Slot({1, 7}), Slot({3, 5}), Gap({1, 2}, {4, 1}), Gap({1, 5}, {1}), Slot({1, 2}),
          Slot({2, 3, 8}), Gap({1, 2}, {3, 4, 9})>>) EXCEPT !.first = 4]

ClockRuns ==
  {[Clock EXCEPT !.targetR = 0],
   [Clock EXCEPT !.priorCandle = TRUE, !.cancelOpposite = TRUE, !.edgeStop = TRUE, !.stop = 0,
      !.expire = 0, !.close = 1, !.rangeStart = 1, !.slip = 1],
   [Clock EXCEPT !.first = 2, !.dayLength = 3, !.rangeEnd = 1, !.expire = 2, !.close = 2, !.targetR = 0,
      !.atrDays = 1, !.minATR = 1, !.from = 8,
      !.series = <<Slot({1, 4}), Slot({1}), Slot({1}), Slot({2, 1}), Slot({1}), Gap({1, 2}, {1}), Slot({1}),
                   Gap({1, 2}, {2, 5, 8}), Slot({3, 4}), Slot({1, 4})>>]}

Flush ==
  [minStop |-> 1, maxStop |-> 9, minFlush |-> 6, maxLocation |-> 30]
  @@ [Run("flush",
        <<Slot({1}), Slot({1}), Slot({2}), Slot({8, 5}), Slot({1, 3, 4}), Slot({1, 4, 2}), Slot({1}), Slot({1}),
          Slot({1, 4}), Slot({8, 1}), Slot({1})>>) EXCEPT !.from = 1]

HourRun ==
  [hourCandles |-> 3, runCandles |-> 2, minRun |-> 2, requirePoke |-> FALSE, maxLocation |-> 40]
  @@ [Run("hour",
        <<Slot({5, 6}), Gap({1, 2}, {3, 2}), Slot({6, 5, 1}), Slot({1, 3, 4, 5}), Slot({1, 9, 10, 3}), Slot({1, 6}), Slot({1})>>)
      EXCEPT !.from = 1, !.buffer = 0, !.maxHold = 4]

Weekend ==
  [weekLength |-> 6, weekendBars |-> 2, maxRange |-> 12, maxLocation |-> 20]
  @@ [Run("weekend",
        <<Slot({1, 7}), Slot({2, 3}), Gap({1, 7}, {5, 6}), Slot({1, 11, 3}), Slot({1, 11, 2}), Slot({1})>>)
      EXCEPT !.first = 4, !.from = 5, !.targetR = 3, !.stop = 3]

MovingCross ==
  [fast |-> 1, slow |-> 2]
  @@ [Run("cross",
        <<Slot({1}), Slot({2, 4}), Slot({5, 2}), Slot({3, 4}), Slot({3, 1, 4}), Slot({2, 9}), Slot({1, 4})>>)
      EXCEPT !.targetR = 6, !.stop = 4]

Legacy ==
  [compare |-> 1, setupCount |-> 2, perfection |-> TRUE]
  @@ [Run("legacy",
        <<Slot({1}), Slot({1, 6}), Slot({2, 5}), Slot({4, 3}), Slot({1, 4, 9}), Slot({1, 3})>>)
      EXCEPT !.gapAware = FALSE, !.from = 1]

------------------------------------------------------------------------------
Shock ==
  [signals |-> <<2, 3, 6>>, gap |-> 2, confirm |-> 2, reversal |-> TRUE]
  @@ [Run("shock",
        <<Slot({1}), Slot({1}), Gap({1, 2}, {1, 7}), Gap({1, 3}, {3}), Gap({1, 3}, {1, 3}), Gap({1, 3}, {1, 2, 9}),
          Slot({3, 1}), Slot({1, 4})>>)
      EXCEPT !.from = 1, !.stop = 4, !.targetR = 6]

Scheduled ==
  [dates |-> <<0, 1, 2>>, dayLength |-> 3, entry |-> 1, exit |-> 2, side |-> 1]
  @@ Run("scheduled",
       <<Slot({1}), Gap({1, 2}, {1}), Gap({1, 3}, {1, 2, 4}), Gap({1, 2}, {1}), Gap({1, 2}, {1, 4}), Gap({1, 2}, {1, 2})>>)

Anchor(session, boundary, clock, price) ==
  [session |-> session, boundary |-> boundary, clock |-> clock, price |-> price]

FullDay(day) == [day |-> day, kind |-> "full", open |-> 0, close |-> 3]

Timed ==
  [dayLength |-> 4, sessions |-> <<FullDay(0), FullDay(1), [FullDay(2) EXCEPT !.kind = "closed"], FullDay(3)>>,
   planned |-> {2, 4}, start |-> Anchor("previous", "close", 0, "close"), end |-> Anchor("same", "open", 0, "open"),
   entry |-> 0, exit |-> 1, quoted |-> {[from |-> 0, to |-> 20]}, direction |-> 1]
  @@ Run("timed",
       <<Slot({1}), Slot({1}), Gap({1, 2}, {1, 2, 3}), Gap({2, 1}, {16, 3}), Slot({1}), Slot({2, 3}),
         Gap({6, 5}, {16, 3}), Gap({1, 2}, {1}), Slot({3})>>)

TimedRuns ==
  {Timed,
   [Timed EXCEPT !.sessions[2].kind = "early"],
   [Timed EXCEPT !.allow = {1}, !.direction = -1, !.entry = 1, !.exit = 2,
      !.start = Anchor("same", "open", 0, "open"), !.end = Anchor("same", "clock", 1, "close")]}

Sweep ==
  [dayLength |-> 6, asia |-> [from |-> 0, to |-> 2], london |-> [from |-> 3, to |-> 5], area |-> 2,
   minShare |-> 50, minHistory |-> 1, lookback |-> 2, maxDistance |-> 90, requireOutside |-> FALSE]
  @@ Run("sweep",
       <<Slot({1, 7}), Slot({1}), Gap({1, 2}, {1, 5}), Gap({2, 3}, {8, 3}), Gap({2, 3}, {1, 2}), Slot({1, 7}),
         Gap({2}, {1, 3, 2}), Slot({9, 10, 8})>>)

------------------------------------------------------------------------------
Reversion ==
  [immediate |-> TRUE, source |-> <<>>, lookback |-> 2, requireColor |-> FALSE, cooldown |-> 2,
   trigger |-> 1, offset |-> 1, to |-> 8]
  @@ [Run("reversion",
        <<Slot({1}), Slot({1}), Slot({5, 6, 8}), Slot({1, 9, 10}), Slot({1, 3, 5, 9}), Slot({1, 3, 6, 10})>>)
      EXCEPT !.slip = 1, !.stop = 1]

SourceRow(t, h, l) == [t |-> t, H |-> h, L |-> l]

ReversionRuns ==
  {Reversion,
   [Reversion EXCEPT !.stop = 0, !.trigger = 0],
   [Reversion EXCEPT !.immediate = FALSE, !.requireColor = TRUE, !.slip = 0],
   [Reversion EXCEPT !.immediate = FALSE, !.lookback = 1,
      !.source = <<SourceRow(0, 22, 19), SourceRow(2, 25, 17), SourceRow(4, 22, 19)>>]}

Gold ==
  [pole |-> 2, flag |-> 2, minPole |-> 6, maxFlag |-> 6, near |-> 3, minRisk |-> 2, valid |-> 2, spacing |-> 3,
   levels |-> {[size |-> 2, count |-> 1], [size |-> 4, count |-> 1]}]
  @@ Run("gold",
       <<Slot({1}), Slot({3, 4}), Slot({3, 4}), Slot({11, 14}), Slot({11, 14}), Slot({11, 3, 9, 4}),
         Slot({11, 2, 8, 9}), Slot({11, 12, 13, 4}), Slot({11, 3})>>)

GoldRuns == {Gold, [Gold EXCEPT !.minRisk = 9]}

Adaptive ==
  [sensitivity |-> 1, minFlagBars |-> 1, maxFlagBars |-> 3, recent |-> 6, minPole |-> 6, maxRetrace |-> 5,
   maxWidth |-> 5, validBars |-> 1]
  @@ [Run("adaptive",
        <<Slot({1}), Slot({4, 9}), Slot({3, 2}), Slot({11, 1}), Slot({11, 3, 9, 15}), Slot({11, 1, 12}),
          Slot({11, 13, 4, 8}), Slot({1, 11})>>) EXCEPT !.from = 1]

MCLoopRuns ==
  ClockRuns \cup {Flush, HourRun, Weekend, MovingCross, [MovingCross EXCEPT !.stop = 0], Legacy}
    \cup {Shock, [Shock EXCEPT !.reversal = FALSE, !.targetR = 0], Scheduled, Sweep} \cup TimedRuns
    \cup ReversionRuns \cup GoldRuns \cup {Adaptive}
------------------------------------------------------------------------------
MCOffsets == {-4, 0, 5, 9}
MCStops == {-3}
MCPivots == {2, 3}
MCSides == {1, -1}

VARIABLE feed  \* of this behaviour: "bars" or "quotes"

MCInit ==
  /\ feed \in {"bars", "quotes"}
  /\ IF feed = "bars" THEN Init ELSE Init /\ loop = CHOOSE r \in LoopRuns : r.kind = "legacy"
  /\ IF feed = "quotes" THEN LevelInit ELSE LevelInit /\ side = 1

MCNext ==
  \/ feed = "bars" /\ Next /\ UNCHANGED <<feed, levelVars>>
  \/ feed = "quotes" /\ LevelNext /\ UNCHANGED <<feed, vars>>

MCSpec == MCInit /\ [][MCNext]_<<feed, vars, levelVars>>
==============================================================================
