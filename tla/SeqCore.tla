-------------------------------- MODULE SeqCore --------------------------------
(***************************************************************************)
(* The sequential-setup core (engine/seqcore/core.go) and its checkpoint   *)
(* (engine/seqcore/checkpoint.go): one ordered stream of closed bars, for  *)
(* each side a Setup run and a Countdown, the events of a bar, the holes   *)
(* of the stream (a data gap that resets, or a declared closure that does  *)
(* not), the terminal ordering error, and the restore of a checkpoint.     *)
(*                                                                         *)
(* The code freezes its counts (setup 9, lookback 4, countdown 13 with     *)
(* references at 5 and 8, recycling at 22); here they are constants, so    *)
(* that a small instance meets every case.  A price is an integer, an open *)
(* time counts in units of which Timeframe make a bar, an episode is named *)
(* by the open time of the bar that completed its Setup (its side is the   *)
(* side that holds it), and a nil pointer is None.  The sequence number of *)
(* events is left out; no rule here reads the open price of a candle.      *)
(***************************************************************************)
EXTENDS Integers, Sequences, FiniteSets

CONSTANTS
  Candles,        \* the bars the stream may carry: [O, H, L, C]
  Offsets,        \* open time of a bar, from the open time of the last one
  Timeframe,      \* identity.TimeframeMS
  MaxIndex,       \* the last bar index; math.MaxInt64-1 in the code
  Lookback,       \* prior bars kept, and the bar a close is compared with
  SetupCount,     \* the run that completes a Setup
  CountdownCount, \* the count that completes a Countdown (bar 13)
  FirstRef,       \* the count whose bar is recorded as bar 5
  DeferRef,       \* the count whose bar and close are recorded as bar 8
  RecycleAt       \* the run that recycles a Countdown

ASSUME CandlesAssumption ==
  \A b \in Candles : /\ b \in [O : Nat, H : Nat, L : Nat, C : Nat]
                      /\ {b.O, b.C} \subseteq b.L .. b.H

ASSUME CountsAssumption ==
  /\ Offsets \subseteq Int /\ Timeframe \in Nat \ {0} /\ MaxIndex \in Nat
  /\ Lookback \in Nat /\ Lookback >= 3 /\ SetupCount \in Nat \ {0}
  /\ 0 < FirstRef /\ FirstRef < DeferRef /\ DeferRef < CountdownCount
  /\ FirstRef \in Nat /\ DeferRef \in Nat /\ CountdownCount \in Nat
  /\ RecycleAt \in Nat /\ SetupCount < RecycleAt

VARIABLES
  lastIndex,           \* index of the last bar, -1 before the first
  lastOpen,            \* its open time, None before the first
  diagnosticsEmitted,  \* initDiagnosticsEmitted
  history,             \* up to Lookback bars of the current segment
  previousComparison,
  sides,               \* Setup and Countdown of each side
  terminal,            \* an ordering error has stopped this instance
  events               \* the events of the last call

vars == << lastIndex, lastOpen, diagnosticsEmitted, history, previousComparison,
           sides, terminal, events >>

None == -1
Side == {"buy", "sell"}
Other(side) == IF side = "buy" THEN "sell" ELSE "buy"
Direction(side) == IF side = "buy" THEN -1 ELSE 1

NoSetup == [episode |-> None, index |-> None, ref6 |-> 0, ref7 |-> 0,
            perfected |-> FALSE, perfectedAt |-> None]
Idle == [state |-> "idle", count |-> 0, episode |-> None, bar5 |-> None,
         bar8 |-> None, bar13 |-> None, bar8Close |-> None]
Fresh == [run |-> 0, setup |-> NoSetup, countdown |-> Idle]

Unfinished(c) == c.state \in {"active", "deferred"}

Event(type, side, episode) == [type |-> type, side |-> side, episode |-> episode]

-------------------------------------------------------------------------------
(* The calls of one step, on the record of one side.                       *)

Extreme(b, side) == IF side = "buy" THEN b.L ELSE b.H
Perfects(v, setup, side) ==
  IF side = "buy" THEN v < setup.ref6 /\ v < setup.ref7
  ELSE v > setup.ref6 /\ v > setup.ref7
MarkPerfected(setup, index) == [setup EXCEPT !.perfected = TRUE, !.perfectedAt = index]

(* data_gap: everything is dropped but a completed Countdown.  Its one     *)
(* event lists the dropped episodes; here it is one event per episode and  *)
(* one for the gap itself.                                                 *)
DropGap(s) ==
  [s EXCEPT !.run = 0, !.setup = NoSetup,
            !.countdown = IF Unfinished(@) THEN Idle ELSE @]
GapEvents(s, side) ==
  { Event("data_gap", side, e) : e \in
      (IF s.setup # NoSetup /\ ~s.setup.perfected THEN {s.setup.episode} ELSE {})
      \cup (IF Unfinished(s.countdown) THEN {s.countdown.episode} ELSE {}) }

Comparison(b, hist) ==
  IF Len(hist) < Lookback THEN 0
  ELSE IF b.C < hist[1].C THEN -1 ELSE IF b.C > hist[1].C THEN 1 ELSE 0

(* The Setup run: started by a price flip only, ended by any other bar.    *)
NextRun(run, direction, comparison, previous) ==
  IF comparison # direction THEN 0
  ELSE IF run > 0 THEN run + 1
  ELSE IF previous = -direction THEN 1 ELSE 0

(* A run of SetupCount completes a Setup.  It is perfected by bar 8 or 9,  *)
(* or later by any bar beyond bars 6 and 7.                                *)
SetupPhase(s, side, b, hist, run, index) ==
  LET n     == Len(hist)
      blank == [episode |-> b.open, index |-> index, perfected |-> FALSE,
                ref6 |-> Extreme(hist[n-2], side), ref7 |-> Extreme(hist[n-1], side),
                perfectedAt |-> None]
      now   == Perfects(Extreme(hist[n], side), blank, side)
               \/ Perfects(Extreme(b, side), blank, side)
      late  == /\ s.setup # NoSetup /\ ~s.setup.perfected
               /\ Perfects(Extreme(b, side), s.setup, side)
  IN IF run = SetupCount
     THEN [s EXCEPT !.run = run,
             !.setup = IF now THEN MarkPerfected(blank, index) ELSE blank,
             !.countdown = IF Unfinished(@) THEN @
                           ELSE [Idle EXCEPT !.state = "active", !.episode = b.open]]
     ELSE [s EXCEPT !.run = run,
             !.setup = IF late THEN MarkPerfected(@, index) ELSE @]

SetupEvents(s, t, side) ==
  IF t.run = SetupCount
  THEN { Event("setup_complete", side, t.setup.episode) }
       \cup (IF t.setup.perfected
             THEN {Event("perfection", side, t.setup.episode)} ELSE {})
       \cup (IF Unfinished(s.countdown) THEN {}
             ELSE {Event("countdown_start", side, t.setup.episode)})
  ELSE IF t.setup # s.setup
       THEN {Event("delayed_perfection", side, t.setup.episode)} ELSE {}

(* The completion of one side cancels the unfinished Countdown of the      *)
(* other.                                                                  *)
Cancels(t, side) == t[Other(side)].run = SetupCount /\ Unfinished(t[side].countdown)

(* The Countdown: a close at or beyond the extreme of two bars before. The *)
(* last count also needs the bar to reach the close of bar 8.              *)
QualifiesOneBack(c, side, b, hist) ==
  /\ Unfinished(c) /\ Len(hist) >= 2
  /\ LET prior == hist[Len(hist)]
     IN IF side = "buy" THEN b.C <= prior.L ELSE b.C >= prior.H
Qualifies(c, side, b, hist) ==
  /\ Unfinished(c) /\ Len(hist) >= 2
  /\ LET prior == hist[Len(hist)-1]
     IN IF side = "buy" THEN b.C <= prior.L ELSE b.C >= prior.H
TerminalOK(c, side, b) ==
  \/ c.count # CountdownCount - 1
  \/ IF side = "buy" THEN b.L <= c.bar8Close ELSE b.H >= c.bar8Close

Counted(c, b, index) ==
  LET n == c.count + 1
  IN [c EXCEPT !.count = n,
        !.bar5  = IF n = FirstRef THEN index ELSE @,
        !.bar8  = IF n = DeferRef THEN index ELSE @,
        !.bar8Close = IF n = DeferRef THEN b.C ELSE @,
        !.bar13 = IF n = CountdownCount THEN index ELSE @,
        !.state = IF n = CountdownCount THEN "completed" ELSE @]

AdvanceCountdown(c, side, b, hist, index) ==
  IF ~Qualifies(c, side, b, hist) THEN c
  ELSE IF TerminalOK(c, side, b) THEN Counted(c, b, index)
  ELSE [c EXCEPT !.state = "deferred"]
CountdownEvents(c, d, side, b, hist) ==
  IF ~Qualifies(c, side, b, hist) THEN {}
  ELSE IF d.count = c.count THEN {Event("countdown_defer", side, c.episode)}
  ELSE {Event("countdown_count", side, c.episode)}
       \cup (IF d.state = "completed"
             THEN {Event("countdown_complete", side, c.episode)} ELSE {})

Recycles(s, c) == s.run = RecycleAt /\ c.state # "idle"

(* The events of the two phases: s0 before the Setups, s1 after them, s2    *)
(* after the cancellations, c3 the Countdowns at the end.                  *)
BarEvents(s0, s1, s2, c3, b, hist) ==
  (UNION {SetupEvents(s0[x], s1[x], x) : x \in Side})
  \cup {Event("countdown_cancel", x, s1[x].countdown.episode) :
          x \in {y \in Side : Cancels(s1, y)}}
  \cup (UNION {CountdownEvents(s2[x].countdown, c3[x], x, b, hist) : x \in Side})
  \cup {Event("countdown_recycle", x, c3[x].episode) :
          x \in {y \in Side : Recycles(s2[y], c3[y])}}
-------------------------------------------------------------------------------
(* step: a gap check, the Setup phase of both sides, the cancellations,    *)
(* the Countdown phase of both sides, and the history.                     *)
IsGapUndeclared(open, declared) == lastOpen # None /\ open > lastOpen + Timeframe
IsGap(open, declared) == ~declared /\ lastOpen # None /\ open > lastOpen + Timeframe

(* The bars kept after a step, oldest first.                               *)
KeepHistory(hist, b) ==
  IF Len(hist) = Lookback THEN Append(Tail(hist), b) ELSE Append(hist, b)

Advance(candle, open, declared) ==
  LET b     == [H |-> candle.H, L |-> candle.L, C |-> candle.C, open |-> open]
      gap   == IsGap(open, declared)
      index == lastIndex + 1
      hist  == IF gap THEN << >> ELSE history
      prev  == IF gap THEN 0 ELSE previousComparison
      cmp   == Comparison(b, hist)
      s0    == IF gap THEN [x \in Side |-> DropGap(sides[x])] ELSE sides
      s1    == [x \in Side |->
                  SetupPhase(s0[x], x, b, hist,
                             NextRun(s0[x].run, Direction(x), cmp, prev), index)]
      s2    == [x \in Side |->
                  IF Cancels(s1, x) THEN [s1[x] EXCEPT !.countdown = Idle] ELSE s1[x]]
      c3    == [x \in Side |-> AdvanceCountdown(s2[x].countdown, x, b, hist, index)]
  IN /\ lastIndex' = index
     /\ lastOpen' = open
     /\ diagnosticsEmitted' = TRUE
     /\ history' = KeepHistory(hist, b)
     /\ previousComparison' = cmp
     /\ sides' = [x \in Side |->
          [s2[x] EXCEPT !.countdown = IF Recycles(s2[x], c3[x]) THEN Idle ELSE c3[x]]]
     /\ terminal' = FALSE
     /\ events' =
          (IF gap THEN {Event("data_gap", "both", None)}
                       \cup (UNION {GapEvents(sides[x], x) : x \in Side}) ELSE {})
          \cup (IF diagnosticsEmitted THEN {} ELSE {Event("diagnostic", "both", None)})
          \cup BarEvents(s0, s1, s2, c3, b, hist)

FirstOpen == 0
NextOpens == IF lastOpen = None THEN {FirstOpen} ELSE {lastOpen + d : d \in Offsets}

(* Step: an accepted bar.                                                  *)
Step(candle, open) ==
  /\ ~terminal
  /\ lastOpen # None => open > lastOpen
  /\ lastIndex < MaxIndex
  /\ Advance(candle, open, FALSE)

(* StepAfterClosure: refused where there is no hole to explain.            *)
StepAfterClosure(candle, open) ==
  /\ ~terminal
  /\ lastOpen # None /\ open > lastOpen + Timeframe
  /\ lastIndex < MaxIndex
  /\ Advance(candle, open, TRUE)

(* A duplicate or out-of-order bar stops the instance.                     *)
RefuseOrder(open) ==
  /\ ~terminal
  /\ lastOpen # None /\ open <= lastOpen
  /\ terminal' = TRUE
  /\ events' = {}
  /\ UNCHANGED << lastIndex, lastOpen, diagnosticsEmitted, history,
                  previousComparison, sides >>
-------------------------------------------------------------------------------
(* Restore of the checkpoint of the current state (validateCheckpoint).    *)

ValidHeader ==
  IF lastOpen = None
  THEN lastIndex = -1 /\ ~diagnosticsEmitted /\ history = << >> /\ previousComparison = 0
  ELSE /\ lastIndex >= 0 /\ diagnosticsEmitted
       /\ Len(history) \in 1 .. lastIndex + 1
       /\ history[Len(history)].open = lastOpen
ValidHistory ==
  /\ Len(history) <= Lookback
  /\ \A n \in 2 .. Len(history) :
       /\ history[n].open > history[n-1].open
       /\ history[n].open <= history[n-1].open + Timeframe
  /\ Len(history) < Lookback => previousComparison = 0
ValidSetup(s, side) ==
  /\ s.run \in 0 .. lastIndex + 1
  /\ s.run > 0 => Len(history) = Lookback /\ previousComparison = Direction(side)
  /\ s.setup # NoSetup =>
       /\ lastOpen # None /\ s.setup.index \in 0 .. lastIndex
       /\ s.setup.episode <= lastOpen
       /\ IF s.setup.perfected THEN s.setup.perfectedAt \in s.setup.index .. lastIndex
          ELSE s.setup.perfectedAt = None
ValidCount(c) ==
  CASE c.state = "idle" -> c.count = 0 /\ c.episode = None
    [] c.state = "active" -> c.count \in 0 .. CountdownCount - 1
    [] c.state = "deferred" -> c.count = CountdownCount - 1
    [] c.state = "completed" -> c.count = CountdownCount
ValidEpisode(s) ==
  s.countdown.state # "idle" =>
    /\ s.countdown.episode # None /\ lastOpen # None
    /\ Unfinished(s.countdown) => s.setup # NoSetup
    /\ s.countdown.episode <= lastOpen
    /\ s.setup # NoSetup => s.countdown.episode <= s.setup.episode
ValidReferences(c) ==
  /\ c.count >= FirstRef <=> c.bar5 # None
  /\ c.count >= DeferRef <=> c.bar8 # None
  /\ c.count >= CountdownCount <=> c.bar13 # None
  /\ c.bar8 # None => c.bar5 < c.bar8
  /\ c.bar13 # None => c.bar8 < c.bar13
  /\ {c.bar5, c.bar8, c.bar13} \subseteq -1 .. lastIndex
  /\ c.count >= DeferRef <=> c.bar8Close # None

ValidSides ==
  /\ ~(Unfinished(sides["buy"].countdown) /\ Unfinished(sides["sell"].countdown))
  /\ \A side \in Side : LET s == sides[side]
                        IN ValidSetup(s, side) /\ ValidCount(s.countdown)
                           /\ ValidEpisode(s) /\ ValidReferences(s.countdown)

ValidCheckpoint == ValidHeader /\ ValidHistory /\ ValidSides

(* A caller that met the ordering error restores the checkpoint it took    *)
(* after the last accepted bar, and goes on with a later bar.              *)
Restore ==
  /\ terminal
  /\ ValidCheckpoint
  /\ terminal' = FALSE
  /\ events' = {}
  /\ UNCHANGED << lastIndex, lastOpen, diagnosticsEmitted, history,
                  previousComparison, sides >>

(* At the last index every later bar is refused and nothing changes.       *)
RefuseExhausted == lastIndex = MaxIndex /\ ~terminal /\ UNCHANGED vars

Init ==
  /\ lastIndex = -1
  /\ lastOpen = None
  /\ diagnosticsEmitted = FALSE
  /\ history = << >>
  /\ previousComparison = 0
  /\ sides = [side \in Side |-> Fresh]
  /\ terminal = FALSE
  /\ events = {}

-------------------------------------------------------------------------------
(* Properties.                                                             *)

(* "A checkpoint taken before the error remains usable by Restore": the    *)
(* restore's cross-checks of the counters, references, episodes, times and *)
(* history never refuse the state the engine itself saved.                 *)
CheckpointUsable == ValidCheckpoint

===============================================================================
