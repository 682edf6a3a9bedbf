------------------------------ MODULE SeqScheduler ------------------------------
(***************************************************************************)
(* The scheduler of the full sequential policies E1 and E2                 *)
(* (engine/sequential_execution.go): the core's events become              *)
(* opportunities, an opportunity becomes an entry at the next open, and    *)
(* the broker's time exit, bracket and accounting happen around it, in the *)
(* order the code gives them on one bar.                                   *)
(*                                                                         *)
(* Bars are counted from 1.  The code's counts are constants here (warm-up *)
(* 13 bars, response 4, hold 4 and 12, ATR of 14 bars); sizes are whole    *)
(* numbers, rounded down.  The refusals of values that are not finite, and *)
(* what a position's stop and target cannot be in this family (absent, or  *)
(* the target first at the open), are left out.                            *)
(***************************************************************************)
EXTENDS SeqCore, SeqLedger

CONSTANTS
  Warmup,          \* bars before the first opportunity that may be taken
  Response,        \* bars after its Setup in which an E1 signal may come
  Hold,            \* of a policy: the bars a position is held at most
  AtrLength,       \* bars of the average true range
  Slippage,        \* of each fill, against it
  RiskUSD, MaxNotionalUSD  \* authored by the source

(* 13 bars, 9 of a Setup and 4 looked back: the warm-up is over when the    *)
(* first Setup completes, and a response is shorter than a Setup.          *)
ASSUME SchedulerAssumption ==
  /\ Warmup \in Nat /\ Warmup <= Lookback + SetupCount
  /\ Response \in Nat /\ Response < SetupCount
  /\ Slippage \in Nat

VARIABLES
  bars,  \* the bars observed (of the current segment, for a caller of the core)
  run    \* the scheduler, its broker and its observers

schedulerVars == <<vars, bars, run>>

NoId == <<"", None>>
NoPosition == [none |-> TRUE]

NewRun(policy) ==
  [policy |-> policy, anchors |-> {}, opportunities |-> {}, pending |-> NoId,
   pos |-> NoPosition, trades |-> <<>>, realized |-> 0, book |-> EmptyBook,
   refusal |-> "", ended |-> FALSE]

Sign(side) == IF side = "buy" THEN 1 ELSE -1
Held(s) == s.pos # NoPosition

(* ComputeATR and recentExtreme.                                           *)
TrueRange(tape, n) ==
  LET c == IF n = 1 THEN tape[n].C ELSE tape[n-1].C
  IN Larger(tape[n].H, c) - Smaller(tape[n].L, c)
Atr(tape, n) ==
  MapThenSumSet(LAMBDA m : TrueRange(tape, m), Larger(1, n - AtrLength + 1) .. n)
    \div Smaller(n, AtrLength)
ExtremeOf(tape, span, side) ==
  IF side = "buy" THEN Min({tape[m].L : m \in span}) ELSE Max({tape[m].H : m \in span})
--------------------------------------------------------------------------------
(* The broker: openPosition, closePosition and resolveIntrabarExit, with   *)
(* the collector called where they call it.                                *)

Open(s, o, fill, n) ==
  LET size  == Smaller(RiskUSD \div Larger(fill - o.stop, o.stop - fill), MaxNotionalUSD \div fill)
      pos   == [id |-> o.id, side |-> Sign(o.side), entry |-> fill, size |-> size,
                sl |-> o.stop, tp |-> fill + 2 * (fill - o.stop), from |-> n]
      after == s.realized - FeePerUnit * size
  IN [s EXCEPT !.pos = pos, !.realized = after,
               !.book = OnEntry(@, pos, s.trades, s.realized, after)]

Close(s, price, n, reason) ==
  LET pos    == s.pos
      exit   == price - pos.side * Slippage
      pnl    == (exit - pos.entry) * pos.side * pos.size - FeePerUnit * pos.size
      trades == Append(s.trades,
                  [id |-> pos.id, side |-> pos.side, entry |-> pos.entry, size |-> pos.size,
                   sl |-> pos.sl, tp |-> pos.tp, from |-> pos.from,
                   exit |-> exit, price |-> price, to |-> n, pnl |-> pnl, reason |-> reason])
  IN [s EXCEPT !.pos = NoPosition, !.trades = trades, !.realized = @ + pnl,
               !.book = OnExit(@, trades, s.realized, s.realized + pnl)]

Worst(side, b) == IF side = 1 THEN b.L ELSE b.H
Best(side, b) == IF side = 1 THEN b.H ELSE b.L
StopTouched(p, price) == p.side * price <= p.side * p.sl
TargetTouched(p, price) == p.side * price >= p.side * p.tp

(* An opening beyond the stop fills there; then the stop before the target. *)
Bracket(s, b, n) ==
  IF ~Held(s) THEN s
  ELSE IF StopTouched(s.pos, b.O) THEN Close(s, b.O, n, "sl")
  ELSE IF StopTouched(s.pos, Worst(s.pos.side, b)) THEN Close(s, s.pos.sl, n, "sl")
  ELSE IF TargetTouched(s.pos, Best(s.pos.side, b)) THEN Close(s, s.pos.tp, n, "tp")
  ELSE s
--------------------------------------------------------------------------------
(* The scheduler.                                                          *)

Settled(opportunities, id, status, reason) ==
  { IF o.id = id THEN [o EXCEPT !.status = status, !.reason = reason] ELSE o :
      o \in opportunities }

(* The entry bar is the first bar held.                                    *)
TimeExit(s, b, n) ==
  IF Held(s) /\ n - s.pos.from >= Hold[s.policy] THEN Close(s, b.O, n, "time") ELSE s

(* fill: the frozen stop against the slipped fill of this open.            *)
FillPending(s, b, n) ==
  IF s.pending = NoId THEN s
  ELSE LET o       == CHOOSE p \in s.opportunities : p.id = s.pending
           fill    == b.O + Sign(o.side) * Slippage
           free    == [s EXCEPT !.pending = NoId]
       IN IF IF o.side = "buy" THEN o.stop >= fill ELSE o.stop <= fill
          THEN [free EXCEPT !.opportunities = Settled(@, o.id, "rejected", "stop_breached_at_entry")]
          ELSE [Open(free, o, fill, n) EXCEPT !.opportunities = Settled(@, o.id, "filled", "")]

Triggers(policy) ==
  IF policy = "E1" THEN {"perfection", "delayed_perfection"} ELSE {"countdown_complete"}

WithAnchors(s, n, signals) ==
  s.anchors \cup { [id |-> <<e.side, e.episode>>, at |-> n, first |-> n - SetupCount + 1] :
                     e \in {x \in signals : x.type = "setup_complete"} }

Opportunity(policy, anchor, tape, n) ==
  LET side == anchor.id[1]
      span == IF policy = "E2" THEN anchor.first .. n ELSE anchor.first .. anchor.at
  IN [id |-> anchor.id, side |-> side, at |-> anchor.at, first |-> anchor.first,
      decision |-> n, status |-> "pending", reason |-> "",
      stop |-> ExtremeOf(tape, span, side) - Sign(side) * (Atr(tape, n) \div 10)]

Early(policy, o) ==
  CASE o.decision <= Warmup -> "warmup"
    [] policy = "E1" /\ o.decision - o.at > Response -> "signal_expired"
    [] OTHER -> ""

(* Mutant: a position that the bar itself has closed still blocks.         *)
OccupiedAllBar(s, n) ==
  \/ Held(s) \/ s.pending # NoId
  \/ s.trades # <<>> /\ s.trades[Len(s.trades)].to = n
Occupied(s, n) == Held(s) \/ s.pending # NoId

(* acceptEvents.  A side has at most one candidate on a bar, so that those *)
(* of one bar are decided together, whatever the order of the events.      *)
Accept(s, tape, n, signals) ==
  LET anchors == WithAnchors(s, n, signals)
      ids     == { <<e.side, e.episode>> : e \in {x \in signals : x.type \in Triggers(s.policy)} }
                 \ {o.id : o \in s.opportunities}
      new     == { Opportunity(s.policy, a, tape, n) : a \in {x \in anchors : x.id \in ids} }
      cands   == { o \in new : Early(s.policy, o) = "" }
      both    == {o.side : o \in cands} = Side
      reason  == CASE Occupied(s, n) -> "blocked_in_position"
                   [] both -> "simultaneous_signal"
                   [] OTHER -> ""
      decided == { IF o \notin cands THEN [o EXCEPT !.status = "rejected", !.reason = Early(s.policy, o)]
                   ELSE IF reason # "" THEN [o EXCEPT !.status = "rejected", !.reason = reason]
                   ELSE o : o \in new }
  IN [s EXCEPT
        !.anchors = anchors,
        !.opportunities = @ \cup decided,
        !.pending = IF cands = {} \/ reason # "" THEN @ ELSE (CHOOSE o \in cands : TRUE).id,
        !.refusal = IF ids \subseteq {a.id : a \in anchors} THEN @ ELSE "missing admitting setup"]

(* step, and the mark that follows it.                                     *)
Before(s, b, n) == Bracket(FillPending(TimeExit(s, b, n), b, n), b, n)
Marked(s, b, n) == [s EXCEPT !.book = OnMark(@, s.pos, Held(s), s.realized, b.C, n)]
Observed(s, tape, n, signals) ==
  Marked(Accept(Before(s, tape[n], n), tape, n, signals), tape[n], n)

(* The bar as its observers keep it.                                       *)
Stamped(candle, open) ==
  [O |-> candle.O, H |-> candle.H, L |-> candle.L, C |-> candle.C, open |-> open]

Bar(candle, open, declared) ==
  /\ run.refusal = "" /\ ~run.ended
  /\ IF declared THEN StepAfterClosure(candle, open) ELSE Step(candle, open)
  /\ bars' = Append(bars, Stamped(candle, open))
  /\ run' = Observed(run, bars', Len(bars'), events')

(* The end of the bars: runSequentialFullWithCapture refuses a position    *)
(* that is held, RunSequentialMarketV3 keeps it open.                      *)
Finalized(s, keepsOpen) ==
  [s EXCEPT
     !.ended = TRUE,
     !.pending = NoId,
     !.opportunities = IF s.pending = NoId THEN @ ELSE Settled(@, s.pending, "rejected", "no_next_bar"),
     !.refusal = IF Held(s) /\ ~keepsOpen THEN "unsupported-incomplete-terminal-run" ELSE @]

End(keepsOpen) ==
  /\ bars # <<>> /\ run.refusal = "" /\ ~run.ended
  /\ run' = Finalized(run, keepsOpen)
  /\ UNCHANGED <<vars, bars>>

(* What the run over contiguous bars may do.                               *)
ContiguousInit == Init /\ bars = <<>> /\ run \in {NewRun(p) : p \in DOMAIN Hold}
ContiguousNext ==
  \/ \E candle \in Candles : Bar(candle, Len(bars) * Timeframe, FALSE)
  \/ \E keepsOpen \in BOOLEAN : End(keepsOpen)
ContiguousSpec == ContiguousInit /\ [][ContiguousNext]_schedulerVars
================================================================================
