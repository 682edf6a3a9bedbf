------------------------------- MODULE Sequential -------------------------------
(***************************************************************************)
(* The sequential companions as a whole: a request of version 1, 2 or 3 is  *)
(* admitted or refused (SeqAdmission), an admitted one runs bar by bar      *)
(* (SeqScheduler over SeqCore) under the observation of the collector       *)
(* (SeqLedger), and one reply is given, to run or to admit.  A caller of    *)
(* the core alone (seqcore.New, Step, StepAfterClosure, Restore) is the     *)
(* other client: it also meets data gaps, ordering errors and the last      *)
(* index, which no admitted run can.                                        *)
(***************************************************************************)
EXTENDS SeqScheduler, SeqAdmission

CONSTANTS
  Asks,     \* the requests, each with the candles its bars are taken from
  MaxHoles  \* holes a caller of the core may leave in one stream

(* The core and the admission have their timeframe from the same source, a  *)
(* stamp is never negative, and every bar of a request has its prices.      *)
ASSUME SequentialAssumption ==
  /\ StepTime = Timeframe
  /\ \A a \in Asks :
       /\ a.opens \in Seq(Nat)
       /\ a.market \in Seq(SUBSET [O : Nat, H : Nat, L : Nat, C : Nat])
       /\ Len(a.opens) <= Len(a.market)

VARIABLES
  ask,
  phase,   \* "core", "asked", "running" or "answered"
  holes,   \* left by the caller of the core
  answer

allVars == <<schedulerVars, ask, phase, holes, answer>>

NoAnswer == [none |-> TRUE]

(* Each candle of an ask's market is chosen when the run comes to its bar:  *)
(* the admission reads no price but the flaw.                               *)
SequentialInit ==
  /\ Init /\ bars = <<>>
  /\ ask \in Asks
  /\ run = NewRun(IF ask.op = "core" THEN "E1" ELSE ask.policy)
  /\ phase = IF ask.op = "core" THEN "core" ELSE "asked"
  /\ holes = 0 /\ answer = NoAnswer
--------------------------------------------------------------------------------
(* A caller of the core.  Its bars are those since the last data gap.       *)

Offered == IF lastIndex + 2 \in DOMAIN ask.market THEN ask.market[lastIndex + 2] ELSE {}
HoleTo(open) == lastOpen # None /\ open > lastOpen + Timeframe

CoreStep ==
  \E candle \in Offered, open \in NextOpens :
    /\ HoleTo(open) => holes < MaxHoles
    /\ Step(candle, open)
    /\ bars' = Append(IF IsGap(open, FALSE) THEN <<>> ELSE bars, Stamped(candle, open))
    /\ holes' = holes + IF HoleTo(open) THEN 1 ELSE 0
CoreStepAfterClosure ==
  \E candle \in Offered, open \in NextOpens :
    /\ holes < MaxHoles
    /\ StepAfterClosure(candle, open)
    /\ bars' = Append(bars, Stamped(candle, open))
    /\ holes' = holes + 1
CoreOther ==
  /\ \/ \E open \in NextOpens : RefuseOrder(open)
     \/ Restore
     \/ RefuseExhausted
  /\ UNCHANGED <<bars, holes>>

CoreCalled ==
  /\ phase = "core"
  /\ CoreStep \/ CoreStepAfterClosure \/ CoreOther
  /\ UNCHANGED <<run, ask, phase, answer>>
--------------------------------------------------------------------------------
(* A request: runSequentialFixture, runSequentialMarket, admitSequential-   *)
(* Market, and those of version 3.                                          *)

Reply(error) ==
  IF ask.op = "admit"
  THEN [disposition |-> Disposition(error), error |-> error, timeline |-> Shown(ask)]
  ELSE [error |-> error]

Refuse ==
  /\ phase = "asked" /\ Admission(ask) # NoError
  /\ phase' = "answered" /\ answer' = Reply(Admission(ask))
  /\ UNCHANGED <<schedulerVars, ask, holes>>
Start ==
  /\ phase = "asked" /\ Admission(ask) = NoError
  /\ phase' = "running"
  /\ UNCHANGED <<schedulerVars, ask, holes, answer>>

(* The scheduler steps across a hole that admission has let pass.           *)
Observe ==
  /\ phase = "running" /\ Len(bars) < Len(ask.opens)
  /\ \E candle \in ask.market[Len(bars) + 1] :
       Bar(candle, ask.opens[Len(bars) + 1], Hole(ask, Len(bars) + 1))
  /\ UNCHANGED <<ask, phase, holes, answer>>
BarsEnd ==
  /\ phase = "running" /\ Len(bars) = Len(ask.opens)
  /\ End(ask.version = 3)
  /\ UNCHANGED <<ask, phase, holes, answer>>

(* The captured book, its final checks, and the projection.                 *)
BookRefusal ==
  IF ask.version = 3
  THEN OpenFinishRefusal(run.book, Len(bars), run.trades, Held(run), run.realized)
  ELSE FinishRefusal(run.book, Len(bars), run.trades)
Projected ==
  IF ask.version = 3 THEN MarketProjectable(Ledger(run.book), run.trades)
  ELSE Projectable(Ledger(run.book), run.trades)
RunRefusal ==
  IF run.book.failed # "" THEN Accounting(run.book.failed)
  ELSE IF run.refusal # "" THEN Error(run.refusal, "held position")
  ELSE IF BookRefusal # "" THEN Accounting(BookRefusal)
  ELSE IF ~Projected THEN Error("invalid-sequential-metrics", "accounting")
  ELSE NoError
Metrics ==
  IF ask.version = 3 THEN MarketMetrics(Ledger(run.book))
  ELSE [headline |-> Headline(Ledger(run.book))]

RunReply ==
  Reply(RunRefusal) @@ (IF ask.op = "run" /\ RunRefusal = NoError THEN [metrics |-> Metrics] ELSE NoAnswer)

Answer ==
  /\ phase = "running" /\ (run.ended \/ run.refusal # "")
  /\ phase' = "answered" /\ answer' = RunReply
  /\ UNCHANGED <<schedulerVars, ask, holes>>

(* The reply ends a request; a caller of the core whose checkpoint Restore  *)
(* refuses (a declared closure lies within its history) has to start over.  *)
Done == /\ phase = "answered" \/ (terminal /\ ~ValidCheckpoint)
        /\ UNCHANGED allVars

SequentialNext == CoreCalled \/ Refuse \/ Start \/ Observe \/ BarsEnd \/ Answer \/ Done
SequentialSpec == SequentialInit /\ [][SequentialNext]_allVars
--------------------------------------------------------------------------------
(* Properties of the core.                                                  *)

ComparisonAt(n) ==
  IF n <= Lookback THEN 0
  ELSE IF bars[n].C < bars[n - Lookback].C THEN -1
  ELSE IF bars[n].C > bars[n - Lookback].C THEN 1 ELSE 0

(* A run of k bars ends the segment: k comparisons in the direction of the  *)
(* side right after one against it.                                         *)
EndsWithRun(side, k) ==
  LET n == Len(bars)
  IN /\ k < n
     /\ \A m \in n - k + 1 .. n : ComparisonAt(m) = Direction(side)
     /\ ComparisonAt(n - k) = -Direction(side)
RunOf(side) ==
  LET ks == {k \in 1 .. Len(bars) : EndsWithRun(side, k)}
  IN IF ks = {} THEN 0 ELSE CHOOSE k \in ks : TRUE

QualifyingAt(side, n) ==
  /\ n >= 3
  /\ IF side = "buy" THEN bars[n].C <= bars[n-2].L ELSE bars[n].C >= bars[n-2].H

Beyond(side, m, n) ==
  IF side = "buy" THEN bars[m].L < bars[n].L ELSE bars[m].H > bars[n].H
PerfectedFrom(side, n) ==
  \E m \in n-1 .. Len(bars) : Beyond(side, m, n-3) /\ Beyond(side, m, n-2)

(* The engine keeps a few bars and counters.  Over the whole segment, which *)
(* declared closures do not end and data gaps do: the Setup run is the      *)
(* number of comparisons since the flip; an active Countdown has counted    *)
(* every qualifying bar since the one that admitted it, that one included;  *)
(* and a Setup is perfected exactly when a bar from its bar 8 on went       *)
(* beyond its bars 6 and 7.                                                 *)
CountsAreDefinition ==
  \A side \in Side :
    LET s == sides[side].setup
        c == sides[side].countdown
    IN /\ sides[side].run = RunOf(side)
       /\ c.state = "active" =>
            c.count = Cardinality({n \in DOMAIN bars :
                                     bars[n].open >= c.episode /\ QualifyingAt(side, n)})
       /\ s # NoSetup =>
            \E n \in DOMAIN bars :
              bars[n].open = s.episode /\ s.perfected = PerfectedFrom(side, n)
--------------------------------------------------------------------------------
(* The refinement: open times replaced by positions.                        *)

Tick(t) == IF t = None THEN None
           ELSE ((CHOOSE n \in DOMAIN bars : bars[n].open = t) - 1) * Timeframe
TickId(id) == <<id[1], Tick(id[2])>>
Retimed(s) == [n \in DOMAIN s |-> [s[n] EXCEPT !.open = Tick(@)]]
Core == phase = "core"

TickOf(r) == [r EXCEPT !.id = TickId(r.id)]
AdjacentRun ==
  IF Core THEN run
  ELSE [run EXCEPT
    !.anchors = {TickOf(a) : a \in run.anchors},
    !.opportunities = {TickOf(o) : o \in run.opportunities},
    !.pending = TickId(run.pending),
    !.pos = IF Held(run) THEN TickOf(run.pos) ELSE NoPosition,
    !.trades = [n \in DOMAIN run.trades |-> TickOf(run.trades[n])]]
AdjacentSides ==
  IF Core THEN [side \in Side |-> Fresh]
  ELSE [side \in Side |-> [sides[side] EXCEPT !.setup.episode = Tick(@), !.countdown.episode = Tick(@)]]

Contiguous == INSTANCE SeqScheduler WITH
  lastIndex <- IF Core THEN -1 ELSE lastIndex,
  lastOpen <- IF Core THEN None ELSE Tick(lastOpen),
  diagnosticsEmitted <- ~Core /\ diagnosticsEmitted,
  history <- IF Core THEN <<>> ELSE Retimed(history),
  previousComparison <- IF Core THEN 0 ELSE previousComparison,
  sides <- AdjacentSides,
  terminal <- ~Core /\ terminal,
  events <- IF Core THEN {} ELSE {[e EXCEPT !.episode = Tick(@)] : e \in events},
  bars <- IF Core THEN <<>> ELSE Retimed(bars),
  run <- AdjacentRun

(* "State, history and comparisons continue across it as if the bars were   *)
(* adjacent": every run over holes that a calendar declares is a run over   *)
(* contiguous bars with the same prices: the same Setups and Countdowns,    *)
(* decisions, reasons, fills, exits, marks and ledger, bar for bar.         *)
ClosuresInvisible == Contiguous!ContiguousSpec
--------------------------------------------------------------------------------
(* Properties of the scheduler.                                             *)

Trade(id) == {n \in DOMAIN run.trades : run.trades[n].id = id}
Holding(id) == Held(run) /\ run.pos.id = id

(* A position, closed or held, spanned the close of this bar.               *)
Spanned(n) ==
  \/ Held(run) /\ run.pos.from <= n
  \/ \E k \in DOMAIN run.trades : run.trades[k].from <= n /\ n < run.trades[k].to

Breached(o) ==
  LET b == bars[o.decision + 1] IN
  IF o.side = "buy" THEN o.stop >= b.O + Slippage ELSE o.stop <= b.O - Slippage

(* The audit tells the truth about every decision, and it tells of every    *)
(* one: what it says was filled is one trade or the position, entered at    *)
(* the bar after the decision; what it says was blocked met a position that *)
(* spanned that very close; a pending one waits for the next bar only.  Two *)
(* of the reasons never come: by the warm-up limit no Setup can be          *)
(* complete, and two sides never answer at one bar, as the later of two     *)
(* Setups takes more bars than the response leaves to the earlier.          *)
ReasonTrue(o) ==
  /\ o.reason \notin {"warmup", "simultaneous_signal"}
  /\ (o.status = "filled") <=> (Trade(o.id) # {} \/ Holding(o.id))
  /\ o.status = "filled" =>
       /\ Cardinality(Trade(o.id)) + (IF Holding(o.id) THEN 1 ELSE 0) = 1
       /\ \A k \in Trade(o.id) : run.trades[k].from = o.decision + 1
       /\ Holding(o.id) => run.pos.from = o.decision + 1
       /\ ~Breached(o)
  /\ o.reason = "stop_breached_at_entry" => Breached(o)
  /\ o.reason = "signal_expired" <=> run.policy = "E1" /\ o.decision - o.at > Response
  /\ o.reason \notin {"signal_expired"} =>
       (o.reason = "blocked_in_position" <=> Spanned(o.decision))
  /\ o.status = "pending" <=> run.pending = o.id
  /\ o.status = "pending" => o.decision = Len(bars)
  /\ o.reason = "no_next_bar" <=>
       run.ended /\ o.decision = Len(bars) /\ o.reason \notin {"blocked_in_position", "signal_expired"}
Told(side) ==
  IF run.policy = "E1"
  THEN sides[side].setup.perfected =>
         \E o \in run.opportunities : /\ o.id = <<side, sides[side].setup.episode>>
                                      /\ o.decision = sides[side].setup.perfectedAt + 1
  ELSE sides[side].countdown.state = "completed" =>
         \E o \in run.opportunities : /\ o.id = <<side, sides[side].countdown.episode>>
                                      /\ o.decision = sides[side].countdown.bar13 + 1
ReasonsTrue ==
  phase \in {"running", "answered"} =>
    /\ \A o \in run.opportunities : ReasonTrue(o)
    /\ \A side \in Side : Told(side)
    /\ run.refusal \in {"", "unsupported-incomplete-terminal-run"}

(* The money, from the trades alone.                                        *)
NetOf(k) == run.trades[k].pnl - FeePerUnit * run.trades[k].size
Money(n) ==
  LET out   == {k \in DOMAIN run.trades : run.trades[k].to <= n}
      inside == {k \in DOMAIN run.trades : run.trades[k].from <= n /\ n < run.trades[k].to}
      Floating(p) == (bars[n].C - p.entry) * p.side * p.size - FeePerUnit * p.size
  IN StartEquity + MapThenSumSet(NetOf, out)
     + MapThenSumSet(LAMBDA k : Floating(run.trades[k]), inside)
     + IF Held(run) /\ run.pos.from <= n THEN Floating(run.pos) ELSE 0

(* The collector, called from the middle of the broker's own steps, and the *)
(* projections agree with the trades: no check of the book ever refuses,    *)
(* each mark is the money of that close, the headline nets the completed    *)
(* trades, the drawdown is the largest fall from any earlier peak, and the  *)
(* marked net differs from the headline by the open position alone.         *)
LedgerIsTrades ==
  /\ run.book.failed = ""
  /\ phase \in {"running", "answered"} =>
       \A n \in DOMAIN run.book.marks : run.book.marks[n].equity = Money(n)
  /\ (phase = "running" /\ run.ended) =>
       RunRefusal.code \in {"", "unsupported-incomplete-terminal-run"}
  /\ "metrics" \in DOMAIN answer =>
       LET h    == answer.metrics.headline
           last == Len(bars)
       IN /\ h.trades = Len(run.trades)
          /\ h.net = MapThenSumSet(NetOf, DOMAIN run.trades)
          /\ h.wins = Cardinality({k \in DOMAIN run.trades : NetOf(k) > 0})
          /\ h.won - h.lost = h.net
          /\ h.drawdown = Max({0} \cup {StartEquity - Money(n) : n \in 1 .. last}
                              \cup {Money(x[1]) - Money(x[2]) : x \in
                                      {y \in (1 .. last) \X (1 .. last) : y[1] < y[2]}})
          /\ ask.version = 3 =>
               /\ answer.metrics.marked.end = Money(last)
               /\ answer.metrics.marked.net =
                    h.net + answer.metrics.marked.floating - answer.metrics.marked.fee
--------------------------------------------------------------------------------
(* Properties of the replies.                                               *)

(* The number a stamp spells is a millisecond the engine can hold.          *)
SpellsExact(stamp) ==
  LET scale == stamp.exponent - stamp.fraction
      value == ValueOf(stamp.digits)
  IN \/ value = 0
     \/ /\ ~stamp.negative
        /\ IF scale >= 0 THEN value * 10^scale <= MaxTime
           ELSE value % 10^(-scale) = 0 /\ value \div 10^(-scale) <= MaxTime

Equals(c, n) == c.from = ask.opens[n-1] + StepTime /\ c.to = ask.opens[n]
Explained(n) == ask.calendar # NoCalendar
                /\ \E k \in DOMAIN ask.calendar.closures : Equals(ask.calendar.closures[k], n)
Unexplained == {n \in DOMAIN ask.opens \ {1} :
                  Spacing(ask, n) # StepTime /\ (ask.version # 3 \/ ~Explained(n))}

(* What the replies say of the bars is so.  A run starts only if every hole *)
(* is exactly one declared closure, no closure holds a bar, and each time   *)
(* is an exact millisecond; a refusal for a hole names the first that is    *)
(* not declared, and the timeline of an admit reply lists it, also when the *)
(* list is cut; a request that gets no calendar is refused by version 3     *)
(* exactly as by version 2; and the inspector's "supported" is the          *)
(* admission's verdict on the source.                                       *)
AdmissionExact ==
  phase # "core" =>
    /\ phase = "running" =>
         /\ Unexplained = {}
         /\ \A n \in DOMAIN ask.opens, c \in
              (IF ask.calendar = NoCalendar THEN {} ELSE ToSet(ask.calendar.closures)) :
                ask.version = 3 => ~(c.from <= ask.opens[n] /\ ask.opens[n] < c.to)
    /\ (phase = "answered" /\ answer.error.code = TimeGap) =>
         /\ \E n \in Unexplained : \A m \in Unexplained : n <= m /\ answer.error.bar = n
         /\ ask.op = "admit" => \A t \in answer.timeline :
              /\ ask.version = 3 => t.undeclared > 0
              /\ answer.error.bar \in t.listed
    /\ ask.calendar = NoCalendar => AdmitV3(ask) = AdmitV2(ask)
    /\ AdmitV1(ask) = NoError /\ ~Flaw(ask, "no-equity") => AdmitV2(ask) = NoError
    /\ Inspect(ask.source).engine = "supported" <=> MarketSource(ask.source) = NoError
    /\ ExactStamp(ask.stamp) <=> SpellsExact(ask.stamp)
===============================================================================
