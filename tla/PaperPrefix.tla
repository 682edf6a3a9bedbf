------------------------------ MODULE PaperPrefix ------------------------------
(***************************************************************************)
(* Two ways to extend a recording of closed bars without booking a trade   *)
(* twice.  RunPaperPrefix (engine/paper_prefix.go) restores nothing: it    *)
(* verifies the receipt it is given by executing the earlier prefix again, *)
(* executes the longer one from the activation bar and returns the events  *)
(* after those the receipt counts.  RunPrefixResumable                     *)
(* (engine/prefix_checkpoint.go) restores the broker fields the checkpoint *)
(* carries and runs only the new bars.                                     *)
(*                                                                         *)
(* A digest is the value it is taken of.  The broker is that of the        *)
(* opening-range family in UTC slots, long side, with the fields a         *)
(* checkpoint carries (its limit orders and pending exits stay empty in    *)
(* this family, the other side mirrors this one): the first bar of a slot  *)
(* is its range, the first close above it enters.                          *)
(*                                                                         *)
(* A strategy may require that the higher timeframe agrees.  The paper     *)
(* runner refuses it; a resumable run decides it for every bar of the      *)
(* prefix anew, from the higher rows that come with the submission, also   *)
(* for the bars whose trades are booked.                                   *)
(***************************************************************************)
EXTENDS HigherSeries, TLC

CONSTANTS
  Candles,         \* the bars the market may print: [O, H, L, C, gate, step], step
                   \* bar times after the last one, gate for the entry gates
  Bindings,        \* [slot, cooldown, hold, nextOpen, activation, htf]
  Highers,         \* the recordings of the higher timeframe: rows [t, o, c]
  Timeframe,       \* of a bar, in hours
  MaxRecorded,
  MaxCorrections,  \* bars the provider restates
  StartEquity

ASSUME PaperAssumption ==
  /\ Candles \subseteq [O : Int, H : Int, L : Int, C : Int, gate : BOOLEAN, step : Nat \ {0}]
  /\ Bindings \subseteq [slot : Nat \ {0}, cooldown : Nat, hold : Nat, nextOpen : BOOLEAN, activation : Int, htf : BOOLEAN]
  /\ Highers \subseteq Seq([t : Int, o : Int, c : Int])
  /\ Timeframe \in Nat \ {0}
  /\ MaxRecorded \in Nat /\ MaxCorrections \in Nat /\ StartEquity \in Int

VARIABLES
  client,      \* [command, binding, higher]: which of the two it uses, on what
  tape,        \* the recording: a bar, its T, and that its trend allows
  corrections,
  receipt,     \* the caller's last paper receipt, None without one
  delivered,   \* the events received since it last submitted without a receipt
  checkpoint,  \* the caller's last resumable checkpoint
  booked,      \* the trades received since it last submitted without one
  reply,       \* of the last submission
  admitted,    \* the binding, bars and higher rows of the last accepted one
  decided      \* its bars, each with the trend it was decided on (history)
paperVars == << client, tape, corrections, receipt, delivered, checkpoint, booked, reply, admitted, decided >>

NoReceipt == << >>
Lots == 2
Fee == 1
-------------------------------------------------------------------------------
(* The broker's checkpointed fields, the trades of this call, the paper    *)
(* collector.                                                              *)
NoPosition == << >>
FreshBroker == [position |-> NoPosition, pending |-> << >>, realized |-> 0, lastEntry |-> 0,
          seen |-> {}, lastExit |-> -1]
Started(state, collector) == [b |-> state, trades |-> << >>, paper |-> collector]

(* paperCollector: absent from a resumable run.                            *)
NoCollector == << >>
NewCollector ==
  [events |-> << >>, open |-> << >>, fees |-> 0, peak |-> StartEquity, maxDrawdown |-> 0,
   net |-> 0, count |-> 0, failed |-> FALSE]
Collects(s) == s.paper # NoCollector
Emit(s, kind, i, before) ==
  [s EXCEPT !.paper.events = Append(@, [kind |-> kind, index |-> i, before |-> before, after |-> s.b.realized])]
PaperEntry(s, i, before) ==
  LET size == s.b.position.size
  IN IF ~ Collects(s) THEN s
     ELSE Emit([s EXCEPT !.paper.failed = @ \/ size = 0, !.paper.fees = @ + Fee * size,
                         !.paper.open = [index |-> i, size |-> size, fee |-> Fee * size, credits |-> 0]],
               "entry", i, before)
PaperReduction(s, size) ==
  [s EXCEPT !.paper.fees = @ + Fee * size, !.paper.open.size = @ - size,
            !.paper.open.credits = @ + s.trades[Len(s.trades)].pnl]
CompletedForgetsEntryFee(s) ==
  [s EXCEPT !.paper.count = @ + 1, !.paper.net = @ + s.paper.open.credits, !.paper.open = << >>]
Completed(s) ==
  [s EXCEPT !.paper.count = @ + 1, !.paper.net = @ + s.paper.open.credits - s.paper.open.fee, !.paper.open = << >>]
PaperExit(s, i, before, size, whole) ==
  IF ~ Collects(s) THEN s
  ELSE Emit(IF whole THEN Completed(PaperReduction(s, size)) ELSE PaperReduction(s, size),
            IF whole THEN "exit" ELSE "partial", i, before)

(* openPosition and closePosition, or a partial close.                     *)
Open(s, i, price, ord) ==
  LET size == IF price = ord.sl THEN 0 ELSE Lots
  IN PaperEntry([s EXCEPT
       !.b.position = [size |-> size, entry |-> price, sl |-> ord.sl, tp |-> ord.tp, index |-> i,
                       slotEnd |-> ord.slotEnd, partial |-> FALSE, gapAware |-> ord.gapAware],
       !.b.realized = @ - Fee * size], i, s.b.realized)
Reduce(s, i, price, size, reason) ==
  LET p == s.b.position
      pnl == (price - p.entry) * size - Fee * size
      whole == size = p.size
  IN PaperExit([s EXCEPT
       !.b.realized = @ + pnl, !.b.lastExit = IF whole THEN i ELSE @,
       !.b.position = IF whole THEN NoPosition ELSE [p EXCEPT !.size = p.size - size, !.partial = TRUE],
       !.trades = Append(@, [index |-> p.index, exit |-> i, size |-> size, pnl |-> pnl, reason |-> reason])],
     i, s.b.realized, size, whole)
Held(s) == s.b.position # NoPosition

FillPending(s, bars, i) ==
  IF s.b.pending = << >> THEN s
  ELSE Open([s EXCEPT !.b.pending = << >>], i, bars[i].O, s.b.pending)
WindowClose(s, bars, i) ==
  IF Held(s) /\ bars[i].T >= s.b.position.slotEnd THEN Reduce(s, i, bars[i].O, s.b.position.size, "window") ELSE s
Bracket(s, bars, i) ==
  LET p == s.b.position
  IN CASE ~ Held(s) -> s
       [] Held(s) /\ (p.gapAware \/ p.index < i) /\ bars[i].O <= p.sl -> Reduce(s, i, bars[i].O, p.size, "sl")
       [] OTHER -> IF bars[i].L <= p.sl THEN Reduce(s, i, p.sl, p.size, "sl")
                   ELSE IF bars[i].H >= p.tp THEN Reduce(s, i, p.tp, p.size, "tp") ELSE s

(* A held position: its partial close, its stop at breakeven, its time.    *)
Partial(s, bars, i) ==
  LET p == s.b.position
  IN IF p.size > 0 /\ ~ p.partial /\ p.entry > p.sl /\ bars[i].C - p.entry >= p.entry - p.sl
     THEN Reduce(s, i, bars[i].C, p.size \div 2, "partial") ELSE s
Breakeven(s, bars, i) ==
  LET p == s.b.position
  IN IF p.entry > p.sl /\ bars[i].C - p.entry >= p.entry - p.sl
     THEN [s EXCEPT !.b.position.sl = p.entry] ELSE s
Expire(s, bars, i, c) ==
  IF Held(s) /\ i - s.b.position.index >= c.hold THEN Reduce(s, i, bars[i].C, s.b.position.size, "time") ELSE s

(* A flat broker: cooldown, the range of the slot, the higher timeframe,   *)
(* once a slot, the gates.                                                 *)
SlotOf(t, c) == (t \div c.slot) * c.slot
SlotBars(bars, i, c) == {j \in 1 .. i - 1 : SlotOf(bars[j].T, c) = SlotOf(bars[i].T, c)}
BreaksRange(bars, i, c) ==
  LET prior == SlotBars(bars, i, c)
      r == bars[Min(prior)]
  IN /\ prior # {}
     /\ r.H > r.L
     /\ bars[i].C > r.H
     /\ bars[i - 1].C <= r.H
     /\ bars[i].allows
Signal(s, bars, i, c) ==
  LET r == bars[Min(SlotBars(bars, i, c))]
      day == SlotOf(bars[i].T, c)
      ord == [sl |-> r.L, tp |-> 2 * bars[i].C - r.L, slotEnd |-> day + c.slot, gapAware |-> c.nextOpen]
      marked == [s EXCEPT !.b.seen = {day}, !.b.lastEntry = i]
  IN IF ~ bars[i].gate \/ s.b.pending # << >> THEN marked
     ELSE IF c.nextOpen THEN [marked EXCEPT !.b.pending = ord]
     ELSE Open(marked, i, bars[i].C, ord)
OnBar(s, bars, i, c) ==
  IF Held(s) THEN Expire(LET p == Partial(s, bars, i) IN IF Held(p) THEN Breakeven(p, bars, i) ELSE p, bars, i, c)
  ELSE IF /\ s.b.lastEntry = 0 \/ i - s.b.lastEntry >= c.cooldown
          /\ BreaksRange(bars, i, c)
          /\ SlotOf(bars[i].T, c) \notin s.b.seen
  THEN Signal(s, bars, i, c) ELSE s

(* paperCollector.mark: the statement at the close of a bar.               *)
Equity(s, bars, i) ==
  StartEquity + s.b.realized
    + (IF Held(s) THEN (bars[i].C - s.b.position.entry) * s.b.position.size ELSE 0)
Mark(s, bars, i) ==
  LET equity == Equity(s, bars, i)
      peak == Max({s.paper.peak, equity})
      drawdown == Max({s.paper.maxDrawdown, peak - equity})
      statement == [kind |-> "mark", index |-> i, before |-> s.b.realized, after |-> s.b.realized,
                    equity |-> equity, peak |-> peak, maxDrawdown |-> drawdown]
  IN IF ~ Collects(s) THEN s
     ELSE [s EXCEPT !.paper.peak = peak, !.paper.maxDrawdown = drawdown,
                    !.paper.events = Append(@, statement)]
Bar(s, bars, i, c) == Mark(OnBar(Bracket(WindowClose(FillPending(s, bars, i), bars, i), bars, i), bars, i, c), bars, i)

(* runRangeWithFinalization without liquidation, from a bar on.            *)
RunRange(state, collector, bars, first, c) ==
  LET run[i \in first - 1 .. Len(bars)] ==
        IF i = first - 1 THEN Started(state, collector) ELSE Bar(run[i - 1], bars, i, c)
  IN run[Len(bars)]
-------------------------------------------------------------------------------
(* executePaperPrefix: the activation is the T of a bar, or later than all.*)
Activation(bars, c) == {i \in DOMAIN bars : bars[i].T >= c.activation}
Executable(bars, c) == Activation(bars, c) # {} => bars[Min(Activation(bars, c))].T = c.activation
Executed(bars, c) ==
  IF Activation(bars, c) = {} THEN Started(FreshBroker, NewCollector)
  ELSE RunRange(FreshBroker, NewCollector, bars, Min(Activation(bars, c)), c)
Receipt(bars, through, c, s) ==
  [binding |-> c, bars |-> bars, processed |-> Len(bars), through |-> through,
   events |-> Len(s.paper.events), state |-> << s.b, [s.paper EXCEPT !.events = << >>] >>]
Closed(bars, through) == bars # << >> /\ \A i \in DOMAIN bars : bars[i].T + Timeframe <= through

Verifies(cp, bars, through, c) ==
  /\ cp.processed <= Len(bars) /\ cp.through <= through /\ cp.binding = c
  /\ LET prior == SubSeq(bars, 1, cp.processed)
     IN Closed(prior, cp.through) /\ Executable(prior, c)
        /\ cp = Receipt(prior, cp.through, c, Executed(prior, c))

(* RunPaperPrefix: the events after the ones the receipt counts.           *)
Refusal(cp, bars, through, c) ==
  CASE ~ Closed(bars, through) -> "BARS"
    [] Closed(bars, through) /\ c.htf -> "CONTEXT"
    [] OTHER -> IF cp # NoReceipt /\ ~ Verifies(cp, bars, through, c) THEN "CHECKPOINT"
                ELSE IF Executable(bars, c) THEN "none" ELSE "ACTIVATION"
Refused(code) == reply' = code /\ UNCHANGED << receipt, delivered, admitted >>
RunPaper(cp, bars, through, c) ==
  /\ \E refusal \in {Refusal(cp, bars, through, c)} :
       IF refusal # "none" THEN Refused(refusal)
       ELSE \E s \in {Executed(bars, c)} :
              IF s.paper.failed THEN Refused("ACCOUNTING")
              ELSE /\ reply' = "paper"
                   /\ receipt' = Receipt(bars, through, c, s)
                   /\ delivered' = IF cp = NoReceipt THEN s.paper.events
                                   ELSE delivered \o SubSeq(s.paper.events, cp.events + 1, Len(s.paper.events))
                   /\ admitted' = [binding |-> c, bars |-> bars, higher |-> << >>]
  /\ UNCHANGED << client, tape, corrections, checkpoint, booked, decided >>

(* computeHTFTrend and htfAllows: absent and stale trends refuse.          *)
Allowed(bars, higher, i) ==
  LET trend == HigherTrend(higher, Spacing([k \in DOMAIN bars |-> bars[k].T]), bars[i].T)
  IN trend # << >> /\ trend[1] >= 0
Informed(bars, higher, c) ==
  [i \in DOMAIN bars |-> [bars[i] EXCEPT !.allows = ~ c.htf \/ Allowed(bars, higher, i)]]

(* RunPrefixResumable: the trades of the bars after the checkpoint, which  *)
(* binds the bars and the higher rows opened by its last bar.              *)
ThroughBefore(higher, t) ==
  SubSeq(higher, 1, Max({n \in 0 .. Len(higher) : \A k \in 1 .. n : higher[k].t < t}))
Through(higher, t) ==
  SubSeq(higher, 1, Max({n \in 0 .. Len(higher) : \A k \in 1 .. n : higher[k].t <= t}))
Envelope(bars, higher, c, s) ==
  [binding |-> [c EXCEPT !.activation = 0], bars |-> bars, processed |-> Len(bars),
   higher |-> Through(higher, bars[Len(bars)].T), state |-> s.b]
Binds(cp, bars, higher, c) ==
  /\ cp.binding = [c EXCEPT !.activation = 0]
  /\ cp.processed <= Len(bars)
  /\ cp.bars = SubSeq(bars, 1, cp.processed)
  /\ cp.higher = Through(higher, bars[cp.processed].T)
RestoredUnseen(cp) == [cp.state EXCEPT !.seen = {}]
Restored(cp) == cp.state
Joined(before, k, now) == [i \in DOMAIN now |-> IF i <= k THEN before[i] ELSE now[i]]
RunResumable(cp, bars, higher, c) ==
  /\ IF cp # NoReceipt /\ ~ Binds(cp, bars, higher, c)
     THEN reply' = "invalid" /\ UNCHANGED << checkpoint, booked, admitted, decided >>
     ELSE \E now \in {Informed(bars, higher, c)} :
          \E s \in {IF cp = NoReceipt THEN RunRange(FreshBroker, NoCollector, now, 1, c)
                    ELSE RunRange(Restored(cp), NoCollector, now, cp.processed + 1, c)} :
            /\ reply' = "resumable"
            /\ checkpoint' = Envelope(bars, higher, c, s)
            /\ booked' = IF cp = NoReceipt THEN s.trades ELSE booked \o s.trades
            /\ admitted' = [binding |-> c, bars |-> bars, higher |-> higher]
            /\ decided' = IF cp = NoReceipt THEN now ELSE Joined(decided, cp.processed, now)
  /\ UNCHANGED << client, tape, corrections, receipt, delivered >>
-------------------------------------------------------------------------------
(* The caller records bars, may have one restated, and submits all or all  *)
(* but one of them, anew or with what it last received and then perhaps    *)
(* under another binding; with them the higher rows opened so far, perhaps *)
(* without the latest.                                                     *)
Clients ==
  {c \in [command : {"paper", "resumable"}, binding : Bindings, higher : Highers \cup {<< >>}] :
     c.higher # << >> <=> c.command = "resumable" /\ c.binding.htf}
PaperInit ==
  /\ client \in Clients
  /\ tape = << >> /\ corrections = 0
  /\ receipt = NoReceipt /\ delivered = << >> /\ checkpoint = NoReceipt /\ booked = << >>
  /\ reply = "none" /\ admitted = << >> /\ decided = << >>
Stamped(candle, t) ==
  [O |-> candle.O, H |-> candle.H, L |-> candle.L, C |-> candle.C, gate |-> candle.gate, step |-> candle.step, T |-> t,
   allows |-> TRUE]
Record(candle) ==
  /\ Len(tape) < MaxRecorded
  /\ tape' = Append(tape, Stamped(candle, IF tape = << >> THEN 0 ELSE tape[Len(tape)].T + candle.step))
  /\ reply' = "none"
  /\ UNCHANGED << client, corrections, receipt, delivered, checkpoint, booked, admitted, decided >>
Restate(candle) ==
  /\ admitted # << >> /\ corrections < MaxCorrections /\ corrections' = corrections + 1
  /\ tape' = [tape EXCEPT ![Len(tape)] = Stamped(candle, tape[Len(tape)].T)]
  /\ reply' = "none"
  /\ UNCHANGED << client, receipt, delivered, checkpoint, booked, admitted, decided >>
Supplied == {Len(tape) - 1, Len(tape)} \cap DOMAIN tape
Fetched(t) ==
  LET n == Max({0} \cup {m \in DOMAIN client.higher : client.higher[m].t <= t})
  IN {SubSeq(client.higher, 1, m) : m \in {n, n - 1} \cap Nat}
Anew == admitted = << >> \/ corrections > 0
SubmitPaper ==
  /\ client.command = "paper"
  /\ \E n \in Supplied :
       \/ \E through \in {tape[n].T + Timeframe - 1, tape[n].T + Timeframe} :
            Anew /\ RunPaper(NoReceipt, SubSeq(tape, 1, n), through, client.binding)
       \/ \E c \in Bindings :
            receipt # NoReceipt /\ RunPaper(receipt, SubSeq(tape, 1, n), tape[n].T + Timeframe, c)
SubmitResumable ==
  /\ client.command = "resumable"
  /\ \E n \in Supplied : \E higher \in Fetched(tape[n].T) :
       \/ Anew /\ RunResumable(NoReceipt, SubSeq(tape, 1, n), higher, client.binding)
       \/ \E c \in Bindings : checkpoint # NoReceipt /\ RunResumable(checkpoint, SubSeq(tape, 1, n), higher, c)
PaperNext ==
  \/ \E candle \in Candles : Record(candle)
  \/ \E candle \in Candles : Restate(candle)
  \/ SubmitPaper
  \/ SubmitResumable
PaperSpec == PaperInit /\ [][PaperNext]_paperVars
-------------------------------------------------------------------------------
(* What a caller has received over a chain of accepted submissions is what *)
(* one replay of the whole prefix yields: no event or trade is lost,       *)
(* repeated or computed from a state that some field was missing from, and *)
(* no delta is appended to a history that the recording no longer says     *)
(* (paper_prefix_checkpoint.go:36, prefix_checkpoint.go:148).              *)
(*                                                                         *)
(* With a gate on the higher timeframe this replay decides each bar on the *)
(* trend it was decided on when its trades were booked.  It is the replay  *)
(* of the last submission without a gate, and with one where no series has *)
(* a hole and the first bar comes with two higher rows, no narrower than   *)
(* the bars: no later row or bar then moves a width or ends a hole, and    *)
(* the rows that a booked decision was made on are bound by the checkpoint *)
(* (prefix_checkpoint.go:119-131).                                         *)
Replayed(bars) ==
  \E s \in {RunRange(FreshBroker, NoCollector, bars, 1, admitted.binding)} :
    booked = s.trades /\ checkpoint.state = s.b
Current == Informed(admitted.bars, admitted.higher, admitted.binding)

OpensOf(rows) == [k \in DOMAIN rows |-> rows[k].t]
TimesOf(bars) == [k \in DOMAIN bars |-> bars[k].T]
Even(opens) == \A k \in DOMAIN opens \ {1} : opens[k] - opens[k - 1] = Spacing(opens)
Regular ==
  /\ Len(client.higher) >= 2 /\ client.higher[2].t <= tape[1].T
  /\ Even(OpensOf(client.higher)) /\ Even(TimesOf(tape))
  /\ Spacing(TimesOf(tape)) <= Spacing(OpensOf(client.higher))
DeltasAreTheReplay ==
  /\ reply = "paper" => delivered = Executed(admitted.bars, admitted.binding).paper.events
  /\ reply = "resumable" => /\ Replayed(decided)
                            /\ ~ admitted.binding.htf \/ Regular => Replayed(Current)

(* The promise of prefix_checkpoint.go:235-238, that the trades of a       *)
(* resumed run are the deltas since the checkpoint, for any strategy and   *)
(* series: what a chain has booked is what a replay of its last submission *)
(* yields.                                                                 *)
ResumedIsReplay == reply = "resumable" => Replayed(Current)

(* The statement of the last bar is accounted for by the effects reported: *)
(* the balance by what the effects moved, the fees and the completed       *)
(* trades, the equity by the balance and the open lots, the drawdown by    *)
(* the equity of every mark (paper_prefix_accounting.go:184-295).          *)
Marks == {k \in DOMAIN delivered : delivered[k].kind = "mark"}
StatementReconciles ==
  (reply = "paper" /\ delivered # << >>) =>
    LET last == delivered[Len(delivered)]
        open == receipt.state[2].open
        equities(k) == {delivered[j].equity : j \in {x \in Marks : x <= k}} \cup {StartEquity}
    IN /\ last.kind = "mark"
       /\ \A k \in DOMAIN delivered : delivered[k].before = IF k = 1 THEN 0 ELSE delivered[k - 1].after
       /\ last.after = receipt.state[2].net + (IF open = << >> THEN 0 ELSE open.credits - open.fee)
       /\ open = << >> => last.equity = StartEquity + last.after
       /\ \A k \in Marks : /\ delivered[k].peak = Max(equities(k))
                           /\ delivered[k].maxDrawdown = Max({Max(equities(j)) - delivered[j].equity : j \in {x \in Marks : x <= k}})
===============================================================================
