--------------------------- MODULE BacktestWitness ---------------------------
(***************************************************************************)
(* The evidence of one ordinary backtest: what the hooks in the broker     *)
(* record while it runs, and what is accepted as a result afterwards.      *)
(*                                                                         *)
(* Two observers hang on the broker.  The collector turns each opening,    *)
(* partial close, close and bar end into an event with the money it moved. *)
(* The capture copies the broker's position and queues at the boundaries   *)
(* of the bar's stages and around each of those movements.  After the run  *)
(* the witness is accepted only when the two tell one continuous story,    *)
(* the finances are recomputed from the events, and the projection         *)
(* validates them once more; any doubt refuses the whole result.           *)
(*                                                                         *)
(* The broker is the one of module Broker, reduced to what it does to its  *)
(* position, its queues and its money: every fill, bracket and order of a  *)
(* family is a choice.  v is the state of broker and observers.            *)
(***************************************************************************)
EXTENDS Integers, Sequences, FiniteSets, SequencesExt

VARIABLES run,  \* bars: their number; O, C: their prices; start: the equity;
                \* fee, slip; sizes: sizes an order may have; acts: bound on
                \* what a family does in one bar; maxEvents: the event limit
          w,    \* broker, collector and capture
          at,   \* the bar being run
          stage \* the next stage of the bar

NoPosition == [side |-> 0, entry |-> 0, size |-> 0, stop |-> 0, at |-> 0, partial |-> FALSE]

Start ==
  [held |-> FALSE, pos |-> NoPosition, orders |-> <<>>, exits |-> <<>>, limits |-> <<>>,
   realized |-> 0, trades |-> <<>>,
   open |-> <<>>, booked |-> 0, entryFees |-> 0, exitFees |-> 0, events |-> <<>>,
   lastIndex |-> -1, ordinal |-> 0, failed |-> "", states |-> <<>>, refused |-> FALSE]

Bars == 0..run.bars-1
Price(prices, i) == prices[i + 1]

Directed(side, from, to) == (to - from) * side

------------------------------------------------------------------------------
(* The capture.  A stored position stays in the snapshot after its close.  *)

MaxSnapshots == 32 * run.bars + 2

Snapshot(v, boundary, i) ==
  [boundary |-> boundary, i |-> i, held |-> v.held, pos |-> v.pos, orders |-> v.orders,
   exits |-> v.exits, limits |-> v.limits, realized |-> v.realized,
   trades |-> Len(v.trades), events |-> Len(v.events)]

Observe(v, boundary, i) ==
  IF v.refused \/ Len(v.states) >= MaxSnapshots
  THEN [v EXCEPT !.refused = TRUE]
  ELSE [v EXCEPT !.states = Append(@, Snapshot(v, boundary, i))]

Attached == Observe(Start, <<"initial", "">>, -1)

------------------------------------------------------------------------------
(* The collector.  An ordinal counts the events of one bar.                *)

Emit(v, i, event) ==
  LET ordinal == IF i = v.lastIndex THEN v.ordinal ELSE 0 IN
  CASE v.failed # ""                     -> v
    [] Len(v.events) >= run.maxEvents    -> [v EXCEPT !.failed = "limit"]
    [] i < v.lastIndex                   -> [v EXCEPT !.failed = "accounting"]
    [] OTHER -> [v EXCEPT !.lastIndex = i, !.ordinal = ordinal + 1,
                          !.events = Append(@, event @@ [i |-> i, ordinal |-> ordinal])]

Continues(v, before) == v.failed = "" /\ v.booked = before

Fail(v) == [v EXCEPT !.failed = IF @ = "" THEN "accounting" ELSE @]

Fees(v, size) == run.fee * size

BookEntry(v, before) ==
  LET p  == v.pos
      id == <<p.side, p.at, IF v.lastIndex = p.at THEN v.ordinal ELSE 0>>
  IN  IF ~Continues(v, before) \/ v.open # <<>> \/ p.size <= 0 THEN Fail(v)
      ELSE Observe(
             Emit([v EXCEPT !.open = <<[id |-> id, at |-> p.at, side |-> p.side, entry |-> p.entry,
                                        left |-> p.size, fee |-> Fees(v, p.size), credits |-> 0]>>,
                            !.booked = v.realized, !.entryFees = @ + Fees(v, p.size)],
                  p.at,
                  [kind |-> "entry", id |-> id, side |-> p.side, price |-> p.entry, size |-> p.size,
                   fee |-> Fees(v, p.size), credit |-> 0, net |-> 0, stop |-> p.stop,
                   before |-> before, after |-> v.realized, reason |-> ""]),
             <<"after", "entry">>, p.at)

(* Mutant: a partial close leaves the collector's size as it was.          *)
LeftKept(v, trade, partial) == v.open[1].left

(* What is left is what the broker says is left.                           *)
LeftOf(v, trade, partial) == IF partial THEN v.pos.size ELSE 0

ExitObserved(v, trade, partial) ==
  /\ v.open # <<>> /\ v.trades # <<>>
  /\ LET o == v.open[1] IN
       /\ <<trade.at, trade.side, trade.entry>> = <<o.at, o.side, o.entry>>
       /\ trade.size > 0 /\ trade.size <= o.left
       /\ trade.partial = partial
       /\ IF partial THEN v.held /\ v.pos.size \in 0..o.left
          ELSE ~v.held /\ trade.size = o.left

BookExit(v, before, i, partial) ==
  LET trade == v.trades[Len(v.trades)]
      o     == v.open[1]
      kind  == IF partial THEN "partial" ELSE "exit"
  IN  IF ~Continues(v, before) \/ ~ExitObserved(v, trade, partial) THEN Fail(v)
      ELSE Observe(
             Emit([v EXCEPT !.open = IF partial
                                     THEN <<[o EXCEPT !.left = LeftOf(v, trade, partial),
                                                      !.credits = @ + trade.pnl]>>
                                     ELSE <<>>,
                            !.booked = v.realized, !.exitFees = @ + Fees(v, trade.size)],
                  i,
                  [kind |-> kind, id |-> o.id, side |-> trade.side, price |-> trade.exit,
                   size |-> trade.size, fee |-> Fees(v, trade.size), credit |-> trade.pnl,
                   net |-> IF partial THEN 0 ELSE o.credits + trade.pnl - o.fee,
                   stop |-> trade.stop, before |-> before, after |-> v.realized,
                   reason |-> trade.reason]),
             <<"after", kind>>, i)

Unrealized(v, i) == IF v.held THEN Directed(v.pos.side, v.pos.entry, Price(run.C, i)) * v.pos.size ELSE 0

BookMark(v, i) ==
  IF v.failed # "" THEN v
  ELSE IF \/ v.realized # v.booked \/ (v.open # <<>>) # v.held
          \/ v.held /\ v.open[1].left # v.pos.size
  THEN Fail(v)
  ELSE Observe(
         Emit(v, i, [kind |-> "mark", before |-> v.realized, after |-> v.realized,
                     unrealized |-> Unrealized(v, i),
                     equity |-> run.start + v.realized + Unrealized(v, i),
                     entryFees |-> v.entryFees, exitFees |-> v.exitFees]),
         <<"close", "">>, i)

------------------------------------------------------------------------------
(* The broker.                                                             *)

Slip(v, price, side) == price + side * run.slip

Enter(v, order, price, i) ==
  LET o == Observe(v, <<"before", "entry">>, i)
      q == [o EXCEPT !.held = TRUE,
                     !.pos = [side |-> order.side, entry |-> price, size |-> order.size,
                              stop |-> price - order.side, at |-> i, partial |-> FALSE],
                     !.realized = @ - Fees(v, order.size)]
  IN  BookEntry(q, v.realized)

TradeOf(v, price, size, i, partial, reason) ==
  [side |-> v.pos.side, entry |-> v.pos.entry, at |-> v.pos.at, size |-> size, exit |-> price, out |-> i,
   stop |-> v.pos.stop, pnl |-> Directed(v.pos.side, v.pos.entry, price) * size - Fees(v, size),
   partial |-> partial, reason |-> reason]

Booked(v, trade) == [v EXCEPT !.realized = @ + trade.pnl, !.trades = Append(@, trade)]

NotOf(pos, exits) == SelectSeq(exits, LAMBDA x : x.at # pos.at)

Close(v, price, i, reason) ==
  LET o == Booked(Observe(v, <<"before", "exit">>, i),
                  TradeOf(v, Slip(v, price, -v.pos.side), v.pos.size, i, FALSE, reason))
  IN  BookExit([o EXCEPT !.held = FALSE, !.exits = NotOf(v.pos, @)], v.realized, i, FALSE)

(* Half of the position is closed; the stop moves to the entry.            *)
ClosePart(v, i) ==
  LET half == v.pos.size \div 2
      o    == Booked(Observe(v, <<"before", "partial">>, i),
                     TradeOf(v, Slip(v, Price(run.C, i), -v.pos.side), half, i, TRUE, "partial"))
  IN  BookExit([o EXCEPT !.pos.size = @ - half, !.pos.partial = TRUE, !.pos.stop = v.pos.entry],
               v.realized, i, TRUE)

(* One stage of a bar, between its two observations.                       *)
Staged(v, name, i, Do(_)) == Observe(Do(Observe(v, <<"before", name>>, i)), <<"after", name>>, i)

FillPendingExit(v) ==
  IF v.exits # <<>> /\ v.exits[1].due <= at
  THEN LET o == [v EXCEPT !.exits = Tail(@)] IN
       IF v.held /\ v.pos.at = v.exits[1].at THEN Close(o, Price(run.O, at), at, "rule") ELSE o
  ELSE v

FillPending(v) ==
  IF v.orders # <<>> /\ v.orders[1].due <= at
  THEN Enter([v EXCEPT !.orders = Tail(@)], v.orders[1],
             Slip(v, Price(run.O, at), v.orders[1].side), at)
  ELSE v

(* A resting limit order is filled, expires or rests.                      *)
FillLimits(v, filled) ==
  IF v.limits # <<>> /\ at > v.limits[1].due
  THEN IF filled THEN Enter([v EXCEPT !.limits = <<>>], v.limits[1], Price(run.O, at), at)
       ELSE IF at >= v.limits[1].due + 2 THEN [v EXCEPT !.limits = <<>>] ELSE v
  ELSE v

Stage(from, to) == stage = from /\ stage' = to /\ UNCHANGED <<run, at>>

PendingExits == Stage("open", "entries") /\ w' = Staged(w, "pending-exits", at, FillPendingExit)

PendingEntries == Stage("entries", "limits") /\ w' = Staged(w, "pending-entries", at, FillPending)

LimitOrders ==
  /\ Stage("limits", "range")
  /\ \E filled \in BOOLEAN :
       w' = Staged(w, "limit-orders", at, LAMBDA v : FillLimits(v, filled))

(* A handler that has done nothing yet, one thing, or two.                 *)
Handling == <<"bar", "acted", "acted twice">>

(* The bracket closes at the stop, at the target, or not at all; then the  *)
(* family's handler is called.                                             *)
IntrabarExit ==
  /\ Stage("range", Handling[1])
  /\ \E hit \in IF w.held THEN {"none", "sl", "tp"} ELSE {"none"} :
       w' = Observe(CASE hit = "none" -> w
                      [] hit = "sl"   -> Close(w, w.pos.stop, at, "sl")
                      [] hit = "tp"   -> Close(w, w.pos.entry + 2 * w.pos.side, at, "tp"),
                    <<"before", "on-bar">>, at)

Order(side, size, due) == [side |-> side, size |-> size, due |-> due]

(* What a family's handler may do: manage the position, or enter.          *)
Manage ==
  /\ w.held
  /\ \/ w' = Close(w, Price(run.C, at), at, "rule")
     \/ ~w.pos.partial /\ w.pos.size > 1 /\ w' = ClosePart(w, at)
     \/ w' = [w EXCEPT !.pos.stop = @ + w.pos.side]
     \/ w.exits = <<>> /\ w' = [w EXCEPT !.exits = <<[at |-> w.pos.at, due |-> at + 1]>>]

EnterOn ==
  /\ ~w.held \/ w.exits # <<>>
  /\ w.orders = <<>> /\ w.limits = <<>>
  /\ \E side \in {1, -1}, size \in run.sizes :
       \/ ~w.held /\ w' = Enter(w, Order(side, size, at), Slip(w, Price(run.C, at), side), at)
       \/ w' = [w EXCEPT !.orders = <<Order(side, size, at + 1)>>]
       \/ ~w.held /\ w' = [w EXCEPT !.limits = <<Order(side, size, at)>>]

OnBar ==
  \E n \in 1..run.acts :
    /\ Stage(Handling[n], Handling[n + 1])
    /\ Manage \/ EnterOn

MarkBar ==
  /\ stage \in Range(Handling)
  /\ w' = BookMark(Observe(w, <<"after", "on-bar">>, at), at)
  /\ stage' = IF at + 1 < run.bars THEN "open" ELSE "end"
  /\ at' = IF at + 1 < run.bars THEN at + 1 ELSE at
  /\ UNCHANGED run

(* The last position is closed after the last bar was marked.              *)
Liquidate ==
  /\ Stage("end", "ran")
  /\ w' = Observe(IF w.held THEN Close(w, Price(run.C, at), at, "eot") ELSE w, <<"terminal", "">>, at)

BrokerRuns ==
  \/ PendingExits \/ PendingEntries \/ LimitOrders \/ IntrabarExit
  \/ OnBar \/ MarkBar \/ Liquidate

------------------------------------------------------------------------------
(* What is accepted as the result: the witness is read in order by an       *)
(* acceptor, the finances are stated over the whole sequence of events,    *)
(* and their projection is the report.                                     *)
StageNames == <<"pending-exits", "pending-entries", "limit-orders", "on-bar">>

Boundaries ==
  <<<<"before", "pending-exits">>, <<"after", "pending-exits">>, <<"before", "pending-entries">>,
    <<"after", "pending-entries">>, <<"before", "limit-orders">>, <<"after", "limit-orders">>,
    <<"before", "on-bar">>, <<"after", "on-bar">>>>

(* Boundaries between which nothing may have happened.                     *)
Adjacent ==
  {<<Boundaries[n], Boundaries[n + 1]>> : n \in {2, 4}}
    \cup {<<Boundaries[6], Boundaries[7]>>, <<Boundaries[8], <<"close", "">>>>,
          <<<<"close", "">>, Boundaries[1]>>, <<<<"close", "">>, <<"before", "exit">>>>}

SameContents(a, s) ==
  /\ <<a.held, a.pos, a.realized, a.trades>> = <<s.held, s.pos, s.realized, s.trades>>
  /\ <<a.orders, a.exits, a.limits>> = <<s.orders, s.exits, s.limits>>

SameQueues(a, s) == <<a.orders, a.exits, a.limits>> = <<s.orders, s.exits, s.limits>>

(* A family may move the stop at any time, and nothing else.               *)
FixedPosition(p) == [p EXCEPT !.stop = 0]

SameLive(a, s) ==
  /\ <<a.held, a.trades, a.realized>> = <<s.held, s.trades, s.realized>>
  /\ s.held => FixedPosition(s.pos) = FixedPosition(a.pos)

IsStage(s) == s.boundary[2] \in Range(StageNames)
IsMoney(s) == s.boundary[1] = "after" /\ ~IsStage(s)

(* A stage touches its own queue; filling an exit also closes, filling an  *)
(* entry or a limit also opens.                                            *)
StageScope(a, s) ==
  /\ s.boundary[2] = "pending-exits" => a.orders = s.orders /\ a.limits = s.limits
  /\ s.boundary[2] = "pending-entries" => a.exits = s.exits /\ a.limits = s.limits
  /\ s.boundary[2] = "limit-orders" => a.orders = s.orders /\ a.exits = s.exits

EntryState(a, s, e) ==
  /\ ~a.held /\ s.held /\ s.trades = a.trades
  /\ <<s.pos.size, s.pos.entry, s.pos.side, s.pos.at, s.pos.stop>> = <<e.size, e.price, e.side, e.i, e.stop>>
  /\ SameQueues(a, s)

PartialState(a, s) ==
  /\ s.pos.size \in 1..a.pos.size /\ s.pos.partial
  /\ s.pos = [a.pos EXCEPT !.size = s.pos.size, !.partial = TRUE, !.stop = s.pos.stop]
  /\ SameQueues(a, s)

ExitState(a, s, e) ==
  /\ a.held /\ s.trades = a.trades + 1
  /\ s.held = (e.kind = "partial")
  /\ a.pos.side = e.side /\ a.pos.size >= e.size
  /\ IF e.kind = "partial" THEN PartialState(a, s)
     ELSE /\ a.pos.size = e.size /\ s.pos = a.pos
          /\ s.orders = a.orders /\ s.limits = a.limits /\ s.exits = NotOf(a.pos, a.exits)

MoneyState(a, s, e) ==
  /\ e.kind = s.boundary[2] /\ e.i = s.i
  /\ a.realized = e.before /\ s.realized = e.after
  /\ IF e.kind = "entry" THEN EntryState(a, s, e) ELSE ExitState(a, s, e)

(* The acceptor's state after some of the witness.                         *)
Reading(first) ==
  [ok |-> TRUE, last |-> -1, previous |-> first, live |-> first, stack |-> <<>>,
   stages |-> [i \in Bars |-> 0], marks |-> 0, events |-> 0]

(* What every observation has to agree with before it is looked at.        *)
Continuous(r, s) ==
  /\ s.i \in Bars /\ s.i >= r.last
  /\ <<r.previous.boundary, s.boundary>> \in Adjacent => SameContents(r.previous, s)
  /\ ~IsMoney(s) => SameLive(r.live, s)
  /\ IsStage(s) => r.stages[s.i] < 8 /\ Boundaries[r.stages[s.i] + 1] = s.boundary

Advanced(r, s) ==
  [r EXCEPT !.last = s.i, !.previous = s, !.stages[s.i] = IF IsStage(s) THEN @ + 1 ELSE @]

Top(r) == r.stack[Len(r.stack)]

BeforeRead(r, s) ==
  [Advanced(r, s) EXCEPT !.ok = (s.events = r.events), !.stack = Append(@, s)]

Paired(r, s) ==
  r.stack # <<>> /\ Top(r).boundary = <<"before", s.boundary[2]>> /\ Top(r).i = s.i

StageRead(r, s) ==
  [Advanced(r, s) EXCEPT !.ok = Paired(r, s) /\ s.events = r.events /\ StageScope(Top(r), s),
                         !.stack = IF @ = <<>> THEN @ ELSE Front(@)]

MoneyRead(r, s, events) ==
  [Advanced(r, s) EXCEPT
     !.ok = /\ Paired(r, s)
            /\ r.events < Len(events) /\ s.events = r.events + 1
            /\ MoneyState(Top(r), s, events[r.events + 1]),
     !.stack = IF @ = <<>> THEN @ ELSE Front(@),
     !.live = s, !.events = @ + 1]

CloseRead(r, s, events) ==
  [Advanced(r, s) EXCEPT
     !.ok = /\ r.stack = <<>> /\ s.i = r.marks /\ r.stages[s.i] = 8
            /\ r.events < Len(events) /\ s.events = r.events + 1
            /\ LET e == events[r.events + 1] IN e.kind = "mark" /\ e.i = s.i /\ e.after = s.realized,
     !.marks = @ + 1, !.events = @ + 1]

Read(r, s, events) ==
  CASE ~r.ok                      -> r
    [] ~Continuous(r, s)          -> [r EXCEPT !.ok = FALSE]
    [] s.boundary[1] = "before"   -> BeforeRead(r, s)
    [] s.boundary[1] = "close"    -> CloseRead(r, s, events)
    [] IsMoney(s)                 -> MoneyRead(r, s, events)
    [] OTHER                      -> StageRead(r, s)

Whole(v, first, last) ==
  /\ first.boundary[1] = "initial" /\ ~first.held
  /\ <<first.trades, first.events, first.realized>> = <<0, 0, 0>>
  /\ <<first.orders, first.exits, first.limits>> = <<<<>>, <<>>, <<>>>>
  /\ last.boundary[1] = "terminal" /\ last.i = run.bars - 1 /\ ~last.held
  /\ <<last.trades, last.events, last.realized>> = <<Len(v.trades), Len(v.events), v.realized>>
  /\ SameContents(v.states[Len(v.states) - 1], last)

WitnessAccepted(v) ==
  /\ ~v.refused /\ v.failed = "" /\ Len(v.states) >= 2
  /\ Whole(v, v.states[1], v.states[Len(v.states)])
  /\ \E r \in {FoldLeft(LAMBDA r, s : Read(r, s, v.events), Reading(v.states[1]),
                        SubSeq(v.states, 2, Len(v.states) - 1))} :
       r.ok /\ r.stack = <<>> /\ r.marks = run.bars /\ r.events = Len(v.events)

------------------------------------------------------------------------------
(* The finances.  n is the place of an event.                              *)

Moves(v) == {n \in DOMAIN v.events : v.events[n].kind # "mark"}
Marks(v) == {n \in DOMAIN v.events : v.events[n].kind = "mark"}
Entries(v) == {n \in Moves(v) : v.events[n].kind = "entry"}
Exits(v) == Moves(v) \ Entries(v)

Before(S, n) == {m \in S : m < n}

(* The latest entry before an event, and its exits before it.              *)
EntryOf(v, n) == Max(Before(Entries(v), n))
ExitsOf(v, n) == {m \in Before(Exits(v), n) : m > EntryOf(v, n)}

OpenAt(v, n) ==
  /\ Before(Entries(v), n) # {}
  /\ \A m \in ExitsOf(v, n) : v.events[m].kind = "partial"

(* The one final close of a position is the witness of what a partial      *)
(* close left: it is not recomputed.                                       *)
FinalSizes(v, id) == {v.events[m].size : m \in {m \in Exits(v) : v.events[m].kind = "exit" /\ v.events[m].id = id}}

SizeAt(v, n) ==
  LET entry == v.events[EntryOf(v, n)] IN
  IF ExitsOf(v, n) = {} THEN entry.size ELSE CHOOSE x \in FinalSizes(v, entry.id) : TRUE

Sum(v, S, Value(_)) == FoldSet(LAMBDA n, total : total + Value(v.events[n]), 0, S)
Fee(e) == e.fee
Credit(e) == e.credit

RealizedBefore(v, n) == IF Before(Moves(v), n) = {} THEN 0 ELSE v.events[Max(Before(Moves(v), n))].after

(* Events are in the order of the bars, numbered from 0 in each, and each  *)
(* starts from the money that the last one left.  Only the liquidation     *)
(* comes after the mark of its bar.                                        *)
EventsContinue(v) ==
  \A n \in DOMAIN v.events : LET e == v.events[n] IN
    /\ e.i \in Bars /\ e.before = RealizedBefore(v, n)
    /\ n > 1 => e.i >= v.events[n - 1].i
    /\ e.ordinal = Cardinality({m \in 1..n-1 : v.events[m].i = e.i})
    /\ \/ e.i = Cardinality(Before(Marks(v), n))
       \/ /\ Cardinality(Before(Marks(v), n)) = run.bars /\ e.i = run.bars - 1
          /\ e.kind = "exit" /\ e.reason = "eot"

MarkHolds(v, n) ==
  LET e    == v.events[n]
      open == OpenAt(v, n)
      paid(S) == Sum(v, Before(S, n), Fee)
  IN  /\ e.after = e.before
      /\ e.unrealized = IF open THEN Directed(v.events[EntryOf(v, n)].side, v.events[EntryOf(v, n)].price,
                                              Price(run.C, e.i)) * SizeAt(v, n)
                        ELSE 0
      /\ e.equity = run.start + e.before + e.unrealized
      /\ e.entryFees = paid(Entries(v)) /\ e.exitFees = paid(Exits(v))

EntryHolds(v, n) ==
  ~OpenAt(v, n) /\ \A m \in Before(Entries(v), n) : v.events[m].id # v.events[n].id

(* An exit is bound to the broker's own row.                               *)
RowOf(v, n) == v.trades[Cardinality(Before(Exits(v), n)) + 1]

MatchesRow(e, t) ==
  <<e.i, e.side, e.price, e.size, e.credit, e.kind = "partial", e.reason, e.stop>>
    = <<t.out, t.side, t.exit, t.size, t.pnl, t.partial, t.reason, t.stop>>

ExitHolds(v, n) ==
  LET e     == v.events[n]
      entry == v.events[EntryOf(v, n)]
      past  == ExitsOf(v, n)
  IN  /\ OpenAt(v, n) /\ e.id = entry.id /\ e.side = entry.side
      /\ MatchesRow(e, RowOf(v, n))
      /\ RowOf(v, n).at = entry.i /\ RowOf(v, n).entry = entry.price
      /\ Cardinality(FinalSizes(v, e.id)) = 1
      /\ IF e.kind = "partial"
         THEN past = {} /\ e.size <= entry.size /\ \A x \in FinalSizes(v, e.id) : x \in 1..entry.size
         ELSE e.size = SizeAt(v, n) /\ e.net = Sum(v, past, Credit) + e.credit - entry.fee

FinancesAccepted(v) ==
  /\ ~v.held /\ v.open = <<>> /\ v.failed = ""
  /\ Cardinality(Marks(v)) = run.bars
  /\ Cardinality(Exits(v)) = Len(v.trades)
  /\ EventsContinue(v)
  /\ \A n \in Moves(v) : v.events[n].size > 0 /\ v.events[n].fee = Fees(v, v.events[n].size)
  /\ \A n \in Marks(v) : MarkHolds(v, n)
  /\ \A n \in Entries(v) : EntryHolds(v, n)
  /\ \A n \in Exits(v) : ExitHolds(v, n)
  /\ ~OpenAt(v, Len(v.events) + 1)
  /\ v.realized = RealizedBefore(v, Len(v.events) + 1)

(* One mark per bar; the last is taken anew, after the liquidation.        *)
Curve(v) ==
  [i \in Bars |->
     IF i = run.bars - 1
     THEN [realized |-> v.realized, unrealized |-> 0, equity |-> run.start + v.realized]
     ELSE LET e == v.events[CHOOSE n \in Marks(v) : v.events[n].i = i]
          IN  [realized |-> e.after, unrealized |-> e.unrealized, equity |-> e.equity]]

Finances(v) ==
  [start |-> run.start, realized |-> v.realized, marks |-> Curve(v),
   entryFees |-> Sum(v, Entries(v), Fee), exitFees |-> Sum(v, Exits(v), Fee),
   events |-> [n \in 1..Cardinality(Moves(v)) |->
                 v.events[CHOOSE m \in Moves(v) : Cardinality(Before(Moves(v), m)) = n - 1]]]

------------------------------------------------------------------------------
(* The projection validates the finances on their own and reduces them.    *)

MovesBy(f, i) == {n \in DOMAIN f.events : f.events[n].i <= i}

FeesBy(f, i, kinds) ==
  FoldSet(LAMBDA n, total : total + f.events[n].fee, 0, {n \in MovesBy(f, i) : f.events[n].kind \in kinds})

RealizedBy(f, i) == IF MovesBy(f, i) = {} THEN 0 ELSE f.events[Max(MovesBy(f, i))].after

(* Ordinals run from 0 in each bar; the mark that the liquidation follows  *)
(* has taken one of them.                                                  *)
OrdinalHolds(f, n) ==
  LET e == f.events[n]
      k == Cardinality({m \in 1..n-1 : f.events[m].i = e.i})
  IN  \/ e.ordinal = k
      \/ e.ordinal = k + 1 /\ e.i = run.bars - 1 /\ n = Len(f.events) /\ e.kind = "exit"

Projectable(f) ==
  /\ \A n \in DOMAIN f.events : OrdinalHolds(f, n) /\ f.events[n].size > 0
  /\ \A i \in Bars :
       /\ f.marks[i].realized = RealizedBy(f, i)
       /\ f.marks[i].equity = f.start + f.marks[i].realized + f.marks[i].unrealized
  /\ f.entryFees = FeesBy(f, run.bars, {"entry"}) /\ f.exitFees = FeesBy(f, run.bars, {"partial", "exit"})
  /\ f.realized = RealizedBy(f, run.bars)

Completed(f) == {n \in DOMAIN f.events : f.events[n].kind = "exit"}

(* A position's net: its credits less the fee of its entry.                *)
OpenedBy(f, n) == Max({m \in 1..n : f.events[m].kind = "entry"})

(* Mutant: the partial closes of a position are forgotten.                 *)
NetOfClose(f, n) == f.events[n].credit - f.events[OpenedBy(f, n)].fee

NetAt(f, n) ==
  FoldSet(LAMBDA m, total : total + f.events[m].credit, -f.events[OpenedBy(f, n)].fee, OpenedBy(f, n)..n)

Peak(f, i) == Max({f.start} \cup {f.marks[j].equity : j \in 0..i})

Projection(f) ==
  [equity |-> f.marks, completedEnd |-> f.start + f.realized, markedEnd |-> f.marks[run.bars - 1].equity,
   count |-> Cardinality(Completed(f)),
   wins |-> Cardinality({n \in Completed(f) : NetAt(f, n) > 0}),
   losses |-> Cardinality({n \in Completed(f) : NetAt(f, n) < 0}),
   net |-> FoldSet(LAMBDA n, total : total + NetAt(f, n), 0, Completed(f)),
   drawdown |-> Max({Peak(f, i) - f.marks[i].equity : i \in Bars})]
==============================================================================
