-------------------------------- MODULE SeqLedger --------------------------------
(***************************************************************************)
(* The accounting collector that observes the broker of a sequential run   *)
(* (engine/sequential_accounting.go) and the projection of its ledger into *)
(* the metrics of a result (report/sequential_metrics.go and               *)
(* report/sequential_market_metrics.go).                                   *)
(*                                                                         *)
(* Money is an integer, so that the checks for finite values and the       *)
(* rounding budget of the reconciliation, which is then zero, are left     *)
(* out; so are the quotients of the headline (rates, averages, percents).  *)
(***************************************************************************)
EXTENDS Integers, Sequences, SequencesExt

CONSTANTS StartEquity, FeePerUnit

NoEntry == [none |-> TRUE]

(* newSequentialAccountingCollector.                                       *)
EmptyBook == [open |-> NoEntry, realized |-> 0, marks |-> <<>>, rows |-> <<>>,
              events |-> <<>>, failed |-> ""]

(* mutation: the chain of the realized money must not be broken.           *)
Mutation(book, kind, index, before, after, amount) ==
  [book EXCEPT
     !.failed = IF before # book.realized THEN "realized continuity" ELSE @,
     !.events = Append(@, [kind |-> kind, trade |-> Len(book.rows) + 1, index |-> index,
                           before |-> before, after |-> after, amount |-> amount]),
     !.realized = after]

(* Called by openPosition after the entry fee was charged.                 *)
OnEntry(book, pos, trades, before, after) ==
  IF book.failed # "" THEN book
  ELSE IF book.open # NoEntry \/ Len(trades) # Len(book.rows)
  THEN [book EXCEPT !.failed = "entry identity"]
  ELSE Mutation([book EXCEPT !.open = [from |-> pos.from, side |-> pos.side, size |-> pos.size,
                                       entry |-> pos.entry, fee |-> FeePerUnit * pos.size]],
                "entry", pos.from, before, after, FeePerUnit * pos.size)

Row(open, trade) ==
  [from |-> open.from, to |-> trade.to, side |-> open.side, size |-> open.size, entryFee |-> open.fee,
   exitFee |-> FeePerUnit * trade.size, credit |-> trade.pnl, net |-> trade.pnl - open.fee]

(* Mutant: the entry fee is not taken from the trade's net.                *)
RowWithoutEntryFee(open, trade) == [Row(open, trade) EXCEPT !.net = trade.pnl]

RowOf(open, trade) == Row(open, trade)

(* Called by closePosition after the trade was recorded.                   *)
OnExit(book, trades, before, after) ==
  IF book.failed # "" THEN book
  ELSE IF book.open = NoEntry \/ Len(trades) # Len(book.rows) + 1
  THEN [book EXCEPT !.failed = "exit identity"]
  ELSE LET trade == trades[Len(trades)] IN
       IF book.open.from # trade.from \/ book.open.side # trade.side \/ book.open.size # trade.size
       THEN [book EXCEPT !.failed = "trade identity"]
       ELSE [Mutation(book, "exit", trade.to, before, after, trade.pnl)
              EXCEPT !.rows = Append(@, RowOf(book.open, trade)), !.open = NoEntry]

(* One mark of every bar, after all that the bar did.                      *)
OnMark(book, pos, held, realized, close, n) ==
  IF book.failed # "" THEN book
  ELSE IF n # Len(book.marks) + 1 THEN [book EXCEPT !.failed = "mark index"]
  ELSE IF realized # book.realized THEN [book EXCEPT !.failed = "mark realized continuity"]
  ELSE IF held /\ book.open = NoEntry THEN [book EXCEPT !.failed = "mark position"]
  ELSE LET floating == IF held THEN (close - pos.entry) * pos.side * pos.size ELSE 0
       IN [book EXCEPT !.marks = Append(@, [realized |-> realized, floating |-> floating,
                                            equity |-> StartEquity + realized + floating])]

(* finish: the book of a run that ended flat.                              *)
FinishRefusal(book, count, trades) ==
  IF book.failed # "" THEN book.failed
  ELSE IF \/ book.open # NoEntry \/ Len(book.marks) # count
          \/ Len(book.rows) # Len(trades) \/ Len(book.events) # 2 * Len(trades)
  THEN "terminal count or position"
  ELSE IF book.marks[count].equity # StartEquity + book.realized
  THEN "terminal equity or realized"
  ELSE IF book.marks[count].floating # 0 THEN "terminal unrealized"
  ELSE ""

(* The end of RunSequentialMarketV3: an open position is an event more.    *)
OpenFinishRefusal(book, count, trades, held, realized) ==
  IF book.failed # "" THEN book.failed
  ELSE IF held # (book.open # NoEntry) THEN "open position identity"
  ELSE IF book.marks[count].realized # realized THEN "terminal equity or realized"
  ELSE IF \/ Len(book.marks) # count \/ Len(book.rows) # Len(trades)
          \/ Len(book.events) # 2 * Len(trades) + IF held THEN 1 ELSE 0
  THEN "terminal counts"
  ELSE ""
--------------------------------------------------------------------------------
(* The projection.  A ledger: rows, events, marks and the final realized.  *)

Ledger(book) == [rows |-> book.rows, events |-> book.events, marks |-> book.marks,
                 realized |-> book.realized]

SumOf(rows, Value(_)) == FoldLeft(LAMBDA sum, r : sum + Value(r), 0, rows)

RowsBound(a, trades) ==
  /\ a.marks # <<>> /\ Len(a.rows) = Len(trades) /\ Len(a.events) = 2 * Len(a.rows)
  /\ \A k \in DOMAIN a.rows :
       LET r == a.rows[k] IN
         /\ r.from <= r.to /\ r.to <= Len(a.marks)
         /\ r.from = trades[k].from /\ r.to = trades[k].to /\ r.side = trades[k].side
         /\ r.size >= 0 /\ r.entryFee >= 0 /\ r.exitFee >= 0
         /\ r.net = r.credit - r.entryFee

(* Each trade is an entry and an exit of one chain, in the order of bars.  *)
EventBound(a, n, kind, index, amount) ==
  LET e == a.events[n] IN
    /\ e.kind = kind /\ e.trade = (n + 1) \div 2 /\ e.index = index /\ e.amount = amount
    /\ e.before = IF n = 1 THEN 0 ELSE a.events[n-1].after
    /\ n > 1 => e.index >= a.events[n-1].index
ChainBound(a) ==
  /\ \A k \in DOMAIN a.rows :
       LET r == a.rows[k] IN
         /\ EventBound(a, 2*k - 1, "entry", r.from, r.entryFee)
         /\ EventBound(a, 2*k, "exit", r.to, r.credit)
  /\ a.realized = IF a.events = <<>> THEN 0 ELSE a.events[Len(a.events)].after
  /\ a.realized = SumOf(a.rows, LAMBDA r : r.net)

(* Each mark carries the money of the last event up to it.                 *)
UpTo(a, n) == SelectSeq(a.events, LAMBDA e : e.index <= n)
MarkBound(a, n) ==
  LET m == a.marks[n]
      past == UpTo(a, n)
      flat == past = <<>> \/ past[Len(past)].kind = "exit"
  IN /\ m.realized = IF past = <<>> THEN 0 ELSE past[Len(past)].after
     /\ m.equity = StartEquity + m.realized + m.floating
     /\ flat => m.floating = 0

(* validateSequentialAccounting.                                           *)
Projectable(a, trades) ==
  /\ StartEquity > 0
  /\ RowsBound(a, trades) /\ ChainBound(a)
  /\ \A n \in DOMAIN a.marks : MarkBound(a, n)
  /\ a.marks[Len(a.marks)].floating = 0
  /\ a.marks[Len(a.marks)].equity = StartEquity + a.realized

(* The reduction of the marks: the peak starts at the start equity.        *)
Larger(x, y) == IF x > y THEN x ELSE y
Smaller(x, y) == IF x < y THEN x ELSE y
Drawdown(marks) ==
  FoldLeft(LAMBDA d, m : [peak |-> Larger(d.peak, m.equity),
                          most |-> Larger(d.most, Larger(d.peak, m.equity) - m.equity)],
           [peak |-> StartEquity, most |-> 0], marks).most

(* The reduction of the trades: a trade that did not win is a loss.        *)
Reduced == [wins |-> 0, won |-> 0, lost |-> 0, worst |-> 0, held |-> 0,
            run |-> 0, winStreak |-> 0, lossStreak |-> 0]
Reduce(h, r) ==
  LET run == IF r.net > 0 THEN Larger(h.run, 0) + 1 ELSE Smaller(h.run, 0) - 1
  IN [wins |-> h.wins + IF r.net > 0 THEN 1 ELSE 0,
      won  |-> h.won + Larger(r.net, 0),
      lost |-> h.lost - Smaller(r.net, 0),
      worst |-> Smaller(h.worst, r.net),
      held |-> h.held + r.to - r.from,
      run  |-> run,
      winStreak |-> Larger(h.winStreak, run),
      lossStreak |-> Larger(h.lossStreak, -run)]

Headline(a) ==
  [net |-> a.realized, end |-> StartEquity + a.realized, trades |-> Len(a.rows),
   drawdown |-> Drawdown(a.marks)] @@ FoldLeft(Reduce, Reduced, a.rows)

(* ProjectSequentialMarketMetrics: the view of the completed trades of a   *)
(* ledger that ends with a position, and the marked view of all of it.     *)
Completed(a) ==
  LET entry == a.events[Len(a.events)]
      settled == IF a.rows = <<>> THEN 0 ELSE a.events[Len(a.events) - 1].after
  IN [a EXCEPT !.events = Front(@), !.realized = settled,
        !.marks = [n \in DOMAIN @ |->
           IF n < entry.index THEN @[n]
           ELSE [realized |-> settled, floating |-> 0, equity |-> StartEquity + settled]]]
OpenBound(a) ==
  LET entry == a.events[Len(a.events)] IN
    /\ entry.kind = "entry" /\ entry.trade = Len(a.rows) + 1 /\ entry.index <= Len(a.marks)
    /\ a.rows # <<>> => entry.index >= a.rows[Len(a.rows)].to
    /\ \A n \in entry.index .. Len(a.marks) :
         a.marks[n].realized = entry.after
         /\ a.marks[n].equity = StartEquity + a.marks[n].realized + a.marks[n].floating
EndsOpen(a) == Len(a.events) = 2 * Len(a.rows) + 1

MarketProjectable(a, trades) ==
  IF EndsOpen(a) THEN OpenBound(a) /\ Projectable(Completed(a), trades)
  ELSE Projectable(a, trades)

MarketMetrics(a) ==
  LET last == a.marks[Len(a.marks)] IN
  IF EndsOpen(a)
  THEN [headline |-> [Headline(Completed(a)) EXCEPT !.drawdown = Drawdown(a.marks)],
        marked |-> [end |-> last.equity, net |-> last.realized + last.floating,
                    floating |-> last.floating, fee |-> a.events[Len(a.events)].amount]]
  ELSE [headline |-> Headline(a),
        marked |-> [end |-> StartEquity + a.realized, net |-> a.realized, floating |-> 0, fee |-> 0]]
===============================================================================
