-------------------------------- MODULE Loops --------------------------------
(***************************************************************************)
(* The bar loops together: a run is one of LoopRuns, with its parameters   *)
(* and the shape of its series.                                            *)
(***************************************************************************)
EXTENDS LoopClock, LoopCandles, LoopSchedule, LoopReversion

CONSTANT LoopRuns

(* What admission checks of a run, or the code fixes: whole times and days, *)
(* settlement and session dates in their order, sides that are sides.       *)
ASSUME LoopsAssumption ==
  \A r \in LoopRuns :
    /\ r.kind = "clock" =>
         /\ {r.first, r.offset} \subseteq Int /\ r.dayLength \in Nat \ {0} /\ r.allow \subseteq {1, -1}
         /\ r.atrDays \in Nat
         /\ Len(r.series) \in Nat /\ \A n \in 1..Len(r.series) : r.series[n].gaps \subseteq Nat \ {0}
    /\ r.kind = "scheduled" =>
         /\ r.dates \in Seq(Nat) /\ \A m, n \in DOMAIN r.dates : m < n => r.dates[m] < r.dates[n]
         /\ r.side \in {1, -1}
    /\ r.kind = "timed" =>
         /\ Len(r.sessions) \in Nat /\ DOMAIN r.sessions = 1..Len(r.sessions)
         /\ \A n \in DOMAIN r.sessions : r.sessions[n].day \in Nat
         /\ \A m, n \in DOMAIN r.sessions : m < n => r.sessions[m].day < r.sessions[n].day
    /\ r.kind = "gold" => r.spacing \in Nat

InitialMark ==
  CASE loop.kind = "clock" -> [next |-> FirstRangeDay(loop.first)]
    [] loop.kind \in {"flush", "cross"} -> [exiting |-> FALSE, survived |-> 0, exited |-> FALSE]
    [] loop.kind = "shock" -> [next |-> 1, waiting |-> None, busyUntil |-> None]
    [] loop.kind = "sweep" -> [day |-> None, done |-> FALSE, side |-> 0, history |-> <<>>]
    [] loop.kind = "reversion" -> ReversionMark
    [] loop.kind = "gold" -> [last |-> None]
    [] loop.kind = "adaptive" -> [queued |-> "none"]
    [] OTHER -> [next |-> 1]

Init ==
  /\ loop \in LoopRuns
  /\ loop.kind = "clock" => ValidClockRange(loop)
  /\ bars = <<>> /\ phase = "next"
  /\ pos = Flat /\ order = NoOrder
  /\ mark = InitialMark
  /\ trades = <<>> /\ audits = <<>>

Liquidates == {"clock", "flush", "hour", "weekend", "cross", "legacy", "shock"}

Ends == loop.kind \in Liquidates /\ SeriesEnds

Next == NewBar \/ Ends \/ ClockBar \/ CandleLoops \/ ScheduleLoops \/ ReversionLoops

Spec == Init /\ [][Next]_vars

------------------------------------------------------------------------------
(* What an earlier range day read of its daily inputs is what a replay of  *)
(* the longer series reads for that day: the trading day of the range, and *)
(* the days after it, stay out of its ATR and of its prior candle, also    *)
(* when a short date is later joined to the next one.                      *)
DailyInputsCausal ==
  loop.kind = "clock" /\ phase = "next" =>
    \A n \in DOMAIN audits :
      audits[n].daily # NotRead => audits[n].daily = DailyInputs(Len(bars), audits[n].day)

(* An open position is never replaced and never forgotten: it stays what   *)
(* it is but for its stop, or it leaves as the next trade, whatever a bar  *)
(* brings to the loop, a signal, an order that fills, a day that ends or   *)
(* the end of the series.                                                  *)
PositionKept ==
  [][Held => \/ pos'.side # 0 /\ pos' = [pos EXCEPT !.stop = pos'.stop]
             \/ /\ Len(trades') = Len(trades) + 1
                /\ LET t == trades'[Len(trades')]
                   IN  <<t.side, t.entry, t.entered>> = <<pos.side, pos.entry, pos.entered>>]_vars

(* The loops that know of gaps never pay an exit that the market did not   *)
(* offer: no exit is better than the bar's best price, and a stop that was *)
(* carried over the open is not better than the open.                      *)
GapAware ==
  {"clock", "flush", "cross", "legacy", "shock", "scheduled", "reversion", "gold", "adaptive"}

StopReasons ==
  {"stop", "sl", "sl-open", "stop-gap", "gap-stop", "close-latched-stop", "stop-activated-at-close"}

HonestExits ==
  loop.kind \in GapAware =>
    \A n \in DOMAIN trades : LET t == trades[n] IN
      /\ Beyond(t.side, Favorable(t.side, t.out), t.exit) >= 0
      /\ t.reason \in StopReasons /\ t.at < t.out => Beyond(t.side, t.exit, O(t.out)) <= 0

(* What a loop recorded of its days and orders accounts for its positions: *)
(* every range day, settlement day or signal has one row, in their order,  *)
(* and a row says that it was traded when it has one position and no more. *)
TradedOutcomes == {"entered", "stopped", "time-exit", "filled", "closed", "open-terminal", "executed"}

Id(row) == IF loop.kind = "gold" THEN row.at ELSE row.day

PositionsOf(row) ==
  {n \in DOMAIN trades : (IF loop.kind = "gold" THEN trades[n].tag.at ELSE trades[n].tag.day) = Id(row)}
    \cup {0 : n \in {m \in {0} : Held /\ (IF loop.kind = "gold" THEN pos.tag.at ELSE pos.tag.day) = Id(row)}}

RowsAccountForPositions ==
  loop.kind \in {"clock", "scheduled", "timed", "gold"} =>
    /\ \A m, n \in DOMAIN audits : m < n => Id(audits[m]) < Id(audits[n])
    /\ \A n \in DOMAIN audits :
         Cardinality(PositionsOf(audits[n])) = IF audits[n].outcome \in TradedOutcomes THEN 1 ELSE 0
==============================================================================
