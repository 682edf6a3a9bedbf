------------------------------ MODULE SeqAdmission ------------------------------
(***************************************************************************)
(* What is asked of the sequential companions and when it is refused before *)
(* anything runs: the transport (cmd/enginewasm/sequential_bridge.go and    *)
(* the two market bridges), the admission of each version                   *)
(* (engine/sequential_admission.go, sequential_accounting.go,               *)
(* sequential_market.go, sequential_market_v3.go), the closure calendar     *)
(* (engine/sequential_closure_calendar.go) and the source inspection        *)
(* (engine/sequential_inspection.go).                                       *)
(*                                                                         *)
(* An ask is a record: the version, the kind of its source, the flaws its   *)
(* request has, the open times of its bars, the decimal spelling of one of  *)
(* them, and the calendar.  A refusal is the code, the field and the bar    *)
(* (0 for none) of the error; NoError is success.  Sizes and depths are     *)
(* flaws too.  The legacy strategies of version 1, which the generic broker *)
(* runs, are left out.                                                      *)
(***************************************************************************)
EXTENDS Integers, Sequences, FiniteSets, SequencesExt, FiniteSetsExt

CONSTANTS
  StepTime,   \* the milliseconds of the source's timeframe
  MaxTime,    \* the largest exact millisecond, 2^53 - 1
  Digits,     \* decimal digits MaxTime may have, 16
  MaxListed   \* the gaps a timeline lists, 32

NoError == [code |-> "", field |-> "", bar |-> 0]
Error(code, field) == [code |-> code, field |-> field, bar |-> 0]
ErrorAt(code, field, bar) == [code |-> code, field |-> field, bar |-> bar]
Accounting(field) == Error("invalid-sequential-accounting", field)
Input(field) == Error("invalid-sequential-input", field)

(* The first check that fails, in the order of the code: each row is a      *)
(* condition and the error it answers with.                                 *)
FirstOf(rows) ==
  LET failing == {n \in DOMAIN rows : rows[n][1]}
  IN IF failing = {} THEN NoError ELSE rows[Min(failing)][2]
Then(error, next) == IF error # NoError THEN error ELSE next
--------------------------------------------------------------------------------
(* sequentialExactJSONTimestamp, on the spelling of a number: its sign, its *)
(* digits, how many of them follow the point, and its exponent.             *)

ValueOf(digits) == FoldLeft(LAMBDA value, d : 10 * value + d, 0, digits)
Significant(digits) ==
  LET nonzero == {n \in DOMAIN digits : digits[n] # 0}
  IN IF nonzero = {} THEN <<>> ELSE SubSeq(digits, Min(nonzero), Len(digits))
Zeros(n) == [k \in 1 .. n |-> 0]

Spelled(stamp) == Len(stamp.digits) + IF stamp.fraction > 0 THEN 1 ELSE 0

(* The digits that are left when the scale is removed, or << >> for none.   *)
Cut(digits, remove) ==
  IF remove >= Len(digits) THEN <<>>
  ELSE IF \E n \in Len(digits) - remove + 1 .. Len(digits) : digits[n] # 0 THEN <<>>
  ELSE SubSeq(digits, 1, Len(digits) - remove)

ExactStamp(stamp) ==
  LET digits == Significant(stamp.digits)
      scale  == stamp.exponent - stamp.fraction
      scaled == IF scale < 0 THEN Cut(digits, -scale)
                ELSE IF Len(digits) + scale > Digits THEN <<>>
                ELSE digits \o Zeros(scale)
  IN \/ digits = <<>>
     \/ /\ ~stamp.negative
        /\ stamp.exponent \in -Spelled(stamp) .. Spelled(stamp) + Digits
        /\ Len(scaled) \in 1 .. Digits
        /\ ValueOf(scaled) <= MaxTime
--------------------------------------------------------------------------------
(* Sources.  What dsl.Parse and DecodeSequentialFullConfig make of them.    *)

Parsed(source) == source \notin {"empty", "broken"}
Clean(source) == Parsed(source) /\ source # "errors"
Full(source) == source \in {"rejected", "full", "pinned"}
Decoded(source) == source \in {"full", "pinned"}

(* ParseSequentialMarketSource.                                             *)
MarketSource(source) == FirstOf(<<
  << ~Parsed(source), Accounting("source.parse") >>,
  << source = "rejected", Error("unsupported_config", "source") >>,
  << ~Clean(source), Accounting("source.parse") >>,
  << ~Full(source), Accounting("source.family") >> >>)

(* InspectSequentialSource: parsed and engine support, or the failure.      *)
Inspect(source) ==
  CASE source = "empty" -> [failure |-> "SEQUENTIAL_INSPECTION_SOURCE", parsed |-> "", engine |-> ""]
    [] source = "broken" -> [failure |-> "SEQUENTIAL_INSPECTION_PARSE", parsed |-> "", engine |-> ""]
    [] source = "errors" -> [failure |-> "", parsed |-> "unsupported", engine |-> "unknown"]
    [] ~Full(source) /\ Clean(source) -> [failure |-> "", parsed |-> "supported", engine |-> "unknown"]
    [] ~Decoded(source) /\ Full(source) -> [failure |-> "", parsed |-> "supported", engine |-> "unsupported"]
    [] OTHER -> [failure |-> "", parsed |-> "supported", engine |-> "supported"]
--------------------------------------------------------------------------------
(* The transport: sequentialMarketDecode, decodeSequentialFixture and the   *)
(* envelope walk of ValidateSequentialFullJSONEnvelope.                     *)

Flaw(ask, name) == name \in ask.flaws

Envelope(ask) == FirstOf(<<
  << Flaw(ask, "malformed"), Input("$") >>,
  << Flaw(ask, "duplicate-key"), Input("duplicate-key") >>,
  << Flaw(ask, "unknown-key"), Error("unsupported_config", "key") >>,
  << Flaw(ask, "timed-calendar"), Error("unsupported-sequential-route", "timedCalendar") >>,
  << ~ExactStamp(ask.stamp), Input("bars.timestamp") >>,
  << Flaw(ask, "trailing"), Input("trailing JSON") >> >>)

Decode(ask) ==
  Then(FirstOf(<<
    << Flaw(ask, "oversize"), Error("SEQUENTIAL_FIXTURE_INVALID", "fixture") >>,
    << ask.source = "empty", Error("SEQUENTIAL_DSL_INVALID", "source") >>,
    << Flaw(ask, "not-utf8"), Error("SEQUENTIAL_FIXTURE_INVALID", "fixture") >> >>),
  Then(Envelope(ask), FirstOf(<<
    << Flaw(ask, "blank-field"), Error("SEQUENTIAL_FIXTURE_INVALID", "case") >>,
    << Flaw(ask, "no-costs"), Error("SEQUENTIAL_FIXTURE_INVALID", "costs") >>,
    << Len(ask.opens) = 0, Error("SEQUENTIAL_FIXTURE_INVALID", "bars") >>,
    << Flaw(ask, "schema"), Error("SEQUENTIAL_FIXTURE_INVALID", "schema") >>,
    << Flaw(ask, "short-row"), ErrorAt("invalid-sequential-input", "bars.shape", 1) >> >>)))
--------------------------------------------------------------------------------
(* The bars.  Times are exact and in order; a bad price is that of bar 1.   *)

FirstBar(opens, Bad(_)) ==
  LET bad == {n \in DOMAIN opens : Bad(n)} IN IF bad = {} THEN 0 ELSE Min(bad)
At(code, field, bar) == IF bar = 0 THEN NoError ELSE ErrorAt(code, field, bar)

OutOfRange(ask, n) == ask.opens[n] > MaxTime - StepTime
Spacing(ask, n) == ask.opens[n] - ask.opens[n-1]

(* validateSequentialAccountingFixture and ValidateSequentialMarketFixture  *)
(* differ in the least spacing they admit.                                  *)
BadBar(ask, n, least) == \/ OutOfRange(ask, n)
                         \/ n = 1 /\ Flaw(ask, "bad-price")
                         \/ n > 1 /\ Spacing(ask, n) < least
Bars(ask, least) ==
  LET bad == FirstBar(ask.opens, LAMBDA n : BadBar(ask, n, least))
  IN IF bad = 1 /\ ~OutOfRange(ask, 1)
     THEN ErrorAt("invalid-sequential-accounting", "bars", 1)
     ELSE At("invalid-sequential-accounting", "bars.timestamp", bad)

(* validateSequentialFullCosts.                                             *)
Costs(ask) == FirstOf(<<
  << Flaw(ask, "fill-on-close"), Error("unsupported_config", "costs.fillOn") >>,
  << Flaw(ask, "negative-cost"), Error("unsupported_config", "costs.slippage") >> >>)

(* validateSequentialFullRequest, after an accounting admission: only the   *)
(* costs and the spacing are left to be refused.                            *)
TimeGap == "unsupported-sequential-time-gap"
StepByStep(ask) ==
  At(TimeGap, "series.timestamp",
     FirstBar(ask.opens, LAMBDA n : n > 1 /\ Spacing(ask, n) # StepTime))
Request(ask) == Then(Costs(ask), StepByStep(ask))

AdmitV1(ask) ==
  Then(FirstOf(<<
    << Flaw(ask, "range-method"), Accounting("rangeMethod") >>,
    << Flaw(ask, "strategy"), Accounting("strategyId") >>,
    << ask.source # "pinned", Accounting("source.sha256") >>,
    << Flaw(ask, "other-route"), Accounting("route") >>,
    << Flaw(ask, "auxiliary"), Accounting("additional source or calendar") >>,
    << Flaw(ask, "negative-equity"), Accounting("startEquity") >>,
    << Flaw(ask, "negative-cost"), Accounting("costs") >>,
    << Flaw(ask, "raw-row"), Accounting("bars.raw") >> >>),
  Then(Bars(ask, 1), Request(ask)))

ValidateMarket(ask) ==
  Then(MarketSource(ask.source),
  Then(FirstOf(<<
    << Flaw(ask, "range-method"), Accounting("rangeMethod") >>,
    << Flaw(ask, "other-route"), Accounting("route") >>,
    << Flaw(ask, "auxiliary"), Accounting("additional source or calendar") >>,
    << Flaw(ask, "no-equity") \/ Flaw(ask, "negative-equity"), Accounting("costs.startEquity") >> >>),
  Then(Costs(ask), Then(FirstOf(<< << Flaw(ask, "raw-row"), Accounting("bars.raw") >> >>),
       Bars(ask, StepTime)))))
AdmitV2(ask) == Then(ValidateMarket(ask), Request(ask))
--------------------------------------------------------------------------------
(* The closure calendar.  Closures are records [from, to].                  *)

NoCalendar == [none |-> TRUE]
Calendar(error) == Error("invalid-sequential-calendar", error)
CalendarAt(error, k) == ErrorAt("invalid-sequential-calendar", error, k)

(* DecodeSequentialClosureCalendar.                                         *)
ClosureRefusal(closures, k) ==
  LET c == closures[k] IN FirstOf(<<
    << c.to > MaxTime \/ c.to <= c.from, CalendarAt("calendar.closures.interval", k) >>,
    << (c.to - c.from) % StepTime # 0, CalendarAt("calendar.closures.grid", k) >>,
    << k > 1 /\ c.from <= closures[k-1].to, CalendarAt("calendar.closures.order", k) >> >>)
DecodeCalendar(calendar) ==
  IF calendar = NoCalendar THEN NoError
  ELSE LET bad == FirstBar(calendar.closures, LAMBDA k : ClosureRefusal(calendar.closures, k) # NoError)
       IN Then(FirstOf(<<
            << "malformed" \in calendar.flaws, Calendar("calendar.json") >>,
            << "schema" \in calendar.flaws, Calendar("calendar.schema") >>,
            << "timeframe" \in calendar.flaws, Calendar("calendar.timeframe") >> >>),
          Then(IF bad = 0 THEN NoError ELSE ClosureRefusal(calendar.closures, bad),
               FirstOf(<< << "digest" \in calendar.flaws, Calendar("calendar.sha256") >> >>)))

(* BindRoute.                                                               *)
Binds(calendar) == FirstOf(<<
  << "other-symbol" \in calendar.flaws, Calendar("calendar.symbol") >>,
  << "other-timeframe" \in calendar.flaws, Calendar("calendar.timeframe") >> >>)

(* closureIndexFor: 0 for none.  sort.Search takes the first start at or    *)
(* after the first missing open.                                            *)
ClosureByStart(closures, previous, open) ==
  LET later == {k \in DOMAIN closures : closures[k].from >= previous + StepTime}
      k     == IF later = {} THEN 0 ELSE Min(later)
  IN IF k # 0 /\ closures[k].from = previous + StepTime THEN k ELSE 0
ClosureFor(closures, previous, open) ==
  LET later == {k \in DOMAIN closures : closures[k].from >= previous + StepTime}
      k     == IF later = {} THEN 0 ELSE Min(later)
  IN IF k # 0 /\ closures[k].from = previous + StepTime /\ closures[k].to = open THEN k ELSE 0

Hole(ask, n) == n > 1 /\ Spacing(ask, n) > StepTime
Holes(ask) == {n \in DOMAIN ask.opens : Hole(ask, n)}
Declared(ask, n) ==
  ask.calendar # NoCalendar /\ ClosureFor(ask.calendar.closures, ask.opens[n-1], ask.opens[n]) # 0

(* MatchBars, and firstUndeclaredGap without a calendar.                    *)
ContainsBar(ask, k) ==
  LET c     == ask.calendar.closures[k]
      later == {n \in DOMAIN ask.opens : ask.opens[n] >= c.from}
  IN later # {} /\ ask.opens[Min(later)] < c.to
MatchBars(ask) ==
  LET uncovered == FirstBar(ask.opens, LAMBDA n : Hole(ask, n) /\ ~Declared(ask, n))
      inside    == IF ask.calendar = NoCalendar THEN 0
                   ELSE FirstBar(ask.calendar.closures, LAMBDA k : ContainsBar(ask, k))
  IN Then(At(TimeGap, "series.timestamp", uncovered),
          At("invalid-sequential-calendar", "closures.contains-bar", inside))

AdmitV3(ask) ==
  Then(ValidateMarket(ask),
  Then(IF ask.calendar = NoCalendar THEN NoError ELSE Binds(ask.calendar), MatchBars(ask)))

Admission(ask) ==
  CASE ask.version = 1 -> Then(Decode(ask), AdmitV1(ask))
    [] ask.version = 2 -> Then(Decode(ask), AdmitV2(ask))
    [] ask.version = 3 -> Then(Decode(ask), Then(DecodeCalendar(ask.calendar), AdmitV3(ask)))
--------------------------------------------------------------------------------
(* The timeline an admit reply shows: every hole, at most MaxListed of them *)
(* listed, and with a calendar those it does not declare first.             *)

Listed(holes) == {n \in holes : Cardinality({m \in holes : m < n}) < MaxListed}
Timeline(ask) == [gaps |-> Cardinality(Holes(ask)), listed |-> Listed(Holes(ask)),
                  undeclared |-> 0]
TimelineV3(ask) ==
  LET shown == [ask EXCEPT !.calendar = IF @ # NoCalendar /\ Binds(@) # NoError THEN NoCalendar ELSE @]
      open  == {n \in Holes(ask) : ~Declared(shown, n)}
      first == Listed(open)
      rest  == Holes(ask) \ open
  IN [gaps |-> Cardinality(Holes(ask)), undeclared |-> Cardinality(open),
      listed |-> first \cup
        {n \in rest : Cardinality({m \in rest : m < n}) < MaxListed - Cardinality(first)}]

(* The reply of the admit operation, before anything ran: the route is only *)
(* known once the source has passed.                                        *)
Shown(ask) ==
  LET known == /\ Decode(ask) = NoError /\ MarketSource(ask.source) = NoError
               /\ ask.version = 3 => DecodeCalendar(ask.calendar) = NoError
  IN IF ~known THEN {} ELSE {IF ask.version = 3 THEN TimelineV3(ask) ELSE Timeline(ask)}

(* sequentialMarketDisposition.                                             *)
Disposition(error) ==
  IF error = NoError THEN "runnable"
  ELSE IF \/ error.code \in {"unsupported_config", "unsupported-sequential-route", TimeGap,
                             "unsupported-incomplete-terminal-run"}
          \/ /\ error.code = "invalid-sequential-accounting"
             /\ error.field \in {"source.family", "additional source or calendar"}
  THEN "unsupported" ELSE "invalid"
===============================================================================
