------------------------------ MODULE MCSequential ------------------------------
(***************************************************************************)
(* Requests and streams for Sequential.  Prices are multiples of 20, so     *)
(* that a tenth of an average of two ranges is whole; a bar lasts two units *)
(* of time, so that a hole may be off the grid.  A market lists, for each   *)
(* bar, the candles it may be: a few that lead to a Setup, then any.        *)
(***************************************************************************)
EXTENDS Sequential

Doji(c) == [O |-> c, H |-> c, L |-> c, C |-> c]
Wide == [O |-> 60, H |-> 100, L |-> 20, C |-> 60]
Rise == [O |-> 40, H |-> 80, L |-> 40, C |-> 80]
Tall == [O |-> 80, H |-> 140, L |-> 60, C |-> 80]
Gapped == [O |-> 160, H |-> 160, L |-> 60, C |-> 60]
Free == {Doji(40), Doji(80), Wide}
MCCandles == Free \cup {Doji(60), Doji(20), Rise, Tall, Gapped}

Fixed(closes) == [n \in DOMAIN closes |-> {Doji(closes[n])}]
AnyOf(k) == [n \in 1 .. k |-> Free]

(* A flip, then any bars; a fall whose bars 6 and 7 reach far; a Setup with *)
(* a far stop that the other side follows; one that is perfected late.      *)
Flips == <<{Doji(60)}, {Doji(60), Wide}, {Doji(60), Wide}, {Doji(40), Doji(80)}>> \o AnyOf(5)
Fall == Fixed(<<60, 60, 60, 80, 40, 40>>) \o <<{Doji(20), Doji(40)}, {Doji(20)}>>
        \o <<{Doji(40), Rise}, {Doji(20), Doji(80), Wide}>>
Turn == Fixed(<<80, 60, 60, 60, 80>>) \o <<{Tall, Doji(80)}, {Doji(40), Gapped}, {Doji(40), Gapped, Wide},
                                           {Doji(40), Gapped, Wide}, {Doji(40), Doji(80)}>>
Late == <<{Doji(60)}, {Wide}, {Wide}, {Doji(40)}, {Doji(80)}, {Doji(80)},
          {Doji(40), Doji(80), Tall}, {Doji(80), Tall}, {Doji(40), Tall}, {Doji(40)}>>

Stamp == [negative |-> FALSE, digits |-> <<4>>, fraction |-> 0, exponent |-> 0]
Opens(n) == [k \in 1 .. n |-> 2 * (k - 1)]
(* A hole of one bar before bar k.                                          *)
Holed(n, k) == [m \in 1 .. n |-> 2 * (m - 1) + IF m >= k THEN 2 ELSE 0]
OffGrid(n, k) == [m \in 1 .. n |-> 2 * (m - 1) + IF m >= k THEN 3 ELSE 0]

Base == [op |-> "run", version |-> 2, policy |-> "E1", source |-> "pinned", flaws |-> {},
         stamp |-> Stamp, calendar |-> NoCalendar, opens |-> Opens(9), market |-> Flips]
Cal(closures) == [flaws |-> {}, closures |-> closures]
Close1(k) == [from |-> 2 * (k - 1), to |-> 2 * k]

(* Runs: every version on contiguous bars, and version 3 over a hole.       *)
Runs ==
  { [Base EXCEPT !.version = v, !.op = o] : v \in 1 .. 2, o \in {"run"} }
  \cup { [Base EXCEPT !.version = 3, !.op = "admit"] }
  \cup { [Base EXCEPT !.version = v, !.opens = Opens(10), !.market = m] : v \in 2 .. 3, m \in {Turn, Late} }
  \cup { [Base EXCEPT !.version = 3, !.opens = Holed(10, 8), !.calendar = Cal(<<Close1(8)>>), !.market = m] :
            m \in {Turn, Late} }
  \cup { [Base EXCEPT !.version = 3, !.opens = Holed(9, k), !.calendar = Cal(<<Close1(k)>>)] : k \in {6, 7} }
  \cup { [Base EXCEPT !.version = v, !.policy = "E2", !.opens = Opens(10), !.market = Fall] : v \in {2, 3} }
  \cup { [Base EXCEPT !.version = 3, !.policy = "E2", !.opens = Holed(10, 9),
                      !.market = Fall, !.calendar = Cal(<<Close1(9)>>)] }

(* Version 1 has no admit.                                                  *)
Ops(asks) == asks \cup { [a EXCEPT !.op = "admit"] : a \in {x \in asks : x.version # 1} }
Short == [Base EXCEPT !.opens = Opens(2)]
Flaws == {"malformed", "duplicate-key", "unknown-key", "timed-calendar", "trailing", "oversize",
          "not-utf8", "blank-field", "no-costs", "schema", "short-row", "range-method", "strategy",
          "other-route", "auxiliary", "negative-equity", "no-equity", "fill-on-close",
          "negative-cost", "raw-row", "bad-price"}
Refusals ==
  UNION { { [Short EXCEPT !.version = v, !.flaws = f] :
              f \in {{x} : x \in Flaws} \cup {{"fill-on-close", "bad-price"}, {"no-equity", "raw-row"}} }
          \cup { [Short EXCEPT !.version = v, !.source = s] :
                   s \in {"empty", "broken", "errors", "other", "rejected", "full"} }
          \cup { [Short EXCEPT !.version = v, !.opens = o] :
                   o \in {<<>>, <<0, 1, 4>>, <<0, 0>>, Holed(4, 3), OffGrid(4, 2), <<0, 2, 300>>} }
          : v \in 1 .. 3 }
Stamps ==
  { [Short EXCEPT !.version = v, !.stamp = [negative |-> g, digits |-> d, fraction |-> f, exponent |-> e]] :
      v \in {2}, g \in BOOLEAN, d \in {<<0>>, <<0, 4>>, <<4, 0>>, <<1, 2, 5>>, <<9, 0, 0>>, <<9, 9, 9>>},
      f \in 0 .. 1, e \in {-6, -2, -1, 0, 1, 2, 6} }
Calendars ==
  { [Short EXCEPT !.version = 3, !.opens = o,
                  !.calendar = [flaws |-> f, closures |-> c]] :
      o \in {Holed(4, 3), OffGrid(4, 3), [n \in 1 .. 4 |-> 6 * (n - 1)], Opens(3)},
      f \in {{}} , c \in {<<>>, <<[from |-> 4, to |-> 6]>>, <<[from |-> 2, to |-> 6]>>,
                          <<[from |-> 4, to |-> 8]>>, <<[from |-> 4, to |-> 7]>>,
                          <<[from |-> 2, to |-> 4], [from |-> 4, to |-> 6]>>,
                          <<[from |-> 2, to |-> 6], [from |-> 8, to |-> 12], [from |-> 14, to |-> 18]>>,
                          <<[from |-> 8, to |-> 12]>>} }
  \cup { [Short EXCEPT !.version = 3, !.opens = Holed(4, 3),
                       !.calendar = [flaws |-> {f}, closures |-> <<Close1(3)>>]] :
           f \in {"malformed", "schema", "timeframe", "digest", "other-symbol", "other-timeframe"} }

(* A caller of the core.                                                    *)
CoreCalls ==
  { [Base EXCEPT !.op = "core", !.market = m] :
      m \in { Fixed(<<60, 60, 60, 80, 40>>) \o <<{Doji(20), Doji(40)}, {Doji(20), Wide}, {Doji(20), Doji(40)},
                                                  {Doji(20), Doji(80)}, {Doji(20)}>>,
              Fixed(<<60, 60, 60, 40, 80, 80>>) \o <<{Doji(80), Wide}, {Doji(40), Doji(80)}, {Doji(40)}, {Doji(20)}>>,
              Fixed(<<60, 60, 60, 80, 40, 40, 20, 40, 30, 40>>) \o <<{Doji(60), Doji(20)}>> } }

MCAsks == Runs \cup Ops(Refusals \cup Stamps \cup Calendars) \cup CoreCalls
MCHold == [p \in {"E1", "E2"} |-> IF p = "E1" THEN 2 ELSE 1]
===============================================================================
