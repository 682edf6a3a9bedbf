------------------------------ MODULE HigherSeries ------------------------------
(***************************************************************************)
(* The trend of a higher timeframe, as a chart bar reads it at its close   *)
(* (engine/runner.go, computeHTFTrend): that of the last higher bar that   *)
(* is completed by then, unless it is stale.  No series is handed its      *)
(* width: it is the least distance of two bars, of the whole series.       *)
(*                                                                         *)
(* A bar of the higher series has its open time t in hours, o and c.       *)
(***************************************************************************)
EXTENDS Integers, Sequences, FiniteSetsExt

(* inferSeriesDurationMs: 0 unless two bars are apart.                     *)
Spacing(opens) ==
  LET steps == {d \in {opens[k] - opens[k - 1] : k \in DOMAIN opens \ {1}} : d > 0}
  IN IF steps = {} THEN 0 ELSE Min(steps)
SpacingOf(S) == Spacing([k \in DOMAIN S |-> S[k].t])

CompletedBars(S, width, decision) == {p \in DOMAIN S : S[p].t + width <= decision}
LatestCompleted(S, width, decision) == Max({0} \cup CompletedBars(S, width, decision))

(* A closure is a Saturday, or a hole of a week.                           *)
SpansWeekendClosure(from, to) ==
  \/ to - from >= 7 * 24
  \/ from < to /\ \E d \in from \div 24 .. (to - 1) \div 24 : d % 7 = 2

(* The end of the hole after bar p is the open of the next bar, which is   *)
(* not closed at the decision and need not be open.                        *)
HoleEnd(S, p, decision) == IF p < Len(S) THEN S[p + 1].t ELSE decision

InHole(S, p, width, decision) == decision - (S[p].t + width) >= width

StaleBar(S, p, width, decision) ==
  /\ InHole(S, p, width, decision)
  /\ ~SpansWeekendClosure(S[p].t + width, HoleEnd(S, p, decision))

TrendOfBar(bar) == IF bar.c > bar.o THEN 1 ELSE IF bar.c < bar.o THEN -1 ELSE 0

(* << >> where no trend is available: a gate on the trend then refuses.    *)
HigherTrend(H, chartWidth, open) ==
  LET width == SpacingOf(H)
      decision == open + chartWidth
      p == LatestCompleted(H, width, decision)
  IN IF chartWidth = 0 \/ width = 0 \/ p = 0 THEN << >>
     ELSE IF StaleBar(H, p, width, decision) THEN << >>
     ELSE << TrendOfBar(H[p]) >>
===============================================================================
