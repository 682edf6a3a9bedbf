------------------------------ MODULE MCBacktest ------------------------------
(***************************************************************************)
(* Small calls of the ordinary backtest: every flaw and class of request   *)
(* alone and in pairs, runs of two and three bars, and grids of variants.  *)
(* In other behaviours, invocations of forward-prefix instead; the two     *)
(* share no state.                                                         *)
(***************************************************************************)
EXTENDS Backtest, ForwardPrefix

Config ==
  [setup |-> "flagContinuation", reserved |-> {}, source |-> FALSE, htf |-> "off", retest |-> FALSE,
   profile |-> FALSE, flaw |-> "", sar |-> "none", columns |-> "base", setupColumns |-> "none",
   hidden |-> 0, depth |-> 1]

(* Configurations one or two changes away from an ordinary one.            *)
Changed(cfg) ==
  {[cfg EXCEPT !.setup = s] : s \in {"supplyDemand", "legacySetup9", "downShockRebound", "scheduledTrade",
                                     "timedReturn", "unknown"}}
    \cup {[cfg EXCEPT !.reserved = {d}] : d \in {"sequentialFull", "masterStructural", "frozenLevelBreakout"}}
    \cup {[cfg EXCEPT !.source = TRUE], [cfg EXCEPT !.retest = TRUE], [cfg EXCEPT !.profile = TRUE],
          [cfg EXCEPT !.sar = "a"], [cfg EXCEPT !.columns = "wide"]}
    \cup {[cfg EXCEPT !.htf = h] : h \in {"agree", "legacy"}}
    \cup {[cfg EXCEPT !.flaw = f] : f \in {"text", "sar", "lists", "sequential"}}
    \cup {[cfg EXCEPT !.hidden = h, !.depth = h] : h \in 1..MaxDepth+1}

Configs == {Config} \cup Changed(Config) \cup UNION {Changed(c) : c \in Changed(Config)}

Ask ==
  [operation |-> "run", flaws |-> {}, producer |-> TRUE, data |-> "good", timeframe |-> TRUE,
   allowed |-> TRUE, onEntry |-> FALSE, fill |-> "close", cfg |-> Config, output |-> "", panics |-> FALSE]

AskedFlaws == {"arguments", "source", "size", "encoding", "duplicate", "deep", "unknown", "missing",
               "bars", "text"}

(* Calls that are about the request: one bar, and no size to trade.        *)
Requests ==
  {[Ask EXCEPT !.flaws = {f, g}, !.data = d, !.operation = o] :
     f \in AskedFlaws, g \in AskedFlaws, d \in {"none", "good"}, o \in {"inspect", "run"}}
    \cup {[Ask EXCEPT !.cfg = c, !.operation = o, !.data = d, !.fill = f] :
            c \in Configs, o \in {"inspect", "run"}, d \in {"none", "good", "disordered", "forming"},
            f \in {"close", "nextOpen"}}
    \cup {[Ask EXCEPT !.allowed = a, !.timeframe = t, !.onEntry = e, !.producer = p, !.panics = q,
                      !.output = x, !.operation = o] :
            a \in BOOLEAN, t \in BOOLEAN, e \in BOOLEAN, p \in BOOLEAN, q \in BOOLEAN,
            x \in {"", "OUTPUT_LIMIT", "NONFINITE_OUTPUT"}, o \in {"inspect", "run"}}

(* Calls that are about the run.                                           *)
Bars2(sizes, acts, fee, slip, events) ==
  [bars |-> 2, O |-> <<10, 12>>, C |-> <<11, 9>>, start |-> 100, fee |-> fee, slip |-> slip,
   sizes |-> sizes, acts |-> acts, maxEvents |-> events]

Bars3(sizes) ==
  [bars |-> 3, O |-> <<10, 12, 8>>, C |-> <<11, 9, 12>>, start |-> 100, fee |-> 1, slip |-> 0,
   sizes |-> sizes, acts |-> 2, maxEvents |-> 40]

Quiet == [bars |-> 1, O |-> <<10>>, C |-> <<11>>, start |-> 100, fee |-> 1, slip |-> 1,
          sizes |-> {}, acts |-> 0, maxEvents |-> 40]

MCRuns == {Bars2({2}, 2, 1, 1, 40), Bars2({0}, 1, 1, 0, 40), Bars2({1}, 2, 1, 0, 4), Bars3({2})}

(* Grids over a route: the variants differ in what a numeric setting of    *)
(* the command line can change, one setting for all of them.               *)
Route ==
  [series |-> "good", sourceSeries |-> "good", higher |-> "good", sourceLabel |-> "", window |-> "whole",
   calendar |-> FALSE, force |-> FALSE, labels |-> FALSE, fill |-> "close", allowed |-> TRUE,
   onEntry |-> FALSE, entryRoute |-> TRUE]

Routes == {Route} \cup {[Route EXCEPT !.allowed = FALSE, !.force = f] : f \in BOOLEAN}
            \cup {[Route EXCEPT !.onEntry = TRUE], [Route EXCEPT !.sourceLabel = "chart"]}

Variants(cfg) ==
  {<<[cfg EXCEPT !.columns = a], [cfg EXCEPT !.columns = b], cfg>> :
     a \in {"base", "wide"}, b \in {"base", "wide"}}
    \cup {<<[cfg EXCEPT !.setupColumns = a], [cfg EXCEPT !.setupColumns = b]>> :
            a \in {"1", "2"}, b \in {"1", "2"}}
    \cup {<<[cfg EXCEPT !.sar = "a"], [cfg EXCEPT !.sar = "b"]>>}

Grids == UNION {{[operation |-> "grid", variants |-> v, request |-> r] : v \in Variants(c)} :
                 c \in {Config} \cup Changed(Config), r \in Routes}

(* Configurations given to the entry points.                               *)
Entered == {[operation |-> "enter", cfg |-> c, request |-> [r EXCEPT !.fill = f]] :
              c \in Configs, r \in Routes \cup {[Route EXCEPT !.higher = "none", !.sourceSeries = "none"]},
              f \in {"close", "nextOpen"}}

VARIABLE command  \* of this behaviour: "backtest" or "forward-prefix"
AskedInit ==
  /\ call = Called /\ w = Start /\ at = 0
  /\ \/ ask \in Requests /\ run = Quiet /\ stage = "asked"
     \/ ask = Ask /\ run \in MCRuns /\ stage = "asked"
     \/ ask = [Ask EXCEPT !.panics = TRUE] /\ run = Bars2({2}, 1, 1, 1, 40) /\ stage = "asked"
     \/ ask \in Grids /\ run = Quiet /\ stage = "grid"
     \/ ask \in Entered /\ run = Quiet /\ stage = "entry"

MCInit ==
  /\ ForwardInit
  /\ \/ command = "backtest" /\ AskedInit
     \/ /\ command = "forward-prefix"
        /\ ask = Ask /\ run = Quiet /\ stage = "asked" /\ call = Called /\ w = Start /\ at = 0
MCNext ==
  \/ command = "backtest" /\ Next /\ UNCHANGED << command, forwardVars >>
  \/ command = "forward-prefix" /\ (ForwardNext \/ UNCHANGED forwardVars) /\ UNCHANGED << command, vars >>
MCSpec == MCInit /\ [][MCNext]_<< command, vars, forwardVars >>
==============================================================================
