--------------------------- MODULE BacktestRequest ---------------------------
(***************************************************************************)
(* From a configuration and a request to the run that is executed: the     *)
(* direct run, the prepared run, the context that a grid's variants share  *)
(* and the fixture; and the admission of an ordinary backtest before them: *)
(* the strict request, the source's classification, the data, the route    *)
(* and the options, each refused with a stage and a code, and the envelope *)
(* that an answer has to fit.                                              *)
(*                                                                         *)
(* A configuration (cfg) is what these entry points look at: its family,   *)
(* the dedicated engines it names anywhere at its top level (an intent     *)
(* that no other engine may serve), the checks it fails, and the columns   *)
(* that its signals read.  It also has the depth of its maps and the depth *)
(* at which it hides the mark of a family with a loop of its own (0:       *)
(* nowhere).  ask is the request: the state of its series and its options, *)
(* and for a backtest the operation, the flaws of its text, its data, its  *)
(* route and its configuration.                                            *)
(***************************************************************************)
EXTENDS Integers, FiniteSets, Sequences

Dedicated == {"sequentialFull", "goldFlagReference", "adaptiveVolumeFlag", "masterStructural",
              "regimeEngine", "rangeReversion", "frozenLevelBreakout"}

(* Families with a run of their own, and families whose loop replaces the  *)
(* broker's loop.                                                          *)
OwnRun == {"timedReturn", "scheduledTrade"}
OwnLoop == {"clockRangeBreakout", "downShockRebound", "dailyFlushFailure", "weekendExtremeFade",
            "intraHourRunExhaustion"}

Unimplemented == {"unknown", "timedReturn"}

Names(cfg, engines) == cfg.reserved \cap engines # {}

(* A dedicated engine other than the sequential one is refused by every    *)
(* entry point; the sequential one has its own preparation.                *)
ForDedicated(cfg) == Names(cfg, Dedicated \ {"sequentialFull"})

(* Checks of the configuration alone that every entry point makes first.   *)
MalformedConfig(cfg) == cfg.flaw \in {"sar", "momentum", "donchian", "ribbon"}

(* The retest is judged on the entry timeframe of a supply/demand source.  *)
RetestRefused(cfg, ask) == cfg.retest /\ ~(cfg.setup = "supplyDemand" /\ cfg.source /\ ask.onEntry)

(* The legacy family fills at the close; its profile belongs to no other.  *)
LegacyRefused(cfg, ask) ==
  IF cfg.setup = "legacySetup9" THEN ~cfg.profile \/ ask.fill # "close" ELSE cfg.profile

(* Orders of a source series are executed on the chart's entry bars.       *)
SourceEntry(cfg, ask) == cfg.source /\ ask.onEntry /\ ask.entryRoute

RequestRefused(cfg, ask) ==
  \/ ForDedicated(cfg)
  \/ ask.calendar /\ cfg.setup # "timedReturn"
  \/ RetestRefused(cfg, ask)
  \/ ask.series # "good"
  \/ cfg.setup \in Unimplemented
  \/ LegacyRefused(cfg, ask)
  \/ MalformedConfig(cfg) \/ cfg.flaw = "lists"
  \/ cfg.sar # "none" /\ ask.sourceLabel \notin {"", "chart"}
  \/ ask.higher = "malformed"
  \/ cfg.source /\ ask.sourceSeries # "good"

(* A declared source has to agree with the request's.                      *)
SourceConflict(cfg, ask) == cfg.source /\ ask.sourceLabel \notin {"", "source"}

(* The columns that the context is built with, and the trend of the higher *)
(* timeframe: the strict legacy mode has a trend of its own.               *)
TrendOf(cfg) == IF cfg.htf = "legacy" THEN "bias" ELSE "direction"

ColumnsOf(cfg, ask) == [columns |-> cfg.columns, labels |-> ask.labels]

Refused == [kind |-> "refused"]

KeyRefused(cfg, ask) ==
  Names(cfg, Dedicated) \/ cfg.setup \in OwnRun \/ RequestRefused(cfg, ask)
    \/ SourceConflict(cfg, ask) \/ ask.window = "absent"

(* What variants are grouped by.                                           *)
SharedContextKey(cfg, ask) ==
  [columns |-> ColumnsOf(cfg, ask), source |-> cfg.source, window |-> ask.window, sar |-> cfg.sar]

SharedRunContext(cfg, ask) ==
  IF KeyRefused(cfg, ask) \/ SourceEntry(cfg, ask) THEN Refused
  ELSE [kind |-> "shared", ask |-> ask, source |-> cfg.source, columns |-> ColumnsOf(cfg, ask),
        trend |-> TrendOf(cfg), sar |-> cfg.sar]

VariantRefused(context, cfg) ==
  \/ Names(cfg, Dedicated) \/ cfg.setup \in OwnRun \cup Unimplemented
  \/ cfg.retest \/ LegacyRefused(cfg, context.ask)
  \/ MalformedConfig(cfg) \/ cfg.flaw = "lists"
  \/ cfg.sar # context.sar
  \/ cfg.sar # "none" /\ context.source
  \/ ColumnsOf(cfg, context.ask) # context.columns

(* A variant owns its broker and its setup columns and shares the rest.    *)
PrepareVariant(context, cfg) ==
  IF context.kind = "refused" THEN Refused
  ELSE IF VariantRefused(context, cfg) THEN Refused
  ELSE [kind |-> "broker", cfg |-> cfg, ask |-> context.ask, source |-> context.source,
        columns |-> context.columns, trend |-> context.trend, sar |-> context.sar,
        setup |-> cfg.setupColumns,
        offRoute |-> ~context.ask.force /\ ~context.ask.allowed]

SequentialRefused(ask) ==
  \/ ~ask.allowed \/ ask.calendar \/ ask.sourceLabel # "" \/ ask.higher # "none"
  \/ ask.sourceSeries # "none" \/ ask.force \/ ask.window # "whole"
  \/ ask.fill = "close" \/ ask.series # "good"

PrepareSequential(cfg, ask) ==
  IF cfg.flaw = "sequential" \/ SequentialRefused(ask) THEN Refused
  ELSE [kind |-> "sequential", cfg |-> cfg, ask |-> ask, source |-> FALSE, columns |-> "own",
        trend |-> "none", sar |-> "none", setup |-> "own", offRoute |-> FALSE]

PrepareSource(cfg, ask) ==
  IF RequestRefused(cfg, ask) \/ SourceConflict(cfg, ask) \/ ask.window = "absent" THEN Refused
  ELSE [kind |-> "source", cfg |-> cfg, ask |-> ask, source |-> TRUE, columns |-> "own",
        trend |-> TrendOf(cfg), sar |-> "none", setup |-> "own", offRoute |-> FALSE]

PrepareRun(cfg, ask) ==
  CASE MalformedConfig(cfg)              -> Refused
    [] Names(cfg, {"sequentialFull"})    -> PrepareSequential(cfg, ask)
    [] ForDedicated(cfg)                 -> Refused
    [] cfg.setup \in OwnRun              -> Refused
    [] SourceEntry(cfg, ask)             -> PrepareSource(cfg, ask)
    [] OTHER -> PrepareVariant(SharedRunContext(cfg, ask), cfg)

(* What a prepared run executes.  The legacy costs are checked once more.  *)
Executes(made, fill) ==
  CASE made.kind = "refused"                                     -> "nothing"
    [] made.kind = "sequential"                                  -> IF fill = "close" THEN "nothing" ELSE "sequential"
    [] made.cfg.setup = "legacySetup9" /\ fill # "close"         -> "nothing"
    [] made.offRoute                                             -> "nothing"
    [] made.kind = "source"                                      -> "source"
    [] made.cfg.setup \in OwnLoop                                -> "loop"
    [] OTHER                                                     -> "broker"

(* The direct run adds the two families with a run of their own.           *)
RunDirect(cfg, ask) ==
  IF MalformedConfig(cfg) \/ ForDedicated(cfg) THEN "nothing"
  ELSE IF ~Names(cfg, Dedicated) /\ cfg.setup \in OwnRun THEN cfg.setup
  ELSE Executes(PrepareRun(cfg, ask), ask.fill)

(* A fixture carries the text; its own checks differ from a request's.     *)
FixtureRefused(cfg, ask) ==
  \/ ForDedicated(cfg) \/ MalformedConfig(cfg)
  \/ ask.calendar /\ cfg.setup # "timedReturn"
  \/ /\ cfg.setup \notin OwnRun
     /\ \/ cfg.setup \in Unimplemented \/ ~ask.allowed
        \/ LegacyRefused(cfg, ask) \/ RetestRefused(cfg, ask)
        \/ cfg.sar # "none" /\ ask.sourceLabel \notin {"", "chart"}
        \/ SourceConflict(cfg, ask)
        \/ cfg.source /\ ask.sourceSeries = "none"

RunFixture(cfg, ask) ==
  CASE Names(cfg, {"sequentialFull"}) -> Executes(PrepareSequential(cfg, ask), ask.fill)
    [] FixtureRefused(cfg, ask)       -> "nothing"
    [] cfg.setup \in OwnRun           -> cfg.setup
    [] SourceEntry(cfg, ask)          -> "source"
    [] cfg.setup \in OwnLoop          -> "loop"
    [] OTHER                          -> "broker"

------------------------------------------------------------------------------
(* The admission of an ordinary backtest.                                  *)
MaxDepth == 2

(* Flaws of a request in the order in which the decoder meets them.  The   *)
(* scan reports the first flaw of the text, in whatever order it holds     *)
(* them.                                                                   *)
Scanned == {"encoding", "duplicate", "deep"}

FaultOf ==
  [arguments |-> "ARGUMENTS", source |-> "SOURCE_ENCODING", size |-> "INPUT_LIMIT",
   encoding |-> "JSON_ENCODING", duplicate |-> "DUPLICATE_KEY", deep |-> "INPUT_LIMIT",
   unknown |-> "UNKNOWN_FIELD", missing |-> "SCHEMA", bars |-> "DATA_LIMIT", text |-> "INPUT_LIMIT"]

DecodeCodes(ask) ==
  CASE "arguments" \in ask.flaws             -> {"ARGUMENTS"}
    [] "source" \in ask.flaws                -> {"SOURCE_ENCODING"}
    [] "size" \in ask.flaws                  -> {"INPUT_LIMIT"}
    [] ask.flaws \cap Scanned # {}           -> {FaultOf[f] : f \in ask.flaws \cap Scanned}
    [] ask.operation = "run" /\ ask.data = "none" -> {"DATA_REQUIRED"}
    [] ask.flaws \cap {"unknown", "missing"} # {} -> {FaultOf[f] : f \in ask.flaws \cap {"unknown", "missing"}}
    [] "bars" \in ask.flaws /\ ask.data # "none"  -> {"DATA_LIMIT"}
    [] "text" \in ask.flaws /\ ask.data = "none"  -> {"INPUT_LIMIT"}
    [] OTHER -> {}

Fault(stage, code) == [stage |-> stage, code |-> code]

(* A family with a loop of its own is found at any depth; what lies deeper *)
(* than the search is reserved.                                            *)
Marked(cfg) == cfg.hidden \in 1..MaxDepth \/ cfg.depth > MaxDepth

Classification(cfg) ==
  CASE Names(cfg, Dedicated \ {"frozenLevelBreakout"}) \/ Marked(cfg) -> "dedicated"
    [] cfg.source \/ cfg.htf # "off" \/ cfg.setup \in Unimplemented   -> "unsupported"
    [] OTHER -> "ordinary"

(* The request that the run is prepared from: the original bars, no other  *)
(* series, no window and no forced route.                                  *)
RunRequest(ask) ==
  [series |-> "good", sourceSeries |-> "none", higher |-> "none", sourceLabel |-> "",
   window |-> "whole", calendar |-> FALSE, force |-> FALSE, labels |-> FALSE,
   fill |-> ask.fill, allowed |-> ask.allowed, onEntry |-> ask.onEntry, entryRoute |-> FALSE]

LoopCapable(cfg) == cfg.setup \notin OwnLoop

(* Options that can be checked without data.                               *)
OptionsRefused(cfg, ask) ==
  LegacyRefused(cfg, ask) \/ RetestRefused(cfg, ask) \/ MalformedConfig(cfg) \/ cfg.flaw = "lists"

Refusal(stage, code) == [refused |-> TRUE, fault |-> Fault(stage, code), plan |-> "refused"]
Plan(plan) == [refused |-> FALSE, plan |-> plan]

PrepareOrdinaryBacktest(ask) ==
  LET cfg == ask.cfg
      request == RunRequest(ask)
  IN
  CASE cfg.flaw = "text"                            -> Refusal("parse", "PARSE_REJECTED")
    [] Classification(cfg) = "dedicated"            -> Refusal("admission", "DEDICATED_REQUIRED")
    [] Classification(cfg) = "unsupported"          -> Refusal("admission", "ACCOUNTING_UNAVAILABLE")
    [] ask.data # "none" /\ ~ask.timeframe          -> Refusal("admission", "ROUTE_UNSUPPORTED")
    [] ask.data = "disordered"                      -> Refusal("admission", "DATA_INVALID")
    [] ask.data = "forming"                         -> Refusal("admission", "FORMING_BAR")
    [] ~LoopCapable(cfg) \/ SourceEntry(cfg, request) -> Refusal("admission", "ACCOUNTING_UNAVAILABLE")
    [] ~ask.timeframe \/ ~ask.allowed               -> Refusal("admission", "ROUTE_UNSUPPORTED")
    [] OptionsRefused(cfg, ask)                     -> Refusal("admission", "OPTIONS_UNSUPPORTED")
    [] ask.data = "none"                            -> Plan("not-evaluated")
    [] RequestRefused(cfg, request) \/ PrepareRun(cfg, request).kind = "refused"
                                                    -> Refusal("admission", "OPTIONS_UNSUPPORTED")
    [] PrepareRun(cfg, request).kind # "broker"     -> Refusal("admission", "ACCOUNTING_UNAVAILABLE")
    [] OTHER                                        -> Plan("admitted")

------------------------------------------------------------------------------
(* The codes that a stage may answer with.                                 *)
Codes ==
  [transport |-> {"ARGUMENTS", "SOURCE_ENCODING", "JSON_ENCODING", "DUPLICATE_KEY", "UNKNOWN_FIELD",
                  "SCHEMA", "INPUT_LIMIT", "DATA_REQUIRED", "DATA_LIMIT", "INTERNAL"},
   parse |-> {"PARSE_REJECTED", "INTERNAL"},
   admission |-> {"ROUTE_UNSUPPORTED", "OPTIONS_UNSUPPORTED", "DATA_INVALID", "FORMING_BAR",
                  "DEDICATED_REQUIRED", "ACCOUNTING_UNAVAILABLE", "INTERNAL"},
   execution |-> {"INTERNAL"},
   report |-> {"OUTPUT_LIMIT", "NONFINITE_OUTPUT", "INTERNAL"}]

(* captured: the request was decoded and the producer is complete; config: *)
(* the digest of the parsed configuration is known.                        *)
EnvelopeValid(operation, captured, config, fault) ==
  /\ fault.code \in Codes[fault.stage]
  /\ ~(operation = "inspect" /\ fault.stage = "execution")
  /\ fault.stage = "transport"
       \/ /\ captured
          /\ IF fault.stage = "parse" THEN ~config
             ELSE (operation = "inspect" /\ fault.stage = "report") \/ config

Envelope(operation, captured, config, fault) ==
  IF EnvelopeValid(operation, captured, config, fault)
  THEN [ok |-> FALSE, stage |-> fault.stage, code |-> fault.code,
        bound |-> fault.stage # "transport", config |-> fault.stage # "transport" /\ config]
  ELSE [ok |-> FALSE, stage |-> "", code |-> "", bound |-> FALSE, config |-> FALSE]

(* The stage that an invalid fault is blamed on.                           *)
Blamed(operation, captured, config) ==
  IF ~captured THEN "transport"
  ELSE IF ~config THEN "parse"
  ELSE IF operation = "run" THEN "execution" ELSE "admission"

Failure(operation, captured, config, fault) ==
  IF EnvelopeValid(operation, captured, config, fault)
  THEN Envelope(operation, captured, config, fault)
  ELSE Envelope(operation, captured, config,
                Fault(Blamed(operation, captured, config), "INTERNAL"))
==============================================================================
