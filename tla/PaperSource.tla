------------------------------ MODULE PaperSource ------------------------------
(***************************************************************************)
(* From authored lines to an executable configuration: the ordinary        *)
(* parser (dsl/parser.go and its handlers) folds the logical lines of a    *)
(* source over the default configuration, and the paper runners            *)
(* (engine/paper_prefix_orb.go, paper_prefix_vwap.go, paper_bidask.go)     *)
(* read the same lines again to refuse a source that says anything their   *)
(* final configuration would not show.                                     *)
(*                                                                         *)
(* A logical line is its section, its head, its plain words, its numbers   *)
(* in order, each with the word before it (the cue, "" right after the     *)
(* head), and the names of a list.  Decimal numbers are in hundredths,     *)
(* counts are whole, Bad is a token that is not a number.  A configuration *)
(* maps its leaves to values, Unset where the leaf is absent.              *)
(***************************************************************************)
EXTENDS Integers, Sequences, FiniteSetsExt, TLC

CONSTANTS Unset, MaxLines

VARIABLES
  book,     \* the vocabulary an author writes from
  lines,    \* the source so far
  cfg,      \* parser.config after these lines, dsl, userSessions and error with it
  audit,    \* what the scan of the authored directives has found
  verdict   \* of a runner on the submitted source
sourceVars == << book, lines, cfg, audit, verdict >>

Bad == -1
Line(section, head, words, nums, names) ==
  [section |-> section, head |-> head, words |-> words, nums |-> nums, names |-> names]
Cues(l) == [i \in DOMAIN l.nums |-> l.nums[i][1]]
Has(l, cue) == \E i \in DOMAIN l.nums : l.nums[i][1] = cue
(* The first token from a position on that is a number.                    *)
FirstFrom(l, k, default) ==
  LET good == {i \in DOMAIN l.nums : i >= k /\ l.nums[i][2] # Bad}
  IN IF good = {} THEN default ELSE l.nums[Min(good)][2]
First(l, default) == FirstFrom(l, 1, default)
After(l, cue, default) == FirstFrom(l, CHOOSE i \in DOMAIN l.nums : l.nums[i][1] = cue, default)

(* What a handler writes: a function from leaves to values.                *)
Nothing == << >>
Fault == [error |-> TRUE]
Put(leaf, l, cue, default) == IF Has(l, cue) THEN leaf :> After(l, cue, default) ELSE Nothing
When(condition, writes) == IF condition THEN writes ELSE Nothing
-------------------------------------------------------------------------------
(* The default configuration and the family selectors.                     *)
AllNamed == {"asia", "london", "ny"}
DefaultConfig ==
  [type |-> "fb", dsl |-> 6, userSessions |-> FALSE, error |-> FALSE, name |-> Unset,
   sessions |-> AllNamed, slices |-> {}, symbols |-> {}, timeframes |-> {"5m", "15m"},
   long |-> 1, short |-> 1, risk |-> 20000, cooldown |-> 3, maxHold |-> 0,
   beAt |-> 75, beOffset |-> 2, partialOn |-> 0, fraction |-> 0, partialR |-> 100, partialBE |-> 0,
   trailAtr |-> 0, trailR |-> 100,
   stopType |-> Unset, stopAtr |-> Unset, stopPips |-> Unset, stopExtreme |-> 3,
   stopMax |-> 150, stopMin |-> 0, stopPad |-> 25,
   edge |-> "range", fallbackR |-> 100, minR |-> 60, orbR |-> Unset, orbRange |-> Unset,
   targetPips |-> Unset, vefR |-> Unset, dorR |-> Unset,
   firstMinutes |-> Unset, firstCandles |-> Unset, slot |-> Unset, openSessions |-> Unset,
   buffer |-> Unset, hold |-> Unset, vefDistance |-> Unset, vefRange |-> Unset, vefMode |-> Unset,
   windowMode |-> Unset, minuteRange |-> Unset, hourRange |-> Unset, segments |-> {},
   phases |-> {}, dayTypes |-> {"ranging", "choppy"}, escape |-> 55, themes |-> {}, movement |-> 80,
   priorTypes |-> {}, blockedPrior |-> {}, priorRange |-> Unset,
   weekdays |-> {}, blockedWeekdays |-> {}, hours |-> {}, blockedHours |-> {}, locations |-> {},
   tail |-> 0, close |-> 0, rmvAtr |-> Unset, rmvLookback |-> Unset, rmvOp |-> Unset, rmvValue |-> Unset,
   rmvClaimed |-> {}, seasonality |-> {}, htf |-> "off", source |-> Unset, entryTf |-> "current",
   trigger |-> "default", entry |-> "market", grade |-> 0]
Leaves == DOMAIN DefaultConfig \ {"dsl", "userSessions", "error", "rmvClaimed"}

StopReset(max, min) ==
  [stopType |-> Unset, stopAtr |-> Unset, stopPips |-> Unset, stopExtreme |-> 0,
   stopMax |-> max, stopMin |-> min, stopPad |-> 25]
ManagementReset == [beAt |-> 50, beOffset |-> 5, cooldown |-> 12]
ORBReset ==
  StopReset(300, 40) @@ ManagementReset @@
  [firstMinutes |-> 0, firstCandles |-> Unset, slot |-> Unset, openSessions |-> Unset,
   buffer |-> Unset, hold |-> Unset, orbR |-> 100]
VEFReset ==
  StopReset(200, 40) @@ ManagementReset @@
  [vefDistance |-> Unset, vefRange |-> Unset, vefMode |-> Unset, vefR |-> 100]
Reset(f) == CASE f = "orb" -> ORBReset
              [] f = "vef" -> VEFReset
              [] f = "dor" -> StopReset(300, 50) @@ ManagementReset @@ [dorR |-> 100]
              [] OTHER -> Nothing
DefaultSessions(c, f) == When(f = "orb" /\ ~ c.userSessions, [sessions |-> {"london", "ny"}])

(* A phrase that names no family selects nothing.                          *)
Family(l) == CASE l.words = {"opening", "breakout"} -> "orb"
               [] l.words = {"vwap", "fade"} -> "vef"
               [] l.words = {"day", "open", "reclaim"} -> "dor"
               [] l.words = {"failed", "breakout"} -> "fb"
               [] OTHER -> Unset
TypeLine(c, l) ==
  LET f == Family(l) IN When(f # Unset, [type |-> f] @@ DefaultSessions(c, f) @@ Reset(f))
-------------------------------------------------------------------------------
(* Stops, targets and management.                                          *)
Leads(l) == l.nums # << >> /\ l.nums[1][1] = "" /\ l.nums[1][2] # Bad
SizeBounds(l) ==
  Put("stopMax", l, "<=", 150) @@ Put("stopMax", l, "max", 150) @@ Put("stopMax", l, "and", 150)
    @@ Put("stopMin", l, "min", 0) @@ Put("stopMin", l, "between", 0)
Padding(l) ==
  Put("stopPad", l, "by", 25) @@ Put("stopPad", l, "plus", 25) @@ Put("stopPad", l, "+", 25)
    @@ When({"opposite", "range"} \subseteq l.words, [stopPad |-> First(l, 25)])
StopLine(c, l) ==
  IF "pips" \in l.words
  THEN IF c.type = "orb" /\ First(l, 0) > 0
       THEN [stopType |-> "pips", stopPips |-> First(l, 0)] ELSE Fault
  ELSE IF Leads(l) THEN [stopType |-> "fixedAtr", stopAtr |-> First(l, 0)]
  ELSE IF "size" \in l.words THEN SizeBounds(l)
  ELSE Put("stopExtreme", l, "last", 3) @@ Padding(l)
         @@ Put("stopMin", l, "min", 0) @@ Put("stopMax", l, "max", 150)

TargetKey(f) == CASE f = "orb" -> "orbR" [] f = "vef" -> "vefR" [] f = "dor" -> "dorR"
                  [] OTHER -> "fallbackR"
TargetLine(c, l) ==
  CASE c.type = "orb" /\ "range" \in l.words -> [orbRange |-> First(l, 100), orbR |-> 100]
    [] c.type = "vef" /\ "vwap" \in l.words -> [vefMode |-> "vwap"]
    [] "pips" \in l.words -> IF c.type = "orb" /\ First(l, 0) > 0
                             THEN [targetPips |-> First(l, 0)] ELSE Fault
    [] Leads(l) /\ "pips" \notin l.words -> TargetKey(c.type) :> First(l, 100)
    [] OTHER -> Nothing

MoveLine(l) == Put("beAt", l, "after", 75) @@ Put("beOffset", l, "plus", 2)
BreakevenLine(l) ==
  IF "off" \in l.words THEN [beAt |-> 0, beOffset |-> 0]
  ELSE Put("beAt", l, "atr", 75) @@ Put("beOffset", l, "offsetatr", 2)
PartialLine(l) ==
  [partialOn |-> 1, fraction |-> First(l, 0)] @@ Put("partialR", l, "at", 100)
    @@ When("breakeven" \in l.words, [partialBE |-> 1])
TrailLine(l) ==
  IF "off" \in l.words THEN [trailAtr |-> 0]
  ELSE [trailAtr |-> First(l, 0)] @@ Put("trailR", l, "after", 100)
-------------------------------------------------------------------------------
(* The opening range and the market filters.                               *)
Sessions == {"asia", "mid", "london", "ny"}
SessionsLine(l) == [sessions |-> l.names \cap Sessions, userSessions |-> TRUE]

OpeningLine(c, l) ==
  LET n == First(l, 0)
      named == When(l.names # {}, [openSessions |-> l.names] @@ SessionsLine(l))
  IN CASE c.type # "orb" -> Nothing
       [] c.type = "orb" /\ l.words = {"first", "minutes"} /\ n > 0 ->
            [firstMinutes |-> n, firstCandles |-> 0] @@ named
       [] c.type = "orb" /\ l.words = {"first", "candles"} /\ n > 0 ->
            [firstCandles |-> n, firstMinutes |-> 0] @@ named
       [] c.type = "orb" /\ l.words = {"every", "hours", "utc"} /\ n \in 1 .. 24 ->
            [slot |-> 60 * n, firstMinutes |-> 15, firstCandles |-> 0] @@ named
       [] OTHER -> Fault

Segments == Sessions \X {"open", "middle", "close", "all"}
Increasing(l, below) == l.nums[1][2] >= 0 /\ l.nums[1][2] < l.nums[2][2] /\ l.nums[2][2] <= below
Range2(l) == << l.nums[1][2], l.nums[2][2] >>
TradeLine(l) ==
  CASE l.words = {"unrestricted"} -> [windowMode |-> "unrestricted"]
    [] l.words = {"utc", "hours"} -> IF Increasing(l, 24) THEN [hourRange |-> Range2(l)] ELSE Fault
    [] l.words = {"minutes"} -> IF Increasing(l, 1440) THEN [minuteRange |-> Range2(l)] ELSE Fault
    [] l.words = {"in"} -> When(l.names \cap Segments # {}, [segments |-> l.names \cap Segments])
                             @@ When(~ l.names \subseteq Segments, Fault)
    [] OTHER -> Nothing

DayLine(c, l) ==
  IF "theme" \in l.words THEN [themes |-> l.names]
  ELSE When(l.names # {}, [dayTypes |-> l.names]) @@
       (CASE {"or", "strictly"} \subseteq l.words -> Fault
          [] "or" \in l.words /\ "strictly" \notin l.words /\ Has(l, "below") ->
               IF l.nums[1][2] = Bad THEN [escape |-> 55] @@ When(c.dsl = 7, Fault)
               ELSE [escape |-> l.nums[1][2]]
          [] "strictly" \in l.words /\ "or" \notin l.words -> [escape |-> -1]
          [] OTHER -> When("or" \in l.words \/ "movement" \in l.words, Fault))
PriorLine(l) ==
  CASE "range" \in l.words -> When(First(l, Bad) # Bad, [priorRange |-> First(l, Bad)])
    [] l.words = {"type"} -> [priorTypes |-> l.names]
    [] l.words = {"type", "not"} -> [blockedPrior |-> l.names]
    [] OTHER -> Nothing

Weekdays == {"Sun", "Mon", "Tue", "Wed", "Thu", "Fri", "Sat"}
Hours == 0 .. 23
GateLine(l, domain, allowed, blocked) ==
  IF l.names = {} \/ ~ l.names \subseteq domain THEN Fault
  ELSE (IF "not" \in l.words THEN blocked ELSE allowed) :> l.names
Locations == {"nearPDH", "nearPDL", "nearDayOpen", "other"}
OpenLine(l) ==
  IF "not" \in l.words \/ l.names = {} \/ ~ l.names \subseteq Locations THEN Fault
  ELSE [locations |-> l.names]

RMVField(l) == CASE l.words = {"period"} -> "rmvAtr" [] l.words = {"lookback"} -> "rmvLookback"
                 [] OTHER -> "rmvValue"
RMVLine(c, l) ==
  LET field == RMVField(l)
      value == First(l, Bad)
      claim == [rmvClaimed |-> c.rmvClaimed \cup {field}]
      fresh(leaf, d) == When(c[leaf] = Unset /\ field # leaf, leaf :> d)
  IN CASE c.dsl < 7 \/ l.section # "filters" -> Fault
       [] c.dsl = 7 /\ l.section = "filters" /\ field \in c.rmvClaimed -> Fault
       [] OTHER -> claim @@
            (IF value = Bad \/ (field = "rmvValue" /\ value > 100) \/ (field # "rmvValue" /\ value < 1)
             THEN Fault
             ELSE (field :> value) @@ When(field = "rmvValue", [rmvOp |-> l.words])
                    @@ fresh("rmvAtr", 14) @@ fresh("rmvLookback", 100))
SeasonalityLine(c, l) ==
  IF /\ l.words \in {{"supports"}, {"in"}}
     /\ "in" \in l.words => l.names # {}
  THEN [seasonality |-> c.seasonality \cup {<< l.words, l.names, First(l, 5) >>}] ELSE Fault
SideLine(l) ==
  CASE "long" \in l.words -> [long |-> 1, short |-> 0]
    [] "short" \in l.words /\ "long" \notin l.words -> [long |-> 0, short |-> 1]
    [] OTHER -> When("both" \in l.words, [long |-> 1, short |-> 1])
HigherLine(l) ==
  [htf |-> IF "off" \in l.words THEN "off"
           ELSE IF {"directional", "agree"} \subseteq l.words THEN "strict" ELSE "notAgainst"]
EntryTfLine(c, l) ==
  LET tf == CHOOSE x \in l.names : TRUE
  IN [entryTf |-> tf] @@ When(c.dsl = 7 /\ tf \notin {"current", "1m", "5m", "15m", "30m", "1h"}, Fault)
SourceTimeframeLine(c, l) ==
  IF c.dsl < 7 \/ l.section \notin {"setup", "filters"} THEN Fault
  ELSE [source |-> CHOOSE x \in l.names : TRUE]
-------------------------------------------------------------------------------
(* parser.apply: one logical line.                                         *)
Spelling(c, l) == When(c.dsl = 7 /\ l.head = "maxholdbars", Fault)
Malformed(c, l) ==
  When(c.dsl = 7 /\ l.head = "stop" /\ \E i \in DOMAIN l.nums : l.nums[i] \in
         {"last", "by", "+", "plus", "min", "max"} \X {Bad}, Fault)

Directive(c, l) ==
  CASE l.head = "dsl" -> IF l.names = {} THEN Nothing
                         ELSE IF l.names \subseteq {6, 7} THEN [dsl |-> CHOOSE v \in l.names : TRUE] ELSE Fault
    [] l.head = "strategy" -> [name |-> "named"]
    [] l.head = "type" -> TypeLine(c, l)
    [] l.head \in {"slices", "symbols", "timeframes"} -> l.head :> l.names
    [] l.head = "sessions" -> SessionsLine(l)
    [] l.head = "session" -> [phases |-> l.names]
    [] l.head = "trade" -> TradeLine(l)
    [] l.head = "weekday" -> GateLine(l, Weekdays, "weekdays", "blockedWeekdays")
    [] l.head = "hour" -> GateLine(l, Hours, "hours", "blockedHours")
    [] l.head = "open" -> OpenLine(l)
    [] l.head = "seasonality" -> SeasonalityLine(c, l)
    [] l.head = "day" -> DayLine(c, l)
    [] l.head = "prior" -> PriorLine(l)
    [] l.head = "movement" -> [movement |-> First(l, 80)]
    [] l.head = "rmv" -> RMVLine(c, l)
    [] l.head = "higher" -> HigherLine(l)
    [] l.head = "side" -> SideLine(l)
    [] l.head = "trigger" -> When("any" \in l.words, [trigger |-> "any"])
    [] l.head = "tail" -> [tail |-> First(l, 0)]
    [] l.head = "close" -> [close |-> First(l, 0)]
    [] l.head = "enter" -> [entry |-> IF "limit" \in l.words THEN "limit" ELSE "market"]
    [] l.head = "entrytf" -> EntryTfLine(c, l)
    [] l.head = "source" -> SourceTimeframeLine(c, l)
    [] l.head = "stop" -> StopLine(c, l)
    [] l.head = "target" -> TargetLine(c, l)
    [] l.head = "take" -> [edge |-> IF "channel" \in l.words THEN "channel" ELSE "range"]
    [] l.head = "minimum" -> [minR |-> First(l, 60)]
    [] l.head = "move" -> MoveLine(l)
    [] l.head = "breakeven" -> BreakevenLine(l)
    [] l.head = "partial" -> PartialLine(l)
    [] l.head = "trail" -> TrailLine(l)
    [] l.head = "wait" -> [cooldown |-> First(l, 3)]
    [] l.head \in {"maxholdcandles", "maxholdbars"} -> [maxHold |-> First(l, 0)]
    [] l.head = "risk" -> When("usd" \notin l.words \/ l.nums # << >>, [risk |-> First(l, 20000)])
    [] l.head = "require" -> IF "range" \in l.words
                             THEN When(c.type = "vef", [vefRange |-> 1]) ELSE [grade |-> First(l, 0)]
    [] l.head = "distance" -> When(c.type = "vef", [vefDistance |-> First(l, 0)])
    [] l.head = "opening" -> OpeningLine(c, l)
    [] l.head = "break" -> When(c.type = "orb" /\ "beyond" \in l.words, [buffer |-> First(l, 0)])
    [] l.head = "hold" -> When(c.type = "orb", [hold |-> First(l, 1)])
    [] l.head = "retest" -> Nothing
    [] l.head = "residue" -> Nothing
    [] OTHER -> Fault
Says(c, l) == Directive(c, l) @@ Spelling(c, l) @@ Malformed(c, l)
Parsed(c, l) == LET said == Says(c, l) @@ c IN [said EXCEPT !.error = @ \/ c.error]

(* The checks at the end of parser.parse.                                  *)
EntryPairs == {<< "15m", "4h" >>, << "30m", "4h" >>, << "5m", "1h" >>, << "1m", "15m" >>}
SourceFaulty(c) ==
  \/ c.error
  \/ c.htf = "strict"
  \/ /\ c.entryTf # "current"
     /\ \/ << c.entryTf, c.source >> \notin EntryPairs
        \/ \A s \in c.slices : s[2] # c.entryTf
  \/ /\ c.rmvAtr # Unset
     /\ c.source # Unset
     /\ \/ c.entryTf = "current"
        \/ \E s \in c.slices : s[1] # "XAUUSD"
-------------------------------------------------------------------------------
(* paperORBAuthoredSupported: every directive has one of the forms of its  *)
(* head, and values that a later directive cannot excuse.                  *)
Optional(cues) == {<< >>} \cup {<< c >> : c \in cues}
EdgeCues == {pad \o low \o high : pad \in Optional({"by", "plus", "+", "edge"}),
                                  low \in Optional({"min"}), high \in Optional({"max"})}
ORBShapes(head) ==
  CASE head = "stop" -> ({{"atr"}, {"pips"}} \X {<< "" >>})
                          \cup ({{"opposite", "range", "edge"}} \X EdgeCues)
                          \cup ({{"size"}} \X {<< "<=" >>, << "between", "and" >>, << "min" >>,
                                              << "min", "max" >>, << "max" >>})
    [] head = "target" -> {{"r"}, {"range"}, {"pips"}} \X {<< "" >>}
    [] head = "opening" -> {{"first", "minutes"}, {"first", "candles"}, {"every", "hours", "utc"}} \X {<< "" >>}
    [] head = "break" -> {{"beyond", "edge"}} \X Optional({"by"})
    [] head = "move" -> {{"stop", "to", "breakeven"}} \X {<< "after" >>, << "after", "plus" >>}
    [] head = "breakeven" -> ({{"off"}} \X {<< >>}) \cup ({{}} \X {<< "atr" >>, << "atr", "offsetatr" >>})
    [] head = "partial" -> {{}, {"breakeven"}} \X {<< "", "at" >>}
    [] head = "trail" -> ({{"off"}} \X {<< >>}) \cup ({{}, {"atr"}} \X {<< "" >>, << "", "after" >>})
    [] head = "trade" -> ({{"unrestricted"}, {"in"}} \X {<< >>}) \cup ({{"utc", "hours"}, {"minutes"}} \X {<< "", "to" >>})
    [] head = "day" -> ({{"type"}, {"type", "strictly"}, {"theme"}} \X {<< >>}) \cup ({{"type", "or"}} \X {<< "below" >>})
    [] head = "prior" -> ({{"type"}, {"type", "not"}} \X {<< >>}) \cup ({{"range"}} \X {<< "" >>})
    [] head \in {"weekday", "hour"} -> {{"in"}, {"not", "in"}} \X {<< >>}
    [] head = "rmv" -> {{"above"}, {"below"}, {"period"}, {"lookback"}} \X {<< "" >>}
    [] head = "seasonality" -> {{"supports"}, {"in"}} \X Optional({"min"})
    [] head = "side" -> {{"both"}, {"long"}, {"short"}} \X {<< >>}
    [] head = "risk" -> {{"usd"}} \X {<< "" >>}
    [] head = "wait" -> {{"candles", "after", "trade"}} \X {<< "" >>}
    [] head \in {"movement", "tail", "close", "hold", "maxholdcandles", "maxholdbars"} -> {{}} \X {<< "" >>}
    [] head = "higher" -> {{"off"}} \X {<< >>}
    [] head = "type" -> {{"opening", "breakout"}} \X {<< >>}
    [] head \in {"dsl", "slices", "symbols", "timeframes", "sessions", "session", "open", "entrytf"} -> {{}} \X {<< >>}
    [] OTHER -> {}
Named(l) ==
  CASE l.head \in {"sessions", "opening"} -> Sessions
    [] l.head = "entrytf" -> {"current"}
    [] l.head = "session" -> {"open", "middle", "lunch", "close", "overnight", "other"}
    [] OTHER -> l.names

Number(l, cues) == IF \E i \in DOMAIN l.nums : l.nums[i][1] \in cues
                   THEN (CHOOSE x \in {l.nums[i] : i \in DOMAIN l.nums} : x[1] \in cues)[2] ELSE Unset
ORBValues(l) ==
  LET low == Number(l, {"min", "between"})
      high == Number(l, {"max", "<=", "and"})
  IN /\ \A i \in DOMAIN l.nums : l.nums[i][2] # Bad
     /\ l.head \in {"tail", "close"} => First(l, 0) <= 100
     /\ (l.head = "stop" /\ high # Unset) => (high > 0 /\ (low = Unset \/ low <= high))
     /\ l.head \in {"risk", "hold", "partial"} => First(l, 0) > 0
     /\ (l.head = "opening" /\ "first" \in l.words) => First(l, 0) > 0
     /\ (l.head = "stop" /\ Leads(l)) => First(l, 0) > 0
     /\ (l.head = "target" /\ "range" \notin l.words) => First(l, 0) > 0
     /\ l.head = "partial" => After(l, "at", 0) > 0

NeedsSelector == {"opening", "break", "hold", "stop", "target", "move", "breakeven", "partial",
                  "trail", "wait", "maxholdcandles", "maxholdbars"}
ORBForm(l) == << l.words, Cues(l) >> \in ORBShapes(l.head) /\ l.names \subseteq Named(l) /\ ORBValues(l)
ORBAdmitsUnselected(a, l) == IF l.head = "strategy" THEN "quoted" \in l.words ELSE ORBForm(l)
ORBAdmits(a, l) ==
  IF l.head = "strategy" THEN "quoted" \in l.words
  ELSE (l.head \in NeedsSelector => a.types > 0) /\ ORBForm(l)

(* paperVWAPAuthoredSupported: its forms belong to their section, and the  *)
(* family is selected once, before the setup, risk, target and management. *)
VEFShapes(section, head) ==
  CASE << section, head >> \in {<< "market", "symbols" >>, << "market", "timeframes" >>, << "market", "slices" >>,
                                << "market", "sessions" >>, << "market", "session" >>, << "", "dsl" >>} -> {{}} \X {<< >>}
    [] << section, head >> = << "market", "day" >> -> {{"type"}, {"type", "strictly"}} \X {<< >>}
    [] << section, head >> = << "market", "movement" >> -> {{}} \X {<< "" >>}
    [] << section, head >> = << "setup", "type" >> -> {{"vwap", "fade"}} \X {<< >>}
    [] << section, head >> = << "setup", "distance" >> -> {{"vwap"}} \X {<< "" >>}
    [] << section, head >> = << "setup", "require" >> -> {{"range", "day"}} \X {<< >>}
    [] << section, head >> = << "setup", "target" >> -> {{"vwap"}} \X {<< >>}
    [] << section, head >> = << "filters", "side" >> -> {{"both"}, {"long"}, {"short"}} \X {<< >>}
    [] << section, head >> \in {<< "filters", "tail" >>, << "filters", "close" >>} -> {{}} \X {<< "" >>}
    [] << section, head >> = << "risk", "stop" >> ->
         ({{"extreme"}} \X {<< "last", "by" >>}) \cup ({{"size"}} \X {<< "<=" >>, << "between", "and" >>})
    [] << section, head >> = << "target", "target" >> -> ({{"r"}} \X {<< "" >>}) \cup ({{"vwap"}} \X {<< >>})
    [] << section, head >> = << "target", "minimum" >> -> {{"r"}} \X {<< "" >>}
    [] << section, head >> = << "management", "move" >> -> {{"stop", "to", "breakeven"}} \X {<< "after", "plus" >>}
    [] << section, head >> \in {<< "management", "breakeven" >>, << "management", "trail" >>} -> {{"off"}} \X {<< >>}
    [] << section, head >> = << "management", "maxholdcandles" >> -> {{}} \X {<< "" >>}
    [] << section, head >> = << "management", "wait" >> -> {{"candles", "after", "trade"}} \X {<< "" >>}
    [] << section, head >> = << "execution", "risk" >> -> {{"usd"}} \X {<< "" >>}
    [] OTHER -> {}
VEFAdmits(a, l) ==
  /\ l.head # "strategy" =>
       /\ IF l.head = "type" THEN a.types = 0
          ELSE l.section \in {"setup", "risk", "target", "management"} => a.types > 0
       /\ << l.words, Cues(l) >> \in VEFShapes(l.section, l.head)
       /\ l.head = "dsl" => l.names = {7}
  /\ l.head = "strategy" => "quoted" \in l.words

Audited(a, l) ==
  [orb |-> a.orb /\ ORBAdmits(a, l), vef |-> a.vef /\ VEFAdmits(a, l),
   types |-> IF l.head = "type" THEN a.types + 1 ELSE a.types,
   partial |-> a.partial \/ l.head = "partial",
   trailing |-> a.trailing \/ (l.head = "trail" /\ First(l, 0) > 0)]
-------------------------------------------------------------------------------
(* The configuration itself: variable leaves, the rest as the family's     *)
(* neutral configuration has them.                                         *)
Selector(f) == Line("setup", "type", IF f = "orb" THEN {"opening", "breakout"} ELSE {"vwap", "fade"}, << >>, {})
Neutral(f) == Parsed([DefaultConfig EXCEPT !.dsl = 7], Selector(f))
MarketLeaves == {"name", "symbols", "timeframes", "slices", "long", "short", "sessions", "phases", "dayTypes",
                 "escape", "movement", "tail", "close", "risk", "beAt", "beOffset", "cooldown", "maxHold"}
Variable(f) ==
  MarketLeaves \cup
  IF f = "orb"
  THEN {"firstMinutes", "firstCandles", "slot", "openSessions", "buffer", "hold", "windowMode", "segments",
        "minuteRange", "hourRange", "weekdays", "blockedWeekdays", "hours", "blockedHours", "locations",
        "priorTypes", "blockedPrior", "priorRange", "themes", "rmvAtr", "rmvLookback", "rmvOp", "rmvValue",
        "seasonality", "stopType", "stopAtr", "stopPips", "stopPad", "stopMin", "stopMax", "orbR", "orbRange",
        "targetPips", "partialOn", "fraction", "partialR", "partialBE", "trailAtr", "trailR"}
  ELSE {"vefDistance", "vefRange", "vefMode", "stopExtreme", "stopPad", "stopMin", "stopMax", "vefR", "minR"}
NeutralElsewhere(c) == \A x \in Leaves \ Variable(c.type) : c[x] = Neutral(c.type)[x]
ORBSupported(c) ==
  /\ NeutralElsewhere(c)
  /\ c.stopType \in {Unset, "fixedAtr", "pips"} /\ c.stopMin <= c.stopMax /\ c.stopMax > 0
  /\ c.slot = Unset \/ (c.slot \in 60 .. 1440 /\ c.slot % 60 = 0)
  /\ c.orbR > 0 /\ c.risk > 0 /\ (c.targetPips = Unset \/ c.targetPips > 0) /\ (c.hold = Unset \/ c.hold > 0)
  /\ c.partialOn = 1 => (c.fraction > 0 /\ c.partialR > 0)
  /\ c.rmvAtr = Unset \/ (c.rmvAtr > 0 /\ c.rmvLookback > 0)
VEFSupported(c) ==
  /\ NeutralElsewhere(c)
  /\ c.risk > 0 /\ c.vefDistance # Unset /\ c.vefDistance > 0 /\ c.tail <= 100 /\ c.close <= 100
  /\ c.stopMax > 0 /\ c.stopMin <= c.stopMax /\ c.vefR > 0 /\ c.minR > 0
  /\ c.vefMode \in {Unset, "vwap"} /\ c.vefRange = 1

(* Slices replace the lists of symbols and timeframes; each list gates     *)
(* alone.                                                                  *)
RouteAllowed(c, r) ==
  IF c.slices # {} THEN << r.symbol, r.tf >> \in c.slices
  ELSE (c.symbols # {} => r.symbol \in c.symbols) /\ (c.timeframes # {} => r.tf \in c.timeframes)

ORBVerdict(c, a, r) ==
  IF ~ (a.orb /\ a.types > 0 /\ ORBSupported(c)) THEN "admission"
  ELSE IF ~ RouteAllowed(c, r) THEN "route"
  ELSE IF (c.stopPips # Unset \/ c.targetPips # Unset) /\ ~ r.reviewed THEN "admission" ELSE "admitted"
VEFVerdict(c, a, r) ==
  IF r.fill # "close" THEN "fill"
  ELSE IF r.tf # "15m" \/ ~ (a.vef /\ a.types > 0 /\ VEFSupported(c)) THEN "admission"
  ELSE IF ~ RouteAllowed(c, r) THEN "route" ELSE "admitted"
(* The paper replay and the bid/ask runner ask in a different order.       *)
PrefixVerdict(c, a, r) ==
  CASE SourceFaulty(c) -> "source"
    [] ~ SourceFaulty(c) /\ c.type \notin {"orb", "vef"} -> "family"
    [] ~ SourceFaulty(c) /\ c.type \in {"orb", "vef"} /\ (c.source # Unset \/ c.htf # "off") -> "context"
    [] OTHER -> IF c.type = "orb" THEN ORBVerdict(c, a, r) ELSE VEFVerdict(c, a, r)
BidAskVerdict(c, a, r) ==
  CASE SourceFaulty(c) -> "source"
    [] ~ SourceFaulty(c) /\ c.type # "orb" -> "family"
    [] OTHER -> IF ORBVerdict(c, a, r) # "admitted" THEN ORBVerdict(c, a, r)
                ELSE IF a.partial THEN "partial" ELSE IF a.trailing THEN "trailing" ELSE "admitted"
-------------------------------------------------------------------------------
SourceInit ==
  /\ lines = << >> /\ cfg = DefaultConfig /\ verdict = "open"
  /\ audit = [orb |-> TRUE, vef |-> TRUE, types |-> 0, partial |-> FALSE, trailing |-> FALSE]
WriteLine(l) ==
  /\ verdict = "open" /\ Len(lines) < MaxLines
  /\ lines' = Append(lines, l) /\ cfg' = Parsed(cfg, l) /\ audit' = Audited(audit, l)
  /\ UNCHANGED << book, verdict >>
SubmitPrefix(r) ==
  /\ verdict = "open" /\ verdict' = PrefixVerdict(cfg, audit, r)
  /\ UNCHANGED << book, lines, cfg, audit >>
SubmitBidAsk(r) ==
  /\ verdict = "open" /\ verdict' = BidAskVerdict(cfg, audit, r)
  /\ UNCHANGED << book, lines, cfg, audit >>
SourceNext(routes) ==
  (\E l \in book : WriteLine(l)) \/ \E r \in routes : SubmitPrefix(r) \/ SubmitBidAsk(r)
-------------------------------------------------------------------------------
(* A family's own leaves: the ones a repeated selection starts afresh.  The*)
(* multiple of the range and the pips of a target outlive it.              *)
FamilyLeaves == {"stopType", "stopAtr", "stopPips", "stopPad", "stopMin", "stopMax", "stopExtreme", "beAt",
                 "beOffset", "cooldown", "firstMinutes", "firstCandles", "slot", "openSessions", "buffer",
                 "hold", "orbR", "vefDistance", "vefRange", "vefMode", "vefR"}
Selections == {k \in DOMAIN lines : lines[k].head = "type"}
(* The lines that say a leaf to someone who reads them alone, after the    *)
(* family's name: all of them, or those since the selection was repeated.  *)
Sayers(x) == {k \in DOMAIN lines \ Selections :
                /\ x \in DOMAIN Says(Neutral(cfg.type), lines[k])
                /\ (Cardinality(Selections) > 1 /\ x \in FamilyLeaves) => k > Max(Selections)}

(* An admitted source means what it says: every line of it says something, *)
(* and every leaf of the configuration that runs has the value its last    *)
(* line gives it when read alone, or the family's own default.  No         *)
(* admitted line is ignored, lost to a later selector, or read differently *)
(* because of the lines before it (paper_prefix_orb.go:484,                *)
(* paper_prefix_vwap.go:193, parser_setups.go:132).                        *)
MeansWhatItSays ==
  verdict = "admitted" =>
    /\ \A k \in DOMAIN lines : Says(Neutral(cfg.type), lines[k]) # Nothing
    /\ \A x \in Leaves \ {"rmvAtr", "rmvLookback", "seasonality"} :
         cfg[x] = IF Sayers(x) = {} THEN Neutral(cfg.type)[x]
                  ELSE Says(Neutral(cfg.type), lines[Max(Sayers(x))])[x]

(* The padding of an opposite-edge stop is the number after its `by`, or   *)
(* the number that stands alone after the edge: its bounds, `min` and      *)
(* `max`, are not the padding (spec/dsl-spec.md:401).                      *)
PaddingIsNotABound ==
  (verdict = "admitted" /\ cfg.type = "orb") =>
    cfg.stopPad \in {25} \cup {n[2] : n \in UNION {{lines[k].nums[i] : i \in DOMAIN lines[k].nums} : k \in DOMAIN lines}
                                 \cap ({"by", "plus", "+", "edge"} \X Nat)}
===============================================================================
