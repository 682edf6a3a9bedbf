--------------------------- MODULE PaperBidAskProofs ---------------------------
(***************************************************************************)
(* Proofs about PaperBidAsk, for every policy, economy, calendar and       *)
(* bound: each decision is accounted for once, coverage once lost stays    *)
(* lost, nothing is entered from the past and every exit has one           *)
(* authority.                                                              *)
(*                                                                         *)
(* The inductive invariant relates the clocks: the last completed bar ends *)
(* a duration after it opens; a waiting decision is the last bar's, and    *)
(* whatever has since been skipped was declared shut; no observation is    *)
(* newer than the newest.                                                  *)
(***************************************************************************)
EXTENDS PaperBidAsk, TLAPS, FiniteSetTheorems, WellFoundedInduction

BarClock ==
  /\ lastBarOpen >= 0 => lastBarClose = lastBarOpen + Duration
  /\ lastBarOpen < 0 => lastBarClose = -1
  /\ pending # None \/ position # None => lastBarOpen >= 0

Waiting ==
  pending # None =>
    /\ position = None /\ pending.index = barIndex
    /\ request.activation <= pending.close /\ pending.close <= lastBarClose
    /\ \A u \in pending.close .. lastBarClose-1 : Shut(u)
    /\ pending.admit # None => pending.deadline # None

NewestQuote == \A t \in Observed : t <= lastQuoteT

SlowExitIsDual == dualExitPending => Dual

Clocks == BarClock /\ Waiting /\ NewestQuote /\ SlowExitIsDual
-------------------------------------------------------------------------------
(* The records that the stream may bring.                                  *)
BarRecord(b) ==
  /\ b.open \in Times /\ b.open + Duration \in Times /\ b.commit \in Times
  /\ b.mid \in Candles
QuoteRecord(q) ==
  /\ q.at \in Times /\ q.start \in Times /\ q.qualified \in Times /\ q.commit \in Times
  /\ q.content \in Quotes
EpisodeRecord(e) == e.admit \in Times /\ e.deadline \in Times /\ e.commit \in Times
SealRecord(s) == s.reason \in Outcomes /\ s.commit \in Times
ClosureRecord(c) == c.from \in Times /\ c.through \in Times /\ c.commit \in Times

LEMMA Records ==
  ASSUME TypeOK, Next
  PROVE  \/ \E b : BarRecord(b) /\ OnBar(b)
         \/ \E q : QuoteRecord(q) /\ OnQuote(q)
         \/ \E e : EpisodeRecord(e) /\ OnEpisode(e)
         \/ \E s : SealRecord(s) /\ OnSeal(s)
         \/ \E t \in Times : OnCoverageGap(t)
         \/ request.dated /\ \E c : ClosureRecord(c) /\ OnClosure(c)
         \/ \E t \in Times : OnExperimentClock(t)
<1> USE PaperAssumption
<1>1. now \in Times
  BY DEF TypeOK
<1>2. \A t \in CommitTimes : t \in Times
  BY <1>1 DEF CommitTimes, Times
<1>3. CASE Bar
  <2>1. PICK t \in CommitTimes, mid \in Candles :
          \E close \in {u \in Recent(t) : u >= Duration /\ u % Duration = 0} :
            OnBar([open |-> close - Duration, commit |-> t, mid |-> mid])
    BY <1>3 DEF Bar
  <2>2. PICK close \in {u \in Recent(t) : u >= Duration /\ u % Duration = 0} :
          OnBar([open |-> close - Duration, commit |-> t, mid |-> mid])
    BY <2>1
  <2>3. close \in Times /\ close - Duration \in Times
    BY DEF Recent, Times
  <2>4. BarRecord([open |-> close - Duration, commit |-> t, mid |-> mid])
    BY <1>2, <2>3 DEF BarRecord, Times
  <2> QED BY <2>2, <2>4
<1>4. CASE StreamedQuote
  <2>1. PICK t \in CommitTimes, c \in Quotes : \E at, start, qualified \in Recent(t) :
          OnQuote([at |-> at, start |-> start, qualified |-> qualified, commit |-> t,
                   content |-> c, signal |-> None])
    BY <1>4 DEF StreamedQuote
  <2>2. PICK at \in Recent(t), start \in Recent(t), qualified \in Recent(t) :
          OnQuote([at |-> at, start |-> start, qualified |-> qualified, commit |-> t,
                   content |-> c, signal |-> None])
    BY <2>1
  <2>3. QuoteRecord([at |-> at, start |-> start, qualified |-> qualified, commit |-> t,
                     content |-> c, signal |-> None])
    BY <1>2 DEF QuoteRecord, Recent
  <2> QED BY <2>2, <2>3
<1>5. CASE AnsweringQuote
  <2>1. PICK t \in CommitTimes, c \in Quotes, k \in Signals :
          \E at, start, qualified \in Recent(t) :
            OnQuote([at |-> at, start |-> start, qualified |-> qualified, commit |-> t,
                     content |-> c, signal |-> k])
    BY <1>5 DEF AnsweringQuote
  <2>2. PICK at \in Recent(t), start \in Recent(t), qualified \in Recent(t) :
          OnQuote([at |-> at, start |-> start, qualified |-> qualified, commit |-> t,
                   content |-> c, signal |-> k])
    BY <2>1
  <2>3. QuoteRecord([at |-> at, start |-> start, qualified |-> qualified, commit |-> t,
                     content |-> c, signal |-> k])
    BY <1>2 DEF QuoteRecord, Recent
  <2> QED BY <2>2, <2>3
<1>6. CASE Episode
  <2>1. PICK t \in CommitTimes, k \in Signals :
          \E admit \in Recent(t), deadline \in t .. Horizon :
            OnEpisode([signal |-> k, admit |-> admit, deadline |-> deadline, commit |-> t])
    BY <1>6 DEF Episode
  <2>2. PICK admit \in Recent(t), deadline \in t .. Horizon :
          OnEpisode([signal |-> k, admit |-> admit, deadline |-> deadline, commit |-> t])
    BY <2>1
  <2>3. EpisodeRecord([signal |-> k, admit |-> admit, deadline |-> deadline, commit |-> t])
    BY <1>2 DEF EpisodeRecord, Recent, Times
  <2> QED BY <2>2, <2>3
<1>7. CASE Seal
  <2>1. PICK t \in CommitTimes, k \in Signals, why \in {"recovery", "deadline", "signal-expired"} :
          \E at \in Recent(t) : OnSeal([signal |-> k, reason |-> why, at |-> at, commit |-> t])
    BY <1>7 DEF Seal
  <2>2. \A at : SealRecord([signal |-> k, reason |-> why, at |-> at, commit |-> t])
    BY <1>2 DEF SealRecord, Outcomes
  <2> QED BY <2>1, <2>2
<1>8. CASE CoverageGap
  BY <1>2, <1>8 DEF CoverageGap
<1>9. CASE Closure
  <2>1. PICK t \in CommitTimes : \E from, through \in GridTimes :
          OnClosure([from |-> from, through |-> through, commit |-> t])
    BY <1>9 DEF Closure
  <2>2. PICK from \in GridTimes, through \in GridTimes :
          OnClosure([from |-> from, through |-> through, commit |-> t])
    BY <2>1
  <2>3. ClosureRecord([from |-> from, through |-> through, commit |-> t])
    BY <1>2 DEF ClosureRecord, GridTimes
  <2> QED BY <1>9, <2>2, <2>3 DEF Closure
<1>10. CASE ExperimentClock
  BY <1>1, <1>10 DEF ExperimentClock, Times
<1> QED BY <1>3, <1>4, <1>5, <1>6, <1>7, <1>8, <1>9, <1>10 DEF Next
-------------------------------------------------------------------------------
(* Arithmetic of the grid.                                                 *)
LEMMA ProductNat == ASSUME NEW a \in Nat, NEW b \in Nat PROVE a * b \in Nat
OBVIOUS

LEMMA DivisionNat ==
  ASSUME NEW a \in Nat, NEW b \in Nat \ {0}
  PROVE  a \div b \in Nat /\ a % b \in 0 .. b-1 /\ a = b * (a \div b) + (a % b)
<1>1. a \div b \in Nat
  OBVIOUS
<1>2. a % b \in 0 .. b-1
  OBVIOUS
<1>3. a = b * (a \div b) + (a % b)
  OBVIOUS
<1> QED BY <1>1, <1>2, <1>3

LEMMA MultipleOf == ASSUME NEW q \in Nat, NEW b \in Nat \ {0} PROVE (b * q) % b = 0
OBVIOUS

LEMMA FirstMultiple ==
  ASSUME NEW a \in Nat, NEW b \in Nat \ {0}, a % b = 0, a # 0
  PROVE  a >= b
OBVIOUS

(* An entry reaches the grid within a bar.                                 *)
LEMMA CeilingOnGrid ==
  ASSUME NEW t \in Nat, NEW d \in Nat \ {0}, d = Duration
  PROVE  /\ GridCeiling(t) % d = 0
         /\ GridCeiling(t) \in t .. t + d - 1 /\ GridCeiling(t) \in Nat
<1>1. t \div d \in Nat /\ t % d \in 0 .. d-1 /\ t = d * (t \div d) + (t % d)
  BY DivisionNat
<1>2. CASE t % d = 0
  BY <1>1, <1>2 DEF GridCeiling
<1>3. CASE t % d # 0
  <2>1. t + d - (t % d) = d * ((t \div d) + 1)
    BY <1>1
  <2>2. (d * ((t \div d) + 1)) % d = 0
    <3>1. (t \div d) + 1 \in Nat
      BY <1>1
    <3> QED BY <3>1, MultipleOf
  <2>3. GridCeiling(t) = t + d - (t % d)
    BY <1>3 DEF GridCeiling
  <2>4. t + d - (t % d) \in t .. t + d - 1 /\ t + d - (t % d) \in Nat
    BY <1>1, <1>3
  <2> QED BY <2>1, <2>2, <2>3, <2>4
<1> QED BY <1>2, <1>3
-------------------------------------------------------------------------------
(* Types, in the groups of variables that the handlers change together.    *)
ClockTypes ==
  /\ request \in Requests /\ ended \in BOOLEAN /\ now \in Times
  /\ suppliedOpen \in Times \cup {-1} /\ barIndex \in Nat \cup {-1}
  /\ lastBarOpen \in Times \cup {-1} /\ lastBarClose \in Times \cup {-1}
QuoteTypes ==
  lastQuoteT \in Times \cup {-1} /\ quoteIdentities \in [Times -> Quotes \cup {None}]
ExitTypes == dualExitPending \in BOOLEAN /\ slowExitCommitT \in Times \cup {None}
HeldTypes ==
  /\ position \in PositionType \cup {None}
  /\ position # None =>
       /\ position.fullFrom % Duration = 0
       /\ position.fullFrom \in position.entryT .. position.entryT + Duration - 1
BookTypes ==
  /\ coverage \in {"sampled", "unresolved", "unhealthy", "complete"}
  /\ pending \in DecisionType \cup {None}
  /\ HeldTypes
  /\ balance \in Int /\ events \in Seq(EventType)

LEMMA TypeGroups == TypeOK <=> ClockTypes /\ QuoteTypes /\ ExitTypes /\ BookTypes
BY DEF TypeOK, ClockTypes, QuoteTypes, ExitTypes, HeldTypes, BookTypes

LEMMA EventTyped ==
  ASSUME NEW kind \in {"decision", "entry", "noFill", "exit"}, NEW k \in Nat,
         NEW why \in Reasons, NEW version \in Nat, NEW net \in Int
  PROVE  Event(kind, k, why, version, net) \in EventType
BY DEF Event, EventType

LEMMA PlainEventTyped ==
  ASSUME NEW kind \in {"decision", "noFill"}, NEW k \in Nat
  PROVE  /\ Event(kind, k, "", 0, 0) \in EventType
         /\ Event(kind, k, "", 0, 0).kind = kind /\ Event(kind, k, "", 0, 0).index = k
BY DEF Event, EventType, Reasons

(* What closing a position leaves, the open one or the tightened one.      *)
LEMMA CloseTypedOf ==
  ASSUME balance \in Int, NEW p \in PositionType, NEW price \in Int, NEW why \in Reasons,
         Close(p, price)
  PROVE  /\ position' = None /\ balance' \in Int /\ slowExitCommitT' = None
         /\ ExitEvent(p, price, why) \in EventType
<1> USE PaperAssumption
<1>1. p.side \in {1, -1} /\ p.entry \in Int /\ p.index \in Nat /\ p.version \in Nat
  BY DEF PositionType, Sides
<1>2. AdverseExit(p.side, price) \in Int
  BY <1>1 DEF AdverseExit
<1>3. /\ Credit(p, AdverseExit(p.side, price)) \in Int
      /\ Net(p, AdverseExit(p.side, price)) \in Int
  <2> DEFINE move == AdverseExit(p.side, price) - p.entry
  <2>1. p.side * move \in Int
    BY <1>1, <1>2
  <2>2. Lots * ExitFee \in Int /\ Lots * EntryFee \in Int /\ p.side * move * Lots \in Int
    BY <2>1
  <2> QED BY <2>2 DEF Credit, Net
<1>4. ExitEvent(p, price, why) \in EventType
  BY <1>1, <1>3, EventTyped DEF ExitEvent
<1>5. balance' \in Int
  BY <1>3 DEF Close
<1> QED BY <1>4, <1>5 DEF Close

LEMMA CloseTyped ==
  ASSUME BookTypes, position # None, NEW price \in Int, NEW why \in Reasons,
         Close(position, price)
  PROVE  /\ position' = None /\ balance' \in Int /\ slowExitCommitT' = None
         /\ ExitEvent(position, price, why) \in EventType
<1>1. balance \in Int /\ position \in PositionType
  BY DEF BookTypes, HeldTypes
<1> QED BY <1>1, CloseTypedOf

LEMMA PriceTyped ==
  ASSUME NEW side \in Sides, NEW mid \in Nat
  PROVE  LiquidPrice(side, mid) \in Int /\ EntryPrice(side, mid) \in Int
BY PaperAssumption DEF LiquidPrice, EntryPrice, Sides

LEMMA NoFillTyped ==
  ASSUME BookTypes, pending # None, NEW why, NoFill(why)
  PROVE  /\ pending' = None /\ position' = position /\ balance' = balance
         /\ events' \in Seq(EventType)
<1>1. pending.index \in Nat
  BY DEF BookTypes, DecisionType
<1>2. Event("noFill", pending.index, "", 0, 0) \in EventType
  BY <1>1 DEF Event, EventType, Reasons
<1>3. PICK e \in EventType : events' = Append(events, e)
  BY <1>2, Zenon DEF NoFill
<1>4. events' \in Seq(EventType)
  BY <1>3 DEF BookTypes
<1> QED BY <1>4 DEF NoFill

LEMMA DecisionTyped ==
  ASSUME ClockTypes, NEW b, BarRecord(b), NEW side \in Sides
  PROVE  Decision(b, side) \in DecisionType
<1> USE PaperAssumption
<1>1. b.mid.C \in Nat /\ b.open \in Nat /\ request.slot \in Nat
  BY DEF BarRecord, ClockTypes, Times, RequestType
<1>2. b.mid.C - side * StopDist \in Int /\ b.mid.C + side * TargetDist \in Int
  BY <1>1 DEF Sides
<1>3. (IF request.slot = 0 THEN Forever ELSE (b.open \div request.slot + 1) * request.slot) \in Nat
  <2>1. CASE request.slot = 0
    BY <2>1 DEF Forever
  <2>2. CASE request.slot # 0
    <3>1. b.open \div request.slot \in Nat
      BY <1>1, <2>2, DivisionNat
    <3>2. (b.open \div request.slot + 1) * request.slot \in Nat
      BY <1>1, <3>1, ProductNat
    <3> QED BY <2>2, <3>2
  <2> QED BY <2>1, <2>2
<1>4. barIndex + 1 \in Nat /\ Dual \in BOOLEAN
  BY DEF ClockTypes, Dual
<1>5. b.open + Duration \in Times /\ b.commit \in Times
  BY DEF BarRecord
<1> QED BY <1>2, <1>3, <1>4, <1>5 DEF Decision, DecisionType

LEMMA DecideTyped ==
  ASSUME ClockTypes, ExitTypes, NEW b, BarRecord(b), NEW recorded \in Seq(EventType),
         Decide(b, recorded)
  PROVE  /\ dualExitPending' = FALSE /\ events' \in Seq(EventType)
         /\ pending' \in DecisionType \cup {None}
<1>1. dualExitPending' = FALSE
  BY DEF Decide
<1>2. pending' \in DecisionType \cup {None}
  BY DecisionTyped, Zenon DEF Decide
<1>3. Event("decision", barIndex + 1, "", 0, 0) \in EventType
  <2>1. barIndex + 1 \in Nat
    BY DEF ClockTypes
  <2> QED BY <2>1, PlainEventTyped, Zenon
<1>4. events' = recorded \/ \E e \in EventType : events' = Append(recorded, e)
  BY <1>3, Zenon DEF Decide
<1>5. events' \in Seq(EventType)
  BY <1>4
<1> QED BY <1>1, <1>2, <1>5

LEMMA BarSeenTyped ==
  ASSUME ClockTypes, QuoteTypes, NEW b, BarRecord(b), BarSeen(b)
  PROVE  ClockTypes' /\ QuoteTypes'
BY DEF ClockTypes, QuoteTypes, BarRecord, BarSeen, Commit, quoteVars

LEMMA TightenedTyped ==
  ASSUME HeldTypes, position # None, NEW level \in Levels
  PROVE  /\ Tightened(position, level) \in PositionType
         /\ Tightened(position, level).fullFrom = position.fullFrom
         /\ Tightened(position, level).entryT = position.entryT
         /\ Tightened(position, level).index = position.index
<1>1. position \in PositionType /\ level \in Int
  BY PaperAssumption DEF HeldTypes
<1>2. CASE Tightened(position, level) = position
  BY <1>1, <1>2
<1>3. CASE Tightened(position, level) = [position EXCEPT !.sl = level, !.version = @ + 1]
  <2>1. PICK v : v = position.version + 1 /\ v \in Nat \ {0}
    BY <1>1 DEF PositionType
  <2>2. Tightened(position, level) = [position EXCEPT !.sl = level, !.version = v]
    BY <1>3, <2>1
  <2> QED BY <1>1, <2>1, <2>2 DEF PositionType
<1> QED BY <1>2, <1>3 DEF Tightened

LEMMA BarOutcomeTyped ==
  ASSUME BookTypes, position # None, NEW b, BarRecord(b), BarOutcome(position, b) # None
  PROVE  /\ BarOutcome(position, b).price \in Int
         /\ BarOutcome(position, b).why \in Reasons \ {"time", "slow-ema"}
<1>1. /\ position.side \in Sides /\ position.sl \in Int /\ position.tp \in Int
      /\ b.mid.O \in Nat /\ b.mid.H \in Nat /\ b.mid.L \in Nat
  BY PaperAssumption DEF BookTypes, HeldTypes, PositionType, BarRecord
<1>2. LiquidPrice(position.side, b.mid.O) \in Int
  BY <1>1, PriceTyped
<1> QED BY <1>1, <1>2 DEF BarOutcome, Reasons

LEMMA BarTyped ==
  ASSUME TypeOK, NEW b, BarRecord(b), OnBar(b)
  PROVE  TypeOK'
<1> USE PaperAssumption
<1>1. ClockTypes /\ QuoteTypes /\ ExitTypes /\ BookTypes
  BY TypeGroups
<1>2. BarSeen(b)
  BY Zenon DEF OnBar, BarWarmup, BarAfterGap, BarUncovered, BarFlat, BarMissedSlowExit, BarExit, BarHeld
<1>3. ClockTypes' /\ QuoteTypes'
  BY <1>1, <1>2, BarSeenTyped
<1>4. ExitTypes' /\ BookTypes'
  <2>1. CASE BarWarmup(b) \/ BarAfterGap(b) \/ BarUncovered(b) \/ BarMissedSlowExit(b)
    BY <1>1, <2>1 DEF BarWarmup, BarAfterGap, BarUncovered, BarMissedSlowExit, Unresolved,
                      exitVars, bookVars, ExitTypes, BookTypes, HeldTypes
  <2>2. CASE BarFlat(b)
    <3>1. Decide(b, events) /\ UNCHANGED << coverage, position, balance, slowExitCommitT >>
      BY <2>2 DEF BarFlat
    <3>2. /\ dualExitPending' = FALSE /\ events' \in Seq(EventType)
          /\ pending' \in DecisionType \cup {None}
      BY <1>1, <3>1, DecideTyped DEF BookTypes
    <3> QED BY <1>1, <3>1, <3>2 DEF ExitTypes, BookTypes, HeldTypes
  <2>3. CASE BarExit(b)
    <3> DEFINE out == BarOutcome(position, b)
               record == ExitEvent(position, out.price, out.why)
    <3>1. out # None /\ position # None
      BY <2>3 DEF BarExit
    <3>2. out.price \in Int /\ out.why \in Reasons
      BY <1>1, <3>1, BarOutcomeTyped
    <3>3. CASE /\ Close(position, out.price) /\ Decide(b, Append(events, record))
               /\ UNCHANGED coverage
      <4>1. /\ position' = None /\ balance' \in Int /\ slowExitCommitT' = None
            /\ record \in EventType
        BY <1>1, <3>1, <3>2, <3>3, CloseTyped
      <4>2. Append(events, record) \in Seq(EventType)
        BY <1>1, <4>1 DEF BookTypes
      <4>3. /\ dualExitPending' = FALSE /\ events' \in Seq(EventType)
            /\ pending' \in DecisionType \cup {None}
        BY <1>1, <3>3, <4>2, DecideTyped
      <4> QED BY <1>1, <3>3, <4>1, <4>3 DEF ExitTypes, BookTypes, HeldTypes
    <3>4. CASE Unresolved
      BY <1>1, <3>4 DEF Unresolved, exitVars, bookVars, ExitTypes, BookTypes, HeldTypes
    <3> QED BY <2>3, <3>3, <3>4, Zenon DEF BarExit
  <2>4. CASE BarHeld(b)
    <3>1. PICK p \in {position} \cup {Tightened(position, level) : level \in Levels},
               slow \in {FALSE, Dual} :
            LET price == LiquidPrice(p.side, b.mid.C)
                exits == dualExitPending \/ slow
            IN /\ dualExitPending' = exits
               /\ pending' = pending
               /\ IF HoldDue(p) /\ ClosesAt(p, price)
                  THEN /\ Close(p, price)
                       /\ events' = Append(events, ExitEvent(p, price, "time"))
                       /\ UNCHANGED coverage
                  ELSE /\ position' = p
                       /\ coverage' = IF HoldDue(p) THEN "unresolved" ELSE coverage
                       /\ slowExitCommitT' = IF exits /\ slowExitCommitT = None
                                             THEN b.commit ELSE slowExitCommitT
                       /\ UNCHANGED << balance, events >>
      BY <2>4, Zenon DEF BarHeld
    <3> DEFINE price == LiquidPrice(p.side, b.mid.C)
    <3>2. /\ p \in PositionType /\ p.fullFrom = position.fullFrom /\ p.entryT = position.entryT
      BY <1>1, <2>4, TightenedTyped DEF BarHeld, BookTypes, HeldTypes
    <3>3. dualExitPending' \in BOOLEAN /\ pending' \in DecisionType \cup {None}
      BY <1>1, <3>1 DEF ExitTypes, BookTypes, Dual
    <3>4. CASE /\ Close(p, price) /\ UNCHANGED coverage
               /\ events' = Append(events, ExitEvent(p, price, "time"))
      <4>1. b.mid.C \in Nat /\ p.side \in Sides
        BY <3>2 DEF BarRecord, PositionType
      <4>2. price \in Int
        BY <4>1, PriceTyped
      <4>3. /\ position' = None /\ balance' \in Int /\ slowExitCommitT' = None
            /\ ExitEvent(p, price, "time") \in EventType
        BY <1>1, <3>2, <3>4, <4>2, CloseTypedOf DEF Reasons, BookTypes
      <4> QED BY <1>1, <3>3, <3>4, <4>3 DEF ExitTypes, BookTypes, HeldTypes
    <3>5. CASE /\ position' = p
               /\ coverage' = IF HoldDue(p) THEN "unresolved" ELSE coverage
               /\ slowExitCommitT' \in {b.commit, slowExitCommitT}
               /\ UNCHANGED << balance, events >>
      <4>1. slowExitCommitT' \in Times \cup {None}
        BY <1>1, <3>5 DEF ExitTypes, BarRecord
      <4>2. HeldTypes'
        BY <1>1, <2>4, <3>2, <3>5 DEF BarHeld, BookTypes, HeldTypes
      <4> QED BY <1>1, <3>3, <3>5, <4>1, <4>2 DEF ExitTypes, BookTypes
    <3> QED BY <3>1, <3>4, <3>5, Zenon
  <2> QED BY <2>1, <2>2, <2>3, <2>4 DEF OnBar
<1> QED BY <1>3, <1>4, TypeGroups, PTL

LEMMA EpisodeTyped ==
  ASSUME TypeOK, NEW e, EpisodeRecord(e), OnEpisode(e)
  PROVE  TypeOK'
<1>1. ClockTypes /\ QuoteTypes /\ ExitTypes /\ BookTypes
  BY TypeGroups
<1>2. pending' \in DecisionType
  BY <1>1 DEF BookTypes, OnEpisode, EpisodeRecord, DecisionType
<1>3. ClockTypes' /\ QuoteTypes' /\ ExitTypes' /\ BookTypes'
  BY <1>1, <1>2 DEF OnEpisode, EpisodeRecord, Commit, clockVars, quoteVars, exitVars, bookVars,
                    ClockTypes, QuoteTypes, ExitTypes, BookTypes, HeldTypes
<1> QED BY <1>3, TypeGroups, PTL

LEMMA SealTyped ==
  ASSUME TypeOK, NEW s, SealRecord(s), OnSeal(s)
  PROVE  TypeOK'
<1>1. ClockTypes /\ QuoteTypes /\ ExitTypes /\ BookTypes
  BY TypeGroups
<1>2. /\ pending' = None /\ position' = position /\ balance' = balance
      /\ events' \in Seq(EventType)
  BY <1>1, NoFillTyped DEF OnSeal, SealHolds
<1>3. ClockTypes' /\ QuoteTypes' /\ ExitTypes' /\ BookTypes'
  BY <1>1, <1>2 DEF OnSeal, SealRecord, Commit, clockVars, quoteVars, exitVars,
                    ClockTypes, QuoteTypes, ExitTypes, BookTypes, HeldTypes
<1> QED BY <1>3, TypeGroups, PTL

(* What Fill makes of the pending decision.                                *)
LEMMA FillTyped ==
  ASSUME ClockTypes, BookTypes, pending # None, NEW q, QuoteRecord(q), Fill(q)
  PROVE  /\ pending' = None /\ HeldTypes' /\ balance' \in Int /\ events' \in Seq(EventType)
         /\ \/ \E why : NoFill(why)
            \/ /\ position' \in PositionType /\ position'.index = pending.index
               /\ events' = Append(events, Event("entry", pending.index, "filled", 1, 0))
<1> USE PaperAssumption
<1> DEFINE d == pending
           entry == AdverseEntry(d.side, EntryPrice(d.side, q.content.mid))
           stop == IF Dual THEN entry - d.side * StopDist ELSE d.sl
<1>1. CASE \E why \in Outcomes : NoFill(why)
  BY <1>1, NoFillTyped DEF BookTypes, HeldTypes
<1>2. CASE /\ position' =
                [ index |-> d.index, side |-> d.side, entry |-> entry, sl |-> stop,
                  tp |-> d.tp, noTarget |-> d.noTarget, entryT |-> q.at,
                  fullFrom |-> GridCeiling(q.at), slotEnd |-> d.slotEnd, version |-> 1 ]
           /\ pending' = None
           /\ balance' = balance - Lots * EntryFee
           /\ events' = Append(events, Event("entry", d.index, "filled", 1, 0))
  <2>1. /\ d.index \in Nat /\ d.side \in Sides /\ d.sl \in Int /\ d.tp \in Int
        /\ d.noTarget \in BOOLEAN /\ d.slotEnd \in Nat
    BY DEF BookTypes, DecisionType
  <2>2. q.at \in Times /\ q.at \in Nat /\ q.content.mid \in Nat
    BY DEF QuoteRecord, Times
  <2>3. entry \in Int /\ stop \in Int
    <3>1. EntryPrice(d.side, q.content.mid) \in Int
      BY <2>1, <2>2, PriceTyped
    <3>2. entry \in Int
      BY <2>1, <3>1 DEF AdverseEntry, Sides
    <3> HIDE DEF entry
    <3>3. d.side * StopDist \in Int
      BY <2>1 DEF Sides
    <3> QED BY <2>1, <3>2, <3>3
  <2>4. /\ GridCeiling(q.at) % Duration = 0 /\ GridCeiling(q.at) \in Nat
        /\ GridCeiling(q.at) \in q.at .. q.at + Duration - 1
    BY <2>2, CeilingOnGrid
  <2>5. position' \in PositionType /\ position'.index = pending.index /\ HeldTypes'
    <3> HIDE DEF entry, stop
    <3> QED BY <1>2, <2>1, <2>2, <2>3, <2>4 DEF HeldTypes, PositionType
  <2>6. PICK e \in EventType : events' = Append(events, e)
    <3>1. Event("entry", d.index, "filled", 1, 0) \in EventType
      BY <2>1 DEF Event, EventType, Reasons
    <3> QED BY <1>2, <3>1, Zenon
  <2>7. events' \in Seq(EventType)
    BY <2>6 DEF BookTypes
  <2>8. balance' \in Int
    BY <1>2 DEF BookTypes
  <2> QED BY <1>2, <2>5, <2>7, <2>8
<1>3. {"invalid-or-breached-protection", "invalid-stop-budget", "quantity",
       "insufficient-entry-liquidity"} \subseteq Outcomes
  BY DEF Outcomes
<1> QED BY <1>1, <1>2, <1>3, Zenon DEF Fill

(* A sampled price that closes the position.                               *)
LEMMA QuotedExitTyped ==
  ASSUME BookTypes, ExitTypes, position # None, NEW q, QuoteRecord(q), NEW why \in Reasons,
         Close(position, LiquidPrice(position.side, q.content.mid)),
         events' = Append(events, ExitEvent(position, LiquidPrice(position.side, q.content.mid), why)),
         UNCHANGED << coverage, pending, dualExitPending >>
  PROVE  ExitTypes' /\ BookTypes'
<1> DEFINE price == LiquidPrice(position.side, q.content.mid)
<1>1. price \in Int
  <2>1. position.side \in Sides /\ q.content.mid \in Nat
    BY PaperAssumption DEF BookTypes, HeldTypes, PositionType, QuoteRecord
  <2> QED BY <2>1, PriceTyped
<1>2. /\ position' = None /\ balance' \in Int /\ slowExitCommitT' = None
      /\ ExitEvent(position, price, why) \in EventType
  BY <1>1, CloseTyped
<1>3. events' \in Seq(EventType)
  <2> HIDE DEF price
  <2>1. PICK e \in EventType : events' = Append(events, e)
    BY <1>2 DEF price
  <2> QED BY <2>1 DEF BookTypes
<1> QED BY <1>2, <1>3 DEF ExitTypes, BookTypes, HeldTypes

LEMMA SlowExitTyped ==
  ASSUME BookTypes, ExitTypes, position # None, NEW q, QuoteRecord(q), SlowExit(q)
  PROVE  ExitTypes' /\ BookTypes'
<1>1. CASE UNCHANGED << coverage, pending, exitVars, bookVars >> \/ Unresolved
  BY <1>1 DEF Unresolved, exitVars, bookVars, ExitTypes, BookTypes, HeldTypes
<1>2. CASE LET price == LiquidPrice(position.side, q.content.mid) IN
           /\ Close(position, price)
           /\ events' = Append(events, ExitEvent(position, price, "slow-ema"))
           /\ UNCHANGED << coverage, pending, dualExitPending >>
  BY <1>2, QuotedExitTyped DEF Reasons
<1> QED BY <1>1, <1>2, Zenon DEF SlowExit

LEMMA SampledExitTyped ==
  ASSUME BookTypes, ExitTypes, position # None, NEW q, QuoteRecord(q), SampledExit(q)
  PROVE  ExitTypes' /\ BookTypes'
<1>1. CASE UNCHANGED << coverage, pending, exitVars, bookVars >> \/ Unresolved
  BY <1>1 DEF Unresolved, exitVars, bookVars, ExitTypes, BookTypes, HeldTypes
<1>2. CASE \E why \in {"stop", "target"} :
           LET price == LiquidPrice(position.side, q.content.mid) IN
           /\ Close(position, price)
           /\ events' = Append(events, ExitEvent(position, price, why))
           /\ UNCHANGED << coverage, pending, dualExitPending >>
  BY <1>2, QuotedExitTyped DEF Reasons
<1> QED BY <1>1, <1>2, Zenon DEF SampledExit

LEMMA QuoteTyped ==
  ASSUME TypeOK, NEW q, QuoteRecord(q), OnQuote(q)
  PROVE  TypeOK'
<1>1. ClockTypes /\ QuoteTypes /\ ExitTypes /\ BookTypes
  BY TypeGroups
<1>2. ClockTypes'
  BY <1>1 DEF ClockTypes, OnQuote, QuoteRecord, Commit, clockVars
<1>3. Original(q) => pending # None
  BY DEF OnQuote, Misdirected
<1>4. QuoteTypes'
  BY <1>1 DEF QuoteTypes, OnQuote, QuoteRecord, quoteVars
<1>5. ASSUME NEW why, NoFill(why), Original(q), UNCHANGED << coverage, exitVars >>
      PROVE  ExitTypes' /\ BookTypes'
  BY <1>1, <1>3, <1>5, NoFillTyped DEF exitVars, ExitTypes, BookTypes, HeldTypes
<1>6. ExitTypes' /\ BookTypes'
  <2>1. CASE OriginalQuote(q)
    <3>1. CASE Fill(q)
      <4>1. UNCHANGED << coverage, exitVars >> /\ pending # None
        BY <1>3, <2>1 DEF OriginalQuote
      <4>2. pending' = None /\ HeldTypes' /\ balance' \in Int /\ events' \in Seq(EventType)
        BY <1>1, <3>1, <4>1, FillTyped
      <4> QED BY <1>1, <4>1, <4>2 DEF exitVars, ExitTypes, BookTypes
    <3>2. CASE \E why : NoFill(why)
      BY <1>5, <2>1, <3>2 DEF OriginalQuote
    <3> QED BY <2>1, <3>1, <3>2, Zenon DEF OriginalQuote
  <2>2. CASE StreamQuote(q)
    <3>1. CASE UNCHANGED << coverage, pending, exitVars, bookVars >> \/ Unresolved
      BY <1>1, <3>1 DEF Unresolved, exitVars, bookVars, ExitTypes, BookTypes, HeldTypes
    <3>2. CASE position # None /\ (SlowExit(q) \/ SampledExit(q))
      BY <1>1, <3>2, SlowExitTyped, SampledExitTyped
    <3> QED BY <2>2, <3>1, <3>2, Zenon DEF StreamQuote
  <2>3. CASE OutsideEntries(q)
    BY <1>5, <2>3 DEF OnQuote, OutsideEntries
  <2> QED BY <2>1, <2>2, <2>3, Zenon DEF OnQuote
<1> QED BY <1>2, <1>4, <1>6, TypeGroups, PTL

LEMMA CoverageGapTyped ==
  ASSUME TypeOK, NEW t \in Times, OnCoverageGap(t)
  PROVE  TypeOK'
BY DEF TypeOK, OnCoverageGap, Commit, clockVars, quoteVars, exitVars, bookVars

LEMMA ClosureTyped ==
  ASSUME TypeOK, NEW c, ClosureRecord(c), OnClosure(c)
  PROVE  TypeOK' /\ c.through - Duration \in Times
<1> USE PaperAssumption
<1>1. c.through \in Nat /\ c.through # 0 /\ c.through % Duration = 0
  BY DEF ClosureRecord, OnClosure, AdmissibleClosure, Times
<1>2. c.through >= Duration
  BY <1>1, FirstMultiple
<1>3. c.through - Duration \in Times
  BY <1>1, <1>2 DEF ClosureRecord, Times
<1> QED BY <1>3 DEF TypeOK, OnClosure, ClosureRecord, Commit, quoteVars, exitVars, bookVars

LEMMA ExperimentClockTyped ==
  ASSUME TypeOK, NEW t \in Times, OnExperimentClock(t)
  PROVE  TypeOK'
<1>1. ClockTypes /\ QuoteTypes /\ ExitTypes /\ BookTypes
  BY TypeGroups
<1>2. ClockTypes' /\ QuoteTypes' /\ ExitTypes'
  BY <1>1 DEF OnExperimentClock, clockVars, quoteVars, exitVars, ClockTypes, QuoteTypes, ExitTypes
<1>3. BookTypes'
  <2>1. coverage' \in {"complete", "unresolved"}
    BY DEF OnExperimentClock
  <2>2. CASE pending # None
    <3>1. /\ pending' = None /\ position' = position /\ balance' = balance
          /\ events' \in Seq(EventType)
      BY <1>1, <2>2, NoFillTyped DEF OnExperimentClock
    <3> QED BY <1>1, <2>1, <3>1 DEF BookTypes, HeldTypes
  <2>3. CASE pending = None
    BY <1>1, <2>1, <2>3 DEF OnExperimentClock, bookVars, BookTypes, HeldTypes
  <2> QED BY <2>2, <2>3
<1> QED BY <1>2, <1>3, TypeGroups, PTL

LEMMA InitTyped == Init => TypeOK
<1> SUFFICES ASSUME Init PROVE TypeOK
  OBVIOUS
<1>1. 0 \in Times
  BY PaperAssumption DEF Times
<1>2. quoteIdentities \in [Times -> Quotes \cup {None}]
  BY DEF Init
<1>3. events \in Seq(EventType)
  BY DEF Init
<1> QED BY <1>1, <1>2, <1>3 DEF Init, TypeOK

LEMMA StepTyped == TypeOK /\ [Next]_vars => TypeOK'
<1> SUFFICES ASSUME TypeOK, [Next]_vars PROVE TypeOK'
  OBVIOUS
<1>1. CASE Next
  <2>1. CASE \E c : ClosureRecord(c) /\ OnClosure(c)
    BY <2>1, ClosureTyped
  <2>2. CASE \E t \in Times : OnCoverageGap(t) \/ OnExperimentClock(t)
    BY <2>2, CoverageGapTyped, ExperimentClockTyped
  <2> QED BY <1>1, <2>1, <2>2, Records, BarTyped, QuoteTyped, EpisodeTyped, SealTyped, Zenon
<1>2. CASE UNCHANGED vars
  BY <1>2 DEF TypeOK, vars, clockVars, quoteVars, exitVars, bookVars
<1> QED BY <1>1, <1>2

(* Every reachable state of the runner is well typed, and an open position *)
(* leaves its straddle at the first grid boundary at or after its entry.   *)
THEOREM PaperTypeCorrect == Spec => []TypeOK
BY InitTyped, StepTyped, PTL DEF Spec
-------------------------------------------------------------------------------
(* What a record does to the clocks and to what is waiting or held.        *)

(* A bar raises at most the decision of its own close, while flat, and     *)
(* opens nothing.                                                          *)
LEMMA BarEffect ==
  ASSUME TypeOK, NEW b, OnBar(b)
  PROVE  /\ BarSeen(b) /\ pending = None
         /\ position' # None => position # None
         /\ dualExitPending' => dualExitPending \/ Dual
         /\ pending' # None =>
              /\ position' = None /\ request.activation <= b.open
              /\ pending'.index = barIndex + 1 /\ pending'.close = b.open + Duration
              /\ pending'.admit = None
<1>1. BarSeen(b) /\ pending = None
  BY Zenon DEF OnBar, BarWarmup, BarAfterGap, BarUncovered, BarFlat, BarMissedSlowExit, BarExit, BarHeld
<1>2. ASSUME NEW recorded, Decide(b, recorded)
      PROVE  /\ dualExitPending' = FALSE
             /\ pending' # None =>
                  /\ pending'.index = barIndex + 1 /\ pending'.close = b.open + Duration
                  /\ pending'.admit = None
  <2>1. dualExitPending' = FALSE
    BY <1>2 DEF Decide
  <2>2. CASE pending' = None
    BY <2>1, <2>2
  <2>3. ASSUME NEW side, pending' = Decision(b, side)
        PROVE  /\ pending'.index = barIndex + 1 /\ pending'.close = b.open + Duration
               /\ pending'.admit = None
    BY <2>3 DEF Decision
  <2> QED BY <1>2, <2>1, <2>2, <2>3, Zenon DEF Decide
<1>3. CASE BarWarmup(b) \/ BarAfterGap(b) \/ BarUncovered(b) \/ BarMissedSlowExit(b)
  BY <1>1, <1>3 DEF BarWarmup, BarAfterGap, BarUncovered, BarMissedSlowExit, Unresolved,
                    exitVars, bookVars
<1>4. CASE BarFlat(b)
  BY <1>1, <1>2, <1>4 DEF BarFlat, Covered, Actionable, BarRecord
<1>5. CASE BarExit(b)
  BY <1>1, <1>2, <1>5 DEF BarExit, Covered, Actionable, Close, Unresolved, exitVars, bookVars
<1>6. CASE BarHeld(b)
  <2>1. /\ pending' = pending /\ position # None
        /\ \E slow \in {FALSE, Dual} : dualExitPending' = (dualExitPending \/ slow)
    BY <1>6, Zenon DEF BarHeld
  <2>2. dualExitPending' => dualExitPending \/ Dual
    <3>1. PICK slow \in {FALSE, Dual} : dualExitPending' = (dualExitPending \/ slow)
      BY <2>1
    <3>2. CASE slow = FALSE
      BY <3>1, <3>2
    <3>3. CASE slow = Dual
      BY <3>1, <3>3, Zenon
    <3> QED BY <3>2, <3>3
  <2> QED BY <1>1, <2>1, <2>2
<1> QED BY <1>1, <1>3, <1>4, <1>5, <1>6 DEF OnBar

(* An observation fills the waiting decision or leaves what is held to the *)
(* exits, and is remembered.                                               *)
LEMMA QuoteEffect ==
  ASSUME TypeOK, NEW q, QuoteRecord(q), OnQuote(q)
  PROVE  /\ UNCHANGED clockVars
         /\ dualExitPending' = dualExitPending
         /\ pending' = pending \/ pending' = None
         /\ pending' # None /\ position' # None => position # None
         /\ position' # None => position # None \/ pending # None
         /\ UNCHANGED quoteVars
            \/ /\ quoteIdentities' = [quoteIdentities EXCEPT ![q.at] = q.content]
               /\ lastQuoteT' = IF ~Known(q.at) /\ q.at >= lastQuoteT THEN q.at ELSE lastQuoteT
<1>1. /\ UNCHANGED clockVars
      /\ \/ UNCHANGED quoteVars
         \/ /\ quoteIdentities' = [quoteIdentities EXCEPT ![q.at] = q.content]
            /\ lastQuoteT' = IF ~Known(q.at) /\ q.at >= lastQuoteT THEN q.at ELSE lastQuoteT
  BY DEF OnQuote
<1>2. ASSUME NEW why, NoFill(why)
      PROVE  pending' = None /\ position' = position
  BY <1>2 DEF NoFill
<1>3. Original(q) => pending # None
  BY DEF OnQuote, Misdirected
<1>4. CASE OutsideEntries(q)
  BY <1>1, <1>2, <1>4 DEF OnQuote, exitVars
<1>5. CASE OriginalQuote(q)
  <2>1. CASE Fill(q)
    <3>1. pending' = None
      BY <2>1, Zenon DEF Fill, NoFill
    <3> QED BY <1>1, <1>3, <1>5, <3>1 DEF OriginalQuote, exitVars
  <2>2. CASE \E why : NoFill(why)
    BY <1>1, <1>2, <1>5, <2>2 DEF OriginalQuote, exitVars
  <2> QED BY <1>5, <2>1, <2>2, Zenon DEF OriginalQuote
<1>6. CASE StreamQuote(q)
  <2>1. CASE UNCHANGED << coverage, pending, exitVars, bookVars >> \/ Unresolved
    BY <1>1, <2>1 DEF Unresolved, exitVars, bookVars
  <2>2. CASE SlowExit(q) \/ SampledExit(q)
    BY <1>1, <2>2 DEF SlowExit, SampledExit, Close, Unresolved, exitVars, bookVars
  <2> QED BY <1>6, <2>1, <2>2, Zenon DEF StreamQuote
<1> QED BY <1>4, <1>5, <1>6, Zenon DEF OnQuote

LEMMA RemembersTheNewest ==
  ASSUME TypeOK, NewestQuote, NEW q, QuoteRecord(q), OnQuote(q)
  PROVE  NewestQuote'
<1>1. CASE UNCHANGED quoteVars
  BY <1>1 DEF NewestQuote, Observed, Known, quoteVars
<1>2. CASE /\ quoteIdentities' = [quoteIdentities EXCEPT ![q.at] = q.content]
           /\ lastQuoteT' = IF ~Known(q.at) /\ q.at >= lastQuoteT THEN q.at ELSE lastQuoteT
  <2>1. q.at \in Int /\ lastQuoteT \in Int
    BY DEF QuoteRecord, TypeOK, Times
  <2>2. (q.at >= lastQuoteT /\ lastQuoteT' = q.at) \/ lastQuoteT' = lastQuoteT
    BY <1>2, Zenon
  <2>4. lastQuoteT <= lastQuoteT' /\ lastQuoteT' \in Int
    BY <2>1, <2>2
  <2>3. ASSUME NEW t \in Observed' PROVE t <= lastQuoteT'
    <3>1. t \in Times /\ t \in Int /\ quoteIdentities'[t] # None
      BY <2>3 DEF Observed, Known, Times
    <3>2. CASE t = q.at
      <4>1. CASE Known(t)
        <5>1. t <= lastQuoteT
          BY <3>1, <4>1, Zenon DEF NewestQuote, Observed
        <5> QED BY <2>1, <2>4, <3>1, <5>1
      <4>2. CASE ~Known(t)
        <5>1. lastQuoteT' = t \/ (lastQuoteT' = lastQuoteT /\ ~(t >= lastQuoteT))
          BY <1>2, <3>2, <4>2, Zenon
        <5> QED BY <2>1, <3>1, <5>1
      <4> QED BY <4>1, <4>2
    <3>3. CASE t # q.at
      <4>1. t \in Observed
        BY <1>2, <3>1, <3>3 DEF TypeOK, Observed, Known
      <4> QED BY <2>1, <2>4, <3>1, <4>1 DEF NewestQuote
    <3> QED BY <3>2, <3>3
  <2> QED BY <2>3 DEF NewestQuote
<1> QED BY <1>1, <1>2, QuoteEffect

(* An interval is skipped only when it was declared shut, so what the      *)
(* decision waited through it could not have been executed.                *)
LEMMA SkipsWhatIsShut ==
  ASSUME TypeOK, BarClock, Waiting, request.dated, NEW c, ClosureRecord(c), OnClosure(c)
  PROVE  BarClock' /\ Waiting'
<1> USE PaperAssumption
<1>1. /\ c.from \in Int /\ c.through \in Int /\ c.from < c.through /\ Duration \in Int
      /\ lastBarOpen' = c.through - Duration /\ lastBarClose' = c.through
      /\ UNCHANGED << request, pending, position, barIndex >>
  BY DEF ClosureRecord, OnClosure, AdmissibleClosure, Times, bookVars
<1>2. c.through - Duration \in Nat
  BY ClosureTyped DEF Times
<1>3. BarClock'
  BY <1>1, <1>2 DEF BarClock
<1>4. Waiting'
  <2> SUFFICES ASSUME pending # None PROVE Waiting'
    BY <1>1 DEF Waiting
  <2>1. /\ pending.close \in Int /\ lastBarClose \in Int /\ request.activation \in Int
        /\ request.activation <= pending.close /\ pending.close <= lastBarClose
    BY DEF TypeOK, DecisionType, Waiting, RequestType, Times
  <2>2. lastBarClose = c.from
    BY <2>1 DEF OnClosure
  <2>3. ASSUME NEW u \in pending.close .. c.through - 1
        PROVE  Shut(u)
    <3>1. CASE u < c.from
      BY <1>1, <2>1, <2>2, <3>1 DEF Waiting
    <3>2. CASE u >= c.from
      <4>1. PICK w \in request.closures : w.from <= c.from /\ c.through <= w.through
        BY DEF OnClosure, AdmissibleClosure
      <4>2. w.from \in Int /\ w.through \in Int
        BY <4>1 DEF TypeOK, RequestType, Times
      <4>3. w.from <= u /\ u < w.through
        BY <1>1, <2>1, <3>2, <4>1, <4>2
      <4> QED BY <4>3 DEF Shut
    <3> QED BY <1>1, <2>1, <3>1, <3>2
  <2>4. \A u : Shut(u)' <=> Shut(u)
    BY <1>1 DEF Shut
  <2>5. pending.close <= c.through
    BY <1>1, <2>1, <2>2
  <2> QED BY <1>1, <2>1, <2>3, <2>4, <2>5 DEF Waiting
<1> QED BY <1>3, <1>4

LEMMA ClocksInit == Init => Clocks
<1> SUFFICES ASSUME Init PROVE Clocks
  OBVIOUS
<1>1. Observed = {}
  BY DEF Init, Observed, Known
<1> QED BY <1>1 DEF Init, Clocks, BarClock, Waiting, NewestQuote, SlowExitIsDual

LEMMA ClocksStep == TypeOK /\ Clocks /\ [Next]_vars => Clocks'
<1> SUFFICES ASSUME TypeOK, Clocks, [Next]_vars PROVE Clocks'
  OBVIOUS
<1> USE PaperAssumption
<1>1. BarClock /\ Waiting /\ NewestQuote /\ SlowExitIsDual
  BY DEF Clocks
<1>2. ASSUME UNCHANGED quoteVars PROVE NewestQuote'
  BY <1>1, <1>2 DEF NewestQuote, Observed, Known, quoteVars
<1>3. ASSUME request' = request, dualExitPending' => dualExitPending \/ Dual
      PROVE  SlowExitIsDual'
  BY <1>1, <1>3 DEF SlowExitIsDual, Dual
<1>5. ASSUME NEW b, BarRecord(b), OnBar(b) PROVE Clocks'
  <2>1. /\ BarSeen(b) /\ pending = None
        /\ position' # None => position # None
        /\ dualExitPending' => dualExitPending \/ Dual
        /\ pending' # None =>
             /\ position' = None /\ request.activation <= b.open
             /\ pending'.index = barIndex + 1 /\ pending'.close = b.open + Duration
             /\ pending'.admit = None
    BY <1>5, BarEffect
  <2>2. /\ lastBarOpen' = b.open /\ lastBarClose' = b.open + Duration
        /\ barIndex' = barIndex + 1 /\ request' = request /\ UNCHANGED quoteVars
    BY <2>1 DEF BarSeen
  <2>3. b.open \in Nat /\ request.activation \in Nat
    BY <1>5 DEF BarRecord, Times, TypeOK, RequestType
  <2>4. BarClock'
    BY <2>2, <2>3 DEF BarClock
  <2>5. Waiting'
    <3> SUFFICES ASSUME pending' # None PROVE Waiting'
      BY DEF Waiting
    <3>1. pending'.close = lastBarClose'
      BY <2>1, <2>2
    <3>2. \A u \in pending'.close .. lastBarClose' - 1 : FALSE
      BY <2>2, <2>3, <3>1
    <3> QED BY <2>1, <2>2, <2>3, <3>1, <3>2 DEF Waiting
  <2> QED BY <1>2, <1>3, <2>1, <2>2, <2>4, <2>5 DEF Clocks
<1>6. ASSUME NEW q, QuoteRecord(q), OnQuote(q) PROVE Clocks'
  <2>1. NewestQuote'
    BY <1>1, <1>6, RemembersTheNewest
  <2>2. /\ UNCHANGED clockVars
        /\ dualExitPending' = dualExitPending
        /\ pending' = pending \/ pending' = None
        /\ pending' # None /\ position' # None => position # None
        /\ position' # None => position # None \/ pending # None
    BY <1>6, QuoteEffect
  <2>3. SlowExitIsDual'
    BY <1>3, <2>2 DEF clockVars
  <2>4. BarClock' /\ Waiting'
    BY <1>1, <2>2 DEF clockVars, BarClock, Waiting, Shut
  <2> QED BY <2>1, <2>3, <2>4 DEF Clocks
<1>7. ASSUME NEW e, EpisodeRecord(e), OnEpisode(e) PROVE Clocks'
  <2>1. /\ UNCHANGED << clockVars, quoteVars, exitVars, position >> /\ pending # None
        /\ pending' = [pending EXCEPT !.admit = e.admit, !.deadline = e.deadline,
                                      !.episodeCommit = e.commit]
    BY <1>7 DEF OnEpisode, bookVars
  <2>2. /\ pending'.index = pending.index /\ pending'.close = pending.close
        /\ pending'.deadline # None
    BY <1>7, <2>1, NoneAssumption DEF TypeOK, DecisionType, EpisodeRecord
  <2>3. BarClock' /\ Waiting'
    BY <1>1, <2>1, <2>2 DEF clockVars, BarClock, Waiting, Shut
  <2> QED BY <1>2, <1>3, <2>1, <2>3 DEF Clocks, clockVars, exitVars
<1>8. ASSUME UNCHANGED << clockVars, quoteVars, exitVars, position >>, pending' \in {pending, None}
      PROVE  Clocks'
  <2>1. BarClock' /\ Waiting'
    BY <1>1, <1>8 DEF clockVars, BarClock, Waiting, Shut
  <2> QED BY <1>2, <1>3, <1>8, <2>1 DEF Clocks, clockVars, exitVars
<1>9. ASSUME NEW s, OnSeal(s) PROVE Clocks'
  BY <1>8, <1>9 DEF OnSeal, NoFill
<1>10. ASSUME NEW t, OnCoverageGap(t) PROVE Clocks'
  BY <1>8, <1>10 DEF OnCoverageGap, bookVars
<1>11. ASSUME NEW t, OnExperimentClock(t) PROVE Clocks'
  BY <1>8, <1>11 DEF OnExperimentClock, bookVars, NoFill
<1>12. ASSUME NEW c, ClosureRecord(c), request.dated, OnClosure(c) PROVE Clocks'
  <2>1. BarClock' /\ Waiting'
    BY <1>1, <1>12, SkipsWhatIsShut
  <2>2. UNCHANGED << request, quoteVars, dualExitPending >>
    BY <1>12 DEF OnClosure, exitVars
  <2> QED BY <1>2, <1>3, <2>1, <2>2 DEF Clocks
<1>13. CASE Next
  BY <1>5, <1>6, <1>7, <1>9, <1>10, <1>11, <1>12, <1>13, Records, Zenon
<1>14. CASE UNCHANGED vars
  BY <1>8, <1>14 DEF vars, bookVars
<1> QED BY <1>13, <1>14
-------------------------------------------------------------------------------
PaperInv == TypeOK /\ Clocks

LEMMA PaperInvariant == Spec => []PaperInv
<1>1. Init => PaperInv
  BY InitTyped, ClocksInit DEF PaperInv
<1>2. PaperInv /\ [Next]_vars => PaperInv'
  BY StepTyped, ClocksStep DEF PaperInv
<1> QED BY <1>1, <1>2, PTL DEF Spec

(* A closed market reopens: the first executable time exists, and is open. *)
LEMMA Reopens ==
  ASSUME TypeOK, NEW close \in Times
  PROVE  /\ ExecutableFrom(close) \in close .. Horizon
         /\ ~Shut(ExecutableFrom(close))
<1> USE PaperAssumption
<1> DEFINE open == {t \in Nat : t \in close .. Horizon /\ ~Shut(t)}
<1>1. Horizon \in open
  <2>1. ~Shut(Horizon)
    <3> SUFFICES ASSUME Shut(Horizon) PROVE FALSE
      OBVIOUS
    <3>1. PICK w \in request.closures : w.from <= Horizon /\ Horizon < w.through
      BY DEF Shut
    <3>2. /\ w.through \in Int /\ w.through <= request.until /\ request.until <= Horizon
          /\ request.until \in Int
      BY <3>1 DEF TypeOK, RequestType, Times
    <3> QED BY <3>1, <3>2
  <2> QED BY <2>1 DEF Times
<1>2. PICK t \in open : \A u \in open : ~(<<u, t>> \in OpToRel(<, Nat))
  <2> HIDE DEF open
  <2>1. open \subseteq Nat /\ open # {}
    BY <1>1 DEF open
  <2> QED BY <2>1, NatLessThanWellFounded, WFMin, Zenon
<1>3. ASSUME NEW u \in close .. t - 1 PROVE Shut(u)
  <2>3. t \in Nat /\ t \in close .. Horizon
    BY <1>2, Zenon
  <2>4. close \in Nat /\ Horizon \in Nat
    BY DEF Times
  <2> HIDE DEF open
  <2>1. u \in Nat /\ t \in Nat /\ u \in close .. Horizon /\ u < t
    BY <2>3, <2>4
  <2>2. <<u, t>> \in OpToRel(<, Nat)
    BY <2>1 DEF OpToRel
  <2> QED BY <1>2, <2>1, <2>2 DEF open
<1>4. t \in close .. Horizon /\ ~Shut(t) /\ \A u \in close .. t-1 : Shut(u)
  BY <1>2, <1>3
<1> HIDE DEF open
<1> QED BY <1>4 DEF ExecutableFrom

(* What was skipped was shut, so nothing was executable before it ended.   *)
LEMMA NotBeforeTheLastBar ==
  ASSUME TypeOK, Waiting, pending # None
  PROVE  ExecutableFrom(pending.close) >= lastBarClose
<1>1. pending.close \in Times /\ pending.close \in Int /\ lastBarClose \in Int
  BY DEF TypeOK, DecisionType, Times
<1>2. /\ ExecutableFrom(pending.close) \in pending.close .. Horizon
      /\ ~Shut(ExecutableFrom(pending.close))
  BY <1>1, Reopens
<1>3. \A u \in pending.close .. lastBarClose - 1 : Shut(u)
  BY DEF Waiting
<1> DEFINE from == ExecutableFrom(pending.close)
<1>4. from \in Int /\ from >= pending.close
  BY <1>1, <1>2, PaperAssumption
<1>5. ~(from \in pending.close .. lastBarClose - 1)
  BY <1>2, <1>3
<1> HIDE DEF from
<1>6. from >= lastBarClose
  BY <1>1, <1>4, <1>5
<1> QED BY <1>6 DEF from

(* A position is opened only by an answer that nothing refuses.            *)
LEMMA OpensByAnswer ==
  ASSUME TypeOK, Next, position = None, position' # None
  PROVE  \E q : /\ QuoteRecord(q) /\ OnQuote(q) /\ Original(q) /\ OriginalQuote(q)
               /\ ~OutsideEntries(q) /\ ~Known(q.at) /\ q.at >= lastQuoteT
               /\ Refusal(q) = "none" /\ Fill(q)
<1>1. ASSUME NEW why PROVE ~NoFill(why)
  BY <1>1 DEF NoFill
<1>2. ~\E b : BarRecord(b) /\ OnBar(b)
  BY BarEffect
<1>3. ~\E e : OnEpisode(e)
  BY DEF OnEpisode, bookVars
<1>4. ~\E s : OnSeal(s)
  BY <1>1 DEF OnSeal
<1>5. ~\E t : OnCoverageGap(t)
  BY DEF OnCoverageGap, bookVars
<1>6. ~\E c : OnClosure(c)
  BY DEF OnClosure, bookVars
<1>7. ~\E t : OnExperimentClock(t)
  BY <1>1 DEF OnExperimentClock, bookVars
<1>8. PICK q : QuoteRecord(q) /\ OnQuote(q)
  BY <1>2, <1>3, <1>4, <1>5, <1>6, <1>7, Records, Zenon
<1>9. ~StreamQuote(q)
  BY DEF StreamQuote, LateInStraddle, Unresolved, bookVars
<1>10. OriginalQuote(q) /\ ~OutsideEntries(q)
  BY <1>1, <1>8, <1>9, Zenon DEF OnQuote
<1>11. ~Known(q.at) /\ q.at >= lastQuoteT /\ Refusal(q) = "none" /\ Fill(q)
  BY <1>1, <1>10, Zenon DEF OriginalQuote
<1> QED BY <1>8, <1>10, <1>11 DEF OriginalQuote

(* validateBidAskRecords, selectBidAskFill: an entry is never made from an *)
(* observation that a processed bar or an earlier observation lies beyond, *)
(* and only while its decision is the last bar's and in time, however the  *)
(* records were delayed and whatever closures were skipped.                *)
THEOREM EntersFromNow == Spec => NoLookAhead
<1>1. PaperInv /\ [Next]_vars =>
        [position = None /\ position' # None =>
           /\ position'.entryT >= lastBarClose
           /\ \A t \in Observed : t < position'.entryT
           /\ position'.index = barIndex /\ now' <= pending.deadline]_vars
  <2> SUFFICES ASSUME TypeOK, Clocks, Next, position = None, position' # None
               PROVE  /\ position'.entryT >= lastBarClose
                      /\ \A t \in Observed : t < position'.entryT
                      /\ position'.index = barIndex /\ now' <= pending.deadline
    BY DEF PaperInv
  <2>1. PICK q : /\ QuoteRecord(q) /\ OnQuote(q) /\ Original(q) /\ OriginalQuote(q)
                 /\ ~OutsideEntries(q) /\ ~Known(q.at) /\ q.at >= lastQuoteT
                 /\ Refusal(q) = "none" /\ Fill(q)
    BY OpensByAnswer
  <2>2. /\ pending # None /\ pending.admit # None
        /\ now' = q.commit
    BY <2>1 DEF OnQuote, Misdirected, Commit
  <2>3. position'.entryT = q.at /\ position'.index = pending.index
    <3>1. ~\E why : NoFill(why)
      BY DEF NoFill
    <3>2. \E entry, stop :
            position' =
              [ index |-> pending.index, side |-> pending.side, entry |-> entry, sl |-> stop,
                tp |-> pending.tp, noTarget |-> pending.noTarget, entryT |-> q.at,
                fullFrom |-> GridCeiling(q.at), slotEnd |-> pending.slotEnd, version |-> 1 ]
      BY <2>1, <3>1, Zenon DEF Fill
    <3> QED BY <3>2
  <2>4. ~Expired(q)
    BY <2>1 DEF Refusal
  <2>5. /\ q.at \in Int /\ q.commit \in Int /\ lastBarClose \in Int /\ lastQuoteT \in Int
        /\ pending.deadline \in Int /\ pending.close \in Times
    <3>1. q.at \in Int /\ q.commit \in Int
      BY <2>1 DEF QuoteRecord, Times
    <3>2. lastBarClose \in Int /\ lastQuoteT \in Int
      BY DEF TypeOK, Times
    <3>3. pending \in DecisionType /\ pending.deadline # None
      BY <2>2 DEF TypeOK, Clocks, Waiting
    <3>4. pending.deadline \in Times /\ pending.close \in Times
      BY <3>3 DEF DecisionType
    <3>5. Times \subseteq Int
      BY DEF Times
    <3> QED BY <3>1, <3>2, <3>4, <3>5
  <2>6. ExecutableFrom(pending.close) \in Int /\ ExecutableFrom(pending.close) >= lastBarClose
    <3>1. ExecutableFrom(pending.close) \in pending.close .. Horizon
      BY <2>5, Reopens
    <3>2. ExecutableFrom(pending.close) >= lastBarClose
      BY <2>2, NotBeforeTheLastBar DEF Clocks
    <3> QED BY <2>5, <3>1, <3>2, PaperAssumption DEF Times
  <2>7. q.at >= ExecutableFrom(pending.close)
    BY <2>4, <2>5, <2>6 DEF Expired
  <2>8. now' <= pending.deadline
    BY <2>2, <2>4, <2>5 DEF Expired
  <2>9. q.at >= lastBarClose
    BY <2>5, <2>6, <2>7
  <2>10. ASSUME NEW t \in Observed PROVE t < q.at
    <3>1. t \in Int /\ Known(t)
      BY DEF Observed, Times
    <3>2. t <= lastQuoteT
      BY DEF Clocks, NewestQuote
    <3>3. t # q.at
      BY <2>1, <3>1
    <3> QED BY <2>1, <2>5, <3>1, <3>2, <3>3
  <2> QED BY <2>2, <2>3, <2>8, <2>9, <2>10 DEF Clocks, Waiting
<1> QED BY <1>1, PaperInvariant, PTL DEF Spec, NoLookAhead

(* What a step does after coverage was lost: at most it ends a decision.   *)
Uncovered ==
  /\ coverage' # "sampled" /\ UNCHANGED << position, balance >>
  /\ events' = events \/ \E e \in EventType : e.kind = "noFill" /\ events' = Append(events, e)

LEMMA NoFillUncovered ==
  ASSUME TypeOK, coverage' # "sampled", pending # None, NEW why, NoFill(why)
  PROVE  Uncovered
<1>1. pending.index \in Nat
  BY DEF TypeOK, DecisionType
<1>2. /\ Event("noFill", pending.index, "", 0, 0) \in EventType
      /\ Event("noFill", pending.index, "", 0, 0).kind = "noFill"
  BY <1>1 DEF Event, EventType, Reasons
<1>3. \E e \in EventType : e.kind = "noFill" /\ events' = Append(events, e)
  BY <1>2, Zenon DEF NoFill
<1> QED BY <1>3 DEF Uncovered, NoFill

LEMMA StaysUncovered ==
  ASSUME TypeOK, Next, coverage # "sampled"
  PROVE  Uncovered
<1>1. ASSUME coverage' # "sampled", UNCHANGED bookVars PROVE Uncovered
  BY <1>1 DEF Uncovered, bookVars
<1>2. ASSUME NEW b, OnBar(b) PROVE Uncovered
  <2>1. BarWarmup(b) \/ BarAfterGap(b) \/ BarUncovered(b)
    BY <1>2, Zenon DEF OnBar, BarFlat, BarMissedSlowExit, BarExit, BarHeld, Covered
  <2> QED BY <1>1, <2>1 DEF BarWarmup, BarAfterGap, BarUncovered
<1>3. ASSUME NEW q, QuoteRecord(q), OnQuote(q) PROVE Uncovered
  <2>1. CASE OutsideEntries(q)
    BY <1>3, <2>1, NoFillUncovered DEF OnQuote, OutsideEntries, Misdirected
  <2>2. CASE OriginalQuote(q)
    <3>1. Refusal(q) # "none"
      BY DEF Refusal
    <3>2. \E why : NoFill(why)
      BY <2>2, <3>1, Zenon DEF OriginalQuote
    <3> QED BY <1>3, <2>2, <3>2, NoFillUncovered DEF OriginalQuote, OnQuote, Misdirected
  <2>3. CASE StreamQuote(q)
    <3>1. Unresolved \/ UNCHANGED << coverage, pending, exitVars, bookVars >>
      BY <2>3, Zenon DEF StreamQuote
    <3> QED BY <1>1, <3>1 DEF Unresolved
  <2> QED BY <1>3, <2>1, <2>2, <2>3, Zenon DEF OnQuote
<1>4. ASSUME NEW e, OnEpisode(e) PROVE Uncovered
  BY <1>1, <1>4 DEF OnEpisode
<1>5. ASSUME NEW s, OnSeal(s) PROVE Uncovered
  BY <1>5, NoFillUncovered DEF OnSeal, SealHolds
<1>6. ASSUME NEW t, OnCoverageGap(t) PROVE Uncovered
  BY <1>1, <1>6 DEF OnCoverageGap
<1>7. ASSUME NEW c, OnClosure(c) PROVE Uncovered
  BY <1>7 DEF OnClosure
<1>8. ASSUME NEW t, OnExperimentClock(t) PROVE Uncovered
  <2>1. coverage' # "sampled"
    BY <1>8 DEF OnExperimentClock
  <2> QED BY <1>1, <1>8, <2>1, NoFillUncovered DEF OnExperimentClock
<1> QED BY <1>2, <1>3, <1>4, <1>5, <1>6, <1>7, <1>8, Records, Zenon

(* bidAskSampled, unresolvedBidAsk: coverage once lost is never regained,  *)
(* and from then on no record of any kind enters, exits, re-protects or    *)
(* books anything; a waiting decision can only end without a fill.         *)
THEOREM CoverageLostForGood == Spec => CoverageIsFinal
<1>1. PaperInv /\ [Next]_vars =>
        [coverage # "sampled" =>
           /\ coverage' # "sampled"
           /\ UNCHANGED << position, balance >>
           /\ Len(events') > Len(events) => events'[Len(events')].kind = "noFill"]_vars
  <2> SUFFICES ASSUME TypeOK, Next, coverage # "sampled"
               PROVE  /\ coverage' # "sampled"
                      /\ UNCHANGED << position, balance >>
                      /\ Len(events') > Len(events) => events'[Len(events')].kind = "noFill"
    BY DEF PaperInv
  <2>1. Uncovered
    BY StaysUncovered
  <2>2. events \in Seq(EventType)
    BY DEF TypeOK
  <2>3. CASE events' = events
    BY <2>1, <2>2, <2>3 DEF Uncovered
  <2>4. ASSUME NEW e \in EventType, e.kind = "noFill", events' = Append(events, e)
        PROVE  events'[Len(events')].kind = "noFill"
    BY <2>2, <2>4
  <2> QED BY <2>1, <2>3, <2>4 DEF Uncovered
<1> QED BY <1>1, PaperInvariant, PTL DEF Spec, CoverageIsFinal
-------------------------------------------------------------------------------
(* The exit a step appends is the one the property speaks of.              *)
LEMMA TheNewExit ==
  ASSUME NEW s \in Seq(EventType), NEW t, NEW e \in EventType, e.kind = "exit",
         \/ t = Append(s, e)
         \/ \E d \in EventType : d.kind = "decision" /\ t = Append(Append(s, e), d)
  PROVE  t[CHOOSE n \in DOMAIN t : n > Len(s) /\ t[n].kind = "exit"] = e
<1> DEFINE k == Len(s) + 1
<1>1. Len(s) \in Nat /\ Append(s, e) \in Seq(EventType)
  OBVIOUS
<1>2. k \in DOMAIN t /\ t[k] = e
  <2>1. CASE t = Append(s, e)
    BY <1>1, <2>1
  <2>2. ASSUME NEW d \in EventType, t = Append(Append(s, e), d) PROVE k \in DOMAIN t /\ t[k] = e
    BY <1>1, <2>2
  <2> QED BY <2>1, <2>2
<1>3. ASSUME NEW n \in DOMAIN t, n > Len(s), t[n].kind = "exit" PROVE n = k
  <2>1. CASE t = Append(s, e)
    BY <1>1, <1>3, <2>1
  <2>2. ASSUME NEW d \in EventType, d.kind = "decision", t = Append(Append(s, e), d) PROVE n = k
    <3>1. n \in 1 .. Len(s) + 2 /\ t[Len(s) + 2] = d
      BY <1>1, <1>3, <2>2
    <3>2. n # Len(s) + 2
      BY <1>3, <2>2, <3>1
    <3> QED BY <1>1, <1>3, <3>1, <3>2
  <2> QED BY <2>1, <2>2
<1>4. k > Len(s) /\ t[k].kind = "exit"
  BY <1>1, <1>2
<1> HIDE DEF k
<1>5. (CHOOSE n \in DOMAIN t : n > Len(s) /\ t[n].kind = "exit") = k
  BY <1>2, <1>3, <1>4
<1> QED BY <1>2, <1>5

Authorised(exit) ==
  /\ dualExitPending <=> exit.reason = "slow-ema"
  /\ ~ByBar /\ exit.reason # "slow-ema" =>
       /\ lastQuoteT' > position.entryT /\ lastQuoteT' < position.fullFrom
       /\ lastQuoteT' >= lastBarClose
  /\ ByBar /\ exit.reason # "time" =>
       /\ lastBarOpen' >= position.fullFrom
       /\ lastBarOpen' = lastBarClose
       /\ exit.version = position.version
Recorded(exit) ==
  /\ exit \in EventType /\ exit.kind = "exit"
  /\ \/ events' = Append(events, exit)
     \/ \E d \in EventType : d.kind = "decision" /\ events' = Append(Append(events, exit), d)

LEMMA ExitFields ==
  ASSUME NEW p, NEW price, NEW why
  PROVE  /\ ExitEvent(p, price, why).kind = "exit" /\ ExitEvent(p, price, why).reason = why
         /\ ExitEvent(p, price, why).version = p.version
BY DEF ExitEvent, Event

LEMMA BarAuthority ==
  ASSUME TypeOK, Clocks, Closes, NEW b, BarRecord(b), OnBar(b)
  PROVE  \E exit : Recorded(exit) /\ Authorised(exit)
<1> USE PaperAssumption
<1>1. BookTypes /\ position # None /\ position' = None /\ events \in Seq(EventType)
  BY TypeGroups DEF Closes, BookTypes
<1>2. /\ barIndex' = barIndex + 1 /\ lastBarOpen' = b.open /\ ByBar
  <2>1. barIndex' = barIndex + 1 /\ lastBarOpen' = b.open
    BY BarEffect DEF BarSeen
  <2>2. barIndex \in Int
    BY DEF TypeOK
  <2> QED BY <2>1, <2>2 DEF ByBar
<1>3. BarExit(b) \/ BarHeld(b)
  BY <1>1 DEF OnBar, BarWarmup, BarAfterGap, BarUncovered, BarFlat, BarMissedSlowExit,
              Unresolved, bookVars
<1>4. CASE BarExit(b)
  <2> DEFINE out == BarOutcome(position, b)
             exit == ExitEvent(position, out.price, out.why)
  <2>1. out # None /\ ~dualExitPending /\ FullPhase(b) /\ ~GapMatters(b)
    BY <1>4 DEF BarExit, Covered
  <2>2. out.price \in Int /\ out.why \in Reasons \ {"time", "slow-ema"}
    BY <1>1, <2>1, BarOutcomeTyped
  <2>3. Close(position, out.price) /\ Decide(b, Append(events, exit))
    BY <1>1, <1>4, Zenon DEF BarExit, Unresolved, bookVars
  <2>4. exit \in EventType
    BY <1>1, <2>2, <2>3, CloseTyped
  <2>5. exit.kind = "exit" /\ exit.reason = out.why /\ exit.version = position.version
    BY ExitFields
  <2>6. Recorded(exit)
    <3> HIDE DEF exit
    <3>1. \A k \in Nat : /\ Event("decision", k, "", 0, 0) \in EventType
                         /\ Event("decision", k, "", 0, 0).kind = "decision"
      BY DEF Event, EventType, Reasons
    <3>2. barIndex + 1 \in Nat
      BY DEF TypeOK
    <3>3. \/ events' = Append(events, exit)
          \/ events' = Append(Append(events, exit), Event("decision", barIndex + 1, "", 0, 0))
      BY <2>3, Zenon DEF Decide
    <3>4. \/ events' = Append(events, exit)
          \/ \E d \in EventType : d.kind = "decision" /\ events' = Append(Append(events, exit), d)
      BY <3>1, <3>2, <3>3, Zenon
    <3> QED BY <2>4, <2>5, <3>4 DEF Recorded
  <2>7. b.open >= position.fullFrom
    BY <2>1 DEF FullPhase
  <2>8. b.open = lastBarClose
    <3>1. lastBarOpen >= 0 /\ lastBarClose = lastBarOpen + Duration
      BY <1>1 DEF Clocks, BarClock
    <3>2. b.open = lastBarOpen + Duration
      BY <1>1, <2>1, <3>1 DEF GapMatters, Gap
    <3> QED BY <3>1, <3>2
  <2> HIDE DEF exit, out
  <2>9. Authorised(exit)
    BY <1>2, <2>1, <2>2, <2>5, <2>7, <2>8 DEF Authorised, Reasons
  <2> QED BY <2>6, <2>9
<1>5. CASE BarHeld(b)
  <2>1. PICK p \in {position} \cup {Tightened(position, level) : level \in Levels},
             slow \in {FALSE, Dual} :
          LET price == LiquidPrice(p.side, b.mid.C)
              exits == dualExitPending \/ slow
          IN /\ dualExitPending' = exits
             /\ pending' = pending
             /\ IF HoldDue(p) /\ ClosesAt(p, price)
                THEN /\ Close(p, price)
                     /\ events' = Append(events, ExitEvent(p, price, "time"))
                     /\ UNCHANGED coverage
                ELSE /\ position' = p
                     /\ coverage' = IF HoldDue(p) THEN "unresolved" ELSE coverage
                     /\ slowExitCommitT' = IF exits /\ slowExitCommitT = None
                                           THEN b.commit ELSE slowExitCommitT
                     /\ UNCHANGED << balance, events >>
    BY <1>5, Zenon DEF BarHeld
  <2> DEFINE price == LiquidPrice(p.side, b.mid.C)
             exit == ExitEvent(p, price, "time")
  <2>2. p \in PositionType /\ p # None
    BY <1>1, TightenedTyped, NoneAssumption DEF BookTypes, HeldTypes
  <2>3. HoldDue(p) /\ Close(p, price) /\ events' = Append(events, exit)
    BY <1>1, <2>1, <2>2, Zenon
  <2>4. ~dualExitPending
    <3>1. request.maxHold # 0 /\ request \in Requests
      BY <2>3 DEF HoldDue, TypeOK
    <3> QED BY <3>1 DEF Clocks, SlowExitIsDual, Dual
  <2>5. exit \in EventType
    <3>1. b.mid.C \in Nat /\ p.side \in Sides
      BY <2>2 DEF BarRecord, PositionType
    <3>2. price \in Int
      BY <3>1, PriceTyped
    <3> QED BY <1>1, <2>2, <2>3, <3>2, CloseTypedOf DEF Reasons, BookTypes
  <2>6. exit.kind = "exit" /\ exit.reason = "time"
    BY ExitFields
  <2> HIDE DEF exit
  <2> QED BY <1>2, <2>3, <2>4, <2>5, <2>6 DEF Recorded, Authorised
<1> QED BY <1>3, <1>4, <1>5

LEMMA QuoteAuthority ==
  ASSUME TypeOK, Clocks, Closes, NEW q, QuoteRecord(q), OnQuote(q)
  PROVE  \E exit : Recorded(exit) /\ Authorised(exit)
<1> USE PaperAssumption
<1> DEFINE price == LiquidPrice(position.side, q.content.mid)
<1>1. BookTypes /\ position # None /\ position' = None /\ events \in Seq(EventType)
  BY TypeGroups DEF Closes, BookTypes
<1>2. ~ByBar
  BY DEF OnQuote, clockVars, ByBar
<1>3. ~Original(q)
  BY <1>1 DEF OnQuote, Misdirected, Clocks, Waiting
<1>4. StreamQuote(q)
  BY <1>3, Zenon DEF OnQuote, OutsideEntries, OriginalQuote
<1>5. position' # position
  BY <1>1
<1>6. /\ ~Known(q.at) /\ ~(q.at < lastQuoteT)
      /\ \/ SlowExitDue(q) /\ SlowExit(q)
         \/ ~SlowExitDue(q) /\ InStraddle(q) /\ SampledExit(q)
  BY <1>4, <1>5, Zenon DEF StreamQuote, Unresolved, bookVars
<1>7. price \in Int
  <2>1. position.side \in Sides /\ q.content.mid \in Nat
    BY <1>1 DEF BookTypes, HeldTypes, PositionType, QuoteRecord
  <2> QED BY <2>1, PriceTyped
<1>8. ASSUME NEW why \in Reasons, Close(position, price),
             events' = Append(events, ExitEvent(position, price, why))
      PROVE  /\ Recorded(ExitEvent(position, price, why))
             /\ ExitEvent(position, price, why).reason = why
  <2> HIDE DEF price
  <2>1. ExitEvent(position, price, why) \in EventType
    BY <1>1, <1>7, <1>8, CloseTyped
  <2> QED BY <1>8, <2>1, ExitFields DEF Recorded
<1>9. CASE SlowExitDue(q) /\ SlowExit(q)
  <2>1. Close(position, price) /\ events' = Append(events, ExitEvent(position, price, "slow-ema"))
    BY <1>5, <1>9, Zenon DEF SlowExit, Unresolved, bookVars
  <2>2. dualExitPending
    BY <1>9 DEF SlowExitDue
  <2>3. "slow-ema" \in Reasons
    BY DEF Reasons
  <2> HIDE DEF price
  <2> QED BY <1>2, <1>8, <2>1, <2>2, <2>3 DEF Authorised
<1>10. CASE ~SlowExitDue(q) /\ InStraddle(q) /\ SampledExit(q)
  <2>1. ~(q.at < lastBarClose)
    BY <1>5, <1>10, Zenon DEF SampledExit, Unresolved, bookVars
  <2>2. \E why \in {"stop", "target"} :
          Close(position, price) /\ events' = Append(events, ExitEvent(position, price, why))
    BY <1>5, <1>10, Zenon DEF SampledExit, Unresolved, bookVars
  <2>3. q.at \in Int /\ lastBarClose \in Int /\ lastQuoteT \in Int
    BY DEF QuoteRecord, TypeOK, Times
  <2>4. q.at >= lastBarClose /\ q.at >= lastQuoteT
    BY <1>6, <2>1, <2>3
  <2>5. ~dualExitPending
    BY <1>10, <2>4 DEF SlowExitDue
  <2>6. lastQuoteT' = q.at
    BY <1>3, <1>6, <2>4, Zenon DEF OnQuote, OutsideEntries
  <2>7. position.entryT < q.at /\ q.at < position.fullFrom /\ position.entryT \in Int
    BY <1>1, <1>10 DEF InStraddle, BookTypes, HeldTypes, PositionType, Times
  <2>8. q.at > position.entryT
    BY <2>3, <2>7
  <2>9. {"stop", "target"} \subseteq Reasons \ {"slow-ema"}
    BY DEF Reasons
  <2> HIDE DEF price
  <2>10. PICK why \in Reasons \ {"slow-ema"} :
           /\ Recorded(ExitEvent(position, price, why))
           /\ ExitEvent(position, price, why).reason = why
    BY <1>8, <2>2, <2>9
  <2> QED BY <1>2, <2>4, <2>5, <2>6, <2>7, <2>8, <2>10 DEF Authorised
<1> QED BY <1>6, <1>9, <1>10

(* runPaperBidAsk: every exit has one authority, whatever the order of the *)
(* records.  A decided slow-EMA exit is the only way out; otherwise a quote *)
(* closes only inside the straddle of the entry, and a bar's protection    *)
(* only over full intervals that follow on one another, at the stop and    *)
(* target in force before that bar.                                        *)
THEOREM ExitsHaveOneAuthority == Spec => OneAuthority
<1>1. PaperInv /\ [Next]_vars =>
        [Closes =>
           LET n == CHOOSE n \in DOMAIN events' : n > Len(events) /\ events'[n].kind = "exit"
               exit == events'[n]
           IN /\ dualExitPending <=> exit.reason = "slow-ema"
              /\ ~ByBar /\ exit.reason # "slow-ema" =>
                   /\ lastQuoteT' > position.entryT /\ lastQuoteT' < position.fullFrom
                   /\ lastQuoteT' >= lastBarClose
              /\ ByBar /\ exit.reason # "time" =>
                   /\ lastBarOpen' >= position.fullFrom
                   /\ lastBarOpen' = lastBarClose
                   /\ exit.version = position.version]_vars
  <2> DEFINE n == CHOOSE n \in DOMAIN events' : n > Len(events) /\ events'[n].kind = "exit"
  <2> SUFFICES ASSUME TypeOK, Clocks, Next, Closes PROVE Authorised(events'[n])
    BY Zenon DEF PaperInv, Authorised
  <2>1. position # None /\ position' = None
    BY DEF Closes
  <2>2. ASSUME NEW why PROVE ~NoFill(why)
    BY <2>1, <2>2 DEF NoFill
  <2>3. \/ \E b : BarRecord(b) /\ OnBar(b)
        \/ \E q : QuoteRecord(q) /\ OnQuote(q)
    <3>1. ~\E e : OnEpisode(e)
      BY <2>1 DEF OnEpisode, bookVars
    <3>2. ~\E s : OnSeal(s)
      BY <2>2 DEF OnSeal
    <3>3. ~\E t : OnCoverageGap(t)
      BY <2>1 DEF OnCoverageGap, bookVars
    <3>4. ~\E c : OnClosure(c)
      BY <2>1 DEF OnClosure, bookVars
    <3>5. ~\E t : OnExperimentClock(t)
      BY <2>1, <2>2 DEF OnExperimentClock, bookVars
    <3> QED BY <3>1, <3>2, <3>3, <3>4, <3>5, Records, Zenon
  <2>4. PICK exit : Recorded(exit) /\ Authorised(exit)
    BY <2>3, BarAuthority, QuoteAuthority
  <2>5. events \in Seq(EventType)
    BY DEF TypeOK
  <2>6. events'[n] = exit
    BY <2>4, <2>5, TheNewExit DEF Recorded
  <2> QED BY <2>4, <2>6
<1> QED BY <1>1, PaperInvariant, PTL DEF Spec, OneAuthority
-------------------------------------------------------------------------------
(* The book, as a list of events s and the indices of what is held and of  *)
(* what is waiting: each decision up to the last bar is made at most once, *)
(* and settled, waiting, or never made.                                    *)
OfIn(s, kind, k) == {n \in DOMAIN s : s[n].kind = kind /\ s[n].index = k}
Count(s, kind, k) == Cardinality(OfIn(s, kind, k))
One(b) == IF b THEN 1 ELSE 0
Accounted(s, held, waiting, k) ==
  /\ Count(s, "decision", k) <= 1
  /\ Count(s, "decision", k) = Count(s, "entry", k) + Count(s, "noFill", k) + One(k \in waiting)
  /\ Count(s, "entry", k) + Count(s, "noFill", k) <= 1
  /\ Count(s, "entry", k) = Count(s, "exit", k) + One(k \in held)
Upto(s, top) == \A n \in DOMAIN s : s[n].index <= top
Booked(s, held, waiting, top) ==
  Upto(s, top) /\ \A k \in 0 .. top : Accounted(s, held, waiting, k)

Held == IF position = None THEN {} ELSE {position.index}
Pending == IF pending = None THEN {} ELSE {pending.index}

LEMMA CountNat ==
  ASSUME NEW s \in Seq(EventType), NEW kind, NEW k
  PROVE  IsFiniteSet(OfIn(s, kind, k)) /\ Count(s, kind, k) \in Nat
<1>1. DOMAIN s = 1 .. Len(s) /\ Len(s) \in Nat
  OBVIOUS
<1>2. IsFiniteSet(1 .. Len(s))
  BY <1>1, FS_Interval
<1>3. OfIn(s, kind, k) \subseteq 1 .. Len(s)
  BY <1>1 DEF OfIn
<1>4. IsFiniteSet(OfIn(s, kind, k))
  BY <1>2, <1>3, FS_Subset
<1> QED BY <1>4, FS_CardinalityType DEF Count

LEMMA CountAppend ==
  ASSUME NEW s \in Seq(EventType), NEW e \in EventType, NEW kind, NEW k
  PROVE  Count(Append(s, e), kind, k) = Count(s, kind, k) + One(e.kind = kind /\ e.index = k)
<1> DEFINE t == Append(s, e)
           m == Len(s) + 1
<1>1. /\ Len(s) \in Nat /\ DOMAIN s = 1 .. Len(s) /\ DOMAIN t = 1 .. m
      /\ t[m] = e /\ \A n \in 1 .. Len(s) : t[n] = s[n]
  OBVIOUS
<1>2. IsFiniteSet(OfIn(s, kind, k)) /\ Count(s, kind, k) \in Nat
  BY CountNat
<1>3. m \notin OfIn(s, kind, k)
  BY <1>1 DEF OfIn
<1>4. CASE e.kind = kind /\ e.index = k
  <2>1. OfIn(t, kind, k) = OfIn(s, kind, k) \cup {m}
    BY <1>1, <1>4 DEF OfIn
  <2> HIDE DEF t, m
  <2>2. Cardinality(OfIn(s, kind, k) \cup {m}) = Cardinality(OfIn(s, kind, k)) + 1
    BY <1>2, <1>3, FS_AddElement
  <2> QED BY <1>4, <2>1, <2>2 DEF Count, One, t
<1>5. CASE ~(e.kind = kind /\ e.index = k)
  <2>1. OfIn(t, kind, k) = OfIn(s, kind, k)
    BY <1>1, <1>5 DEF OfIn
  <2> QED BY <1>2, <1>5, <2>1 DEF Count, One
<1> QED BY <1>4, <1>5

(* Nothing is counted for a bar that is still to come.                     *)
LEMMA CountNone ==
  ASSUME NEW s, NEW top \in Int, NEW k \in Int, Upto(s, top), k > top, NEW kind,
         s \in Seq(EventType)
  PROVE  Count(s, kind, k) = 0
<1>1. OfIn(s, kind, k) = {}
  <2> SUFFICES ASSUME NEW n \in OfIn(s, kind, k) PROVE FALSE
    OBVIOUS
  <2>1. n \in DOMAIN s /\ s[n].index = k /\ s[n].index <= top
    BY DEF OfIn, Upto
  <2> QED BY <2>1
<1> QED BY <1>1, FS_EmptySet DEF Count

LEMMA UptoAppend ==
  ASSUME NEW s \in Seq(EventType), NEW e \in EventType, NEW top \in Int,
         Upto(s, top), e.index <= top
  PROVE  Upto(Append(s, e), top)
<1>1. ASSUME NEW n \in DOMAIN Append(s, e) PROVE Append(s, e)[n].index <= top
  <2>1. CASE n = Len(s) + 1
    BY <2>1
  <2>2. CASE n # Len(s) + 1
    <3>1. n \in DOMAIN s /\ Append(s, e)[n] = s[n]
      BY <2>2
    <3> QED BY <3>1 DEF Upto
  <2> QED BY <2>1, <2>2
<1> QED BY <1>1 DEF Upto

(* One event more: what it is decides what is held and waiting after it.   *)
LEMMA BookAppend ==
  ASSUME NEW s \in Seq(EventType), NEW e \in EventType, NEW top \in Nat \cup {-1},
         NEW held, NEW waiting, NEW held2, NEW waiting2,
         Booked(s, held, waiting, top), e.index <= top,
         \/ /\ e.kind = "noFill" /\ waiting = {e.index} /\ waiting2 = {} /\ held2 = held
         \/ /\ e.kind = "entry" /\ waiting = {e.index} /\ waiting2 = {}
            /\ held = {} /\ held2 = {e.index}
         \/ /\ e.kind = "exit" /\ held = {e.index} /\ held2 = {} /\ waiting2 = waiting
  PROVE  Booked(Append(s, e), held2, waiting2, top)
<1>1. Upto(Append(s, e), top)
  BY UptoAppend DEF Booked
<1>2. ASSUME NEW k \in 0 .. top PROVE Accounted(Append(s, e), held2, waiting2, k)
  <2> DEFINE d == Count(s, "decision", k)
             i == Count(s, "entry", k)
             f == Count(s, "noFill", k)
             x == Count(s, "exit", k)
  <2>1. d \in Nat /\ i \in Nat /\ f \in Nat /\ x \in Nat
    BY CountNat
  <2>2. /\ Count(Append(s, e), "decision", k) = d + One(e.kind = "decision" /\ e.index = k)
        /\ Count(Append(s, e), "entry", k) = i + One(e.kind = "entry" /\ e.index = k)
        /\ Count(Append(s, e), "noFill", k) = f + One(e.kind = "noFill" /\ e.index = k)
        /\ Count(Append(s, e), "exit", k) = x + One(e.kind = "exit" /\ e.index = k)
    BY CountAppend
  <2>3. /\ d <= 1 /\ d = i + f + One(k \in waiting) /\ i + f <= 1 /\ i = x + One(k \in held)
    BY DEF Booked, Accounted
  <2> HIDE DEF d, i, f, x
  <2>4. CASE e.index = k
    BY <2>1, <2>2, <2>3, <2>4 DEF Accounted, One
  <2>5. CASE e.index # k
    BY <2>1, <2>2, <2>3, <2>5 DEF Accounted, One
  <2> QED BY <2>4, <2>5
<1> QED BY <1>1, <1>2 DEF Booked

(* A completed bar, alone or with its decision.                            *)
LEMMA BookBar ==
  ASSUME NEW s \in Seq(EventType), NEW top \in Nat \cup {-1}, NEW held,
         held \subseteq 0 .. top, Booked(s, held, {}, top)
  PROVE  /\ Booked(s, held, {}, top + 1)
         /\ \A e \in EventType :
              e.kind = "decision" /\ e.index = top + 1 =>
                Booked(Append(s, e), held, {top + 1}, top + 1)
<1> DEFINE next == top + 1
<1>1. next \in Nat /\ next > top
  OBVIOUS
<1>2. Upto(s, next)
  <2>1. ASSUME NEW n \in DOMAIN s PROVE s[n].index <= next
    <3>1. s[n] \in EventType
      OBVIOUS
    <3>2. s[n].index \in Nat /\ s[n].index <= top
      BY <3>1 DEF Booked, Upto, EventType
    <3> QED BY <3>2
  <2> QED BY <2>1 DEF Upto
<1>3. \A kind : Count(s, kind, next) = 0
  BY <1>1, CountNone DEF Booked
<1>4. \A k \in 0 .. top : Accounted(s, held, {}, k)
  BY DEF Booked
<1>5. next \notin held
  BY <1>1
<1>6. Accounted(s, held, {}, next)
  BY <1>3, <1>5 DEF Accounted, One
<1>7. Booked(s, held, {}, next)
  <2>1. \A k \in 0 .. next : k \in 0 .. top \/ k = next
    BY <1>1
  <2> QED BY <1>2, <1>4, <1>6, <2>1 DEF Booked
<1>8. ASSUME NEW e \in EventType, e.kind = "decision", e.index = next
      PROVE  Booked(Append(s, e), held, {next}, next)
  <2>1. Upto(Append(s, e), next)
    BY <1>1, <1>2, <1>8, UptoAppend
  <2>2. ASSUME NEW k \in 0 .. next PROVE Accounted(Append(s, e), held, {next}, k)
    <3> DEFINE d == Count(s, "decision", k)
               i == Count(s, "entry", k)
               f == Count(s, "noFill", k)
               x == Count(s, "exit", k)
    <3>1. d \in Nat /\ i \in Nat /\ f \in Nat /\ x \in Nat
      BY CountNat
    <3>2. /\ Count(Append(s, e), "decision", k) = d + One(e.kind = "decision" /\ e.index = k)
          /\ Count(Append(s, e), "entry", k) = i + One(e.kind = "entry" /\ e.index = k)
          /\ Count(Append(s, e), "noFill", k) = f + One(e.kind = "noFill" /\ e.index = k)
          /\ Count(Append(s, e), "exit", k) = x + One(e.kind = "exit" /\ e.index = k)
      BY CountAppend
    <3>3. /\ d <= 1 /\ d = i + f + One(k \in {}) /\ i + f <= 1 /\ i = x + One(k \in held)
      BY <1>7 DEF Booked, Accounted
    <3>4. k = next => d = 0
      BY <1>3
    <3> HIDE DEF d, i, f, x
    <3>5. CASE k = next
      BY <1>8, <3>1, <3>2, <3>3, <3>4, <3>5 DEF Accounted, One
    <3>6. CASE k # next
      BY <1>8, <3>1, <3>2, <3>3, <3>6 DEF Accounted, One
    <3> QED BY <3>5, <3>6
  <2> QED BY <2>1, <2>2 DEF Booked
<1> QED BY <1>7, <1>8

Book ==
  /\ position # None => position.index <= barIndex
  /\ Booked(events, Held, Pending, barIndex)

LEMMA BookTop ==
  ASSUME TypeOK, Clocks, Book
  PROVE  /\ barIndex \in Nat \cup {-1} /\ events \in Seq(EventType)
         /\ position # None => position.index \in Nat /\ position.index <= barIndex
         /\ pending # None => pending.index \in Nat /\ pending.index <= barIndex
         /\ Held \subseteq 0 .. barIndex
<1>1. barIndex \in Nat \cup {-1} /\ events \in Seq(EventType)
  BY DEF TypeOK
<1>2. position # None => position.index \in Nat /\ position.index <= barIndex
  BY DEF TypeOK, PositionType, Book
<1>3. pending # None => pending.index \in Nat /\ pending.index <= barIndex
  BY DEF TypeOK, DecisionType, Clocks, Waiting
<1> QED BY <1>1, <1>2, <1>3 DEF Held

LEMMA EventFields ==
  ASSUME NEW kind, NEW k, NEW why, NEW version, NEW net
  PROVE  Event(kind, k, why, version, net).kind = kind /\ Event(kind, k, why, version, net).index = k
BY DEF Event

(* The waiting decision ends without a position.                           *)
LEMMA NoFillBooked ==
  ASSUME TypeOK, Clocks, Book, UNCHANGED barIndex, pending # None, NEW why, NoFill(why)
  PROVE  Book'
<1>1. /\ pending' = None /\ position' = position
      /\ events' = Append(events, Event("noFill", pending.index, "", 0, 0))
  BY DEF NoFill
<1>2. PICK e \in EventType : e.kind = "noFill" /\ e.index = pending.index /\ events' = Append(events, e)
  <2>1. pending.index \in Nat
    BY BookTop
  <2>2. /\ Event("noFill", pending.index, "", 0, 0) \in EventType
        /\ Event("noFill", pending.index, "", 0, 0).kind = "noFill"
        /\ Event("noFill", pending.index, "", 0, 0).index = pending.index
    BY <2>1 DEF Event, EventType, Reasons
  <2> QED BY <1>1, <2>2, Zenon
<1>3. Pending = {e.index} /\ Pending' = {} /\ Held' = Held
  BY <1>1, <1>2 DEF Pending, Held
<1>4. Booked(Append(events, e), Held', Pending', barIndex)
  <2>1. Booked(events, Held, Pending, barIndex)
    BY DEF Book
  <2> QED BY <1>2, <1>3, <2>1, BookTop, BookAppend
<1> QED BY <1>1, <1>2, <1>4 DEF Book

(* The open position, or its tightened form, ends.                         *)
LEMMA ExitBooked ==
  ASSUME TypeOK, Clocks, Book, position # None, pending = None,
         NEW p \in PositionType, p.index = position.index, NEW price \in Int, NEW why \in Reasons,
         Close(p, price)
  PROVE  /\ Append(events, ExitEvent(p, price, why)) \in Seq(EventType)
         /\ Booked(Append(events, ExitEvent(p, price, why)), {}, {}, barIndex)
<1>1. balance \in Int
  BY DEF TypeOK
<1>2. ExitEvent(p, price, why) \in EventType
  BY <1>1, CloseTypedOf
<1>3. PICK e \in EventType :
        e = ExitEvent(p, price, why) /\ e.kind = "exit" /\ e.index = position.index
  BY <1>2, EventFields DEF ExitEvent
<1>4. Held = {e.index} /\ Pending = {}
  BY <1>3 DEF Held, Pending
<1>5. Booked(events, Held, Pending, barIndex)
  BY DEF Book
<1>6. Booked(Append(events, e), {}, {}, barIndex)
  BY <1>3, <1>4, <1>5, BookTop, BookAppend
<1>7. Append(events, e) \in Seq(EventType)
  BY BookTop
<1> QED BY <1>3, <1>6, <1>7

(* A bar adds its decision to whatever has been recorded, or nothing.      *)
LEMMA DecideBooked ==
  ASSUME TypeOK, NEW b, BarRecord(b), NEW recorded \in Seq(EventType), Booked(recorded, {}, {}, barIndex),
         Decide(b, recorded), barIndex' = barIndex + 1, position' = None
  PROVE  Book'
<1>1. barIndex \in Nat \cup {-1} /\ barIndex + 1 \in Nat
  BY DEF TypeOK
<1>2. Held' = {}
  BY DEF Held
<1>3. {} \subseteq 0 .. barIndex
  OBVIOUS
<1>4. CASE pending' = None /\ events' = recorded
  <2>1. Pending' = {}
    BY <1>4 DEF Pending
  <2>2. Booked(recorded, {}, {}, barIndex + 1)
    BY <1>1, <1>3, BookBar
  <2> QED BY <1>2, <1>4, <2>1, <2>2 DEF Book
<1>5. ASSUME pending'.index = barIndex + 1, pending' # None,
             events' = Append(recorded, Event("decision", barIndex + 1, "", 0, 0))
      PROVE  Book'
  <2>1. PICK e \in EventType :
          e.kind = "decision" /\ e.index = barIndex + 1 /\ events' = Append(recorded, e)
    <3>1. \A k \in Nat : /\ Event("decision", k, "", 0, 0) \in EventType
                         /\ Event("decision", k, "", 0, 0).kind = "decision"
                         /\ Event("decision", k, "", 0, 0).index = k
      BY PlainEventTyped, Zenon
    <3> QED BY <1>1, <1>5, <3>1, Zenon
  <2>2. Booked(Append(recorded, e), {}, {barIndex + 1}, barIndex + 1)
    BY <1>1, <1>3, <2>1, BookBar
  <2>3. Pending' = {barIndex + 1}
    BY <1>5 DEF Pending
  <2> QED BY <1>2, <2>1, <2>2, <2>3 DEF Book
<1>6. ASSUME NEW side \in Sides, pending' = Decision(b, side)
      PROVE  pending'.index = barIndex + 1 /\ pending' # None
  <2>1. Decision(b, side) \in DecisionType
    BY TypeGroups, DecisionTyped
  <2> QED BY <1>6, <2>1, NoneAssumption DEF Decision
<1>7. \/ pending' = None /\ events' = recorded
      \/ /\ pending'.index = barIndex + 1 /\ pending' # None
         /\ events' = Append(recorded, Event("decision", barIndex + 1, "", 0, 0))
  BY <1>6, Zenon DEF Decide
<1> QED BY <1>4, <1>5, <1>7

LEMMA BarBooked ==
  ASSUME TypeOK, Clocks, Book, NEW b, BarRecord(b), OnBar(b)
  PROVE  Book'
<1>1. BookTypes /\ events \in Seq(EventType)
  BY TypeGroups DEF BookTypes
<1>2. pending = None /\ Pending = {} /\ barIndex' = barIndex + 1 /\ barIndex \in Nat \cup {-1}
  BY BarEffect, BookTop DEF BarSeen, Pending
<1>3. ASSUME events' = events, pending' = None,
             position' # None => position # None /\ position'.index = position.index,
             position' = None => position = None
      PROVE  Book'
  <2>1. Held' = Held /\ Pending' = {}
    BY <1>3 DEF Held, Pending
  <2>2. Booked(events, Held, {}, barIndex + 1)
    BY <1>1, <1>2, BookTop, BookBar DEF Book
  <2>3. position' # None => position'.index <= barIndex + 1
    BY <1>2, <1>3, BookTop
  <2> QED BY <1>2, <1>3, <2>1, <2>2, <2>3 DEF Book
<1>4. CASE BarWarmup(b) \/ BarAfterGap(b) \/ BarUncovered(b) \/ BarMissedSlowExit(b)
  BY <1>2, <1>3, <1>4 DEF BarWarmup, BarAfterGap, BarUncovered, BarMissedSlowExit, Unresolved, bookVars
<1>5. CASE BarFlat(b)
  <2>1. position = None /\ position' = None /\ Decide(b, events)
    BY <1>5 DEF BarFlat
  <2>2. Booked(events, {}, {}, barIndex)
    BY <1>2, <2>1 DEF Book, Held
  <2> QED BY <1>1, <1>2, <2>1, <2>2, DecideBooked
<1>6. CASE BarExit(b)
  <2> DEFINE out == BarOutcome(position, b)
  <2>1. CASE Unresolved
    BY <1>2, <1>3, <2>1 DEF Unresolved, bookVars
  <2>2. CASE /\ Close(position, out.price)
             /\ Decide(b, Append(events, ExitEvent(position, out.price, out.why)))
    <3>1. out # None /\ position # None /\ position \in PositionType
      BY <1>1, <1>6 DEF BarExit, BookTypes, HeldTypes
    <3>2. out.price \in Int /\ out.why \in Reasons
      BY <1>1, <3>1, BarOutcomeTyped
    <3>3. position' = None
      BY <2>2 DEF Close
    <3> HIDE DEF out
    <3>4. PICK recorded \in Seq(EventType) :
            Decide(b, recorded) /\ Booked(recorded, {}, {}, barIndex)
      BY <1>2, <2>2, <3>1, <3>2, ExitBooked
    <3> QED BY <1>2, <3>3, <3>4, DecideBooked
  <2> QED BY <1>6, <2>1, <2>2, Zenon DEF BarExit
<1>7. CASE BarHeld(b)
  <2>1. PICK p \in {position} \cup {Tightened(position, level) : level \in Levels},
             slow \in {FALSE, Dual} :
          LET price == LiquidPrice(p.side, b.mid.C)
              exits == dualExitPending \/ slow
          IN /\ dualExitPending' = exits
             /\ pending' = pending
             /\ IF HoldDue(p) /\ ClosesAt(p, price)
                THEN /\ Close(p, price)
                     /\ events' = Append(events, ExitEvent(p, price, "time"))
                     /\ UNCHANGED coverage
                ELSE /\ position' = p
                     /\ coverage' = IF HoldDue(p) THEN "unresolved" ELSE coverage
                     /\ slowExitCommitT' = IF exits /\ slowExitCommitT = None
                                           THEN b.commit ELSE slowExitCommitT
                     /\ UNCHANGED << balance, events >>
    BY <1>7, Zenon DEF BarHeld
  <2> DEFINE price == LiquidPrice(p.side, b.mid.C)
  <2>2. position # None
    BY <1>7 DEF BarHeld
  <2>3. p \in PositionType /\ p # None /\ p.index = position.index
    BY <1>1, <2>2, TightenedTyped, NoneAssumption DEF BookTypes, HeldTypes
  <2>4. CASE position' = p /\ UNCHANGED events
    BY <1>2, <1>3, <2>1, <2>2, <2>3, <2>4
  <2>5. CASE Close(p, price) /\ events' = Append(events, ExitEvent(p, price, "time"))
    <3>1. b.mid.C \in Nat /\ p.side \in Sides
      BY <2>3, PaperAssumption DEF BarRecord, PositionType
    <3>2. price \in Int
      BY <3>1, PriceTyped
    <3>3. "time" \in Reasons
      BY DEF Reasons
    <3> HIDE DEF price
    <3>4. /\ events' \in Seq(EventType) /\ Booked(events', {}, {}, barIndex)
      BY <1>2, <2>2, <2>3, <2>5, <3>2, <3>3, ExitBooked
    <3>5. {} \subseteq 0 .. barIndex
      OBVIOUS
    <3>6. Booked(events', {}, {}, barIndex + 1)
      BY <1>2, <3>4, <3>5, BookBar
    <3>7. position' = None /\ Held' = {} /\ Pending' = {}
      BY <1>2, <2>1, <2>5 DEF Close, Held, Pending
    <3> QED BY <1>2, <3>6, <3>7 DEF Book
  <2> QED BY <2>1, <2>4, <2>5, Zenon
<1> QED BY <1>4, <1>5, <1>6, <1>7 DEF OnBar

(* The answer of an admitted decision opens its position.                  *)
LEMMA FillBooked ==
  ASSUME TypeOK, Clocks, Book, UNCHANGED barIndex, pending # None, NEW q, QuoteRecord(q), Fill(q)
  PROVE  Book'
<1>1. CASE \E why : NoFill(why)
  BY <1>1, NoFillBooked
<1>2. CASE /\ position' \in PositionType /\ position'.index = pending.index
           /\ events' = Append(events, Event("entry", pending.index, "filled", 1, 0))
  <2>1. pending.index \in Nat /\ pending.index <= barIndex /\ position = None
    BY BookTop DEF Clocks, Waiting
  <2>2. PICK e \in EventType :
          e.kind = "entry" /\ e.index = pending.index /\ events' = Append(events, e)
    <3>1. /\ Event("entry", pending.index, "filled", 1, 0) \in EventType
          /\ Event("entry", pending.index, "filled", 1, 0).kind = "entry"
          /\ Event("entry", pending.index, "filled", 1, 0).index = pending.index
      BY <2>1 DEF Event, EventType, Reasons
    <3> QED BY <1>2, <3>1, Zenon
  <2>3. pending' = None
    BY TypeGroups, FillTyped
  <2>4. Held = {} /\ Pending = {e.index} /\ Held' = {e.index} /\ Pending' = {}
    BY <1>2, <2>1, <2>2, <2>3, NoneAssumption DEF Held, Pending
  <2>5. Booked(Append(events, e), Held', Pending', barIndex)
    <3>1. Booked(events, Held, Pending, barIndex)
      BY DEF Book
    <3> QED BY <2>1, <2>2, <2>4, <3>1, BookTop, BookAppend
  <2> QED BY <1>2, <2>1, <2>2, <2>5 DEF Book
<1> QED BY <1>1, <1>2, TypeGroups, FillTyped

(* A position that a quote closes.                                         *)
LEMMA QuotedExitBooked ==
  ASSUME TypeOK, Clocks, Book, UNCHANGED << barIndex, pending >>, position # None,
         NEW q, QuoteRecord(q), NEW why \in Reasons,
         Close(position, LiquidPrice(position.side, q.content.mid)),
         events' = Append(events, ExitEvent(position, LiquidPrice(position.side, q.content.mid), why))
  PROVE  Book'
<1> DEFINE price == LiquidPrice(position.side, q.content.mid)
<1>1. position \in PositionType
  BY DEF TypeOK
<1>2. price \in Int
  <2>1. position.side \in Sides /\ q.content.mid \in Nat
    BY <1>1, PaperAssumption DEF PositionType, QuoteRecord
  <2> QED BY <2>1, PriceTyped
<1>3. pending = None
  BY DEF Clocks, Waiting
<1> HIDE DEF price
<1>4. Booked(events', {}, {}, barIndex)
  BY <1>1, <1>2, <1>3, ExitBooked DEF price
<1>5. position' = None /\ Held' = {} /\ Pending' = {}
  BY <1>3 DEF Close, Held, Pending
<1> QED BY <1>4, <1>5 DEF Book

LEMMA QuoteBooked ==
  ASSUME TypeOK, Clocks, Book, NEW q, QuoteRecord(q), OnQuote(q)
  PROVE  Book'
<1>1. barIndex' = barIndex
  BY DEF OnQuote, clockVars
<1>2. Original(q) => pending # None
  BY DEF OnQuote, Misdirected
<1>3. ASSUME UNCHANGED << pending, position, events >> PROVE Book'
  BY <1>1, <1>3 DEF Book, Held, Pending
<1>4. CASE OutsideEntries(q)
  BY <1>1, <1>2, <1>4, NoFillBooked DEF OnQuote, OutsideEntries
<1>5. CASE OriginalQuote(q)
  <2>1. Original(q) /\ (Fill(q) \/ \E why : NoFill(why))
    BY <1>5, Zenon DEF OriginalQuote
  <2> QED BY <1>1, <1>2, <2>1, FillBooked, NoFillBooked
<1>6. CASE StreamQuote(q)
  <2>1. CASE UNCHANGED << coverage, pending, exitVars, bookVars >> \/ Unresolved
    BY <1>3, <2>1 DEF Unresolved, bookVars
  <2>2. ASSUME position # None, NEW why \in Reasons, pending' = pending,
          Close(position, LiquidPrice(position.side, q.content.mid)),
          events' = Append(events, ExitEvent(position, LiquidPrice(position.side, q.content.mid), why))
        PROVE  Book'
    BY <1>1, <2>2, QuotedExitBooked
  <2>3. "slow-ema" \in Reasons /\ "stop" \in Reasons /\ "target" \in Reasons
    BY DEF Reasons
  <2>4. CASE position # None /\ SlowExit(q)
    BY <2>1, <2>2, <2>3, <2>4, Zenon DEF SlowExit
  <2>5. CASE position # None /\ SampledExit(q)
    BY <2>1, <2>2, <2>3, <2>5, Zenon DEF SampledExit
  <2> QED BY <1>6, <2>1, <2>4, <2>5, Zenon DEF StreamQuote
<1> QED BY <1>4, <1>5, <1>6, Zenon DEF OnQuote

LEMMA BookInit == Init => Book
<1> SUFFICES ASSUME Init PROVE Book
  OBVIOUS
<1>1. events = << >> /\ barIndex = -1 /\ position = None
  BY DEF Init
<1>2. Upto(events, barIndex)
  BY <1>1 DEF Upto
<1>3. 0 .. barIndex = {}
  BY <1>1
<1> QED BY <1>1, <1>2, <1>3 DEF Book, Booked

LEMMA BookStep == TypeOK /\ Clocks /\ Book /\ [Next]_vars => Book'
<1> SUFFICES ASSUME TypeOK, Clocks, Book, [Next]_vars PROVE Book'
  OBVIOUS
<1>1. ASSUME UNCHANGED << barIndex, events, position >>, Pending' = Pending PROVE Book'
  BY <1>1 DEF Book, Held
<1>2. ASSUME NEW e, EpisodeRecord(e), OnEpisode(e) PROVE Book'
  <2>1. /\ UNCHANGED << barIndex, events, position >> /\ pending # None
        /\ pending' = [pending EXCEPT !.admit = e.admit, !.deadline = e.deadline,
                                      !.episodeCommit = e.commit]
    BY <1>2 DEF OnEpisode, bookVars, clockVars
  <2>2. pending \in DecisionType
    BY <2>1 DEF TypeOK
  <2>3. pending'.index = pending.index
    BY <2>1, <2>2 DEF DecisionType
  <2>4. pending' # None
    <3>1. pending' \in DecisionType
      BY <1>2, <2>1, <2>2 DEF EpisodeRecord, DecisionType
    <3> QED BY <3>1, NoneAssumption
  <2> QED BY <1>1, <2>1, <2>3, <2>4 DEF Pending
<1>3. ASSUME NEW s, OnSeal(s) PROVE Book'
  BY <1>3, NoFillBooked DEF OnSeal, SealHolds, clockVars
<1>4. ASSUME NEW t, OnCoverageGap(t) PROVE Book'
  BY <1>1, <1>4 DEF OnCoverageGap, clockVars, bookVars, Pending
<1>5. ASSUME NEW c, OnClosure(c) PROVE Book'
  BY <1>1, <1>5 DEF OnClosure, bookVars, Pending
<1>6. ASSUME NEW t, OnExperimentClock(t) PROVE Book'
  <2>1. barIndex' = barIndex
    BY <1>6 DEF OnExperimentClock, clockVars
  <2>2. CASE pending # None
    BY <1>6, <2>1, <2>2, NoFillBooked DEF OnExperimentClock
  <2>3. CASE pending = None
    BY <1>1, <1>6, <2>1, <2>3 DEF OnExperimentClock, bookVars, Pending
  <2> QED BY <2>2, <2>3
<1>7. CASE Next
  BY <1>2, <1>3, <1>4, <1>5, <1>6, <1>7, Records, BarBooked, QuoteBooked, Zenon
<1>8. CASE UNCHANGED vars
  BY <1>1, <1>8 DEF vars, clockVars, bookVars, Pending
<1> QED BY <1>7, <1>8

(* collectBidAsk, bidAskNoFill, the entry and exit records: every decision *)
(* has exactly one outcome or is the pending one, and a filled decision is *)
(* open or exited once, for every order of quotes, seals, bars and clocks. *)
THEOREM DecisionsAccountedFor == Spec => []DecisionAccounted
<1>1. Init => TypeOK /\ Clocks /\ Book
  BY InitTyped, ClocksInit, BookInit
<1>2. TypeOK /\ Clocks /\ Book /\ [Next]_vars => (TypeOK /\ Clocks /\ Book)'
  BY StepTyped, ClocksStep, BookStep
<1>3. TypeOK /\ Clocks /\ Book => DecisionAccounted
  <2> SUFFICES ASSUME TypeOK, Clocks, Book, NEW k \in 0 .. barIndex
               PROVE  LET settled == Cardinality(Of("entry", k)) + Cardinality(Of("noFill", k))
                          open == position # None /\ position.index = k
                          waiting == pending # None /\ pending.index = k
                      IN /\ Cardinality(Of("decision", k)) = settled + IF waiting THEN 1 ELSE 0
                         /\ settled <= 1
                         /\ Cardinality(Of("entry", k)) =
                              Cardinality(Of("exit", k)) + IF open THEN 1 ELSE 0
                         /\ ~(open /\ pending # None)
    BY DEF DecisionAccounted
  <2>1. \A kind : Cardinality(Of(kind, k)) = Count(events, kind, k)
    BY DEF Of, OfIn, Count
  <2>2. Accounted(events, Held, Pending, k)
    BY DEF Book, Booked
  <2>3. k \in Held <=> position # None /\ position.index = k
    BY DEF Held
  <2>4. k \in Pending <=> pending # None /\ pending.index = k
    BY DEF Pending
  <2>5. ~(position # None /\ pending # None)
    BY DEF Clocks, Waiting
  <2> QED BY <2>1, <2>2, <2>3, <2>4, <2>5 DEF Accounted, One
<1> QED BY <1>1, <1>2, <1>3, PTL DEF Spec

-------------------------------------------------------------------------------
(* Sums over the events, unfolded one event at a time.                     *)
LEMMA UpTo ==
  ASSUME NEW k \in Nat, NEW n \in Nat, NEW P, k \in P,
         \A i \in k .. n : i \in P /\ i + 1 <= n => i + 1 \in P
  PROVE  k .. n \subseteq P
<1> DEFINE bad == {i \in Nat : i \in k .. n /\ i \notin P}
<1> SUFFICES ASSUME bad # {} PROVE FALSE
  OBVIOUS
<1>1. PICK i \in bad : \A j \in bad : ~(<<j, i>> \in OpToRel(<, Nat))
  <2>1. bad \subseteq Nat
    OBVIOUS
  <2> HIDE DEF bad
  <2> QED BY <2>1, NatLessThanWellFounded, WFMin, Zenon
<1>2. i # k /\ i - 1 \in k .. n /\ i - 1 \in Nat
  OBVIOUS
<1>3. i - 1 \in P
  <2>1. ~(i - 1 \in bad)
    <3> SUFFICES ASSUME i - 1 \in bad PROVE FALSE
      OBVIOUS
    <3>1. i - 1 < i /\ i \in Nat
      OBVIOUS
    <3> QED BY <1>1, <1>2, <3>1 DEF OpToRel
  <2> QED BY <1>2, <2>1
<1>4. i - 1 + 1 = i /\ i - 1 + 1 <= n
  OBVIOUS
<1> QED BY <1>2, <1>3, <1>4

Partial(f, s, n) == f = [i \in 0 .. n |-> IF i = 0 THEN 0 ELSE f[i - 1] + s[i].net]

PartialSteps(f, s, n) == f[0] = 0 /\ \A i \in 1 .. n : f[i] = f[i - 1] + s[i].net

LEMMA PartialUnfolds ==
  ASSUME NEW f, NEW s, NEW n \in Nat, Partial(f, s, n)
  PROVE  PartialSteps(f, s, n)
<1> DEFINE step(i) == IF i = 0 THEN 0 ELSE f[i - 1] + s[i].net
<1>1. f = [i \in 0 .. n |-> step(i)]
  BY DEF Partial
<1>2. \A i \in 0 .. n : f[i] = step(i)
  <2> HIDE DEF step
  <2> QED BY <1>1
<1> QED BY <1>2 DEF PartialSteps

LEMMA PartialExtends ==
  ASSUME NEW s, NEW n \in Nat, NEW f, Partial(f, s, n)
  PROVE  \E g : Partial(g, s, n + 1)
<1> DEFINE g == [i \in 0 .. n + 1 |-> IF i <= n THEN f[i] ELSE f[n] + s[n + 1].net]
           step(i) == IF i = 0 THEN 0 ELSE g[i - 1] + s[i].net
<1>1. PartialSteps(f, s, n)
  BY PartialUnfolds
<1>2. ASSUME NEW i \in 0 .. n + 1 PROVE g[i] = step(i)
  <2>1. CASE i = 0
    BY <1>1, <2>1 DEF PartialSteps
  <2>2. CASE i # 0 /\ i <= n
    <3>1. g[i] = f[i] /\ g[i - 1] = f[i - 1] /\ i \in 1 .. n
      BY <2>2
    <3>2. f[i] = f[i - 1] + s[i].net
      BY <1>1, <3>1 DEF PartialSteps
    <3> HIDE DEF g
    <3> QED BY <2>2, <3>1, <3>2
  <2>3. CASE i = n + 1
    <3>1. g[i] = f[n] + s[n + 1].net /\ g[n] = f[n] /\ i # 0 /\ i - 1 = n
      BY <2>3
    <3> HIDE DEF g
    <3> QED BY <2>3, <3>1
  <2> QED BY <2>1, <2>2, <2>3
<1>3. g = [i \in 0 .. n + 1 |-> g[i]]
  OBVIOUS
<1>4. g = [i \in 0 .. n + 1 |-> step(i)]
  <2> HIDE DEF g, step
  <2> QED BY <1>2, <1>3
<1> HIDE DEF g
<1> QED BY <1>4 DEF Partial

LEMMA PartialExists ==
  ASSUME NEW s, NEW n \in Nat
  PROVE  \E f : Partial(f, s, n)
<1> DEFINE P == {m \in 0 .. n : \E f : Partial(f, s, m)}
<1>1. 0 \in P
  <2> DEFINE f == [i \in 0 .. 0 |-> 0]
  <2>1. Partial(f, s, 0)
    <3>1. \A i \in 0 .. 0 : i = 0
      OBVIOUS
    <3> QED BY <3>1 DEF Partial
  <2> HIDE DEF f
  <2> QED BY <2>1
<1>2. ASSUME NEW m \in 0 .. n, m \in P, m + 1 <= n PROVE m + 1 \in P
  <2>1. m \in Nat /\ m + 1 \in 0 .. n
    BY <1>2
  <2> QED BY <1>2, <2>1, PartialExtends
<1>3. 0 .. n \subseteq P
  <2> HIDE DEF P
  <2> QED BY <1>1, <1>2, UpTo
<1> QED BY <1>3

(* Equal events have equal sums, and the sum is an integer.                *)
LEMMA PartialAgree ==
  ASSUME NEW s, NEW t, NEW n \in Nat, NEW m \in Nat, n <= m, NEW f, NEW g,
         PartialSteps(f, s, n), PartialSteps(g, t, m), \A i \in 1 .. n : s[i] = t[i] /\ s[i].net \in Int
  PROVE  f[n] = g[n] /\ f[n] \in Int
<1> DEFINE P == {i \in 0 .. n : f[i] = g[i] /\ f[i] \in Int}
<1>1. 0 \in P
  BY DEF PartialSteps
<1>2. ASSUME NEW i \in 0 .. n, i \in P, i + 1 <= n PROVE i + 1 \in P
  <2>1. i + 1 \in 1 .. n /\ i + 1 \in 1 .. m /\ i + 1 - 1 = i /\ i + 1 \in 0 .. n
    BY <1>2
  <2>2. f[i + 1] = f[i] + s[i + 1].net /\ g[i + 1] = g[i] + t[i + 1].net
    BY <2>1 DEF PartialSteps
  <2> QED BY <1>2, <2>1, <2>2
<1>3. 0 .. n \subseteq P
  <2> HIDE DEF P
  <2> QED BY <1>1, <1>2, UpTo
<1> QED BY <1>3

LEMMA NetIsPartial ==
  ASSUME NEW s, Len(s) \in Nat
  PROVE  \E f : PartialSteps(f, s, Len(s)) /\ NetOver(s) = f[Len(s)]
<1> DEFINE f == CHOOSE g : Partial(g, s, Len(s))
<1>1. Partial(f, s, Len(s))
  BY PartialExists
<1>2. NetOver(s) = f[Len(s)]
  BY DEF NetOver, Partial
<1> HIDE DEF f
<1> QED BY <1>1, <1>2, PartialUnfolds

LEMMA NetOfNothing == NetOver(<< >>) = 0
<1>1. Len(<< >>) = 0
  OBVIOUS
<1> QED BY <1>1, NetIsPartial DEF PartialSteps

LEMMA NetOfOneMore ==
  ASSUME NEW s \in Seq(EventType), NEW e \in EventType
  PROVE  NetOver(s) \in Int /\ NetOver(Append(s, e)) = NetOver(s) + e.net
<1> DEFINE t == Append(s, e)
           n == Len(s)
<1>1. n \in Nat /\ Len(t) = n + 1 /\ t[n + 1] = e /\ \A i \in 1 .. n : s[i] = t[i] /\ s[i] \in EventType
  OBVIOUS
<1>2. \A i \in 1 .. n : s[i].net \in Int
  BY <1>1 DEF EventType
<1> HIDE DEF t, n
<1>3. PICK f : PartialSteps(f, s, n) /\ NetOver(s) = f[n]
  BY <1>1, NetIsPartial DEF n
<1>4. PICK g : PartialSteps(g, t, n + 1) /\ NetOver(t) = g[n + 1]
  BY <1>1, NetIsPartial
<1>5. f[n] = g[n] /\ f[n] \in Int
  <2>1. n \in Nat /\ n + 1 \in Nat /\ n <= n + 1
    BY <1>1
  <2>2. \A i \in 1 .. n : s[i] = t[i] /\ s[i].net \in Int
    BY <1>1, <1>2
  <2>3. PartialSteps(f, s, n) /\ PartialSteps(g, t, n + 1)
    BY <1>3, <1>4
  <2> DEFINE m == n + 1
  <2>4. m \in Nat /\ n <= m /\ PartialSteps(g, t, m)
    BY <2>1, <2>3
  <2> HIDE DEF m
  <2> QED BY <2>1, <2>2, <2>3, <2>4, PartialAgree
<1>6. g[n + 1] = g[n] + t[n + 1].net
  <2> DEFINE m == n + 1
  <2>1. m \in 1 .. m /\ m - 1 = n
    BY <1>1
  <2>2. \A i \in 1 .. m : g[i] = g[i - 1] + t[i].net
    BY <1>4 DEF PartialSteps
  <2> HIDE DEF m
  <2>3. g[m] = g[n] + t[m].net
    BY <2>1, <2>2
  <2> QED BY <2>3 DEF m
<1>7. NetOver(t) = NetOver(s) + e.net
  BY <1>1, <1>3, <1>4, <1>5, <1>6
<1> QED BY <1>3, <1>5, <1>7 DEF t

-------------------------------------------------------------------------------
(* The account: only an exit makes something, and it pays the entry fee.   *)
Owed(p) == IF p = None THEN 0 ELSE Lots * EntryFee

LEMMA AccountOf == AccountReconciles <=> balance = NetOver(events) - Owed(position)
BY DEF AccountReconciles, TotalNet, Owed

LEMMA AccountAfter == AccountReconciles' <=> balance' = NetOver(events') - Owed(position')
BY DEF AccountReconciles, TotalNet, Owed

LEMMA OwedInt == ASSUME NEW p PROVE Owed(p) \in Int
BY PaperAssumption DEF Owed

LEMMA AddsNothing ==
  ASSUME NEW s \in Seq(EventType), NEW k \in Nat, NEW kind \in {"decision", "noFill", "entry"},
         NEW why \in Reasons, NEW version \in Nat
  PROVE  NetOver(Append(s, Event(kind, k, why, version, 0))) = NetOver(s)
<1>1. Event(kind, k, why, version, 0) \in EventType /\ Event(kind, k, why, version, 0).net = 0
  BY DEF Event, EventType
<1>2. NetOver(s) \in Int /\ NetOver(Append(s, Event(kind, k, why, version, 0))) = NetOver(s) + 0
  BY <1>1, NetOfOneMore
<1> QED BY <1>2

LEMMA NoFillReconciles ==
  ASSUME TypeOK, AccountReconciles, pending # None, NEW why, NoFill(why)
  PROVE  AccountReconciles'
<1>1. pending.index \in Nat /\ events \in Seq(EventType) /\ "" \in Reasons
  BY DEF TypeOK, DecisionType, Reasons
<1>2. events' = Append(events, Event("noFill", pending.index, "", 0, 0)) /\ position' = position /\ balance' = balance
  BY DEF NoFill
<1>3. NetOver(events') = NetOver(events)
  <2>1. 0 \in Nat /\ "noFill" \in {"decision", "noFill", "entry"}
    OBVIOUS
  <2>2. NetOver(Append(events, Event("noFill", pending.index, "", 0, 0))) = NetOver(events)
    BY <1>1, <2>1, AddsNothing
  <2> QED BY <1>2, <2>2
<1> QED BY <1>2, <1>3, AccountOf, AccountAfter

LEMMA ExitReconciles ==
  ASSUME TypeOK, AccountReconciles, position # None,
         NEW p \in PositionType, NEW price \in Int, NEW why \in Reasons, Close(p, price)
  PROVE  /\ Append(events, ExitEvent(p, price, why)) \in Seq(EventType)
         /\ balance' = NetOver(Append(events, ExitEvent(p, price, why)))
<1> DEFINE exit == ExitEvent(p, price, why)
           credit == Credit(p, AdverseExit(p.side, price))
<1>1. balance \in Int /\ events \in Seq(EventType)
  BY DEF TypeOK
<1>2. exit \in EventType
  BY <1>1, CloseTypedOf
<1>3. exit.net = credit - Lots * EntryFee
  BY DEF ExitEvent, Event, Net
<1>4. balance' = balance + credit
  BY DEF Close
<1>5. balance = NetOver(events) - Lots * EntryFee
  BY AccountOf DEF Owed
<1>6. Lots * EntryFee \in Int /\ credit - Lots * EntryFee \in Int
  BY <1>2, <1>3, PaperAssumption DEF EventType
<1>7. credit \in Int
  <2>1. p.side \in {1, -1} /\ p.entry \in Int
    BY DEF PositionType, Sides
  <2>2. AdverseExit(p.side, price) - p.entry \in Int
    BY <2>1, PaperAssumption DEF AdverseExit
  <2>3. p.side * (AdverseExit(p.side, price) - p.entry) \in Int
    BY <2>1, <2>2
  <2>4. Lots * ExitFee \in Int /\ p.side * (AdverseExit(p.side, price) - p.entry) * Lots \in Int
    BY <2>3, PaperAssumption
  <2> QED BY <2>4 DEF Credit
<1> HIDE DEF exit, credit
<1>8. NetOver(events) \in Int /\ NetOver(Append(events, exit)) = NetOver(events) + exit.net
  BY <1>1, <1>2, NetOfOneMore
<1>9. balance' = NetOver(Append(events, exit))
  BY <1>3, <1>4, <1>5, <1>6, <1>7, <1>8
<1>10. Append(events, exit) \in Seq(EventType)
  BY <1>1, <1>2
<1> QED BY <1>9, <1>10 DEF exit

LEMMA DecideReconciles ==
  ASSUME TypeOK, NEW b, NEW recorded \in Seq(EventType), Decide(b, recorded),
         position' = None, balance' = NetOver(recorded)
  PROVE  AccountReconciles'
<1>1. barIndex + 1 \in Nat /\ "" \in Reasons
  BY DEF TypeOK, Reasons
<1>2. NetOver(Append(recorded, Event("decision", barIndex + 1, "", 0, 0))) = NetOver(recorded)
  <2>1. 0 \in Nat /\ "decision" \in {"decision", "noFill", "entry"}
    OBVIOUS
  <2> DEFINE k == barIndex + 1
  <2>2. k \in Nat
    BY <1>1
  <2> HIDE DEF k
  <2>3. "" \in Reasons /\ recorded \in Seq(EventType)
    BY <1>1
  <2>4. NetOver(Append(recorded, Event("decision", k, "", 0, 0))) = NetOver(recorded)
    BY <2>1, <2>2, <2>3, AddsNothing, Zenon
  <2> QED BY <2>4 DEF k
<1>3. events' = recorded \/ events' = Append(recorded, Event("decision", barIndex + 1, "", 0, 0))
  BY Zenon DEF Decide
<1>4. NetOver(events') = NetOver(recorded) /\ Owed(position') = 0
  BY <1>2, <1>3 DEF Owed
<1>5. NetOver(recorded) \in Int
  <2>1. Event("decision", barIndex + 1, "", 0, 0) \in EventType
    BY <1>1, PlainEventTyped
  <2> QED BY <2>1, NetOfOneMore
<1> QED BY <1>4, <1>5, AccountAfter

LEMMA BarReconciles ==
  ASSUME TypeOK, AccountReconciles, NEW b, BarRecord(b), OnBar(b)
  PROVE  AccountReconciles'
<1>1. BookTypes /\ events \in Seq(EventType) /\ balance \in Int
  BY TypeGroups DEF BookTypes
<1>2. ASSUME events' = events, balance' = balance, position' = None <=> position = None
      PROVE  AccountReconciles'
  <2>1. Owed(position') = Owed(position)
    BY <1>2 DEF Owed
  <2> QED BY <1>2, <2>1, AccountOf, AccountAfter
<1>3. CASE BarWarmup(b) \/ BarAfterGap(b) \/ BarUncovered(b) \/ BarMissedSlowExit(b)
  BY <1>2, <1>3 DEF BarWarmup, BarAfterGap, BarUncovered, BarMissedSlowExit, Unresolved, bookVars
<1>4. CASE BarFlat(b)
  <2>1. position = None /\ position' = None /\ Decide(b, events) /\ balance' = balance
    BY <1>4 DEF BarFlat
  <2>2. NetOver(events) \in Int
    <3>1. "" \in Reasons
      BY DEF Reasons
    <3>2. Event("noFill", 0, "", 0, 0) \in EventType
      BY PlainEventTyped
    <3> QED BY <1>1, <3>2, NetOfOneMore
  <2>3. balance' = NetOver(events)
    BY <2>1, <2>2, AccountOf DEF Owed
  <2> QED BY <1>1, <2>1, <2>3, DecideReconciles
<1>5. CASE BarExit(b)
  <2> DEFINE out == BarOutcome(position, b)
  <2>1. CASE Unresolved
    BY <1>2, <2>1 DEF Unresolved, bookVars
  <2>2. CASE /\ Close(position, out.price)
             /\ Decide(b, Append(events, ExitEvent(position, out.price, out.why)))
    <3>1. out # None /\ position # None /\ position \in PositionType
      BY <1>1, <1>5 DEF BarExit, BookTypes, HeldTypes
    <3>2. out.price \in Int /\ out.why \in Reasons
      BY <1>1, <3>1, BarOutcomeTyped
    <3>3. position' = None
      BY <2>2 DEF Close
    <3> HIDE DEF out
    <3>4. PICK recorded \in Seq(EventType) : Decide(b, recorded) /\ balance' = NetOver(recorded)
      BY <2>2, <3>1, <3>2, ExitReconciles
    <3> QED BY <3>3, <3>4, DecideReconciles
  <2> QED BY <1>5, <2>1, <2>2, Zenon DEF BarExit
<1>6. CASE BarHeld(b)
  <2>1. PICK p \in {position} \cup {Tightened(position, level) : level \in Levels},
             slow \in {FALSE, Dual} :
          LET price == LiquidPrice(p.side, b.mid.C)
              exits == dualExitPending \/ slow
          IN /\ dualExitPending' = exits
             /\ pending' = pending
             /\ IF HoldDue(p) /\ ClosesAt(p, price)
                THEN /\ Close(p, price)
                     /\ events' = Append(events, ExitEvent(p, price, "time"))
                     /\ UNCHANGED coverage
                ELSE /\ position' = p
                     /\ coverage' = IF HoldDue(p) THEN "unresolved" ELSE coverage
                     /\ slowExitCommitT' = IF exits /\ slowExitCommitT = None
                                           THEN b.commit ELSE slowExitCommitT
                     /\ UNCHANGED << balance, events >>
    BY <1>6, Zenon DEF BarHeld
  <2> DEFINE price == LiquidPrice(p.side, b.mid.C)
  <2>2. position # None
    BY <1>6 DEF BarHeld
  <2>3. p \in PositionType /\ p # None
    BY <1>1, <2>2, TightenedTyped, NoneAssumption DEF BookTypes, HeldTypes
  <2>4. CASE position' = p /\ UNCHANGED << balance, events >>
    BY <1>2, <2>2, <2>3, <2>4
  <2>5. CASE Close(p, price) /\ events' = Append(events, ExitEvent(p, price, "time"))
    <3>1. b.mid.C \in Nat /\ p.side \in Sides /\ "time" \in Reasons
      BY <2>3, PaperAssumption DEF BarRecord, PositionType, Reasons
    <3>2. price \in Int
      BY <3>1, PriceTyped
    <3> HIDE DEF price
    <3>3. balance' = NetOver(events') /\ events' \in Seq(EventType)
      BY <2>2, <2>3, <2>5, <3>1, <3>2, ExitReconciles
    <3>4. position' = None /\ Owed(position') = 0
      BY <2>5 DEF Close, Owed
    <3>5. NetOver(events') \in Int
      <4>1. Event("noFill", 0, "", 0, 0) \in EventType
        BY PlainEventTyped
      <4> QED BY <3>3, <4>1, NetOfOneMore
    <3> QED BY <3>3, <3>4, <3>5, AccountAfter
  <2> QED BY <2>1, <2>4, <2>5, Zenon
<1> QED BY <1>3, <1>4, <1>5, <1>6 DEF OnBar

LEMMA FillReconciles ==
  ASSUME TypeOK, Clocks, AccountReconciles, pending # None, NEW q, QuoteRecord(q), Fill(q)
  PROVE  AccountReconciles'
<1>1. CASE \E why : NoFill(why)
  BY <1>1, NoFillReconciles
<1>2. CASE /\ position' \in PositionType /\ balance' = balance - Lots * EntryFee
           /\ events' = Append(events, Event("entry", pending.index, "filled", 1, 0))
  <2>1. position = None /\ pending.index \in Nat /\ events \in Seq(EventType) /\ "filled" \in Reasons /\ 1 \in Nat
    BY DEF Clocks, Waiting, TypeOK, DecisionType, Reasons
  <2>2. NetOver(events') = NetOver(events)
    BY <1>2, <2>1, AddsNothing
  <2>3. balance = NetOver(events) - 0 /\ balance \in Int
    BY <2>1, AccountOf DEF Owed, TypeOK
  <2>4. position' # None /\ Owed(position') = Lots * EntryFee
    BY <1>2, NoneAssumption DEF Owed
  <2>5. NetOver(events) \in Int
    <3>1. Event("noFill", 0, "", 0, 0) \in EventType
      BY PlainEventTyped
    <3> QED BY <2>1, <3>1, NetOfOneMore
  <2>6. balance = NetOver(events)
    BY <2>3, <2>5
  <2> QED BY <1>2, <2>2, <2>4, <2>6, AccountAfter
<1>3. \/ \E why : NoFill(why)
      \/ /\ position' \in PositionType
         /\ events' = Append(events, Event("entry", pending.index, "filled", 1, 0))
  BY TypeGroups, FillTyped
<1>4. (\E why : NoFill(why)) \/ balance' = balance - Lots * EntryFee
  BY Zenon DEF Fill
<1> QED BY <1>1, <1>2, <1>3, <1>4

LEMMA QuoteReconciles ==
  ASSUME TypeOK, Clocks, AccountReconciles, NEW q, QuoteRecord(q), OnQuote(q)
  PROVE  AccountReconciles'
<1>1. Original(q) => pending # None
  BY DEF OnQuote, Misdirected
<1>2. ASSUME UNCHANGED << position, balance, events >> PROVE AccountReconciles'
  BY <1>2, AccountOf, AccountAfter
<1>3. CASE OutsideEntries(q)
  BY <1>1, <1>3, NoFillReconciles DEF OnQuote, OutsideEntries
<1>4. CASE OriginalQuote(q)
  <2>1. Original(q) /\ (Fill(q) \/ \E why : NoFill(why))
    BY <1>4, Zenon DEF OriginalQuote
  <2> QED BY <1>1, <2>1, FillReconciles, NoFillReconciles
<1>5. CASE StreamQuote(q)
  <2>1. CASE UNCHANGED << coverage, pending, exitVars, bookVars >> \/ Unresolved
    BY <1>2, <2>1 DEF Unresolved, bookVars
  <2>2. ASSUME position # None, NEW why \in Reasons,
          Close(position, LiquidPrice(position.side, q.content.mid)),
          events' = Append(events, ExitEvent(position, LiquidPrice(position.side, q.content.mid), why))
        PROVE  AccountReconciles'
    <3> DEFINE price == LiquidPrice(position.side, q.content.mid)
    <3>1. position \in PositionType
      BY <2>2 DEF TypeOK
    <3>2. price \in Int
      <4>1. position.side \in Sides /\ q.content.mid \in Nat
        BY <3>1, PaperAssumption DEF PositionType, QuoteRecord
      <4> QED BY <4>1, PriceTyped
    <3>3. Close(position, price) /\ events' = Append(events, ExitEvent(position, price, why))
      BY <2>2
    <3> HIDE DEF price
    <3>4. balance' = NetOver(events') /\ events' \in Seq(EventType)
      BY <2>2, <3>1, <3>2, <3>3, ExitReconciles
    <3>5. position' = None /\ Owed(position') = 0
      BY <2>2 DEF Close, Owed
    <3>6. NetOver(events') \in Int
      <4>1. Event("noFill", 0, "", 0, 0) \in EventType
        BY PlainEventTyped
      <4> QED BY <3>4, <4>1, NetOfOneMore
    <3> QED BY <3>4, <3>5, <3>6, AccountAfter
  <2>3. "slow-ema" \in Reasons /\ "stop" \in Reasons /\ "target" \in Reasons
    BY DEF Reasons
  <2>4. CASE position # None /\ SlowExit(q)
    BY <2>1, <2>2, <2>3, <2>4, Zenon DEF SlowExit
  <2>5. CASE position # None /\ SampledExit(q)
    BY <2>1, <2>2, <2>3, <2>5, Zenon DEF SampledExit
  <2> QED BY <1>5, <2>1, <2>4, <2>5, Zenon DEF StreamQuote
<1> QED BY <1>3, <1>4, <1>5, Zenon DEF OnQuote

LEMMA AccountInit == Init => AccountReconciles
<1> SUFFICES ASSUME Init PROVE AccountReconciles
  OBVIOUS
<1>1. balance = 0 /\ position = None /\ events = << >>
  BY DEF Init
<1> QED BY <1>1, NetOfNothing, AccountOf DEF Owed

LEMMA AccountStep == TypeOK /\ Clocks /\ AccountReconciles /\ [Next]_vars => AccountReconciles'
<1> SUFFICES ASSUME TypeOK, Clocks, AccountReconciles, [Next]_vars PROVE AccountReconciles'
  OBVIOUS
<1>1. ASSUME UNCHANGED << position, balance, events >> PROVE AccountReconciles'
  BY <1>1, AccountOf, AccountAfter
<1>2. ASSUME NEW e, OnEpisode(e) PROVE AccountReconciles'
  BY <1>1, <1>2 DEF OnEpisode, bookVars
<1>3. ASSUME NEW s, OnSeal(s) PROVE AccountReconciles'
  BY <1>3, NoFillReconciles DEF OnSeal, SealHolds
<1>4. ASSUME NEW t, OnCoverageGap(t) PROVE AccountReconciles'
  BY <1>1, <1>4 DEF OnCoverageGap, bookVars
<1>5. ASSUME NEW c, OnClosure(c) PROVE AccountReconciles'
  BY <1>1, <1>5 DEF OnClosure, bookVars
<1>6. ASSUME NEW t, OnExperimentClock(t) PROVE AccountReconciles'
  BY <1>1, <1>6, NoFillReconciles DEF OnExperimentClock, bookVars
<1>7. CASE Next
  BY <1>2, <1>3, <1>4, <1>5, <1>6, <1>7, Records, BarReconciles, QuoteReconciles, Zenon
<1>8. CASE UNCHANGED vars
  BY <1>1, <1>8 DEF vars, bookVars
<1> QED BY <1>7, <1>8

(* bidAskRunner.fill and close on the collector: in every order of bars,   *)
(* quotes, seals and closures the balance is what the completed trades     *)
(* made, less the entry fee of the position still open.                    *)
THEOREM AccountAlwaysReconciles == Spec => []AccountReconciles
<1>1. Init => TypeOK /\ Clocks /\ AccountReconciles
  BY InitTyped, ClocksInit, AccountInit
<1>2. TypeOK /\ Clocks /\ AccountReconciles /\ [Next]_vars => (TypeOK /\ Clocks /\ AccountReconciles)'
  BY StepTyped, ClocksStep, AccountStep
<1> QED BY <1>1, <1>2, PTL DEF Spec
===============================================================================
