------------------------------ MODULE PaperBidAsk ------------------------------
(***************************************************************************)
(* The bid/ask paper runner (engine/paper_bidask_execution.go and          *)
(* paper_bidask_experiment.go): a fold over a recorded stream of completed *)
(* bars, quotes, episodes, seals, closures and coverage gaps.  A bar may   *)
(* raise one decision; an episode admits it; the one quote that answers    *)
(* the episode, or a seal, settles it; a filled decision is a position     *)
(* that sampled quotes resolve until the next grid boundary and completed  *)
(* bars resolve from then on.  What was not observed is never invented:    *)
(* the runner gives up its coverage instead, and does not get it back.     *)
(*                                                                         *)
(* The records are those validateBidAskRecords admits, in commit order,    *)
(* with every delay, reordering and duplication of provider times it       *)
(* permits.  A record that sets x.err ends the request with no result at   *)
(* all: what makes the runner refuse is a guard of the record's action.    *)
(* The family (opening range or dual EMA) is an oracle: it may signal,     *)
(* tighten or decide an exit at any bar.  Times are small integers, quotes *)
(* and bars are a mid price with a fixed Spread.                           *)
(***************************************************************************)
EXTENDS Integers, Sequences, FiniteSets, SequencesExt

CONSTANTS
  None,         \* no decision, no position, nothing known
  Requests,     \* the requests to start from, see RequestType
  Duration,     \* milliseconds of a bar, here the unit of the grid
  Horizon,      \* bound: the last commit time
  MaxStep,      \* bound: how far apart two records are committed
  MaxLag,       \* bound: how far a provider or request time is before commit
  MaxQuotes,    \* bound: provider times observed
  MaxQuoteAge,  \* Policy.MaxQuoteAgeMS
  MaxSignalAge, \* Policy.MaxSignalAgeMS
  Quotes,       \* what a quote may say: [mid, tradeable, deep]
  Candles,      \* the mid prices a bar may print: [O, H, L, C]
  Spread, Slip, \* half the spread; Economics.SlippageFixed
  Lots, EntryFee, ExitFee,
  StopDist, TargetDist,
  Levels        \* the stops that management may compute from a bar

Times == 0 .. Horizon
Sides == {1, -1}
Forever == Horizon + Duration

(* A request: the family, the first actionable time, MaxHoldBars (0 is     *)
(* none), the slot length of its family (0 is none), and for a dated       *)
(* experiment its entry horizon, its end and its calendar of closures.     *)
RequestType ==
  [ family : {"orb", "dual"}, activation : Times, maxHold : Nat, slot : Nat,
    dated : BOOLEAN, entryUntil : Nat, until : Nat,
    closures : SUBSET [from : Times, through : Times] ]

ASSUME PaperAssumption ==
  /\ Duration \in Nat \ {0} /\ Horizon \in Nat /\ MaxStep \in Nat /\ MaxLag \in Nat /\ MaxQuotes \in Nat
  /\ MaxQuoteAge \in Nat /\ MaxSignalAge \in Nat \ {0}
  /\ Spread \in Nat /\ Slip \in Nat /\ Lots \in Nat \ {0}
  /\ EntryFee \in Nat /\ ExitFee \in Nat
  /\ StopDist \in Nat \ {0} /\ TargetDist \in Nat \ {0} /\ Levels \subseteq Int
  /\ Quotes \subseteq [mid : Nat, tradeable : BOOLEAN, deep : BOOLEAN]
  /\ \A b \in Candles :
       /\ b \in [O : Nat, H : Nat, L : Nat, C : Nat]
       /\ b.L <= b.O /\ b.O <= b.H /\ b.L <= b.C /\ b.C <= b.H
  /\ Requests \subseteq RequestType
  /\ \A r \in Requests :
       /\ r.activation <= r.entryUntil
       /\ r.dated => r.family = "dual"
       /\ r.family = "dual" => r.maxHold = 0 /\ r.slot = 0
       /\ \A w \in r.closures :
            /\ r.activation <= w.from /\ w.from < w.through /\ w.through <= r.until /\ r.until <= Horizon
            /\ \A v \in r.closures : v.from < w.from => v.through <= w.from

VARIABLES
  request,       \* the request, fixed
  ended,         \* an experiment clock was the last record
  now,           \* the last record's commit time
  suppliedOpen,  \* the open of the last bar record, -1 before
  barIndex, lastBarOpen, lastBarClose, lastQuoteT,
  quoteIdentities, \* what was first quoted at each provider time
  coverage,
  pending,       \* the decision awaiting its outcome, or None
  position,      \* the open position with its protection, or None
  dualExitPending, slowExitCommitT, \* the dual-EMA exit and when it was decided
  balance,       \* the collector's balance less the starting equity
  events         \* the decisions and what became of them

clockVars == << request, suppliedOpen, barIndex, lastBarOpen, lastBarClose >>
quoteVars == << lastQuoteT, quoteIdentities >>
exitVars  == << dualExitPending, slowExitCommitT >>
bookVars  == << position, balance, events >>
vars == << clockVars, ended, now, quoteVars, coverage, pending, exitVars, bookVars >>

DecisionType ==
  [ index : Nat, side : Sides, sl : Int, tp : Int, noTarget : BOOLEAN,
    close : Times, commit : Times, slotEnd : Nat,
    admit : Times \cup {None}, deadline : Times \cup {None},
    episodeCommit : Times \cup {None} ]
PositionType ==
  [ index : Nat, side : Sides, entry : Int, sl : Int, tp : Int,
    noTarget : BOOLEAN, entryT : Times, fullFrom : Nat, slotEnd : Nat,
    version : Nat \ {0} ]
Reasons == {"", "filled", "window-close", "stop-gap", "stop", "target", "time", "slow-ema"}
EventType ==
  [ kind : {"decision", "entry", "noFill", "exit"}, index : Nat,
    reason : Reasons, version : Nat, net : Int ]

(* Nothing known is not a value that could be known.                       *)
ASSUME NoneAssumption ==
  /\ None \notin DecisionType /\ None \notin PositionType
  /\ None \notin Quotes /\ None \notin Times

(* The types of the runner's state; a position leaves its straddle at a    *)
(* grid boundary at or after its entry.                                    *)
TypeOK ==
  /\ request \in Requests
  /\ ended \in BOOLEAN
  /\ now \in Times
  /\ suppliedOpen \in Times \cup {-1} /\ barIndex \in Nat \cup {-1}
  /\ lastBarOpen \in Times \cup {-1} /\ lastBarClose \in Times \cup {-1}
  /\ lastQuoteT \in Times \cup {-1}
  /\ quoteIdentities \in [Times -> Quotes \cup {None}]
  /\ coverage \in {"sampled", "unresolved", "unhealthy", "complete"}
  /\ pending \in DecisionType \cup {None}
  /\ position \in PositionType \cup {None}
  /\ position # None =>
       /\ position.fullFrom % Duration = 0
       /\ position.fullFrom \in position.entryT .. position.entryT + Duration - 1
  /\ dualExitPending \in BOOLEAN
  /\ slowExitCommitT \in Times \cup {None}
  /\ balance \in Int
  /\ events \in Seq(EventType)

-----------------------------------------------------------------------------
(* The clocks of a request.                                                *)

Dual == request.family = "dual"
EntriesOpen(t) == request.dated => t < request.entryUntil /\ t < request.until

(* A signal whose bar closes inside a scheduled closure is executable from *)
(* the reopening; adjoining windows chain.                                 *)
Shut(t) == request.dated /\ \E w \in request.closures : w.from <= t /\ t < w.through
ExecutableFrom(close) ==
  CHOOSE t \in close .. Horizon : ~Shut(t) /\ \A u \in close .. t-1 : Shut(u)

(* The first grid boundary at or after an entry.                           *)
GridCeiling(t) == IF t % Duration = 0 THEN t ELSE t + Duration - (t % Duration)

Least(a, b) == IF a <= b THEN a ELSE b
EpisodeLimit(d) ==
  LET from == ExecutableFrom(d.close)
  IN Least(Least(from + MaxSignalAge, (from \div Duration + 1) * Duration), d.slotEnd)

-----------------------------------------------------------------------------
(* Prices.  The bid is mid - Spread and the ask mid + Spread: a side enters *)
(* at the tier against it and is liquidated at the other.                  *)

EntryPrice(side, mid)  == mid + side * Spread
LiquidPrice(side, mid) == mid - side * Spread
AdverseEntry(side, p)  == p + side * Slip
AdverseExit(side, p)   == p - side * Slip
Beyond(side, p, level) == side * (p - level) >= 0  \* p is at or past a target
Through(side, p, level) == side * (p - level) <= 0 \* p is at or past a stop

-----------------------------------------------------------------------------
(* Effects shared by the handlers.                                         *)

Event(kind, index, reason, version, net) ==
  [kind |-> kind, index |-> index, reason |-> reason, version |-> version, net |-> net]

Commit(t) == now' = t /\ ended' = ended

(* The pending decision ends without a position; which of the Outcomes is  *)
(* reported is wording that no later step reads, and is not recorded.      *)
Outcomes ==
  { "experiment-entry-horizon", "duplicate-original-observation",
    "out-of-order-original-observation", "coverage-unhealthy", "not-tradeable",
    "original-quote-expired", "source-slot-expired", "invalid-or-breached-protection",
    "invalid-stop-budget", "quantity", "insufficient-entry-liquidity",
    "experiment-ended", "recovery", "deadline", "signal-expired" }
NoFillKept(why) ==  \* mutant: the decision is not cleared
  /\ events' = Append(events, Event("noFill", pending.index, "", 0, 0))
  /\ UNCHANGED << pending, position, balance >>
NoFill(why) ==
  /\ why \in Outcomes
  /\ events' = Append(events, Event("noFill", pending.index, "", 0, 0))
  /\ pending' = None
  /\ UNCHANGED << position, balance >>

(* Coverage is given up; the position, if any, stays open and is no longer *)
(* marked or managed.                                                      *)
Unresolved == coverage' = "unresolved" /\ UNCHANGED << pending, exitVars, bookVars >>

(* What closing a position at fill credits to the balance, and what the    *)
(* completed trade made.                                                   *)
Credit(p, fill) == p.side * (fill - p.entry) * Lots - Lots * ExitFee
NetOfExit(p, fill) == Credit(p, fill)  \* mutant: the entry fee is forgotten
Net(p, fill)    == Credit(p, fill) - Lots * EntryFee

(* Slippage makes a price adverse; one that it takes to zero closes        *)
(* nothing and the exposure stays unresolved.                              *)
ClosesAt(p, price) == AdverseExit(p.side, price) > 0
ExitEvent(p, price, why) ==
  Event("exit", p.index, why, p.version, Net(p, AdverseExit(p.side, price)))
Close(p, price) ==
  /\ position' = None
  /\ balance' = balance + Credit(p, AdverseExit(p.side, price))
  /\ slowExitCommitT' = None

-----------------------------------------------------------------------------
(* bar                                                                     *)

Tightened(p, level) ==
  IF p.side * (level - p.sl) > 0 THEN [p EXCEPT !.sl = level, !.version = @ + 1] ELSE p

HoldDue(p) == request.maxHold # 0 /\ barIndex + 1 - p.index >= request.maxHold

(* What a completed bar of the full phase does to the position: the slot's *)
(* end and a gap at the open come before the extremes, the stop before the *)
(* target, all on the side that liquidates the position.                   *)
BarOutcome(p, b) ==
  LET o     == LiquidPrice(p.side, b.mid.O)
      worst == LiquidPrice(p.side, IF p.side = 1 THEN b.mid.L ELSE b.mid.H)
      best  == LiquidPrice(p.side, IF p.side = 1 THEN b.mid.H ELSE b.mid.L)
  IN IF b.open >= p.slotEnd THEN [why |-> "window-close", price |-> o]
     ELSE IF Through(p.side, o, p.sl) THEN [why |-> "stop-gap", price |-> o]
     ELSE IF Through(p.side, worst, p.sl) THEN [why |-> "stop", price |-> p.sl]
     ELSE IF ~p.noTarget /\ Beyond(p.side, best, p.tp)
          THEN [why |-> "target", price |-> p.tp]
     ELSE None

AdmissibleBar(b) ==
  /\ b.open > suppliedOpen /\ b.open + Duration <= b.commit
  /\ ~request.dated \/ \A w \in request.closures :
                         ~(w.from <= b.open /\ b.open + Duration <= w.through)

BarSeen(b) ==
  /\ suppliedOpen' = b.open /\ lastBarOpen' = b.open
  /\ lastBarClose' = b.open + Duration /\ barIndex' = barIndex + 1
  /\ Commit(b.commit)
  /\ UNCHANGED << request, quoteVars >>

Actionable(b) == b.open >= request.activation
Gap(b) == lastBarOpen >= 0 /\ b.open # lastBarOpen + Duration
GapMatters(b) == Gap(b) /\ (request.dated \/ position # None)
FullPhase(b) == b.open >= position.fullFrom
Covered(b) == Actionable(b) /\ ~GapMatters(b) /\ coverage = "sampled"

BarWarmup(b) ==
  /\ b.open < request.activation
  /\ BarSeen(b)
  /\ dualExitPending' = FALSE
  /\ UNCHANGED << coverage, pending, slowExitCommitT, bookVars >>

BarAfterGap(b) ==
  /\ Actionable(b) /\ GapMatters(b)
  /\ BarSeen(b)
  /\ coverage' = IF position = None THEN "unhealthy" ELSE "unresolved"
  /\ UNCHANGED << pending, exitVars, bookVars >>

BarUncovered(b) ==
  /\ Actionable(b) /\ ~GapMatters(b) /\ coverage # "sampled"
  /\ BarSeen(b)
  /\ UNCHANGED << coverage, pending, exitVars, bookVars >>

Decision(b, side) ==
  [ index |-> barIndex + 1, side |-> side, noTarget |-> Dual,
    sl |-> b.mid.C - side * StopDist, tp |-> b.mid.C + side * TargetDist,
    close |-> b.open + Duration, commit |-> b.commit,
    slotEnd |-> IF request.slot = 0 THEN Forever
                ELSE (b.open \div request.slot + 1) * request.slot,
    admit |-> None, deadline |-> None, episodeCommit |-> None ]

(* The family sees the bar while the runner is flat and may decide to      *)
(* enter; recorded is the event list the handler has already written.      *)
Decide(b, recorded) ==
  /\ dualExitPending' = FALSE
  /\ \/ pending' = None /\ events' = recorded
     \/ \E side \in Sides :
          /\ Dual => side = 1 /\ ~dualExitPending /\ position = None
                     /\ EntriesOpen(b.open + Duration)
          /\ pending' = Decision(b, side)
          /\ events' = Append(recorded, Event("decision", barIndex + 1, "", 0, 0))

BarFlat(b) ==
  /\ Covered(b) /\ position = None
  /\ BarSeen(b)
  /\ Decide(b, events)
  /\ UNCHANGED << coverage, position, balance, slowExitCommitT >>

(* A full bar before the decided slow-EMA exit was quoted.                 *)
BarMissedSlowExit(b) ==
  /\ Covered(b) /\ position # None /\ FullPhase(b) /\ dualExitPending
  /\ BarSeen(b) /\ Unresolved

(* A full bar resolves the position; the opening-range family may decide   *)
(* again on that bar, the dual EMA family does not.                        *)
BarExit(b) ==
  /\ Covered(b) /\ position # None /\ FullPhase(b) /\ ~dualExitPending
  /\ LET out == BarOutcome(position, b) IN
       /\ out # None
       /\ BarSeen(b)
       /\ IF ClosesAt(position, out.price)
          THEN /\ Close(position, out.price)
               /\ Decide(b, Append(events, ExitEvent(position, out.price, out.why)))
               /\ UNCHANGED coverage
          ELSE Unresolved

(* The position survives the bar: the family tightens the stop for later   *)
(* bars and may decide the slow-EMA exit, then the time limit applies.     *)
BarHeld(b) ==
  /\ Covered(b) /\ position # None
  /\ FullPhase(b) => ~dualExitPending /\ BarOutcome(position, b) = None
  /\ BarSeen(b)
  /\ \E p \in {position} \cup {Tightened(position, level) : level \in Levels},
        slow \in {FALSE, Dual} :
       LET price == LiquidPrice(p.side, b.mid.C)
           exits == dualExitPending \/ slow
       IN /\ dualExitPending' = exits
          /\ pending' = pending
          /\ IF HoldDue(p) /\ ClosesAt(p, price)
             THEN /\ Close(p, price)
                  /\ events' = Append(events, ExitEvent(p, price, "time"))
                  /\ UNCHANGED coverage
             ELSE /\ position' = p
                  /\ coverage' = IF HoldDue(p) THEN "unresolved" ELSE coverage
                  /\ slowExitCommitT' = IF exits /\ slowExitCommitT = None
                                        THEN b.commit ELSE slowExitCommitT
                  /\ UNCHANGED << balance, events >>

(* A bar that comes before the pending decision has its outcome is refused *)
(* (UNRESOLVED_EPISODE).                                                   *)
OnBar(b) ==
  /\ AdmissibleBar(b) /\ pending = None
  /\ \/ BarWarmup(b) \/ BarAfterGap(b) \/ BarUncovered(b)
     \/ BarFlat(b) \/ BarMissedSlowExit(b) \/ BarExit(b) \/ BarHeld(b)

-----------------------------------------------------------------------------
(* episode and seal                                                        *)

(* An episode that is not for the pending decision or that outlives its    *)
(* signal is refused (EPISODE_STATE, EPISODE_DEADLINE).                    *)
OnEpisode(e) ==
  /\ e.admit < e.deadline /\ e.admit <= e.commit /\ e.commit <= e.deadline
  /\ pending # None
  /\ pending.admit = None /\ pending.index = e.signal
  /\ e.admit >= ExecutableFrom(pending.close) /\ e.admit >= pending.commit
  /\ e.deadline <= EpisodeLimit(pending)
  /\ pending' = [pending EXCEPT !.admit = e.admit, !.deadline = e.deadline,
                                !.episodeCommit = e.commit]
  /\ Commit(e.commit)
  /\ UNCHANGED << clockVars, quoteVars, coverage, exitVars, bookVars >>

SealHolds(s) ==
  /\ pending # None
  /\ pending.index = s.signal
  /\ IF s.reason = "signal-expired"
     THEN /\ pending.admit = None
          /\ s.at >= ExecutableFrom(pending.close) + MaxSignalAge /\ s.at >= pending.commit
     ELSE /\ pending.admit # None
          /\ s.at >= pending.admit
          /\ s.reason = "deadline" => s.at >= pending.deadline

OnSeal(s) ==
  /\ s.at <= s.commit
  /\ s.reason = "signal-expired" => request.dated
  /\ SealHolds(s)
  /\ NoFill(s.reason) /\ Commit(s.commit)
  /\ UNCHANGED << clockVars, quoteVars, coverage, exitVars >>

-----------------------------------------------------------------------------
(* quote                                                                   *)

AdmissibleQuote(q) ==
  /\ q.at <= q.qualified /\ q.start <= q.qualified /\ q.qualified <= q.commit
  /\ q.content.tradeable => ~Shut(q.at)

Known(t) == quoteIdentities[t] # None
Observed == {t \in Times : Known(t)}
Original(q) == q.signal # None

Conflicts(q) == Known(q.at) /\ quoteIdentities[q.at] # q.content
Misdirected(q) ==
  Original(q) /\ (pending = None \/ pending.admit = None \/ pending.index # q.signal)
OutsideEntries(q) == Original(q) /\ ~(EntriesOpen(q.at) /\ EntriesOpen(q.commit))

(* A quote older than the newest one seen while the position's straddle    *)
(* was sampled cannot be put back in order.                                *)
LateInStraddle(q) ==
  position # None /\ position.entryT <= q.at /\ q.at < position.fullFrom

(* Why the original quote does not fill the decision, if it does not.      *)
ExpiredByAge(q) ==  \* mutant: only the end of the window is tested
  q.commit > pending.deadline \/ q.at >= ExecutableFrom(pending.close) + MaxSignalAge
Expired(q) ==
  LET from == ExecutableFrom(pending.close)
  IN \/ q.at < from \/ q.start < pending.admit \/ q.start < pending.episodeCommit
     \/ q.qualified - q.at > MaxQuoteAge
     \/ Dual /\ q.commit - q.at > MaxQuoteAge
     \/ q.commit > pending.deadline \/ q.at >= from + MaxSignalAge
RefusalCovered(q) ==  \* mutant: lost coverage does not refuse the fill
  IF ~q.content.tradeable THEN "not-tradeable"
  ELSE IF Expired(q) THEN "original-quote-expired"
  ELSE IF q.at >= pending.slotEnd THEN "source-slot-expired"
  ELSE "none"
Refusal(q) ==
  IF coverage # "sampled" THEN "coverage-unhealthy"
  ELSE IF ~q.content.tradeable THEN "not-tradeable"
  ELSE IF Expired(q) THEN "original-quote-expired"
  ELSE IF q.at >= pending.slotEnd THEN "source-slot-expired"
  ELSE "none"

Fill(q) ==
  LET d      == pending
      entry  == AdverseEntry(d.side, EntryPrice(d.side, q.content.mid))
      liquid == LiquidPrice(d.side, q.content.mid)
      stop   == IF Dual THEN entry - d.side * StopDist ELSE d.sl
      broken == \/ entry <= 0 \/ stop <= 0 \/ Through(d.side, entry, stop)
                \/ ~d.noTarget /\ (d.tp <= 0 \/ Beyond(d.side, entry, d.tp))
                \/ Through(d.side, liquid, stop)
  IN IF broken THEN NoFill("invalid-or-breached-protection")
     ELSE IF AdverseExit(d.side, stop) <= 0 THEN NoFill("invalid-stop-budget")
     ELSE \/ NoFill("quantity")     \* minimum, maximum or notional cap
          \/ ~q.content.deep /\ NoFill("insufficient-entry-liquidity")
          \/ /\ q.content.deep
             /\ position' =
                  [ index |-> d.index, side |-> d.side, entry |-> entry, sl |-> stop,
                    tp |-> d.tp, noTarget |-> d.noTarget, entryT |-> q.at,
                    fullFrom |-> GridCeiling(q.at), slotEnd |-> d.slotEnd, version |-> 1 ]
             /\ pending' = None
             /\ balance' = balance - Lots * EntryFee
             /\ events' = Append(events, Event("entry", d.index, "filled", 1, 0))

(* The one quote that answers the episode settles the decision.            *)
OriginalQuote(q) ==
  /\ Original(q)
  /\ UNCHANGED << coverage, exitVars >>
  /\ \/ Known(q.at) /\ NoFill("duplicate-original-observation")
     \/ ~Known(q.at) /\ q.at < lastQuoteT /\ NoFill("out-of-order-original-observation")
     \/ ~Known(q.at) /\ q.at >= lastQuoteT /\
          IF Refusal(q) = "none" THEN Fill(q) ELSE NoFill(Refusal(q))

Stale(q) == q.qualified - q.at > MaxQuoteAge
SlowExitDue(q) == dualExitPending /\ q.at >= lastBarClose

(* The decided slow-EMA exit takes the next observation requested after    *)
(* the decision, before any bracket is looked at.                          *)
SlowExit(q) ==
  IF q.start < slowExitCommitT THEN UNCHANGED << coverage, pending, exitVars, bookVars >>
  ELSE IF \/ ~q.content.tradeable \/ Stale(q) \/ q.commit - q.at > MaxQuoteAge
          \/ ~q.content.deep \/ ~ClosesAt(position, LiquidPrice(position.side, q.content.mid))
  THEN Unresolved
  ELSE LET price == LiquidPrice(position.side, q.content.mid) IN
       /\ Close(position, price)
       /\ events' = Append(events, ExitEvent(position, price, "slow-ema"))
       /\ UNCHANGED << coverage, pending, dualExitPending >>

(* Between the entry and the next grid boundary quotes are the authority.  *)
InStraddleThrough(q) ==  \* mutant: the grid boundary belongs to both authorities
  position.entryT < q.at /\ q.at <= position.fullFrom
InStraddle(q) == position.entryT < q.at /\ q.at < position.fullFrom
SampledExit(q) ==
  LET price == LiquidPrice(position.side, q.content.mid)
      stop  == Through(position.side, price, position.sl)
      hit   == stop \/ (~position.noTarget /\ Beyond(position.side, price, position.tp))
  IN IF ~hit /\ ~(q.at < lastBarClose \/ ~q.content.tradeable \/ Stale(q))
     THEN UNCHANGED << coverage, pending, exitVars, bookVars >>
     ELSE IF \/ q.at < lastBarClose \/ ~q.content.tradeable \/ Stale(q)
             \/ ~q.content.deep \/ ~ClosesAt(position, price)
     THEN Unresolved
     ELSE /\ Close(position, price)
          /\ events' = Append(events, ExitEvent(position, price, IF stop THEN "stop" ELSE "target"))
          /\ UNCHANGED << coverage, pending, dualExitPending >>

(* Any other quote.                                                        *)
StreamQuote(q) ==
  /\ ~Original(q)
  /\ IF Known(q.at) THEN UNCHANGED << coverage, pending, exitVars, bookVars >>
     ELSE IF q.at < lastQuoteT
     THEN IF LateInStraddle(q) THEN Unresolved
          ELSE UNCHANGED << coverage, pending, exitVars, bookVars >>
     ELSE IF position = None \/ coverage # "sampled"
     THEN UNCHANGED << coverage, pending, exitVars, bookVars >>
     ELSE IF SlowExitDue(q) THEN SlowExit(q)
     ELSE IF InStraddle(q) THEN SampledExit(q)
     ELSE UNCHANGED << coverage, pending, exitVars, bookVars >>

(* A quote that contradicts a recorded one, or answers no admitted         *)
(* decision, is refused (QUOTE_CONFLICT, EPISODE_STATE).                   *)
OnQuote(q) ==
  /\ AdmissibleQuote(q) /\ ~Conflicts(q) /\ ~Misdirected(q)
  /\ Commit(q.commit)
  /\ UNCHANGED clockVars
  /\ IF OutsideEntries(q)
     THEN NoFill("experiment-entry-horizon") /\ UNCHANGED << quoteVars, coverage, exitVars >>
     ELSE /\ Known(q.at) \/ Cardinality(Observed) < MaxQuotes
          /\ quoteIdentities' = [quoteIdentities EXCEPT ![q.at] = q.content]
          /\ lastQuoteT' = IF ~Known(q.at) /\ q.at >= lastQuoteT THEN q.at ELSE lastQuoteT
          /\ OriginalQuote(q) \/ StreamQuote(q)

-----------------------------------------------------------------------------
(* coverage-gap, market-closure, experiment-clock                          *)

OnCoverageGap(commit) ==
  /\ Commit(commit)
  /\ coverage' = IF position = None THEN "unhealthy" ELSE "unresolved"
  /\ UNCHANGED << clockVars, quoteVars, pending, exitVars, bookVars >>

AdmissibleClosure(c) ==
  /\ c.from % Duration = 0 /\ c.through % Duration = 0 /\ c.from < c.through
  /\ c.through <= c.commit
  /\ \E w \in request.closures : w.from <= c.from /\ c.through <= w.through

(* Fully closed grid intervals are skipped; they must follow the last bar. *)
OnClosure(c) ==
  /\ AdmissibleClosure(c)
  /\ pending # None => pending.admit = None
  /\ \/ lastBarClose = c.from
     \/ position = None /\ lastBarClose < request.activation /\ c.from = request.activation
  /\ coverage = "sampled"
  /\ lastBarOpen' = c.through - Duration /\ lastBarClose' = c.through
  /\ Commit(c.commit)
  /\ UNCHANGED << request, suppliedOpen, barIndex, quoteVars, coverage,
                  pending, exitVars, bookVars >>

(* The experiment ends: no record follows.                                 *)
OnExperimentClock(commit) ==
  /\ request.activation <= commit
  /\ now' = commit /\ ended' = TRUE
  /\ coverage' = IF position = None THEN "complete" ELSE "unresolved"
  /\ UNCHANGED << clockVars, quoteVars, exitVars >>
  /\ IF pending # None THEN NoFill("experiment-ended")
     ELSE UNCHANGED << pending, bookVars >>

-----------------------------------------------------------------------------
(* The record stream: commit times never decrease, a provider or request   *)
(* time (for a bar, its close) lies at most MaxLag before the commit, and  *)
(* an answer names one of the last two bars.  An experiment clock is the   *)
(* last record.                                                            *)

CommitTimes ==
  IF ended THEN {}
  ELSE {t \in now .. now + MaxStep : t <= Horizon /\ (request.dated => t <= request.until)}
Recent(t) == {u \in Times : t - MaxLag <= u /\ u <= t}
GridTimes == {u \in Times : u % Duration = 0}
Signals == {k \in {barIndex - 1, barIndex} : k >= 0}

Init ==
  /\ request \in Requests
  /\ ended = FALSE /\ now = 0
  /\ suppliedOpen = -1 /\ barIndex = -1
  /\ lastBarOpen = -1 /\ lastBarClose = -1 /\ lastQuoteT = -1
  /\ quoteIdentities = [t \in Times |-> None]
  /\ coverage = "sampled" /\ pending = None /\ position = None
  /\ dualExitPending = FALSE /\ slowExitCommitT = None
  /\ balance = 0 /\ events = << >>

Bar ==
  /\ pending = None
  /\ \E t \in CommitTimes, mid \in Candles :
     \E close \in {u \in Recent(t) : u >= Duration /\ u % Duration = 0} :
       OnBar([open |-> close - Duration, commit |-> t, mid |-> mid])

StreamedQuote ==
  \E t \in CommitTimes, c \in Quotes : \E at, start, qualified \in Recent(t) :
    OnQuote([at |-> at, start |-> start, qualified |-> qualified, commit |-> t,
             content |-> c, signal |-> None])
AnsweringQuote ==
  /\ pending # None /\ pending.admit # None
  /\ \E t \in CommitTimes, c \in Quotes, k \in Signals :
     \E at, start, qualified \in Recent(t) :
       OnQuote([at |-> at, start |-> start, qualified |-> qualified, commit |-> t,
                content |-> c, signal |-> k])

Episode ==
  /\ pending # None
  /\ \E t \in CommitTimes, k \in Signals :
     \E admit \in Recent(t), deadline \in t .. Horizon :
       OnEpisode([signal |-> k, admit |-> admit, deadline |-> deadline, commit |-> t])

Seal ==
  /\ pending # None
  /\ \E t \in CommitTimes, k \in Signals, why \in {"recovery", "deadline", "signal-expired"} :
     \E at \in Recent(t) :
       OnSeal([signal |-> k, reason |-> why, at |-> at, commit |-> t])

CoverageGap == \E t \in CommitTimes : OnCoverageGap(t)
Closure ==
  /\ request.dated
  /\ \E t \in CommitTimes : \E from, through \in GridTimes :
       OnClosure([from |-> from, through |-> through, commit |-> t])
ExperimentClock ==
  request.dated /\ ~ended /\ \E t \in now .. Horizon : OnExperimentClock(t)

Next ==
  \/ Bar \/ StreamedQuote \/ AnsweringQuote \/ Episode \/ Seal
  \/ CoverageGap \/ Closure \/ ExperimentClock

Spec == Init /\ [][Next]_vars

-----------------------------------------------------------------------------
(* Properties.                                                             *)

Of(kind, k) == {n \in DOMAIN events : events[n].kind = kind /\ events[n].index = k}

(* Every decision has exactly one outcome, or is the pending one: a filled *)
(* decision is open or exited once, and no quote, seal, bar or clock that  *)
(* comes late settles it again.                                            *)
DecisionAccounted ==
  \A k \in 0 .. barIndex :
    LET settled == Cardinality(Of("entry", k)) + Cardinality(Of("noFill", k))
        open == position # None /\ position.index = k
        waiting == pending # None /\ pending.index = k
    IN /\ Cardinality(Of("decision", k)) = settled + IF waiting THEN 1 ELSE 0
       /\ settled <= 1
       /\ Cardinality(Of("entry", k)) = Cardinality(Of("exit", k)) + IF open THEN 1 ELSE 0
       /\ ~(open /\ pending # None)

(* Once coverage is given up it is never regained, and nothing is entered, *)
(* exited, re-protected or booked from what could not be observed.         *)
CoverageIsFinal ==
  [][coverage # "sampled" =>
       /\ coverage' # "sampled"
       /\ UNCHANGED << position, balance >>
       /\ Len(events') > Len(events) => events'[Len(events')].kind = "noFill"]_vars

(* An entry is made at an observation that no processed bar and no earlier *)
(* observation lies beyond, and while its decision is the last bar's.      *)
NoLookAhead ==
  [][position = None /\ position' # None =>
       /\ position'.entryT >= lastBarClose
       /\ \A t \in Observed : t < position'.entryT
       /\ position'.index = barIndex /\ now' <= pending.deadline]_vars

Closes == position # None /\ position' = None
ByBar == barIndex' # barIndex

(* Every exit has one authority.  A decided slow-EMA exit is the only way  *)
(* out; otherwise a quote resolves only the straddle, a bar's protection   *)
(* only full intervals that follow on one another without a hole, and      *)
(* always at the protection in force before that bar.                      *)
OneAuthority ==
  [][Closes =>
       LET n == CHOOSE n \in DOMAIN events' : n > Len(events) /\ events'[n].kind = "exit"
           exit == events'[n]
       IN /\ dualExitPending <=> exit.reason = "slow-ema"
          /\ ~ByBar /\ exit.reason # "slow-ema" =>
               /\ lastQuoteT' > position.entryT /\ lastQuoteT' < position.fullFrom
               /\ lastQuoteT' >= lastBarClose
          /\ ByBar /\ exit.reason # "time" =>
               /\ lastBarOpen' >= position.fullFrom
               /\ lastBarOpen' = lastBarClose
               /\ exit.version = position.version]_vars

(* The balance is what the completed trades made, less the entry fee of    *)
(* the open position.                                                      *)
NetOver(s) == LET sum[n \in 0 .. Len(s)] == IF n = 0 THEN 0 ELSE sum[n - 1] + s[n].net IN sum[Len(s)]
TotalNet == NetOver(events)
AccountReconciles ==
  balance = TotalNet - IF position = None THEN 0 ELSE Lots * EntryFee
=============================================================================
