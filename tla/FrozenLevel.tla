---------------------------- MODULE FrozenLevel ----------------------------
(***************************************************************************)
(* One frozen price level and the position it may open.                    *)
(*                                                                         *)
(* LevelLifecycle (engine/frozenlevels) watches quotes for one fresh       *)
(* inside-to-outside crossing of a level and asks for at most one          *)
(* successful admission.  frozencontrol.replay then opens the same         *)
(* position for three managers (no lock, prior-open scale lock, frozen     *)
(* pivot lock); a LockTracker of each mode decides, quote by quote, when   *)
(* that position's exit is due, and a ledger books its cash.               *)
(*                                                                         *)
(* Prices and times are small integers.  A quote's key is the pair         *)
(* (at, seq), ordered lexicographically.                                   *)
(***************************************************************************)
EXTENDS Integers, Sequences, FiniteSets

CONSTANTS Sides,        \* directions a level may have: a subset of {1, -1}
          Price,        \* the level's price
          Offsets,      \* bids a quote may have, as directed distances to it
          QuoteSpread,  \* ask - bid
          Grid,         \* price grid
          Lags,         \* availableAt - at of a quote ({0} behind frozeninput)
          LastTime,     \* bound: quotes have at \in 1..LastTime
          LastSeq,      \* bound: quotes have seq \in 0..LastSeq
          Expires,      \* LevelSpec.ExpiresAtMillis
          MaxPredecessorAge, MaxObservationAge, SubmissionLatency,
          Busy,         \* answers of the caller's one-position guard
          Stops,        \* structural stops, as directed distances to the level
          ScaleDistance,\* distance of the prior-open scale location
          LadderPivots, \* the frozen ladder, as directed distances
          ActivationR, AmendLatency, Fee

ASSUME FrozenAssumption ==
  /\ Sides \subseteq {1, -1} /\ Price \in Nat
  /\ Offsets \cup Stops \cup LadderPivots \subseteq Int
  /\ {Grid, QuoteSpread, ActivationR, ScaleDistance} \subseteq Nat \ {0}
  /\ {SubmissionLatency, AmendLatency, Fee, LastTime, LastSeq, Expires}
       \subseteq Nat
  /\ {MaxPredecessorAge, MaxObservationAge} \subseteq Nat \ {0}
  /\ Lags \subseteq Nat /\ Busy \subseteq BOOLEAN

VARIABLES stage,   \* replay: "watch", "held", or the way it ended
          side, level, ctx, entry, last, mgr

levelVars == <<stage, side, level, ctx, entry, last, mgr>>

Modes == {"none", "scale", "pivot"}

NoQuote == [at |-> -1, seq |-> 0, avail |-> -1, bid |-> 0]

After(k, j) == k.at > j.at \/ (k.at = j.at /\ k.seq > j.seq)

(* The created level; context and creation share the key (0, 0).           *)
Created == [at |-> 0, seq |-> 0, avail |-> 0, bid |-> 0]

Quotes == [at : 0..LastTime, seq : 0..LastSeq, lag : Lags, off : Offsets]

(* One representative of the quotes that fail validation on their own.     *)
Malformed == {CHOOSE x \in Quotes : TRUE}

QuoteOf(x) == [at |-> x.at, seq |-> x.seq, avail |-> x.at + x.lag,
               bid |-> Price + side * x.off]

Directed(a, b) == side * (a - b)

Inside(q) == Directed(q.bid, Price) < 0

Liquidation(q) == IF side = 1 THEN q.bid ELSE q.bid + QuoteSpread

EntryFill(q) == IF side = 1 THEN q.bid + QuoteSpread ELSE q.bid

(* price.snap: towards zero, or up for a short.                            *)
Snap(p) == LET down == (p \div Grid) * Grid
           IN  IF side = -1 /\ down # p THEN down + Grid ELSE down

------------------------------------------------------------------------------
(* LevelLifecycle.                                                         *)

NewLevel == [state |-> "active", armed |-> FALSE, prev |-> NoQuote,
             signal |-> NoQuote, ready |-> NoQuote, notBefore |-> 0]

LevelTerminal(l) == l.state \in {"expired", "invalidated", "consumed"}

Invalid(l) == [l EXCEPT !.state = "invalidated"]

(* validateQuote and Observe's refusals, in the code's order: any of them  *)
(* invalidates the level.                                                  *)
Refused(l, q, good, continuous) ==
  \/ ~good
  \/ q.avail - q.at > MaxObservationAge
  \/ ~After(q, Created) \/ q.avail < Created.avail
  \/ l.prev # NoQuote /\ (~After(q, l.prev) \/ q.avail < l.prev.avail)
  \/ ~continuous
  \/ l.state = "ready"

(* observePending: the first quote whose EVENT is at or after the time     *)
(* submission begins decides.                                              *)
ObservePendingByReceipt(l, q, busy) ==  \* mutant: the receipt is compared
  IF ~After(q, l.signal) THEN Invalid(l)
  ELSE IF q.avail < l.notBefore THEN l
  ELSE [l EXCEPT !.state = "ready", !.ready = q]

ObservePending(l, q, busy) ==
  IF ~After(q, l.signal) THEN Invalid(l)
  ELSE IF q.at < l.notBefore THEN l
  ELSE IF busy
       THEN [l EXCEPT !.state = "active", !.signal = NoQuote, !.armed = Inside(q)]
       ELSE [l EXCEPT !.state = "ready", !.ready = q]

(* A crossing that the busy guard does not skip is submitted, unless the   *)
(* submission could only begin at or after the expiry.                     *)
Cross(l, q, busy) ==
  IF busy THEN l
  ELSE IF SubmissionLatency >= Expires - q.avail
       THEN [l EXCEPT !.state = "expired"]
       ELSE [l EXCEPT !.state = "pending", !.signal = q,
                      !.notBefore = q.avail + SubmissionLatency]

(* A stale predecessor resets the comparison; it never makes a crossing.   *)
CrossesLevel(l, q) ==
  /\ l.prev # NoQuote
  /\ q.at - l.prev.at <= MaxPredecessorAge
  /\ ~Inside(q)
  /\ l.armed /\ Inside(l.prev)

ObserveActive(l, q, busy) ==
  IF CrossesLevel(l, q)
  THEN Cross([l EXCEPT !.prev = q, !.armed = FALSE], q, busy)
  ELSE [l EXCEPT !.prev = q, !.armed = Inside(q)]

Observe(l, q, good, continuous, busy) ==
  IF Refused(l, q, good, continuous) THEN Invalid(l)
  ELSE IF q.at >= Expires \/ q.avail >= Expires
       THEN [l EXCEPT !.state = "expired"]
  ELSE IF l.state = "pending"
       THEN ObservePending([l EXCEPT !.prev = q], q, busy)
       ELSE ObserveActive(l, q, busy)

ResolveAdmission(l, outcome) ==
  LET closed == [l EXCEPT !.ready = NoQuote, !.signal = NoQuote]
  IN  CASE outcome = "consumed" -> [closed EXCEPT !.state = "consumed"]
        [] outcome = "rejected" -> Invalid(closed)
        [] outcome = "busy"     -> [closed EXCEPT !.state = "active",
                                                  !.armed = Inside(l.ready)]

------------------------------------------------------------------------------
(* LockTracker and the position ledger, one of each per mode.              *)

Target == 3 * entry - 2 * ctx.stop

(* NewLockTracker: the geometry all three modes require of the seed.       *)
SeedFits(q, e) ==
  LET risk == Directed(e, ctx.stop)
  IN  /\ risk > 0
      /\ Directed(Liquidation(q), ctx.stop) >= Grid
      /\ Directed(Liquidation(q), e + 2 * side * risk) < 0

ScaleStop(e) == Snap(e + side * ScaleDistance)

NewManager(e) ==
  [stop |-> ctx.stop, proposed |-> 0, requested |-> NoQuote, attempted |-> FALSE,
   log |-> <<>>, status |-> "open", exit |-> 0, cash |-> -Fee]

Terminal(m) == m.status # "open"

Admissible(m, stop, liq) ==
  /\ stop > 0
  /\ Directed(stop, entry) > 0
  /\ Directed(stop, m.stop) > 0
  /\ Directed(liq, stop) >= Grid

(* The pivot nearest the market whose snapped stop is admissible; 0: none. *)
BestPivot(m, liq) ==
  LET stops == {Snap(Price + side * p) : p \in
                  {x \in LadderPivots : /\ Directed(Price + side * x, entry) > 0
                                  /\ Directed(liq, Price + side * x) >= Grid}}
      fit   == {s \in stops : Admissible(m, s, liq)}
  IN  IF fit = {} THEN 0
      ELSE CHOOSE s \in fit : \A t \in fit : Directed(s, t) >= 0

(* positionLedger.close, per unit of quantity.                             *)
Close(m, price) ==
  [m EXCEPT !.status = "closed", !.exit = price,
            !.cash = @ + Directed(price, entry) - Fee]

(* Barriers of the stop in force come before anything else: an amendment   *)
(* still pending is canceled.  A target fills at the target, a stop at the *)
(* quote.                                                                  *)
ExitDue(m, q) ==
  LET liq    == Liquidation(q)
      stops  == Directed(liq, m.stop) <= 0
      closed == Close(m, IF stops THEN liq ELSE Target)
      gone   == IF m.requested = NoQuote THEN <<>> ELSE <<"canceled">>
  IN  [closed EXCEPT !.requested = NoQuote,
                     !.log = @ \o gone \o
                             <<IF stops THEN "stop" ELSE "target">>]

BarrierReached(m, q) ==
  \/ Directed(Liquidation(q), m.stop) <= 0
  \/ Directed(Liquidation(q), Target) >= 0

(* A request is answered by the first quote available after the latency;   *)
(* the proposal is tested again against that quote.                        *)
AnswerUntested(m, q) ==  \* mutant: the proposal is not tested again
  IF q.avail - m.requested.avail < AmendLatency THEN m
  ELSE [m EXCEPT !.stop = m.proposed, !.requested = NoQuote,
                 !.log = Append(@, "accepted")]

Answer(m, q) ==
  IF q.avail - m.requested.avail < AmendLatency THEN m
  ELSE IF Admissible(m, m.proposed, Liquidation(q))
       THEN [m EXCEPT !.stop = m.proposed, !.requested = NoQuote,
                      !.log = Append(@, "accepted")]
       ELSE [m EXCEPT !.requested = NoQuote, !.log = Append(@, "rejected")]

Activate(mode, m, q) ==
  LET liq  == Liquidation(q)
      prop == IF mode = "scale" THEN ScaleStop(entry) ELSE BestPivot(m, liq)
      act  == [m EXCEPT !.attempted = TRUE, !.proposed = prop,
                        !.log = Append(@, "activated")]
  IN  IF Admissible(m, prop, liq)
      THEN [act EXCEPT !.requested = q, !.log = Append(@, "submitted")]
      ELSE [act EXCEPT !.log = Append(@, "rejected")]

ActivationReached(mode, m, q) ==
  /\ ~m.attempted /\ mode # "none"
  /\ Directed(Liquidation(q), entry) >= ActivationR * Directed(entry, ctx.stop)

TrackerObserveAnswerFirst(mode, m, q, continuous) ==  \* mutant: order swapped
  IF Terminal(m) THEN m
  ELSE IF ~continuous THEN [m EXCEPT !.status = "unresolved"]
  ELSE IF m.requested # NoQuote THEN Answer(m, q)
  ELSE IF BarrierReached(m, q) THEN ExitDue(m, q)
  ELSE IF ActivationReached(mode, m, q) THEN Activate(mode, m, q)
  ELSE m

TrackerObserve(mode, m, q, continuous) ==
  IF Terminal(m) THEN m
  ELSE IF ~continuous THEN [m EXCEPT !.status = "unresolved"]
  ELSE IF BarrierReached(m, q) THEN ExitDue(m, q)
  ELSE IF m.requested # NoQuote THEN Answer(m, q)
  ELSE IF ActivationReached(mode, m, q) THEN Activate(mode, m, q)
  ELSE m

------------------------------------------------------------------------------
(* The coordinator: frozencontrol.replay.                                  *)

NoContext == [ok |-> FALSE, stop |-> 0, opening |-> FALSE, frozenAt |-> -1]

LevelInit ==
  /\ side \in Sides
  /\ stage = "watch" /\ level = NewLevel /\ last = Created
  /\ ctx = NoContext /\ entry = 0
  /\ mgr = [m \in Modes |-> [NewManager(0) EXCEPT !.cash = 0]]

(* signalContexts at a crossing: the contexts of the completed windows may *)
(* be missing or unbound (ok), the prior opening may be (opening); a       *)
(* context that exists was frozen at the crossing's time.                  *)
SignalContext(q, crossed) ==
  IF ~crossed THEN ctx' = ctx
  ELSE \E ok, opening \in BOOLEAN, s \in Stops :
         ctx' = [ok |-> ok, stop |-> Price + side * s, opening |-> opening,
                 frozenAt |-> q.at]

(* Why a ready admission is turned into a rejection.                       *)
EntryRefused(q) ==
  \/ ~ctx.ok
  \/ Directed(EntryFill(q), ctx.stop) <= 0
  \/ 3 * EntryFill(q) - 2 * ctx.stop <= 0
  \/ ~ctx.opening
  \/ ctx.frozenAt >= q.at

(* A quote before the entry.  An unproved transition, a refused quote or a *)
(* level that ends without an admission makes replay return an error.      *)
Watch(x, good, continuous, busy) ==
  LET q       == QuoteOf(x)
      l       == Observe(level, q, good, continuous, busy)
      taken   == ~Refused(level, q, good, continuous)
      crossed == taken /\ level.state = "active" /\ CrossesLevel(level, q)
  IN  /\ stage = "watch"
      /\ level' = l
      /\ SignalContext(q, crossed /\ ~LevelTerminal(l))
      /\ last' = IF taken THEN q ELSE last
      /\ stage' = IF LevelTerminal(l) THEN "error" ELSE "watch"
      /\ UNCHANGED <<side, entry, mgr>>

(* The caller's one-position guard turns up at resolution: the level stays *)
(* usable but needs a new crossing.                                        *)
ResolveBusy ==
  /\ stage = "watch" /\ level.state = "ready" /\ TRUE \in Busy
  /\ level' = ResolveAdmission(level, "busy")
  /\ UNCHANGED <<stage, side, ctx, entry, last, mgr>>

Reject ==
  /\ stage = "watch" /\ level.state = "ready"
  /\ EntryRefused(level.ready)
  /\ level' = ResolveAdmission(level, "rejected")
  /\ stage' = "rejected"
  /\ UNCHANGED <<side, ctx, entry, last, mgr>>

(* All three managers are built before the entry is committed: one that    *)
(* refuses the seed leaves none of them with a position.                   *)
EnterHeld ==
  LET q == level.ready
      e == EntryFill(q)
  IN  /\ stage = "watch" /\ level.state = "ready"
      /\ ~EntryRefused(q)
      /\ IF SeedFits(q, e) /\ Directed(ScaleStop(e), e) > 0
         THEN /\ level' = ResolveAdmission(level, "consumed")
              /\ entry' = e
              /\ mgr' = [m \in Modes |-> NewManager(e)]
              /\ stage' = "held"
         ELSE stage' = "error" /\ UNCHANGED <<level, entry, mgr>>
      /\ UNCHANGED <<side, ctx, last>>

(* A quote after the entry goes to every manager that is not terminal.     *)
Hold(x, good, continuous) ==
  LET q == QuoteOf(x)
      open == {m \in Modes : ~Terminal(mgr[m])}
  IN  /\ stage = "held" /\ open # {}
      /\ IF good /\ After(q, last) /\ q.avail >= last.avail
         THEN /\ mgr' = [m \in Modes |->
                           TrackerObserve(m, mgr[m], q, continuous)]
              /\ last' = q /\ stage' = stage
         ELSE stage' = "error" /\ UNCHANGED <<mgr, last>>
      /\ UNCHANGED <<side, level, ctx, entry>>

(* The evaluation window ends: a position still open is unresolved.        *)
EndOfInput ==
  /\ stage = "held"
  /\ mgr' = [m \in Modes |-> IF Terminal(mgr[m]) THEN mgr[m]
                             ELSE [mgr[m] EXCEPT !.status = "unresolved"]]
  /\ stage' = IF \A m \in Modes : mgr'[m].status = "closed"
              THEN "closed" ELSE "unresolved"
  /\ UNCHANGED <<side, level, ctx, entry, last>>

LevelNext ==
  \/ \E x \in Quotes, continuous \in BOOLEAN :
       \/ \E busy \in Busy : Watch(x, TRUE, continuous, busy)
       \/ Hold(x, TRUE, continuous)
  \/ \E x \in Malformed : Watch(x, FALSE, TRUE, FALSE) \/ Hold(x, FALSE, TRUE)
  \/ ResolveBusy \/ Reject \/ EnterHeld \/ EndOfInput

LevelSpec == LevelInit /\ [][LevelNext]_levelVars

------------------------------------------------------------------------------
(* Properties.                                                             *)

(* An admission is executable only on a quote whose source event is after  *)
(* the signal's and at or after the time the submission could begin, and   *)
(* before the level expires: a late-arriving older quote never fills it.   *)
ExecutableAfterSubmission ==
  level.state = "ready" =>
    /\ After(level.ready, level.signal)
    /\ level.ready.at >= level.signal.avail + SubmissionLatency
    /\ level.ready.avail < Expires

(* After every quote an open position lies strictly between its stop and   *)
(* its target: no amendment is accepted that is already breached, and no   *)
(* barrier the quote reached is left unexecuted.                           *)
HeldInsideBarriers ==
  stage = "held" => \A m \in Modes : ~Terminal(mgr[m]) =>
    /\ Directed(Liquidation(last), mgr[m].stop) > 0
    /\ Directed(Liquidation(last), Target) < 0

(* A lock never holds a position longer than the control without a lock:   *)
(* when the control is terminal every manager is, and one that closed with *)
(* the control's stop still in force closed at the control's price.        *)
LocksExitFirst ==
  stage \in {"held", "closed", "unresolved"} /\ Terminal(mgr["none"]) =>
    \A m \in Modes : /\ Terminal(mgr[m])
                     /\ mgr[m].stop = ctx.stop =>
                          mgr[m].exit = mgr["none"].exit
==============================================================================
