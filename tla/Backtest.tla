------------------------------- MODULE Backtest -------------------------------
(***************************************************************************)
(* One call of the ordinary backtest: the request is decoded, admitted,    *)
(* run once by the broker under its two observers, accepted, projected and *)
(* answered.  A panic at any step is recovered and answered too.           *)
(***************************************************************************)
EXTENDS BacktestRequest, BacktestWitness

VARIABLES ask,  \* the request
          call  \* captured, config: what is known of it; plan; runs: how often
                \* the broker was run; step: the code's stage; answer;
                \* contexts, made: the variants of a grid

vars == <<ask, call, run, w, at, stage>>

NoAnswer == [none |-> TRUE]

Called == [captured |-> FALSE, config |-> FALSE, plan |-> "none", runs |-> 0, step |-> "transport",
           answer |-> NoAnswer, contexts |-> <<>>, made |-> <<>>]

Answered == stage = "answered"

Answer(fault, known) ==
  /\ call' = [known EXCEPT !.answer = Failure(ask.operation, known.captured, known.config, fault)]
  /\ stage' = "answered"
  /\ UNCHANGED <<ask, run, w, at>>

(* The capture is retained only with a complete producer.                  *)
Decode ==
  /\ stage = "asked"
  /\ \/ \E code \in DecodeCodes(ask) : Answer(Fault("transport", code), call)
     \/ /\ DecodeCodes(ask) = {} /\ ~ask.producer
        /\ Answer(Fault("transport", "INTERNAL"), call)
     \/ /\ DecodeCodes(ask) = {} /\ ask.producer
        /\ call' = [call EXCEPT !.captured = TRUE, !.step = "parse"]
        /\ stage' = "decoded"
        /\ UNCHANGED <<ask, run, w, at>>

(* Mutant: the stage stays the parse's until the run begins.               *)
KnownInParse(plan, parsed) == [call EXCEPT !.config = parsed, !.plan = plan, !.step = "parse"]

(* The digest of the configuration is kept with every refusal after it.    *)
Known(plan, parsed) ==
  [call EXCEPT !.config = parsed, !.plan = plan, !.step = IF parsed THEN "admission" ELSE "parse"]

Prepare ==
  /\ stage = "decoded"
  /\ \E p \in {PrepareOrdinaryBacktest(ask)} :
       IF p.refused
       THEN Answer(p.fault, Known(p.plan, p.fault.stage # "parse"))
       ELSE /\ call' = Known(p.plan, TRUE)
            /\ stage' = IF ask.operation = "run" THEN "prepared" ELSE "inspected"
            /\ UNCHANGED <<ask, run, w, at>>

(* A run needs the whole admission; its broker is new and is run once.     *)
Begin ==
  /\ stage = "prepared"
  /\ IF call.plan # "admitted"
     THEN Answer(Fault("admission", "ACCOUNTING_UNAVAILABLE"), call)
     ELSE /\ call' = [call EXCEPT !.runs = @ + 1, !.step = "execution"]
          /\ w' = Attached /\ at' = 0 /\ stage' = "open"
          /\ UNCHANGED <<ask, run>>

RunBroker == BrokerRuns /\ UNCHANGED <<ask, call>>

Finish ==
  /\ stage = "ran"
  /\ IF FinancesAccepted(w) /\ WitnessAccepted(w)
     THEN /\ call' = [call EXCEPT !.step = "report"] /\ stage' = "finished"
          /\ UNCHANGED <<ask, run, w, at>>
     ELSE Answer(Fault("execution", "INTERNAL"), call)

(* An answer too large or not finite is refused as a whole.                *)
Reply(document) ==
  IF ask.output # "" THEN Answer(Fault("report", ask.output), call)
  ELSE /\ call' = [call EXCEPT !.answer = document]
       /\ stage' = "answered"
       /\ UNCHANGED <<ask, run, w, at>>

Inspected ==
  /\ stage = "inspected"
  /\ IF call.plan = IF ask.data = "none" THEN "not-evaluated" ELSE "admitted"
     THEN Reply([ok |-> TRUE, plan |-> call.plan])
     ELSE Answer(Fault("report", "INTERNAL"), call)

Publish ==
  /\ stage = "finished"
  /\ IF Projectable(Finances(w))
     THEN Reply([ok |-> TRUE, plan |-> call.plan, report |-> Projection(Finances(w))])
     ELSE Answer(Fault("report", "NONFINITE_OUTPUT"), call)

(* A panic is answered at the stage that the code had reached.             *)
Panic ==
  /\ stage \in {"asked", "decoded", "prepared", "inspected", "open", "ran", "finished"}
  /\ ask.panics
  /\ Answer(Fault(call.step, "INTERNAL"), call)

(* A grid groups its variants by the key of their context, prepares one    *)
(* context for a group and each variant on it.  One refusal, of a variant's *)
(* key or of a group's context, refuses the grid.                          *)
GroupOf(n) == SharedContextKey(ask.variants[n], ask.request)

FirstOf(n) == Min({m \in DOMAIN ask.variants : GroupOf(m) = GroupOf(n)})

ContextOf(n) == SharedRunContext(ask.variants[FirstOf(n)], ask.request)

PrepareGrid ==
  /\ stage = "grid"
  /\ stage' = "shared"
  /\ \/ /\ \E n \in DOMAIN ask.variants :
              KeyRefused(ask.variants[n], ask.request) \/ ContextOf(n) = Refused
        /\ UNCHANGED call
     \/ /\ \A n \in DOMAIN ask.variants :
              ~KeyRefused(ask.variants[n], ask.request) /\ ContextOf(n) # Refused
        /\ call' = [call EXCEPT !.contexts = [n \in DOMAIN ask.variants |-> ContextOf(n)]]
  /\ UNCHANGED <<ask, run, w, at>>

RunVariant ==
  /\ stage = "shared"
  /\ Len(call.made) < Len(call.contexts)
  /\ LET n == Len(call.made) + 1 IN
       call' = [call EXCEPT !.made = Append(@, PrepareVariant(call.contexts[n], ask.variants[n]))]
  /\ UNCHANGED <<ask, run, w, at, stage>>

(* One configuration given to the three entry points of the engine.        *)
EnterEngine ==
  /\ stage = "entry"
  /\ stage' = "entered"
  /\ call' = [call EXCEPT !.made =
                <<RunDirect(ask.cfg, ask.request), RunFixture(ask.cfg, ask.request),
                  Executes(PrepareRun(ask.cfg, ask.request), ask.request.fill)>>]
  /\ UNCHANGED <<ask, run, w, at>>

Stopped ==
  \/ Answered
  \/ stage = "entered"
  \/ (stage = "shared" /\ Len(call.made) = Len(call.contexts))

Next ==
  \/ Decode \/ Prepare \/ Begin \/ RunBroker \/ Finish \/ Inspected \/ Publish
  \/ Panic
  \/ PrepareGrid \/ RunVariant \/ EnterEngine
  \/ (Stopped /\ UNCHANGED vars)

------------------------------------------------------------------------------
(* What the capture refuses by design: an order of no size, and more       *)
(* events than a result may have.                                          *)
Refusable ==
  \/ w.failed = "limit"
  \/ \E n \in DOMAIN w.states : w.states[n].held /\ w.states[n].pos.size = 0

(* A run that nothing disturbed is published: the witness that the capture *)
(* kept is continuous, the finances recomputed from the events agree with  *)
(* the broker's rows, and the projection agrees with both, whatever the    *)
(* broker did.  Two observers that disagree about an order of hooks would  *)
(* refuse an honest run.                                                   *)
HonestRunPublished ==
  (Answered /\ call.runs = 1 /\ ~ask.panics /\ ask.output = "" /\ ~Refusable) => call.answer.ok

(* What is published is what the broker did: the curve is the account at   *)
(* the close of every bar, its end is flat and holds every fee and profit  *)
(* of the broker's rows, and each position counts once, with all its       *)
(* partial closes and both its fees.                                       *)
Opened == {n \in DOMAIN w.states : w.states[n].boundary = <<"after", "entry">>}

NextOpened(n) == Min({m \in Opened : m > n} \cup {Len(w.states)})

NetOf(n) == FoldSet(LAMBDA row, total : total + w.trades[row].pnl, -Fees(w, w.states[n].pos.size),
                    w.states[n].trades+1..w.states[NextOpened(n)].trades)

Closes(i) == CHOOSE n \in DOMAIN w.states : w.states[n].boundary = <<"close", "">> /\ w.states[n].i = i

ReportReconciles ==
  (Answered /\ call.answer.ok /\ call.runs = 1) =>
    LET r == call.answer.report IN
      /\ r.completedEnd = run.start + w.realized /\ r.markedEnd = r.completedEnd
      /\ r.net = w.realized
      /\ \A i \in 0..run.bars-2 :
           r.equity[i].equity = run.start + w.states[Closes(i)].realized + Unrealized(w.states[Closes(i)], i)
      /\ r.count = Cardinality(Opened)
      /\ r.wins = Cardinality({n \in Opened : NetOf(n) > 0})
      /\ r.losses = Cardinality({n \in Opened : NetOf(n) < 0})

(* An answer says how far the call came: a fault before the request was    *)
(* captured binds nothing, one after it binds the request, the digest of   *)
(* the configuration is named once it was parsed, and the execution is     *)
(* blamed only for what was executed.                                      *)
AnswerBound ==
  (Answered /\ ~call.answer.ok) =>
    LET a == call.answer IN
      /\ a.stage \in DOMAIN Codes /\ a.code \in Codes[a.stage]
      /\ a.bound = call.captured /\ a.config = call.config
      /\ a.stage = "execution" => call.runs = 1
      /\ call.runs = 1 => a.stage \in {"execution", "report"}

==============================================================================
