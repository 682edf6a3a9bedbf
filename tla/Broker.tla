-------------------------------- MODULE Broker --------------------------------
(***************************************************************************)
(* The bar-driven broker of the backtest engine (engine/broker.go,         *)
(* broker_deferred_exits.go, window_close.go, and the position management  *)
(* of flag.go).  One broker owns one position slot, the market orders      *)
(* queued for the next open, the resting limit orders, the exits deferred  *)
(* to the next open, the list of closed trades and the realized balance.   *)
(*                                                                         *)
(* The loop body of runRangeWithFinalization is cut at its calls: phase    *)
(* names the call that comes next, and every call is one action (a call    *)
(* that loops over orders takes one step per order it acts on).  What a    *)
(* strategy family computes from prices and indicators is an oracle: its   *)
(* handler may signal or stay silent at every bar, so every property below *)
(* holds whatever the indicators say.                                      *)
(*                                                                         *)
(* Prices are integers.  RiskUSD / distance is abstracted to Lots: what    *)
(* matters is that it is positive when the stop is away from the fill and  *)
(* zero when it is not.  The order slices are sets, because SingleExposure *)
(* shows that the order of their elements never matters.                   *)
(***************************************************************************)
EXTENDS Integers, Sequences

CONSTANTS
  Candles,     \* the bars the market may print: [O, H, L, C]
  Horizon,     \* the number of bars of the series; indexes are 0 .. Horizon-1
  RunConfigs,  \* the run configurations to start from, see RunConfigType
  Lots,        \* the size of an entry
  PartLots,    \* the part of Lots that a partial exit closes
  Fee,         \* costs.FeePerUnit
  Slip,        \* the adverse slippage of a market fill
  StopDist,    \* distance from the entry to its stop
  TargetDist,  \* distance from the entry to its target
  TrailDist,   \* Trail.ATR times the ATR
  MaxHold,     \* MaxHoldBars
  ExpireBars,  \* candles a limit order rests for
  SlotBars,    \* bars of one UTC slot of the opening-range family
  Levels       \* the prices a limit or an average-based stop may name

Sides == {1, -1}
Captured == {"capturedMarket", "capturedLimit"}
Families == {"bracket", "limit", "ribbon", "dualEma", "regimeHold"} \cup Captured
Techniques == {"trail", "partial", "closeAll", "breakeven", "hold"}
Phases == {"bar", "exits", "orders", "limits", "slot", "bracket", "onBar",
           "mark", "done"}

(* A run: the family's handler, the fill policy of market orders, the      *)
(* execution window, the management its template declares, and whether the *)
(* loop is finalized by liquidation (RunPrefix does not liquidate).        *)
RunConfigType ==
  [ family : Families, nextOpen : BOOLEAN, windowed : BOOLEAN,
    start : 0 .. Horizon-1, end : 0 .. Horizon-1, manage : SUBSET Techniques,
    anchored : BOOLEAN, slots : BOOLEAN, liquidate : BOOLEAN ]

ASSUME CandlesAssumption ==
  \A b \in Candles :
    /\ b \in [O : Int, H : Int, L : Int, C : Int]
    /\ b.L <= b.O /\ b.O <= b.H /\ b.L <= b.C /\ b.C <= b.H

ASSUME ConstantsAssumption ==
  /\ Horizon \in Nat \ {0}
  /\ RunConfigs \subseteq RunConfigType
  /\ Lots \in Nat \ {0} /\ PartLots \in 1 .. Lots-1
  /\ Fee \in Nat /\ Slip \in Nat
  /\ StopDist \in Nat \ {0} /\ TargetDist \in Nat \ {0} /\ TrailDist \in Nat \ {0}
  /\ Levels \subseteq Int
  /\ MaxHold \in Nat \ {0} /\ ExpireBars \in Nat \ {0} /\ SlotBars \in Nat \ {0}

VARIABLES
  run,            \* the configuration of this run, fixed
  i,              \* the index of the current bar
  bar,            \* series[i]
  phase,          \* the call of the loop body that comes next
  position,       \* the position record; dead while ~hasPosition
  hasPosition,
  pendingOrders,  \* market orders that fill at the open of their index
  limitOrders,    \* resting limit orders
  pendingExits,   \* exits deferred to the open of their index
  dualExitPending,\* the dual-EMA family's own flag for its deferred exit
  lastExitIndex,
  trades,         \* closed trades, partial closes included
  realized        \* realized balance

vars == << run, i, bar, phase, position, hasPosition, pendingOrders,
           limitOrders, pendingExits, dualExitPending, lastExitIndex, trades,
           realized >>
orderVars == << pendingOrders, limitOrders, pendingExits, dualExitPending >>
bookVars  == << position, hasPosition, lastExitIndex, trades, realized >>

NoSlot == Horizon
NoBar  == [O |-> 0, H |-> 0, L |-> 0, C |-> 0]
Flat ==
  [ side |-> 1, entry |-> 0, size |-> 0, sl |-> 0, tp |-> 0, entryIndex |-> 0,
    gapAware |-> FALSE, noTarget |-> FALSE, noStop |-> FALSE,
    slotEnd |-> NoSlot, partialTaken |-> FALSE ]

OrderType ==
  [ side : Sides, sl : Int, tp : Int, limit : Int, index : Nat,
    placedAt : Nat, expireAt : Nat, stopDistance : Nat, targetDistance : Nat,
    gapAware : BOOLEAN, noTarget : BOOLEAN, noStop : BOOLEAN,
    noSlip : BOOLEAN, fixedSize : BOOLEAN, slotEnd : Nat ]
PositionType ==
  [ side : Sides, entry : Int, size : 0 .. Lots, sl : Int, tp : Int,
    entryIndex : Nat, gapAware : BOOLEAN, noTarget : BOOLEAN,
    noStop : BOOLEAN, slotEnd : Nat, partialTaken : BOOLEAN ]
TradeType ==
  [ entryIndex : Nat, exitIndex : Nat, size : 0 .. Lots, exit : Int,
    pnl : Int, partial : BOOLEAN, reason : {"sl", "tp", "rule", "time",
                                            "partial", "endOfTest"} ]

TypeOK ==
  /\ run \in RunConfigType
  /\ i \in 0 .. Horizon-1
  /\ bar \in [O : Int, H : Int, L : Int, C : Int]
  /\ phase \in Phases
  /\ position \in PositionType
  /\ hasPosition \in BOOLEAN
  /\ pendingOrders \subseteq OrderType
  /\ limitOrders \subseteq OrderType
  /\ pendingExits \subseteq [entryIndex : Nat, index : Nat]
  /\ dualExitPending \in BOOLEAN
  /\ lastExitIndex \in {-1} \cup Nat
  /\ trades \in Seq(TradeType)
  /\ realized \in Int

-------------------------------------------------------------------------------
(* The execution window.                                                   *)
ExecutionStart == IF run.windowed THEN run.start ELSE 0
ExecutionEndPastLast == IF run.windowed THEN run.end ELSE Horizon
ExecutionEnd   == IF run.windowed THEN run.end ELSE Horizon - 1
ExecutionIndexAllowed(index) ==
  index >= ExecutionStart /\ index <= ExecutionEnd
BeforeWindow == run.windowed /\ i < ExecutionStart

OccupiedForgetsLimits == hasPosition \/ pendingOrders # {}
Occupied == hasPosition \/ pendingOrders # {} \/ limitOrders # {}

(* How the current bar meets a price, seen from side s.                    *)
OpensAgainst(s, price)  == IF s = 1 THEN bar.O <= price ELSE bar.O >= price
TradesAgainst(s, price) == IF s = 1 THEN bar.L <= price ELSE bar.H >= price
TradesInFavor(s, price) == IF s = 1 THEN bar.H >= price ELSE bar.L <= price
Distance(x, y) == IF x >= y THEN x - y ELSE y - x

(* openPosition: slippage, brackets anchored at the fill, size by risk.    *)
Opened(ord, fill) ==
  LET px   == IF ord.noSlip THEN fill ELSE fill + ord.side * Slip
      sl   == IF ord.stopDistance > 0
              THEN px - ord.side * ord.stopDistance ELSE ord.sl
      tp   == IF ord.targetDistance > 0
              THEN px + ord.side * ord.targetDistance ELSE ord.tp
      size == IF ord.fixedSize \/ px # sl THEN Lots ELSE 0
  IN [ side |-> ord.side, entry |-> px, size |-> size, sl |-> sl, tp |-> tp,
       entryIndex |-> i, gapAware |-> ord.gapAware, noTarget |-> ord.noTarget,
       noStop |-> ord.noStop, slotEnd |-> ord.slotEnd, partialTaken |-> FALSE ]

OpenPosition(ord, fill) ==
  IF ExecutionIndexAllowed(i)
  THEN LET p == Opened(ord, fill)
       IN /\ position' = p
          /\ hasPosition' = TRUE
          /\ realized' = realized - Fee * p.size
  ELSE UNCHANGED << position, hasPosition, realized >>

PnL(p, price, size) ==
  ((price - p.side * Slip) - p.entry) * p.side * size - Fee * size
Closing(p, price, size, reason) ==
  [ entryIndex |-> p.entryIndex, exitIndex |-> i, size |-> size,
    exit |-> price - p.side * Slip, pnl |-> PnL(p, price, size),
    partial |-> FALSE, reason |-> reason ]

(* closePosition of position p on top of the given balance and trade list; *)
(* exits are the deferred exits still queued.                              *)
ClosePosition(p, price, reason, balance, log, exits) ==
  /\ realized' = balance + PnL(p, price, p.size)
  /\ trades' = Append(log, Closing(p, price, p.size, reason))
  /\ pendingExits' = {e \in exits : e.entryIndex # p.entryIndex}
  /\ lastExitIndex' = i
  /\ hasPosition' = FALSE
  /\ position' = Flat

-------------------------------------------------------------------------------
(* The head of the loop body.  Warm-up bars before the window drop orders. *)
StartBar ==
  /\ phase = "bar"
  /\ bar' \in Candles
  /\ phase' = IF run.family \in Captured THEN "orders" ELSE "exits"
  /\ IF BeforeWindow
     THEN pendingOrders' = {} /\ limitOrders' = {} /\ pendingExits' = {}
     ELSE UNCHANGED << pendingOrders, limitOrders, pendingExits >>
  /\ UNCHANGED << run, i, dualExitPending, bookVars >>

(* fillPendingExits: every due exit is dropped, and closes the position it *)
(* was queued for at this open.                                            *)
FillPendingExits ==
  LET due  == {e \in pendingExits : e.index <= i}
      rest == pendingExits \ due
  IN /\ phase = "exits"
     /\ phase' = "orders"
     /\ IF hasPosition /\ \E e \in due : e.entryIndex = position.entryIndex
        THEN ClosePosition(position, bar.O, "rule", realized, trades, rest)
        ELSE pendingExits' = rest /\ UNCHANGED bookVars
     /\ UNCHANGED << run, i, bar, pendingOrders, limitOrders, dualExitPending >>

(* fillPending: one due market order fills at this open.                   *)
FillPending(ord) ==
  /\ phase = "orders"
  /\ ord \in pendingOrders
  /\ ord.index <= i
  /\ pendingOrders' = pendingOrders \ {ord}
  /\ OpenPosition(ord, bar.O)
  /\ UNCHANGED << run, i, bar, phase, limitOrders, pendingExits,
                  dualExitPending, lastExitIndex, trades >>

FillPendingDone ==
  /\ phase = "orders"
  /\ \A ord \in pendingOrders : ord.index > i
  /\ phase' = "limits"
  /\ UNCHANGED << run, i, bar, orderVars, bookVars >>

(* fillLimits: a limit order fills at its price or at a better open, and   *)
(* expires when its last candle passes without a fill.                     *)
LimitFillable(ord) == i > ord.placedAt /\ TradesAgainst(ord.side, ord.limit)
LimitExpiredLate(ord) == i > ord.placedAt /\ ~LimitFillable(ord) /\ i > ord.expireAt
LimitExpired(ord)  == i > ord.placedAt /\ ~LimitFillable(ord) /\ i >= ord.expireAt
LimitFill(ord) == IF OpensAgainst(ord.side, ord.limit) THEN bar.O ELSE ord.limit

FillLimit(ord) ==
  /\ phase = "limits"
  /\ ord \in limitOrders
  /\ LimitFillable(ord)
  /\ limitOrders' = limitOrders \ {ord}
  /\ OpenPosition([ord EXCEPT !.noSlip = TRUE], LimitFill(ord))
  /\ UNCHANGED << run, i, bar, phase, pendingOrders, pendingExits,
                  dualExitPending, lastExitIndex, trades >>

ExpireLimit(ord) ==
  /\ phase = "limits"
  /\ ord \in limitOrders
  /\ LimitExpired(ord)
  /\ limitOrders' = limitOrders \ {ord}
  /\ UNCHANGED << run, i, bar, phase, pendingOrders, pendingExits,
                  dualExitPending, bookVars >>

FillLimitsDone ==
  /\ phase = "limits"
  /\ \A ord \in limitOrders : ~LimitFillable(ord) /\ ~LimitExpired(ord)
  /\ phase' = "slot"
  /\ UNCHANGED << run, i, bar, orderVars, bookVars >>

(* closeExpiredWindowPosition: the slot boundary closes at this open,      *)
(* before the bar's range may touch the brackets.                          *)
SlotExpiredLate == hasPosition /\ i > position.slotEnd
SlotExpired == hasPosition /\ i >= position.slotEnd

CloseExpiredWindowPosition ==
  /\ phase = "slot"
  /\ phase' = "bracket"
  /\ IF SlotExpired
     THEN ClosePosition(position, bar.O, "rule", realized, trades, pendingExits)
     ELSE UNCHANGED << bookVars, pendingExits >>
  /\ UNCHANGED << run, i, bar, pendingOrders, limitOrders, dualExitPending >>

(* resolveIntrabarExit: a stop the bar opens beyond fills at the open,     *)
(* otherwise the stop goes before the target.                              *)
GapFill(p) == p.gapAware \/ p.entryIndex < i
StopGapped(p) == ~p.noStop /\ GapFill(p) /\ OpensAgainst(p.side, p.sl)
StopHit(p)    == ~p.noStop /\ TradesAgainst(p.side, p.sl)
TargetHit(p)  == ~p.noTarget /\ TradesInFavor(p.side, p.tp)

ResolveIntrabarExit ==
  LET p == position
      Exit(price, reason) ==
        ClosePosition(p, price, reason, realized, trades, pendingExits)
  IN /\ phase = "bracket"
     /\ phase' = "onBar"
     /\ IF ~hasPosition THEN UNCHANGED << bookVars, pendingExits >>
        ELSE IF StopGapped(p) THEN Exit(bar.O, "sl")
        ELSE IF StopHit(p)    THEN Exit(p.sl, "sl")
        ELSE IF TargetHit(p)  THEN Exit(p.tp, "tp")
        ELSE UNCHANGED << bookVars, pendingExits >>
     /\ UNCHANGED << run, i, bar, pendingOrders, limitOrders, dualExitPending >>

-------------------------------------------------------------------------------
(* Position management at the close of a bar, in the handler's order.      *)
Replaced(p, price) == [p EXCEPT !.sl = price]
Tightened(p, price) ==
  IF IF p.side = 1 THEN price > p.sl ELSE price < p.sl
  THEN [p EXCEPT !.sl = price] ELSE p

Favorable(p) == (bar.C - p.entry) * p.side
Risk(p)      == Distance(p.entry, p.sl)
EarnedOneR(p) == Risk(p) > 0 /\ Favorable(p) >= Risk(p)

(* applyTrail, called before the handler is dispatched.                    *)
Trailed(p) ==
  IF "trail" \in run.manage /\ EarnedOneR(p)
  THEN Tightened(p, bar.C - p.side * TrailDist) ELSE p

(* applyPartialManagement with MoveBreakeven; "closeAll" is Fraction >= 1. *)
PartialDue(p) ==
  /\ run.manage \cap {"partial", "closeAll"} # {}
  /\ p.size > 0 /\ ~p.partialTaken /\ EarnedOneR(p)
WholeDue(p) == PartialDue(p) /\ "closeAll" \in run.manage
PartialTrade(p) == [Closing(p, bar.C, PartLots, "partial") EXCEPT !.partial = TRUE]
AfterPartial(p) ==
  IF PartialDue(p)
  THEN Tightened([p EXCEPT !.size = @ - PartLots, !.partialTaken = TRUE], p.entry)
  ELSE p

(* moveStopToBreakeven with a zero offset.                                 *)
AtBreakeven(p) ==
  IF "breakeven" \in run.manage /\ EarnedOneR(p)
  THEN Tightened(p, p.entry) ELSE p

(* exitAfterBars.                                                          *)
HoldExpired(p) == "hold" \in run.manage /\ i - p.entryIndex >= MaxHold

(* The opening-range handler closes a position of an earlier slot first.   *)
SlotOf(index)    == index \div SlotBars
SlotEndOf(index) == (SlotOf(index) + 1) * SlotBars
SlotChanged(p)   == run.slots /\ i >= p.slotEnd

ManagePosition ==
  LET trailed == Trailed(position)
      cut     == PartialDue(trailed)
      managed == AtBreakeven(AfterPartial(trailed))
      balance == IF cut THEN realized + PnL(trailed, bar.C, PartLots) ELSE realized
      log     == IF cut THEN Append(trades, PartialTrade(trailed)) ELSE trades
  IN IF SlotChanged(trailed)
     THEN ClosePosition(trailed, bar.C, "rule", realized, trades, pendingExits)
     ELSE IF WholeDue(trailed)
     THEN ClosePosition(trailed, bar.C, "partial", realized, trades, pendingExits)
     ELSE IF HoldExpired(managed)
     THEN ClosePosition(managed, bar.C, "time", balance, log, pendingExits)
     ELSE /\ position' = managed
          /\ realized' = balance
          /\ trades' = log
          /\ UNCHANGED << hasPosition, lastExitIndex, pendingExits >>

-------------------------------------------------------------------------------
(* Orders a handler builds at the close of bar i.                          *)
NewOrder(s) ==
  [ side |-> s, sl |-> bar.C - s * StopDist, tp |-> bar.C + s * TargetDist,
    limit |-> 0, index |-> i, placedAt |-> 0, expireAt |-> 0,
    stopDistance |-> 0, targetDistance |-> 0, gapAware |-> FALSE,
    noTarget |-> FALSE, noStop |-> FALSE, noSlip |-> FALSE,
    fixedSize |-> FALSE, slotEnd |-> NoSlot ]

SetupOrder(s) ==
  [NewOrder(s) EXCEPT
     !.stopDistance   = IF run.anchored THEN StopDist ELSE 0,
     !.targetDistance = IF run.anchored THEN TargetDist ELSE 0,
     !.slotEnd        = IF run.slots THEN SlotEndOf(i) ELSE NoSlot]

LimitOrder(s, price) ==
  [NewOrder(s) EXCEPT !.limit = price, !.sl = price - s * StopDist,
     !.tp = price + s * TargetDist, !.placedAt = i, !.expireAt = i + ExpireBars]

(* queueMarketAtNextOpen.                                                  *)
AtNextOpen(ord) ==
  [ord EXCEPT !.index = i + 1, !.gapAware = @ \/ ~ord.noStop]

RibbonOrder(s) ==
  [NewOrder(s) EXCEPT !.index = i + 1, !.stopDistance = StopDist,
     !.gapAware = TRUE, !.noTarget = TRUE]
DualEMAOrder == RibbonOrder(1)
RegimeHoldOrder ==
  [NewOrder(1) EXCEPT !.index = i + 1, !.noStop = TRUE, !.noTarget = TRUE,
     !.fixedSize = TRUE]

(* The market entry shared by enter, enterSetup and dispatchCaptured.      *)
EnterMarket(ord) ==
  IF Occupied THEN UNCHANGED << pendingOrders, position, hasPosition, realized >>
  ELSE IF run.nextOpen
  THEN /\ pendingOrders' = pendingOrders \cup {AtNextOpen(ord)}
       /\ UNCHANGED << position, hasPosition, realized >>
  ELSE OpenPosition(ord, bar.C) /\ UNCHANGED pendingOrders

(* enterLimit; only the strategy-side entry checks the execution window.   *)
EnterLimit(ord) ==
  IF Occupied \/ ~ExecutionIndexAllowed(i) THEN UNCHANGED limitOrders
  ELSE limitOrders' = limitOrders \cup {ord}

(* One handler, one bar.  A handler that returns early changes nothing.    *)
OnBar(family) == phase = "onBar" /\ run.family = family /\ phase' = "mark"
               /\ UNCHANGED << run, i, bar >>

Silent(family) ==
  /\ OnBar(family)
  /\ family # "dualEma"
  /\ family \in {"bracket", "limit"} => ~hasPosition
  /\ UNCHANGED << orderVars, bookVars >>

ManageBar(family) ==
  /\ OnBar(family)
  /\ hasPosition
  /\ ManagePosition
  /\ UNCHANGED << pendingOrders, limitOrders, dualExitPending >>

OnBracketBar(s) ==
  /\ OnBar("bracket")
  /\ ~hasPosition
  /\ EnterMarket(SetupOrder(s))
  /\ UNCHANGED << limitOrders, pendingExits, dualExitPending, lastExitIndex,
                  trades >>

OnLimitBar(s, price) ==
  /\ OnBar("limit")
  /\ ~hasPosition
  /\ EnterLimit(LimitOrder(s, price))
  /\ UNCHANGED << pendingOrders, pendingExits, dualExitPending, bookVars >>

(* A deferred exit of the open position at the next open.                  *)
DeferExit ==
  pendingExits' = pendingExits \cup
                    {[entryIndex |-> position.entryIndex, index |-> i + 1]}
ExitQueued == \E e \in pendingExits : e.entryIndex = position.entryIndex

OnEMARibbonBar(s) ==
  /\ OnBar("ribbon")
  /\ IF hasPosition
     THEN /\ IF ExitQueued THEN UNCHANGED pendingExits ELSE DeferExit
          /\ UNCHANGED pendingOrders
     ELSE /\ IF lastExitIndex = i \/ pendingOrders # {}
             THEN UNCHANGED pendingOrders
             ELSE pendingOrders' = pendingOrders \cup {RibbonOrder(s)}
          /\ UNCHANGED pendingExits
  /\ UNCHANGED << limitOrders, dualExitPending, bookVars >>

OnRegimeHoldBar ==
  /\ OnBar("regimeHold")
  /\ IF hasPosition
     THEN DeferExit /\ UNCHANGED pendingOrders
     ELSE /\ pendingOrders' = pendingOrders \cup {RegimeHoldOrder}
          /\ UNCHANGED pendingExits
  /\ UNCHANGED << limitOrders, dualExitPending, bookVars >>

(* The dual-EMA handler: the first two branches return early, an open      *)
(* position trails its stop to a price the averages give (stop) and may    *)
(* defer its exit once, a flat one may queue an entry.                     *)
DualExitSettledLater == dualExitPending /\ ~hasPosition /\ lastExitIndex # i
DualExitSettled == dualExitPending /\ ~hasPosition
OnDualEMABar(signal, stop) ==
  /\ OnBar("dualEma")
  /\ IF DualExitSettled
     THEN dualExitPending' = FALSE
          /\ UNCHANGED << pendingOrders, pendingExits, position >>
     ELSE IF lastExitIndex = i
     THEN UNCHANGED << dualExitPending, pendingOrders, pendingExits, position >>
     ELSE IF hasPosition
     THEN /\ position' = Tightened(position, stop)
          /\ IF signal /\ ~dualExitPending
             THEN DeferExit /\ dualExitPending' = TRUE
             ELSE UNCHANGED << pendingExits, dualExitPending >>
          /\ UNCHANGED pendingOrders
     ELSE /\ pendingOrders' = IF signal THEN pendingOrders \cup {DualEMAOrder}
                              ELSE pendingOrders
          /\ UNCHANGED << dualExitPending, pendingExits, position >>
  /\ UNCHANGED << limitOrders, hasPosition, lastExitIndex, trades, realized >>

(* dispatchCaptured: the scheduled path replaces the handler by the orders *)
(* captured on the source series, any number of them per chart bar.  The   *)
(* captured orders of a run come from one handler with one entry mode.     *)
DispatchMarket(s) ==
  /\ phase = "onBar" /\ run.family = "capturedMarket"
  /\ EnterMarket(SetupOrder(s))
  /\ UNCHANGED << run, i, bar, phase, limitOrders, pendingExits,
                  dualExitPending, lastExitIndex, trades >>
DispatchLimit(s, price) ==
  /\ phase = "onBar" /\ run.family = "capturedLimit"
  /\ IF Occupied THEN UNCHANGED limitOrders
     ELSE limitOrders' = limitOrders \cup {LimitOrder(s, price)}
  /\ UNCHANGED << run, i, bar, phase, pendingOrders, pendingExits,
                  dualExitPending, bookVars >>

(* The tail of the loop body, and after the last bar the liquidation.      *)
ClearLast(queue) == IF BeforeWindow /\ i + 1 < ExecutionStart THEN {} ELSE queue
Clear(queue) == IF BeforeWindow THEN {} ELSE queue

NextIndex ==
  /\ phase = "mark"
  /\ i < ExecutionEnd
  /\ i' = i + 1
  /\ bar' = NoBar
  /\ phase' = "bar"
  /\ pendingOrders' = Clear(pendingOrders)
  /\ limitOrders' = Clear(limitOrders)
  /\ pendingExits' = Clear(pendingExits)
  /\ UNCHANGED << run, dualExitPending, bookVars >>

LiquidationDue == run.liquidate /\ hasPosition

Finalize ==
  /\ phase = "mark"
  /\ i >= ExecutionEnd
  /\ phase' = "done"
  /\ IF LiquidationDue
     THEN ClosePosition(position, bar.C, "endOfTest", realized, trades,
                        Clear(pendingExits))
     ELSE pendingExits' = Clear(pendingExits) /\ UNCHANGED bookVars
  /\ pendingOrders' = Clear(pendingOrders)
  /\ limitOrders' = Clear(limitOrders)
  /\ UNCHANGED << run, i, bar, dualExitPending >>

Terminated == phase = "done" /\ UNCHANGED vars

-------------------------------------------------------------------------------
Init ==
  /\ run \in RunConfigs
  /\ i = 0
  /\ bar = NoBar
  /\ phase = "bar"
  /\ position = Flat
  /\ hasPosition = FALSE
  /\ pendingOrders = {} /\ limitOrders = {} /\ pendingExits = {}
  /\ dualExitPending = FALSE
  /\ lastExitIndex = -1
  /\ trades = << >>
  /\ realized = 0

Next ==
  \/ StartBar
  \/ FillPendingExits
  \/ \E ord \in pendingOrders : FillPending(ord)
  \/ FillPendingDone
  \/ \E ord \in limitOrders : FillLimit(ord)
  \/ \E ord \in limitOrders : ExpireLimit(ord)
  \/ FillLimitsDone
  \/ CloseExpiredWindowPosition
  \/ ResolveIntrabarExit
  \/ \E family \in Families : Silent(family)
  \/ \E family \in {"bracket", "limit"} : ManageBar(family)
  \/ \E s \in Sides : OnBracketBar(s)
  \/ \E s \in Sides, price \in Levels : OnLimitBar(s, price)
  \/ \E s \in Sides : OnEMARibbonBar(s)
  \/ OnRegimeHoldBar
  \/ \E signal \in BOOLEAN, stop \in Levels : OnDualEMABar(signal, stop)
  \/ \E s \in Sides : DispatchMarket(s)
  \/ \E s \in Sides, price \in Levels : DispatchLimit(s, price)
  \/ NextIndex
  \/ Finalize
  \/ Terminated

Spec == Init /\ [][Next]_vars /\ WF_vars(Next)
-------------------------------------------------------------------------------
(* Properties.                                                             *)

(* The claim of prefix.go ("the broker admits at most one active or        *)
(* pending entry"): a position, a queued market order and a resting limit  *)
(* order exclude one another, and each queue holds at most one order.  The *)
(* deferred-entry families never look at the queues, so it rests on every  *)
(* due order being gone before a handler runs.                             *)
AtMostOne(S) == \A x, y \in S : x = y
SingleExposure ==
  /\ AtMostOne(pendingOrders) /\ AtMostOne(limitOrders)
  /\ pendingOrders # {} => limitOrders = {}
  /\ hasPosition => pendingOrders = {} /\ limitOrders = {}

(* A deferred exit is queued at most once, and only for the open position; *)
(* the dual-EMA flag that stops a second request is set only while its     *)
(* exit is really queued, so a position can never wait for an exit that    *)
(* nobody will make.                                                       *)
ExitsMatchPosition ==
  /\ AtMostOne(pendingExits)
  /\ \A e \in pendingExits : hasPosition /\ e.entryIndex = position.entryIndex
  /\ phase = "bar" /\ dualExitPending => pendingExits # {}

(* Orders placed at one bar are settled at the next: between two bars a    *)
(* market order or deferred exit is due at the coming open exactly, and a  *)
(* limit order still has candles left.                                     *)
OrdersOnTime ==
  phase = "bar" =>
    /\ \A ord \in pendingOrders : ord.index = i
    /\ \A e \in pendingExits : e.index = i
    /\ \A ord \in limitOrders : ord.placedAt < i /\ i <= ord.expireAt

(* Nothing is opened or closed outside the execution window, the range of  *)
(* a bar of a later slot never reaches an opening-range position, and no   *)
(* order raised in the warm-up is left to fill at the window's first bar.  *)
WindowRespected ==
  /\ \A n \in DOMAIN trades : /\ ExecutionIndexAllowed(trades[n].entryIndex)
                              /\ ExecutionIndexAllowed(trades[n].exitIndex)
  /\ hasPosition => ExecutionIndexAllowed(position.entryIndex)
  /\ phase \in {"bracket", "mark"} /\ hasPosition => i < position.slotEnd
  /\ phase = "bar" /\ i <= ExecutionStart => pendingOrders = {} /\ limitOrders = {}

(* An open position is never replaced by another one, and its stop only    *)
(* ever tightens, across all the steps that may touch it.                  *)
SamePositionTightens ==
  /\ position'.entryIndex = position.entryIndex
  /\ position'.entry = position.entry
  /\ position'.side = position.side
  /\ (position'.sl - position.sl) * position.side >= 0
  /\ position'.size <= position.size
PositionPersists ==
  [][hasPosition /\ hasPosition' => SamePositionTightens]_vars

===============================================================================
