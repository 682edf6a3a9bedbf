----------------------------- MODULE BrokerProofs -----------------------------
(***************************************************************************)
(* Proofs about Broker, for every value of its constants: the type         *)
(* invariant, the exclusion of positions and orders, the matching of       *)
(* deferred exits, the deadlines of orders, and what a step may do to an   *)
(* open position.                                                          *)
(***************************************************************************)
EXTENDS Broker, TLAPS

(* A position whose part has not been taken has its whole size, which is   *)
(* what keeps the size of a partial exit within the position.              *)
SizeOK == hasPosition /\ ~position.partialTaken => position.size \in {0, Lots}

TInv == TypeOK /\ SizeOK

ExitType == [entryIndex : Nat, index : Nat]
Reasons == {"sl", "tp", "rule", "time", "partial", "endOfTest"}
BookOK ==
  /\ position \in PositionType
  /\ hasPosition \in BOOLEAN
  /\ lastExitIndex \in {-1} \cup Nat
  /\ trades \in Seq(TradeType)
  /\ realized \in Int
  /\ SizeOK

-------------------------------------------------------------------------------
(* Types of what the helpers return.                                       *)

LEMMA FlatType == Flat \in PositionType
  BY ConstantsAssumption DEF Flat, PositionType, Sides, NoSlot

LEMMA PnLType ==
  ASSUME NEW p \in PositionType, NEW price \in Int, NEW size \in Int
  PROVE  PnL(p, price, size) \in Int
<1>1. p.side \in Int /\ p.entry \in Int
  BY DEF PositionType, Sides
<1> QED
  BY <1>1, ConstantsAssumption DEF PnL

LEMMA ClosingType ==
  ASSUME NEW p \in PositionType, NEW price \in Int, NEW size \in 0 .. Lots,
         NEW reason \in Reasons, i \in Nat
  PROVE  Closing(p, price, size, reason) \in TradeType
<1>1. PnL(p, price, size) \in Int
  BY PnLType, ConstantsAssumption
<1>2. p.side \in Int /\ p.entryIndex \in Nat
  BY DEF PositionType, Sides
<1>3. price - p.side * Slip \in Int
  BY <1>2, ConstantsAssumption
<1> QED
  BY <1>1, <1>2, <1>3 DEF Closing, TradeType, Reasons

LEMMA CloseOK ==
  ASSUME i \in Nat, NEW p \in PositionType, NEW price \in Int,
         NEW reason \in Reasons, NEW balance \in Int,
         NEW log \in Seq(TradeType), NEW exits,
         ClosePosition(p, price, reason, balance, log, exits)
  PROVE  BookOK' /\ pendingExits' \subseteq exits /\ ~hasPosition'
<1>1. p.size \in 0 .. Lots
  BY DEF PositionType
<1>2. PnL(p, price, p.size) \in Int
  BY <1>1, PnLType, ConstantsAssumption
<1>3. Closing(p, price, p.size, reason) \in TradeType
  BY <1>1, ClosingType
<1>4. balance + PnL(p, price, p.size) \in Int
  BY <1>2
<1>5. Append(log, Closing(p, price, p.size, reason)) \in Seq(TradeType)
  BY <1>3
<1>6. realized' \in Int /\ trades' \in Seq(TradeType)
  BY <1>4, <1>5 DEF ClosePosition
<1>7. /\ position' \in PositionType /\ hasPosition' = FALSE
      /\ lastExitIndex' \in {-1} \cup Nat /\ pendingExits' \subseteq exits
  BY FlatType DEF ClosePosition
<1> QED
  BY <1>6, <1>7 DEF BookOK, SizeOK

LEMMA OpenOK ==
  ASSUME i \in Nat, BookOK, NEW ord \in OrderType, NEW fill \in Int,
         OpenPosition(ord, fill), UNCHANGED << lastExitIndex, trades >>
  PROVE  BookOK'
<1> DEFINE px == IF ord.noSlip THEN fill ELSE fill + ord.side * Slip
<1>1. ord.side \in Sides /\ ord.side \in Int /\ ord.sl \in Int /\ ord.tp \in Int
      /\ ord.stopDistance \in Nat /\ ord.targetDistance \in Nat
      /\ ord.slotEnd \in Nat /\ ord.noStop \in BOOLEAN /\ ord.noTarget \in BOOLEAN
      /\ ord.gapAware \in BOOLEAN
  BY DEF OrderType, Sides
<1>2. px \in Int
  BY <1>1, ConstantsAssumption
<1>3. /\ px - ord.side * ord.stopDistance \in Int
      /\ px + ord.side * ord.targetDistance \in Int
  BY <1>1, <1>2
<1>4. /\ Opened(ord, fill) \in PositionType
      /\ Opened(ord, fill).size \in {0, Lots}
  <2> HIDE DEF px
  <2> QED BY <1>1, <1>2, <1>3, ConstantsAssumption DEF Opened, PositionType, px
<1>5. realized - Fee * Opened(ord, fill).size \in Int
  BY <1>4, ConstantsAssumption DEF BookOK, PositionType
<1> QED
  BY <1>4, <1>5 DEF OpenPosition, BookOK, SizeOK

(* Position management keeps a position well typed and never changes its   *)
(* identity; a partial exit finds the whole size.                          *)
SizeOf(p) == ~p.partialTaken => p.size \in {0, Lots}
SameIdentity(p, q) ==
  q.entryIndex = p.entryIndex /\ q.entry = p.entry /\ q.side = p.side
  /\ q.slotEnd = p.slotEnd

LEMMA TightenedType ==
  ASSUME NEW p \in PositionType, NEW price \in Int
  PROVE  /\ Tightened(p, price) \in PositionType
         /\ SameIdentity(p, Tightened(p, price))
         /\ Tightened(p, price).size = p.size
         /\ Tightened(p, price).partialTaken = p.partialTaken
         /\ SizeOf(p) => SizeOf(Tightened(p, price))
         /\ (Tightened(p, price).sl - p.sl) * p.side >= 0
<1>1. CASE Tightened(p, price) = p
  BY <1>1 DEF SameIdentity, SizeOf, PositionType, Sides
<1>2. CASE /\ Tightened(p, price) = [p EXCEPT !.sl = price]
           /\ IF p.side = 1 THEN price > p.sl ELSE price < p.sl
  <2>1. [p EXCEPT !.sl = price].sl = price
    BY DEF PositionType
  <2>2. (price - p.sl) * p.side >= 0
    <3>1. p.side \in {1, -1} /\ p.sl \in Int
      BY DEF PositionType, Sides
    <3>2. CASE p.side = 1
      BY <1>2, <3>1, <3>2
    <3>3. CASE p.side = -1
      BY <1>2, <3>1, <3>3
    <3> QED BY <3>1, <3>2, <3>3
  <2> QED
    BY <1>2, <2>1, <2>2 DEF SameIdentity, SizeOf, PositionType
<1> QED
  BY <1>1, <1>2 DEF Tightened

LEMMA TrailedType ==
  ASSUME NEW p \in PositionType, bar \in [O : Int, H : Int, L : Int, C : Int]
  PROVE  /\ Trailed(p) \in PositionType
         /\ SameIdentity(p, Trailed(p))
         /\ Trailed(p).size = p.size
         /\ SizeOf(p) => SizeOf(Trailed(p))
         /\ (Trailed(p).sl - p.sl) * p.side >= 0
<1>1. bar.C - p.side * TrailDist \in Int
  <2>1. p.side \in Int
    BY DEF PositionType, Sides
  <2> QED BY <2>1, ConstantsAssumption
<1>2. CASE Trailed(p) = p
  BY <1>2 DEF SameIdentity, SizeOf, PositionType, Sides
<1>3. CASE Trailed(p) = Tightened(p, bar.C - p.side * TrailDist)
  <2> DEFINE price == bar.C - p.side * TrailDist
  <2>1. price \in Int /\ Trailed(p) = Tightened(p, price)
    BY <1>1, <1>3
  <2> HIDE DEF price
  <2> QED BY <2>1, TightenedType, Zenon
<1> QED
  BY <1>2, <1>3 DEF Trailed

LEMMA ManagedType ==
  ASSUME NEW p \in PositionType, SizeOf(p)
  PROVE  /\ AtBreakeven(AfterPartial(p)) \in PositionType
         /\ SameIdentity(p, AtBreakeven(AfterPartial(p)))
         /\ SizeOf(AtBreakeven(AfterPartial(p)))
         /\ AtBreakeven(AfterPartial(p)).size <= p.size
         /\ (AtBreakeven(AfterPartial(p)).sl - p.sl) * p.side >= 0
<1> DEFINE cut == [p EXCEPT !.size = @ - PartLots, !.partialTaken = TRUE]
           q   == AfterPartial(p)
           r   == AtBreakeven(q)
<1>1. /\ q \in PositionType /\ SizeOf(q) /\ SameIdentity(p, q)
      /\ q.size <= p.size /\ (q.sl - p.sl) * p.side >= 0
  <2>1. CASE PartialDue(p)
    <3>1. p.size = Lots
      BY <2>1 DEF PartialDue, SizeOf
    <3>2. /\ cut \in PositionType /\ SizeOf(cut) /\ SameIdentity(p, cut)
          /\ cut.size <= p.size /\ cut.sl = p.sl /\ cut.entry = p.entry
          /\ cut.side = p.side
      <4>1. p.size - PartLots \in 0 .. Lots /\ p.size - PartLots <= p.size
        BY <3>1, ConstantsAssumption
      <4>2. cut \in PositionType
        BY <4>1 DEF PositionType
      <4>3. /\ cut.size = p.size - PartLots /\ cut.partialTaken = TRUE
            /\ cut.sl = p.sl /\ cut.entry = p.entry /\ cut.side = p.side
            /\ cut.entryIndex = p.entryIndex /\ cut.slotEnd = p.slotEnd
        BY DEF PositionType
      <4> QED BY <4>1, <4>2, <4>3 DEF SizeOf, SameIdentity
    <3>3. q = Tightened(cut, p.entry) /\ p.entry \in Int
      BY <2>1 DEF AfterPartial, PositionType
    <3> HIDE DEF cut, q
    <3>4. /\ q \in PositionType /\ SizeOf(q) /\ SameIdentity(cut, q)
          /\ q.size = cut.size /\ (q.sl - cut.sl) * cut.side >= 0
      BY <3>2, <3>3, TightenedType
    <3> QED
      BY <3>2, <3>4 DEF SameIdentity
  <2>2. CASE ~PartialDue(p)
    <3>1. q = p
      BY <2>2 DEF AfterPartial
    <3>2. p.size <= p.size /\ (p.sl - p.sl) * p.side >= 0
      BY DEF PositionType, Sides
    <3> QED
      BY <3>1, <3>2 DEF SameIdentity
  <2> QED BY <2>1, <2>2
<1> HIDE DEF q
<1>2. /\ r \in PositionType /\ SizeOf(r) /\ SameIdentity(q, r)
      /\ r.size = q.size /\ (r.sl - q.sl) * q.side >= 0
  <2>1. CASE r = q
    BY <1>1, <2>1 DEF SameIdentity, PositionType, Sides
  <2>2. CASE r = Tightened(q, q.entry)
    <3>1. q.entry \in Int
      BY <1>1 DEF PositionType
    <3> QED BY <1>1, <2>2, <3>1, TightenedType
  <2> QED BY <2>1, <2>2 DEF AtBreakeven
<1>3. (r.sl - p.sl) * p.side >= 0
  <2> HIDE DEF r
  <2>1. /\ r.sl \in Int /\ q.sl \in Int /\ p.sl \in Int /\ p.side \in {1, -1}
        /\ q.side = p.side
    BY <1>1, <1>2 DEF PositionType, Sides, SameIdentity
  <2>2. CASE p.side = 1
    BY <1>1, <1>2, <2>1, <2>2
  <2>3. CASE p.side = -1
    BY <1>1, <1>2, <2>1, <2>3
  <2> QED BY <2>1, <2>2, <2>3
<1>4. SameIdentity(p, r) /\ r.size <= p.size
  BY <1>1, <1>2 DEF SameIdentity
<1> QED
  BY <1>2, <1>3, <1>4 DEF q
-------------------------------------------------------------------------------
(* The orders the handlers build.                                          *)

BarType == [O : Int, H : Int, L : Int, C : Int]

LEMMA NewOrderType ==
  ASSUME i \in Nat, bar \in BarType, NEW s \in Sides
  PROVE  NewOrder(s) \in OrderType
<1>1. s \in Int /\ bar.C \in Int
  BY DEF Sides, BarType
<1>2. bar.C - s * StopDist \in Int /\ bar.C + s * TargetDist \in Int
  BY <1>1, ConstantsAssumption
<1>3. NoSlot \in Nat
  BY ConstantsAssumption DEF NoSlot
<1> QED
  BY <1>2, <1>3 DEF NewOrder, OrderType

LEMMA SetupOrderType ==
  ASSUME i \in Nat, bar \in BarType, NEW s \in Sides
  PROVE  SetupOrder(s) \in OrderType
<1>1. NewOrder(s) \in OrderType
  BY NewOrderType
<1>2. SlotEndOf(i) \in Nat
  <2>1. i \div SlotBars \in Nat
    BY ConstantsAssumption
  <2> QED BY <2>1, ConstantsAssumption DEF SlotEndOf, SlotOf
<1>3. (IF run.slots THEN SlotEndOf(i) ELSE NoSlot) \in Nat
  BY <1>2, ConstantsAssumption DEF NoSlot
<1>4. /\ (IF run.anchored THEN StopDist ELSE 0) \in Nat
      /\ (IF run.anchored THEN TargetDist ELSE 0) \in Nat
  BY ConstantsAssumption
<1> QED
  BY <1>1, <1>3, <1>4 DEF SetupOrder, OrderType

LEMMA LimitOrderType ==
  ASSUME i \in Nat, bar \in BarType, NEW s \in Sides, NEW price \in Levels
  PROVE  /\ LimitOrder(s, price) \in OrderType
         /\ LimitOrder(s, price).placedAt = i
         /\ LimitOrder(s, price).expireAt = i + ExpireBars
<1>1. NewOrder(s) \in OrderType
  BY NewOrderType
<1>2. s \in Int /\ price \in Int
  BY ConstantsAssumption DEF Sides
<1>3. price - s * StopDist \in Int /\ price + s * TargetDist \in Int
  BY <1>2, ConstantsAssumption
<1>4. i + ExpireBars \in Nat
  BY ConstantsAssumption
<1> QED
  BY <1>1, <1>2, <1>3, <1>4 DEF LimitOrder, OrderType

LEMMA AtNextOpenType ==
  ASSUME i \in Nat, NEW ord \in OrderType
  PROVE  AtNextOpen(ord) \in OrderType /\ AtNextOpen(ord).index = i + 1
<1>1. (ord.gapAware \/ ~ord.noStop) \in BOOLEAN
  OBVIOUS
<1>2. AtNextOpen(ord) = [ord EXCEPT !.index = i + 1,
                                    !.gapAware = ord.gapAware \/ ~ord.noStop]
  BY DEF AtNextOpen
<1>3. i + 1 \in Nat
  OBVIOUS
<1>4. AtNextOpen(ord) \in OrderType
  BY <1>1, <1>2, <1>3 DEF OrderType
<1>5. AtNextOpen(ord).index = i + 1
  BY <1>2 DEF OrderType
<1> QED BY <1>4, <1>5

LEMMA RibbonOrderType ==
  ASSUME i \in Nat, bar \in BarType, NEW s \in Sides
  PROVE  RibbonOrder(s) \in OrderType /\ RibbonOrder(s).index = i + 1
<1>1. NewOrder(s) \in OrderType
  BY NewOrderType
<1>2. i + 1 \in Nat /\ StopDist \in Nat
  BY ConstantsAssumption
<1>3. RibbonOrder(s) \in OrderType
  BY <1>1, <1>2 DEF RibbonOrder, OrderType
<1>4. RibbonOrder(s).index = i + 1
  BY <1>1 DEF RibbonOrder, OrderType
<1> QED BY <1>3, <1>4

LEMMA RegimeHoldOrderType ==
  ASSUME i \in Nat, bar \in BarType
  PROVE  RegimeHoldOrder \in OrderType /\ RegimeHoldOrder.index = i + 1
<1>1. NewOrder(1) \in OrderType
  BY NewOrderType DEF Sides
<1>2. i + 1 \in Nat /\ StopDist \in Nat
  BY ConstantsAssumption
<1>3. RegimeHoldOrder \in OrderType
  BY <1>1, <1>2 DEF RegimeHoldOrder, OrderType
<1>4. RegimeHoldOrder.index = i + 1
  BY <1>1 DEF RegimeHoldOrder, OrderType
<1> QED BY <1>3, <1>4

(* The market entry queues a well-typed order for the next open, or opens. *)
LEMMA EnterMarketOK ==
  ASSUME TypeOK, SizeOK, NEW ord \in OrderType, EnterMarket(ord),
         UNCHANGED << lastExitIndex, trades >>
  PROVE  BookOK' /\ pendingOrders' \subseteq OrderType
<1>1. BookOK /\ i \in Nat /\ bar.C \in Int
  BY DEF TypeOK, BookOK
<1>2. CASE Occupied
  BY <1>1, <1>2 DEF EnterMarket, BookOK, SizeOK, TypeOK
<1>3. CASE ~Occupied /\ run.nextOpen
  <2>1. AtNextOpen(ord) \in OrderType
    BY <1>1, AtNextOpenType
  <2> QED BY <1>1, <1>3, <2>1 DEF EnterMarket, BookOK, SizeOK, TypeOK
<1>4. CASE ~Occupied /\ ~run.nextOpen
  <2>1. OpenPosition(ord, bar.C) /\ UNCHANGED pendingOrders
    BY <1>4 DEF EnterMarket
  <2> QED BY <1>1, <2>1, OpenOK DEF TypeOK
<1> QED BY <1>2, <1>3, <1>4
-------------------------------------------------------------------------------
(* The type invariant.                                                     *)

RestOK ==
  /\ run \in RunConfigType
  /\ i \in 0 .. Horizon-1
  /\ bar \in BarType
  /\ phase \in Phases
  /\ pendingOrders \subseteq OrderType
  /\ limitOrders \subseteq OrderType
  /\ pendingExits \subseteq ExitType
  /\ dualExitPending \in BOOLEAN

LEMMA TInvParts == (TInv <=> BookOK /\ RestOK) /\ (TInv' <=> BookOK' /\ RestOK')
  BY DEF TInv, TypeOK, BookOK, RestOK, BarType, ExitType

LEMMA TInvFacts ==
  ASSUME TInv
  PROVE  /\ BookOK /\ RestOK /\ TypeOK /\ SizeOK
         /\ i \in Nat /\ bar.O \in Int /\ bar.C \in Int
         /\ position \in PositionType /\ position.sl \in Int
         /\ position.tp \in Int /\ position.entryIndex \in Nat
         /\ realized \in Int /\ trades \in Seq(TradeType)
         /\ bar \in BarType
<1>1. /\ BookOK /\ RestOK /\ TypeOK /\ SizeOK
  BY TInvParts DEF TInv
<1>2. i \in Nat /\ bar.O \in Int /\ bar.C \in Int
  BY <1>1, ConstantsAssumption DEF RestOK, BarType
<1>3. position.sl \in Int /\ position.tp \in Int /\ position.entryIndex \in Nat
  BY <1>1 DEF BookOK, PositionType
<1> QED
  BY <1>1, <1>2, <1>3 DEF BookOK, RestOK

LEMMA BookUnchanged ==
  ASSUME BookOK, UNCHANGED bookVars
  PROVE  BookOK'
  BY DEF BookOK, SizeOK, bookVars

LEMMA StartBarType == TInv /\ StartBar => TInv'
<1> SUFFICES ASSUME TInv, StartBar PROVE TInv'
  OBVIOUS
<1>1. BookOK'
  BY TInvFacts, BookUnchanged DEF StartBar
<1>2. bar' \in BarType
  BY CandlesAssumption DEF StartBar, BarType
<1>3. RestOK'
  BY <1>2, TInvFacts DEF StartBar, RestOK, Phases
<1> QED BY <1>1, <1>3, TInvParts

LEMMA FillPendingExitsType == TInv /\ FillPendingExits => TInv'
<1> SUFFICES ASSUME TInv, FillPendingExits PROVE TInv'
  OBVIOUS
<1> DEFINE due  == {e \in pendingExits : e.index <= i}
           rest == pendingExits \ due
<1>1. BookOK' /\ pendingExits' \subseteq pendingExits
  <2>1. CASE ClosePosition(position, bar.O, "rule", realized, trades, rest)
    BY <2>1, CloseOK, TInvFacts DEF Reasons
  <2>2. CASE pendingExits' = rest /\ UNCHANGED bookVars
    BY <2>2, TInvFacts, BookUnchanged
  <2> QED BY <2>1, <2>2 DEF FillPendingExits
<1>2. RestOK'
  BY <1>1, TInvFacts DEF FillPendingExits, RestOK, Phases
<1> QED BY <1>1, <1>2, TInvParts

LEMMA FillPendingType ==
  TInv /\ (\E ord \in pendingOrders : FillPending(ord)) => TInv'
<1> SUFFICES ASSUME TInv, NEW ord \in pendingOrders, FillPending(ord) PROVE TInv'
  OBVIOUS
<1>1. ord \in OrderType
  BY TInvFacts DEF RestOK
<1>2. BookOK'
  BY <1>1, OpenOK, TInvFacts DEF FillPending
<1>3. RestOK'
  BY TInvFacts DEF FillPending, RestOK
<1> QED BY <1>2, <1>3, TInvParts

LEMMA FillLimitType ==
  TInv /\ (\E ord \in limitOrders : FillLimit(ord)) => TInv'
<1> SUFFICES ASSUME TInv, NEW ord \in limitOrders, FillLimit(ord) PROVE TInv'
  OBVIOUS
<1>1. ord \in OrderType /\ ord.limit \in Int
  BY TInvFacts DEF RestOK, OrderType
<1>2. [ord EXCEPT !.noSlip = TRUE] \in OrderType /\ LimitFill(ord) \in Int
  BY <1>1, TInvFacts DEF OrderType, LimitFill
<1>3. BookOK'
  BY <1>2, OpenOK, TInvFacts DEF FillLimit
<1>4. RestOK'
  BY TInvFacts DEF FillLimit, RestOK
<1> QED BY <1>3, <1>4, TInvParts

LEMMA QueueStepsType ==
  ASSUME TInv,
         \/ FillPendingDone
         \/ \E ord \in limitOrders : ExpireLimit(ord)
         \/ FillLimitsDone
         \/ \E family \in Families : Silent(family)
  PROVE  TInv'
<1>1. BookOK'
  BY TInvFacts, BookUnchanged
  DEF FillPendingDone, ExpireLimit, FillLimitsDone, Silent
<1>2. RestOK'
  BY TInvFacts DEF FillPendingDone, ExpireLimit, FillLimitsDone, Silent, RestOK,
                   OnBar, orderVars, Phases
<1> QED BY <1>1, <1>2, TInvParts

LEMMA CloseExpiredType == TInv /\ CloseExpiredWindowPosition => TInv'
<1> SUFFICES ASSUME TInv, CloseExpiredWindowPosition PROVE TInv'
  OBVIOUS
<1>1. BookOK' /\ pendingExits' \subseteq pendingExits
  <2>1. CASE ClosePosition(position, bar.O, "rule", realized, trades, pendingExits)
    BY <2>1, CloseOK, TInvFacts DEF Reasons
  <2>2. CASE UNCHANGED << bookVars, pendingExits >>
    BY <2>2, TInvFacts, BookUnchanged
  <2> QED BY <2>1, <2>2 DEF CloseExpiredWindowPosition
<1>2. RestOK'
  BY <1>1, TInvFacts DEF CloseExpiredWindowPosition, RestOK, Phases
<1> QED BY <1>1, <1>2, TInvParts

LEMMA ResolveIntrabarExitType == TInv /\ ResolveIntrabarExit => TInv'
<1> SUFFICES ASSUME TInv, ResolveIntrabarExit PROVE TInv'
  OBVIOUS
<1>1. BookOK' /\ pendingExits' \subseteq pendingExits
  <2>1. CASE UNCHANGED << bookVars, pendingExits >>
    BY <2>1, TInvFacts, BookUnchanged
  <2>2. ASSUME NEW price \in {bar.O, position.sl, position.tp},
               NEW reason \in {"sl", "tp"},
               ClosePosition(position, price, reason, realized, trades, pendingExits)
        PROVE  BookOK' /\ pendingExits' \subseteq pendingExits
    BY <2>2, CloseOK, TInvFacts DEF Reasons
  <2> QED BY <2>1, <2>2 DEF ResolveIntrabarExit
<1>2. RestOK'
  BY <1>1, TInvFacts DEF ResolveIntrabarExit, RestOK, Phases
<1> QED BY <1>1, <1>2, TInvParts
(* Managing the open position closes it, or keeps its identity, never      *)
(* loosens its stop and never grows it.                                    *)
Tighter(p, q) ==
  SameIdentity(p, q) /\ (q.sl - p.sl) * p.side >= 0 /\ q.size <= p.size

LEMMA ManageOK ==
  ASSUME TInv, hasPosition, ManagePosition
  PROVE  /\ BookOK' /\ pendingExits' \subseteq pendingExits
         /\ hasPosition' => Tighter(position, position')
<1> DEFINE trailed == Trailed(position)
           cut     == PartialDue(trailed)
           managed == AtBreakeven(AfterPartial(trailed))
           balance == IF cut THEN realized + PnL(trailed, bar.C, PartLots) ELSE realized
           log     == IF cut THEN Append(trades, PartialTrade(trailed)) ELSE trades
<1>1. SizeOf(position) /\ hasPosition = TRUE
  BY TInvFacts DEF SizeOK, SizeOf, BookOK
<1>2. /\ trailed \in PositionType /\ SizeOf(trailed)
      /\ SameIdentity(position, trailed) /\ trailed.size = position.size
      /\ (trailed.sl - position.sl) * position.side >= 0
  BY <1>1, TInvFacts, TrailedType DEF BarType
<1> HIDE DEF trailed
<1>3. /\ managed \in PositionType /\ SizeOf(managed)
      /\ SameIdentity(trailed, managed) /\ managed.size <= trailed.size
      /\ (managed.sl - trailed.sl) * trailed.side >= 0
  BY <1>2, ManagedType
<1> HIDE DEF managed
<1>4. Tighter(position, managed)
  <2>1. /\ managed.sl \in Int /\ trailed.sl \in Int /\ position.sl \in Int
        /\ position.side \in {1, -1} /\ trailed.side = position.side
    BY <1>2, <1>3, TInvFacts DEF PositionType, Sides, SameIdentity
  <2>2. (managed.sl - position.sl) * position.side >= 0
    <3>1. CASE position.side = 1
      BY <1>2, <1>3, <2>1, <3>1
    <3>2. CASE position.side = -1
      BY <1>2, <1>3, <2>1, <3>2
    <3> QED BY <2>1, <3>1, <3>2
  <2> QED BY <1>2, <1>3, <2>2 DEF Tighter, SameIdentity
<1>5. balance \in Int
  <2>1. PnL(trailed, bar.C, PartLots) \in Int
    BY <1>2, PnLType, TInvFacts, ConstantsAssumption
  <2> HIDE DEF cut
  <2> QED BY <2>1, TInvFacts
<1>6. log \in Seq(TradeType)
  <2>1. Closing(trailed, bar.C, PartLots, "partial") \in TradeType
    BY <1>2, ClosingType, TInvFacts, ConstantsAssumption DEF Reasons
  <2>2. PartialTrade(trailed) \in TradeType
    BY <2>1 DEF PartialTrade, TradeType
  <2>3. Append(trades, PartialTrade(trailed)) \in Seq(TradeType)
    BY <2>2, TInvFacts
  <2> HIDE DEF cut
  <2> QED BY <2>3, TInvFacts
<1> HIDE DEF balance, log
<1>7. CASE ClosePosition(trailed, bar.C, "rule", realized, trades, pendingExits)
  BY <1>2, <1>7, CloseOK, TInvFacts DEF Reasons
<1>8. CASE ClosePosition(trailed, bar.C, "partial", realized, trades, pendingExits)
  BY <1>2, <1>8, CloseOK, TInvFacts DEF Reasons
<1>9. CASE ClosePosition(managed, bar.C, "time", balance, log, pendingExits)
  BY <1>3, <1>5, <1>6, <1>9, CloseOK, TInvFacts DEF Reasons
<1>10. CASE /\ position' = managed
            /\ realized' = balance
            /\ trades' = log
            /\ UNCHANGED << hasPosition, lastExitIndex, pendingExits >>
  <2>1. SizeOK'
    BY <1>1, <1>3, <1>10 DEF SizeOK, SizeOf
  <2>2. BookOK'
    BY <1>3, <1>5, <1>6, <1>10, <2>1, TInvFacts DEF BookOK
  <2> QED BY <1>4, <1>10, <2>2
<1> QED
  BY <1>7, <1>8, <1>9, <1>10
  DEF ManagePosition, trailed, managed, balance, log
LEMMA ManageBarType ==
  TInv /\ (\E family \in {"bracket", "limit"} : ManageBar(family)) => TInv'
<1> SUFFICES ASSUME TInv, NEW family \in {"bracket", "limit"}, ManageBar(family)
             PROVE  TInv'
  OBVIOUS
<1>1. BookOK' /\ pendingExits' \subseteq pendingExits
  BY ManageOK DEF ManageBar
<1>2. RestOK'
  BY <1>1, TInvFacts DEF ManageBar, OnBar, RestOK, Phases
<1> QED BY <1>1, <1>2, TInvParts

LEMMA MarketEntryType ==
  ASSUME TInv,
         \/ \E s \in Sides : OnBracketBar(s)
         \/ \E s \in Sides : DispatchMarket(s)
  PROVE  TInv'
<1>1. PICK s \in Sides : OnBracketBar(s) \/ DispatchMarket(s)
  OBVIOUS
<1>2. SetupOrder(s) \in OrderType
  BY SetupOrderType, TInvFacts
<1>3. BookOK' /\ pendingOrders' \subseteq OrderType
  BY <1>1, <1>2, EnterMarketOK, TInvFacts DEF OnBracketBar, DispatchMarket
<1>4. RestOK'
  BY <1>1, <1>3, TInvFacts DEF OnBracketBar, DispatchMarket, OnBar, RestOK, Phases
<1> QED BY <1>3, <1>4, TInvParts

LEMMA LimitEntryType ==
  ASSUME TInv,
         \/ \E s \in Sides, price \in Levels : OnLimitBar(s, price)
         \/ \E s \in Sides, price \in Levels : DispatchLimit(s, price)
  PROVE  TInv'
<1>1. PICK s \in Sides, price \in Levels : OnLimitBar(s, price) \/ DispatchLimit(s, price)
  OBVIOUS
<1>2. LimitOrder(s, price) \in OrderType
  BY LimitOrderType, TInvFacts
<1>3. BookOK'
  BY <1>1, TInvFacts, BookUnchanged DEF OnLimitBar, DispatchLimit
<1>4. limitOrders' \subseteq OrderType
  BY <1>1, <1>2, TInvFacts DEF OnLimitBar, DispatchLimit, EnterLimit, RestOK
<1>5. RestOK'
  BY <1>1, <1>4, TInvFacts DEF OnLimitBar, DispatchLimit, OnBar, RestOK, Phases
<1> QED BY <1>3, <1>5, TInvParts

LEMMA DeferExitType ==
  ASSUME TInv, DeferExit
  PROVE  pendingExits' \subseteq ExitType
<1>1. position.entryIndex \in Nat /\ i + 1 \in Nat
  BY TInvFacts
<1>2. [entryIndex |-> position.entryIndex, index |-> i + 1] \in ExitType
  BY <1>1 DEF ExitType
<1> QED BY <1>2, TInvFacts DEF DeferExit, RestOK

LEMMA DeferredFamiliesType ==
  ASSUME TInv,
         \/ \E s \in Sides : OnEMARibbonBar(s)
         \/ OnRegimeHoldBar
  PROVE  TInv'
<1>1. BookOK'
  BY TInvFacts, BookUnchanged DEF OnEMARibbonBar, OnRegimeHoldBar
<1>2. pendingExits' \subseteq ExitType
  BY DeferExitType, TInvFacts DEF OnEMARibbonBar, OnRegimeHoldBar, RestOK
<1>3. pendingOrders' \subseteq OrderType
  BY RibbonOrderType, RegimeHoldOrderType, TInvFacts
  DEF OnEMARibbonBar, OnRegimeHoldBar, RestOK
<1>4. RestOK'
  BY <1>2, <1>3, TInvFacts DEF OnEMARibbonBar, OnRegimeHoldBar, OnBar, RestOK, Phases
<1> QED BY <1>1, <1>4, TInvParts

LEMMA DualEMAType ==
  TInv /\ (\E signal \in BOOLEAN, stop \in Levels : OnDualEMABar(signal, stop)) => TInv'
<1> SUFFICES ASSUME TInv, NEW signal \in BOOLEAN, NEW stop \in Levels,
                    OnDualEMABar(signal, stop)
             PROVE  TInv'
  OBVIOUS
<1>1. stop \in Int
  BY ConstantsAssumption
<1>2. /\ Tightened(position, stop) \in PositionType
      /\ SizeOf(position) => SizeOf(Tightened(position, stop))
  BY <1>1, TInvFacts, TightenedType
<1>3. position' \in PositionType /\ SizeOK'
  BY <1>2, TInvFacts DEF OnDualEMABar, SizeOK, SizeOf
<1>4. BookOK'
  BY <1>3, TInvFacts DEF OnDualEMABar, BookOK
<1>5. pendingExits' \subseteq ExitType
  BY DeferExitType, TInvFacts DEF OnDualEMABar, RestOK
<1>6. pendingOrders' \subseteq OrderType
  BY RibbonOrderType, TInvFacts DEF OnDualEMABar, DualEMAOrder, RestOK, Sides
<1>7. RestOK'
  BY <1>5, <1>6, TInvFacts DEF OnDualEMABar, OnBar, RestOK, Phases
<1> QED BY <1>4, <1>7, TInvParts

LEMMA NextIndexType == TInv /\ NextIndex => TInv'
<1> SUFFICES ASSUME TInv, NextIndex PROVE TInv'
  OBVIOUS
<1>1. BookOK'
  BY TInvFacts, BookUnchanged DEF NextIndex
<1>2. i' \in 0 .. Horizon-1
  BY TInvFacts, ConstantsAssumption DEF NextIndex, ExecutionEnd, RestOK, RunConfigType
<1>3. bar' \in BarType
  BY DEF NextIndex, NoBar, BarType
<1>4. RestOK'
  BY <1>2, <1>3, TInvFacts DEF NextIndex, Clear, RestOK, Phases
<1> QED BY <1>1, <1>4, TInvParts

LEMMA FinalizeType == TInv /\ Finalize => TInv'
<1> SUFFICES ASSUME TInv, Finalize PROVE TInv'
  OBVIOUS
<1>1. BookOK' /\ pendingExits' \subseteq pendingExits
  <2>1. CASE ClosePosition(position, bar.C, "endOfTest", realized, trades,
                           Clear(pendingExits))
    BY <2>1, CloseOK, TInvFacts DEF Reasons, Clear
  <2>2. CASE pendingExits' = Clear(pendingExits) /\ UNCHANGED bookVars
    BY <2>2, TInvFacts, BookUnchanged DEF Clear
  <2> QED BY <2>1, <2>2 DEF Finalize
<1>2. RestOK'
  BY <1>1, TInvFacts DEF Finalize, RestOK, Phases, Clear
<1> QED BY <1>1, <1>2, TInvParts

LEMMA InitType == Init => TInv
<1> SUFFICES ASSUME Init PROVE TInv
  OBVIOUS
<1>1. run \in RunConfigType /\ i \in 0 .. Horizon-1
  BY ConstantsAssumption DEF Init
<1>2. BookOK
  <2>1. trades \in Seq(TradeType)
    BY DEF Init
  <2>2. position \in PositionType /\ hasPosition = FALSE
    BY FlatType DEF Init
  <2>3. lastExitIndex \in {-1} \cup Nat /\ realized \in Int
    BY DEF Init
  <2> QED BY <2>1, <2>2, <2>3 DEF BookOK, SizeOK
<1>3. bar \in BarType
  BY DEF Init, NoBar, BarType
<1>4. RestOK
  BY <1>1, <1>3 DEF Init, RestOK, Phases
<1> QED BY <1>2, <1>4, TInvParts

LEMMA StepType == TInv /\ [Next]_vars => TInv'
<1>1. TInv /\ UNCHANGED vars => TInv'
  BY DEF TInv, TypeOK, SizeOK, vars
<1>2. TInv /\ Terminated => TInv'
  BY <1>1 DEF Terminated
<1>3. TInv /\ Next => TInv'
  BY <1>2, StartBarType, FillPendingExitsType, FillPendingType, FillLimitType,
     QueueStepsType, CloseExpiredType, ResolveIntrabarExitType, ManageBarType,
     MarketEntryType, LimitEntryType, DeferredFamiliesType, DualEMAType,
     NextIndexType, FinalizeType
  DEF Next
<1> QED BY <1>1, <1>3

(* Every run of the broker is well typed: no path leaves the bar range,    *)
(* and no sequence of partial exits takes a position below zero.           *)
THEOREM TypeCorrect == Spec => []TypeOK
<1>1. TInv => TypeOK
  BY DEF TInv
<1> QED BY <1>1, InitType, StepType, PTL DEF Spec
-------------------------------------------------------------------------------
(* None of the other properties is inductive by itself.  What makes them   *)
(* so is how far the loop body has come (phase): the due orders are gone   *)
(* before the handler runs, and what a handler queues is due at the next   *)
(* bar.                                                                    *)

BeforeOrders == {"bar", "exits", "orders"}
AfterOrders  == {"limits", "slot", "bracket"}

(* Queued market orders: due at this bar until fillPending, none from then *)
(* to the handler, and due at the next bar after it.                       *)
MarketQueue ==
  /\ phase \in BeforeOrders => \A ord \in pendingOrders : ord.index = i
  /\ phase \in AfterOrders => pendingOrders = {}
  /\ phase = "onBar" /\ run.family \notin Captured => pendingOrders = {}
  /\ phase \in {"onBar", "mark"} => \A ord \in pendingOrders : ord.index = i + 1

(* Resting limit orders: placed before this bar and not past their last    *)
(* candle until fillLimits, with a candle left after it.                   *)
LimitQueue ==
  /\ limitOrders # {} => run.family \in {"limit", "capturedLimit"}
  /\ phase \in BeforeOrders \cup {"limits"} =>
       \A ord \in limitOrders : ord.placedAt < i /\ i <= ord.expireAt
  /\ phase \in {"slot", "bracket", "onBar", "mark"} =>
       \A ord \in limitOrders : ord.placedAt <= i /\ i < ord.expireAt

(* Deferred exits: of the open position, due at this bar until             *)
(* fillPendingExits, none from then to the handler, due at the next after. *)
ExitQueue ==
  /\ AtMostOne(pendingExits)
  /\ \A e \in pendingExits : hasPosition /\ e.entryIndex = position.entryIndex
  /\ pendingExits # {} => run.family \notin Captured
  /\ phase \in {"bar", "exits"} => \A e \in pendingExits : e.index = i
  /\ phase \in {"orders", "onBar"} \cup AfterOrders => pendingExits = {}
  /\ phase = "mark" => \A e \in pendingExits : e.index = i + 1

(* The flag of the dual-EMA handler: its exit is queued, or has just been  *)
(* made and nothing new was entered since.                                 *)
DualFlag ==
  dualExitPending =>
    /\ run.family = "dualEma"
    /\ phase \in {"bar", "exits", "mark"} => pendingExits # {}
    /\ phase \in {"orders", "onBar"} \cup AfterOrders =>
         ~hasPosition /\ pendingOrders = {} /\ limitOrders = {}

(* A position is opened inside the execution window.                       *)
OpenedInWindow == hasPosition => i >= ExecutionStart

OInv == SingleExposure /\ MarketQueue /\ LimitQueue /\ ExitQueue /\ DualFlag
        /\ OpenedInWindow
IInv == TInv /\ OInv
-------------------------------------------------------------------------------
(* Facts every step uses.                                                  *)
LEMMA Facts ==
  ASSUME TInv
  PROVE  /\ i \in Nat /\ ExecutionStart \in Nat /\ hasPosition \in BOOLEAN
         /\ \A ord \in pendingOrders : ord.index \in Nat
         /\ \A ord \in limitOrders : ord.placedAt \in Nat /\ ord.expireAt \in Nat
         /\ \A e \in pendingExits : e.index \in Nat /\ e.entryIndex \in Nat
<1>1. i \in Nat /\ run \in RunConfigType /\ hasPosition \in BOOLEAN
  BY TInvFacts DEF RestOK, BookOK
<1>2. ExecutionStart \in Nat
  BY <1>1, ConstantsAssumption DEF ExecutionStart, RunConfigType
<1>3. /\ \A ord \in pendingOrders : ord.index \in Nat
      /\ \A ord \in limitOrders : ord.placedAt \in Nat /\ ord.expireAt \in Nat
      /\ \A e \in pendingExits : e.index \in Nat /\ e.entryIndex \in Nat
  BY TInvFacts DEF RestOK, OrderType, ExitType
<1> QED BY <1>1, <1>2, <1>3

(* A step that closes the open position leaves no exit for it behind.      *)
LEMMA CloseDropsExits ==
  ASSUME ExitQueue, NEW p, p.entryIndex = position.entryIndex, NEW price,
         NEW reason, NEW balance, NEW log, NEW exits \in SUBSET pendingExits,
         ClosePosition(p, price, reason, balance, log, exits)
  PROVE  pendingExits' = {} /\ ~hasPosition' /\ lastExitIndex' = i
  BY DEF ExitQueue, ClosePosition

(* An order that is let in finds nothing else.                             *)
LEMMA OpensOrNot ==
  ASSUME NEW ord, NEW fill, OpenPosition(ord, fill)
  PROVE  hasPosition' => hasPosition \/ i >= ExecutionStart
  BY DEF OpenPosition, ExecutionIndexAllowed

LEMMA InitInv == Init => IInv
<1>1. Init => OInv
  BY DEF Init, OInv, SingleExposure, AtMostOne, MarketQueue, LimitQueue, ExitQueue,
         DualFlag, OpenedInWindow, BeforeOrders, AfterOrders
<1> QED BY <1>1, InitType DEF IInv

LEMMA StartBarInv == IInv /\ StartBar => OInv'
<1> SUFFICES ASSUME IInv, StartBar PROVE OInv'
  OBVIOUS
<1> USE DEF IInv, OInv, StartBar, bookVars
<1>1. UNCHANGED << run, i, position, hasPosition, dualExitPending >>
  OBVIOUS
<1>2. pendingOrders' \subseteq pendingOrders /\ limitOrders' \subseteq limitOrders
      /\ pendingExits' \subseteq pendingExits
  OBVIOUS
<1>3. phase = "bar" /\ phase' \in {"orders", "exits"}
      /\ (phase' = "orders" => run.family \in Captured)
  OBVIOUS
<1>4. SingleExposure'
  BY <1>1, <1>2 DEF SingleExposure, AtMostOne
<1>5. MarketQueue' /\ LimitQueue'
  BY <1>1, <1>2, <1>3 DEF MarketQueue, LimitQueue, BeforeOrders, AfterOrders
<1>6. ExitQueue'
  BY <1>1, <1>2, <1>3 DEF ExitQueue, AtMostOne, BeforeOrders, AfterOrders
<1>7. DualFlag'
  <2>1. ASSUME dualExitPending PROVE pendingExits' # {} /\ phase' = "exits"
    <3>1. pendingExits # {} /\ run.family = "dualEma"
      BY <2>1 DEF DualFlag
    <3>2. hasPosition
      BY <3>1 DEF ExitQueue
    <3>3. ~BeforeWindow
      BY <3>2, Facts DEF OpenedInWindow, BeforeWindow
    <3> QED BY <3>1, <3>3 DEF Captured
  <2> QED BY <1>1, <2>1 DEF DualFlag, AfterOrders
<1>8. OpenedInWindow'
  BY <1>1 DEF OpenedInWindow, ExecutionStart
<1> QED BY <1>4, <1>5, <1>6, <1>7, <1>8

LEMMA FillPendingExitsInv == IInv /\ FillPendingExits => OInv'
<1> SUFFICES ASSUME IInv, FillPendingExits PROVE OInv'
  OBVIOUS
<1> USE DEF IInv, OInv
<1> DEFINE due  == {e \in pendingExits : e.index <= i}
           rest == pendingExits \ due
<1>1. UNCHANGED << run, i, pendingOrders, limitOrders, dualExitPending >>
      /\ phase = "exits" /\ phase' = "orders"
  BY DEF FillPendingExits
<1>2. due = pendingExits /\ rest = {}
  BY <1>1, Facts DEF ExitQueue
<1>3. /\ pendingExits' = {}
      /\ hasPosition' => hasPosition /\ pendingExits = {}
      /\ hasPosition' => UNCHANGED position
  <2>1. CASE hasPosition /\ \E e \in due : e.entryIndex = position.entryIndex
    BY <1>2, <2>1, CloseDropsExits DEF FillPendingExits
  <2>2. CASE ~(hasPosition /\ \E e \in due : e.entryIndex = position.entryIndex)
    <3>1. pendingExits = {}
      BY <1>2, <2>2 DEF ExitQueue
    <3> QED BY <1>2, <2>2, <3>1 DEF FillPendingExits, bookVars
  <2> QED BY <2>1, <2>2
<1>4. SingleExposure'
  BY <1>1, <1>3 DEF SingleExposure
<1>5. MarketQueue' /\ LimitQueue'
  BY <1>1 DEF MarketQueue, LimitQueue, BeforeOrders, AfterOrders
<1>6. ExitQueue'
  BY <1>3, <1>1 DEF ExitQueue, AtMostOne, AfterOrders
<1>7. DualFlag'
  <2>1. ASSUME dualExitPending
        PROVE  ~hasPosition' /\ pendingOrders = {} /\ limitOrders = {}
    <3>1. pendingExits # {} /\ hasPosition
      BY <1>1, <2>1 DEF DualFlag, ExitQueue
    <3> QED BY <1>3, <3>1 DEF SingleExposure
  <2> QED BY <1>1, <2>1 DEF DualFlag, AfterOrders
<1>8. OpenedInWindow'
  BY <1>1, <1>3 DEF OpenedInWindow, ExecutionStart
<1> QED BY <1>4, <1>5, <1>6, <1>7, <1>8
LEMMA FillPendingInv ==
  IInv /\ (\E ord \in pendingOrders : FillPending(ord)) => OInv'
<1> SUFFICES ASSUME IInv, NEW ord \in pendingOrders, FillPending(ord) PROVE OInv'
  OBVIOUS
<1> USE DEF IInv, OInv
<1>1. /\ pendingOrders' = {} /\ limitOrders = {} /\ ~hasPosition
      /\ ~dualExitPending /\ pendingExits = {} /\ phase = "orders"
  BY DEF FillPending, SingleExposure, AtMostOne, DualFlag, ExitQueue
<1>2. UNCHANGED << run, i, phase, limitOrders, pendingExits, dualExitPending >>
  BY DEF FillPending
<1>3. SingleExposure'
  BY <1>1, <1>2 DEF SingleExposure, AtMostOne
<1>4. MarketQueue' /\ LimitQueue' /\ ExitQueue' /\ DualFlag'
  BY <1>1, <1>2 DEF MarketQueue, LimitQueue, ExitQueue, DualFlag, AtMostOne
<1>5. OpenedInWindow'
  BY <1>1, <1>2, OpensOrNot DEF FillPending, OpenedInWindow, ExecutionStart
<1> QED BY <1>3, <1>4, <1>5

LEMMA FillLimitInv ==
  IInv /\ (\E ord \in limitOrders : FillLimit(ord)) => OInv'
<1> SUFFICES ASSUME IInv, NEW ord \in limitOrders, FillLimit(ord) PROVE OInv'
  OBVIOUS
<1> USE DEF IInv, OInv
<1>1. /\ limitOrders' = {} /\ pendingOrders = {} /\ ~hasPosition
      /\ ~dualExitPending /\ pendingExits = {} /\ phase = "limits"
  BY DEF FillLimit, SingleExposure, AtMostOne, DualFlag, ExitQueue, AfterOrders
<1>2. UNCHANGED << run, i, phase, pendingOrders, pendingExits, dualExitPending >>
  BY DEF FillLimit
<1>3. SingleExposure'
  BY <1>1, <1>2 DEF SingleExposure, AtMostOne
<1>4. MarketQueue' /\ LimitQueue' /\ ExitQueue' /\ DualFlag'
  BY <1>1, <1>2 DEF MarketQueue, LimitQueue, ExitQueue, DualFlag, AtMostOne
<1>5. OpenedInWindow'
  BY <1>1, <1>2, OpensOrNot DEF FillLimit, OpenedInWindow, ExecutionStart
<1> QED BY <1>3, <1>4, <1>5

LEMMA FillPendingDoneInv == IInv /\ FillPendingDone => OInv'
<1> SUFFICES ASSUME IInv, FillPendingDone PROVE OInv'
  OBVIOUS
<1> USE DEF IInv, OInv, FillPendingDone, orderVars, bookVars
<1>1. pendingOrders = {}
  BY Facts DEF MarketQueue, BeforeOrders
<1>2. MarketQueue' /\ LimitQueue'
  BY <1>1 DEF MarketQueue, LimitQueue, BeforeOrders, AfterOrders
<1>3. ExitQueue' /\ DualFlag'
  BY DEF ExitQueue, DualFlag, AtMostOne, AfterOrders
<1>4. SingleExposure' /\ OpenedInWindow'
  BY DEF SingleExposure, OpenedInWindow, ExecutionStart, AtMostOne
<1> QED BY <1>2, <1>3, <1>4

LEMMA ExpireLimitInv ==
  IInv /\ (\E ord \in limitOrders : ExpireLimit(ord)) => OInv'
<1> SUFFICES ASSUME IInv, NEW ord \in limitOrders, ExpireLimit(ord) PROVE OInv'
  OBVIOUS
<1> USE DEF IInv, OInv, ExpireLimit, bookVars
<1>1. limitOrders' \subseteq limitOrders
  OBVIOUS
<1>2. MarketQueue' /\ LimitQueue'
  BY <1>1 DEF MarketQueue, LimitQueue
<1>3. ExitQueue' /\ DualFlag'
  BY <1>1 DEF ExitQueue, DualFlag, AtMostOne
<1>4. SingleExposure' /\ OpenedInWindow'
  BY <1>1 DEF SingleExposure, OpenedInWindow, ExecutionStart, AtMostOne
<1> QED BY <1>2, <1>3, <1>4

LEMMA FillLimitsDoneInv == IInv /\ FillLimitsDone => OInv'
<1> SUFFICES ASSUME IInv, FillLimitsDone PROVE OInv'
  OBVIOUS
<1> USE DEF IInv, OInv, FillLimitsDone, orderVars, bookVars
<1>1. \A ord \in limitOrders : ord.placedAt <= i /\ i < ord.expireAt
  BY Facts DEF LimitQueue, LimitExpired
<1>2. MarketQueue' /\ LimitQueue'
  BY <1>1 DEF MarketQueue, LimitQueue, BeforeOrders, AfterOrders
<1>3. ExitQueue' /\ DualFlag'
  BY DEF ExitQueue, DualFlag, AtMostOne, AfterOrders
<1>4. SingleExposure' /\ OpenedInWindow'
  BY DEF SingleExposure, OpenedInWindow, ExecutionStart, AtMostOne
<1> QED BY <1>2, <1>3, <1>4

LEMMA BracketStepsInv ==
  IInv /\ (CloseExpiredWindowPosition \/ ResolveIntrabarExit) => OInv'
<1> SUFFICES ASSUME IInv, CloseExpiredWindowPosition \/ ResolveIntrabarExit
             PROVE  OInv'
  OBVIOUS
<1> USE DEF IInv, OInv
<1>1. /\ UNCHANGED << run, i, pendingOrders, limitOrders, dualExitPending >>
      /\ phase \in AfterOrders /\ phase' \in {"bracket", "onBar"}
  BY DEF CloseExpiredWindowPosition, ResolveIntrabarExit, AfterOrders
<1>2. pendingExits = {} /\ (phase' = "onBar" => phase = "bracket")
  BY <1>1 DEF ExitQueue, CloseExpiredWindowPosition, ResolveIntrabarExit
<1>3. pendingExits' = {} /\ (hasPosition' => hasPosition)
  BY <1>2 DEF CloseExpiredWindowPosition, ResolveIntrabarExit, ClosePosition, bookVars
<1>4. SingleExposure' /\ OpenedInWindow'
  BY <1>1, <1>3 DEF SingleExposure, OpenedInWindow, ExecutionStart
<1>5. MarketQueue'
  BY <1>1 DEF MarketQueue, BeforeOrders, AfterOrders
<1>6. LimitQueue'
  BY <1>1 DEF LimitQueue, BeforeOrders, AfterOrders, CloseExpiredWindowPosition,
              ResolveIntrabarExit
<1>7. ExitQueue' /\ DualFlag'
  BY <1>1, <1>3 DEF ExitQueue, DualFlag, AtMostOne, AfterOrders
<1> QED BY <1>4, <1>5, <1>6, <1>7
(* At the handler of a run that is not scheduled nothing is queued but a   *)
(* limit order, so what it queues is alone.                                *)
LEMMA HandlerFacts ==
  ASSUME IInv, phase = "onBar"
  PROVE  /\ pendingExits = {}
         /\ run.family \notin Captured => pendingOrders = {}
         /\ run.family \notin {"limit", "capturedLimit"} => limitOrders = {}
         /\ dualExitPending => run.family = "dualEma" /\ ~hasPosition
  BY DEF IInv, OInv, MarketQueue, LimitQueue, ExitQueue, DualFlag

LEMMA SilentInv == IInv /\ (\E family \in Families : Silent(family)) => OInv'
<1> SUFFICES ASSUME IInv, NEW family \in Families, Silent(family) PROVE OInv'
  OBVIOUS
<1> USE DEF IInv, OInv, Silent, OnBar, orderVars, bookVars
<1>1. SingleExposure' /\ OpenedInWindow'
  BY DEF SingleExposure, OpenedInWindow, ExecutionStart, AtMostOne
<1>2. MarketQueue' /\ LimitQueue'
  BY DEF MarketQueue, LimitQueue, BeforeOrders, AfterOrders
<1>3. ExitQueue' /\ DualFlag'
  BY HandlerFacts DEF ExitQueue, DualFlag, AtMostOne, AfterOrders
<1> QED BY <1>1, <1>2, <1>3

LEMMA ManageBarInv ==
  IInv /\ (\E family \in {"bracket", "limit"} : ManageBar(family)) => OInv'
<1> SUFFICES ASSUME IInv, NEW family \in {"bracket", "limit"}, ManageBar(family)
             PROVE  OInv'
  OBVIOUS
<1> USE DEF IInv, OInv
<1>1. /\ UNCHANGED << run, i, pendingOrders, limitOrders, dualExitPending >>
      /\ phase = "onBar" /\ phase' = "mark" /\ hasPosition /\ run.family = family
  BY DEF ManageBar, OnBar
<1>2. pendingOrders = {} /\ limitOrders = {} /\ pendingExits = {} /\ ~dualExitPending
  BY <1>1, HandlerFacts DEF SingleExposure
<1>3. pendingExits' = {}
  BY <1>2, ManageOK DEF ManageBar
<1> QED
  BY <1>1, <1>2, <1>3
  DEF SingleExposure, OpenedInWindow, ExecutionStart, AtMostOne, MarketQueue,
      LimitQueue, ExitQueue, DualFlag, BeforeOrders, AfterOrders

LEMMA MarketEntryInv ==
  ASSUME IInv,
         \/ \E s \in Sides : OnBracketBar(s)
         \/ \E s \in Sides : DispatchMarket(s)
  PROVE  OInv'
<1> USE DEF IInv, OInv
<1>1. PICK s \in Sides : OnBracketBar(s) \/ DispatchMarket(s)
  OBVIOUS
<1>2. /\ UNCHANGED << run, i, limitOrders, pendingExits, dualExitPending >>
      /\ phase = "onBar" /\ phase' \in {"onBar", "mark"}
      /\ run.family \in {"bracket", "capturedMarket"}
      /\ phase' = "onBar" => run.family \in Captured
      /\ EnterMarket(SetupOrder(s))
  BY <1>1 DEF OnBracketBar, DispatchMarket, OnBar, Captured
<1>3. pendingExits = {} /\ limitOrders = {} /\ ~dualExitPending
  BY <1>2, HandlerFacts
<1>4. CASE Occupied
  <2>1. UNCHANGED << pendingOrders, hasPosition >>
    BY <1>2, <1>4 DEF EnterMarket
  <2> QED
    BY <1>2, <1>3, <2>1
    DEF SingleExposure, OpenedInWindow, ExecutionStart, AtMostOne, MarketQueue,
        LimitQueue, ExitQueue, DualFlag, BeforeOrders, AfterOrders
<1>5. CASE ~Occupied /\ run.nextOpen
  <2>1. /\ pendingOrders' = {AtNextOpen(SetupOrder(s))} /\ ~hasPosition'
        /\ AtNextOpen(SetupOrder(s)).index = i + 1
    BY <1>2, <1>5, AtNextOpenType, SetupOrderType, TInvFacts DEF EnterMarket, Occupied
  <2> QED
    BY <1>2, <1>3, <2>1
    DEF SingleExposure, OpenedInWindow, ExecutionStart, AtMostOne, MarketQueue,
        LimitQueue, ExitQueue, DualFlag, BeforeOrders, AfterOrders
<1>6. CASE ~Occupied /\ ~run.nextOpen
  <2>1. /\ pendingOrders = {} /\ pendingOrders' = {}
        /\ hasPosition' => i >= ExecutionStart
    BY <1>2, <1>6, OpensOrNot DEF EnterMarket, Occupied
  <2> QED
    BY <1>2, <1>3, <2>1
    DEF SingleExposure, OpenedInWindow, ExecutionStart, AtMostOne, MarketQueue,
        LimitQueue, ExitQueue, DualFlag, BeforeOrders, AfterOrders
<1> QED BY <1>4, <1>5, <1>6

LEMMA LimitEntryInv ==
  ASSUME IInv,
         \/ \E s \in Sides, price \in Levels : OnLimitBar(s, price)
         \/ \E s \in Sides, price \in Levels : DispatchLimit(s, price)
  PROVE  OInv'
<1> USE DEF IInv, OInv
<1>1. PICK s \in Sides, price \in Levels : OnLimitBar(s, price) \/ DispatchLimit(s, price)
  OBVIOUS
<1>2. /\ UNCHANGED << run, i, pendingOrders, pendingExits, dualExitPending, hasPosition >>
      /\ phase = "onBar" /\ phase' \in {"onBar", "mark"}
      /\ run.family \in {"limit", "capturedLimit"}
  BY <1>1 DEF OnLimitBar, DispatchLimit, OnBar, bookVars
<1>3. pendingExits = {} /\ ~dualExitPending
  BY <1>2, HandlerFacts
<1>4. \/ UNCHANGED limitOrders
      \/ ~Occupied /\ limitOrders' = {LimitOrder(s, price)}
  BY <1>1 DEF OnLimitBar, DispatchLimit, EnterLimit, Occupied
<1>5. SingleExposure' /\ OpenedInWindow'
  BY <1>2, <1>4 DEF SingleExposure, OpenedInWindow, ExecutionStart, AtMostOne, Occupied
<1>6. MarketQueue'
  BY <1>1, <1>2 DEF MarketQueue, BeforeOrders, AfterOrders, OnLimitBar, DispatchLimit,
                    OnBar
<1>7. LimitQueue'
  <2>1. /\ LimitOrder(s, price).placedAt = i
        /\ LimitOrder(s, price).expireAt = i + ExpireBars
    BY LimitOrderType, TInvFacts
  <2> QED
    BY <1>2, <1>4, <2>1, Facts, ConstantsAssumption DEF LimitQueue, BeforeOrders
<1>8. ExitQueue' /\ DualFlag'
  BY <1>2, <1>3 DEF ExitQueue, DualFlag, AtMostOne, AfterOrders
<1> QED BY <1>5, <1>6, <1>7, <1>8
LEMMA DeferredFamiliesInv ==
  ASSUME IInv,
         \/ \E s \in Sides : OnEMARibbonBar(s)
         \/ OnRegimeHoldBar
  PROVE  OInv'
<1> USE DEF IInv, OInv
<1>1. /\ UNCHANGED << run, i, position, hasPosition, limitOrders, dualExitPending >>
      /\ phase = "onBar" /\ phase' = "mark" /\ run.family \in {"ribbon", "regimeHold"}
  BY DEF OnEMARibbonBar, OnRegimeHoldBar, OnBar, bookVars
<1>2. /\ pendingExits = {} /\ pendingOrders = {} /\ limitOrders = {}
      /\ ~dualExitPending
  BY <1>1, HandlerFacts DEF Captured
<1>3. CASE hasPosition
  <2>1. pendingOrders' = {}
    BY <1>2, <1>3 DEF OnEMARibbonBar, OnRegimeHoldBar
  <2>2. \/ pendingExits' = {}
        \/ pendingExits' = {[entryIndex |-> position.entryIndex, index |-> i + 1]}
    BY <1>2, <1>3 DEF OnEMARibbonBar, OnRegimeHoldBar, DeferExit
  <2> QED
    BY <1>1, <1>2, <1>3, <2>1, <2>2
    DEF SingleExposure, OpenedInWindow, ExecutionStart, AtMostOne, MarketQueue,
        LimitQueue, ExitQueue, DualFlag, BeforeOrders, AfterOrders, Captured
<1>4. CASE ~hasPosition
  <2>1. pendingExits' = {}
    BY <1>2, <1>4 DEF OnEMARibbonBar, OnRegimeHoldBar
  <2>2. \/ pendingOrders' = {}
        \/ \E s \in Sides : pendingOrders' = {RibbonOrder(s)}
        \/ pendingOrders' = {RegimeHoldOrder}
    BY <1>2, <1>4 DEF OnEMARibbonBar, OnRegimeHoldBar
  <2>3. /\ \A s \in Sides : RibbonOrder(s).index = i + 1
        /\ RegimeHoldOrder.index = i + 1
    BY RibbonOrderType, RegimeHoldOrderType, TInvFacts
  <2> QED
    BY <1>1, <1>2, <1>4, <2>1, <2>2, <2>3
    DEF SingleExposure, OpenedInWindow, ExecutionStart, AtMostOne, MarketQueue,
        LimitQueue, ExitQueue, DualFlag, BeforeOrders, AfterOrders
<1> QED BY <1>3, <1>4

LEMMA DualEMAInv ==
  IInv /\ (\E signal \in BOOLEAN, stop \in Levels : OnDualEMABar(signal, stop))
  => OInv'
<1> SUFFICES ASSUME IInv, NEW signal \in BOOLEAN, NEW stop \in Levels,
                    OnDualEMABar(signal, stop)
             PROVE  OInv'
  OBVIOUS
<1> USE DEF IInv, OInv
<1>1. /\ UNCHANGED << run, i, hasPosition, limitOrders, lastExitIndex >>
      /\ phase = "onBar" /\ phase' = "mark" /\ run.family = "dualEma"
  BY DEF OnDualEMABar, OnBar
<1>2. /\ pendingExits = {} /\ pendingOrders = {} /\ limitOrders = {}
      /\ dualExitPending => ~hasPosition
  BY <1>1, HandlerFacts DEF Captured
<1>3. position'.entryIndex = position.entryIndex
  <2>1. stop \in Int
    BY ConstantsAssumption
  <2>2. Tightened(position, stop).entryIndex = position.entryIndex
    BY <2>1, TightenedType, TInvFacts DEF SameIdentity
  <2> QED BY <2>2 DEF OnDualEMABar
<1>4. CASE hasPosition /\ signal /\ lastExitIndex # i
  <2>1. /\ dualExitPending' /\ UNCHANGED pendingOrders
        /\ pendingExits' = {[entryIndex |-> position.entryIndex, index |-> i + 1]}
    BY <1>2, <1>4 DEF OnDualEMABar, DualExitSettled, DeferExit
  <2> QED
    BY <1>1, <1>2, <1>3, <1>4, <2>1
    DEF SingleExposure, OpenedInWindow, ExecutionStart, AtMostOne, MarketQueue,
        LimitQueue, ExitQueue, DualFlag, BeforeOrders, AfterOrders, Captured
<1>5. CASE ~(hasPosition /\ signal /\ lastExitIndex # i)
  <2>1. pendingExits' = {} /\ ~dualExitPending'
    BY <1>2, <1>5, TInvFacts DEF OnDualEMABar, DualExitSettled, RestOK
  <2>2. \/ pendingOrders' = {}
        \/ pendingOrders' = {RibbonOrder(1)} /\ ~hasPosition
    BY <1>2 DEF OnDualEMABar, DualEMAOrder
  <2>3. RibbonOrder(1).index = i + 1
    BY RibbonOrderType, TInvFacts DEF Sides
  <2> QED
    BY <1>1, <1>2, <2>1, <2>2, <2>3
    DEF SingleExposure, OpenedInWindow, ExecutionStart, AtMostOne, MarketQueue,
        LimitQueue, ExitQueue, DualFlag, BeforeOrders, AfterOrders
<1> QED BY <1>4, <1>5

LEMMA NextIndexInv == IInv /\ NextIndex => OInv'
<1> SUFFICES ASSUME IInv, NextIndex PROVE OInv'
  OBVIOUS
<1> USE DEF IInv, OInv
<1>1. /\ UNCHANGED << run, position, hasPosition, dualExitPending >> /\ i' = i + 1
      /\ phase = "mark" /\ phase' = "bar" /\ i \in Nat /\ ExecutionStart \in Nat
  BY Facts DEF NextIndex, bookVars
<1>2. pendingOrders' \subseteq pendingOrders /\ limitOrders' \subseteq limitOrders
      /\ pendingExits' \subseteq pendingExits
  BY DEF NextIndex, Clear
<1>3. SingleExposure'
  BY <1>1, <1>2 DEF SingleExposure, AtMostOne
<1>4. MarketQueue'
  BY <1>1, <1>2 DEF MarketQueue, BeforeOrders, AfterOrders
<1>5. LimitQueue'
  BY <1>1, <1>2, Facts DEF LimitQueue, BeforeOrders
<1>6. ExitQueue'
  BY <1>1, <1>2 DEF ExitQueue, AtMostOne, AfterOrders
<1>7. DualFlag'
  <2>1. ASSUME dualExitPending PROVE pendingExits' # {} /\ run.family = "dualEma"
    <3>1. pendingExits # {} /\ run.family = "dualEma" /\ hasPosition
      BY <1>1, <2>1 DEF DualFlag, ExitQueue
    <3>2. ~BeforeWindow
      BY <1>1, <3>1 DEF OpenedInWindow, BeforeWindow
    <3> QED BY <3>1, <3>2 DEF NextIndex, Clear
  <2> QED BY <1>1, <2>1 DEF DualFlag, AfterOrders
<1>8. OpenedInWindow'
  BY <1>1 DEF OpenedInWindow, ExecutionStart
<1> QED BY <1>3, <1>4, <1>5, <1>6, <1>7, <1>8

LEMMA FinalizeInv == IInv /\ Finalize => OInv'
<1> SUFFICES ASSUME IInv, Finalize PROVE OInv'
  OBVIOUS
<1> USE DEF IInv, OInv
<1>1. /\ UNCHANGED << run, i, dualExitPending >> /\ phase' = "done"
      /\ phase = "mark"
  BY DEF Finalize
<1>2. pendingOrders' \subseteq pendingOrders /\ limitOrders' \subseteq limitOrders
  BY DEF Finalize, Clear
<1>3. \/ pendingExits' = {} /\ ~hasPosition'
      \/ pendingExits' \subseteq pendingExits /\ UNCHANGED << position, hasPosition >>
  <2>1. CASE LiquidationDue
    BY <2>1, CloseDropsExits DEF Finalize, Clear
  <2>2. CASE ~LiquidationDue
    BY <2>2 DEF Finalize, Clear, bookVars
  <2> QED BY <2>1, <2>2
<1>4. SingleExposure' /\ OpenedInWindow'
  BY <1>1, <1>2, <1>3 DEF SingleExposure, OpenedInWindow, ExecutionStart, AtMostOne
<1>5. MarketQueue' /\ LimitQueue'
  BY <1>1, <1>2 DEF MarketQueue, LimitQueue, BeforeOrders, AfterOrders
<1>6. ExitQueue' /\ DualFlag'
  BY <1>1, <1>2, <1>3 DEF ExitQueue, DualFlag, AtMostOne, AfterOrders
<1> QED BY <1>4, <1>5, <1>6
-------------------------------------------------------------------------------
LEMMA StepInv == IInv /\ [Next]_vars => IInv'
<1>1. IInv /\ UNCHANGED vars => OInv'
  BY DEF IInv, OInv, vars, SingleExposure, MarketQueue, LimitQueue, ExitQueue,
         DualFlag, OpenedInWindow, AtMostOne, ExecutionStart
<1>2. IInv /\ Terminated => OInv'
  BY <1>1 DEF Terminated
<1>3. IInv /\ Next => OInv'
  BY <1>2, StartBarInv, FillPendingExitsInv, FillPendingInv, FillPendingDoneInv,
     FillLimitInv, ExpireLimitInv, FillLimitsDoneInv, BracketStepsInv, SilentInv,
     ManageBarInv, MarketEntryInv, LimitEntryInv, DeferredFamiliesInv, DualEMAInv,
     NextIndexInv, FinalizeInv
  DEF Next
<1> QED BY <1>1, <1>3, StepType DEF IInv

LEMMA Inductive == Spec => []IInv
  BY InitInv, StepInv, PTL DEF Spec

(* A position, a queued market order and a resting limit order exclude one *)
(* another, whatever the family, the window, the fills and the signals.    *)
THEOREM Exposure == Spec => []SingleExposure
<1>1. IInv => SingleExposure
  BY DEF IInv, OInv
<1> QED BY <1>1, Inductive, PTL

(* A deferred exit always belongs to the open position, and the dual-EMA   *)
(* flag is never left waiting for an exit nobody makes.                    *)
THEOREM ExitsMatch == Spec => []ExitsMatchPosition
<1>1. IInv => ExitsMatchPosition
  BY DEF IInv, OInv, ExitQueue, DualFlag, ExitsMatchPosition
<1> QED BY <1>1, Inductive, PTL

(* Whatever is queued between two bars is due at the coming bar, or is a   *)
(* limit order with candles left.                                          *)
THEOREM Deadlines == Spec => []OrdersOnTime
<1>1. IInv => OrdersOnTime
  BY DEF IInv, OInv, MarketQueue, LimitQueue, ExitQueue, OrdersOnTime, BeforeOrders
<1> QED BY <1>1, Inductive, PTL
LEMMA UnchangedPersists ==
  ASSUME TInv, UNCHANGED position
  PROVE  SamePositionTightens
<1>1. position.sl \in Int /\ position.side \in Int /\ position.size \in Int
  BY TInvFacts DEF PositionType, Sides
<1>2. (position.sl - position.sl) * position.side >= 0 /\ position.size <= position.size
  BY <1>1
<1> QED BY <1>2 DEF SamePositionTightens

LEMMA StepPersists ==
  IInv /\ [Next]_vars => (hasPosition /\ hasPosition' => SamePositionTightens)
<1> SUFFICES ASSUME IInv, [Next]_vars, hasPosition, hasPosition'
             PROVE  SamePositionTightens
  OBVIOUS
<1>1. TInv /\ pendingOrders = {} /\ limitOrders = {} /\ Occupied
  BY DEF IInv, OInv, SingleExposure, Occupied
<1>2. CASE \E family \in {"bracket", "limit"} : ManageBar(family)
  BY <1>1, <1>2, ManageOK DEF ManageBar, Tighter, SameIdentity, SamePositionTightens
<1>3. CASE \E signal \in BOOLEAN, stop \in Levels : OnDualEMABar(signal, stop)
  <2>1. PICK signal \in BOOLEAN, stop \in Levels : OnDualEMABar(signal, stop)
    BY <1>3
  <2>2. CASE position' = Tightened(position, stop)
    <3>1. stop \in Int
      BY ConstantsAssumption
    <3>2. /\ SameIdentity(position, Tightened(position, stop))
          /\ Tightened(position, stop).size = position.size
          /\ (Tightened(position, stop).sl - position.sl) * position.side >= 0
      BY <1>1, <3>1, TightenedType, TInvFacts
    <3>3. position.size <= position.size
      BY <1>1, TInvFacts DEF PositionType
    <3> QED BY <2>2, <3>2, <3>3 DEF SameIdentity, SamePositionTightens
  <2>3. CASE UNCHANGED position
    BY <1>1, <2>3, UnchangedPersists
  <2> QED BY <2>1, <2>2, <2>3 DEF OnDualEMABar
<1>4. CASE UNCHANGED position
  BY <1>1, <1>4, UnchangedPersists
<1>5. CASE \/ FillPendingExits \/ CloseExpiredWindowPosition \/ ResolveIntrabarExit
           \/ Finalize
  <2>1. UNCHANGED position
    BY <1>5 DEF FillPendingExits, CloseExpiredWindowPosition, ResolveIntrabarExit,
                Finalize, ClosePosition, bookVars
  <2> QED BY <1>1, <2>1, UnchangedPersists
<1>6. CASE \/ \E s \in Sides : OnBracketBar(s)
           \/ \E s \in Sides : DispatchMarket(s)
  <2>1. UNCHANGED position
    BY <1>1, <1>6 DEF OnBracketBar, DispatchMarket, EnterMarket
  <2> QED BY <1>1, <2>1, UnchangedPersists
<1>7. CASE UNCHANGED bookVars
  BY <1>4, <1>7 DEF bookVars
<1>8. CASE \/ StartBar \/ FillPendingDone \/ FillLimitsDone \/ NextIndex
           \/ \E ord \in limitOrders : ExpireLimit(ord)
           \/ \E family \in Families : Silent(family)
           \/ \E s \in Sides, price \in Levels : OnLimitBar(s, price)
           \/ \E s \in Sides : OnEMARibbonBar(s)
           \/ OnRegimeHoldBar
           \/ \E s \in Sides, price \in Levels : DispatchLimit(s, price)
           \/ Terminated \/ UNCHANGED vars
  <2>1. UNCHANGED bookVars
    BY <1>8 DEF StartBar, FillPendingDone, FillLimitsDone, NextIndex, ExpireLimit,
                Silent, OnLimitBar, OnEMARibbonBar, OnRegimeHoldBar, DispatchLimit,
                Terminated, vars, bookVars
  <2> QED BY <1>7, <2>1
<1> QED
  BY <1>1, <1>2, <1>3, <1>5, <1>6, <1>8 DEF Next

(* An open position is never replaced by another, never grows, and its     *)
(* stop never loosens, in any step of the loop.                            *)
THEOREM Persists == Spec => PositionPersists
<1>1. IInv /\ [Next]_vars => [hasPosition /\ hasPosition' => SamePositionTightens]_vars
  BY StepPersists
<1> QED BY <1>1, Inductive, PTL DEF Spec, PositionPersists
-------------------------------------------------------------------------------
(* The execution window.  A step may add trades of the open position that  *)
(* end at this bar, and open a position at this bar, if the window allows; *)
(* otherwise the trades and the position stay what they are.               *)
Inherited(n) == n \in DOMAIN trades /\ trades'[n] = trades[n]
EndsNow(t) == hasPosition /\ t.entryIndex = position.entryIndex /\ t.exitIndex = i
SameSlot(p) == p.entryIndex = position.entryIndex /\ p.slotEnd = position.slotEnd

Carried ==
  /\ \A n \in DOMAIN trades' : Inherited(n) \/ EndsNow(trades'[n])
  /\ hasPosition' =>
       \/ hasPosition /\ SameSlot(position')
       \/ ~hasPosition /\ position'.entryIndex = i /\ ExecutionIndexAllowed(i)

InWindow ==
  /\ i <= ExecutionEnd
  /\ hasPosition => ExecutionIndexAllowed(position.entryIndex)
TradesInWindow ==
  \A n \in DOMAIN trades : /\ ExecutionIndexAllowed(trades[n].entryIndex)
                           /\ ExecutionIndexAllowed(trades[n].exitIndex)

(* From the bracket on, a position's slot still has the current bar.       *)
AfterSlot == {"bracket", "onBar", "mark"}
SlotAhead == phase \in AfterSlot /\ hasPosition => i < position.slotEnd

(* No order of a bar before the window survives that bar.                  *)
WarmUpForgotten ==
  phase = "bar" /\ i <= ExecutionStart => pendingOrders = {} /\ limitOrders = {}

WInv == IInv /\ InWindow /\ TradesInWindow /\ SlotAhead /\ WarmUpForgotten

LEMMA AppendedAt ==
  ASSUME NEW S, NEW log \in Seq(S), NEW t \in S, NEW n \in DOMAIN Append(log, t)
  PROVE  (n \in DOMAIN log /\ Append(log, t)[n] = log[n]) \/ Append(log, t)[n] = t
OBVIOUS

(* The end of the position p, which is the open one as far as its trade    *)
(* shows, on top of a log whose new trades end now as well.                *)
LEMMA CloseCarries ==
  ASSUME TInv, hasPosition, NEW p \in PositionType, p.entryIndex = position.entryIndex,
         NEW price \in Int, NEW reason \in Reasons, NEW balance, NEW exits,
         NEW log \in Seq(TradeType),
         \A n \in DOMAIN log : (n \in DOMAIN trades /\ log[n] = trades[n]) \/ EndsNow(log[n]),
         ClosePosition(p, price, reason, balance, log, exits)
  PROVE  Carried /\ ~hasPosition'
<1> DEFINE t == Closing(p, price, p.size, reason)
<1>1. t \in TradeType
  BY ClosingType, TInvFacts DEF PositionType
<1>2. t.entryIndex = position.entryIndex /\ t.exitIndex = i
  BY DEF Closing
<1> HIDE DEF t
<1>3. trades' = Append(log, t) /\ ~hasPosition'
  BY DEF ClosePosition, t
<1>4. ASSUME NEW n \in DOMAIN trades'
      PROVE  Inherited(n) \/ EndsNow(trades'[n])
  <2>1. (n \in DOMAIN log /\ trades'[n] = log[n]) \/ trades'[n] = t
    BY <1>1, <1>3, AppendedAt
  <2> QED BY <1>2, <2>1 DEF Inherited, EndsNow
<1> QED BY <1>3, <1>4 DEF Carried

LEMMA CloseOpenCarries ==
  ASSUME TInv, hasPosition, NEW price \in Int, NEW reason \in Reasons, NEW exits,
         ClosePosition(position, price, reason, realized, trades, exits)
  PROVE  Carried /\ ~hasPosition'
BY CloseCarries, TInvFacts

LEMMA KeepsCarries ==
  ASSUME trades' = trades, hasPosition' => hasPosition /\ SameSlot(position')
  PROVE  Carried
BY DEF Carried, Inherited

LEMMA BookCarries ==
  ASSUME UNCHANGED bookVars
  PROVE  Carried
BY KeepsCarries DEF bookVars, SameSlot

LEMMA OpenCarries ==
  ASSUME ~hasPosition, NEW ord, NEW fill, OpenPosition(ord, fill), trades' = trades
  PROVE  Carried /\ (hasPosition' => position'.slotEnd = ord.slotEnd)
<1>1. CASE ExecutionIndexAllowed(i)
  <2>1. /\ position'.entryIndex = i /\ position'.slotEnd = ord.slotEnd
    BY <1>1 DEF OpenPosition, Opened
  <2> QED BY <1>1, <2>1 DEF Carried, Inherited
<1>2. CASE ~ExecutionIndexAllowed(i)
  <2>1. hasPosition' = hasPosition
    BY <1>2 DEF OpenPosition
  <2> QED BY <2>1 DEF Carried, Inherited
<1> QED BY <1>1, <1>2

LEMMA ManageCarries ==
  ASSUME TInv, hasPosition, ManagePosition
  PROVE  Carried /\ (hasPosition' => SameSlot(position'))
<1> DEFINE trailed == Trailed(position)
           cut     == PartialDue(trailed)
           managed == AtBreakeven(AfterPartial(trailed))
           balance == IF cut THEN realized + PnL(trailed, bar.C, PartLots) ELSE realized
           log     == IF cut THEN Append(trades, PartialTrade(trailed)) ELSE trades
<1>1. SizeOf(position)
  BY TInvFacts DEF SizeOK, SizeOf
<1>2. /\ trailed \in PositionType /\ SizeOf(trailed) /\ SameIdentity(position, trailed)
  BY <1>1, TInvFacts, TrailedType DEF BarType
<1> HIDE DEF trailed
<1>3. managed \in PositionType /\ SameIdentity(trailed, managed)
  BY <1>2, ManagedType
<1> HIDE DEF managed
<1>4. /\ trailed.entryIndex = position.entryIndex /\ managed.entryIndex = position.entryIndex
      /\ managed.slotEnd = position.slotEnd
  BY <1>2, <1>3 DEF SameIdentity
<1>5. /\ PartialTrade(trailed) \in TradeType
      /\ PartialTrade(trailed).entryIndex = position.entryIndex
      /\ PartialTrade(trailed).exitIndex = i
  <2>1. /\ Closing(trailed, bar.C, PartLots, "partial") \in TradeType
        /\ Closing(trailed, bar.C, PartLots, "partial").entryIndex = position.entryIndex
        /\ Closing(trailed, bar.C, PartLots, "partial").exitIndex = i
    <3>1. Closing(trailed, bar.C, PartLots, "partial") \in TradeType
      BY <1>2, ClosingType, TInvFacts, ConstantsAssumption DEF Reasons
    <3> QED BY <1>4, <3>1 DEF Closing
  <2> QED BY <2>1 DEF PartialTrade, TradeType
<1>6. /\ log \in Seq(TradeType)
      /\ \A n \in DOMAIN log : (n \in DOMAIN trades /\ log[n] = trades[n]) \/ EndsNow(log[n])
  <2>1. CASE cut
    <3>1. log = Append(trades, PartialTrade(trailed))
      BY <2>1
    <3>2. log \in Seq(TradeType)
      BY <1>5, <3>1, TInvFacts
    <3>3. ASSUME NEW n \in DOMAIN log
          PROVE  (n \in DOMAIN trades /\ log[n] = trades[n]) \/ EndsNow(log[n])
      <4>1. (n \in DOMAIN trades /\ log[n] = trades[n]) \/ log[n] = PartialTrade(trailed)
        BY <1>5, <3>1, TInvFacts, AppendedAt
      <4> QED BY <1>5, <4>1 DEF EndsNow
    <3> QED BY <3>2, <3>3
  <2>2. CASE ~cut
    BY <2>2, TInvFacts
  <2> QED BY <2>1, <2>2
<1> HIDE DEF balance, log
<1>7. CASE ClosePosition(trailed, bar.C, "rule", realized, trades, pendingExits)
  BY <1>2, <1>4, <1>7, CloseCarries, TInvFacts DEF Reasons
<1>8. CASE ClosePosition(trailed, bar.C, "partial", realized, trades, pendingExits)
  BY <1>2, <1>4, <1>8, CloseCarries, TInvFacts DEF Reasons
<1>9. CASE ClosePosition(managed, bar.C, "time", balance, log, pendingExits)
  BY <1>3, <1>4, <1>6, <1>9, CloseCarries, TInvFacts DEF Reasons
<1>10. CASE position' = managed /\ trades' = log /\ UNCHANGED hasPosition
  <2>1. SameSlot(position')
    BY <1>4, <1>10 DEF SameSlot
  <2>2. \A n \in DOMAIN trades' : Inherited(n) \/ EndsNow(trades'[n])
    BY <1>6, <1>10 DEF Inherited
  <2> QED BY <2>1, <2>2 DEF Carried
<1> QED
  BY <1>7, <1>8, <1>9, <1>10
  DEF ManagePosition, trailed, managed, balance, log

(* An order of the opening-range family names the end of the slot it is    *)
(* placed in, which is after the bar it is placed at.                      *)
LEMMA SetupSlot ==
  ASSUME TInv, NEW s \in Sides
  PROVE  i < SetupOrder(s).slotEnd
<1>1. /\ i \in 0 .. Horizon-1 /\ i \in Nat /\ Horizon \in Nat
  BY TInvFacts, ConstantsAssumption DEF RestOK
<1>2. SetupOrder(s).slotEnd = IF run.slots THEN SlotEndOf(i) ELSE Horizon
  BY DEF SetupOrder, NewOrder, NoSlot
<1>3. i < SlotEndOf(i)
  <2> DEFINE d == i \div SlotBars
             r == i % SlotBars
  <2>1. SlotBars \in Nat /\ SlotBars > 0
    BY ConstantsAssumption
  <2>2. d \in Int /\ r \in 0 .. SlotBars-1 /\ i = SlotBars * d + r
    BY <1>1, <2>1
  <2>3. SlotEndOf(i) = (d + 1) * SlotBars
    BY DEF SlotEndOf, SlotOf
  <2> HIDE DEF d, r
  <2>4. (d + 1) * SlotBars = SlotBars * d + SlotBars
    BY <2>1, <2>2
  <2>5. SlotBars * d \in Int
    BY <2>1, <2>2
  <2> QED BY <1>1, <2>1, <2>2, <2>3, <2>4, <2>5
<1> QED BY <1>1, <1>2, <1>3

(* The market entry at a close.                                            *)
LEMMA MarketEntryCarries ==
  ASSUME TInv,
         \/ \E s \in Sides : OnBracketBar(s)
         \/ \E s \in Sides : DispatchMarket(s)
  PROVE  /\ Carried
         /\ hasPosition' => (hasPosition /\ SameSlot(position')) \/ i < position'.slotEnd
<1>1. PICK s \in Sides : OnBracketBar(s) \/ DispatchMarket(s)
  OBVIOUS
<1>2. EnterMarket(SetupOrder(s)) /\ trades' = trades
  BY <1>1 DEF OnBracketBar, DispatchMarket
<1>3. CASE Occupied \/ run.nextOpen
  <2>1. hasPosition' = hasPosition /\ position' = position
    BY <1>2, <1>3 DEF EnterMarket
  <2> QED BY <1>2, <2>1, KeepsCarries DEF SameSlot
<1>4. CASE ~Occupied /\ ~run.nextOpen
  <2>1. OpenPosition(SetupOrder(s), bar.C) /\ ~hasPosition
    BY <1>2, <1>4 DEF EnterMarket, Occupied
  <2>2. Carried /\ (hasPosition' => position'.slotEnd = SetupOrder(s).slotEnd)
    BY <1>2, <2>1, OpenCarries
  <2> QED BY <2>2, SetupSlot
<1> QED BY <1>3, <1>4

(* The handlers that trail the stop or queue orders for later bars.        *)
LEMMA DualEMACarries ==
  ASSUME TInv, NEW signal \in BOOLEAN, NEW stop \in Levels, OnDualEMABar(signal, stop)
  PROVE  Carried /\ hasPosition' = hasPosition /\ SameSlot(position')
<1>1. hasPosition' = hasPosition /\ trades' = trades
  BY DEF OnDualEMABar
<1>2. SameSlot(position')
  <2>1. SameIdentity(position, Tightened(position, stop))
    BY TightenedType, TInvFacts, ConstantsAssumption
  <2>2. position' \in {position, Tightened(position, stop)}
    BY DEF OnDualEMABar
  <2> QED BY <2>1, <2>2 DEF SameSlot, SameIdentity
<1> QED BY <1>1, <1>2, KeepsCarries

LEMMA QuietCarries ==
  ASSUME \/ StartBar \/ FillPendingDone \/ FillLimitsDone \/ NextIndex \/ Terminated
         \/ \E ord \in limitOrders : ExpireLimit(ord)
         \/ \E family \in Families : Silent(family)
         \/ \E s \in Sides, price \in Levels : OnLimitBar(s, price)
         \/ \E s \in Sides : OnEMARibbonBar(s)
         \/ OnRegimeHoldBar
         \/ \E s \in Sides, price \in Levels : DispatchLimit(s, price)
         \/ UNCHANGED vars
  PROVE  UNCHANGED bookVars /\ Carried
<1>1. UNCHANGED bookVars
  BY DEF StartBar, FillPendingDone, FillLimitsDone, NextIndex, ExpireLimit, Silent,
         OnLimitBar, OnEMARibbonBar, OnRegimeHoldBar, DispatchLimit, Terminated, vars, bookVars
<1> QED BY <1>1, BookCarries

(* The steps that fill an order find no position.                          *)
LEMMA FillCarries ==
  ASSUME IInv,
         \/ \E ord \in pendingOrders : FillPending(ord)
         \/ \E ord \in limitOrders : FillLimit(ord)
  PROVE  Carried /\ phase' = phase /\ phase \in {"orders", "limits"}
<1>1. CASE \E ord \in pendingOrders : FillPending(ord)
  <2>1. ~hasPosition
    BY <1>1 DEF IInv, OInv, SingleExposure
  <2> QED BY <1>1, <2>1, OpenCarries DEF FillPending
<1>2. CASE \E ord \in limitOrders : FillLimit(ord)
  <2>1. ~hasPosition
    BY <1>2 DEF IInv, OInv, SingleExposure
  <2> QED BY <1>2, <2>1, OpenCarries DEF FillLimit
<1> QED BY <1>1, <1>2

(* The steps that may end the position at this bar's open, at a bracket,   *)
(* or at the end of the run.                                               *)
LEMMA ExitCarries ==
  ASSUME TInv,
         \/ FillPendingExits \/ CloseExpiredWindowPosition \/ ResolveIntrabarExit \/ Finalize
  PROVE  Carried /\ (hasPosition' => UNCHANGED bookVars)
<1>1. CASE UNCHANGED bookVars
  BY <1>1, BookCarries
<1>2. ASSUME NEW price \in {bar.O, bar.C, position.sl, position.tp}, NEW reason \in Reasons,
             NEW exits, hasPosition,
             ClosePosition(position, price, reason, realized, trades, exits)
      PROVE  Carried /\ ~hasPosition'
  BY <1>2, CloseOpenCarries, TInvFacts
<1>3. CASE FillPendingExits
  BY <1>1, <1>2, <1>3 DEF FillPendingExits, Reasons
<1>4. CASE CloseExpiredWindowPosition
  BY <1>1, <1>2, <1>4 DEF CloseExpiredWindowPosition, SlotExpired, Reasons, bookVars
<1>5. CASE ResolveIntrabarExit
  BY <1>1, <1>2, <1>5 DEF ResolveIntrabarExit, Reasons, bookVars
<1>6. CASE Finalize
  BY <1>1, <1>2, <1>6 DEF Finalize, LiquidationDue, Reasons
<1> QED BY <1>3, <1>4, <1>5, <1>6

LEMMA StepCarries == IInv /\ [Next]_vars => Carried
<1> SUFFICES ASSUME IInv, [Next]_vars PROVE Carried
  OBVIOUS
<1>1. TInv
  BY DEF IInv
<1>2. CASE \E family \in {"bracket", "limit"} : ManageBar(family)
  BY <1>1, <1>2, ManageCarries DEF ManageBar
<1> QED
  BY <1>1, <1>2, QuietCarries, FillCarries, ExitCarries, MarketEntryCarries, DualEMACarries
  DEF Next

(* How the index and the window go on.                                     *)
LEMMA IndexStep ==
  ASSUME [Next]_vars
  PROVE  run' = run /\ (i' = i \/ (NextIndex /\ i' = i + 1 /\ i < ExecutionEnd))
<1>1. CASE UNCHANGED vars \/ Terminated
  BY <1>1 DEF vars, Terminated
<1>2. CASE NextIndex
  BY <1>2 DEF NextIndex
<1>3. CASE Next /\ ~NextIndex /\ ~Terminated
  BY <1>3 DEF Next, StartBar, FillPendingExits, FillPending, FillPendingDone, FillLimit,
     ExpireLimit, FillLimitsDone, CloseExpiredWindowPosition, ResolveIntrabarExit, Silent,
     ManageBar, OnBracketBar, OnLimitBar, OnEMARibbonBar, OnRegimeHoldBar, OnDualEMABar,
     DispatchMarket, DispatchLimit, Finalize, OnBar
<1> QED BY <1>1, <1>2, <1>3

LEMMA WindowBounds ==
  ASSUME TInv
  PROVE  /\ ExecutionStart \in Nat /\ ExecutionEnd \in Nat /\ i \in Nat
  <1>1. run \in RunConfigType /\ i \in Nat /\ Horizon \in Nat \ {0}
    BY TInvFacts, ConstantsAssumption DEF RestOK
  <1>2. run.start \in 0 .. Horizon-1 /\ run.end \in 0 .. Horizon-1
    BY <1>1 DEF RunConfigType
  <1> QED BY <1>1, <1>2 DEF ExecutionStart, ExecutionEnd

LEMMA WindowInit == Init => InWindow /\ TradesInWindow /\ SlotAhead /\ WarmUpForgotten
<1> SUFFICES ASSUME Init PROVE InWindow /\ TradesInWindow /\ SlotAhead /\ WarmUpForgotten
  OBVIOUS
<1>1. i = 0 /\ ~hasPosition /\ trades = << >> /\ TInv /\ pendingOrders = {} /\ limitOrders = {}
  BY InitType DEF Init
<1> QED BY <1>1, WindowBounds DEF InWindow, TradesInWindow, SlotAhead, WarmUpForgotten

LEMMA WindowStep ==
  ASSUME WInv, [Next]_vars
  PROVE  InWindow' /\ TradesInWindow'
<1>1. IInv /\ TInv /\ Carried /\ run' = run /\ InWindow /\ TradesInWindow
  BY StepCarries, IndexStep DEF WInv, IInv
<1>2. /\ ExecutionStart \in Nat /\ ExecutionEnd \in Nat /\ i \in Nat
      /\ \A index : ExecutionIndexAllowed(index)' = ExecutionIndexAllowed(index)
      /\ ExecutionEnd' = ExecutionEnd
  BY <1>1, WindowBounds DEF ExecutionIndexAllowed, ExecutionStart, ExecutionEnd
<1>3. i' <= ExecutionEnd
  BY <1>1, <1>2, IndexStep DEF InWindow
<1>4. hasPosition => ExecutionIndexAllowed(i) /\ ExecutionIndexAllowed(position.entryIndex)
  BY <1>1, <1>2 DEF InWindow, IInv, OInv, OpenedInWindow, ExecutionIndexAllowed
<1>5. hasPosition' => ExecutionIndexAllowed(position'.entryIndex)
  BY <1>1, <1>4 DEF Carried, SameSlot
<1>6. InWindow'
  <2>1. hasPosition' => ExecutionIndexAllowed(position.entryIndex)'
    BY <1>1, <1>5 DEF ExecutionIndexAllowed, ExecutionStart, ExecutionEnd
  <2> QED BY <1>2, <1>3, <2>1 DEF InWindow
<1>7. ASSUME NEW n \in DOMAIN trades'
      PROVE  /\ ExecutionIndexAllowed(trades'[n].entryIndex)
             /\ ExecutionIndexAllowed(trades'[n].exitIndex)
  BY <1>1, <1>4 DEF Carried, Inherited, EndsNow, TradesInWindow
<1>8. TradesInWindow'
  BY <1>1, <1>7 DEF TradesInWindow, ExecutionIndexAllowed, ExecutionStart, ExecutionEnd
<1> QED BY <1>6, <1>8

LEMMA SlotStep ==
  ASSUME WInv, [Next]_vars
  PROVE  SlotAhead'
<1>1. IInv /\ TInv /\ SlotAhead
  BY DEF WInv, IInv
<1>2. CASE \/ FillPendingExits \/ Finalize \/ StartBar \/ FillPendingDone \/ FillLimitsDone
           \/ NextIndex \/ \E ord \in limitOrders : ExpireLimit(ord)
  BY <1>2 DEF SlotAhead, AfterSlot, FillPendingExits, Finalize, StartBar, FillPendingDone,
              FillLimitsDone, NextIndex, ExpireLimit
<1>3. CASE \/ \E ord \in pendingOrders : FillPending(ord)
           \/ \E ord \in limitOrders : FillLimit(ord)
  BY <1>1, <1>3, FillCarries DEF SlotAhead, AfterSlot
<1>4. CASE CloseExpiredWindowPosition
  <2>1. hasPosition' => UNCHANGED bookVars
    BY <1>1, <1>4, ExitCarries
  <2>2. ASSUME hasPosition' PROVE ~SlotExpired /\ i' = i /\ hasPosition /\ position' = position
    BY <1>4, <2>1, <2>2 DEF CloseExpiredWindowPosition, ClosePosition, bookVars
  <2>3. i \in Nat /\ position.slotEnd \in Nat
    BY <1>1, TInvFacts DEF PositionType
  <2> QED BY <2>2, <2>3 DEF SlotAhead, SlotExpired
<1>5. CASE ResolveIntrabarExit
  <2>1. hasPosition' => UNCHANGED bookVars
    BY <1>1, <1>5, ExitCarries
  <2>2. phase = "bracket" /\ i' = i
    BY <1>5 DEF ResolveIntrabarExit
  <2> QED BY <1>1, <2>1, <2>2 DEF SlotAhead, AfterSlot, bookVars
<1>6. CASE \E family \in {"bracket", "limit"} : ManageBar(family)
  <2>1. hasPosition /\ (hasPosition' => SameSlot(position')) /\ phase = "onBar" /\ i' = i
    BY <1>1, <1>6, ManageCarries DEF ManageBar, OnBar
  <2> QED BY <1>1, <2>1 DEF SlotAhead, AfterSlot, SameSlot
<1>7. CASE \/ \E s \in Sides : OnBracketBar(s)
           \/ \E s \in Sides : DispatchMarket(s)
  <2>1. hasPosition' => (hasPosition /\ SameSlot(position')) \/ i < position'.slotEnd
    BY <1>1, <1>7, MarketEntryCarries
  <2>2. phase = "onBar" /\ i' = i
    BY <1>7 DEF OnBracketBar, DispatchMarket, OnBar
  <2> QED BY <1>1, <2>1, <2>2 DEF SlotAhead, AfterSlot, SameSlot
<1>8. CASE \E signal \in BOOLEAN, stop \in Levels : OnDualEMABar(signal, stop)
  <2>1. hasPosition' = hasPosition /\ SameSlot(position') /\ phase = "onBar" /\ i' = i
    BY <1>1, <1>8, DualEMACarries DEF OnDualEMABar, OnBar
  <2> QED BY <1>1, <2>1 DEF SlotAhead, AfterSlot, SameSlot
<1>9. CASE \/ \E family \in Families : Silent(family)
           \/ \E s \in Sides, price \in Levels : OnLimitBar(s, price)
           \/ \E s \in Sides : OnEMARibbonBar(s)
           \/ OnRegimeHoldBar
           \/ \E s \in Sides, price \in Levels : DispatchLimit(s, price)
  <2>1. UNCHANGED bookVars
    BY <1>9, QuietCarries
  <2>2. phase = "onBar" /\ i' = i
    BY <1>9 DEF Silent, OnLimitBar, OnEMARibbonBar, OnRegimeHoldBar, DispatchLimit, OnBar
  <2> QED BY <1>1, <2>1, <2>2 DEF SlotAhead, AfterSlot, bookVars
<1>10. CASE Terminated \/ UNCHANGED vars
  BY <1>1, <1>10 DEF Terminated, vars, SlotAhead
<1> QED
  BY <1>2, <1>3, <1>4, <1>5, <1>6, <1>7, <1>8, <1>9, <1>10 DEF Next

(* A step to the next bar clears the orders of a bar before the window;    *)
(* every other step that ends between two bars changes nothing.            *)
LEMMA WarmUpStep ==
  ASSUME WInv, [Next]_vars
  PROVE  WarmUpForgotten'
<1>1. run' = run /\ ExecutionStart' = ExecutionStart /\ ExecutionStart \in Nat /\ i \in Nat
  BY IndexStep, WindowBounds DEF WInv, IInv, ExecutionStart
<1>2. CASE NextIndex
  <2>1. ASSUME i' <= ExecutionStart PROVE BeforeWindow
    BY <1>1, <1>2, <2>1 DEF NextIndex, BeforeWindow, ExecutionStart
  <2> QED BY <1>1, <1>2, <2>1 DEF NextIndex, Clear, WarmUpForgotten
<1>3. CASE UNCHANGED vars \/ Terminated
  BY <1>1, <1>3 DEF WInv, WarmUpForgotten, vars, orderVars, Terminated
<1>4. CASE Next /\ ~NextIndex /\ ~Terminated
  <2>1. phase' # "bar"
    BY <1>4 DEF Next, StartBar, FillPendingExits, FillPending, FillPendingDone, FillLimit,
       ExpireLimit, FillLimitsDone, CloseExpiredWindowPosition, ResolveIntrabarExit, Silent,
       ManageBar, OnBracketBar, OnLimitBar, OnEMARibbonBar, OnRegimeHoldBar, OnDualEMABar,
       DispatchMarket, DispatchLimit, Finalize, OnBar
  <2> QED BY <2>1 DEF WarmUpForgotten
<1> QED BY <1>2, <1>3, <1>4

(* Nothing is opened or closed outside the execution window, the range of  *)
(* a bar of a later slot never reaches an opening-range position, and no   *)
(* order raised in the warm-up is left to fill at the window's first bar,  *)
(* in every family and fill mode (broker.openPosition, window_close.go,    *)
(* broker.clearExecutionOrders).                                           *)
THEOREM Window == Spec => []WindowRespected
<1>1. Init => WInv
  BY InitInv, WindowInit DEF WInv
<1>2. WInv /\ [Next]_vars => WInv'
  BY StepInv, WindowStep, SlotStep, WarmUpStep DEF WInv
<1>3. WInv => WindowRespected
  BY DEF WInv, InWindow, TradesInWindow, SlotAhead, AfterSlot, WarmUpForgotten, WindowRespected
<1> QED BY <1>1, <1>2, <1>3, PTL DEF Spec
===============================================================================
