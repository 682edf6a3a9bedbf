--------------------------- MODULE PaperPrefixProofs ---------------------------
(***************************************************************************)
(* Proofs about PaperPrefix, for any market, any bindings and a recording  *)
(* of any length.                                                          *)
(***************************************************************************)
EXTENDS PaperPrefix, SequenceTheorems, WellFoundedInduction, TLAPS

(* Induction over an interval, for a set given as a comprehension.         *)
LEMMA UpTo ==
  ASSUME NEW k \in Nat, NEW n \in Nat, NEW P, k \in P,
         \A i \in k .. n : i \in P /\ i + 1 <= n => i + 1 \in P
  PROVE  k .. n \subseteq P
<1> DEFINE bad == {i \in Nat : i \in k .. n /\ i \notin P}
<1> SUFFICES ASSUME bad # {} PROVE FALSE
  OBVIOUS
<1>1. PICK i \in bad : \A j \in bad : ~(<<j, i>> \in OpToRel(<, Nat))
  <2>1. bad \subseteq Nat
    OBVIOUS
  <2> HIDE DEF bad
  <2> QED BY <2>1, NatLessThanWellFounded, WFMin, Zenon
<1>2. i # k /\ i - 1 \in k .. n /\ i - 1 \in Nat
  OBVIOUS
<1>3. i - 1 \in P
  <2>1. ~(i - 1 \in bad)
    <3> SUFFICES ASSUME i - 1 \in bad PROVE FALSE
      OBVIOUS
    <3>1. i - 1 < i /\ i \in Nat
      OBVIOUS
    <3> QED BY <1>1, <1>2, <3>1 DEF OpToRel
  <2> QED BY <1>2, <2>1
<1>4. i - 1 + 1 = i /\ i - 1 + 1 <= n
  OBVIOUS
<1> QED BY <1>2, <1>3, <1>4

-------------------------------------------------------------------------------
(* The trace of a replay: the state after each bar.                        *)
Trace(f, state, collector, bars, first, n, c) ==
  f = [i \in first - 1 .. n |-> IF i = first - 1 THEN Started(state, collector) ELSE Bar(f[i - 1], bars, i, c)]

LEMMA TraceExists ==
  ASSUME NEW state, NEW collector, NEW bars, NEW c, NEW first \in Nat \ {0}, NEW n \in Nat, n >= first - 1
  PROVE  \E f : Trace(f, state, collector, bars, first, n, c)
<1> DEFINE P == {m \in first - 1 .. n : \E f : Trace(f, state, collector, bars, first, m, c)}
<1>1. first - 1 \in P
  <2> DEFINE f == [i \in first - 1 .. first - 1 |-> Started(state, collector)]
  <2>1. Trace(f, state, collector, bars, first, first - 1, c)
    <3>1. \A i \in first - 1 .. first - 1 : i = first - 1
      OBVIOUS
    <3> QED BY <3>1 DEF Trace
  <2> HIDE DEF f
  <2> QED BY <2>1
<1>2. ASSUME NEW m \in first - 1 .. n, m \in P, m + 1 <= n
      PROVE  m + 1 \in P
  <2>1. PICK f : Trace(f, state, collector, bars, first, m, c)
    BY <1>2
  <2> DEFINE g == [i \in first - 1 .. m + 1 |-> IF i <= m THEN f[i] ELSE Bar(f[m], bars, m + 1, c)]
  <2>2. Trace(g, state, collector, bars, first, m + 1, c)
    <3> DEFINE step(h, i) == IF i = first - 1 THEN Started(state, collector) ELSE Bar(h[i - 1], bars, i, c)
    <3>1. f = [i \in first - 1 .. m |-> step(f, i)]
      BY <2>1 DEF Trace
    <3>2. \A i \in first - 1 .. m : f[i] = step(f, i)
      <4> HIDE DEF step
      <4> QED BY <3>1
    <3>3. ASSUME NEW i \in first - 1 .. m + 1
          PROVE  g[i] = step(g, i)
      <4>1. CASE i = first - 1
        <5>1. g[i] = f[i] /\ step(g, i) = step(f, i)
          BY <4>1
        <5> QED BY <5>1, <3>2, <4>1
      <4>2. CASE i # first - 1 /\ i <= m
        <5>1. i - 1 \in first - 1 .. m /\ i - 1 \in first - 1 .. m + 1 /\ i - 1 <= m
          BY <4>2
        <5>2. g[i - 1] = f[i - 1] /\ g[i] = f[i]
          BY <5>1, <4>2
        <5>3. step(g, i) = step(f, i)
          BY <5>2
        <5>4. i \in first - 1 .. m
          BY <4>2
        <5> HIDE DEF g, step
        <5> QED BY <5>2, <5>3, <5>4, <3>2
      <4>3. CASE i = m + 1
        <5>1. i # first - 1 /\ i - 1 = m /\ ~(i <= m) /\ m \in first - 1 .. m + 1 /\ m <= m
          BY <4>3
        <5>2. g[i] = Bar(f[m], bars, m + 1, c)
          BY <5>1
        <5>3. g[m] = f[m]
          BY <5>1
        <5>4. step(g, i) = Bar(g[m], bars, i, c)
          BY <5>1
        <5> HIDE DEF g, step
        <5> QED BY <5>2, <5>3, <5>4, <4>3
      <4> QED BY <4>1, <4>2, <4>3
    <3>4. g = [i \in first - 1 .. m + 1 |-> g[i]]
      OBVIOUS
    <3>5. g = [i \in first - 1 .. m + 1 |-> step(g, i)]
      <4> HIDE DEF g, step
      <4> QED BY <3>3, <3>4
    <3> HIDE DEF g
    <3> QED BY <3>5 DEF Trace
  <2> HIDE DEF g
  <2> QED BY <2>2, <1>2
<1>3. first - 1 .. n \subseteq P
  <2> HIDE DEF P
  <2> QED BY <1>1, <1>2, UpTo
<1> QED BY <1>3

(* A replay is the end of its trace.                                       *)
LEMMA RunRangeTrace ==
  ASSUME NEW state, NEW collector, NEW bars, NEW c, NEW first \in Nat \ {0}, Len(bars) \in Nat, Len(bars) >= first - 1
  PROVE  \E f : Trace(f, state, collector, bars, first, Len(bars), c) /\ RunRange(state, collector, bars, first, c) = f[Len(bars)]
<1> DEFINE f == CHOOSE g : Trace(g, state, collector, bars, first, Len(bars), c)
<1>1. Trace(f, state, collector, bars, first, Len(bars), c)
  BY TraceExists
<1>2. RunRange(state, collector, bars, first, c) = f[Len(bars)]
  BY DEF RunRange, Trace
<1> QED BY <1>1, <1>2

Unfolds(state, collector, bars, first, c) ==
  \E f : Trace(f, state, collector, bars, first, Len(bars), c) /\ RunRange(state, collector, bars, first, c) = f[Len(bars)]

LEMMA RunRangeUnfolds ==
  ASSUME NEW state, NEW collector, NEW bars, NEW c, NEW first \in Nat \ {0}, Len(bars) \in Nat, Len(bars) >= first - 1
  PROVE  Unfolds(state, collector, bars, first, c)
BY RunRangeTrace DEF Unfolds

Steps(f, state, collector, bars, first, n, c) ==
  /\ f[first - 1] = Started(state, collector)
  /\ \A i \in first .. n : f[i] = Bar(f[i - 1], bars, i, c)

LEMMA TraceSteps ==
  ASSUME NEW state, NEW collector, NEW bars, NEW c, NEW first \in Nat \ {0}, NEW n \in Nat, NEW f,
         Trace(f, state, collector, bars, first, n, c), first - 1 <= n
  PROVE  Steps(f, state, collector, bars, first, n, c)
<1> DEFINE step(i) == IF i = first - 1 THEN Started(state, collector) ELSE Bar(f[i - 1], bars, i, c)
<1>1. f = [i \in first - 1 .. n |-> step(i)]
  BY DEF Trace
<1>2. \A i \in first - 1 .. n : f[i] = step(i)
  <2> HIDE DEF step
  <2> QED BY <1>1
<1> QED BY <1>2 DEF Steps

-------------------------------------------------------------------------------
(* A bar reads four fields of the binding, its own record and, of the bars *)
(* before it, what the market printed: not the trend they were decided on. *)
(* The first bar, which has no range, does not ask for its trend.          *)
SameBar(x, y) ==
  x.O = y.O /\ x.H = y.H /\ x.L = y.L /\ x.C = y.C /\ x.gate = y.gate /\ x.step = y.step /\ x.T = y.T
SameMarket(bars, other, n) == \A j \in 1 .. n : SameBar(bars[j], other[j])
Agree(bars, other, n) == \A j \in 1 .. n : bars[j] = other[j]
AgreeFrom(bars, other, first, n) == SameMarket(bars, other, n) /\ \A j \in first .. n : j = 1 \/ bars[j] = other[j]
SameRules(c, d) == c.slot = d.slot /\ c.cooldown = d.cooldown /\ c.hold = d.hold /\ c.nextOpen = d.nextOpen

LEMMA MinOf ==
  ASSUME NEW S, S \subseteq Nat, S # {}
  PROVE  Min(S) \in S /\ \A y \in S : Min(S) <= y
<1>1. PICK i \in S : \A j \in S : ~(<<j, i>> \in OpToRel(<, Nat))
  BY NatLessThanWellFounded, WFMin, Zenon
<1>2. \A y \in S : i <= y
  <2> TAKE y \in S
  <2>1. i \in Nat /\ y \in Nat /\ ~(y < i)
    BY <1>1 DEF OpToRel
  <2> QED BY <2>1
<1> QED BY <1>2 DEF Min

LEMMA AgreeIsAgreeFrom ==
  ASSUME NEW bars, NEW other, NEW first \in Nat \ {0}, NEW n \in Nat, Agree(bars, other, n)
  PROVE  AgreeFrom(bars, other, first, n)
<1>1. \A j \in first .. n : j \in 1 .. n
  OBVIOUS
<1> QED BY <1>1 DEF Agree, AgreeFrom, SameMarket, SameBar

LEMMA SlotBarsLocal ==
  ASSUME NEW bars, NEW other, NEW c, NEW d, NEW i \in Nat \ {0}, SameMarket(bars, other, i), SameRules(c, d)
  PROVE  SlotBars(bars, i, c) = SlotBars(other, i, d)
<1>1. \A t : SlotOf(t, c) = SlotOf(t, d)
  BY DEF SlotOf, SameRules
<1>2. \A j \in 1 .. i - 1 : bars[j].T = other[j].T
  BY DEF SameMarket, SameBar
<1>3. bars[i].T = other[i].T
  BY DEF SameMarket, SameBar
<1> QED BY <1>1, <1>2, <1>3, Zenon DEF SlotBars

LEMMA BarLocal ==
  ASSUME NEW s, NEW bars, NEW other, NEW c, NEW d, NEW i \in Nat \ {0},
         SameMarket(bars, other, i), i = 1 \/ bars[i] = other[i], SameRules(c, d)
  PROVE  Bar(s, bars, i, c) = Bar(s, other, i, d)
<1>1. /\ bars[i].O = other[i].O /\ bars[i].H = other[i].H /\ bars[i].L = other[i].L /\ bars[i].C = other[i].C
      /\ bars[i].T = other[i].T
  <2>1. i \in 1 .. i
    OBVIOUS
  <2> QED BY <2>1 DEF SameMarket, SameBar
<1>2. \A t : SlotOf(t, c) = SlotOf(t, d)
  BY DEF SlotOf, SameRules
<1>3. SlotBars(bars, i, c) = SlotBars(other, i, d)
  BY SlotBarsLocal
<1>4. BreaksRange(bars, i, c) = BreaksRange(other, i, d)
  <2>1. CASE SlotBars(bars, i, c) = {}
    BY <2>1, <1>3 DEF BreaksRange
  <2>2. CASE SlotBars(bars, i, c) # {}
    <3>1. SlotBars(bars, i, c) \subseteq 1 .. i - 1
      BY DEF SlotBars
    <3>2. Min(SlotBars(bars, i, c)) \in 1 .. i - 1
      BY <2>2, <3>1, MinOf
    <3>3. /\ bars[Min(SlotBars(bars, i, c))].H = other[Min(SlotBars(other, i, d))].H
          /\ bars[Min(SlotBars(bars, i, c))].L = other[Min(SlotBars(other, i, d))].L
      <4>1. Min(SlotBars(bars, i, c)) \in 1 .. i
        BY <3>2
      <4> QED BY <4>1, <1>3 DEF SameMarket, SameBar
    <3>4. i - 1 \in 1 .. i
      BY <3>2
    <3>5. bars[i - 1].C = other[i - 1].C
      BY <3>4 DEF SameMarket, SameBar
    <3>6. bars[i] = other[i]
      BY <3>2
    <3> QED BY <3>3, <3>5, <3>6, <1>3 DEF BreaksRange
  <2> QED BY <2>1, <2>2
<1>5. \A t : BreaksRange(bars, i, c) => Signal(t, bars, i, c) = Signal(t, other, i, d)
  <2> SUFFICES ASSUME NEW t, BreaksRange(bars, i, c) PROVE Signal(t, bars, i, c) = Signal(t, other, i, d)
    OBVIOUS
  <2>1. SlotBars(bars, i, c) \subseteq 1 .. i - 1 /\ SlotBars(bars, i, c) # {}
    BY DEF SlotBars, BreaksRange
  <2>2. Min(SlotBars(bars, i, c)) \in 1 .. i - 1
    BY <2>1, MinOf
  <2>3. bars[Min(SlotBars(bars, i, c))].L = other[Min(SlotBars(other, i, d))].L
    <3>1. Min(SlotBars(bars, i, c)) \in 1 .. i
      BY <2>2
    <3> QED BY <3>1, <1>3 DEF SameMarket, SameBar
  <2>9. bars[i] = other[i]
    BY <2>2
  <2>4. c.slot = d.slot /\ c.nextOpen = d.nextOpen
    BY DEF SameRules
  <2> DEFINE ord(b, low, e) ==
               [sl |-> low, tp |-> 2 * b.C - low, slotEnd |-> SlotOf(b.T, e) + e.slot, gapAware |-> e.nextOpen]
             marked(b, e) == [t EXCEPT !.b.seen = {SlotOf(b.T, e)}, !.b.lastEntry = i]
             act(b, m, o, e) ==
               IF ~ b.gate \/ t.b.pending # << >> THEN m
               ELSE IF e.nextOpen THEN [m EXCEPT !.b.pending = o] ELSE Open(m, i, b.C, o)
  <2>5. \A bs, e : Signal(t, bs, i, e) =
                     act(bs[i], marked(bs[i], e), ord(bs[i], bs[Min(SlotBars(bs, i, e))].L, e), e)
    BY Zenon DEF Signal
  <2>6. \A b : marked(b, c) = marked(b, d)
    BY <1>2
  <2>7. \A b, r : ord(b, r, c) = ord(b, r, d)
    BY <1>2, <2>4
  <2>8. \A b, m, o : act(b, m, o, c) = act(b, m, o, d)
    BY <2>4
  <2> HIDE DEF ord, marked, act
  <2> QED BY <2>3, <2>5, <2>6, <2>7, <2>8, <2>9
<1>6. \A t : FillPending(t, bars, i) = FillPending(t, other, i)
  BY <1>1 DEF FillPending
<1>7. \A t : WindowClose(t, bars, i) = WindowClose(t, other, i)
  BY <1>1 DEF WindowClose
<1>8. \A t : Bracket(t, bars, i) = Bracket(t, other, i)
  BY <1>1, Zenon DEF Bracket
<1>9. \A t : Partial(t, bars, i) = Partial(t, other, i)
  BY <1>1, Zenon DEF Partial
<1>10. \A t : Breakeven(t, bars, i) = Breakeven(t, other, i)
  BY <1>1, Zenon DEF Breakeven
<1>11. \A t : Expire(t, bars, i, c) = Expire(t, other, i, d)
  BY <1>1, Zenon DEF Expire, SameRules
<1>12. \A t : OnBar(t, bars, i, c) = OnBar(t, other, i, d)
  <2> SUFFICES ASSUME NEW t PROVE OnBar(t, bars, i, c) = OnBar(t, other, i, d)
    OBVIOUS
  <2>1. c.cooldown = d.cooldown
    BY DEF SameRules
  <2>2. SlotOf(bars[i].T, c) = SlotOf(other[i].T, d)
    BY <1>1, <1>2
  <2>3. \A u : Partial(u, bars, i) = Partial(u, other, i) /\ Breakeven(u, bars, i) = Breakeven(u, other, i)
    BY <1>9, <1>10
  <2>4. BreaksRange(bars, i, c) => Signal(t, bars, i, c) = Signal(t, other, i, d)
    BY <1>5
  <2> QED BY <1>4, <1>11, <2>1, <2>2, <2>3, <2>4 DEF OnBar
<1>13. \A t : Mark(t, bars, i) = Mark(t, other, i)
  <2>1. \A t : Equity(t, bars, i) = Equity(t, other, i)
    BY <1>1 DEF Equity
  <2> QED BY <2>1, Zenon DEF Mark
<1> QED BY <1>6, <1>7, <1>8, <1>12, <1>13, Zenon DEF Bar

(* Two replays that start alike and decide on the same bars pass through   *)
(* the same states.                                                        *)
LEMMA TracesAgree ==
  ASSUME NEW state, NEW collector, NEW bars, NEW other, NEW c, NEW d, NEW first \in Nat \ {0},
         NEW m \in Nat, NEW n \in Nat, NEW f, NEW g, first - 1 <= m, m <= n,
         Trace(f, state, collector, bars, first, m, c), Trace(g, state, collector, other, first, n, d),
         AgreeFrom(bars, other, first, m), SameRules(c, d)
  PROVE  \A i \in first - 1 .. m : f[i] = g[i]
<1> DEFINE P == {i \in first - 1 .. m : f[i] = g[i]}
<1>1. f[first - 1] = Started(state, collector) /\ \A i \in first .. m : f[i] = Bar(f[i - 1], bars, i, c)
  <2>1. Steps(f, state, collector, bars, first, m, c)
    BY TraceSteps
  <2> QED BY <2>1 DEF Steps
<1>2. g[first - 1] = Started(state, collector) /\ \A i \in first .. n : g[i] = Bar(g[i - 1], other, i, d)
  <2>1. first - 1 <= n
    OBVIOUS
  <2>2. Steps(g, state, collector, other, first, n, d)
    BY <2>1, TraceSteps
  <2> QED BY <2>2 DEF Steps
<1>3. first - 1 \in P
  BY <1>1, <1>2
<1>4. ASSUME NEW i \in first - 1 .. m, i \in P, i + 1 <= m
      PROVE  i + 1 \in P
  <2>1. i + 1 \in first .. m /\ i + 1 \in first .. n /\ i + 1 \in Nat \ {0} /\ i + 1 - 1 = i
    BY <1>4
  <2>2. f[i + 1] = Bar(f[i], bars, i + 1, c) /\ g[i + 1] = Bar(g[i], other, i + 1, d)
    BY <2>1, <1>1, <1>2
  <2>3. SameMarket(bars, other, i + 1) /\ (i + 1 = 1 \/ bars[i + 1] = other[i + 1])
    <3>1. i + 1 \in first .. m /\ \A j \in 1 .. i + 1 : j \in 1 .. m
      BY <2>1
    <3> QED BY <3>1 DEF AgreeFrom, SameMarket
  <2>4. f[i] = g[i]
    BY <1>4
  <2>5. f[i + 1] = g[i + 1]
    BY <2>1, <2>2, <2>3, <2>4, BarLocal
  <2> QED BY <2>1, <2>5
<1>5. first - 1 .. m \subseteq P
  <2> HIDE DEF P
  <2>1. first - 1 \in Nat
    OBVIOUS
  <2> QED BY <1>3, <1>4, <2>1, UpTo
<1> QED BY <1>5

(* The activation is the caller's, not the broker's.                       *)
LEMMA RunRangeLocal ==
  ASSUME NEW state, NEW collector, NEW bars, NEW other, NEW c, NEW d, NEW first \in Nat \ {0},
         Len(bars) \in Nat, Len(other) = Len(bars), first - 1 <= Len(bars),
         AgreeFrom(bars, other, first, Len(bars)), SameRules(c, d)
  PROVE  RunRange(state, collector, bars, first, c) = RunRange(state, collector, other, first, d)
<1>1. PICK f : Trace(f, state, collector, bars, first, Len(bars), c) /\ RunRange(state, collector, bars, first, c) = f[Len(bars)]
  BY RunRangeTrace
<1>2. PICK g : Trace(g, state, collector, other, first, Len(bars), d) /\ RunRange(state, collector, other, first, d) = g[Len(bars)]
  BY RunRangeTrace
<1>3. \A i \in first - 1 .. Len(bars) : f[i] = g[i]
  <2> DEFINE n == Len(bars)
  <2>1. /\ Trace(f, state, collector, bars, first, n, c) /\ Trace(g, state, collector, other, first, n, d)
        /\ n \in Nat /\ first - 1 <= n /\ n <= n /\ AgreeFrom(bars, other, first, n)
    BY <1>1, <1>2
  <2> HIDE DEF n
  <2>2. \A i \in first - 1 .. n : f[i] = g[i]
    BY <2>1, TracesAgree
  <2> QED BY <2>2 DEF n
<1> QED BY <1>1, <1>2, <1>3

-------------------------------------------------------------------------------
(* Sequences of no particular elements.                                    *)
Listed(x) == \E S : x \in Seq(S)

LEMMA ListedAppend ==
  ASSUME NEW x, Listed(x), NEW e
  PROVE  Listed(Append(x, e))
<1>1. PICK S : x \in Seq(S)
  BY DEF Listed
<1>2. x \in Seq(S \cup {e}) /\ e \in S \cup {e}
  BY <1>1
<1> QED BY <1>2, AppendProperties DEF Listed

LEMMA ListedConcat ==
  ASSUME NEW x, Listed(x), NEW y, Listed(y)
  PROVE  /\ Listed(x \o y) /\ Len(x \o y) = Len(x) + Len(y)
         /\ \A e : Append(x \o y, e) = x \o Append(y, e)
         /\ x \o << >> = x /\ << >> \o x = x
         /\ Len(x) \in Nat /\ Len(y) \in Nat
<1>1. PICK S : x \in Seq(S)
  BY DEF Listed
<1>2. PICK T : y \in Seq(T)
  BY DEF Listed
<1>3. x \in Seq(S \cup T) /\ y \in Seq(S \cup T)
  BY <1>1, <1>2
<1>4. x \o y \in Seq(S \cup T) /\ Len(x \o y) = Len(x) + Len(y)
  BY <1>3, ConcatProperties
<1>5. ASSUME NEW e PROVE Append(x \o y, e) = x \o Append(y, e)
  <2> DEFINE U == S \cup T \cup {e}
  <2>1. x \in Seq(U) /\ y \in Seq(U) /\ <<e>> \in Seq(U) /\ x \o y \in Seq(U) /\ e \in U
    BY <1>3, <1>4
  <2> HIDE DEF U
  <2>2. Append(x \o y, e) = (x \o y) \o <<e>> /\ Append(y, e) = y \o <<e>>
    BY <2>1, AppendIsConcat
  <2> QED BY <2>1, <2>2, ConcatAssociative
<1>6. x \o << >> = x /\ << >> \o x = x
  BY <1>1, ConcatEmptySeq
<1> QED BY <1>1, <1>2, <1>4, <1>5, <1>6, LenProperties DEF Listed

LEMMA ListedOne ==
  ASSUME NEW x, Listed(x), NEW e
  PROVE  Append(x, e) = x \o <<e>> /\ Listed(<<e>>)
<1>1. PICK S : x \in Seq(S)
  BY DEF Listed
<1>2. x \in Seq(S \cup {e}) /\ e \in S \cup {e} /\ <<e>> \in Seq({e})
  BY <1>1
<1> QED BY <1>2, AppendIsConcat DEF Listed

LEMMA ListedAssociative ==
  ASSUME NEW x, Listed(x), NEW y, Listed(y), NEW z, Listed(z)
  PROVE  (x \o y) \o z = x \o (y \o z)
<1>1. PICK S : x \in Seq(S)
  BY DEF Listed
<1>2. PICK T : y \in Seq(T)
  BY DEF Listed
<1>3. PICK U : z \in Seq(U)
  BY DEF Listed
<1>4. x \in Seq(S \cup T \cup U) /\ y \in Seq(S \cup T \cup U) /\ z \in Seq(S \cup T \cup U)
  BY <1>1, <1>2, <1>3
<1> QED BY <1>4, ConcatAssociative

LEMMA ListedPrefix ==
  ASSUME NEW x, Listed(x), NEW n \in 0 .. Len(x)
  PROVE  /\ Listed(SubSeq(x, 1, n)) /\ Len(SubSeq(x, 1, n)) = n
         /\ \A i \in 1 .. n : SubSeq(x, 1, n)[i] = x[i]
         /\ DOMAIN SubSeq(x, 1, n) = 1 .. n
<1>1. PICK S : x \in Seq(S)
  BY DEF Listed
<1>2. Len(x) \in Nat /\ \A i \in 1 .. n : x[i] \in S
  BY <1>1, LenProperties, ElementOfSeq
<1>3. n \in Int /\ n \in Nat
  BY <1>2
<1>4. /\ SubSeq(x, 1, n) \in Seq(S) /\ Len(SubSeq(x, 1, n)) = IF 1 <= n THEN n - 1 + 1 ELSE 0
      /\ \A i \in 1 .. n - 1 + 1 : SubSeq(x, 1, n)[i] = x[1 + i - 1]
  BY <1>2, <1>3, SubSeqProperties
<1>5. Len(SubSeq(x, 1, n)) = n /\ \A i \in 1 .. n : SubSeq(x, 1, n)[i] = x[i]
  BY <1>3, <1>4
<1>6. DOMAIN SubSeq(x, 1, n) = 1 .. n
  BY <1>4, <1>5, LenProperties
<1> QED BY <1>4, <1>5, <1>6 DEF Listed

LEMMA ListedSplit ==
  ASSUME NEW x, Listed(x), NEW y, Listed(y)
  PROVE  x \o SubSeq(x \o y, Len(x) + 1, Len(x \o y)) = x \o y
<1>1. PICK S : x \in Seq(S)
  BY DEF Listed
<1>2. PICK T : y \in Seq(T)
  BY DEF Listed
<1> DEFINE U == S \cup T
           z == x \o y
           r == SubSeq(z, Len(x) + 1, Len(z))
<1>3. x \in Seq(U) /\ y \in Seq(U)
  BY <1>1, <1>2
<1> HIDE DEF U
<1>4. /\ z \in Seq(U) /\ Len(z) = Len(x) + Len(y) /\ Len(x) \in Nat /\ Len(y) \in Nat
      /\ \A i \in 1 .. Len(z) : z[i] = IF i <= Len(x) THEN x[i] ELSE y[i - Len(x)]
  BY <1>3, ConcatProperties, LenProperties
<1> HIDE DEF z
<1>5. \A i \in Len(x) + 1 .. Len(z) : z[i] \in U
  BY <1>4, ElementOfSeq
<1>6. /\ r \in Seq(U) /\ Len(r) = Len(y)
      /\ \A i \in 1 .. Len(y) : r[i] = z[Len(x) + i]
  <2>1. Len(x) + 1 \in Int /\ Len(z) \in Int
    BY <1>4
  <2>2. /\ r \in Seq(U) /\ Len(r) = IF Len(x) + 1 <= Len(z) THEN Len(z) - (Len(x) + 1) + 1 ELSE 0
        /\ \A i \in 1 .. Len(z) - (Len(x) + 1) + 1 : r[i] = z[Len(x) + 1 + i - 1]
    BY <1>5, <2>1, SubSeqProperties
  <2>3. Len(r) = Len(y) /\ Len(z) - (Len(x) + 1) + 1 = Len(y)
    BY <1>4, <2>2
  <2>4. \A i \in 1 .. Len(y) : Len(x) + 1 + i - 1 = Len(x) + i
    BY <1>4
  <2> QED BY <2>2, <2>3, <2>4
<1> HIDE DEF r
<1>7. r = y
  <2>1. \A i \in 1 .. Len(y) : r[i] = y[i]
    <3> TAKE i \in 1 .. Len(y)
    <3>1. Len(x) + i \in 1 .. Len(z) /\ ~(Len(x) + i <= Len(x)) /\ Len(x) + i - Len(x) = i
      BY <1>4
    <3> QED BY <1>4, <1>6, <3>1
  <2> QED BY <1>3, <1>6, <2>1, SeqEqual
<1> QED BY <1>7 DEF r, z

-------------------------------------------------------------------------------
(* A resumable run: what a bar does to the broker's fields and which trades*)
(* it appends depend on those fields alone, not on the trades before.      *)
Plain(b, trades) == [b |-> b, trades |-> trades, paper |-> NoCollector]

LEMMA PlainFields ==
  ASSUME NEW b, NEW ts
  PROVE  Plain(b, ts).b = b /\ Plain(b, ts).trades = ts /\ ~ Collects(Plain(b, ts))
BY DEF Plain, Collects

LEMMA PlainBroker ==
  ASSUME NEW b, NEW ts, NEW v
  PROVE  [Plain(b, ts) EXCEPT !.b = v] = Plain(v, ts)
<1> DEFINE R == [b : {b, v}, trades : {ts}, paper : {NoCollector}]
<1>1. Plain(b, ts) \in R /\ Plain(v, ts) \in R
  BY DEF Plain
<1>2. [Plain(b, ts) EXCEPT !.b = v] \in R /\ [Plain(b, ts) EXCEPT !.b = v].b = v
  BY <1>1
<1>3. Plain(v, ts).b = v
  BY DEF Plain
<1> QED BY <1>1, <1>2, <1>3

LEMMA PlainTrades ==
  ASSUME NEW b, NEW ts, NEW v
  PROVE  [Plain(b, ts) EXCEPT !.trades = v] = Plain(b, v)
<1> DEFINE R == [b : {b}, trades : {ts, v}, paper : {NoCollector}]
<1>1. Plain(b, ts) \in R /\ Plain(b, v) \in R
  BY DEF Plain
<1>2. [Plain(b, ts) EXCEPT !.trades = v] \in R /\ [Plain(b, ts) EXCEPT !.trades = v].trades = v
  BY <1>1
<1>3. Plain(b, v).trades = v
  BY DEF Plain
<1> QED BY <1>1, <1>2, <1>3

LEMMA OpenPlain ==
  ASSUME NEW b, NEW i, NEW price, NEW ord
  PROVE  \E a : \A ts : Open(Plain(b, ts), i, price, ord) = Plain(a, ts)
<1> DEFINE size == IF price = ord.sl THEN 0 ELSE Lots
           p == [size |-> size, entry |-> price, sl |-> ord.sl, tp |-> ord.tp, index |-> i,
                 slotEnd |-> ord.slotEnd, partial |-> FALSE, gapAware |-> ord.gapAware]
           a == [b EXCEPT !.position = p, !.realized = @ - Fee * size]
<1>1. ASSUME NEW ts
      PROVE  Open(Plain(b, ts), i, price, ord) = Plain(a, ts)
  <2>1. Open(Plain(b, ts), i, price, ord) =
          PaperEntry([Plain(b, ts) EXCEPT !.b.position = p, !.b.realized = @ - Fee * size], i, Plain(b, ts).b.realized)
    BY DEF Open
  <2>2. [Plain(b, ts) EXCEPT !.b.position = p, !.b.realized = @ - Fee * size] = Plain(a, ts)
    <3> HIDE DEF p, size
    <3> DEFINE b1 == [b EXCEPT !.position = p]
               v == Plain(b, ts).b.realized - Fee * size
    <3>1. [Plain(b, ts) EXCEPT !.b.position = p] = Plain(b1, ts)
      BY PlainFields, PlainBroker
    <3> HIDE DEF b1, v, a
    <3>2. [Plain(b1, ts) EXCEPT !.b.realized = v] = Plain([b1 EXCEPT !.realized = v], ts)
      BY PlainFields, PlainBroker
    <3>3. [b1 EXCEPT !.realized = v] = a
      BY PlainFields DEF a, b1, v
    <3>4. [Plain(b, ts) EXCEPT !.b.position = p, !.b.realized = @ - Fee * size] =
            [[Plain(b, ts) EXCEPT !.b.position = p] EXCEPT !.b.realized = v]
      BY DEF v
    <3> QED BY <3>1, <3>2, <3>3, <3>4
  <2>3. ~ Collects(Plain(a, ts))
    BY PlainFields
  <2> HIDE DEF a, p, size
  <2> QED BY <2>1, <2>2, <2>3 DEF PaperEntry
<1> QED BY <1>1

LEMMA ReducePlain ==
  ASSUME NEW b, NEW i, NEW price, NEW size, NEW reason
  PROVE  \E a, u : Listed(u) /\ \A ts : Listed(ts) => Reduce(Plain(b, ts), i, price, size, reason) = Plain(a, ts \o u)
<1> DEFINE p == b.position
           pnl == (price - p.entry) * size - Fee * size
           whole == size = p.size
           a == [b EXCEPT !.realized = @ + pnl, !.lastExit = IF whole THEN i ELSE @,
                          !.position = IF whole THEN NoPosition ELSE [p EXCEPT !.size = p.size - size, !.partial = TRUE]]
           trade == [index |-> p.index, exit |-> i, size |-> size, pnl |-> pnl, reason |-> reason]
<1>1. ASSUME NEW ts, Listed(ts)
      PROVE  Reduce(Plain(b, ts), i, price, size, reason) = Plain(a, ts \o <<trade>>)
  <2> DEFINE next == [Plain(b, ts) EXCEPT
                        !.b.realized = @ + pnl, !.b.lastExit = IF whole THEN i ELSE @,
                        !.b.position = IF whole THEN NoPosition ELSE [p EXCEPT !.size = p.size - size, !.partial = TRUE],
                        !.trades = Append(@, trade)]
  <2>1. Reduce(Plain(b, ts), i, price, size, reason) =
          PaperExit(next, i, Plain(b, ts).b.realized, size, whole)
    BY PlainFields DEF Reduce
  <2>2. next = Plain(a, Append(ts, trade))
    <3> DEFINE r == b.realized + pnl
               l == IF whole THEN i ELSE b.lastExit
               q == IF whole THEN NoPosition ELSE [p EXCEPT !.size = p.size - size, !.partial = TRUE]
               b1 == [b EXCEPT !.realized = r]
               b2 == [b1 EXCEPT !.lastExit = l]
               b3 == [b2 EXCEPT !.position = q]
    <3>1. next = [Plain(b, ts) EXCEPT !.b.realized = r, !.b.lastExit = l, !.b.position = q, !.trades = Append(ts, trade)]
      BY PlainFields
    <3>2. a = b3
      OBVIOUS
    <3> HIDE DEF pnl, whole, trade, p, r, l, q, next, a
    <3>3. [Plain(b, ts) EXCEPT !.b.realized = r] = Plain(b1, ts)
      BY PlainFields, PlainBroker
    <3> HIDE DEF b1, b2, b3
    <3>4. [Plain(b1, ts) EXCEPT !.b.lastExit = l] = Plain(b2, ts)
      BY PlainFields, PlainBroker DEF b2
    <3>5. [Plain(b2, ts) EXCEPT !.b.position = q] = Plain(b3, ts)
      BY PlainFields, PlainBroker DEF b3
    <3>6. [Plain(b3, ts) EXCEPT !.trades = Append(ts, trade)] = Plain(b3, Append(ts, trade))
      BY PlainTrades
    <3>7. [Plain(b, ts) EXCEPT !.b.realized = r, !.b.lastExit = l, !.b.position = q, !.trades = Append(ts, trade)]
            = [[[[Plain(b, ts) EXCEPT !.b.realized = r] EXCEPT !.b.lastExit = l] EXCEPT !.b.position = q]
                 EXCEPT !.trades = Append(ts, trade)]
      OBVIOUS
    <3> QED BY <3>1, <3>2, <3>3, <3>4, <3>5, <3>6, <3>7
  <2>3. Append(ts, trade) = ts \o <<trade>>
    <3>1. Listed(<< >>) /\ Append(<< >>, trade) = <<trade>>
      BY DEF Listed
    <3> QED BY <3>1, ListedConcat
  <2>4. ~ Collects(Plain(a, Append(ts, trade)))
    BY PlainFields
  <2> HIDE DEF next, a, trade
  <2> QED BY <2>1, <2>2, <2>3, <2>4 DEF PaperExit
<1>2. Listed(<<trade>>)
  <2>1. Listed(<< >>) /\ Append(<< >>, trade) = <<trade>>
    BY DEF Listed
  <2> QED BY <2>1, ListedAppend
<1> QED BY <1>1, <1>2

LEMMA EmptyListed ==
  /\ Listed(<< >>)
  /\ \A ts : Listed(ts) => ts \o << >> = ts
BY ListedConcat DEF Listed

LEMMA HeldPlain ==
  ASSUME NEW b, NEW ts
  PROVE  Held(Plain(b, ts)) <=> b.position # NoPosition
BY PlainFields DEF Held

LEMMA FillPendingPlain ==
  ASSUME NEW b, NEW bars, NEW i
  PROVE  \E a : \A ts : FillPending(Plain(b, ts), bars, i) = Plain(a, ts)
<1>1. CASE b.pending = << >>
  BY <1>1, PlainFields DEF FillPending
<1>2. CASE b.pending # << >>
  <2> DEFINE free == [b EXCEPT !.pending = << >>]
  <2>1. PICK a : \A ts : Open(Plain(free, ts), i, bars[i].O, b.pending) = Plain(a, ts)
    <3> HIDE DEF free
    <3> QED BY OpenPlain
  <2>2. ASSUME NEW ts
        PROVE  FillPending(Plain(b, ts), bars, i) = Plain(a, ts)
    <3>1. [Plain(b, ts) EXCEPT !.b.pending = << >>] = Plain(free, ts)
      <4>1. [Plain(b, ts) EXCEPT !.b.pending = << >>] = [Plain(b, ts) EXCEPT !.b = free]
        BY PlainFields
      <4> HIDE DEF free
      <4> QED BY <4>1, PlainBroker
    <3> HIDE DEF free
    <3> QED BY <1>2, <2>1, <3>1, PlainFields DEF FillPending
  <2> QED BY <2>2
<1> QED BY <1>1, <1>2

(* Where a bar's part either reduces the position or does nothing.         *)
LEMMA WindowClosePlain ==
  ASSUME NEW b, NEW bars, NEW i
  PROVE  \E a, u : Listed(u) /\ \A ts : Listed(ts) => WindowClose(Plain(b, ts), bars, i) = Plain(a, ts \o u)
<1>1. CASE b.position # NoPosition /\ bars[i].T >= b.position.slotEnd
  <2>1. \A ts : WindowClose(Plain(b, ts), bars, i) = Reduce(Plain(b, ts), i, bars[i].O, b.position.size, "window")
    BY <1>1, PlainFields, HeldPlain DEF WindowClose
  <2> QED BY <2>1, ReducePlain
<1>2. CASE ~(b.position # NoPosition /\ bars[i].T >= b.position.slotEnd)
  <2>1. \A ts : WindowClose(Plain(b, ts), bars, i) = Plain(b, ts)
    BY <1>2, PlainFields, HeldPlain DEF WindowClose
  <2>2. \A ts : Listed(ts) => WindowClose(Plain(b, ts), bars, i) = Plain(b, ts \o << >>)
    BY <2>1, EmptyListed
  <2> QED BY <2>2, EmptyListed
<1> QED BY <1>1, <1>2

LEMMA BracketPlain ==
  ASSUME NEW b, NEW bars, NEW i
  PROVE  \E a, u : Listed(u) /\ \A ts : Listed(ts) => Bracket(Plain(b, ts), bars, i) = Plain(a, ts \o u)
<1> DEFINE p == b.position
           held == p # NoPosition
           gap == held /\ (p.gapAware \/ p.index < i) /\ bars[i].O <= p.sl
<1>1. CASE ~ held
  <2>1. \A ts : Bracket(Plain(b, ts), bars, i) = Plain(b, ts)
    BY <1>1, PlainFields, HeldPlain DEF Bracket
  <2>2. \A ts : Listed(ts) => Bracket(Plain(b, ts), bars, i) = Plain(b, ts \o << >>)
    BY <2>1, EmptyListed
  <2> QED BY <2>2, EmptyListed
<1>2. CASE gap
  <2>1. \A ts : Bracket(Plain(b, ts), bars, i) = Reduce(Plain(b, ts), i, bars[i].O, p.size, "sl")
    BY <1>2, PlainFields, HeldPlain DEF Bracket
  <2> QED BY <2>1, ReducePlain
<1>3. CASE held /\ ~ gap
  <2>1. \A ts : Bracket(Plain(b, ts), bars, i) =
                  IF bars[i].L <= p.sl THEN Reduce(Plain(b, ts), i, p.sl, p.size, "sl")
                  ELSE IF bars[i].H >= p.tp THEN Reduce(Plain(b, ts), i, p.tp, p.size, "tp") ELSE Plain(b, ts)
    BY <1>3, PlainFields, HeldPlain DEF Bracket
  <2>2. CASE bars[i].L <= p.sl
    BY <2>1, <2>2, ReducePlain
  <2>3. CASE ~(bars[i].L <= p.sl) /\ bars[i].H >= p.tp
    BY <2>1, <2>3, ReducePlain
  <2>4. CASE ~(bars[i].L <= p.sl) /\ ~(bars[i].H >= p.tp)
    <3>1. \A ts : Listed(ts) => Bracket(Plain(b, ts), bars, i) = Plain(b, ts \o << >>)
      BY <2>1, <2>4, EmptyListed
    <3> QED BY <3>1, EmptyListed
  <2> QED BY <2>2, <2>3, <2>4
<1> QED BY <1>1, <1>2, <1>3

LEMMA PartialPlain ==
  ASSUME NEW b, NEW bars, NEW i
  PROVE  \E a, u : Listed(u) /\ \A ts : Listed(ts) => Partial(Plain(b, ts), bars, i) = Plain(a, ts \o u)
<1> DEFINE p == b.position
           due == p.size > 0 /\ ~ p.partial /\ p.entry > p.sl /\ bars[i].C - p.entry >= p.entry - p.sl
<1>1. \A ts : Partial(Plain(b, ts), bars, i) =
                IF due THEN Reduce(Plain(b, ts), i, bars[i].C, p.size \div 2, "partial") ELSE Plain(b, ts)
  BY PlainFields DEF Partial
<1>2. CASE due
  <2> HIDE DEF due
  <2> QED BY <1>1, <1>2, ReducePlain
<1>3. CASE ~ due
  <2> HIDE DEF due
  <2>1. \A ts : Listed(ts) => Partial(Plain(b, ts), bars, i) = Plain(b, ts \o << >>)
    BY <1>1, <1>3, EmptyListed
  <2> QED BY <2>1, EmptyListed
<1> QED BY <1>2, <1>3

LEMMA BreakevenPlain ==
  ASSUME NEW b, NEW bars, NEW i
  PROVE  \E a : \A ts : Breakeven(Plain(b, ts), bars, i) = Plain(a, ts)
<1> DEFINE p == b.position
           due == p.entry > p.sl /\ bars[i].C - p.entry >= p.entry - p.sl
           a == [b EXCEPT !.position.sl = p.entry]
<1>1. CASE due
  <2>1. ASSUME NEW ts PROVE Breakeven(Plain(b, ts), bars, i) = Plain(a, ts)
    <3>1. Breakeven(Plain(b, ts), bars, i) = [Plain(b, ts) EXCEPT !.b.position.sl = p.entry]
      BY <1>1, PlainFields DEF Breakeven
    <3>2. [Plain(b, ts) EXCEPT !.b.position.sl = p.entry] = [Plain(b, ts) EXCEPT !.b = a]
      BY PlainFields
    <3> HIDE DEF a
    <3> QED BY <3>1, <3>2, PlainBroker
  <2> QED BY <2>1
<1>2. CASE ~ due
  <2>1. \A ts : Breakeven(Plain(b, ts), bars, i) = Plain(b, ts)
    BY <1>2, PlainFields DEF Breakeven
  <2> QED BY <2>1
<1> QED BY <1>1, <1>2

LEMMA ExpirePlain ==
  ASSUME NEW b, NEW bars, NEW i, NEW c
  PROVE  \E a, u : Listed(u) /\ \A ts : Listed(ts) => Expire(Plain(b, ts), bars, i, c) = Plain(a, ts \o u)
<1>1. CASE b.position # NoPosition /\ i - b.position.index >= c.hold
  <2>1. \A ts : Expire(Plain(b, ts), bars, i, c) = Reduce(Plain(b, ts), i, bars[i].C, b.position.size, "time")
    BY <1>1, PlainFields, HeldPlain DEF Expire
  <2> QED BY <2>1, ReducePlain
<1>2. CASE ~(b.position # NoPosition /\ i - b.position.index >= c.hold)
  <2>1. \A ts : Expire(Plain(b, ts), bars, i, c) = Plain(b, ts)
    BY <1>2, PlainFields, HeldPlain DEF Expire
  <2>2. \A ts : Listed(ts) => Expire(Plain(b, ts), bars, i, c) = Plain(b, ts \o << >>)
    BY <2>1, EmptyListed
  <2> QED BY <2>2, EmptyListed
<1> QED BY <1>1, <1>2

LEMMA SignalPlain ==
  ASSUME NEW b, NEW bars, NEW i, NEW c
  PROVE  \E a : \A ts : Signal(Plain(b, ts), bars, i, c) = Plain(a, ts)
<1> DEFINE r == bars[Min(SlotBars(bars, i, c))]
           day == SlotOf(bars[i].T, c)
           ord == [sl |-> r.L, tp |-> 2 * bars[i].C - r.L, slotEnd |-> day + c.slot, gapAware |-> c.nextOpen]
           m == [b EXCEPT !.seen = {day}, !.lastEntry = i]
           queued == [m EXCEPT !.pending = ord]
           marked(ts) == [Plain(b, ts) EXCEPT !.b.seen = {day}, !.b.lastEntry = i]
<1>1. ASSUME NEW ts
      PROVE  marked(ts) = Plain(m, ts)
  <2> DEFINE b1 == [b EXCEPT !.seen = {day}]
  <2>1. marked(ts) = [[Plain(b, ts) EXCEPT !.b.seen = {day}] EXCEPT !.b.lastEntry = i]
    BY Zenon
  <2>2. m = [b1 EXCEPT !.lastEntry = i]
    OBVIOUS
  <2> HIDE DEF day, m, marked, b1
  <2>3. [Plain(b, ts) EXCEPT !.b.seen = {day}] = Plain(b1, ts)
    BY PlainFields, PlainBroker DEF b1
  <2>4. [Plain(b1, ts) EXCEPT !.b.lastEntry = i] = Plain(m, ts)
    BY <2>2, PlainFields, PlainBroker
  <2> QED BY <2>1, <2>3, <2>4
<1>2. ASSUME NEW ts
      PROVE  Signal(Plain(b, ts), bars, i, c) =
               IF ~ bars[i].gate \/ b.pending # << >> THEN Plain(m, ts)
               ELSE IF c.nextOpen THEN Plain(queued, ts) ELSE Open(Plain(m, ts), i, bars[i].C, ord)
  <2>1. Signal(Plain(b, ts), bars, i, c) =
               IF ~ bars[i].gate \/ Plain(b, ts).b.pending # << >> THEN marked(ts)
               ELSE IF c.nextOpen THEN [marked(ts) EXCEPT !.b.pending = ord] ELSE Open(marked(ts), i, bars[i].C, ord)
    BY Zenon DEF Signal
  <2> HIDE DEF marked, m, ord
  <2>2. [Plain(m, ts) EXCEPT !.b.pending = ord] = Plain(queued, ts)
    BY PlainFields, PlainBroker
  <2> HIDE DEF queued
  <2> QED BY <2>1, <2>2, <1>1, PlainFields
<1> HIDE DEF r, day, ord, m, queued, marked
<1>3. CASE ~ bars[i].gate \/ b.pending # << >>
  BY <1>2, <1>3
<1>4. CASE ~(~ bars[i].gate \/ b.pending # << >>) /\ c.nextOpen
  BY <1>2, <1>4
<1>5. CASE ~(~ bars[i].gate \/ b.pending # << >>) /\ ~ c.nextOpen
  BY <1>2, <1>5, OpenPlain
<1> QED BY <1>3, <1>4, <1>5

LEMMA OnBarPlain ==
  ASSUME NEW b, NEW bars, NEW i, NEW c
  PROVE  \E a, u : Listed(u) /\ \A ts : Listed(ts) => OnBar(Plain(b, ts), bars, i, c) = Plain(a, ts \o u)
<1>1. CASE b.position # NoPosition
  <2>1. PICK a, u : Listed(u) /\ \A ts : Listed(ts) => Partial(Plain(b, ts), bars, i) = Plain(a, ts \o u)
    BY PartialPlain
  <2>2. PICK e : \A ts : (IF Held(Plain(a, ts)) THEN Breakeven(Plain(a, ts), bars, i) ELSE Plain(a, ts)) = Plain(e, ts)
    <3>1. CASE a.position # NoPosition
      BY <3>1, HeldPlain, BreakevenPlain
    <3>2. CASE a.position = NoPosition
      BY <3>2, HeldPlain
    <3> QED BY <3>1, <3>2
  <2>3. PICK d, w : Listed(w) /\ \A ts : Listed(ts) => Expire(Plain(e, ts), bars, i, c) = Plain(d, ts \o w)
    BY ExpirePlain
  <2>4. ASSUME NEW ts, Listed(ts)
        PROVE  OnBar(Plain(b, ts), bars, i, c) = Plain(d, ts \o (u \o w))
    <3>1. Held(Plain(b, ts))
      BY <1>1, HeldPlain
    <3>2. OnBar(Plain(b, ts), bars, i, c) =
            Expire(LET p == Partial(Plain(b, ts), bars, i) IN IF Held(p) THEN Breakeven(p, bars, i) ELSE p, bars, i, c)
      BY <3>1 DEF OnBar
    <3>3. OnBar(Plain(b, ts), bars, i, c) = Expire(Plain(e, ts \o u), bars, i, c)
      BY <2>1, <2>2, <2>4, <3>2
    <3>4. Listed(ts \o u)
      BY <2>1, <2>4, ListedConcat
    <3>5. (ts \o u) \o w = ts \o (u \o w)
      BY <2>1, <2>3, <2>4, ListedAssociative
    <3> QED BY <2>3, <3>3, <3>4, <3>5
  <2>5. Listed(u \o w)
    BY <2>1, <2>3, ListedConcat
  <2> QED BY <2>4, <2>5
<1>2. CASE b.position = NoPosition
  <2> DEFINE fires == /\ b.lastEntry = 0 \/ i - b.lastEntry >= c.cooldown
                      /\ BreaksRange(bars, i, c)
                      /\ SlotOf(bars[i].T, c) \notin b.seen
  <2>1. \A ts : OnBar(Plain(b, ts), bars, i, c) = IF fires THEN Signal(Plain(b, ts), bars, i, c) ELSE Plain(b, ts)
    BY <1>2, HeldPlain, PlainFields DEF OnBar
  <2> HIDE DEF fires
  <2>2. PICK a : \A ts : (IF fires THEN Signal(Plain(b, ts), bars, i, c) ELSE Plain(b, ts)) = Plain(a, ts)
    <3>1. CASE fires
      BY <3>1, SignalPlain
    <3>2. CASE ~ fires
      BY <3>2
    <3> QED BY <3>1, <3>2
  <2>3. \A ts : Listed(ts) => OnBar(Plain(b, ts), bars, i, c) = Plain(a, ts \o << >>)
    BY <2>1, <2>2, EmptyListed
  <2> QED BY <2>3, EmptyListed
<1> QED BY <1>1, <1>2

LEMMA BarPlain ==
  ASSUME NEW b, NEW bars, NEW i, NEW c
  PROVE  \E a, u : Listed(u) /\ \A ts : Listed(ts) => Bar(Plain(b, ts), bars, i, c) = Plain(a, ts \o u)
<1>1. PICK a1 : \A ts : FillPending(Plain(b, ts), bars, i) = Plain(a1, ts)
  BY FillPendingPlain
<1>2. PICK a2, u2 : Listed(u2) /\ \A ts : Listed(ts) => WindowClose(Plain(a1, ts), bars, i) = Plain(a2, ts \o u2)
  BY WindowClosePlain
<1>3. PICK a3, u3 : Listed(u3) /\ \A ts : Listed(ts) => Bracket(Plain(a2, ts), bars, i) = Plain(a3, ts \o u3)
  BY BracketPlain
<1>4. PICK a4, u4 : Listed(u4) /\ \A ts : Listed(ts) => OnBar(Plain(a3, ts), bars, i, c) = Plain(a4, ts \o u4)
  BY OnBarPlain
<1>5. \A x, ts : Mark(Plain(x, ts), bars, i) = Plain(x, ts)
  BY PlainFields DEF Mark
<1>6. Listed(u2 \o u3) /\ Listed((u2 \o u3) \o u4)
  BY <1>2, <1>3, <1>4, ListedConcat
<1>7. ASSUME NEW ts, Listed(ts)
      PROVE  Bar(Plain(b, ts), bars, i, c) = Plain(a4, ts \o ((u2 \o u3) \o u4))
  <2>1. WindowClose(FillPending(Plain(b, ts), bars, i), bars, i) = Plain(a2, ts \o u2) /\ Listed(ts \o u2)
    BY <1>1, <1>2, <1>7, ListedConcat
  <2>2. Bracket(Plain(a2, ts \o u2), bars, i) = Plain(a3, (ts \o u2) \o u3)
    BY <1>3, <2>1
  <2>3. (ts \o u2) \o u3 = ts \o (u2 \o u3) /\ Listed(ts \o (u2 \o u3))
    <3>1. (ts \o u2) \o u3 = ts \o (u2 \o u3)
      BY <1>2, <1>3, <1>7, ListedAssociative
    <3>2. Listed(ts \o (u2 \o u3))
      BY <1>6, <1>7, ListedConcat
    <3> QED BY <3>1, <3>2
  <2>4. OnBar(Plain(a3, ts \o (u2 \o u3)), bars, i, c) = Plain(a4, (ts \o (u2 \o u3)) \o u4)
    BY <1>4, <2>3
  <2>5. (ts \o (u2 \o u3)) \o u4 = ts \o ((u2 \o u3) \o u4)
    BY <1>4, <1>6, <1>7, ListedAssociative
  <2> QED BY <1>5, <2>1, <2>2, <2>3, <2>4, <2>5 DEF Bar
<1> QED BY <1>6, <1>7

(* A replay resumed from the fields of a shorter one ends where the whole  *)
(* replay ends, and its trades are the ones the shorter one had not made.  *)
Splits(bars, k, c) ==
  LET short == RunRange(FreshBroker, NoCollector, SubSeq(bars, 1, k), 1, c)
      rest == RunRange(short.b, NoCollector, bars, k + 1, c)
      full == RunRange(FreshBroker, NoCollector, bars, 1, c)
  IN full.b = rest.b /\ full.trades = short.trades \o rest.trades

LEMMA ReplaySplits ==
  ASSUME NEW bars, Listed(bars), NEW k \in 0 .. Len(bars), NEW c
  PROVE  Splits(bars, k, c)
<1> DEFINE prior == SubSeq(bars, 1, k)
           n == Len(bars)
           short == RunRange(FreshBroker, NoCollector, prior, 1, c)
           rest == RunRange(short.b, NoCollector, bars, k + 1, c)
           full == RunRange(FreshBroker, NoCollector, bars, 1, c)
<1>0. /\ short = RunRange(FreshBroker, NoCollector, prior, 1, c)
      /\ rest = RunRange(short.b, NoCollector, bars, k + 1, c)
      /\ full = RunRange(FreshBroker, NoCollector, bars, 1, c)
  OBVIOUS
<1> HIDE DEF short, rest, full
<1>1. n \in Nat /\ k \in Nat /\ k <= n /\ k + 1 - 1 = k /\ k + 1 \in Nat \ {0} /\ 1 - 1 = 0 /\ 0 \in Nat
  <2>1. n \in Nat
    <3>1. PICK S : bars \in Seq(S)
      BY DEF Listed
    <3> QED BY <3>1, LenProperties
  <2> QED BY <2>1
<1>2. Len(prior) = k /\ AgreeFrom(prior, bars, 1, k)
  <2>1. Len(prior) = k /\ Agree(prior, bars, k)
    BY ListedPrefix DEF Agree
  <2> HIDE DEF prior
  <2> QED BY <1>1, <2>1, AgreeIsAgreeFrom
<1>3. PICK g : Trace(g, FreshBroker, NoCollector, prior, 1, k, c) /\ short = g[k]
  <2>1. Len(prior) \in Nat /\ Len(prior) >= 1 - 1 /\ 1 \in Nat \ {0}
    BY <1>1, <1>2
  <2> HIDE DEF prior
  <2>2. \E g : Trace(g, FreshBroker, NoCollector, prior, 1, Len(prior), c)
               /\ RunRange(FreshBroker, NoCollector, prior, 1, c) = g[Len(prior)]
    <3>1. Unfolds(FreshBroker, NoCollector, prior, 1, c)
      BY <2>1, RunRangeUnfolds
    <3> QED BY <3>1 DEF Unfolds
  <2> QED BY <1>0, <1>2, <2>2
<1>4. PICK f : Trace(f, FreshBroker, NoCollector, bars, 1, n, c) /\ full = f[n]
  <2>1. n \in Nat /\ 1 - 1 <= n
    BY <1>1
  <2> QED BY <1>0, <2>1, RunRangeTrace
<1>5. PICK h : Trace(h, short.b, NoCollector, bars, k + 1, n, c) /\ rest = h[n]
  <2>1. n \in Nat /\ k + 1 - 1 <= n
    BY <1>1
  <2> QED BY <1>0, <1>1, <2>1, RunRangeTrace
<1> HIDE DEF n, prior
<1>6. f[k] = short
  <2>1. 1 - 1 <= k /\ SameRules(c, c) /\ k \in 1 - 1 .. k
    BY <1>1 DEF SameRules
  <2>2. \A i \in 1 - 1 .. k : g[i] = f[i]
    BY <1>1, <1>2, <1>3, <1>4, <2>1, TracesAgree
  <2> QED BY <1>3, <2>1, <2>2
<1>7. f[0] = Started(FreshBroker, NoCollector) /\ \A i \in 1 .. n : f[i] = Bar(f[i - 1], bars, i, c)
  <2>1. 1 - 1 <= n
    BY <1>1
  <2>2. Steps(f, FreshBroker, NoCollector, bars, 1, n, c)
    BY <1>1, <1>4, <2>1, TraceSteps
  <2> QED BY <1>1, <2>2 DEF Steps
<1>8. h[k] = Started(short.b, NoCollector) /\ \A i \in k + 1 .. n : h[i] = Bar(h[i - 1], bars, i, c)
  <2>1. k + 1 - 1 <= n
    BY <1>1
  <2>2. Steps(h, short.b, NoCollector, bars, k + 1, n, c)
    BY <1>1, <1>5, <2>1, TraceSteps
  <2> QED BY <1>1, <2>2 DEF Steps
<1>9. \A b : Started(b, NoCollector) = Plain(b, << >>)
  BY DEF Started, Plain
<1>10. \E b, pre : Listed(pre) /\ f[k] = Plain(b, pre)
  <2> DEFINE P == {i \in 0 .. k : \E b, pre : Listed(pre) /\ f[i] = Plain(b, pre)}
  <2>1. 0 \in P
    BY <1>1, <1>7, <1>9, EmptyListed
  <2>2. ASSUME NEW i \in 0 .. k, i \in P, i + 1 <= k
        PROVE  i + 1 \in P
    <3>1. PICK b, pre : Listed(pre) /\ f[i] = Plain(b, pre)
      BY <2>2
    <3>2. i + 1 \in 1 .. n /\ i + 1 - 1 = i /\ i + 1 \in 0 .. k
      BY <1>1, <2>2
    <3>3. PICK a, u : Listed(u) /\ \A ts : Listed(ts) => Bar(Plain(b, ts), bars, i + 1, c) = Plain(a, ts \o u)
      BY BarPlain
    <3>4. f[i + 1] = Plain(a, pre \o u)
      BY <1>7, <3>1, <3>2, <3>3
    <3>5. Listed(pre \o u)
      BY <3>1, <3>3, ListedConcat
    <3> HIDE DEF Plain
    <3>6. \E a1, u1 : Listed(u1) /\ f[i + 1] = Plain(a1, u1)
      BY <3>4, <3>5
    <3> QED BY <3>2, <3>6
  <2> HIDE DEF P
  <2>3. 0 .. k \subseteq P
    BY <1>1, <2>1, <2>2, UpTo
  <2>4. k \in P
    BY <1>1, <2>3
  <2> QED BY <2>4 DEF P
<1>11. PICK b0, pre : Listed(pre) /\ f[k] = Plain(b0, pre)
  BY <1>10
<1>12. short.b = b0 /\ short.trades = pre
  BY <1>6, <1>11, PlainFields
<1> DEFINE Q == {i \in k .. n : \E a, u : Listed(u) /\ h[i] = Plain(a, u) /\ f[i] = Plain(a, pre \o u)}
<1>13. k \in Q
  <2>1. h[k] = Plain(b0, << >>)
    BY <1>8, <1>9, <1>12
  <2>2. f[k] = Plain(b0, pre \o << >>)
    BY <1>11, EmptyListed
  <2>3. Listed(<< >>)
    BY EmptyListed
  <2>4. k \in k .. n
    BY <1>1
  <2>5. \E a, u : Listed(u) /\ h[k] = Plain(a, u) /\ f[k] = Plain(a, pre \o u)
    BY <2>1, <2>2, <2>3
  <2> QED BY <2>4, <2>5
<1>14. ASSUME NEW i \in k .. n, i \in Q, i + 1 <= n
       PROVE  i + 1 \in Q
  <2>1. PICK a, u : Listed(u) /\ h[i] = Plain(a, u) /\ f[i] = Plain(a, pre \o u)
    BY <1>14
  <2>2. i + 1 \in k + 1 .. n /\ i + 1 \in 1 .. n /\ i + 1 - 1 = i /\ i + 1 \in k .. n
    BY <1>1, <1>14
  <2>3. PICK d, w : Listed(w) /\ \A ts : Listed(ts) => Bar(Plain(a, ts), bars, i + 1, c) = Plain(d, ts \o w)
    BY BarPlain
  <2>4. Listed(pre \o u)
    BY <1>11, <2>1, ListedConcat
  <2>5. h[i + 1] = Plain(d, u \o w) /\ f[i + 1] = Plain(d, (pre \o u) \o w)
    BY <1>7, <1>8, <2>1, <2>2, <2>3, <2>4
  <2>6. (pre \o u) \o w = pre \o (u \o w)
    <3>1. Listed(pre) /\ Listed(u) /\ Listed(w)
      BY <1>11, <2>1, <2>3
    <3> HIDE DEF Q
    <3> QED BY <3>1, ListedAssociative, SMTT(30)
  <2>7. Listed(u \o w)
    BY <2>1, <2>3, ListedConcat
  <2> QED BY <2>2, <2>5, <2>6, <2>7
<1>15. n \in Q
  <2> HIDE DEF Q
  <2>1. k .. n \subseteq Q
    BY <1>1, <1>13, <1>14, UpTo
  <2> QED BY <1>1, <2>1
<1>16. PICK a, u : Listed(u) /\ h[n] = Plain(a, u) /\ f[n] = Plain(a, pre \o u)
  BY <1>15
<1> HIDE DEF Q
<1>17. rest.b = a /\ rest.trades = u /\ full.b = a /\ full.trades = pre \o u
  <2>1. rest = Plain(a, u) /\ full = Plain(a, pre \o u)
    BY <1>4, <1>5, <1>16
  <2>2. Plain(a, u).b = a /\ Plain(a, u).trades = u
    BY PlainFields
  <2>3. Plain(a, pre \o u).b = a /\ Plain(a, pre \o u).trades = pre \o u
    BY PlainFields
  <2> QED BY <2>1, <2>2, <2>3, Zenon
<1>18. full.b = rest.b /\ full.trades = short.trades \o rest.trades
  BY <1>12, <1>17
<1> QED BY <1>18, Zenon DEF Splits, full, rest, short, prior

-------------------------------------------------------------------------------
(* A paper run.  Its events only grow; each starts from the balance the    *)
(* one before it left; a mark carries the peak of the equities marked so   *)
(* far and the deepest fall from a peak.                                   *)
PricedBar == [O : Int, H : Int, L : Int, C : Int, gate : BOOLEAN, step : Nat \ {0}, T : Int, allows : BOOLEAN]
Effect == [kind : {"entry", "exit", "partial"}, index : Int, before : Int, after : Int]
Statement == [kind : {"mark"}, index : Int, before : Int, after : Int, equity : Int, peak : Int, maxDrawdown : Int]
Event == Effect \cup Statement

MarksTo(ev, k) == {j \in 1 .. k : ev[j].kind = "mark"}
EquitiesTo(ev, k) == {ev[j].equity : j \in MarksTo(ev, k)} \cup {StartEquity}
FallsTo(ev, k) == {ev[j].peak - ev[j].equity : j \in MarksTo(ev, k)} \cup {0}
Greatest(m, S) == m \in S /\ \A y \in S : y <= m

Chained(ev) == \A k \in 1 .. Len(ev) : ev[k].before = IF k = 1 THEN 0 ELSE ev[k - 1].after
Balance(ev) == IF Len(ev) = 0 THEN 0 ELSE ev[Len(ev)].after
MarkedTrue(ev) ==
  \A k \in MarksTo(ev, Len(ev)) :
    Greatest(ev[k].peak, EquitiesTo(ev, k)) /\ Greatest(ev[k].maxDrawdown, FallsTo(ev, k))
Journal(ev, peak, fall, balance) ==
  /\ ev \in Seq(Event) /\ Chained(ev) /\ MarkedTrue(ev) /\ balance = Balance(ev)
  /\ peak \in Int /\ fall \in Int
  /\ Greatest(peak, EquitiesTo(ev, Len(ev))) /\ Greatest(fall, FallsTo(ev, Len(ev)))

LEMMA JournalTyped ==
  ASSUME NEW ev \in Seq(Event), NEW k \in 1 .. Len(ev)
  PROVE  /\ ev[k].before \in Int /\ ev[k].after \in Int /\ ev[k] \in Event
         /\ ev[k].kind = "mark" => ev[k] \in Statement
<1>1. ev[k] \in Event
  BY ElementOfSeq
<1>2. CASE ev[k] \in Effect
  BY <1>1, <1>2 DEF Effect
<1>3. CASE ev[k] \in Statement
  BY <1>1, <1>3 DEF Statement
<1> QED BY <1>1, <1>2, <1>3 DEF Event

(* Appending an event leaves the marks before it alone.                    *)
LEMMA MarksKept ==
  ASSUME NEW ev \in Seq(Event), NEW x \in Event, NEW k \in 0 .. Len(ev)
  PROVE  /\ MarksTo(Append(ev, x), k) = MarksTo(ev, k)
         /\ EquitiesTo(Append(ev, x), k) = EquitiesTo(ev, k)
         /\ FallsTo(Append(ev, x), k) = FallsTo(ev, k)
<1> DEFINE longer == Append(ev, x)
<1>1. \A j \in 1 .. Len(ev) : longer[j] = ev[j]
  BY AppendProperties
<1> HIDE DEF longer
<1>2. Len(ev) \in Nat
  BY LenProperties
<1>3. \A j \in 1 .. k : longer[j] = ev[j]
  BY <1>1, <1>2
<1>4. MarksTo(longer, k) = MarksTo(ev, k)
  BY <1>3 DEF MarksTo
<1>5. MarksTo(ev, k) \subseteq 1 .. k
  BY DEF MarksTo
<1>6. EquitiesTo(longer, k) = EquitiesTo(ev, k)
  BY <1>3, <1>4, <1>5 DEF EquitiesTo
<1>7. FallsTo(longer, k) = FallsTo(ev, k)
  BY <1>3, <1>4, <1>5 DEF FallsTo
<1> QED BY <1>4, <1>6, <1>7 DEF longer

LEMMA ChainKept ==
  ASSUME NEW ev \in Seq(Event), Chained(ev), MarkedTrue(ev), NEW x \in Event, x.before = Balance(ev)
  PROVE  /\ Append(ev, x) \in Seq(Event) /\ Len(Append(ev, x)) = Len(ev) + 1 /\ Len(ev) \in Nat
         /\ Append(ev, x)[Len(ev) + 1] = x /\ Balance(Append(ev, x)) = x.after
         /\ Chained(Append(ev, x))
         /\ \A k \in MarksTo(Append(ev, x), Len(ev)) :
              /\ Greatest(Append(ev, x)[k].peak, EquitiesTo(Append(ev, x), k))
              /\ Greatest(Append(ev, x)[k].maxDrawdown, FallsTo(Append(ev, x), k))
<1> DEFINE longer == Append(ev, x)
<1>1. /\ longer \in Seq(Event) /\ Len(longer) = Len(ev) + 1 /\ Len(ev) \in Nat
      /\ \A j \in 1 .. Len(ev) : longer[j] = ev[j]
      /\ longer[Len(ev) + 1] = x
  BY AppendProperties, LenProperties
<1>2. \A k \in 0 .. Len(ev) : MarksTo(longer, k) = MarksTo(ev, k) /\ EquitiesTo(longer, k) = EquitiesTo(ev, k) /\ FallsTo(longer, k) = FallsTo(ev, k)
  BY MarksKept
<1> HIDE DEF longer
<1>3. Balance(longer) = x.after
  BY <1>1 DEF Balance
<1>4. Chained(longer)
  <2> SUFFICES ASSUME NEW k \in 1 .. Len(ev) + 1
               PROVE  longer[k].before = IF k = 1 THEN 0 ELSE longer[k - 1].after
    BY <1>1 DEF Chained
  <2>1. CASE k \in 1 .. Len(ev)
    BY <2>1, <1>1 DEF Chained
  <2>2. CASE k = Len(ev) + 1
    <3>1. CASE Len(ev) = 0
      BY <2>2, <3>1, <1>1 DEF Balance
    <3>2. CASE Len(ev) # 0
      <4>1. Len(ev) \in 1 .. Len(ev) /\ k - 1 = Len(ev) /\ k # 1
        BY <3>2, <2>2, <1>1
      <4> QED BY <4>1, <3>2, <2>2, <1>1 DEF Balance
    <3> QED BY <3>1, <3>2
  <2> QED BY <2>1, <2>2, <1>1
<1>5. ASSUME NEW k \in MarksTo(longer, Len(ev))
      PROVE  Greatest(longer[k].peak, EquitiesTo(longer, k)) /\ Greatest(longer[k].maxDrawdown, FallsTo(longer, k))
  <2>1. k \in MarksTo(ev, Len(ev)) /\ k \in 0 .. Len(ev) /\ k \in 1 .. Len(ev)
    BY <1>1, <1>2 DEF MarksTo
  <2> QED BY <2>1, <1>1, <1>2 DEF MarkedTrue
<1> QED BY <1>1, <1>3, <1>4, <1>5 DEF longer

LEMMA JournalEffect ==
  ASSUME NEW ev, NEW peak, NEW fall, NEW balance, Journal(ev, peak, fall, balance),
         NEW x \in Effect, x.before = balance
  PROVE  Journal(Append(ev, x), peak, fall, x.after)
<1> DEFINE longer == Append(ev, x)
<1>1. x \in Event /\ x.kind # "mark"
  BY DEF Event, Effect
<1>2. ev \in Seq(Event) /\ Chained(ev) /\ MarkedTrue(ev) /\ x.before = Balance(ev)
  BY DEF Journal
<1>3. /\ longer \in Seq(Event) /\ Len(longer) = Len(ev) + 1 /\ Len(ev) \in Nat /\ longer[Len(ev) + 1] = x
      /\ Balance(longer) = x.after /\ Chained(longer)
      /\ \A k \in MarksTo(longer, Len(ev)) :
           Greatest(longer[k].peak, EquitiesTo(longer, k)) /\ Greatest(longer[k].maxDrawdown, FallsTo(longer, k))
  BY <1>1, <1>2, ChainKept
<1>4. Len(ev) \in 0 .. Len(ev)
  BY <1>3
<1>5. EquitiesTo(longer, Len(ev)) = EquitiesTo(ev, Len(ev)) /\ FallsTo(longer, Len(ev)) = FallsTo(ev, Len(ev))
  BY <1>1, <1>2, <1>4, MarksKept
<1> HIDE DEF longer
<1>6. MarksTo(longer, Len(longer)) = MarksTo(longer, Len(ev))
  BY <1>1, <1>3 DEF MarksTo
<1>7. EquitiesTo(longer, Len(longer)) = EquitiesTo(ev, Len(ev)) /\ FallsTo(longer, Len(longer)) = FallsTo(ev, Len(ev))
  BY <1>5, <1>6 DEF EquitiesTo, FallsTo
<1>8. MarkedTrue(longer)
  BY <1>3, <1>6 DEF MarkedTrue
<1> QED BY <1>3, <1>7, <1>8 DEF Journal, longer

LEMMA JournalMark ==
  ASSUME NEW ev, NEW peak, NEW fall, NEW balance, Journal(ev, peak, fall, balance),
         NEW x \in Statement, x.before = balance, x.after = balance,
         x.peak = IF peak >= x.equity THEN peak ELSE x.equity,
         x.maxDrawdown = IF fall >= x.peak - x.equity THEN fall ELSE x.peak - x.equity
  PROVE  Journal(Append(ev, x), x.peak, x.maxDrawdown, balance)
<1> DEFINE longer == Append(ev, x)
           n == Len(ev) + 1
<1>1. x \in Event /\ x.kind = "mark" /\ x.equity \in Int /\ x.peak \in Int /\ x.maxDrawdown \in Int
  BY DEF Event, Statement
<1>2. ev \in Seq(Event) /\ Chained(ev) /\ MarkedTrue(ev) /\ x.before = Balance(ev) /\ peak \in Int /\ fall \in Int
  BY DEF Journal
<1>3. /\ longer \in Seq(Event) /\ Len(longer) = n /\ Len(ev) \in Nat /\ longer[n] = x
      /\ Balance(longer) = x.after /\ Chained(longer)
      /\ \A k \in MarksTo(longer, Len(ev)) :
           Greatest(longer[k].peak, EquitiesTo(longer, k)) /\ Greatest(longer[k].maxDrawdown, FallsTo(longer, k))
  BY <1>1, <1>2, ChainKept
<1>4. Len(ev) \in 0 .. Len(ev) /\ n \in 1 .. n
  BY <1>3
<1>5. EquitiesTo(longer, Len(ev)) = EquitiesTo(ev, Len(ev)) /\ FallsTo(longer, Len(ev)) = FallsTo(ev, Len(ev))
  BY <1>1, <1>2, <1>4, MarksKept
<1>6. MarksTo(longer, n) = MarksTo(longer, Len(ev)) \cup {n}
  <2> HIDE DEF longer
  <2>1. \A j \in 1 .. n : j \in 1 .. Len(ev) \/ j = n
    BY <1>3
  <2>2. 1 .. Len(ev) \subseteq 1 .. n
    BY <1>3
  <2> QED BY <1>1, <1>3, <1>4, <2>1, <2>2 DEF MarksTo
<1> HIDE DEF longer, n
<1>7. EquitiesTo(longer, n) = EquitiesTo(ev, Len(ev)) \cup {x.equity}
  <2>1. EquitiesTo(longer, n) = EquitiesTo(longer, Len(ev)) \cup {x.equity}
    BY <1>3, <1>6 DEF EquitiesTo
  <2> QED BY <2>1, <1>5
<1>8. FallsTo(longer, n) = FallsTo(ev, Len(ev)) \cup {x.peak - x.equity}
  <2>1. FallsTo(longer, n) = FallsTo(longer, Len(ev)) \cup {x.peak - x.equity}
    BY <1>3, <1>6 DEF FallsTo
  <2> QED BY <2>1, <1>5
<1>9. Greatest(x.peak, EquitiesTo(longer, n))
  <2>1. Greatest(peak, EquitiesTo(ev, Len(ev))) /\ EquitiesTo(ev, Len(ev)) \subseteq Int
    <3>1. \A j \in MarksTo(ev, Len(ev)) : ev[j].equity \in Int
      <4> TAKE j \in MarksTo(ev, Len(ev))
      <4>1. j \in 1 .. Len(ev) /\ ev[j].kind = "mark"
        BY DEF MarksTo
      <4>2. ev[j] \in Statement
        BY <1>2, <4>1, JournalTyped
      <4> QED BY <4>2 DEF Statement
    <3> QED BY <3>1, PaperAssumption DEF Journal, EquitiesTo, PaperAssumption
  <2> QED BY <2>1, <1>1, <1>2, <1>7 DEF Greatest
<1>10. Greatest(x.maxDrawdown, FallsTo(longer, n))
  <2>1. Greatest(fall, FallsTo(ev, Len(ev))) /\ FallsTo(ev, Len(ev)) \subseteq Int
    <3>1. \A j \in MarksTo(ev, Len(ev)) : ev[j].peak - ev[j].equity \in Int
      <4> TAKE j \in MarksTo(ev, Len(ev))
      <4>1. j \in 1 .. Len(ev) /\ ev[j].kind = "mark"
        BY DEF MarksTo
      <4>2. ev[j] \in Statement
        BY <1>2, <4>1, JournalTyped
      <4> QED BY <4>2 DEF Statement
    <3> QED BY <3>1 DEF Journal, FallsTo
  <2>2. x.peak - x.equity \in Int
    BY <1>1
  <2> QED BY <2>1, <2>2, <1>1, <1>2, <1>8 DEF Greatest
<1>11. MarkedTrue(longer)
  BY <1>3, <1>6, <1>9, <1>10 DEF MarkedTrue
<1> QED BY <1>1, <1>2, <1>3, <1>9, <1>10, <1>11 DEF Journal, longer

-------------------------------------------------------------------------------
(* The broker's fields and the collector's, bar by bar: the balance is what*)
(* the completed trades and the open lots credit, less the entry fee of    *)
(* the open ones; an order waits only on a flat broker.                    *)
Order == [sl : Int, tp : Int, slotEnd : Int, gapAware : BOOLEAN]
Position == [size : Int, entry : Int, sl : Int, tp : Int, index : Int, slotEnd : Int, partial : BOOLEAN, gapAware : BOOLEAN]
Fields == [position : Position \cup {NoPosition}, pending : Order \cup {<< >>}, realized : Int, lastEntry : Int,
           seen : SUBSET Int, lastExit : Int]
Reasons == {"window", "sl", "tp", "partial", "time"}
Trade == [index : Int, exit : Int, size : Int, pnl : Int, reason : Reasons]
Lot == [index : Int, size : Int, fee : Int, credits : Int]
Collector == [events : Seq(Event), open : Lot \cup {<< >>}, fees : Int, peak : Int, maxDrawdown : Int,
              net : Int, count : Int, failed : BOOLEAN]
State == [b : Fields, trades : Seq(Trade), paper : Collector]

Owed(paper) == paper.net + (IF paper.open = << >> THEN 0 ELSE paper.open.credits - paper.open.fee)
Books(s) ==
  /\ s \in State
  /\ Held(s) <=> s.paper.open # << >>
  /\ Held(s) => s.b.pending = << >>
  /\ s.b.realized = Owed(s.paper)
  /\ Journal(s.paper.events, s.paper.peak, s.paper.maxDrawdown, s.b.realized)
Grown(s, t) == \E e : Listed(e) /\ t.paper.events = s.paper.events \o e

LEMMA RecordsNotEmpty ==
  /\ \A p \in Position : p # << >>
  /\ \A l \in Lot : l # << >>
  /\ \A c \in Collector : c # << >>
<1>1. DOMAIN << >> = {}
  OBVIOUS
<1>2. \A p \in Position : "size" \in DOMAIN p
  BY DEF Position
<1>3. \A p \in Lot : "size" \in DOMAIN p
  BY DEF Lot
<1>4. \A p \in Collector : "net" \in DOMAIN p
  BY DEF Collector
<1> QED BY <1>1, <1>2, <1>3, <1>4

LEMMA GrownOrSame ==
  ASSUME NEW s, s \in State
  PROVE  /\ Grown(s, s) /\ Listed(s.paper.events)
         /\ \A t : t.paper.events = s.paper.events => Grown(s, t)
         /\ \A t, x : t.paper.events = Append(s.paper.events, x) => Grown(s, t)
<1>1. Listed(s.paper.events)
  BY DEF State, Collector, Listed
<1>2. Listed(<< >>) /\ s.paper.events \o << >> = s.paper.events
  BY <1>1, EmptyListed
<1>3. \A t : t.paper.events = s.paper.events => Grown(s, t)
  BY <1>2 DEF Grown
<1>4. \A t, x : t.paper.events = Append(s.paper.events, x) => Grown(s, t)
  <2> SUFFICES ASSUME NEW t, NEW x, t.paper.events = Append(s.paper.events, x)
               PROVE  Grown(s, t)
    OBVIOUS
  <2>1. Append(s.paper.events, x) = s.paper.events \o <<x>>
    BY <1>1, ListedOne
  <2>2. Listed(<<x>>)
    BY <1>1, ListedOne
  <2> QED BY <2>1, <2>2 DEF Grown
<1> QED BY <1>1, <1>3, <1>4

LEMMA GrownOn ==
  ASSUME NEW s, NEW t, NEW u, s \in State, Grown(s, t), Grown(t, u)
  PROVE  Grown(s, u)
<1>1. PICK e : Listed(e) /\ t.paper.events = s.paper.events \o e
  BY DEF Grown
<1>2. PICK d : Listed(d) /\ u.paper.events = t.paper.events \o d
  BY DEF Grown
<1>3. Listed(s.paper.events)
  BY GrownOrSame
<1>4. (s.paper.events \o e) \o d = s.paper.events \o (e \o d)
  <2> DEFINE ev == s.paper.events
  <2>1. Listed(ev) /\ Listed(e) /\ Listed(d)
    BY <1>1, <1>2, <1>3
  <2> HIDE DEF ev
  <2>2. (ev \o e) \o d = ev \o (e \o d)
    BY <2>1, ListedAssociative
  <2> QED BY <2>2 DEF ev
<1>5. Listed(e \o d)
  BY <1>1, <1>2, ListedConcat
<1> QED BY <1>1, <1>2, <1>4, <1>5 DEF Grown

(* Fields the accounts do not read.                                        *)
LEMMA BooksIgnore ==
  ASSUME NEW s, Books(s), NEW t, t \in State, t.paper = s.paper, t.b.realized = s.b.realized,
         Held(t) <=> Held(s), Held(t) => t.b.pending = << >>
  PROVE  Books(t) /\ Grown(s, t)
<1>1. s \in State /\ t.paper.events = s.paper.events
  BY DEF Books
<1> QED BY <1>1, GrownOrSame DEF Books

LEMMA OpenBooks ==
  ASSUME NEW s, Books(s), ~ Held(s), s.b.pending = << >>,
         NEW i \in Int, NEW price \in Int, NEW ord \in Order
  PROVE  Books(Open(s, i, price, ord)) /\ Grown(s, Open(s, i, price, ord))
<1> DEFINE size == IF price = ord.sl THEN 0 ELSE Lots
           p == [size |-> size, entry |-> price, sl |-> ord.sl, tp |-> ord.tp, index |-> i,
                 slotEnd |-> ord.slotEnd, partial |-> FALSE, gapAware |-> ord.gapAware]
           s1 == [s EXCEPT !.b.position = p, !.b.realized = @ - Fee * size]
           lot == [index |-> i, size |-> size, fee |-> Fee * size, credits |-> 0]
           s2 == [s1 EXCEPT !.paper.failed = @ \/ size = 0, !.paper.fees = @ + Fee * size, !.paper.open = lot]
           event == [kind |-> "entry", index |-> i, before |-> s.b.realized, after |-> s2.b.realized]
           t == [s2 EXCEPT !.paper.events = Append(@, event)]
<1>1. s \in State /\ s.paper.open = << >> /\ s.b.realized = s.paper.net
  BY DEF Books, Owed, State, Collector
<1>2. size \in Int /\ Fee = 1
  BY DEF Lots, Fee
<1>3. p \in Position
  BY <1>2 DEF Position, Order
<1>4. lot \in Lot /\ lot.credits = 0 /\ lot.fee = Fee * size
  BY <1>2 DEF Lot
<1> HIDE DEF size, p, lot
<1>5. /\ s1 \in State /\ s1.b.position = p /\ s1.b.realized = s.b.realized - Fee * size
      /\ s1.b.pending = << >> /\ s1.paper = s.paper
  <2> DEFINE v == s.b.realized - Fee * size
             b1 == [s.b EXCEPT !.position = p, !.realized = v]
  <2>1. s.b \in Fields /\ v \in Int
    BY <1>1, <1>2 DEF State, Fields
  <2>2. b1 \in Fields /\ b1.position = p /\ b1.realized = v /\ b1.pending = << >>
    <3> HIDE DEF v
    <3> QED BY <1>3, <2>1 DEF Fields
  <2>3. s1 = [s EXCEPT !.b = b1]
    <3> HIDE DEF v
    <3>1. s1 = [s EXCEPT !.b.position = p, !.b.realized = v]
      BY DEF v
    <3> QED BY <1>1, <3>1 DEF State, Fields
  <2> HIDE DEF b1, s1, v
  <2> QED BY <1>1, <2>2, <2>3 DEF State, v
<1>6. Collects(s1)
  BY <1>5, RecordsNotEmpty DEF Collects, State, NoCollector
<1> HIDE DEF s1
<1>7. /\ s2 \in State /\ s2.b = s1.b /\ s2.paper.open = lot /\ s2.paper.events = s.paper.events
      /\ s2.paper.net = s.paper.net /\ s2.paper.peak = s.paper.peak /\ s2.paper.maxDrawdown = s.paper.maxDrawdown
  <2> DEFINE failed == s1.paper.failed \/ size = 0
             fees == s1.paper.fees + Fee * size
             paper == [s1.paper EXCEPT !.failed = failed, !.fees = fees, !.open = lot]
  <2>1. s1.paper \in Collector /\ fees \in Int /\ failed \in BOOLEAN
    BY <1>2, <1>5 DEF State, Collector
  <2>2. s2 = [s1 EXCEPT !.paper.failed = failed, !.paper.fees = fees, !.paper.open = lot]
    BY DEF s2
  <2> HIDE DEF failed, fees
  <2>3. /\ paper \in Collector /\ paper.open = lot /\ paper.events = s1.paper.events /\ paper.net = s1.paper.net
        /\ paper.peak = s1.paper.peak /\ paper.maxDrawdown = s1.paper.maxDrawdown
    BY <1>4, <2>1 DEF Collector
  <2>4. s2 = [s1 EXCEPT !.paper = paper]
    BY <1>5, <2>2 DEF State, Collector
  <2> HIDE DEF paper
  <2> QED BY <1>5, <2>3, <2>4 DEF State
<1> HIDE DEF s2
<1>8. event \in Effect /\ event.before = s.b.realized /\ event.after = s2.b.realized
  BY <1>1, <1>7 DEF Effect, State, Fields
<1> HIDE DEF event
<1>9. /\ t \in State /\ t.b = s2.b /\ t.paper.open = lot /\ t.paper.events = Append(s.paper.events, event)
      /\ t.paper.net = s.paper.net /\ t.paper.peak = s.paper.peak /\ t.paper.maxDrawdown = s.paper.maxDrawdown
  <2>1. Append(s2.paper.events, event) \in Seq(Event)
    BY <1>7, <1>8, AppendProperties DEF State, Collector, Event
  <2> QED BY <1>7, <2>1 DEF State, Collector
<1>10. Open(s, i, price, ord) = t
  <2>1. Open(s, i, price, ord) = PaperEntry(s1, i, s.b.realized)
    BY DEF Open, s1, p, size
  <2>2. PaperEntry(s1, i, s.b.realized) = Emit([s1 EXCEPT !.paper.failed = @ \/ size = 0, !.paper.fees = @ + Fee * size,
                         !.paper.open = [index |-> i, size |-> size, fee |-> Fee * size, credits |-> 0]], "entry", i, s.b.realized)
    <3>1. s1.b.position.size = size
      BY <1>5 DEF p
    <3> QED BY <1>6, <3>1 DEF PaperEntry
  <2> QED BY <2>1, <2>2 DEF Emit, s2, lot, event
<1> HIDE DEF t
<1>11. Journal(t.paper.events, t.paper.peak, t.paper.maxDrawdown, t.b.realized)
  BY <1>7, <1>8, <1>9, JournalEffect DEF Books
<1>12. Held(t) /\ t.paper.open # << >> /\ t.b.pending = << >>
  BY <1>3, <1>4, <1>5, <1>7, <1>9, RecordsNotEmpty DEF Held, NoPosition
<1>13. t.b.realized = Owed(t.paper)
  <2>1. s.b.realized \in Int /\ Fee * size \in Int
    BY <1>1, <1>2 DEF State, Fields
  <2> QED BY <1>1, <1>4, <1>5, <1>7, <1>9, <1>12, <2>1 DEF Owed
<1>14. Books(t)
  BY <1>9, <1>11, <1>12, <1>13 DEF Books
<1>15. Grown(s, t)
  BY <1>1, <1>9, GrownOrSame
<1> QED BY <1>10, <1>14, <1>15

(* The books but for the event of the effect just made.                    *)
Unsaid(s, before) ==
  /\ s \in State /\ before \in Int
  /\ Journal(s.paper.events, s.paper.peak, s.paper.maxDrawdown, before)
  /\ Held(s) <=> s.paper.open # << >>
  /\ Held(s) => s.b.pending = << >>
  /\ s.b.realized = Owed(s.paper)

LEMMA EmitBooks ==
  ASSUME NEW s, NEW before, Unsaid(s, before), NEW kind \in {"entry", "exit", "partial"}, NEW i \in Int
  PROVE  /\ Books(Emit(s, kind, i, before))
         /\ Emit(s, kind, i, before).paper.events = Append(s.paper.events, [kind |-> kind, index |-> i, before |-> before, after |-> s.b.realized])
<1> USE DEF Unsaid
<1> DEFINE event == [kind |-> kind, index |-> i, before |-> before, after |-> s.b.realized]
           t == [s EXCEPT !.paper.events = Append(@, event)]
<1>1. event \in Effect /\ event.before = before /\ event.after = s.b.realized
  BY DEF Effect, State, Fields
<1>2. Emit(s, kind, i, before) = t
  BY DEF Emit
<1> HIDE DEF event
<1>3. /\ t \in State /\ t.b = s.b /\ t.paper.open = s.paper.open /\ t.paper.events = Append(s.paper.events, event)
      /\ t.paper.net = s.paper.net /\ t.paper.peak = s.paper.peak /\ t.paper.maxDrawdown = s.paper.maxDrawdown
  <2>1. Append(s.paper.events, event) \in Seq(Event)
    BY <1>1, AppendProperties DEF State, Collector, Event
  <2> QED BY <2>1 DEF State, Collector
<1> HIDE DEF t
<1>4. Journal(t.paper.events, t.paper.peak, t.paper.maxDrawdown, t.b.realized)
  BY <1>1, <1>3, JournalEffect
<1>5. Books(t)
  BY <1>3, <1>4 DEF Books, Owed, Held
<1> QED BY <1>2, <1>3, <1>5 DEF event

LEMMA ReduceBooks ==
  ASSUME NEW s, Books(s), Held(s), NEW i \in Int, NEW price \in Int, NEW size \in Int, NEW reason \in Reasons
  PROVE  Books(Reduce(s, i, price, size, reason)) /\ Grown(s, Reduce(s, i, price, size, reason))
<1> DEFINE p == s.b.position
           pnl == (price - p.entry) * size - Fee * size
           whole == size = p.size
           v == s.b.realized + pnl
           l == IF whole THEN i ELSE s.b.lastExit
           q == IF whole THEN NoPosition ELSE [p EXCEPT !.size = p.size - size, !.partial = TRUE]
           trade == [index |-> p.index, exit |-> i, size |-> size, pnl |-> pnl, reason |-> reason]
           ts == Append(s.trades, trade)
           s1 == [s EXCEPT !.b.realized = v, !.b.lastExit = l, !.b.position = q, !.trades = ts]
           s2 == PaperReduction(s1, size)
           s3 == IF whole THEN Completed(s2) ELSE s2
           kind == IF whole THEN "exit" ELSE "partial"
<1>1. /\ s \in State /\ s.b \in Fields /\ p \in Position /\ s.paper \in Collector /\ s.paper.open \in Lot
      /\ s.b.realized = s.paper.net + (s.paper.open.credits - s.paper.open.fee) /\ s.b.pending = << >>
  <2>1. s \in State /\ s.b \in Fields /\ s.paper \in Collector
    BY DEF Books, State
  <2>2. p \in Position
    BY <2>1 DEF Held, Fields
  <2>3. s.paper.open # << >>
    BY DEF Books
  <2>4. s.paper.open \in Lot
    BY <2>1, <2>3 DEF Collector
  <2> QED BY <2>1, <2>2, <2>3, <2>4 DEF Books, Owed
<1>2. pnl \in Int /\ v \in Int /\ l \in Int
  <2>1. p.entry \in Int /\ p.size \in Int /\ s.b.realized \in Int /\ s.b.lastExit \in Int
    BY <1>1 DEF Position, Fields
  <2>2. price - p.entry \in Int /\ Fee = 1
    BY <2>1 DEF Fee
  <2>3. (price - p.entry) * size \in Int
    <3> DEFINE d == price - p.entry
    <3>1. d \in Int
      BY <2>2
    <3> HIDE DEF d
    <3>2. d * size \in Int
      BY <3>1
    <3> QED BY <3>2 DEF d
  <2>4. pnl \in Int
    <3> DEFINE m == (price - p.entry) * size
    <3>1. m \in Int
      BY <2>3
    <3> HIDE DEF m
    <3>2. m - Fee * size \in Int
      BY <3>1, <2>2
    <3> QED BY <3>2 DEF m
  <2> HIDE DEF pnl
  <2> QED BY <2>1, <2>4
<1>3. q \in Position \cup {NoPosition} /\ (q # NoPosition <=> ~ whole)
  <2>1. [p EXCEPT !.size = p.size - size, !.partial = TRUE] \in Position
    <3> DEFINE left == p.size - size
    <3>1. left \in Int /\ p \in Position
      BY <1>1 DEF Position
    <3> HIDE DEF left, p
    <3>2. [p EXCEPT !.size = left, !.partial = TRUE] \in Position
      BY <3>1 DEF Position
    <3> QED BY <3>2 DEF left
  <2> QED BY <2>1, RecordsNotEmpty DEF NoPosition
<1>4. trade \in Trade /\ trade.pnl = pnl
  <2> HIDE DEF pnl
  <2> QED BY <1>1, <1>2 DEF Trade, Position
<1>5. ts \in Seq(Trade) /\ ts[Len(ts)].pnl = pnl
  <2>1. s.trades \in Seq(Trade)
    BY <1>1 DEF State
  <2> HIDE DEF trade
  <2>2. ts \in Seq(Trade) /\ Len(ts) = Len(s.trades) + 1 /\ ts[Len(s.trades) + 1] = trade
    BY <1>4, <2>1, AppendProperties
  <2> QED BY <1>4, <2>2
<1>6. Reduce(s, i, price, size, reason) = PaperExit(s1, i, s.b.realized, size, whole)
  BY Zenon DEF Reduce
<1> HIDE DEF v, l, q, ts, trade
<1>7. /\ s1 \in State /\ s1.b.realized = v /\ s1.b.position = q /\ s1.b.pending = << >>
      /\ s1.paper = s.paper /\ s1.trades = ts
  <2> DEFINE b1 == [s.b EXCEPT !.realized = v, !.lastExit = l, !.position = q]
  <2>1. b1 \in Fields /\ b1.realized = v /\ b1.position = q /\ b1.pending = << >>
    BY <1>1, <1>2, <1>3 DEF Fields
  <2>2. s1 = [s EXCEPT !.b = b1, !.trades = ts]
    <3> DEFINE x1 == [s EXCEPT !.b.realized = v, !.b.lastExit = l, !.b.position = q]
    <3>1. x1 = [s EXCEPT !.b = b1]
      BY <1>1 DEF State, Fields
    <3>2. s1 = [x1 EXCEPT !.trades = ts]
      OBVIOUS
    <3> HIDE DEF x1, b1
    <3> QED BY <3>1, <3>2
  <2> HIDE DEF b1, s1
  <2> QED BY <1>1, <1>5, <2>1, <2>2 DEF State
<1> HIDE DEF s1
<1>8. Collects(s1)
  BY <1>1, <1>7, RecordsNotEmpty DEF Collects, NoCollector
<1>9. /\ s2 \in State /\ s2.b = s1.b /\ s2.paper.events = s.paper.events /\ s2.paper.net = s.paper.net
      /\ s2.paper.peak = s.paper.peak /\ s2.paper.maxDrawdown = s.paper.maxDrawdown
      /\ s2.paper.open \in Lot /\ s2.paper.open.fee = s.paper.open.fee
      /\ s2.paper.open.credits = s.paper.open.credits + pnl
  <2> DEFINE fees == s1.paper.fees + Fee * size
             left == s1.paper.open.size - size
             credits == s1.paper.open.credits + pnl
             lot == [s1.paper.open EXCEPT !.size = left, !.credits = credits]
             paper == [s1.paper EXCEPT !.fees = fees, !.open = lot]
  <2>1. s1.paper \in Collector /\ s1.paper.open \in Lot /\ fees \in Int /\ left \in Int /\ credits \in Int
    <3>1. s1.paper \in Collector /\ s1.paper.open \in Lot /\ pnl \in Int /\ Fee * size \in Int
      <4> HIDE DEF pnl
      <4> QED BY <1>1, <1>2, <1>7 DEF Fee
    <3> HIDE DEF pnl
    <3>2. s1.paper.fees \in Int /\ s1.paper.open.size \in Int /\ s1.paper.open.credits \in Int
      BY <3>1 DEF Collector, Lot
    <3> QED BY <3>1, <3>2
  <2>2. s2 = [s1 EXCEPT !.paper.fees = fees, !.paper.open.size = left, !.paper.open.credits = credits]
    <3> HIDE DEF pnl
    <3>1. s1.trades[Len(s1.trades)].pnl = pnl
      BY <1>5, <1>7
    <3>2. s2 = [s1 EXCEPT !.paper.fees = fees, !.paper.open.size = left,
                          !.paper.open.credits = s1.paper.open.credits + s1.trades[Len(s1.trades)].pnl]
      BY Zenon DEF PaperReduction
    <3> HIDE DEF s2, fees, left
    <3> QED BY <3>1, <3>2
  <2> HIDE DEF fees, left, credits, pnl
  <2>3. lot \in Lot /\ lot.fee = s1.paper.open.fee /\ lot.credits = credits
    BY <2>1 DEF Lot
  <2>4. s2 = [s1 EXCEPT !.paper = paper]
    <3> HIDE DEF s2
    <3> DEFINE paper1 == [s1.paper EXCEPT !.fees = fees]
               x1 == [s1 EXCEPT !.paper.fees = fees]
               lot2 == [s1.paper.open EXCEPT !.size = left]
               paper2 == [paper1 EXCEPT !.open = lot2]
               x2 == [x1 EXCEPT !.paper.open.size = left]
               x3 == [x2 EXCEPT !.paper.open.credits = credits]
    <3>1. x1 = [s1 EXCEPT !.paper = paper1] /\ x1 \in State /\ x1.paper = paper1 /\ paper1.open = s1.paper.open
          /\ paper1 \in Collector
      BY <1>7, <2>1 DEF State, Collector
    <3>2. s2 = x3
      BY <2>2
    <3> HIDE DEF x1, paper1
    <3>3. x2 = [x1 EXCEPT !.paper = paper2] /\ lot2 \in Lot /\ paper2 \in Collector /\ paper2.open = lot2
      BY <2>1, <3>1 DEF State, Collector, Lot
    <3>4. x2 \in State /\ x2.paper = paper2
      <4> HIDE DEF x2, paper2
      <4> QED BY <3>1, <3>3 DEF State
    <3>5. lot = [lot2 EXCEPT !.credits = credits]
      BY <2>1 DEF Lot
    <3>6. paper = [paper2 EXCEPT !.open = lot]
      <4> HIDE DEF lot, lot2
      <4> QED BY <2>1, <3>1 DEF paper1, Collector
    <3> HIDE DEF x2, paper2, lot, lot2, paper
    <3>7. x3 = [x2 EXCEPT !.paper = paper]
      BY <3>3, <3>4, <3>5, <3>6 DEF State, Collector
    <3>8. [x2 EXCEPT !.paper = paper] = [s1 EXCEPT !.paper = paper]
      BY <1>7, <3>1, <3>3 DEF State
    <3> QED BY <3>2, <3>7, <3>8
  <2> HIDE DEF s2, lot
  <2>5. /\ paper \in Collector /\ paper.open = lot /\ paper.events = s1.paper.events /\ paper.net = s1.paper.net
        /\ paper.peak = s1.paper.peak /\ paper.maxDrawdown = s1.paper.maxDrawdown
    BY <2>1, <2>3 DEF Collector
  <2> HIDE DEF paper
  <2>6. s2 \in State /\ s2.b = s1.b /\ s2.paper = paper
    BY <1>7, <2>4, <2>5 DEF State
  <2> QED BY <1>7, <2>3, <2>5, <2>6 DEF credits
<1> HIDE DEF s2, pnl
<1>10. /\ s3 \in State /\ s3.b = s1.b /\ s3.paper.events = s.paper.events
       /\ s3.paper.peak = s.paper.peak /\ s3.paper.maxDrawdown = s.paper.maxDrawdown
       /\ Owed(s3.paper) = s.b.realized + pnl /\ (s3.paper.open = << >> <=> whole)
  <2>1. CASE whole
    <3> DEFINE count == s2.paper.count + 1
               net == s2.paper.net + s2.paper.open.credits - s2.paper.open.fee
               paper == [s2.paper EXCEPT !.count = count, !.net = net, !.open = << >>]
    <3>1. s2.paper \in Collector /\ count \in Int /\ net \in Int
      BY <1>9 DEF State, Collector, Lot
    <3>2. s3 = [s2 EXCEPT !.paper.count = count, !.paper.net = net, !.paper.open = << >>]
      BY <2>1, Zenon DEF Completed
    <3>3. net = s.b.realized + pnl
      BY <1>1, <1>2, <1>9 DEF Collector, Lot
    <3> HIDE DEF count, net, s3
    <3>4. /\ paper \in Collector /\ paper.open = << >> /\ paper.net = net /\ paper.events = s2.paper.events
          /\ paper.peak = s2.paper.peak /\ paper.maxDrawdown = s2.paper.maxDrawdown
      BY <3>1 DEF Collector
    <3>5. s3 = [s2 EXCEPT !.paper = paper]
      BY <1>9, <3>2 DEF State, Collector
    <3> HIDE DEF paper
    <3>6. s3 \in State /\ s3.b = s2.b /\ s3.paper = paper
      BY <1>9, <3>4, <3>5 DEF State
    <3>7. net \in Int /\ Owed(paper) = net
      BY <3>1, <3>4 DEF Owed
    <3> QED BY <2>1, <1>9, <3>3, <3>4, <3>6, <3>7
  <2>2. CASE ~ whole
    <3>1. s3 = s2
      BY <2>2
    <3> HIDE DEF s3
    <3>2. s2.paper.open # << >>
      BY <1>9, RecordsNotEmpty
    <3>3. Owed(s2.paper) = s.b.realized + pnl
      <4>1. s.paper.net \in Int /\ s.paper.open.credits \in Int /\ s.paper.open.fee \in Int
        BY <1>1 DEF Collector, Lot
      <4> QED BY <1>1, <1>2, <1>9, <3>2, <4>1 DEF Owed
    <3> QED BY <2>2, <1>9, <3>1, <3>2, <3>3
  <2> QED BY <2>1, <2>2
<1>11. Reduce(s, i, price, size, reason) = Emit(s3, kind, i, s.b.realized)
  BY <1>6, <1>8 DEF PaperExit, s2
<1> HIDE DEF s3
<1>12. s3.b.realized = Owed(s3.paper) /\ (Held(s3) <=> s3.paper.open # << >>) /\ s3.b.pending = << >>
  BY <1>3, <1>7, <1>10 DEF Held, v
<1>13. Journal(s3.paper.events, s3.paper.peak, s3.paper.maxDrawdown, s.b.realized) /\ s.b.realized \in Int
  BY <1>1, <1>10 DEF Books, Fields
<1>14. kind \in {"entry", "exit", "partial"}
  OBVIOUS
<1> HIDE DEF kind
<1>15. /\ Books(Emit(s3, kind, i, s.b.realized))
       /\ Emit(s3, kind, i, s.b.realized).paper.events =
            Append(s3.paper.events, [kind |-> kind, index |-> i, before |-> s.b.realized, after |-> s3.b.realized])
  <2>1. Unsaid(s3, s.b.realized)
    BY <1>10, <1>12, <1>13 DEF Unsaid
  <2> QED BY <2>1, <1>14, EmitBooks
<1>16. Grown(s, Emit(s3, kind, i, s.b.realized))
  <2> DEFINE t == Emit(s3, kind, i, s.b.realized)
             x == [kind |-> kind, index |-> i, before |-> s.b.realized, after |-> s3.b.realized]
  <2>1. t.paper.events = Append(s.paper.events, x)
    BY <1>10, <1>15
  <2> HIDE DEF t, x
  <2>2. Grown(s, t)
    BY <1>1, <2>1, GrownOrSame
  <2> QED BY <2>2 DEF t
<1> QED BY <1>11, <1>15, <1>16, Zenon

LEMMA MaxOfTwo ==
  ASSUME NEW a \in Int, NEW b \in Int
  PROVE  Max({a, b}) = IF a >= b THEN a ELSE b
<1> DEFINE m == IF a >= b THEN a ELSE b
<1>1. m \in {a, b} /\ \A y \in {a, b} : m >= y
  OBVIOUS
<1>2. \A x \in {a, b} : (\A y \in {a, b} : x >= y) => x = m
  OBVIOUS
<1>3. Max({a, b}) \in {a, b} /\ \A y \in {a, b} : Max({a, b}) >= y
  <2> HIDE DEF m
  <2> QED BY <1>1, Zenon DEF Max
<1> HIDE DEF m
<1>4. Max({a, b}) = m
  BY <1>2, <1>3
<1> QED BY <1>4 DEF m

(* The statement a bar closes with.                                        *)
Closing(s, bars, i) ==
  LET ev == s.paper.events
  IN Len(ev) \in Nat \ {0} /\ ev[Len(ev)].kind = "mark" /\ ev[Len(ev)].equity = Equity(s, bars, i)

LEMMA MarkBooks ==
  ASSUME NEW s, Books(s), NEW bars, NEW i \in Int, bars[i] \in PricedBar
  PROVE  Books(Mark(s, bars, i)) /\ Grown(s, Mark(s, bars, i)) /\ Closing(Mark(s, bars, i), bars, i)
<1> DEFINE equity == Equity(s, bars, i)
           peak == Max({s.paper.peak, equity})
           fall == Max({s.paper.maxDrawdown, peak - equity})
           x == [kind |-> "mark", index |-> i, before |-> s.b.realized, after |-> s.b.realized,
                 equity |-> equity, peak |-> peak, maxDrawdown |-> fall]
           ev == Append(s.paper.events, x)
           paper == [s.paper EXCEPT !.peak = peak, !.maxDrawdown = fall, !.events = ev]
           t == [s EXCEPT !.paper.peak = peak, !.paper.maxDrawdown = fall, !.paper.events = ev]
<1>1. /\ s \in State /\ s.b \in Fields /\ s.paper \in Collector /\ s.b.realized \in Int
      /\ s.paper.peak \in Int /\ s.paper.maxDrawdown \in Int /\ s.paper.events \in Seq(Event)
  BY DEF Books, State, Fields, Collector
<1>2. equity \in Int
  <2>1. CASE Held(s)
    <3>1. s.b.position \in Position
      BY <1>1, <2>1 DEF Held, Fields
    <3>2. s.b.position.entry \in Int /\ s.b.position.size \in Int /\ bars[i].C \in Int /\ StartEquity \in Int
      BY <3>1, PaperAssumption DEF Position, PricedBar, PaperAssumption
    <3> DEFINE move == bars[i].C - s.b.position.entry
    <3>3. move \in Int
      BY <3>2
    <3> HIDE DEF move
    <3>4. move * s.b.position.size \in Int
      BY <3>2, <3>3
    <3>5. equity = StartEquity + s.b.realized + move * s.b.position.size
      BY <2>1 DEF Equity, move
    <3> QED BY <1>1, <3>2, <3>4, <3>5
  <2>2. CASE ~ Held(s)
    BY <1>1, <2>2, PaperAssumption DEF Equity, PaperAssumption
  <2> QED BY <2>1, <2>2
<1> HIDE DEF equity
<1>3. peak = (IF s.paper.peak >= equity THEN s.paper.peak ELSE equity) /\ peak \in Int
  BY <1>1, <1>2, MaxOfTwo
<1> HIDE DEF peak
<1>4. fall = (IF s.paper.maxDrawdown >= peak - equity THEN s.paper.maxDrawdown ELSE peak - equity) /\ fall \in Int
  <2>1. peak - equity \in Int
    BY <1>2, <1>3
  <2> QED BY <1>1, <2>1, MaxOfTwo
<1> HIDE DEF fall
<1>5. /\ x \in Statement /\ x \in Event /\ x.before = s.b.realized /\ x.after = s.b.realized /\ x.peak = peak
      /\ x.maxDrawdown = fall /\ x.equity = equity /\ x.kind = "mark"
  BY <1>1, <1>2, <1>3, <1>4 DEF Statement, Event
<1>6. Mark(s, bars, i) = t
  <2>1. Collects(s)
    BY <1>1, RecordsNotEmpty DEF Collects, NoCollector
  <2>2. Mark(s, bars, i) = [s EXCEPT !.paper.peak = peak, !.paper.maxDrawdown = fall,
                                     !.paper.events = Append(@, x)]
    BY <2>1, Zenon DEF Mark, peak, fall, equity
  <2> QED BY <2>2
<1> HIDE DEF x
<1>7. ev \in Seq(Event) /\ Len(ev) = Len(s.paper.events) + 1 /\ ev[Len(ev)] = x /\ Len(s.paper.events) \in Nat
  BY <1>1, <1>5, AppendProperties, LenProperties
<1>8. Journal(ev, peak, fall, s.b.realized)
  BY <1>3, <1>4, <1>5, JournalMark DEF Books
<1>9. ev = Append(s.paper.events, x)
  OBVIOUS
<1> HIDE DEF ev
<1>10. /\ paper \in Collector /\ paper.events = ev /\ paper.peak = peak /\ paper.maxDrawdown = fall
       /\ paper.open = s.paper.open /\ paper.net = s.paper.net
  BY <1>1, <1>3, <1>4, <1>7 DEF Collector
<1>11. t = [s EXCEPT !.paper = paper]
  BY <1>1 DEF State, Collector
<1> HIDE DEF paper, t
<1>12. t \in State /\ t.b = s.b /\ t.paper = paper
  BY <1>1, <1>10, <1>11 DEF State
<1>13. Books(t)
  BY <1>8, <1>10, <1>12 DEF Books, Held, Owed
<1>14. Grown(s, t)
  BY <1>1, <1>9, <1>10, <1>12, GrownOrSame
<1>15. Equity(t, bars, i) = equity
  BY <1>12 DEF Equity, Held, equity
<1>16. Closing(t, bars, i)
  BY <1>5, <1>7, <1>10, <1>12, <1>15 DEF Closing
<1> QED BY <1>6, <1>13, <1>14, <1>16

-------------------------------------------------------------------------------
(* Every part of a bar keeps the books.                                    *)
Feasible(s, t) == Books(t) /\ Grown(s, t)

LEMMA SamePart ==
  ASSUME NEW s, Books(s)
  PROVE  Feasible(s, s)
<1>1. s \in State
  BY DEF Books
<1> QED BY <1>1, GrownOrSame DEF Feasible

LEMMA PartsJoin ==
  ASSUME NEW s, NEW t, NEW u, Books(s), Feasible(s, t), Feasible(t, u)
  PROVE  Feasible(s, u)
<1>1. s \in State
  BY DEF Books
<1> QED BY <1>1, GrownOn DEF Feasible

LEMMA HeldFields ==
  ASSUME NEW s, Books(s)
  PROVE  /\ s.b \in Fields /\ s \in State
         /\ Held(s) => /\ s.b.position \in Position /\ s.b.position.size \in Int /\ s.b.position.entry \in Int
                       /\ s.b.position.sl \in Int /\ s.b.position.tp \in Int
<1>1. s.b \in Fields /\ s \in State
  BY DEF Books, State
<1>2. ASSUME Held(s) PROVE s.b.position \in Position
  BY <1>1, <1>2 DEF Held, Fields
<1> QED BY <1>1, <1>2 DEF Position

LEMMA Prices ==
  ASSUME NEW b \in PricedBar
  PROVE  b.O \in Int /\ b.H \in Int /\ b.L \in Int /\ b.C \in Int /\ b.T \in Int
BY DEF PricedBar

LEMMA ReducePart ==
  ASSUME NEW s, Books(s), Held(s), NEW i \in Int, NEW price \in Int, NEW size \in Int, NEW reason \in Reasons
  PROVE  Feasible(s, Reduce(s, i, price, size, reason))
BY ReduceBooks DEF Feasible

LEMMA OpenPart ==
  ASSUME NEW s, Books(s), ~ Held(s), s.b.pending = << >>, NEW i \in Int, NEW price \in Int, NEW ord \in Order
  PROVE  Feasible(s, Open(s, i, price, ord))
BY OpenBooks DEF Feasible

LEMMA FillPendingPart ==
  ASSUME NEW s, Books(s), NEW bars, NEW i \in Int, bars[i] \in PricedBar
  PROVE  Feasible(s, FillPending(s, bars, i))
<1>1. CASE s.b.pending = << >>
  BY <1>1, SamePart DEF FillPending
<1>2. CASE s.b.pending # << >>
  <2> DEFINE b1 == [s.b EXCEPT !.pending = << >>]
             t == [s EXCEPT !.b = b1]
  <2>1. s \in State /\ s.b \in Fields /\ ~ Held(s) /\ s.b.pending \in Order
    BY <1>2, HeldFields DEF Books, Fields
  <2>2. b1 \in Fields /\ b1.pending = << >> /\ b1.position = s.b.position /\ b1.realized = s.b.realized
    BY <2>1 DEF Fields
  <2>3. [s EXCEPT !.b.pending = << >>] = t
    BY <2>1 DEF State
  <2> HIDE DEF b1
  <2>4. t \in State /\ t.b = b1 /\ t.paper = s.paper
    BY <2>1, <2>2 DEF State
  <2> HIDE DEF t
  <2>5. Books(t) /\ Grown(s, t) /\ ~ Held(t) /\ t.b.pending = << >>
    <3>1. Held(t) <=> Held(s)
      BY <2>2, <2>4 DEF Held
    <3>2. t.b.realized = s.b.realized /\ t.b.pending = << >>
      BY <2>2, <2>4
    <3> QED BY <2>1, <2>4, <3>1, <3>2, BooksIgnore
  <2>6. bars[i].O \in Int
    BY DEF PricedBar
  <2>7. Feasible(t, Open(t, i, bars[i].O, s.b.pending))
    BY <2>1, <2>5, <2>6, OpenPart
  <2>8. Feasible(s, Open(t, i, bars[i].O, s.b.pending))
    BY <2>5, <2>7, PartsJoin DEF Feasible
  <2> QED BY <1>2, <2>3, <2>8 DEF FillPending
<1> QED BY <1>1, <1>2

LEMMA WindowClosePart ==
  ASSUME NEW s, Books(s), NEW bars, NEW i \in Int, bars[i] \in PricedBar
  PROVE  Feasible(s, WindowClose(s, bars, i))
<1>1. CASE Held(s) /\ bars[i].T >= s.b.position.slotEnd
  <2>1. bars[i].O \in Int /\ s.b.position.size \in Int
    BY <1>1, HeldFields, Prices
  <2> QED BY <1>1, <2>1, ReducePart DEF Reasons, WindowClose
<1>2. CASE ~(Held(s) /\ bars[i].T >= s.b.position.slotEnd)
  BY <1>2, SamePart DEF WindowClose
<1> QED BY <1>1, <1>2

LEMMA BracketPart ==
  ASSUME NEW s, Books(s), NEW bars, NEW i \in Int, bars[i] \in PricedBar
  PROVE  Feasible(s, Bracket(s, bars, i))
<1> DEFINE p == s.b.position
           gap == (p.gapAware \/ p.index < i) /\ bars[i].O <= p.sl
<1>1. CASE ~ Held(s)
  BY <1>1, SamePart DEF Bracket
<1>2. CASE Held(s)
  <2>1. bars[i].O \in Int /\ p.size \in Int /\ p.sl \in Int /\ p.tp \in Int
    BY <1>2, HeldFields, Prices
  <2>2. /\ Feasible(s, Reduce(s, i, bars[i].O, p.size, "sl"))
        /\ Feasible(s, Reduce(s, i, p.sl, p.size, "sl"))
        /\ Feasible(s, Reduce(s, i, p.tp, p.size, "tp"))
    <3> HIDE DEF p
    <3> QED BY <1>2, <2>1, ReducePart DEF Reasons
  <2>3. Bracket(s, bars, i) =
          IF gap THEN Reduce(s, i, bars[i].O, p.size, "sl")
          ELSE IF bars[i].L <= p.sl THEN Reduce(s, i, p.sl, p.size, "sl")
          ELSE IF bars[i].H >= p.tp THEN Reduce(s, i, p.tp, p.size, "tp") ELSE s
    BY <1>2 DEF Bracket
  <2> HIDE DEF p, gap
  <2> QED BY <2>2, <2>3, SamePart
<1> QED BY <1>1, <1>2

LEMMA PartialPart ==
  ASSUME NEW s, Books(s), Held(s), NEW bars, NEW i \in Int, bars[i] \in PricedBar
  PROVE  Feasible(s, Partial(s, bars, i))
<1> DEFINE p == s.b.position
           due == p.size > 0 /\ ~ p.partial /\ p.entry > p.sl /\ bars[i].C - p.entry >= p.entry - p.sl
<1>1. bars[i].C \in Int /\ p.size \div 2 \in Int
  BY HeldFields, Prices
<1>2. Feasible(s, Reduce(s, i, bars[i].C, p.size \div 2, "partial"))
  <2> HIDE DEF p
  <2> QED BY <1>1, ReducePart DEF Reasons
<1>3. Partial(s, bars, i) = IF due THEN Reduce(s, i, bars[i].C, p.size \div 2, "partial") ELSE s
  BY DEF Partial
<1> HIDE DEF p, due
<1> QED BY <1>2, <1>3, SamePart

LEMMA BreakevenPart ==
  ASSUME NEW s, Books(s), Held(s), NEW bars, NEW i \in Int
  PROVE  Feasible(s, Breakeven(s, bars, i)) /\ Held(Breakeven(s, bars, i))
<1> DEFINE p == s.b.position
           due == p.entry > p.sl /\ bars[i].C - p.entry >= p.entry - p.sl
           q == [p EXCEPT !.sl = p.entry]
           b1 == [s.b EXCEPT !.position = q]
           t == [s EXCEPT !.b = b1]
<1>1. s \in State /\ s.b \in Fields /\ p \in Position /\ p.entry \in Int
  BY HeldFields
<1>2. q \in Position
  <2> HIDE DEF p
  <2> QED BY <1>1 DEF Position
<1>3. Breakeven(s, bars, i) = IF due THEN t ELSE s
  <2>1. [s EXCEPT !.b.position.sl = p.entry] = t
    OBVIOUS
  <2> HIDE DEF t, q, b1
  <2> QED BY <2>1 DEF Breakeven
<1> HIDE DEF q, due
<1>4. b1 \in Fields /\ b1.position = q /\ b1.realized = s.b.realized /\ b1.pending = s.b.pending
  BY <1>1, <1>2 DEF Fields
<1> HIDE DEF b1
<1>5. t \in State /\ t.b = b1 /\ t.paper = s.paper
  BY <1>1, <1>4 DEF State
<1> HIDE DEF t
<1>6. Held(t)
  BY <1>2, <1>4, <1>5, RecordsNotEmpty DEF Held, NoPosition
<1>7. t.b.realized = s.b.realized /\ t.b.pending = << >>
  BY <1>4, <1>5 DEF Books
<1>8. Feasible(s, t)
  BY <1>5, <1>6, <1>7, BooksIgnore DEF Feasible
<1> QED BY <1>3, <1>6, <1>8, SamePart

LEMMA ExpirePart ==
  ASSUME NEW s, Books(s), NEW bars, NEW i \in Int, bars[i] \in PricedBar, NEW c
  PROVE  Feasible(s, Expire(s, bars, i, c))
<1>1. CASE Held(s) /\ i - s.b.position.index >= c.hold
  <2>1. bars[i].C \in Int /\ s.b.position.size \in Int
    BY <1>1, HeldFields, Prices
  <2> QED BY <1>1, <2>1, ReducePart DEF Reasons, Expire
<1>2. CASE ~(Held(s) /\ i - s.b.position.index >= c.hold)
  BY <1>2, SamePart DEF Expire
<1> QED BY <1>1, <1>2

LEMMA SignalPart ==
  ASSUME NEW s, Books(s), ~ Held(s), NEW bars \in Seq(PricedBar), NEW i \in 1 .. Len(bars), NEW c \in Bindings,
         BreaksRange(bars, i, c)
  PROVE  Feasible(s, Signal(s, bars, i, c))
<1> DEFINE r == bars[Min(SlotBars(bars, i, c))]
           day == SlotOf(bars[i].T, c)
           ord == [sl |-> r.L, tp |-> 2 * bars[i].C - r.L, slotEnd |-> day + c.slot, gapAware |-> c.nextOpen]
           b1 == [s.b EXCEPT !.seen = {day}, !.lastEntry = i]
           m == [s EXCEPT !.b = b1]
           b2 == [b1 EXCEPT !.pending = ord]
           t == [m EXCEPT !.b = b2]
<1>1. Len(bars) \in Nat /\ i \in Int
  BY LenProperties
<1>2. bars[i] \in PricedBar /\ r \in PricedBar
  <2>1. SlotBars(bars, i, c) \subseteq 1 .. i - 1 /\ SlotBars(bars, i, c) # {}
    BY DEF SlotBars, BreaksRange
  <2>2. SlotBars(bars, i, c) \subseteq Nat
    BY <2>1, <1>1
  <2>3. Min(SlotBars(bars, i, c)) \in 1 .. i - 1
    BY <2>1, <2>2, MinOf
  <2>4. Min(SlotBars(bars, i, c)) \in 1 .. Len(bars)
    BY <2>3, <1>1
  <2> QED BY <2>4, ElementOfSeq
<1>3. c.slot \in Nat \ {0} /\ c.nextOpen \in BOOLEAN
  BY PaperAssumption DEF PaperAssumption
<1>4. bars[i].T \in Int /\ bars[i].C \in Int /\ r.L \in Int
  BY <1>2 DEF PricedBar
<1> HIDE DEF r
<1>5. day \in Int
  BY <1>3, <1>4 DEF SlotOf
<1> HIDE DEF day
<1>6. ord \in Order
  BY <1>3, <1>4, <1>5 DEF Order
<1> HIDE DEF ord
<1>7. s \in State /\ s.b \in Fields
  BY HeldFields
<1>8. /\ b1 \in Fields /\ b1.position = s.b.position /\ b1.realized = s.b.realized /\ b1.pending = s.b.pending
  BY <1>1, <1>5, <1>7 DEF Fields
<1>9. [s EXCEPT !.b.seen = {day}, !.b.lastEntry = i] = m
  BY <1>7 DEF State, Fields
<1> HIDE DEF b1
<1>10. m \in State /\ m.b = b1 /\ m.paper = s.paper
  BY <1>7, <1>8 DEF State
<1> HIDE DEF m
<1>11. ~ Held(m) /\ (Held(m) <=> Held(s)) /\ m.b.realized = s.b.realized
  BY <1>8, <1>10 DEF Held
<1>12. Feasible(s, m)
  BY <1>10, <1>11, BooksIgnore DEF Feasible
<1>13. /\ b2 \in Fields /\ b2.position = b1.position /\ b2.realized = b1.realized
  BY <1>6, <1>8 DEF Fields
<1>14. [m EXCEPT !.b.pending = ord] = t
  BY <1>10
<1> HIDE DEF b2
<1>15. t \in State /\ t.b = b2 /\ t.paper = m.paper
  BY <1>10, <1>13 DEF State
<1> HIDE DEF t
<1>16. Feasible(s, t)
  <2>1. ~ Held(t) /\ (Held(t) <=> Held(s)) /\ t.b.realized = s.b.realized /\ t.paper = s.paper
    BY <1>8, <1>10, <1>13, <1>15 DEF Held
  <2> QED BY <1>15, <2>1, BooksIgnore DEF Feasible
<1>17. ASSUME s.b.pending = << >>
       PROVE  Feasible(s, Open(m, i, bars[i].C, ord))
  <2>1. Books(m) /\ m.b.pending = << >>
    BY <1>8, <1>10, <1>12, <1>17 DEF Feasible
  <2>2. Feasible(m, Open(m, i, bars[i].C, ord))
    BY <1>1, <1>4, <1>6, <1>11, <2>1, OpenPart
  <2> QED BY <1>12, <2>2, PartsJoin
<1>18. Signal(s, bars, i, c) =
         IF ~ bars[i].gate \/ s.b.pending # << >> THEN m
         ELSE IF c.nextOpen THEN t ELSE Open(m, i, bars[i].C, ord)
  <2>1. Signal(s, bars, i, c) =
          IF ~ bars[i].gate \/ s.b.pending # << >> THEN [s EXCEPT !.b.seen = {day}, !.b.lastEntry = i]
          ELSE IF c.nextOpen THEN [[s EXCEPT !.b.seen = {day}, !.b.lastEntry = i] EXCEPT !.b.pending = ord]
          ELSE Open([s EXCEPT !.b.seen = {day}, !.b.lastEntry = i], i, bars[i].C, ord)
    BY Zenon DEF Signal, r, day, ord
  <2> QED BY <2>1, <1>9, <1>14
<1> QED BY <1>12, <1>16, <1>17, <1>18

LEMMA OnBarPart ==
  ASSUME NEW s, Books(s), NEW bars \in Seq(PricedBar), NEW i \in 1 .. Len(bars), NEW c \in Bindings
  PROVE  Feasible(s, OnBar(s, bars, i, c))
<1>1. i \in Int /\ bars[i] \in PricedBar
  BY LenProperties, ElementOfSeq
<1>2. CASE Held(s)
  <2> DEFINE p == Partial(s, bars, i)
             q == IF Held(p) THEN Breakeven(p, bars, i) ELSE p
  <2>1. Feasible(s, p)
    BY <1>1, <1>2, PartialPart
  <2> HIDE DEF p
  <2>2. Feasible(p, q)
    BY <1>1, <2>1, BreakevenPart, SamePart DEF Feasible
  <2> HIDE DEF q
  <2>3. Feasible(s, q)
    BY <2>1, <2>2, PartsJoin
  <2>4. Feasible(q, Expire(q, bars, i, c))
    BY <1>1, <2>3, ExpirePart DEF Feasible
  <2>5. Feasible(s, Expire(q, bars, i, c))
    BY <2>3, <2>4, PartsJoin
  <2> QED BY <1>2, <2>5 DEF OnBar, p, q
<1>3. CASE ~ Held(s)
  <2> DEFINE fires == /\ s.b.lastEntry = 0 \/ i - s.b.lastEntry >= c.cooldown
                      /\ BreaksRange(bars, i, c)
                      /\ SlotOf(bars[i].T, c) \notin s.b.seen
  <2>1. OnBar(s, bars, i, c) = IF fires THEN Signal(s, bars, i, c) ELSE s
    BY <1>3 DEF OnBar
  <2>2. ASSUME fires PROVE Feasible(s, Signal(s, bars, i, c))
    BY <1>3, <2>2, SignalPart
  <2> HIDE DEF fires
  <2> QED BY <2>1, <2>2, SamePart
<1> QED BY <1>2, <1>3

LEMMA BarPart ==
  ASSUME NEW s, Books(s), NEW bars \in Seq(PricedBar), NEW i \in 1 .. Len(bars), NEW c \in Bindings
  PROVE  Feasible(s, Bar(s, bars, i, c)) /\ Closing(Bar(s, bars, i, c), bars, i)
<1> DEFINE s1 == FillPending(s, bars, i)
           s2 == WindowClose(s1, bars, i)
           s3 == Bracket(s2, bars, i)
           s4 == OnBar(s3, bars, i, c)
           s5 == Mark(s4, bars, i)
<1>1. i \in Int /\ bars[i] \in PricedBar
  BY LenProperties, ElementOfSeq
<1>2. Bar(s, bars, i, c) = s5
  BY DEF Bar
<1>3. Feasible(s, s1) /\ Books(s1)
  BY <1>1, FillPendingPart DEF Feasible
<1> HIDE DEF s1
<1>4. Feasible(s1, s2) /\ Books(s2)
  BY <1>1, <1>3, WindowClosePart DEF Feasible
<1> HIDE DEF s2
<1>5. Feasible(s2, s3) /\ Books(s3)
  BY <1>1, <1>4, BracketPart DEF Feasible
<1> HIDE DEF s3
<1>6. Feasible(s3, s4) /\ Books(s4)
  BY <1>5, OnBarPart DEF Feasible
<1> HIDE DEF s4
<1>7. Feasible(s4, s5) /\ Closing(s5, bars, i)
  BY <1>1, <1>6, MarkBooks DEF Feasible
<1> HIDE DEF s5
<1>8. Feasible(s, s2)
  BY <1>3, <1>4, PartsJoin
<1>9. Feasible(s, s3)
  BY <1>5, <1>8, PartsJoin
<1>10. Feasible(s, s4)
  BY <1>6, <1>9, PartsJoin
<1>11. Feasible(s, s5)
  BY <1>7, <1>10, PartsJoin
<1> QED BY <1>2, <1>7, <1>11

LEMMA StartBooks ==
  /\ Books(Started(FreshBroker, NewCollector))
  /\ Started(FreshBroker, NewCollector).paper.events = << >>
<1> DEFINE s == Started(FreshBroker, NewCollector)
<1>1. FreshBroker \in Fields /\ FreshBroker.position = << >> /\ FreshBroker.pending = << >> /\ FreshBroker.realized = 0
  BY DEF FreshBroker, Fields, NoPosition
<1>2. << >> \in Seq(Event) /\ << >> \in Seq(Trade) /\ Len(<< >>) = 0
  OBVIOUS
<1>3. /\ NewCollector \in Collector /\ NewCollector.events = << >> /\ NewCollector.open = << >> /\ NewCollector.net = 0
      /\ NewCollector.peak = StartEquity /\ NewCollector.maxDrawdown = 0
  BY <1>2, PaperAssumption DEF NewCollector, Collector, PaperAssumption
<1>4. s \in State /\ s.b = FreshBroker /\ s.paper = NewCollector
  BY <1>1, <1>2, <1>3 DEF Started, State
<1>7. Journal(<< >>, StartEquity, 0, 0)
  <2>1. ASSUME NEW none, none \in Seq(Event), Len(none) = 0
        PROVE  Journal(none, StartEquity, 0, 0)
    <3>1. MarksTo(none, 0) = {}
      BY DEF MarksTo
    <3>2. EquitiesTo(none, 0) = {StartEquity} /\ FallsTo(none, 0) = {0}
      BY <3>1 DEF EquitiesTo, FallsTo
    <3>3. Greatest(StartEquity, {StartEquity}) /\ Greatest(0, {0})
      BY PaperAssumption DEF Greatest, PaperAssumption
    <3>4. Chained(none) /\ MarkedTrue(none) /\ Balance(none) = 0
      BY <2>1, <3>1 DEF Chained, MarkedTrue, Balance
    <3>5. Greatest(StartEquity, EquitiesTo(none, Len(none))) /\ Greatest(0, FallsTo(none, Len(none)))
      BY <2>1, <3>2, <3>3
    <3> QED BY <2>1, <3>4, <3>5, PaperAssumption DEF Journal, PaperAssumption
  <2> QED BY <1>2, <2>1
<1> HIDE DEF s
<1>8. ~ Held(s) /\ Owed(s.paper) = 0
  BY <1>1, <1>3, <1>4 DEF Held, NoPosition, Owed
<1>9. Books(s)
  BY <1>1, <1>3, <1>4, <1>7, <1>8 DEF Books
<1> QED BY <1>3, <1>4, <1>9 DEF s

(* A paper replay keeps the books at every bar, and its events grow.       *)
LEMMA RunBooks ==
  ASSUME NEW bars \in Seq(PricedBar), NEW c \in Bindings, NEW first \in 1 .. Len(bars), NEW f,
         Trace(f, FreshBroker, NewCollector, bars, first, Len(bars), c)
  PROVE  /\ \A i \in first .. Len(bars) : Books(f[i]) /\ Closing(f[i], bars, i)
         /\ \A k \in first .. Len(bars) : Grown(f[k], f[Len(bars)])
<1> DEFINE n == Len(bars)
<1>1. n \in Nat /\ first \in Nat \ {0} /\ first - 1 \in Nat /\ first - 1 <= n
  BY LenProperties
<1> HIDE DEF n
<1>2. f[first - 1] = Started(FreshBroker, NewCollector) /\ \A i \in first .. n : f[i] = Bar(f[i - 1], bars, i, c)
  <2>1. Trace(f, FreshBroker, NewCollector, bars, first, n, c)
    BY DEF n
  <2>2. Steps(f, FreshBroker, NewCollector, bars, first, n, c)
    BY <1>1, <2>1, TraceSteps
  <2> QED BY <2>2 DEF Steps
<1>3. ASSUME NEW i \in first .. n, Books(f[i - 1])
      PROVE  Feasible(f[i - 1], f[i]) /\ Closing(f[i], bars, i)
  <2>1. i \in 1 .. Len(bars) /\ f[i] = Bar(f[i - 1], bars, i, c)
    BY <1>1, <1>2 DEF n
  <2> QED BY <1>3, <2>1, BarPart
<1> DEFINE P == {i \in first - 1 .. n : Books(f[i])}
<1>4. first - 1 \in P
  BY <1>1, <1>2, StartBooks
<1>5. ASSUME NEW i \in first - 1 .. n, i \in P, i + 1 <= n
      PROVE  i + 1 \in P
  <2>1. i + 1 \in first .. n /\ i + 1 - 1 = i /\ i + 1 \in first - 1 .. n
    BY <1>1, <1>5
  <2>2. Books(f[i + 1])
    BY <1>3, <1>5, <2>1 DEF Feasible
  <2> QED BY <2>1, <2>2
<1>6. first - 1 .. n \subseteq P
  <2> HIDE DEF P
  <2> QED BY <1>1, <1>4, <1>5, UpTo
<1>7. \A i \in first - 1 .. n : Books(f[i])
  BY <1>6
<1>8. \A i \in first .. n : Feasible(f[i - 1], f[i]) /\ Closing(f[i], bars, i) /\ Books(f[i])
  <2> TAKE i \in first .. n
  <2>1. i - 1 \in first - 1 .. n
    BY <1>1
  <2> QED BY <1>3, <1>7, <2>1 DEF Feasible
<1>9. ASSUME NEW k \in first .. n
      PROVE  Grown(f[k], f[n])
  <2> DEFINE Q == {i \in k .. n : Feasible(f[k], f[i])}
  <2>1. k \in Nat /\ k \in k .. n /\ k <= n
    BY <1>1
  <2>2. k \in Q
    BY <1>8, <2>1, SamePart
  <2>3. ASSUME NEW i \in k .. n, i \in Q, i + 1 <= n
        PROVE  i + 1 \in Q
    <3>1. i + 1 \in first .. n /\ i + 1 - 1 = i /\ i + 1 \in k .. n
      BY <1>1, <2>1, <2>3
    <3>2. Feasible(f[i], f[i + 1]) /\ Feasible(f[k], f[i]) /\ Books(f[k])
      BY <1>8, <2>3, <3>1
    <3>3. Feasible(f[k], f[i + 1])
      BY <3>2, PartsJoin
    <3> QED BY <3>1, <3>3
  <2>4. n \in Q
    <3> HIDE DEF Q
    <3>1. k .. n \subseteq Q
      BY <1>1, <2>1, <2>2, <2>3, UpTo
    <3> QED BY <1>1, <2>1, <3>1
  <2> QED BY <2>4 DEF Feasible
<1> QED BY <1>8, <1>9 DEF n

-------------------------------------------------------------------------------
(* The paper replay of a whole prefix.                                     *)
LEMMA ActivationIn ==
  ASSUME NEW bars \in Seq(PricedBar), NEW c
  PROVE  /\ Activation(bars, c) \subseteq 1 .. Len(bars) /\ Activation(bars, c) \subseteq Nat
         /\ Activation(bars, c) # {} => Min(Activation(bars, c)) \in 1 .. Len(bars)
<1>1. DOMAIN bars = 1 .. Len(bars) /\ Len(bars) \in Nat
  BY LenProperties
<1>2. Activation(bars, c) \subseteq 1 .. Len(bars) /\ Activation(bars, c) \subseteq Nat
  BY <1>1 DEF Activation
<1> QED BY <1>2, MinOf

LEMMA ExecutedBooks ==
  ASSUME NEW bars \in Seq(PricedBar), NEW c \in Bindings
  PROVE  /\ Books(Executed(bars, c))
         /\ Activation(bars, c) # {} => Closing(Executed(bars, c), bars, Len(bars))
         /\ Activation(bars, c) = {} => Executed(bars, c).paper.events = << >>
<1>1. CASE Activation(bars, c) = {}
  BY <1>1, StartBooks DEF Executed
<1>2. CASE Activation(bars, c) # {}
  <2> DEFINE first == Min(Activation(bars, c))
  <2>1. first \in 1 .. Len(bars) /\ Len(bars) \in Nat
    BY <1>2, ActivationIn, LenProperties
  <2>2. Executed(bars, c) = RunRange(FreshBroker, NewCollector, bars, first, c)
    BY <1>2 DEF Executed
  <2> HIDE DEF first
  <2>3. first \in Nat \ {0} /\ Len(bars) >= first - 1 /\ Len(bars) \in first .. Len(bars)
    BY <2>1
  <2>4. PICK f : Trace(f, FreshBroker, NewCollector, bars, first, Len(bars), c) /\ Executed(bars, c) = f[Len(bars)]
    BY <2>1, <2>2, <2>3, RunRangeTrace
  <2>5. \A i \in first .. Len(bars) : Books(f[i]) /\ Closing(f[i], bars, i)
    BY <2>1, <2>4, RunBooks
  <2> QED BY <1>2, <2>3, <2>4, <2>5
<1> QED BY <1>1, <1>2

LEMMA ActivationPrefix ==
  ASSUME NEW bars \in Seq(PricedBar), NEW k \in 0 .. Len(bars), NEW c, Activation(SubSeq(bars, 1, k), c) # {}
  PROVE  /\ Activation(bars, c) # {}
         /\ Min(Activation(SubSeq(bars, 1, k), c)) = Min(Activation(bars, c))
<1> DEFINE prior == SubSeq(bars, 1, k)
<1>1. DOMAIN bars = 1 .. Len(bars) /\ Len(bars) \in Nat
  BY LenProperties
<1>2. Listed(bars)
  BY DEF Listed
<1>3. DOMAIN prior = 1 .. k /\ \A i \in 1 .. k : prior[i] = bars[i]
  BY <1>2, ListedPrefix
<1>4. Activation(prior, c) = {i \in Activation(bars, c) : i <= k}
  BY <1>1, <1>3 DEF Activation
<1> HIDE DEF prior
<1>5. Activation(bars, c) \subseteq Nat /\ Activation(prior, c) \subseteq Nat /\ Activation(prior, c) # {} /\ Activation(bars, c) # {}
  BY <1>4, ActivationIn DEF prior
<1>6. /\ Min(Activation(prior, c)) \in Activation(prior, c) /\ \A y \in Activation(prior, c) : Min(Activation(prior, c)) <= y
      /\ Min(Activation(bars, c)) \in Activation(bars, c) /\ \A y \in Activation(bars, c) : Min(Activation(bars, c)) <= y
  BY <1>5, MinOf
<1>7. Min(Activation(prior, c)) \in Activation(bars, c) /\ Min(Activation(bars, c)) \in Activation(prior, c)
  BY <1>1, <1>4, <1>5, <1>6
<1> QED BY <1>5, <1>6, <1>7 DEF prior

LEMMA ExecutedGrows ==
  ASSUME NEW bars \in Seq(PricedBar), NEW k \in 0 .. Len(bars), NEW c \in Bindings
  PROVE  Grown(Executed(SubSeq(bars, 1, k), c), Executed(bars, c))
<1> DEFINE prior == SubSeq(bars, 1, k)
           n == Len(bars)
<1>1. n \in Nat /\ k \in Nat /\ k <= n
  BY LenProperties
<1>2. Listed(bars)
  BY DEF Listed
<1>3. Len(prior) = k /\ DOMAIN prior = 1 .. k /\ \A i \in 1 .. k : prior[i] = bars[i]
  BY <1>2, ListedPrefix
<1>4. \A i \in 1 .. n : bars[i] \in PricedBar
  BY ElementOfSeq
<1>5. prior \in Seq(PricedBar)
  <2>1. \A i \in 1 .. k : bars[i] \in PricedBar
    BY <1>1, <1>4
  <2> QED BY <1>1, <2>1, SubSeqProperties
<1> HIDE DEF prior
<1>6. CASE Activation(prior, c) = {}
  <2>1. Executed(prior, c).paper.events = << >>
    BY <1>5, <1>6, ExecutedBooks
  <2>2. Executed(bars, c).paper.events \in Seq(Event)
    BY ExecutedBooks DEF Books, Journal
  <2>3. Listed(Executed(bars, c).paper.events) /\ Listed(<< >>)
    BY <2>2, EmptyListed DEF Listed
  <2>4. Executed(bars, c).paper.events = << >> \o Executed(bars, c).paper.events
    BY <2>3, ListedConcat
  <2> QED BY <2>1, <2>3, <2>4 DEF Grown, prior
<1>7. CASE Activation(prior, c) # {}
  <2> DEFINE first == Min(Activation(prior, c))
  <2>1. first \in 1 .. k /\ Activation(bars, c) # {} /\ first = Min(Activation(bars, c))
    <3>1. first \in 1 .. k
      BY <1>3, <1>5, <1>7, ActivationIn
    <3>2. Activation(bars, c) # {} /\ first = Min(Activation(bars, c))
      BY <1>7, ActivationPrefix DEF prior
    <3> QED BY <3>1, <3>2
  <2>2. /\ Executed(prior, c) = RunRange(FreshBroker, NewCollector, prior, first, c)
        /\ Executed(bars, c) = RunRange(FreshBroker, NewCollector, bars, first, c)
    BY <1>7, <2>1 DEF Executed
  <2> HIDE DEF first
  <2>3. first \in Nat \ {0} /\ Len(prior) \in Nat /\ Len(prior) >= first - 1 /\ n >= first - 1 /\ first - 1 <= k
        /\ first \in 1 .. Len(bars) /\ k \in first .. Len(bars) /\ k \in first - 1 .. k
    BY <1>1, <1>3, <2>1
  <2>4. PICK g : Trace(g, FreshBroker, NewCollector, prior, first, Len(prior), c) /\ Executed(prior, c) = g[Len(prior)]
    BY <2>2, <2>3, RunRangeTrace
  <2>5. PICK f : Trace(f, FreshBroker, NewCollector, bars, first, Len(bars), c) /\ Executed(bars, c) = f[Len(bars)]
    BY <1>1, <2>2, <2>3, RunRangeTrace
  <2>6. g[k] = f[k]
    <3>1. Trace(g, FreshBroker, NewCollector, prior, first, k, c) /\ Trace(f, FreshBroker, NewCollector, bars, first, n, c)
      BY <1>3, <2>4, <2>5
    <3>2. AgreeFrom(prior, bars, first, k) /\ SameRules(c, c)
      <4>1. Agree(prior, bars, k) /\ k \in Nat
        BY <1>1, <1>3 DEF Agree
      <4> HIDE DEF prior
      <4> QED BY <2>3, <4>1, AgreeIsAgreeFrom DEF SameRules
    <3> HIDE DEF n
    <3>3. \A i \in first - 1 .. k : g[i] = f[i]
      BY <1>1, <2>3, <3>1, <3>2, TracesAgree
    <3> QED BY <2>3, <3>3
  <2>7. Grown(f[k], f[Len(bars)])
    <3>1. \A i \in first .. Len(bars) : Grown(f[i], f[Len(bars)])
      BY <2>3, <2>5, RunBooks
    <3> QED BY <2>3, <3>1
  <2> QED BY <1>3, <2>4, <2>5, <2>6, <2>7 DEF prior
<1> QED BY <1>6, <1>7 DEF prior

-------------------------------------------------------------------------------
(* The inductive invariant.  What the caller holds is a receipt of one     *)
(* replay of the bars it names, and beside it the events of that replay;   *)
(* a checkpoint is the broker after one replay of its bars, each with the  *)
(* trend it was decided on, under a binding that differs at most in its    *)
(* activation, and beside it the trades of that replay.  An accepted       *)
(* submission admits what was then stored; without a gate on the higher    *)
(* timeframe its bars are the decided ones.                                *)
Recorded ==
  /\ client \in Clients
  /\ tape \in Seq(PricedBar)
  /\ corrections \in Nat
ReceiptKept ==
  receipt # NoReceipt =>
    /\ receipt.bars \in Seq(PricedBar) /\ receipt.binding \in Bindings
    /\ receipt = Receipt(receipt.bars, receipt.through, receipt.binding, Executed(receipt.bars, receipt.binding))
    /\ delivered = Executed(receipt.bars, receipt.binding).paper.events
ReplyHeld ==
  reply = "paper" =>
    receipt # NoReceipt /\ admitted.bars = receipt.bars /\ admitted.binding = receipt.binding
ReplayOf(b, trades, bars, c) ==
  /\ b = RunRange(FreshBroker, NoCollector, bars, 1, c).b
  /\ trades = RunRange(FreshBroker, NoCollector, bars, 1, c).trades
BoundTo(binding, c) == binding = [c EXCEPT !.activation = 0]
AllAllow(bars) == \A i \in 1 .. Len(bars) : bars[i].allows = TRUE
CheckpointKept ==
  checkpoint # NoReceipt =>
    /\ checkpoint.bars \in Seq(PricedBar) /\ checkpoint.processed = Len(checkpoint.bars)
    /\ decided \in Seq(PricedBar) /\ Len(decided) = Len(checkpoint.bars)
    /\ SameMarket(checkpoint.bars, decided, Len(checkpoint.bars))
    /\ ~ checkpoint.binding.htf => AllAllow(decided)
    /\ \E c \in Bindings : /\ BoundTo(checkpoint.binding, c)
                           /\ ReplayOf(checkpoint.state, booked, decided, c)
CheckpointReplied ==
  reply = "resumable" =>
    /\ ReplayOf(checkpoint.state, booked, decided, admitted.binding)
    /\ ~ admitted.binding.htf => decided = Current
PaperInv == Recorded /\ ReceiptKept /\ ReplyHeld /\ CheckpointKept /\ CheckpointReplied

LEMMA PricedCandle ==
  ASSUME NEW candle \in Candles, NEW t \in Int
  PROVE  Stamped(candle, t) \in PricedBar
<1>1. candle \in [O : Int, H : Int, L : Int, C : Int, gate : BOOLEAN, step : Nat \ {0}]
  BY PaperAssumption DEF PaperAssumption
<1> QED BY <1>1 DEF PricedBar, Stamped

LEMMA TapePrefix ==
  ASSUME NEW bars \in Seq(PricedBar), NEW n \in 0 .. Len(bars)
  PROVE  SubSeq(bars, 1, n) \in Seq(PricedBar) /\ Len(SubSeq(bars, 1, n)) = n /\ Listed(bars)
<1>1. Len(bars) \in Nat /\ \A i \in 1 .. Len(bars) : bars[i] \in PricedBar
  BY LenProperties, ElementOfSeq
<1>2. Listed(bars)
  BY DEF Listed
<1>3. Len(SubSeq(bars, 1, n)) = n
  BY <1>2, ListedPrefix
<1>4. \A i \in 1 .. n : bars[i] \in PricedBar
  BY <1>1
<1>5. SubSeq(bars, 1, n) \in Seq(PricedBar)
  BY <1>1, <1>4, SubSeqProperties
<1> QED BY <1>2, <1>3, <1>5

Names(r, bars, through, c, s) ==
  /\ r # NoReceipt /\ r.bars = bars /\ r.through = through /\ r.binding = c /\ r.processed = Len(bars)
  /\ r.events = Len(s.paper.events) /\ r.state[2] = [s.paper EXCEPT !.events = << >>]

LEMMA ReceiptIs ==
  ASSUME NEW bars, NEW through, NEW c, NEW s
  PROVE  Names(Receipt(bars, through, c, s), bars, through, c, s)
<1> DEFINE r == Receipt(bars, through, c, s)
<1>1. /\ r.bars = bars /\ r.through = through /\ r.binding = c /\ r.processed = Len(bars)
      /\ r.events = Len(s.paper.events) /\ r.state[2] = [s.paper EXCEPT !.events = << >>]
  BY DEF Receipt
<1>2. "bars" \in DOMAIN r
  BY DEF Receipt
<1>3. DOMAIN << >> = {}
  OBVIOUS
<1> QED BY <1>1, <1>2, <1>3 DEF NoReceipt, Names

(* One accepted paper submission: the events that come with it complete    *)
(* what the receipt already brought to the events of the longer replay.    *)
LEMMA PaperDelta ==
  ASSUME PaperInv, NEW bars \in Seq(PricedBar), NEW through, NEW c, receipt # NoReceipt,
         Verifies(receipt, bars, through, c)
  PROVE  /\ c \in Bindings
         /\ delivered \o SubSeq(Executed(bars, c).paper.events, receipt.events + 1, Len(Executed(bars, c).paper.events))
              = Executed(bars, c).paper.events
<1> DEFINE prior == SubSeq(bars, 1, receipt.processed)
<1>1. /\ receipt.bars \in Seq(PricedBar) /\ receipt.binding \in Bindings
      /\ receipt = Receipt(receipt.bars, receipt.through, receipt.binding, Executed(receipt.bars, receipt.binding))
      /\ delivered = Executed(receipt.bars, receipt.binding).paper.events
  BY DEF PaperInv, ReceiptKept
<1>2. /\ receipt.processed <= Len(bars) /\ receipt.binding = c
      /\ receipt = Receipt(prior, receipt.through, c, Executed(prior, c))
  BY DEF Verifies
<1>3. receipt.processed = Len(receipt.bars) /\ receipt.events = Len(delivered)
  <2>1. Names(receipt, receipt.bars, receipt.through, receipt.binding, Executed(receipt.bars, receipt.binding))
    BY <1>1, ReceiptIs
  <2> QED BY <1>1, <2>1 DEF Names
<1>4. receipt.processed \in 0 .. Len(bars)
  BY <1>1, <1>2, <1>3, LenProperties
<1> HIDE DEF prior
<1>5. prior = receipt.bars
  <2>1. Names(receipt, prior, receipt.through, c, Executed(prior, c))
    BY <1>2, ReceiptIs
  <2> QED BY <2>1 DEF Names
<1>6. delivered = Executed(prior, c).paper.events
  BY <1>1, <1>2, <1>5
<1>7. Grown(Executed(prior, c), Executed(bars, c))
  BY <1>1, <1>2, <1>4, ExecutedGrows DEF prior
<1>8. PICK e : Listed(e) /\ Executed(bars, c).paper.events = delivered \o e
  BY <1>6, <1>7 DEF Grown
<1>9. Listed(delivered)
  <2>1. Books(Executed(receipt.bars, receipt.binding))
    BY <1>1, ExecutedBooks
  <2>2. delivered \in Seq(Event)
    BY <1>1, <2>1 DEF Books, Journal
  <2> QED BY <2>2 DEF Listed
<1>10. delivered \o SubSeq(delivered \o e, Len(delivered) + 1, Len(delivered \o e)) = delivered \o e
  BY <1>8, <1>9, ListedSplit
<1> QED BY <1>1, <1>2, <1>3, <1>8, <1>10

LEMMA RunPaperKeeps ==
  ASSUME PaperInv, NEW bars \in Seq(PricedBar), NEW through, NEW c, NEW cp,
         (cp = NoReceipt /\ c \in Bindings) \/ (cp = receipt /\ receipt # NoReceipt),
         RunPaper(cp, bars, through, c)
  PROVE  PaperInv'
<1>1. UNCHANGED << client, tape, corrections, checkpoint, booked, decided >>
  BY DEF RunPaper
<1>2. Recorded' /\ CheckpointKept'
  BY <1>1 DEF PaperInv, Recorded, CheckpointKept, ReplayOf
<1>3. ASSUME NEW code \in {"BARS", "CONTEXT", "CHECKPOINT", "ACTIVATION", "ACCOUNTING"}, Refused(code)
      PROVE  PaperInv'
  <2>1. reply' # "paper" /\ reply' # "resumable" /\ UNCHANGED << receipt, delivered, admitted >>
    BY <1>3 DEF Refused
  <2>2. ReceiptKept' /\ ReplyHeld' /\ CheckpointReplied'
    BY <2>1 DEF PaperInv, ReceiptKept, ReplyHeld, CheckpointReplied
  <2> QED BY <1>2, <2>2 DEF PaperInv
<1>4. CASE Refusal(cp, bars, through, c) # "none"
  <2>1. Refused(Refusal(cp, bars, through, c))
    BY <1>4 DEF RunPaper
  <2>2. Refusal(cp, bars, through, c) \in {"BARS", "CONTEXT", "CHECKPOINT", "ACTIVATION", "ACCOUNTING"}
    BY <1>4 DEF Refusal
  <2> QED BY <1>3, <2>1, <2>2
<1>5. CASE Refusal(cp, bars, through, c) = "none"
  <2> DEFINE s == Executed(bars, c)
  <2>1. CASE s.paper.failed
    BY <1>3, <1>5, <2>1 DEF RunPaper
  <2>2. CASE ~ s.paper.failed
    <3>1. /\ reply' = "paper"
          /\ receipt' = Receipt(bars, through, c, s)
          /\ delivered' = IF cp = NoReceipt THEN s.paper.events
                          ELSE delivered \o SubSeq(s.paper.events, cp.events + 1, Len(s.paper.events))
          /\ admitted' = [binding |-> c, bars |-> bars, higher |-> << >>]
      BY <1>5, <2>2 DEF RunPaper
    <3>2. cp # NoReceipt => cp = receipt /\ receipt # NoReceipt /\ Verifies(receipt, bars, through, c)
      BY <1>5 DEF Refusal
    <3>3. c \in Bindings /\ delivered' = s.paper.events
      <4>1. CASE cp = NoReceipt
        BY <3>1, <4>1
      <4>2. CASE cp # NoReceipt
        BY <3>1, <3>2, <4>2, PaperDelta
      <4> QED BY <4>1, <4>2
    <3>4. receipt' # NoReceipt /\ receipt'.bars = bars /\ receipt'.binding = c /\ receipt'.through = through
      <4>1. Names(receipt', bars, through, c, s)
        BY <3>1, ReceiptIs
      <4> QED BY <4>1 DEF Names
    <3>5. admitted'.bars = bars /\ admitted'.binding = c /\ reply' # "resumable"
      BY <3>1
    <3>6. ReceiptKept'
      BY <3>1, <3>3, <3>4 DEF ReceiptKept
    <3>7. ReplyHeld' /\ CheckpointReplied'
      BY <3>4, <3>5 DEF ReplyHeld, CheckpointReplied
    <3> QED BY <1>2, <3>6, <3>7 DEF PaperInv
  <2> QED BY <2>1, <2>2
<1> QED BY <1>4, <1>5

(* The bars of a submission as this run decides them.                      *)
InformedAs(now, bars, c) ==
  /\ now \in Seq(PricedBar) /\ Len(now) = Len(bars) /\ SameMarket(bars, now, Len(bars))
  /\ ~ c.htf => AllAllow(now)

LEMMA InformedIs ==
  ASSUME NEW bars \in Seq(PricedBar), NEW higher, NEW c \in Bindings
  PROVE  InformedAs(Informed(bars, higher, c), bars, c)
<1> DEFINE now == Informed(bars, higher, c)
           gates(i) == ~ c.htf \/ Allowed(bars, higher, i)
           shown(i) == [bars[i] EXCEPT !.allows = gates(i)]
<1>1. DOMAIN bars = 1 .. Len(bars) /\ Len(bars) \in Nat /\ \A i \in 1 .. Len(bars) : bars[i] \in PricedBar
  BY LenProperties, ElementOfSeq
<1>2. now = [i \in 1 .. Len(bars) |-> shown(i)]
  BY <1>1, Zenon DEF Informed
<1>3. \A i \in 1 .. Len(bars) : gates(i) \in BOOLEAN
  OBVIOUS
<1> HIDE DEF gates
<1>4. \A i \in 1 .. Len(bars) : shown(i) \in PricedBar /\ SameBar(bars[i], shown(i)) /\ shown(i).allows = gates(i)
  BY <1>1, <1>3 DEF PricedBar, SameBar
<1> HIDE DEF shown, now
<1>5. now \in [1 .. Len(bars) -> PricedBar] /\ \A i \in 1 .. Len(bars) : now[i] = shown(i)
  BY <1>2, <1>4
<1>6. now \in Seq(PricedBar) /\ Len(now) = Len(bars)
  <2>1. now \in Seq(PricedBar)
    BY <1>1, <1>5, SeqDef
  <2>2. DOMAIN now = 1 .. Len(bars) /\ DOMAIN now = 1 .. Len(now) /\ Len(now) \in Nat
    BY <1>5, <2>1, LenProperties
  <2> QED BY <1>1, <2>1, <2>2
<1>7. SameMarket(bars, now, Len(bars))
  BY <1>4, <1>5 DEF SameMarket
<1>8. ~ c.htf => AllAllow(now)
  <2>1. ~ c.htf => \A i \in 1 .. Len(bars) : gates(i) = TRUE
    BY DEF gates
  <2> QED BY <1>4, <1>5, <1>6, <2>1 DEF AllAllow
<1> QED BY <1>6, <1>7, <1>8 DEF InformedAs, now

LEMMA SameBarSameTrend ==
  ASSUME NEW x \in PricedBar, NEW y \in PricedBar, SameBar(y, x), x.allows = y.allows
  PROVE  x = y
<1>1. /\ x = [O |-> x.O, H |-> x.H, L |-> x.L, C |-> x.C, gate |-> x.gate, step |-> x.step, T |-> x.T, allows |-> x.allows]
      /\ y = [O |-> y.O, H |-> y.H, L |-> y.L, C |-> y.C, gate |-> y.gate, step |-> y.step, T |-> y.T, allows |-> y.allows]
  BY DEF PricedBar
<1> QED BY <1>1, Zenon DEF SameBar

(* The decided bars, then the new ones: a longer recording of the same     *)
(* market, which differs from the submitted one only where it was decided. *)
LEMMA JoinedIs ==
  ASSUME NEW before \in Seq(PricedBar), NEW now \in Seq(PricedBar), Len(before) <= Len(now),
         SameMarket(now, before, Len(before))
  PROVE  LET J == Joined(before, Len(before), now)
         IN /\ J \in Seq(PricedBar) /\ Len(J) = Len(now)
            /\ SubSeq(J, 1, Len(before)) = before
            /\ AgreeFrom(J, now, Len(before) + 1, Len(now))
            /\ AllAllow(before) /\ AllAllow(now) => J = now
<1> DEFINE k == Len(before)
           n == Len(now)
           J == Joined(before, k, now)
<1>1. /\ k \in Nat /\ n \in Nat /\ k <= n /\ DOMAIN now = 1 .. n
      /\ \A i \in 1 .. k : before[i] \in PricedBar
      /\ \A i \in 1 .. n : now[i] \in PricedBar
  BY LenProperties, ElementOfSeq
<1>2. J = [i \in 1 .. n |-> IF i <= k THEN before[i] ELSE now[i]]
  BY <1>1 DEF Joined
<1>3. J \in [1 .. n -> PricedBar] /\ \A i \in 1 .. n : J[i] = IF i <= k THEN before[i] ELSE now[i]
  <2> HIDE DEF J, k, n
  <2>1. \A i \in 1 .. n : (IF i <= k THEN before[i] ELSE now[i]) \in PricedBar
    BY <1>1
  <2> QED BY <1>2, <2>1
<1> HIDE DEF J
<1>4. J \in Seq(PricedBar) /\ Len(J) = n
  <2> HIDE DEF k, n
  <2>1. J \in Seq(PricedBar)
    BY <1>1, <1>3, SeqDef
  <2>2. DOMAIN J = 1 .. n /\ DOMAIN J = 1 .. Len(J) /\ Len(J) \in Nat
    BY <1>3, <2>1, LenProperties
  <2> QED BY <1>1, <2>1, <2>2
<1>5. SubSeq(J, 1, k) = before
  <2>1. Listed(J) /\ k \in 0 .. Len(J)
    BY <1>1, <1>4 DEF Listed
  <2>2. /\ SubSeq(J, 1, k) \in Seq(PricedBar) /\ Len(SubSeq(J, 1, k)) = k
        /\ \A i \in 1 .. k : SubSeq(J, 1, k)[i] = J[i]
    <3> HIDE DEF k
    <3> QED BY <1>4, <2>1, TapePrefix, ListedPrefix
  <2>3. \A i \in 1 .. k : SubSeq(J, 1, k)[i] = before[i]
    BY <1>1, <1>3, <2>2
  <2> HIDE DEF n
  <2> QED BY <2>2, <2>3, SeqEqual
<1>6. \A i \in 1 .. k : SameBar(now[i], before[i])
  BY DEF SameMarket
<1>7. AgreeFrom(J, now, k + 1, n)
  <2>1. \A i \in 1 .. n : SameBar(J[i], now[i])
    <3> HIDE DEF k, n
    <3> QED BY <1>1, <1>3, <1>6 DEF SameBar
  <2>2. \A i \in k + 1 .. n : i \in 1 .. n /\ ~ (i <= k)
    BY <1>1
  <2> HIDE DEF k, n
  <2> QED BY <1>3, <2>1, <2>2 DEF AgreeFrom, SameMarket
<1>8. ASSUME AllAllow(before), AllAllow(now) PROVE J = now
  <2>1. \A i \in 1 .. k : before[i].allows = TRUE
    BY <1>8 DEF AllAllow
  <2>2. \A i \in 1 .. n : now[i].allows = TRUE
    BY <1>8 DEF AllAllow
  <2> HIDE DEF k, n
  <2>3. \A i \in 1 .. k : before[i] = now[i]
    <3> TAKE i \in 1 .. k
    <3>1. i \in 1 .. n
      BY <1>1
    <3>2. before[i] \in PricedBar /\ now[i] \in PricedBar /\ SameBar(now[i], before[i]) /\ before[i].allows = now[i].allows
      BY <1>1, <1>6, <2>1, <2>2, <3>1
    <3> QED BY <3>2, SameBarSameTrend
  <2>4. \A i \in 1 .. n : J[i] = now[i]
    BY <1>1, <1>3, <2>3
  <2> QED BY <1>4, <2>4, SeqEqual DEF n
<1> QED BY <1>4, <1>5, <1>7, <1>8 DEF J

(* A binding but for its activation.                                       *)
LEMMA BoundRules ==
  ASSUME NEW c \in Bindings, NEW e, BoundTo(e, c)
  PROVE  e.htf = c.htf /\ SameRules(e, c)
<1>1. c \in [slot : Nat \ {0}, cooldown : Nat, hold : Nat, nextOpen : BOOLEAN, activation : Int, htf : BOOLEAN]
  BY PaperAssumption DEF PaperAssumption
<1> QED BY <1>1 DEF BoundTo, SameRules

(* One accepted resumption: the restored broker over the new bars is the   *)
(* broker of one replay of the decided bars and the new ones, and its      *)
(* trades complete the trades booked.                                      *)
LEMMA RunResumableKeeps ==
  ASSUME PaperInv, NEW bars \in Seq(PricedBar), NEW higher, NEW c \in Bindings, NEW cp,
         cp = NoReceipt \/ (cp = checkpoint /\ checkpoint # NoReceipt),
         RunResumable(cp, bars, higher, c)
  PROVE  PaperInv'
<1> DEFINE now == Informed(bars, higher, c)
<1>1. UNCHANGED << client, tape, corrections, receipt, delivered >>
  BY DEF RunResumable
<1>2. Recorded' /\ ReceiptKept'
  BY <1>1 DEF PaperInv, Recorded, ReceiptKept
<1>3. CASE cp # NoReceipt /\ ~ Binds(cp, bars, higher, c)
  <2>1. reply' = "invalid" /\ UNCHANGED << checkpoint, booked, admitted, decided >>
    BY <1>3 DEF RunResumable
  <2>2. ReplyHeld' /\ CheckpointReplied'
    BY <2>1 DEF ReplyHeld, CheckpointReplied
  <2>3. CheckpointKept'
    BY <2>1 DEF PaperInv, CheckpointKept, ReplayOf
  <2> QED BY <1>2, <2>2, <2>3 DEF PaperInv
<1>4. InformedAs(now, bars, c)
  BY InformedIs
<1>5. ASSUME NEW s, NEW dec \in Seq(PricedBar), Len(dec) = Len(bars), SameMarket(bars, dec, Len(bars)),
             ~ c.htf => dec = now, ReplayOf(s.b, booked', dec, c),
             reply' = "resumable", checkpoint' = Envelope(bars, higher, c, s), decided' = dec,
             admitted' = [binding |-> c, bars |-> bars, higher |-> higher]
      PROVE  PaperInv'
  <2>1. /\ checkpoint'.bars = bars /\ checkpoint'.processed = Len(bars) /\ BoundTo(checkpoint'.binding, c)
        /\ checkpoint'.state = s.b
    <3> DEFINE unbound == [c EXCEPT !.activation = 0]
               rows == Through(higher, bars[Len(bars)].T)
    <3>1. checkpoint' = [binding |-> unbound, bars |-> bars, processed |-> Len(bars), higher |-> rows, state |-> s.b]
      BY <1>5, Zenon DEF Envelope
    <3>2. BoundTo(unbound, c)
      BY DEF BoundTo
    <3> HIDE DEF unbound, rows
    <3> QED BY <3>1, <3>2
  <2>2. admitted'.bars = bars /\ admitted'.binding = c /\ admitted'.higher = higher
    BY <1>5
  <2>3. ReplayOf(checkpoint'.state, booked', decided', c)
    BY <1>5, <2>1 DEF ReplayOf
  <2>4. CheckpointReplied'
    <3>1. ~ c.htf => decided' = Informed(admitted'.bars, admitted'.higher, admitted'.binding)
      BY <1>5, <2>2
    <3> HIDE DEF now
    <3> QED BY <2>2, <2>3, <3>1 DEF CheckpointReplied, Current
  <2>5. ~ checkpoint'.binding.htf => AllAllow(decided')
    <3>1. checkpoint'.binding.htf = c.htf
      BY <2>1, BoundRules
    <3> QED BY <1>4, <1>5, <3>1 DEF InformedAs
  <2>6. CheckpointKept'
    <3> HIDE DEF now
    <3> QED BY <1>5, <2>1, <2>3, <2>5 DEF CheckpointKept
  <2>7. ReplyHeld'
    BY <1>5 DEF ReplyHeld
  <2> QED BY <1>2, <2>4, <2>6, <2>7 DEF PaperInv
<1> HIDE DEF now
<1>6. CASE cp = NoReceipt
  <2> DEFINE s == RunRange(FreshBroker, NoCollector, now, 1, c)
  <2>1. /\ reply' = "resumable" /\ checkpoint' = Envelope(bars, higher, c, s) /\ booked' = s.trades
        /\ admitted' = [binding |-> c, bars |-> bars, higher |-> higher] /\ decided' = now
    BY <1>6 DEF RunResumable, now
  <2>2. ReplayOf(s.b, booked', now, c)
    BY <2>1 DEF ReplayOf
  <2> HIDE DEF s
  <2> QED BY <1>4, <1>5, <2>1, <2>2 DEF InformedAs
<1>7. CASE cp # NoReceipt /\ Binds(cp, bars, higher, c)
  <2> DEFINE k == checkpoint.processed
             prior == SubSeq(bars, 1, k)
             joined == Joined(decided, k, now)
             full == RunRange(FreshBroker, NoCollector, joined, 1, c)
             short == RunRange(FreshBroker, NoCollector, decided, 1, c)
             rest == RunRange(short.b, NoCollector, joined, k + 1, c)
  <2>1. cp = checkpoint /\ checkpoint # NoReceipt
    BY <1>7
  <2>2. BoundTo(checkpoint.binding, c) /\ k <= Len(bars) /\ checkpoint.bars = prior
    BY <1>7, <2>1, Zenon DEF Binds, BoundTo
  <2>3. /\ checkpoint.bars \in Seq(PricedBar) /\ k = Len(checkpoint.bars)
        /\ decided \in Seq(PricedBar) /\ Len(decided) = k
        /\ SameMarket(checkpoint.bars, decided, k)
        /\ ~ checkpoint.binding.htf => AllAllow(decided)
    BY <2>1 DEF PaperInv, CheckpointKept
  <2>4. PICK d \in Bindings : /\ BoundTo(checkpoint.binding, d)
                              /\ ReplayOf(checkpoint.state, booked, decided, d)
    BY <2>1 DEF PaperInv, CheckpointKept
  <2>5. k \in 0 .. Len(bars) /\ k \in Nat /\ Listed(bars) /\ Len(bars) \in Nat
    <3>1. Len(checkpoint.bars) \in Nat /\ Len(bars) \in Nat
      BY <2>3, LenProperties
    <3>2. k \in 0 .. Len(bars) /\ k \in Nat
      <4> HIDE DEF k, prior
      <4> QED BY <2>2, <2>3, <3>1
    <3> QED BY <3>1, <3>2 DEF Listed
  <2>6. SameRules(c, d) /\ c.htf = checkpoint.binding.htf
    BY <2>2, <2>4, BoundRules DEF SameRules
  <2>7. now \in Seq(PricedBar) /\ Len(now) = Len(bars) /\ SameMarket(bars, now, Len(bars)) /\ (~ c.htf => AllAllow(now))
    BY <1>4 DEF InformedAs
  <2>8. SameMarket(now, decided, k)
    <3>1. \A i \in 1 .. k : prior[i] = bars[i] /\ i \in 1 .. Len(bars)
      <4> HIDE DEF k
      <4> QED BY <2>5, ListedPrefix
    <3>2. \A i \in 1 .. k : SameBar(prior[i], decided[i])
      BY <2>2, <2>3 DEF SameMarket
    <3> HIDE DEF k, prior
    <3> QED BY <2>7, <3>1, <3>2 DEF SameMarket, SameBar
  <2>9. /\ joined \in Seq(PricedBar) /\ Len(joined) = Len(bars)
        /\ SubSeq(joined, 1, k) = decided
        /\ AgreeFrom(joined, now, k + 1, Len(bars))
        /\ ~ c.htf => joined = now
    <3> HIDE DEF k
    <3>1. Len(decided) <= Len(now) /\ SameMarket(now, decided, Len(decided))
      BY <2>2, <2>3, <2>7, <2>8
    <3>2. ~ c.htf => AllAllow(decided) /\ AllAllow(now)
      BY <2>3, <2>6, <2>7
    <3> QED BY <2>3, <2>7, <3>1, <3>2, JoinedIs
  <2> HIDE DEF joined, prior, k
  <2>10. short = RunRange(FreshBroker, NoCollector, decided, 1, d)
    <3>1. Agree(decided, decided, Len(decided)) /\ Len(decided) \in Nat /\ 1 - 1 <= Len(decided) /\ 1 \in Nat \ {0}
      BY <2>3, <2>5 DEF Agree
    <3>2. AgreeFrom(decided, decided, 1, Len(decided))
      BY <3>1, AgreeIsAgreeFrom
    <3> QED BY <2>6, <3>1, <3>2, RunRangeLocal
  <2>11. checkpoint.state = short.b /\ booked = short.trades
    BY <2>4, <2>10 DEF ReplayOf
  <2>12. full.b = rest.b /\ full.trades = short.trades \o rest.trades
    <3>1. Splits(joined, k, c)
      <4>1. Listed(joined) /\ k \in 0 .. Len(joined)
        BY <2>5, <2>9 DEF Listed
      <4> QED BY <4>1, ReplaySplits
    <3> QED BY <2>9, <3>1, Zenon DEF Splits
  <2>13. rest = RunRange(checkpoint.state, NoCollector, now, k + 1, c)
    <3> DEFINE first == k + 1
               state == checkpoint.state
    <3>1. /\ first \in Nat \ {0} /\ Len(joined) \in Nat /\ Len(now) = Len(joined) /\ first - 1 <= Len(joined)
          /\ AgreeFrom(joined, now, first, Len(joined)) /\ SameRules(c, c)
      BY <2>5, <2>7, <2>9 DEF SameRules
    <3>2. rest = RunRange(state, NoCollector, joined, first, c)
      BY <2>11
    <3> HIDE DEF rest, short, first, state
    <3>3. RunRange(state, NoCollector, joined, first, c) = RunRange(state, NoCollector, now, first, c)
      BY ONLY <3>1, RunRangeLocal
    <3> QED BY <3>2, <3>3 DEF first, state
  <2> HIDE DEF full, rest, short
  <2>14. /\ reply' = "resumable" /\ checkpoint' = Envelope(bars, higher, c, rest) /\ booked' = booked \o rest.trades
         /\ admitted' = [binding |-> c, bars |-> bars, higher |-> higher] /\ decided' = joined
    BY <1>7, <2>1, <2>13 DEF RunResumable, Restored, now, k, joined
  <2>15. ReplayOf(rest.b, booked', joined, c)
    <3>1. booked' = full.trades /\ rest.b = full.b
      BY <2>11, <2>12, <2>14
    <3> QED BY <3>1 DEF ReplayOf, full
  <2>16. SameMarket(bars, joined, Len(bars))
    BY <2>7, <2>9 DEF SameMarket, SameBar, AgreeFrom
  <2> QED BY <1>5, <2>9, <2>14, <2>15, <2>16
<1> QED BY <1>3, <1>6, <1>7

LEMMA PaperInvInit ==
  PaperInit => PaperInv
<1> SUFFICES ASSUME PaperInit PROVE PaperInv
  OBVIOUS
<1>1. Recorded
  BY DEF PaperInit, Recorded
<1>2. ReceiptKept /\ ReplyHeld /\ CheckpointKept /\ CheckpointReplied
  BY DEF PaperInit, ReceiptKept, ReplyHeld, CheckpointKept, CheckpointReplied
<1> QED BY <1>1, <1>2 DEF PaperInv

LEMMA PaperInvNext ==
  PaperInv /\ [PaperNext]_paperVars => PaperInv'
<1> SUFFICES ASSUME PaperInv, [PaperNext]_paperVars PROVE PaperInv'
  OBVIOUS
<1>1. tape \in Seq(PricedBar) /\ client \in Clients /\ client.binding \in Bindings /\ corrections \in Nat
  BY DEF PaperInv, Recorded, Clients
<1>2. Len(tape) \in Nat /\ DOMAIN tape = 1 .. Len(tape) /\ \A i \in 1 .. Len(tape) : tape[i] \in PricedBar
  BY <1>1, LenProperties, ElementOfSeq
<1>3. \A n \in Supplied : SubSeq(tape, 1, n) \in Seq(PricedBar)
  <2> TAKE n \in Supplied
  <2>1. n \in DOMAIN tape
    BY DEF Supplied
  <2>2. n \in 0 .. Len(tape)
    BY <1>2, <2>1
  <2> QED BY <1>1, <2>2, TapePrefix
<1>4. ASSUME UNCHANGED << receipt, delivered, checkpoint, booked, admitted, decided, client >>, reply' = "none", Recorded'
      PROVE  PaperInv'
  <2>1. ReplyHeld' /\ CheckpointReplied'
    BY <1>4 DEF ReplyHeld, CheckpointReplied
  <2>2. ReceiptKept'
    BY <1>4 DEF PaperInv, ReceiptKept
  <2>3. CheckpointKept'
    <3>1. UNCHANGED << checkpoint, booked, decided >>
      BY <1>4
    <3> QED BY <3>1 DEF PaperInv, CheckpointKept, ReplayOf
  <2> QED BY <1>4, <2>1, <2>2, <2>3 DEF PaperInv
<1>5. ASSUME NEW candle \in Candles, Record(candle)
      PROVE  PaperInv'
  <2> DEFINE t == IF tape = << >> THEN 0 ELSE tape[Len(tape)].T + candle.step
  <2>1. t \in Int
    <3>1. tape # << >> => Len(tape) \in 1 .. Len(tape)
      BY <1>1, <1>2
    <3>2. tape # << >> => tape[Len(tape)].T \in Int
      BY <1>2, <3>1 DEF PricedBar
    <3>3. candle.step \in Nat
      BY PaperAssumption DEF PaperAssumption
    <3> QED BY <3>2, <3>3
  <2>2. tape' = Append(tape, Stamped(candle, t))
    BY <1>5 DEF Record
  <2> HIDE DEF t
  <2>3. tape' \in Seq(PricedBar)
    BY <1>1, <2>1, <2>2, PricedCandle, AppendProperties
  <2> QED BY <1>1, <1>4, <1>5, <2>3 DEF Record, Recorded
<1>6. ASSUME NEW candle \in Candles, Restate(candle)
      PROVE  PaperInv'
  <2>1. corrections' \in Nat
    BY <1>1, <1>6 DEF Restate
  <2>2. tape' \in Seq(PricedBar)
    <3>1. tape' = [tape EXCEPT ![Len(tape)] = Stamped(candle, tape[Len(tape)].T)]
      BY <1>6 DEF Restate
    <3>2. CASE Len(tape) = 0
      <4>1. tape \in [1 .. Len(tape) -> PricedBar] /\ Len(tape) \notin 1 .. Len(tape)
        BY <1>1, <3>2, LenProperties
      <4>2. tape' \in [1 .. Len(tape) -> PricedBar]
        BY <3>1, <4>1
      <4> QED BY <1>2, <4>2, SeqDef
    <3>3. CASE Len(tape) # 0
      <4>1. Len(tape) \in 1 .. Len(tape)
        BY <1>2, <3>3
      <4>2. tape[Len(tape)].T \in Int
        BY <1>2, <4>1 DEF PricedBar
      <4>3. Stamped(candle, tape[Len(tape)].T) \in PricedBar
        BY <4>2, PricedCandle
      <4> QED BY <1>1, <3>1, <4>1, <4>3, ExceptSeq
    <3> QED BY <3>2, <3>3
  <2> QED BY <1>1, <1>4, <1>6, <2>1, <2>2 DEF Restate, Recorded
<1>7. ASSUME SubmitPaper
      PROVE  PaperInv'
  BY <1>1, <1>3, <1>7, RunPaperKeeps DEF SubmitPaper
<1>8. ASSUME SubmitResumable
      PROVE  PaperInv'
  BY <1>1, <1>3, <1>8, RunResumableKeeps DEF SubmitResumable
<1>9. CASE UNCHANGED paperVars
  BY <1>9 DEF paperVars, PaperInv, Recorded, ReceiptKept, ReplyHeld, CheckpointKept, CheckpointReplied, ReplayOf, Current
<1> QED BY <1>5, <1>6, <1>7, <1>8, <1>9 DEF PaperNext

(* The recording, the client and the count of restated bars keep their     *)
(* types; a receipt is of a replay of the bars it names, a checkpoint and  *)
(* the trades booked are of a replay of its bars in which each bar has the *)
(* trend it was decided on (engine/paper_prefix.go,                        *)
(* engine/prefix_checkpoint.go).                                           *)
THEOREM PaperInvariant == PaperSpec => []PaperInv
<1>1. PaperInv /\ [PaperNext]_paperVars => PaperInv'
  BY PaperInvNext
<1> QED BY PaperInvInit, <1>1, PTL DEF PaperSpec

-------------------------------------------------------------------------------
(* Where no series has a hole.  A part of an even series that has two of   *)
(* its members has its width.                                              *)
EvenTo(f, n, w) == \A k \in 2 .. n : f[k] - f[k - 1] = w
Widths(f) == {d \in {f[k] - f[k - 1] : k \in DOMAIN f \ {1}} : d > 0}

LEMMA SpacingIs ==
  ASSUME NEW f, NEW n \in Nat, DOMAIN f = 1 .. n, NEW w \in Nat, EvenTo(f, n, w)
  PROVE  Spacing(f) = IF n >= 2 THEN w ELSE 0
<1>1. Spacing(f) = IF Widths(f) = {} THEN 0 ELSE Min(Widths(f))
  BY DEF Spacing, Widths
<1>2. DOMAIN f \ {1} = 2 .. n
  OBVIOUS
<1>3. Widths(f) = {d \in {f[k] - f[k - 1] : k \in 2 .. n} : d > 0}
  BY <1>2 DEF Widths
<1>4. CASE n < 2
  <2>1. 2 .. n = {}
    BY <1>4
  <2>2. Widths(f) = {}
    BY <1>3, <2>1
  <2> QED BY <1>1, <1>4, <2>2
<1>5. CASE n >= 2
  <2>1. 2 \in 2 .. n
    BY <1>5
  <2>2. {f[k] - f[k - 1] : k \in 2 .. n} = {w}
    BY <2>1 DEF EvenTo
  <2>3. Widths(f) = IF w > 0 THEN {w} ELSE {}
    BY <1>3, <2>2
  <2>4. w > 0 => Min({w}) = w
    <3>1. {w} \subseteq Nat /\ {w} # {}
      OBVIOUS
    <3> QED BY <3>1, MinOf
  <2> QED BY <1>1, <1>5, <2>3, <2>4
<1> QED BY <1>4, <1>5

LEMMA SpacingNat ==
  ASSUME NEW n \in Nat, NEW f \in [1 .. n -> Int]
  PROVE  Spacing(f) \in Nat
<1>1. Spacing(f) = IF Widths(f) = {} THEN 0 ELSE Min(Widths(f))
  BY DEF Spacing, Widths
<1>2. \A k \in DOMAIN f \ {1} : f[k] \in Int /\ f[k - 1] \in Int
  <2> TAKE k \in DOMAIN f \ {1}
  <2>1. k \in 1 .. n /\ k - 1 \in 1 .. n
    OBVIOUS
  <2> QED BY <2>1
<1>3. Widths(f) \subseteq Nat
  BY <1>2 DEF Widths
<1>4. Widths(f) # {} => Min(Widths(f)) \in Nat
  BY <1>3, MinOf
<1> QED BY <1>1, <1>4

LEMMA EvenRises ==
  ASSUME NEW n \in Nat, NEW f, \A k \in 1 .. n : f[k] \in Int, NEW w \in Nat, EvenTo(f, n, w),
         NEW a \in 1 .. n, NEW b \in 1 .. n, a <= b
  PROVE  f[a] <= f[b]
<1> DEFINE P == {k \in a .. n : f[a] <= f[k]}
<1>1. a \in P
  OBVIOUS
<1>2. ASSUME NEW k \in a .. n, k \in P, k + 1 <= n
      PROVE  k + 1 \in P
  <2>1. k + 1 \in 2 .. n /\ k \in 1 .. n /\ k + 1 \in 1 .. n /\ k + 1 - 1 = k
    BY <1>2
  <2>2. f[k + 1] - f[k] = w
    BY <2>1 DEF EvenTo
  <2>3. f[k] \in Int /\ f[k + 1] \in Int /\ f[a] \in Int /\ f[a] <= f[k]
    BY <1>2, <2>1
  <2>4. f[a] <= f[k + 1]
    BY <2>2, <2>3
  <2> QED BY <2>1, <2>4, <1>2
<1>3. a .. n \subseteq P
  <2> HIDE DEF P
  <2>1. a \in Nat
    OBVIOUS
  <2> QED BY <1>1, <1>2, <2>1, UpTo
<1> QED BY <1>3

(* An even recording of the higher timeframe, of which a part is fetched.  *)
HigherRow == [t : Int, o : Int, c : Int]
EvenRows(H, w) == H \in Seq(HigherRow) /\ w \in Nat /\ \A k \in 2 .. Len(H) : H[k].t - H[k - 1].t = w
Fetch(H, m) == SubSeq(H, 1, m)

LEMMA RowsAre ==
  ASSUME NEW H, NEW w, EvenRows(H, w)
  PROVE  /\ H \in Seq(HigherRow) /\ Len(H) \in Nat /\ DOMAIN H = 1 .. Len(H) /\ w \in Nat
         /\ \A p \in 1 .. Len(H) : H[p] \in HigherRow /\ H[p].t \in Int
         /\ \A p \in 2 .. Len(H) : H[p].t - H[p - 1].t = w
         /\ \A p \in 1 .. Len(H), q \in 1 .. Len(H) : p <= q => H[p].t <= H[q].t
<1>1. H \in Seq(HigherRow) /\ w \in Nat
  BY DEF EvenRows
<1>2. Len(H) \in Nat /\ DOMAIN H = 1 .. Len(H) /\ \A p \in 1 .. Len(H) : H[p] \in HigherRow
  BY <1>1, LenProperties, ElementOfSeq
<1>3. \A p \in 1 .. Len(H) : H[p].t \in Int
  BY <1>2 DEF HigherRow
<1> DEFINE n == Len(H)
           f == [k \in 1 .. n |-> H[k].t]
<1>4. n \in Nat /\ \A k \in 1 .. n : f[k] \in Int /\ f[k] = H[k].t
  BY <1>2, <1>3
<1>5. EvenTo(f, n, w)
  <2> SUFFICES ASSUME NEW k \in 2 .. n PROVE f[k] - f[k - 1] = w
    BY DEF EvenTo
  <2>1. k \in 1 .. n /\ k - 1 \in 1 .. n
    BY <1>4
  <2> QED BY <1>4, <2>1 DEF EvenRows
<1> HIDE DEF f
<1>6. \A p \in 1 .. n, q \in 1 .. n : p <= q => f[p] <= f[q]
  <2> HIDE DEF n
  <2> QED BY <1>1, <1>4, <1>5, EvenRises
<1>7. \A p \in 1 .. Len(H), q \in 1 .. Len(H) : p <= q => H[p].t <= H[q].t
  BY <1>4, <1>6
<1>8. \A p \in 2 .. Len(H) : H[p].t - H[p - 1].t = w
  BY DEF EvenRows
<1> QED BY <1>1, <1>2, <1>3, <1>7, <1>8

LEMMA FetchIs ==
  ASSUME NEW H, NEW w, EvenRows(H, w), NEW m \in 0 .. Len(H)
  PROVE  /\ Fetch(H, m) \in Seq(HigherRow) /\ Len(Fetch(H, m)) = m /\ DOMAIN Fetch(H, m) = 1 .. m
         /\ \A k \in 1 .. m : Fetch(H, m)[k] = H[k]
         /\ SpacingOf(Fetch(H, m)) = IF m >= 2 THEN w ELSE 0
<1> DEFINE A == Fetch(H, m)
           f == [k \in DOMAIN A |-> A[k].t]
<1>1. H \in Seq(HigherRow) /\ w \in Nat /\ m \in Nat /\ m <= Len(H) /\ Len(H) \in Nat
  BY RowsAre DEF EvenRows
<1>2. Listed(H)
  BY <1>1, RowsAre DEF Listed
<1>3. Len(A) = m /\ \A k \in 1 .. m : A[k] = H[k]
  BY <1>1, <1>2, ListedPrefix DEF Fetch
<1>4. A \in Seq(HigherRow)
  <2>1. \A k \in 1 .. m : H[k] \in HigherRow
    BY <1>1, RowsAre
  <2> QED BY <1>1, <2>1, SubSeqProperties DEF Fetch
<1>5. DOMAIN A = 1 .. m
  BY <1>3, <1>4, LenProperties
<1>6. DOMAIN f = 1 .. m /\ \A k \in 1 .. m : f[k] = H[k].t
  BY <1>3, <1>5
<1>7. EvenTo(f, m, w)
  <2> SUFFICES ASSUME NEW k \in 2 .. m PROVE f[k] - f[k - 1] = w
    BY DEF EvenTo
  <2>1. k \in 1 .. m /\ k - 1 \in 1 .. m /\ k \in 2 .. Len(H)
    BY <1>1
  <2>2. f[k] = H[k].t /\ f[k - 1] = H[k - 1].t
    BY <1>6, <2>1
  <2> QED BY <2>1, <2>2 DEF EvenRows
<1>8. SpacingOf(A) = Spacing(f)
  BY DEF SpacingOf
<1> HIDE DEF f, A
<1>9. SpacingOf(A) = IF m >= 2 THEN w ELSE 0
  BY <1>1, <1>6, <1>7, <1>8, SpacingIs
<1> QED BY <1>3, <1>4, <1>5, <1>9 DEF A

LEMMA GreatestOf ==
  ASSUME NEW m \in Nat, NEW S, S \subseteq 0 .. m, S # {}
  PROVE  Max(S) \in S /\ \A y \in S : Max(S) >= y
<1> DEFINE R == {m - y : y \in S}
<1>1. R \subseteq Nat /\ R # {}
  <2>1. \A y \in S : m - y \in Nat
    OBVIOUS
  <2>2. PICK y \in S : TRUE
    OBVIOUS
  <2>3. m - y \in R
    BY <2>2
  <2> QED BY <2>1, <2>3
<1>2. Min(R) \in R /\ \A z \in R : Min(R) <= z
  BY <1>1, MinOf
<1>3. PICK x \in S : Min(R) = m - x
  BY <1>2
<1>4. \A y \in S : m - x <= m - y
  BY <1>2, <1>3
<1>5. \A y \in S : x >= y
  BY <1>4
<1> QED BY <1>3, <1>5, Zenon DEF Max

(* What is bound of a part: its rows opened by then.                       *)
LEMMA ThroughIs ==
  ASSUME NEW H, NEW w, EvenRows(H, w), NEW m \in 0 .. Len(H), NEW x \in Int
  PROVE  LET n == Len(Through(Fetch(H, m), x))
         IN n \in 0 .. m /\ \A p \in 1 .. m : H[p].t <= x <=> p <= n
<1> DEFINE A == Fetch(H, m)
           S == {n \in 0 .. Len(A) : \A k \in 1 .. n : A[k].t <= x}
           N == Max(S)
<1>1. /\ Len(H) \in Nat /\ m \in Nat /\ m <= Len(H) /\ Listed(A) /\ Len(A) = m /\ \A k \in 1 .. m : A[k] = H[k]
      /\ \A p \in 1 .. Len(H) : H[p].t \in Int
      /\ \A p \in 1 .. Len(H), q \in 1 .. Len(H) : p <= q => H[p].t <= H[q].t
  BY RowsAre, FetchIs DEF Listed
<1>2. Through(A, x) = SubSeq(A, 1, N)
  BY DEF Through
<1>3. S = {n \in 0 .. m : \A k \in 1 .. n : A[k].t <= x}
  BY <1>1
<1> HIDE DEF A
<1>4. S \subseteq 0 .. m /\ 0 \in S
  BY <1>1, <1>3
<1>5. N \in 0 .. m /\ N \in S /\ \A y \in S : N >= y
  BY <1>1, <1>4, GreatestOf
<1>6. Len(Through(A, x)) = N
  BY <1>1, <1>2, <1>5, ListedPrefix
<1> HIDE DEF N
<1>7. ASSUME NEW p \in 1 .. m
      PROVE  H[p].t <= x <=> p <= N
  <2>1. ASSUME H[p].t <= x PROVE p <= N
    <3>1. \A k \in 1 .. p : A[k].t <= x
      <4> TAKE k \in 1 .. p
      <4>1. k \in 1 .. m /\ k \in 1 .. Len(H) /\ p \in 1 .. Len(H) /\ k <= p
        BY <1>1
      <4>2. H[k].t <= H[p].t /\ H[k].t \in Int /\ H[p].t \in Int /\ A[k] = H[k]
        BY <1>1, <4>1
      <4> QED BY <2>1, <4>2
    <3>2. p \in S
      BY <1>1, <1>3, <3>1
    <3> QED BY <1>5, <3>2
  <2>2. ASSUME p <= N PROVE H[p].t <= x
    <3>1. \A k \in 1 .. N : A[k].t <= x
      BY <1>3, <1>5
    <3>2. p \in 1 .. N
      BY <1>5, <2>2
    <3> QED BY <1>1, <3>1, <3>2
  <2> QED BY <2>1, <2>2
<1> HIDE DEF S
<1>8. Len(Through(A, x)) \in 0 .. m
  BY <1>5, <1>6
<1> QED BY <1>6, <1>7, <1>8 DEF A

(* The rows completed at a decision settle the trend, if there are two.    *)
CompletedOf(H, m, w, decision) == {p \in 1 .. m : H[p].t + w <= decision}
EvenTrend(H, w, width, decision, C) ==
  LET p == Max({0} \cup C)
      close == H[p].t + w
  IN IF width = 0 \/ w = 0 \/ p = 0 THEN << >>
     ELSE IF decision - close >= w /\ ~ SpansWeekendClosure(close, decision) THEN << >>
     ELSE << TrendOfBar(H[p]) >>

LEMMA EvenTrendIs ==
  ASSUME NEW H, NEW w, EvenRows(H, w), NEW m \in 0 .. Len(H), m >= 2, NEW width \in Nat, NEW open \in Int
  PROVE  HigherTrend(Fetch(H, m), width, open)
           = EvenTrend(H, w, width, open + width, CompletedOf(H, m, w, open + width))
<1> DEFINE A == Fetch(H, m)
           decision == open + width
           C == CompletedOf(H, m, w, decision)
           p == Max({0} \cup C)
<1>1. /\ Len(H) \in Nat /\ m \in Nat /\ m <= Len(H) /\ Len(A) = m /\ DOMAIN A = 1 .. m /\ \A k \in 1 .. m : A[k] = H[k]
      /\ \A k \in 1 .. Len(H) : H[k].t \in Int
      /\ \A k \in 2 .. Len(H) : H[k].t - H[k - 1].t = w
      /\ SpacingOf(A) = w /\ w \in Nat /\ decision \in Int
  <2>1. /\ Len(H) \in Nat /\ w \in Nat /\ \A k \in 1 .. Len(H) : H[k].t \in Int
        /\ \A k \in 2 .. Len(H) : H[k].t - H[k - 1].t = w
    BY RowsAre
  <2>2. Len(A) = m /\ DOMAIN A = 1 .. m /\ \A k \in 1 .. m : A[k] = H[k]
    BY FetchIs
  <2>3. SpacingOf(A) = w
    BY FetchIs
  <2> HIDE DEF A
  <2> QED BY <2>1, <2>2, <2>3
<1>2. CompletedBars(A, w, decision) = C
  BY <1>1 DEF CompletedBars, CompletedOf
<1>3. LatestCompleted(A, w, decision) = p
  BY <1>2 DEF LatestCompleted
<1>4. p \in {0} \cup C /\ \A y \in C : p >= y
  <2>1. {0} \cup C \subseteq 0 .. m /\ {0} \cup C # {}
    BY <1>1 DEF CompletedOf
  <2> HIDE DEF C
  <2> QED BY <1>1, <2>1, GreatestOf
<1> HIDE DEF A, decision, p
<1>5. HigherTrend(A, width, open) =
        IF width = 0 \/ w = 0 \/ p = 0 THEN << >>
        ELSE IF StaleBar(A, p, w, decision) THEN << >> ELSE << TrendOfBar(A[p]) >>
  BY <1>1, <1>3, Zenon DEF HigherTrend, decision
<1>6. EvenTrend(H, w, width, decision, C) =
        IF width = 0 \/ w = 0 \/ p = 0 THEN << >>
        ELSE IF decision - (H[p].t + w) >= w /\ ~ SpansWeekendClosure(H[p].t + w, decision) THEN << >>
        ELSE << TrendOfBar(H[p]) >>
  BY DEF EvenTrend, p
<1>7. ASSUME p # 0, w # 0
      PROVE  /\ A[p] = H[p]
             /\ StaleBar(A, p, w, decision)
                  <=> decision - (H[p].t + w) >= w /\ ~ SpansWeekendClosure(H[p].t + w, decision)
  <2>1. p \in C /\ p \in 1 .. m
    BY <1>4, <1>7 DEF CompletedOf
  <2>2. A[p] = H[p] /\ H[p].t \in Int
    BY <1>1, <2>1
  <2>3. InHole(A, p, w, decision) <=> decision - (H[p].t + w) >= w
    BY <2>2 DEF InHole
  <2>4. ASSUME decision - (H[p].t + w) >= w, p < m
        PROVE  FALSE
    <3>1. p + 1 \in 2 .. Len(H) /\ p + 1 \in 1 .. m /\ p + 1 \in 1 .. Len(H) /\ p + 1 - 1 = p
      BY <1>1, <2>1, <2>4
    <3>2. H[p + 1].t - H[p].t = w
      <4>1. \A k \in 2 .. Len(H), j \in 1 .. m : k - 1 = j => H[k].t - H[j].t = w
        BY <1>1
      <4>2. p + 1 \in 2 .. Len(H) /\ p \in 1 .. m /\ p + 1 - 1 = p
        BY <2>1, <3>1
      <4> QED BY <4>1, <4>2
    <3>3. H[p + 1].t \in Int
      BY <1>1, <3>1
    <3>4. H[p + 1].t + w <= decision
      <4>1. \A a \in Int, b \in Int : b - a = w /\ decision - (a + w) >= w => b + w <= decision
        BY <1>1
      <4> QED BY <2>2, <2>4, <3>2, <3>3, <4>1
    <3>5. p + 1 \in C
      BY <3>1, <3>4 DEF CompletedOf
    <3> QED BY <1>4, <2>1, <3>5
  <2>5. decision - (H[p].t + w) >= w => HoleEnd(A, p, decision) = decision
    BY <1>1, <2>1, <2>4 DEF HoleEnd
  <2> QED BY <2>2, <2>3, <2>5 DEF StaleBar
<1> QED BY <1>5, <1>6, <1>7 DEF A, decision

(* Two parts that say the same by x give the same trend at a bar up to x.  *)
LEMMA TrendSettled ==
  ASSUME NEW H, NEW w, EvenRows(H, w), Len(H) >= 2, NEW m \in 0 .. Len(H), NEW n \in 0 .. Len(H),
         NEW width \in Nat, width <= w, NEW open \in Int, NEW x \in Int, open <= x, H[2].t <= x,
         Through(Fetch(H, m), x) = Through(Fetch(H, n), x)
  PROVE  HigherTrend(Fetch(H, m), width, open) = HigherTrend(Fetch(H, n), width, open)
<1> DEFINE N == Len(Through(Fetch(H, m), x))
           decision == open + width
<1>1. Len(H) \in Nat /\ m \in Nat /\ n \in Nat /\ w \in Nat /\ \A p \in 1 .. Len(H) : H[p].t \in Int
  <2>1. Len(H) \in Nat /\ w \in Nat /\ \A p \in 1 .. Len(H) : H[p].t \in Int
    BY RowsAre
  <2> QED BY <2>1
<1>2. N \in 0 .. m /\ \A p \in 1 .. m : H[p].t <= x <=> p <= N
  BY ThroughIs
<1>3. N \in 0 .. n /\ \A p \in 1 .. n : H[p].t <= x <=> p <= N
  BY ThroughIs
<1> HIDE DEF N
<1>4. m >= 2 <=> n >= 2
  <2>1. m >= 2 => N >= 2
    BY <1>1, <1>2
  <2>2. n >= 2 => N >= 2
    BY <1>1, <1>3
  <2> QED BY <1>1, <1>2, <1>3, <2>1, <2>2
<1>5. CASE m < 2
  <2>1. SpacingOf(Fetch(H, m)) = 0 /\ SpacingOf(Fetch(H, n)) = 0
    BY <1>1, <1>4, <1>5, FetchIs
  <2> QED BY <2>1 DEF HigherTrend
<1>6. CASE m >= 2
  <2>1. \A p \in 1 .. Len(H) : H[p].t + w <= decision => H[p].t <= x
    <3> TAKE p \in 1 .. Len(H)
    <3>1. H[p].t \in Int /\ w \in Nat
      BY <1>1
    <3>2. \A a \in Int : a + w <= decision => a <= x
      BY <3>1
    <3> HIDE DEF decision
    <3> QED BY <3>1, <3>2
  <2>2. CompletedOf(H, m, w, decision) = CompletedOf(H, n, w, decision)
    <3> HIDE DEF decision
    <3>1. \A p \in 1 .. m : H[p].t + w <= decision => p \in 1 .. n
      <4> TAKE p \in 1 .. m
      <4>1. p \in 1 .. Len(H)
        BY <1>1
      <4>2. H[p].t + w <= decision => p <= N
        BY <1>2, <2>1, <4>1
      <4> QED BY <1>1, <1>3, <4>2
    <3>2. \A p \in 1 .. n : H[p].t + w <= decision => p \in 1 .. m
      <4> TAKE p \in 1 .. n
      <4>1. p \in 1 .. Len(H)
        BY <1>1
      <4>2. H[p].t + w <= decision => p <= N
        BY <1>3, <2>1, <4>1
      <4> QED BY <1>1, <1>2, <4>2
    <3> QED BY <3>1, <3>2 DEF CompletedOf
  <2>3. /\ HigherTrend(Fetch(H, m), width, open) = EvenTrend(H, w, width, decision, CompletedOf(H, m, w, decision))
        /\ HigherTrend(Fetch(H, n), width, open) = EvenTrend(H, w, width, decision, CompletedOf(H, n, w, decision))
    <3>1. m >= 2 /\ n >= 2
      BY <1>4, <1>6
    <3> QED BY <3>1, EvenTrendIs
  <2> QED BY <2>2, <2>3
<1> QED BY <1>1, <1>5, <1>6

(* The bars of a submission are a part of the recording, in their times.   *)
TimedAs(bars, rec) == Len(bars) <= Len(rec) /\ \A j \in 1 .. Len(bars) : bars[j].T = rec[j].T

LEMMA TimesAre ==
  ASSUME NEW rec \in Seq(PricedBar), Even(TimesOf(rec))
  PROVE  /\ Len(rec) \in Nat /\ Spacing(TimesOf(rec)) \in Nat
         /\ \A k \in 1 .. Len(rec) : rec[k].T \in Int
         /\ \A k \in 2 .. Len(rec) : rec[k].T - rec[k - 1].T = Spacing(TimesOf(rec))
         /\ \A a \in 1 .. Len(rec), b \in 1 .. Len(rec) : a <= b => rec[a].T <= rec[b].T
<1> DEFINE n == Len(rec)
           f == TimesOf(rec)
           w == Spacing(f)
<1>1. n \in Nat /\ DOMAIN rec = 1 .. n /\ \A k \in 1 .. n : rec[k].T \in Int
  <2>1. n \in Nat /\ DOMAIN rec = 1 .. n /\ \A k \in 1 .. n : rec[k] \in PricedBar
    BY LenProperties, ElementOfSeq
  <2>2. \A y \in PricedBar : y.T \in Int
    BY DEF PricedBar
  <2> HIDE DEF n
  <2> QED BY <2>1, <2>2
<1>2. f \in [1 .. n -> Int] /\ \A k \in 1 .. n : f[k] = rec[k].T
  BY <1>1 DEF TimesOf
<1> HIDE DEF f
<1>3. w \in Nat
  BY <1>1, <1>2, SpacingNat
<1>4. \A k \in 2 .. n : f[k] - f[k - 1] = w
  <2>1. \A k \in 2 .. n : k \in DOMAIN f \ {1}
    BY <1>1, <1>2
  <2> QED BY <2>1 DEF Even, f
<1> HIDE DEF n, w
<1>5. \A k \in 2 .. n : rec[k].T - rec[k - 1].T = w
  <2> TAKE k \in 2 .. n
  <2>1. k \in 1 .. n /\ k - 1 \in 1 .. n
    BY <1>1
  <2> QED BY <1>2, <1>4, <2>1
<1>6. \A a \in 1 .. n, b \in 1 .. n : a <= b => f[a] <= f[b]
  <2>1. EvenTo(f, n, w) /\ \A k \in 1 .. n : f[k] \in Int
    BY <1>1, <1>2, <1>4 DEF EvenTo
  <2> QED BY <1>1, <1>3, <2>1, EvenRises
<1>7. \A a \in 1 .. n, b \in 1 .. n : a <= b => rec[a].T <= rec[b].T
  BY <1>2, <1>6
<1> QED BY <1>1, <1>3, <1>5, <1>7 DEF n, f, w

LEMMA WidthOfPart ==
  ASSUME NEW rec \in Seq(PricedBar), Even(TimesOf(rec)), NEW bars \in Seq(PricedBar), TimedAs(bars, rec)
  PROVE  Spacing([k \in DOMAIN bars |-> bars[k].T]) = IF Len(bars) >= 2 THEN Spacing(TimesOf(rec)) ELSE 0
<1> DEFINE w == Spacing(TimesOf(rec))
           f == [k \in DOMAIN bars |-> bars[k].T]
           n == Len(bars)
<1>1. /\ Len(rec) \in Nat /\ w \in Nat
      /\ \A k \in 2 .. Len(rec) : rec[k].T - rec[k - 1].T = w
  BY TimesAre
<1>2. n \in Nat /\ DOMAIN bars = 1 .. n /\ n <= Len(rec) /\ \A k \in 1 .. n : bars[k].T = rec[k].T
  BY LenProperties DEF TimedAs
<1>3. DOMAIN f = 1 .. n /\ \A k \in 1 .. n : f[k] = rec[k].T
  BY <1>2
<1> HIDE DEF f, w, n
<1>4. EvenTo(f, n, w)
  <2> SUFFICES ASSUME NEW k \in 2 .. n PROVE f[k] - f[k - 1] = w
    BY DEF EvenTo
  <2>1. k \in 1 .. n /\ k - 1 \in 1 .. n /\ k \in 2 .. Len(rec)
    BY <1>1, <1>2
  <2> QED BY <1>1, <1>3, <2>1
<1>5. Spacing(f) = IF n >= 2 THEN w ELSE 0
  BY <1>1, <1>2, <1>3, <1>4, SpacingIs
<1> QED BY <1>5 DEF f, w, n

(* A decided bar keeps its trend: two submissions of a regular recording   *)
(* that say the same of the rows opened by bar k agree up to it.           *)
LEMMA AllowedSettled ==
  ASSUME NEW H, NEW w, EvenRows(H, w), Len(H) >= 2, NEW m \in 0 .. Len(H), NEW n \in 0 .. Len(H),
         NEW rec \in Seq(PricedBar), Even(TimesOf(rec)), Spacing(TimesOf(rec)) <= w, H[2].t <= rec[1].T,
         NEW bars \in Seq(PricedBar), TimedAs(bars, rec), NEW other \in Seq(PricedBar), TimedAs(other, rec),
         NEW k \in 2 .. Len(bars), k <= Len(other),
         Through(Fetch(H, m), rec[k].T) = Through(Fetch(H, n), rec[k].T),
         NEW i \in 1 .. k
  PROVE  Allowed(bars, Fetch(H, m), i) = Allowed(other, Fetch(H, n), i)
<1> DEFINE width == Spacing(TimesOf(rec))
           x == rec[k].T
<1>1. /\ Len(rec) \in Nat /\ width \in Nat /\ \A j \in 1 .. Len(rec) : rec[j].T \in Int
      /\ \A a \in 1 .. Len(rec), b \in 1 .. Len(rec) : a <= b => rec[a].T <= rec[b].T
  <2> HIDE DEF width
  <2> QED BY TimesAre DEF width
<1>2. Len(bars) \in Nat /\ Len(other) \in Nat /\ Len(bars) <= Len(rec) /\ Len(other) <= Len(rec)
  BY LenProperties DEF TimedAs
<1>3. i \in 1 .. Len(bars) /\ i \in 1 .. Len(other) /\ i \in 1 .. Len(rec) /\ k \in 1 .. Len(rec) /\ 1 \in 1 .. Len(rec)
      /\ Len(bars) >= 2 /\ Len(other) >= 2 /\ i <= k /\ 1 <= k
  BY <1>1, <1>2
<1>4. bars[i].T = rec[i].T /\ other[i].T = rec[i].T
  BY <1>3 DEF TimedAs
<1>5. rec[i].T \in Int /\ x \in Int /\ rec[1].T \in Int /\ rec[i].T <= x /\ rec[1].T <= x
  BY <1>1, <1>3
<1>6. H[2].t \in Int /\ w \in Nat
  BY RowsAre
<1>7. H[2].t <= x
  <2>1. \A a, b, c \in Int : a <= b /\ b <= c => a <= c
    OBVIOUS
  <2>2. H[2].t <= rec[1].T
    OBVIOUS
  <2> HIDE DEF x
  <2> QED BY <1>5, <1>6, <2>1, <2>2, Zenon
<1>8. Spacing([j \in DOMAIN bars |-> bars[j].T]) = width /\ Spacing([j \in DOMAIN other |-> other[j].T]) = width
  BY <1>3, WidthOfPart
<1> HIDE DEF width, x
<1>9. HigherTrend(Fetch(H, m), width, rec[i].T) = HigherTrend(Fetch(H, n), width, rec[i].T)
  <2>1. width <= w /\ Through(Fetch(H, m), x) = Through(Fetch(H, n), x)
    BY DEF width, x
  <2> QED BY <1>1, <1>5, <1>7, <2>1, TrendSettled
<1> QED BY <1>4, <1>8, <1>9 DEF Allowed

(* What a caller holds of a chain: the checkpoint is of its last accepted  *)
(* submission, whose bars are of the recording and whose rows are a part   *)
(* of the higher timeframe's; in a regular recording every booked decision *)
(* after the first bar is still what that submission says.                 *)
Settled == \A i \in 2 .. Len(decided) : decided[i] = Current[i]
BookedKept ==
  checkpoint # NoReceipt =>
    /\ client.command = "resumable"
    /\ admitted.bars = checkpoint.bars /\ admitted.binding \in Bindings
    /\ BoundTo(checkpoint.binding, admitted.binding)
    /\ \E m \in 0 .. Len(client.higher) : admitted.higher = Fetch(client.higher, m)
    /\ Len(checkpoint.bars) # 0 /\ TimedAs(checkpoint.bars, tape)
    /\ checkpoint.higher = Through(admitted.higher, tape[Len(checkpoint.bars)].T)
    /\ Regular => Settled
AnsweredKept == reply = "resumable" => checkpoint # NoReceipt
ChainInv == PaperInv /\ BookedKept /\ AnsweredKept

LEMMA HigherOpens ==
  ASSUME client \in Clients
  PROVE  /\ client.higher \in Seq(HigherRow) /\ Len(client.higher) \in Nat
         /\ OpensOf(client.higher) \in [1 .. Len(client.higher) -> Int]
         /\ \A k \in 1 .. Len(client.higher) : OpensOf(client.higher)[k] = client.higher[k].t
         /\ Spacing(OpensOf(client.higher)) \in Nat
<1> DEFINE H == client.higher
           f == OpensOf(H)
           n == Len(H)
<1>1. H \in Seq(HigherRow)
  <2>1. H \in Highers \cup {<< >>}
    BY DEF Clients
  <2>2. << >> \in Seq(HigherRow)
    OBVIOUS
  <2> HIDE DEF H
  <2> QED BY <2>1, <2>2, PaperAssumption DEF PaperAssumption, HigherRow
<1> HIDE DEF H
<1>2. n \in Nat /\ DOMAIN H = 1 .. n /\ \A k \in 1 .. n : H[k].t \in Int
  <2>1. n \in Nat /\ DOMAIN H = 1 .. n /\ \A k \in 1 .. n : H[k] \in HigherRow
    BY <1>1, LenProperties, ElementOfSeq
  <2>2. \A y \in HigherRow : y.t \in Int
    BY DEF HigherRow
  <2> HIDE DEF n
  <2> QED BY <2>1, <2>2
<1> HIDE DEF n
<1>3. f \in [1 .. n -> Int] /\ \A k \in 1 .. n : f[k] = H[k].t
  BY <1>2 DEF OpensOf
<1> HIDE DEF f
<1>4. Spacing(f) \in Nat
  BY <1>2, <1>3, SpacingNat
<1> QED BY <1>1, <1>2, <1>3, <1>4 DEF H, n, f

LEMMA RegularRows ==
  ASSUME client \in Clients, Regular
  PROVE  EvenRows(client.higher, Spacing(OpensOf(client.higher)))
<1> DEFINE H == client.higher
           f == OpensOf(H)
           w == Spacing(f)
           n == Len(H)
<1>1. H \in Seq(HigherRow) /\ n \in Nat /\ f \in [1 .. n -> Int] /\ w \in Nat /\ \A k \in 1 .. n : f[k] = H[k].t
  <2> HIDE DEF H, n, f, w
  <2> QED BY HigherOpens DEF H, n, f, w
<1>2. Even(f)
  BY DEF Regular
<1> HIDE DEF H, n, f
<1>3. \A k \in 2 .. n : H[k].t - H[k - 1].t = w
  <2> TAKE k \in 2 .. n
  <2>1. k \in 1 .. n /\ k - 1 \in 1 .. n /\ k \in DOMAIN f \ {1}
    BY <1>1
  <2>2. f[k] - f[k - 1] = w
    BY <1>2, <2>1 DEF Even
  <2> QED BY <1>1, <2>1, <2>2
<1> QED BY <1>1, <1>3 DEF EvenRows, H, f, w, n

(* A recording that goes on or is restated is regular only if it was.      *)
LEMMA RegularBefore ==
  ASSUME tape \in Seq(PricedBar), tape' \in Seq(PricedBar), Len(tape) # 0, TimedAs(tape, tape'),
         client' = client, client \in Clients, Regular'
  PROVE  Regular
<1> DEFINE w == Spacing(TimesOf(tape'))
           f == TimesOf(tape)
           width == Spacing(OpensOf(client.higher))
<1>1. /\ Len(client.higher) >= 2 /\ client.higher[2].t <= tape'[1].T
      /\ Even(OpensOf(client.higher)) /\ Even(TimesOf(tape')) /\ w <= width
  BY DEF Regular
<1>2. /\ Len(tape') \in Nat /\ w \in Nat
      /\ \A k \in 2 .. Len(tape') : tape'[k].T - tape'[k - 1].T = w
  <2> HIDE DEF w
  <2> QED BY <1>1, TimesAre DEF w
<1>3. /\ Len(tape) \in Nat /\ DOMAIN tape = 1 .. Len(tape) /\ Len(tape) <= Len(tape')
      /\ \A k \in 1 .. Len(tape) : tape'[k].T = tape[k].T
  BY LenProperties DEF TimedAs
<1>4. tape[1].T = tape'[1].T
  BY <1>3
<1>5. Spacing(f) = IF Len(tape) >= 2 THEN w ELSE 0
  BY <1>1, WidthOfPart DEF TimesOf
<1>6. DOMAIN f = 1 .. Len(tape) /\ \A k \in 1 .. Len(tape) : f[k] = tape'[k].T
  BY <1>3 DEF TimesOf
<1> HIDE DEF f, w
<1>7. Even(f)
  <2> SUFFICES ASSUME NEW k \in DOMAIN f \ {1} PROVE f[k] - f[k - 1] = Spacing(f)
    BY DEF Even
  <2>1. k \in 1 .. Len(tape) /\ k - 1 \in 1 .. Len(tape) /\ k \in 2 .. Len(tape') /\ Len(tape) >= 2
    BY <1>2, <1>3, <1>6
  <2> QED BY <1>2, <1>5, <1>6, <2>1
<1>8. Spacing(f) <= width
  <2>1. width \in Nat
    BY HigherOpens
  <2> HIDE DEF width
  <2> QED BY <1>1, <1>2, <1>5, <2>1
<1> QED BY <1>1, <1>4, <1>7, <1>8 DEF Regular, f, width

LEMMA InformedAt ==
  ASSUME NEW bars \in Seq(PricedBar), NEW higher, NEW c, NEW i \in 1 .. Len(bars)
  PROVE  Informed(bars, higher, c)[i] = [bars[i] EXCEPT !.allows = ~ c.htf \/ Allowed(bars, higher, i)]
<1>1. i \in DOMAIN bars
  BY LenProperties
<1> QED BY <1>1, Zenon DEF Informed

LEMMA RunResumableBooks ==
  ASSUME PaperInv, BookedKept, client.command = "resumable", NEW m \in 0 .. Len(client.higher),
         NEW bars \in Seq(PricedBar), TimedAs(bars, tape), Len(bars) # 0, NEW c \in Bindings, NEW cp,
         cp = NoReceipt \/ (cp = checkpoint /\ checkpoint # NoReceipt),
         RunResumable(cp, bars, Fetch(client.higher, m), c)
  PROVE  BookedKept' /\ AnsweredKept'
<1> DEFINE higher == Fetch(client.higher, m)
           now == Informed(bars, higher, c)
           k == checkpoint.processed
<1>1. client' = client /\ tape' = tape
  BY DEF RunResumable
<1>2. Regular' => Regular
  BY <1>1 DEF Regular
<1>3. CASE cp # NoReceipt /\ ~ Binds(cp, bars, higher, c)
  <2>1. reply' = "invalid" /\ UNCHANGED << checkpoint, booked, admitted, decided >>
    BY <1>3 DEF RunResumable
  <2>2. AnsweredKept'
    BY <2>1 DEF AnsweredKept
  <2>3. Settled => Settled'
    BY <2>1 DEF Settled, Current
  <2>4. checkpoint' = checkpoint /\ admitted' = admitted
    BY <2>1
  <2>5. BookedKept'
    BY <1>1, <1>2, <2>3, <2>4 DEF BookedKept
  <2> QED BY <2>2, <2>5
<1>4. Len(bars) \in Nat /\ Len(bars) \in 1 .. Len(bars) /\ bars[Len(bars)].T = tape[Len(bars)].T
  BY LenProperties DEF TimedAs
<1>5. ASSUME NEW s, NEW dec \in Seq(PricedBar), Len(dec) = Len(bars), Regular => \A i \in 2 .. Len(bars) : dec[i] = now[i],
             checkpoint' = Envelope(bars, higher, c, s), decided' = dec,
             admitted' = [binding |-> c, bars |-> bars, higher |-> higher]
      PROVE  BookedKept' /\ AnsweredKept'
  <2>1. /\ checkpoint'.bars = bars /\ BoundTo(checkpoint'.binding, c) /\ checkpoint' # NoReceipt
        /\ checkpoint'.higher = Through(higher, tape[Len(bars)].T)
    <3> DEFINE unbound == [c EXCEPT !.activation = 0]
               rows == Through(higher, bars[Len(bars)].T)
    <3>1. checkpoint' = [binding |-> unbound, bars |-> bars, processed |-> Len(bars), higher |-> rows, state |-> s.b]
      BY <1>5, Zenon DEF Envelope
    <3>2. BoundTo(unbound, c)
      BY DEF BoundTo
    <3>3. rows = Through(higher, tape[Len(bars)].T)
      BY <1>4
    <3> HIDE DEF unbound, rows
    <3>4. checkpoint'.bars = bars /\ checkpoint'.binding = unbound /\ checkpoint'.higher = rows
      BY <3>1
    <3>5. checkpoint' # NoReceipt
      <4>1. DOMAIN checkpoint' = {"binding", "bars", "processed", "higher", "state"}
        BY <3>1
      <4>2. DOMAIN NoReceipt = {}
        BY DEF NoReceipt
      <4> QED BY <4>1, <4>2
    <3> QED BY <3>2, <3>3, <3>4, <3>5
  <2>2. admitted'.bars = bars /\ admitted'.binding = c /\ admitted'.higher = higher
    BY <1>5
  <2>3. Current' = now
    BY <2>2 DEF Current
  <2>4. Regular' => Settled'
    BY <1>2, <1>5, <2>3 DEF Settled
  <2>5. TimedAs(checkpoint'.bars, tape') /\ Len(checkpoint'.bars) # 0
    BY <1>1, <2>1
  <2>6. \E p \in 0 .. Len(client'.higher) : admitted'.higher = Fetch(client'.higher, p)
    BY <1>1, <2>2
  <2>7. checkpoint'.higher = Through(admitted'.higher, tape'[Len(checkpoint'.bars)].T)
    BY <1>1, <2>1, <2>2
  <2> HIDE DEF higher, now
  <2> QED BY <1>1, <2>1, <2>2, <2>4, <2>5, <2>6, <2>7 DEF BookedKept, AnsweredKept
<1>6. now \in Seq(PricedBar) /\ Len(now) = Len(bars) /\ SameMarket(bars, now, Len(bars))
  BY InformedIs DEF InformedAs
<1>7. CASE cp = NoReceipt
  <2> DEFINE s == RunRange(FreshBroker, NoCollector, now, 1, c)
  <2>1. /\ checkpoint' = Envelope(bars, higher, c, s)
        /\ admitted' = [binding |-> c, bars |-> bars, higher |-> higher] /\ decided' = now
    BY <1>7 DEF RunResumable
  <2> HIDE DEF s, now, higher
  <2> QED BY <1>5, <1>6, <2>1
<1>8. CASE cp # NoReceipt /\ Binds(cp, bars, higher, c)
  <2> DEFINE s == RunRange(checkpoint.state, NoCollector, now, k + 1, c)
             joined == Joined(decided, k, now)
             old == checkpoint.bars
  <2>1. cp = checkpoint /\ checkpoint # NoReceipt
    BY <1>8
  <2>2. /\ checkpoint' = Envelope(bars, higher, c, s)
        /\ admitted' = [binding |-> c, bars |-> bars, higher |-> higher] /\ decided' = joined
    BY <1>8, <2>1 DEF RunResumable, Restored
  <2>3. /\ BoundTo(checkpoint.binding, c) /\ k <= Len(bars) /\ old = SubSeq(bars, 1, k)
        /\ checkpoint.higher = Through(higher, bars[k].T)
    BY <1>8, <2>1, Zenon DEF Binds, BoundTo
  <2>4. /\ old \in Seq(PricedBar) /\ k = Len(old)
        /\ decided \in Seq(PricedBar) /\ Len(decided) = k /\ SameMarket(old, decided, k)
    BY <2>1 DEF PaperInv, CheckpointKept
  <2>5. /\ admitted.bars = old /\ admitted.binding \in Bindings /\ BoundTo(checkpoint.binding, admitted.binding)
        /\ Len(old) # 0 /\ TimedAs(old, tape)
        /\ checkpoint.higher = Through(admitted.higher, tape[Len(old)].T)
        /\ Regular => Settled
    BY <2>1 DEF BookedKept
  <2>6. PICK p \in 0 .. Len(client.higher) : admitted.higher = Fetch(client.higher, p)
    BY <2>1 DEF BookedKept
  <2>7. k \in 1 .. Len(bars) /\ k \in Nat /\ Len(bars) \in Nat
    <3>1. Len(old) \in Nat /\ k = Len(old) /\ k # 0 /\ k <= Len(bars)
      BY <2>3, <2>4, <2>5, LenProperties
    <3> HIDE DEF k, old
    <3> QED BY <1>4, <3>1
  <2>8. \A i \in 1 .. k : old[i] = bars[i] /\ i \in 1 .. Len(bars)
    <3>1. Listed(bars) /\ k \in 0 .. Len(bars)
      BY <2>7 DEF Listed
    <3> HIDE DEF k, old
    <3> QED BY <2>3, <2>7, <3>1, ListedPrefix
  <2>9. bars[k].T = tape[k].T
    BY <2>7 DEF TimedAs
  <2>10. Through(Fetch(client.higher, p), tape[k].T) = Through(higher, tape[k].T)
    BY <2>3, <2>4, <2>5, <2>6, <2>9
  <2>11. c.htf = admitted.binding.htf
    BY <2>3, <2>5, BoundRules
  <2> HIDE DEF k, now, old, s, joined, higher
  <2>12. joined \in Seq(PricedBar) /\ Len(joined) = Len(bars)
         /\ \A i \in 1 .. Len(bars) : joined[i] = IF i <= k THEN decided[i] ELSE now[i]
    <3>1. DOMAIN now = 1 .. Len(bars) /\ \A i \in 1 .. Len(bars) : now[i] \in PricedBar
      BY <1>6, LenProperties, ElementOfSeq
    <3>2. DOMAIN decided = 1 .. k /\ \A i \in 1 .. k : decided[i] \in PricedBar
      BY <2>4, LenProperties, ElementOfSeq
    <3>3. joined = [i \in 1 .. Len(bars) |-> IF i <= k THEN decided[i] ELSE now[i]]
      BY <3>1, Zenon DEF joined, Joined
    <3>4. \A i \in 1 .. Len(bars) : (IF i <= k THEN decided[i] ELSE now[i]) \in PricedBar
      BY <2>7, <3>1, <3>2
    <3>5. joined \in [1 .. Len(bars) -> PricedBar]
      BY <3>3, <3>4
    <3>6. joined \in Seq(PricedBar)
      BY <2>7, <3>5, SeqDef
    <3>7. DOMAIN joined = 1 .. Len(bars) /\ DOMAIN joined = 1 .. Len(joined) /\ Len(joined) \in Nat
      BY <3>5, <3>6, LenProperties
    <3> QED BY <2>7, <3>3, <3>6, <3>7
  <2>13. ASSUME Regular, NEW i \in 2 .. Len(bars), i <= k
         PROVE  decided[i] = now[i]
    <3>1. i \in 1 .. k /\ i \in 1 .. Len(bars) /\ i \in 2 .. Len(decided) /\ i \in 1 .. Len(old) /\ k \in 2 .. Len(old)
          /\ k <= Len(bars)
      BY <2>4, <2>7, <2>13
    <3>2. decided[i] = Informed(old, admitted.higher, admitted.binding)[i]
      BY <2>5, <2>13, <3>1 DEF Settled, Current
    <3>3. decided[i] = [old[i] EXCEPT !.allows = ~ admitted.binding.htf \/ Allowed(old, admitted.higher, i)]
      BY <2>4, <3>1, <3>2, InformedAt
    <3>4. now[i] = [bars[i] EXCEPT !.allows = ~ c.htf \/ Allowed(bars, higher, i)]
      <4>1. Informed(bars, higher, c)[i] = [bars[i] EXCEPT !.allows = ~ c.htf \/ Allowed(bars, higher, i)]
        BY ONLY bars \in Seq(PricedBar), i \in 1 .. Len(bars), <3>1, InformedAt
      <4> QED BY <4>1 DEF now
    <3>5. Allowed(old, Fetch(client.higher, p), i) = Allowed(bars, Fetch(client.higher, m), i)
      <4> DEFINE H == client.higher
                 w == Spacing(OpensOf(H))
      <4>1. EvenRows(H, w)
        BY <2>13, RegularRows DEF PaperInv, Recorded
      <4>2. tape \in Seq(PricedBar)
        BY DEF PaperInv, Recorded
      <4>3. Len(H) >= 2 /\ Even(TimesOf(tape)) /\ Spacing(TimesOf(tape)) <= w /\ H[2].t <= tape[1].T
        BY <2>13 DEF Regular
      <4>4. Through(Fetch(H, p), tape[k].T) = Through(Fetch(H, m), tape[k].T)
        BY <2>10 DEF higher
      <4> HIDE DEF H, w
      <4>5. p \in 0 .. Len(H) /\ m \in 0 .. Len(H)
        BY DEF H
      <4>6. Allowed(old, Fetch(H, p), i) = Allowed(bars, Fetch(H, m), i)
        BY <2>4, <2>5, <3>1, <4>1, <4>2, <4>3, <4>4, <4>5, AllowedSettled
      <4> QED BY <4>6 DEF H
    <3>6. Allowed(old, admitted.higher, i) = Allowed(bars, higher, i)
      BY <2>6, <3>5 DEF higher
    <3> QED BY <2>8, <2>11, <3>1, <3>3, <3>4, <3>6, Zenon
  <2>14. Regular => \A i \in 2 .. Len(bars) : joined[i] = now[i]
    <3> SUFFICES ASSUME Regular, NEW i \in 2 .. Len(bars) PROVE joined[i] = now[i]
      OBVIOUS
    <3>1. i \in 1 .. Len(bars)
      BY <2>7
    <3> QED BY <2>12, <2>13, <3>1
  <2> QED BY <1>5, <2>2, <2>12, <2>14
<1> QED BY <1>3, <1>7, <1>8

LEMMA PaperReplies ==
  ASSUME NEW bars, NEW through, NEW c, NEW cp, RunPaper(cp, bars, through, c)
  PROVE  reply' # "resumable" /\ checkpoint' = checkpoint
<1>1. CASE Refusal(cp, bars, through, c) # "none"
  <2>1. reply' = Refusal(cp, bars, through, c)
    BY <1>1 DEF RunPaper, Refused
  <2>2. Refusal(cp, bars, through, c) \in {"BARS", "CONTEXT", "CHECKPOINT", "ACTIVATION"}
    BY <1>1 DEF Refusal
  <2> QED BY <2>1, <2>2 DEF RunPaper
<1>2. CASE Refusal(cp, bars, through, c) = "none"
  BY <1>2 DEF RunPaper, Refused
<1> QED BY <1>1, <1>2

LEMMA FetchedIs ==
  ASSUME client \in Clients, NEW t, NEW higher \in Fetched(t)
  PROVE  \E m \in 0 .. Len(client.higher) : higher = Fetch(client.higher, m)
<1> DEFINE H == client.higher
           opened == {m \in DOMAIN H : H[m].t <= t}
           n == Max({0} \cup opened)
<1>1. PICK m \in {n, n - 1} \cap Nat : higher = SubSeq(H, 1, m)
  BY DEF Fetched
<1>2. Len(H) \in Nat /\ DOMAIN H = 1 .. Len(H)
  <2>1. H \in Seq(HigherRow)
    BY HigherOpens
  <2> HIDE DEF H
  <2> QED BY <2>1, LenProperties
<1> HIDE DEF H
<1>3. n \in 0 .. Len(H)
  <2>1. {0} \cup opened \subseteq 0 .. Len(H) /\ {0} \cup opened # {}
    BY <1>2
  <2> HIDE DEF opened
  <2>2. n \in {0} \cup opened
    BY <1>2, <2>1, GreatestOf
  <2> QED BY <2>1, <2>2
<1> HIDE DEF n
<1>4. m \in 0 .. Len(H)
  BY <1>1, <1>2, <1>3
<1> QED BY <1>1, <1>4 DEF Fetch, H

LEMMA ChainInit ==
  PaperInit => ChainInv
<1>1. PaperInit => BookedKept /\ AnsweredKept
  BY DEF PaperInit, BookedKept, AnsweredKept
<1> QED BY <1>1, PaperInvInit DEF ChainInv

LEMMA ChainNext ==
  ChainInv /\ [PaperNext]_paperVars => ChainInv'
<1> SUFFICES ASSUME ChainInv, [PaperNext]_paperVars PROVE ChainInv'
  OBVIOUS
<1>1. PaperInv /\ BookedKept /\ AnsweredKept /\ PaperInv'
  BY PaperInvNext DEF ChainInv
<1>2. /\ tape \in Seq(PricedBar) /\ tape' \in Seq(PricedBar) /\ client \in Clients /\ client.binding \in Bindings
      /\ Len(tape) \in Nat /\ DOMAIN tape = 1 .. Len(tape) /\ Len(tape') \in Nat
  BY <1>1, LenProperties DEF PaperInv, Recorded, Clients
<1>3. ASSUME UNCHANGED << checkpoint, admitted, decided, client >>, reply' # "resumable",
             Len(tape) # 0 => TimedAs(tape, tape')
      PROVE  ChainInv'
  <2>1. AnsweredKept'
    BY <1>3 DEF AnsweredKept
  <2>2. BookedKept'
    <3> SUFFICES ASSUME checkpoint # NoReceipt PROVE BookedKept'
      BY <1>3 DEF BookedKept
    <3>1. Len(checkpoint.bars) \in Nat /\ Len(checkpoint.bars) # 0 /\ TimedAs(checkpoint.bars, tape)
      BY <1>1, LenProperties DEF BookedKept, PaperInv, CheckpointKept
    <3>2. Len(tape) # 0 /\ Len(checkpoint.bars) \in 1 .. Len(tape)
      BY <1>2, <3>1 DEF TimedAs
    <3>3. TimedAs(tape, tape')
      BY <1>3, <3>2
    <3>4. TimedAs(checkpoint.bars, tape')
      BY <1>2, <3>1, <3>2, <3>3 DEF TimedAs
    <3>5. tape'[Len(checkpoint.bars)].T = tape[Len(checkpoint.bars)].T
      BY <3>2, <3>3 DEF TimedAs
    <3>6. Regular' => Regular
      BY <1>2, <1>3, <3>2, <3>3, RegularBefore
    <3>7. Settled => Settled'
      BY <1>3 DEF Settled, Current
    <3> QED BY <1>1, <1>3, <3>1, <3>4, <3>5, <3>6, <3>7 DEF BookedKept
  <2> QED BY <1>1, <2>1, <2>2 DEF ChainInv
<1>4. ASSUME NEW candle \in Candles, Record(candle)
      PROVE  ChainInv'
  <2>1. \E b : tape' = Append(tape, b)
    BY <1>4 DEF Record
  <2>2. TimedAs(tape, tape')
    <3>1. PICK b : tape' = Append(tape, b)
      BY <2>1
    <3>2. tape \in Seq(PricedBar \cup {b}) /\ b \in PricedBar \cup {b}
      BY <1>2
    <3>3. Len(tape') = Len(tape) + 1 /\ \A i \in 1 .. Len(tape) : tape'[i] = tape[i]
      BY <3>1, <3>2, AppendProperties
    <3> QED BY <1>2, <3>3 DEF TimedAs
  <2>3. UNCHANGED << checkpoint, admitted, decided, client >> /\ reply' = "none"
    BY <1>4 DEF Record
  <2> QED BY <1>3, <2>2, <2>3
<1>5. ASSUME NEW candle \in Candles, Restate(candle)
      PROVE  ChainInv'
  <2> DEFINE n == Len(tape)
             b == Stamped(candle, tape[n].T)
  <2>1. tape' = [tape EXCEPT ![n] = b] /\ UNCHANGED << checkpoint, admitted, decided, client >> /\ reply' = "none"
    BY <1>5 DEF Restate
  <2>2. DOMAIN tape' = DOMAIN tape
    BY <2>1
  <2>3. Len(tape') = n
    <3>1. DOMAIN tape' = 1 .. Len(tape')
      BY <1>2, LenProperties
    <3> QED BY <1>2, <2>2, <3>1
  <2>4. b.T = tape[n].T
    BY DEF Stamped
  <2> HIDE DEF b, n
  <2>5. \A j \in DOMAIN tape : tape'[j].T = tape[j].T
    <3>1. \A j \in DOMAIN tape : tape'[j] = IF j = n THEN b ELSE tape[j]
      BY <2>1
    <3> QED BY <2>4, <3>1
  <2>6. TimedAs(tape, tape')
    BY <1>2, <2>3, <2>5 DEF TimedAs, n
  <2> QED BY <1>3, <2>1, <2>6
<1>6. ASSUME SubmitPaper
      PROVE  ChainInv'
  <2>1. client.command = "paper" /\ client' = client /\ tape' = tape /\ checkpoint' = checkpoint /\ reply' # "resumable"
    BY <1>6, PaperReplies DEF SubmitPaper, RunPaper
  <2>2. checkpoint = NoReceipt
    BY <1>1, <2>1 DEF BookedKept
  <2>3. BookedKept' /\ AnsweredKept'
    BY <2>1, <2>2 DEF BookedKept, AnsweredKept
  <2> QED BY <1>1, <2>3 DEF ChainInv
<1>7. ASSUME SubmitResumable
      PROVE  ChainInv'
  <2>1. PICK n \in Supplied : \E higher \in Fetched(tape[n].T), c \in Bindings, cp \in {NoReceipt, checkpoint} :
          /\ cp = NoReceipt \/ (cp = checkpoint /\ checkpoint # NoReceipt)
          /\ RunResumable(cp, SubSeq(tape, 1, n), higher, c)
    BY <1>2, <1>7 DEF SubmitResumable
  <2>2. PICK higher \in Fetched(tape[n].T), c \in Bindings, cp \in {NoReceipt, checkpoint} :
          /\ cp = NoReceipt \/ (cp = checkpoint /\ checkpoint # NoReceipt)
          /\ RunResumable(cp, SubSeq(tape, 1, n), higher, c)
    BY <2>1
  <2>3. PICK m \in 0 .. Len(client.higher) : higher = Fetch(client.higher, m)
    BY <1>2, FetchedIs
  <2>4. client.command = "resumable"
    BY <1>7 DEF SubmitResumable
  <2> DEFINE bars == SubSeq(tape, 1, n)
  <2>5. n \in 1 .. Len(tape)
    <3>1. n \in DOMAIN tape
      BY Zenon DEF Supplied
    <3> QED BY <1>2, <3>1
  <2>6. bars \in Seq(PricedBar) /\ Len(bars) = n /\ \A i \in 1 .. n : bars[i] = tape[i]
    <3>1. Listed(tape) /\ n \in 0 .. Len(tape)
      BY <1>2, <2>5 DEF Listed
    <3> QED BY <1>2, <3>1, ListedPrefix, TapePrefix
  <2>7. TimedAs(bars, tape) /\ Len(bars) # 0
    BY <1>2, <2>5, <2>6 DEF TimedAs
  <2>8. RunResumable(cp, bars, Fetch(client.higher, m), c)
    BY <2>2, <2>3
  <2> HIDE DEF bars
  <2>9. BookedKept' /\ AnsweredKept'
    BY <1>1, <2>2, <2>4, <2>6, <2>7, <2>8, RunResumableBooks
  <2> QED BY <1>1, <2>9 DEF ChainInv
<1>8. CASE UNCHANGED paperVars
  BY <1>1, <1>8 DEF paperVars, ChainInv, BookedKept, AnsweredKept, Settled, Current, Regular
<1> QED BY <1>4, <1>5, <1>6, <1>7, <1>8 DEF PaperNext

(* The deltas of a chain of accepted submissions are a replay: no event or *)
(* trade is lost, repeated, or computed from a broker that a field was     *)
(* missing from.  With a gate on the higher timeframe it is the replay in  *)
(* which each bar keeps the trend it was decided on; it is the replay of   *)
(* the last submission without such a gate, and with one where no series   *)
(* has a hole, the first bar comes with two higher rows and these are no   *)
(* narrower than the bars (engine/paper_prefix.go,                         *)
(* engine/prefix_checkpoint.go).                                           *)
THEOREM DeltasAreTheReplayHolds == PaperSpec => []DeltasAreTheReplay
<1>1. ChainInv => DeltasAreTheReplay
  <2> SUFFICES ASSUME ChainInv PROVE DeltasAreTheReplay
    OBVIOUS
  <2> USE DEF ChainInv
  <2>1. reply = "paper" => delivered = Executed(admitted.bars, admitted.binding).paper.events
    BY DEF PaperInv, ReplyHeld, ReceiptKept
  <2>2. reply = "resumable" => Replayed(decided)
    BY DEF PaperInv, CheckpointReplied, ReplayOf, Replayed
  <2>3. reply = "resumable" /\ ~ admitted.binding.htf => Replayed(Current)
    BY <2>2 DEF PaperInv, CheckpointReplied
  <2>4. ASSUME reply = "resumable", Regular
        PROVE  Replayed(Current)
    <3> DEFINE n == Len(decided)
               c == admitted.binding
               now == Current
    <3>1. checkpoint # NoReceipt /\ Settled /\ admitted.bars = checkpoint.bars /\ c \in Bindings
      BY <2>4 DEF AnsweredKept, BookedKept
    <3>2. /\ checkpoint.bars \in Seq(PricedBar) /\ decided \in Seq(PricedBar) /\ n = Len(checkpoint.bars)
          /\ SameMarket(checkpoint.bars, decided, n) /\ n \in Nat
      BY <3>1, LenProperties DEF PaperInv, CheckpointKept
    <3>3. Len(now) = n /\ SameMarket(checkpoint.bars, now, n)
      <4>1. InformedAs(Informed(checkpoint.bars, admitted.higher, c), checkpoint.bars, c)
        BY <3>1, <3>2, InformedIs
      <4> QED BY <3>1, <3>2, <4>1 DEF InformedAs, Current
    <3> HIDE DEF n, c, now
    <3>4. SameMarket(decided, now, n)
      BY <3>2, <3>3 DEF SameMarket, SameBar
    <3>5. \A j \in 1 .. n : j = 1 \/ decided[j] = now[j]
      BY <3>1, <3>2 DEF Settled, n, now
    <3>6. AgreeFrom(decided, now, 1, n)
      BY <3>4, <3>5 DEF AgreeFrom
    <3>7. RunRange(FreshBroker, NoCollector, decided, 1, c) = RunRange(FreshBroker, NoCollector, now, 1, c)
      <4>1. Len(decided) \in Nat /\ Len(now) = Len(decided) /\ 1 - 1 <= Len(decided) /\ 1 \in Nat \ {0}
            /\ AgreeFrom(decided, now, 1, Len(decided)) /\ SameRules(c, c)
        BY <3>2, <3>3, <3>6 DEF n, SameRules
      <4> QED BY <4>1, RunRangeLocal
    <3> QED BY <2>2, <2>4, <3>7 DEF Replayed, c, now
  <2> QED BY <2>1, <2>2, <2>3, <2>4 DEF DeltasAreTheReplay
<1> QED BY ChainInit, ChainNext, <1>1, PTL DEF PaperSpec

LEMMA GreatestIsMax ==
  ASSUME NEW S, S \subseteq Int, NEW m, Greatest(m, S)
  PROVE  Max(S) = m
<1>1. m \in S /\ \A y \in S : m >= y
  BY DEF Greatest
<1>2. Max(S) \in S /\ \A y \in S : Max(S) >= y
  BY <1>1, Zenon DEF Max
<1> HIDE DEF Greatest
<1>3. m >= Max(S) /\ Max(S) >= m /\ m \in Int /\ Max(S) \in Int
  BY <1>1, <1>2
<1> QED BY <1>3

LEMMA MarksAreMax ==
  ASSUME NEW ev, NEW peak, NEW fall, NEW balance, Journal(ev, peak, fall, balance),
         NEW k \in MarksTo(ev, Len(ev))
  PROVE  /\ ev[k].peak = Max(EquitiesTo(ev, k))
         /\ ev[k].maxDrawdown = Max({Max(EquitiesTo(ev, j)) - ev[j].equity : j \in MarksTo(ev, k)})
<1>1. ev \in Seq(Event) /\ MarkedTrue(ev) /\ Len(ev) \in Nat /\ k \in 1 .. Len(ev)
  BY LenProperties DEF Journal, MarksTo
<1>2. \A j \in MarksTo(ev, k) : j \in MarksTo(ev, Len(ev)) /\ j \in 1 .. Len(ev)
  BY <1>1 DEF MarksTo
<1>3. \A j \in MarksTo(ev, Len(ev)) : ev[j].equity \in Int /\ ev[j].peak \in Int /\ ev[j].maxDrawdown \in Int
  <2> TAKE j \in MarksTo(ev, Len(ev))
  <2>1. ev[j] \in Event /\ ev[j].kind = "mark"
    BY <1>1, ElementOfSeq DEF MarksTo
  <2> QED BY <2>1 DEF Event, Effect, Statement
<1>4. \A j \in MarksTo(ev, Len(ev)) : EquitiesTo(ev, j) \subseteq Int /\ FallsTo(ev, j) \subseteq Int
  <2> TAKE j \in MarksTo(ev, Len(ev))
  <2>1. j \in 1 .. Len(ev)
    BY DEF MarksTo
  <2>2. \A l \in MarksTo(ev, j) : l \in MarksTo(ev, Len(ev))
    BY <1>1, <2>1 DEF MarksTo
  <2>3. StartEquity \in Int
    BY PaperAssumption DEF PaperAssumption
  <2> QED BY <1>3, <2>2, <2>3 DEF EquitiesTo, FallsTo
<1>5. \A j \in MarksTo(ev, Len(ev)) : Greatest(ev[j].peak, EquitiesTo(ev, j)) /\ Greatest(ev[j].maxDrawdown, FallsTo(ev, j))
  BY <1>1 DEF MarkedTrue
<1>6. \A j \in MarksTo(ev, Len(ev)) : Max(EquitiesTo(ev, j)) = ev[j].peak
  BY <1>4, <1>5, GreatestIsMax
<1> DEFINE falls == {Max(EquitiesTo(ev, j)) - ev[j].equity : j \in MarksTo(ev, k)}
<1>7. falls = {ev[j].peak - ev[j].equity : j \in MarksTo(ev, k)}
  BY <1>2, <1>6
<1>8. FallsTo(ev, k) = falls \cup {0}
  BY <1>7 DEF FallsTo
<1>9. \A y \in falls : y >= 0 /\ y \in Int
  <2> TAKE y \in falls
  <2>1. PICK j \in MarksTo(ev, k) : y = ev[j].peak - ev[j].equity
    BY <1>7
  <2>2. ev[j].equity \in EquitiesTo(ev, j)
    BY <1>2, <2>1 DEF EquitiesTo, MarksTo
  <2>3. ev[j].equity <= ev[j].peak
    BY <1>2, <1>5, <2>1, <2>2 DEF Greatest
  <2> QED BY <1>2, <1>3, <2>1, <2>3
<1>10. k \in MarksTo(ev, k)
  BY <1>1 DEF MarksTo
<1>11. falls # {}
  BY <1>10
<1> HIDE DEF falls
<1>12. Greatest(ev[k].maxDrawdown, falls \cup {0})
  BY <1>5, <1>8
<1>13. Greatest(ev[k].maxDrawdown, falls)
  <2>1. PICK y \in falls : y >= 0 /\ y \in Int
    BY <1>9, <1>11
  <2>2. ev[k].maxDrawdown \in Int /\ y <= ev[k].maxDrawdown
    BY <1>3, <1>12, <2>1 DEF Greatest
  <2>3. CASE ev[k].maxDrawdown = 0
    BY <1>12, <2>1, <2>2, <2>3 DEF Greatest
  <2>4. CASE ev[k].maxDrawdown # 0
    BY <1>12, <2>4 DEF Greatest
  <2> QED BY <2>3, <2>4
<1>14. Max(falls) = ev[k].maxDrawdown
  BY <1>9, <1>13, GreatestIsMax
<1> QED BY <1>6, <1>14 DEF falls

(* The last statement of a receipt is accounted for by the events the      *)
(* caller was given: the balance by the completed trades and the fees, the *)
(* equity by the balance, peak and drawdown by every equity marked         *)
(* (engine/paper_prefix_accounting.go:184-295).                            *)
THEOREM StatementReconcilesHolds == PaperSpec => []StatementReconciles
<1>1. PaperInv => StatementReconciles
  <2> SUFFICES ASSUME PaperInv, reply = "paper", delivered # << >> PROVE StatementReconciles
    BY DEF StatementReconciles
  <2> DEFINE s == Executed(receipt.bars, receipt.binding)
             ev == s.paper.events
  <2>1. /\ receipt.bars \in Seq(PricedBar) /\ receipt.binding \in Bindings /\ delivered = ev
        /\ receipt = Receipt(receipt.bars, receipt.through, receipt.binding, s)
    BY DEF PaperInv, ReplyHeld, ReceiptKept
  <2>2. Books(s) /\ Closing(s, receipt.bars, Len(receipt.bars))
    <3>1. Activation(receipt.bars, receipt.binding) # {}
      BY <2>1, ExecutedBooks
    <3> QED BY <2>1, <3>1, ExecutedBooks
  <2>3. receipt.state[2] = [s.paper EXCEPT !.events = << >>]
    BY <2>1, ReceiptIs DEF Names
  <2> HIDE DEF s
  <2>4. receipt.state[2].open = s.paper.open /\ receipt.state[2].net = s.paper.net
    BY <2>2, <2>3 DEF Books, State, Collector
  <2>5. Journal(ev, s.paper.peak, s.paper.maxDrawdown, s.b.realized)
    BY <2>2 DEF Books
  <2>6. Len(ev) \in Nat \ {0} /\ ev[Len(ev)].kind = "mark" /\ ev[Len(ev)].equity = Equity(s, receipt.bars, Len(receipt.bars))
    BY <2>2 DEF Closing
  <2>7. \A k \in 1 .. Len(ev) : ev[k].before = IF k = 1 THEN 0 ELSE ev[k - 1].after
    BY <2>5 DEF Journal, Chained
  <2>8. ev[Len(ev)].after = s.b.realized /\ s.b.realized = s.paper.net + (IF s.paper.open = << >> THEN 0 ELSE s.paper.open.credits - s.paper.open.fee)
    BY <2>2, <2>5, <2>6 DEF Journal, Balance, Books, Owed
  <2>9. s.paper.open = << >> => ev[Len(ev)].equity = StartEquity + ev[Len(ev)].after
    <3>1. s.b.realized \in Int /\ StartEquity \in Int
      BY <2>2, PaperAssumption DEF Books, State, Fields, PaperAssumption
    <3> QED BY <2>2, <2>6, <2>8, <3>1 DEF Books, Equity
  <2>10. DOMAIN delivered = 1 .. Len(ev) /\ Marks = MarksTo(ev, Len(ev))
    <3>1. DOMAIN delivered = 1 .. Len(ev)
      BY <2>1, <2>5, LenProperties DEF Journal
    <3> QED BY <2>1, <3>1 DEF Marks, MarksTo
  <2>11. \A k \in Marks : {x \in Marks : x <= k} = MarksTo(ev, k)
    BY <2>6, <2>10 DEF MarksTo
  <2> DEFINE equities(k) == {delivered[j].equity : j \in {x \in Marks : x <= k}} \cup {StartEquity}
  <2>12. \A k \in Marks : equities(k) = EquitiesTo(ev, k)
    BY <2>1, <2>11 DEF EquitiesTo
  <2> HIDE DEF ev
  <2>13. ASSUME NEW k \in Marks
         PROVE  /\ delivered[k].peak = Max(equities(k))
                /\ delivered[k].maxDrawdown = Max({Max(equities(j)) - delivered[j].equity : j \in {x \in Marks : x <= k}})
    <3>1. /\ ev[k].peak = Max(EquitiesTo(ev, k))
          /\ ev[k].maxDrawdown = Max({Max(EquitiesTo(ev, j)) - ev[j].equity : j \in MarksTo(ev, k)})
      BY <2>5, <2>10, MarksAreMax
    <3>2. \A j \in {x \in Marks : x <= k} : Max(equities(j)) = Max(EquitiesTo(ev, j))
      BY <2>12
    <3>3. {Max(equities(j)) - delivered[j].equity : j \in {x \in Marks : x <= k}}
            = {Max(EquitiesTo(ev, j)) - ev[j].equity : j \in MarksTo(ev, k)}
      <4> HIDE DEF equities
      <4> QED BY <2>1, <2>11, <3>2
    <3>4. Max(equities(k)) = Max(EquitiesTo(ev, k))
      BY <2>12
    <3> HIDE DEF equities
    <3> QED BY <2>1, <3>1, <3>3, <3>4
  <2>14. /\ delivered[Len(delivered)] = ev[Len(ev)]
         /\ \A k \in DOMAIN delivered : delivered[k].before = IF k = 1 THEN 0 ELSE delivered[k - 1].after
    BY <2>1, <2>7, <2>10 DEF ev
  <2> QED BY <2>4, <2>6, <2>8, <2>9, <2>13, <2>14, Zenon DEF StatementReconciles, ev
<1> QED BY PaperInvariant, <1>1, PTL
===============================================================================
