---------------------------- MODULE SequentialProofs ----------------------------
(***************************************************************************)
(* Proofs about Sequential, for any counts, prices, holes and requests: the *)
(* few bars and counters that the core keeps say what the whole segment     *)
(* says.                                                                   *)
(*                                                                         *)
(* The segment is the tape: the bars since the last data gap.  What the     *)
(* core keeps is related to it (Segment): the history is its end, the       *)
(* comparison its last one, a run counts its last comparisons, an active    *)
(* Countdown its qualifying bars, and a Setup holds the extremes of the     *)
(* bars it is perfected by.                                                *)
(***************************************************************************)
EXTENDS Sequential, TLAPS, FiniteSetTheorems

BarType == [O : Nat, H : Nat, L : Nat, C : Nat, open : Nat]
KeptType == [H : Nat, L : Nat, C : Nat, open : Nat]
SetupType == [episode : Int, index : Int, ref6 : Int, ref7 : Int, perfected : BOOLEAN, perfectedAt : Int]
CountdownType ==
  [state : {"idle", "active", "deferred", "completed"}, count : Nat, episode : Int,
   bar5 : Int, bar8 : Int, bar13 : Int, bar8Close : Int]
SideType == [run : Nat, setup : SetupType, countdown : CountdownType]

Tape(tape) ==
  /\ tape \in Seq(BarType)
  /\ \A m, n \in 1 .. Len(tape) : m < n => tape[m].open < tape[n].open

(* What the core keeps of a bar.                                           *)
Kept(b) == [H |-> b.H, L |-> b.L, C |-> b.C, open |-> b.open]
Remembers(hist, tape) ==
  /\ hist \in Seq(KeptType)
  /\ Len(hist) = IF Len(tape) <= Lookback THEN Len(tape) ELSE Lookback
  /\ \A i \in 1 .. Len(hist) : hist[i] = Kept(tape[Len(tape) - Len(hist) + i])

(* The definitions of the property, of any tape.                           *)
CompAt(tape, n) ==
  IF n <= Lookback THEN 0
  ELSE IF tape[n].C < tape[n - Lookback].C THEN -1
  ELSE IF tape[n].C > tape[n - Lookback].C THEN 1 ELSE 0
RunEnds(tape, side, k) ==
  /\ k < Len(tape)
  /\ \A m \in Len(tape) - k + 1 .. Len(tape) : CompAt(tape, m) = Direction(side)
  /\ CompAt(tape, Len(tape) - k) = -Direction(side)
QualAt(tape, side, n) ==
  /\ n >= 3
  /\ IF side = "buy" THEN tape[n].C <= tape[n-2].L ELSE tape[n].C >= tape[n-2].H
PassesOver(tape, side, m, n) ==
  IF side = "buy" THEN tape[m].L < tape[n].L ELSE tape[m].H > tape[n].H
PerfFrom(tape, side, n) ==
  \E m \in n-1 .. Len(tape) : PassesOver(tape, side, m, n-3) /\ PassesOver(tape, side, m, n-2)
Qualifying(tape, side, e) == {n \in 1 .. Len(tape) : tape[n].open >= e /\ QualAt(tape, side, n)}

RunKept(tape, side, r) ==
  IF r > 0 THEN RunEnds(tape, side, r)
  ELSE \A k \in 1 .. Len(tape) : ~RunEnds(tape, side, k)
SetupKept(tape, side, s) ==
  s # NoSetup =>
    \E n \in 4 .. Len(tape) :
      /\ tape[n].open = s.episode
      /\ s.ref6 = Extreme(tape[n-3], side) /\ s.ref7 = Extreme(tape[n-2], side)
      /\ s.perfected <=> PerfFrom(tape, side, n)
(* A Countdown before a bar that opens at t is counted.                    *)
CountKept(tape, side, c, t) ==
  /\ c.state = "active" =>
       /\ c.count = Cardinality(Qualifying(tape, side, c.episode))
       /\ c.count < CountdownCount /\ c.episode <= t
  /\ c.state = "deferred" => c.count = CountdownCount - 1

LastOpen(tape) == IF tape = <<>> THEN None ELSE tape[Len(tape)].open
SideKept(tape, side, s) ==
  /\ s \in SideType
  /\ RunKept(tape, side, s.run) /\ SetupKept(tape, side, s.setup)
  /\ CountKept(tape, side, s.countdown, LastOpen(tape))
Segment(tape, hist, prev, ss) ==
  /\ Tape(tape) /\ Remembers(hist, tape)
  /\ prev = CompAt(tape, Len(tape))
  /\ DOMAIN ss = Side
  /\ \A side \in Side : SideKept(tape, side, ss[side])

-------------------------------------------------------------------------------
(* One bar more on the tape.                                               *)
LEMMA Longer ==
  ASSUME NEW tape, Tape(tape), NEW b \in BarType, LastOpen(tape) < b.open
  PROVE  /\ Tape(Append(tape, b)) /\ LastOpen(Append(tape, b)) = b.open
         /\ \A m \in 1 .. Len(tape) : Append(tape, b)[m] = tape[m] /\ tape[m] \in BarType /\ tape[m].open < b.open
         /\ Len(tape) \in Nat /\ Len(Append(tape, b)) = Len(tape) + 1 /\ Append(tape, b)[Len(tape) + 1] = b
<1> DEFINE longer == Append(tape, b)
           n == Len(tape)
<1>1. tape \in Seq(BarType) /\ n \in Nat
  BY DEF Tape
<1>2. longer \in Seq(BarType) /\ Len(longer) = n + 1 /\ longer[n + 1] = b
  BY <1>1
<1>3. \A m \in 1 .. n : longer[m] = tape[m] /\ tape[m] \in BarType
  BY <1>1
<1>4. \A m \in 1 .. n : tape[m].open < b.open
  <2> SUFFICES ASSUME NEW m \in 1 .. n PROVE tape[m].open < b.open
    OBVIOUS
  <2>1. n \in 1 .. n /\ tape # <<>>
    BY <1>1
  <2>2. tape[n].open < b.open /\ tape[n] \in BarType /\ tape[m] \in BarType
    BY <1>3, <2>1 DEF LastOpen
  <2>3. m = n \/ tape[m].open < tape[n].open
    BY <1>1, <2>1 DEF Tape
  <2> QED BY <2>2, <2>3 DEF BarType
<1>5. longer # <<>>
  BY <1>2, <1>1
<1> HIDE DEF longer
<1>6. LastOpen(longer) = b.open
  BY <1>2, <1>5 DEF LastOpen
<1>7. ASSUME NEW i \in 1 .. n + 1, NEW j \in 1 .. n + 1, i < j PROVE longer[i].open < longer[j].open
  <2>1. i \in 1 .. n
    BY <1>1, <1>7
  <2>2. CASE j = n + 1
    BY <2>1, <2>2, <1>2, <1>3, <1>4
  <2>3. CASE j # n + 1
    <3>1. j \in 1 .. n
      BY <1>1, <2>3
    <3> QED BY <2>1, <3>1, <1>3, <1>7 DEF Tape
  <2> QED BY <2>2, <2>3
<1>8. Tape(longer)
  BY <1>2, <1>7 DEF Tape
<1> QED BY <1>1, <1>2, <1>3, <1>4, <1>6, <1>8 DEF longer

(* Two tapes, the longer of which has one bar more.                        *)
Extends(longer, tape, b) ==
  /\ Tape(tape) /\ Tape(longer) /\ b \in BarType
  /\ Len(tape) \in Nat /\ Len(longer) = Len(tape) + 1 /\ longer[Len(tape) + 1] = b
  /\ \A m \in 1 .. Len(tape) : longer[m] = tape[m] /\ tape[m] \in BarType /\ tape[m].open < b.open

LEMMA CompLocal ==
  ASSUME NEW tape, NEW longer, NEW b, Extends(longer, tape, b), NEW m \in Int, m <= Len(tape)
  PROVE  CompAt(longer, m) = CompAt(tape, m) /\ CompAt(tape, m) \in {-1, 0, 1}
<1>1. Lookback \in Nat
  BY CountsAssumption
<1>2. CASE m <= Lookback
  BY <1>2 DEF CompAt
<1>3. CASE m > Lookback
  <2>1. m \in 1 .. Len(tape) /\ m - Lookback \in 1 .. Len(tape)
    BY <1>1, <1>3, CountsAssumption DEF Extends
  <2>2. longer[m] = tape[m] /\ longer[m - Lookback] = tape[m - Lookback]
    BY <2>1 DEF Extends
  <2> QED BY <2>2 DEF CompAt
<1> QED BY <1>1, <1>2, <1>3

LEMMA QualLocal ==
  ASSUME NEW tape, NEW longer, NEW b, Extends(longer, tape, b), NEW side, NEW m \in 1 .. Len(tape)
  PROVE  QualAt(longer, side, m) <=> QualAt(tape, side, m)
<1>1. CASE m >= 3
  <2>1. m - 2 \in 1 .. Len(tape)
    BY <1>1 DEF Extends
  <2> QED BY <2>1 DEF Extends, QualAt
<1>2. CASE ~(m >= 3)
  BY <1>2 DEF QualAt
<1> QED BY <1>1, <1>2

(* The history is the end of the tape, and the comparison its last.        *)
LEMMA RemembersOneMore ==
  ASSUME NEW tape, NEW longer, NEW b, Extends(longer, tape, b), NEW hist, Remembers(hist, tape)
  PROVE  Remembers(KeepHistory(hist, Kept(b)), longer)
<1> DEFINE n == Len(tape)
           h == Len(hist)
           next == KeepHistory(hist, Kept(b))
<1>1. n \in Nat /\ h \in Nat /\ hist \in Seq(KeptType) /\ Lookback \in Nat /\ Lookback >= 3
  BY CountsAssumption DEF Extends, Remembers
<1>2. Kept(b) \in KeptType
  BY DEF Kept, KeptType, BarType, Extends
<1>3. Len(longer) = n + 1 /\ longer[n + 1] = b
  BY DEF Extends
<1>4. h = IF n <= Lookback THEN n ELSE Lookback
  BY DEF Remembers
<1>5. \A i \in 1 .. h : hist[i] = Kept(tape[n - h + i])
  BY DEF Remembers
<1>6. \A m \in 1 .. n : longer[m] = tape[m]
  BY DEF Extends
<1>7. CASE h = Lookback
  <2>1. next = Append(Tail(hist), Kept(b)) /\ hist # <<>>
    BY <1>1, <1>7 DEF KeepHistory
  <2>2. Tail(hist) \in Seq(KeptType) /\ Len(Tail(hist)) = h - 1 /\ \A i \in 1 .. h - 1 : Tail(hist)[i] = hist[i + 1]
    BY <1>1, <2>1
  <2>3. next \in Seq(KeptType) /\ Len(next) = h /\ next[h] = Kept(b) /\ \A i \in 1 .. h - 1 : next[i] = hist[i + 1]
    BY <1>1, <1>2, <1>7, <2>1, <2>2
  <2> HIDE DEF next
  <2>4. Len(next) = IF n + 1 <= Lookback THEN n + 1 ELSE Lookback
    BY <1>1, <1>4, <1>7, <2>3
  <2>5. ASSUME NEW i \in 1 .. h PROVE next[i] = Kept(longer[n + 1 - h + i])
    <3>1. CASE i = h
      <4>1. n + 1 - h + i = n + 1
        BY <1>1, <3>1
      <4> QED BY <1>3, <2>3, <3>1, <4>1
    <3>2. CASE i # h
      <4>1. i \in 1 .. h - 1 /\ i + 1 \in 1 .. h
        BY <1>1, <3>2
      <4>2. n - h + (i + 1) = n + 1 - h + i /\ n + 1 - h + i \in 1 .. n
        BY <1>1, <1>4, <4>1
      <4>3. next[i] = Kept(tape[n - h + (i + 1)])
        BY <1>5, <2>3, <4>1
      <4> QED BY <1>6, <4>2, <4>3
    <3> QED BY <3>1, <3>2
  <2>6. \A i \in 1 .. Len(next) : next[i] = Kept(longer[Len(longer) - Len(next) + i])
    BY <1>3, <2>3, <2>5
  <2>7. Remembers(next, longer)
    BY <1>3, <2>3, <2>4, <2>6 DEF Remembers
  <2> QED BY <2>7 DEF next
<1>8. CASE h # Lookback
  <2>1. next = Append(hist, Kept(b)) /\ h = n /\ n < Lookback
    BY <1>1, <1>4, <1>8 DEF KeepHistory
  <2>2. next \in Seq(KeptType) /\ Len(next) = n + 1 /\ next[n + 1] = Kept(b) /\ \A i \in 1 .. n : next[i] = hist[i]
    BY <1>1, <1>2, <2>1
  <2> HIDE DEF next
  <2>3. Len(next) = IF n + 1 <= Lookback THEN n + 1 ELSE Lookback
    BY <1>1, <2>1, <2>2
  <2>4. ASSUME NEW i \in 1 .. n + 1 PROVE next[i] = Kept(longer[n + 1 - (n + 1) + i])
    <3>1. n + 1 - (n + 1) + i = i /\ n - h + i = i
      BY <1>1, <2>1
    <3>2. CASE i = n + 1
      BY <1>3, <2>2, <3>1, <3>2
    <3>3. CASE i # n + 1
      <4>1. i \in 1 .. n /\ i \in 1 .. h
        BY <1>1, <2>1, <3>3
      <4> QED BY <1>5, <1>6, <2>2, <3>1, <4>1
    <3> QED BY <3>2, <3>3
  <2>5. \A i \in 1 .. Len(next) : next[i] = Kept(longer[Len(longer) - Len(next) + i])
    BY <1>3, <2>2, <2>4
  <2>6. Remembers(next, longer)
    BY <1>3, <2>2, <2>3, <2>5 DEF Remembers
  <2> QED BY <2>6 DEF next
<1> QED BY <1>7, <1>8

LEMMA ComparesOneMore ==
  ASSUME NEW tape, NEW longer, NEW b, Extends(longer, tape, b), NEW hist, Remembers(hist, tape)
  PROVE  Comparison(Kept(b), hist) = CompAt(longer, Len(longer))
<1> DEFINE n == Len(tape)
<1>1. n \in Nat /\ Lookback \in Nat /\ Lookback >= 3 /\ Len(longer) = n + 1 /\ longer[n + 1] = b /\ b \in BarType
  BY CountsAssumption DEF Extends
<1>2. CASE n < Lookback
  <2>1. Len(hist) = n
    BY <1>1, <1>2 DEF Remembers
  <2> QED BY <1>1, <1>2, <2>1 DEF Comparison, CompAt
<1>3. CASE n >= Lookback
  <2>1. Len(hist) = Lookback
    BY <1>1, <1>3 DEF Remembers
  <2>2. 1 \in 1 .. Len(hist) /\ n - Len(hist) + 1 = n + 1 - Lookback /\ n + 1 - Lookback \in 1 .. n
    BY <1>1, <1>3, <2>1
  <2>3. hist[1] = Kept(tape[n + 1 - Lookback]) /\ longer[n + 1 - Lookback] = tape[n + 1 - Lookback]
    BY <2>2 DEF Remembers, Extends
  <2>4. hist[1].C = longer[n + 1 - Lookback].C /\ Kept(b).C = b.C
    BY <2>3 DEF Kept
  <2> QED BY <1>1, <1>3, <2>1, <2>4 DEF Comparison, CompAt
<1> QED BY <1>1, <1>2, <1>3

(* The run counts the last comparisons.                                    *)
LEMMA RunsOneMore ==
  ASSUME NEW tape, NEW longer, NEW b, Extends(longer, tape, b), NEW side \in Side, NEW r \in Nat,
         RunKept(tape, side, r)
  PROVE  LET next == NextRun(r, Direction(side), CompAt(longer, Len(longer)), CompAt(tape, Len(tape)))
         IN next \in Nat /\ RunKept(longer, side, next)
<1> DEFINE n == Len(tape)
           d == Direction(side)
           next == NextRun(r, d, CompAt(longer, Len(longer)), CompAt(tape, Len(tape)))
<1>1. n \in Nat /\ Len(longer) = n + 1 /\ d \in {-1, 1} /\ Lookback \in Nat /\ Lookback >= 3
  BY CountsAssumption DEF Extends, Direction
<1>2. \A m \in Int : m <= n => CompAt(longer, m) = CompAt(tape, m) /\ CompAt(tape, m) \in {-1, 0, 1}
  BY CompLocal
<1>3. CASE CompAt(longer, n + 1) # d
  <2>1. next = 0
    BY <1>1, <1>3 DEF NextRun
  <2>2. \A k \in 1 .. n + 1 : ~RunEnds(longer, side, k)
    <3> SUFFICES ASSUME NEW k \in 1 .. n + 1, RunEnds(longer, side, k) PROVE FALSE
      OBVIOUS
    <3>1. n + 1 \in n + 1 - k + 1 .. n + 1
      BY <1>1
    <3> QED BY <1>1, <1>3, <3>1 DEF RunEnds
  <2> QED BY <1>1, <2>1, <2>2 DEF RunKept
<1>4. CASE CompAt(longer, n + 1) = d /\ r > 0
  <2>1. next = r + 1
    BY <1>1, <1>4 DEF NextRun
  <2>2. RunEnds(tape, side, r)
    BY <1>4 DEF RunKept
  <2>3. r + 1 < n + 1 /\ CompAt(tape, n - r) = -d /\ \A m \in n - r + 1 .. n : CompAt(tape, m) = d
    BY <1>1, <2>2 DEF RunEnds
  <2>4. n + 1 - (r + 1) = n - r /\ n - r \in Int /\ n - r <= n
    BY <1>1
  <2>5. ASSUME NEW m \in n + 1 - (r + 1) + 1 .. n + 1 PROVE CompAt(longer, m) = d
    <3>1. m = n + 1 \/ m \in n - r + 1 .. n
      BY <1>1
    <3> QED BY <1>1, <1>2, <1>4, <2>3, <3>1
  <2>6. CompAt(longer, n + 1 - (r + 1)) = -d
    BY <1>2, <2>3, <2>4
  <2>7. RunEnds(longer, side, r + 1)
    BY <1>1, <2>3, <2>5, <2>6 DEF RunEnds
  <2> QED BY <2>1, <2>7 DEF RunKept
<1>5. CASE CompAt(longer, n + 1) = d /\ r = 0 /\ CompAt(tape, n) = -d
  <2>1. next = 1
    BY <1>1, <1>5 DEF NextRun
  <2>2. n > Lookback
    BY <1>1, <1>5 DEF CompAt
  <2>3. 1 < n + 1 /\ n + 1 - 1 = n /\ n \in Int
    BY <1>1, <2>2
  <2>4. \A m \in n + 1 - 1 + 1 .. n + 1 : m = n + 1
    BY <1>1
  <2>5. CompAt(longer, n) = -d
    BY <1>1, <1>2, <1>5
  <2>6. RunEnds(longer, side, 1)
    BY <1>1, <1>5, <2>3, <2>4, <2>5 DEF RunEnds
  <2> QED BY <2>1, <2>6 DEF RunKept
<1>6. CASE CompAt(longer, n + 1) = d /\ r = 0 /\ CompAt(tape, n) # -d
  <2>1. next = 0
    BY <1>1, <1>6 DEF NextRun
  <2>2. \A k \in 1 .. n + 1 : ~RunEnds(longer, side, k)
    <3> SUFFICES ASSUME NEW k \in 1 .. n + 1, RunEnds(longer, side, k) PROVE FALSE
      OBVIOUS
    <3>1. k < n + 1 /\ CompAt(longer, n + 1 - k) = -d /\ \A m \in n + 1 - k + 1 .. n + 1 : CompAt(longer, m) = d
      BY <1>1 DEF RunEnds
    <3>2. CASE k = 1
      <4>1. n + 1 - k = n /\ n \in Int /\ n <= n
        BY <1>1, <3>2
      <4> QED BY <1>2, <1>6, <3>1, <4>1
    <3>3. CASE k # 1
      <4> DEFINE j == k - 1
      <4>1. j \in 1 .. n /\ j < n /\ n + 1 - k = n - j /\ n - j \in Int /\ n - j <= n /\ n + 1 - k + 1 = n - j + 1
        BY <1>1, <3>1, <3>3
      <4>2. \A m \in n - j + 1 .. n : m \in n + 1 - k + 1 .. n + 1 /\ m \in Int /\ m <= n
        BY <1>1, <4>1
      <4> HIDE DEF j
      <4>3. \A m \in n - j + 1 .. n : CompAt(tape, m) = d
        BY <1>2, <3>1, <4>2
      <4>4. CompAt(tape, n - j) = -d
        BY <1>2, <3>1, <4>1
      <4>5. RunEnds(tape, side, j)
        BY <4>1, <4>3, <4>4 DEF RunEnds
      <4> QED BY <1>6, <4>1, <4>5 DEF RunKept
    <3> QED BY <3>2, <3>3
  <2> QED BY <1>1, <2>1, <2>2 DEF RunKept
<1> QED BY <1>3, <1>4, <1>5, <1>6, <1>1

(* The last bars of the history are those of the tape.                     *)
EndsAlike(hist, tape) ==
  \A j \in Nat : j < Len(hist) =>
    /\ hist[Len(hist) - j] = Kept(tape[Len(tape) - j])
    /\ Len(tape) - j \in 1 .. Len(tape)
    /\ \A side : Extreme(hist[Len(hist) - j], side) = Extreme(tape[Len(tape) - j], side)

LEMMA HistoryEnd ==
  ASSUME NEW tape, NEW hist, Remembers(hist, tape), Len(tape) \in Nat
  PROVE  EndsAlike(hist, tape)
<1> SUFFICES ASSUME NEW j \in Nat, j < Len(hist)
             PROVE  /\ hist[Len(hist) - j] = Kept(tape[Len(tape) - j])
                    /\ Len(tape) - j \in 1 .. Len(tape)
                    /\ \A side : Extreme(hist[Len(hist) - j], side) = Extreme(tape[Len(tape) - j], side)
  BY DEF EndsAlike
<1> DEFINE i == Len(hist) - j
<1>1. Len(hist) \in Nat /\ Len(hist) <= Len(tape)
  BY CountsAssumption DEF Remembers
<1>2. i \in 1 .. Len(hist) /\ Len(tape) - Len(hist) + i = Len(tape) - j
  BY <1>1
<1> HIDE DEF i
<1>3. hist[i] = Kept(tape[Len(tape) - j])
  BY <1>2 DEF Remembers
<1>4. \A side : Extreme(Kept(tape[Len(tape) - j]), side) = Extreme(tape[Len(tape) - j], side)
  BY DEF Extreme, Kept
<1>5. Len(tape) - j \in 1 .. Len(tape)
  BY <1>1
<1> QED BY <1>3, <1>4, <1>5 DEF i

LEMMA PerfectsIsPassing ==
  ASSUME NEW tape, NEW side \in Side, NEW s, NEW n, NEW m,
         s.ref6 = Extreme(tape[n-3], side), s.ref7 = Extreme(tape[n-2], side)
  PROVE  Perfects(Extreme(tape[m], side), s, side)
           <=> PassesOver(tape, side, m, n-3) /\ PassesOver(tape, side, m, n-2)
BY DEF Perfects, PassesOver, Extreme, Side

LEMMA LongHistory ==
  ASSUME NEW tape, NEW longer, NEW b, Extends(longer, tape, b), NEW hist, Remembers(hist, tape),
         NEW side \in Side, NEW r \in Nat \ {0}, RunKept(longer, side, r)
  PROVE  Len(hist) = Lookback /\ Len(hist) >= 3 /\ Len(longer) >= 4
<1>1. Len(longer) = Len(tape) + 1 /\ Len(tape) \in Nat /\ Lookback \in Nat /\ Lookback >= 3
  BY CountsAssumption DEF Extends
<1>2. CompAt(longer, Len(longer)) = Direction(side)
  <2>1. RunEnds(longer, side, r)
    BY DEF RunKept
  <2>2. Len(longer) \in Len(longer) - r + 1 .. Len(longer)
    BY <1>1
  <2> QED BY <2>1, <2>2 DEF RunEnds
<1>3. Len(longer) > Lookback
  BY <1>1, <1>2 DEF CompAt, Direction
<1> QED BY <1>1, <1>3 DEF Remembers

(* A Setup holds the extremes that perfect it.                             *)
LEMMA NewSetup ==
  ASSUME NEW tape, NEW longer, NEW b, Extends(longer, tape, b), NEW hist, Remembers(hist, tape),
         NEW side \in Side, NEW r \in Nat \ {0}, RunKept(longer, side, r), NEW index \in Int
  PROVE  LET h     == Len(hist)
             blank == [episode |-> b.open, index |-> index, perfected |-> FALSE,
                       ref6 |-> Extreme(hist[h-2], side), ref7 |-> Extreme(hist[h-1], side),
                       perfectedAt |-> None]
             now   == Perfects(Extreme(hist[h], side), blank, side) \/ Perfects(Extreme(Kept(b), side), blank, side)
             t     == IF now THEN MarkPerfected(blank, index) ELSE blank
         IN t \in SetupType /\ SetupKept(longer, side, t)
<1> DEFINE h     == Len(hist)
           n     == Len(longer)
           blank == [episode |-> b.open, index |-> index, perfected |-> FALSE,
                     ref6 |-> Extreme(hist[h-2], side), ref7 |-> Extreme(hist[h-1], side),
                     perfectedAt |-> None]
           now   == Perfects(Extreme(hist[h], side), blank, side) \/ Perfects(Extreme(Kept(b), side), blank, side)
           t     == IF now THEN MarkPerfected(blank, index) ELSE blank
<1>1. h >= 3 /\ n >= 4 /\ h \in Nat /\ n \in Nat /\ Len(tape) = n - 1 /\ longer[n] = b /\ b \in BarType
  <2>1. h = Lookback /\ h >= 3 /\ n >= 4
    BY LongHistory
  <2>2. Lookback \in Nat /\ Len(tape) \in Nat /\ n = Len(tape) + 1 /\ longer[Len(tape) + 1] = b /\ b \in BarType
    BY CountsAssumption DEF Extends
  <2> QED BY <2>1, <2>2
<1>2. /\ Extreme(hist[h], side) = Extreme(longer[n-1], side)
      /\ Extreme(hist[h-1], side) = Extreme(longer[n-2], side)
      /\ Extreme(hist[h-2], side) = Extreme(longer[n-3], side)
  <2>1. /\ Extreme(hist[h-0], side) = Extreme(tape[Len(tape)-0], side)
        /\ Extreme(hist[h-1], side) = Extreme(tape[Len(tape)-1], side)
        /\ Extreme(hist[h-2], side) = Extreme(tape[Len(tape)-2], side)
    <3>1. Len(tape) \in Nat /\ 0 < h /\ 1 < h /\ 2 < h
      BY <1>1 DEF Extends
    <3>2. EndsAlike(hist, tape)
      BY <3>1, HistoryEnd
    <3> QED BY <3>1, <3>2 DEF EndsAlike
  <2>2. h - 0 = h /\ Len(tape) - 0 = n - 1 /\ Len(tape) - 1 = n - 2 /\ Len(tape) - 2 = n - 3
    BY <1>1
  <2>3. n - 1 \in 1 .. Len(tape) /\ n - 2 \in 1 .. Len(tape) /\ n - 3 \in 1 .. Len(tape)
    BY <1>1
  <2>4. longer[n-1] = tape[n-1] /\ longer[n-2] = tape[n-2] /\ longer[n-3] = tape[n-3]
    BY <2>3 DEF Extends
  <2> QED BY <2>1, <2>2, <2>4
<1>3. longer[n-3] \in BarType /\ longer[n-2] \in BarType
  <2>1. n - 3 \in 1 .. n /\ n - 2 \in 1 .. n
    BY <1>1
  <2> QED BY <2>1 DEF Extends, Tape
<1>4. /\ blank.ref6 = Extreme(longer[n-3], side) /\ blank.ref7 = Extreme(longer[n-2], side)
      /\ blank \in SetupType /\ blank.perfected = FALSE /\ blank.episode = b.open
  <2>1. Extreme(longer[n-3], side) \in Int /\ Extreme(longer[n-2], side) \in Int
    BY <1>3 DEF Extreme, BarType
  <2>2. Extreme(hist[h-2], side) \in Int /\ Extreme(hist[h-1], side) \in Int
    BY <1>2, <2>1
  <2>3. b.open \in Int /\ None \in Int
    BY <1>1 DEF BarType, None
  <2>4. blank.ref6 = Extreme(hist[h-2], side) /\ blank.ref7 = Extreme(hist[h-1], side)
    OBVIOUS
  <2>5. blank \in SetupType /\ blank.perfected = FALSE /\ blank.episode = b.open
    BY <2>2, <2>3 DEF SetupType
  <2> QED BY <1>2, <2>4, <2>5
<1>5. Extreme(Kept(b), side) = Extreme(longer[n], side)
  BY <1>1 DEF Extreme, Kept
<1>6. now <=> PerfFrom(longer, side, n)
  <2>1. \A m : Perfects(Extreme(longer[m], side), blank, side)
                 <=> PassesOver(longer, side, m, n-3) /\ PassesOver(longer, side, m, n-2)
    <3> HIDE DEF blank
    <3> QED BY <1>4, PerfectsIsPassing
  <2>2. \A m : m \in n-1 .. n <=> m = n-1 \/ m = n
    BY <1>1
  <2>3. now <=> Perfects(Extreme(longer[n-1], side), blank, side) \/ Perfects(Extreme(longer[n], side), blank, side)
    BY <1>2, <1>5
  <2> HIDE DEF now, blank
  <2> QED BY <2>1, <2>2, <2>3 DEF PerfFrom
<1>7. /\ t \in SetupType /\ t.episode = b.open /\ (t.perfected <=> now)
      /\ t.ref6 = blank.ref6 /\ t.ref7 = blank.ref7
  <2> HIDE DEF blank, now
  <2>1. t = IF now THEN [blank EXCEPT !.perfected = TRUE, !.perfectedAt = index] ELSE blank
    BY DEF MarkPerfected
  <2> QED BY <1>4, <2>1 DEF SetupType
<1> HIDE DEF t, now, blank
<1>8. SetupKept(longer, side, t)
  <2>1. n \in 4 .. Len(longer) /\ longer[n].open = t.episode
    BY <1>1, <1>7
  <2> QED BY <1>4, <1>6, <1>7, <2>1 DEF SetupKept
<1> QED BY <1>7, <1>8 DEF t, now, blank

LEMMA OldSetup ==
  ASSUME NEW tape, NEW longer, NEW b, Extends(longer, tape, b), NEW side \in Side,
         NEW s \in SetupType, SetupKept(tape, side, s), NEW index \in Int
  PROVE  LET late == /\ s # NoSetup /\ ~s.perfected
                     /\ Perfects(Extreme(Kept(b), side), s, side)
             t    == IF late THEN MarkPerfected(s, index) ELSE s
         IN t \in SetupType /\ SetupKept(longer, side, t)
<1> DEFINE late == s # NoSetup /\ ~s.perfected /\ Perfects(Extreme(Kept(b), side), s, side)
           t == IF late THEN MarkPerfected(s, index) ELSE s
           n == Len(longer)
<1>1. CASE s = NoSetup
  BY <1>1 DEF SetupKept
<1>2. CASE s # NoSetup
  <2>1. PICK k \in 4 .. Len(tape) :
          /\ tape[k].open = s.episode
          /\ s.ref6 = Extreme(tape[k-3], side) /\ s.ref7 = Extreme(tape[k-2], side)
          /\ s.perfected <=> PerfFrom(tape, side, k)
    BY <1>2 DEF SetupKept
  <2>2. n = Len(tape) + 1 /\ Len(tape) \in Nat /\ longer[n] = b
    BY DEF Extends
  <2>3. /\ longer[k] = tape[k] /\ longer[k-3] = tape[k-3] /\ longer[k-2] = tape[k-2]
        /\ k \in 4 .. n
    <3>1. k \in 1 .. Len(tape) /\ k - 3 \in 1 .. Len(tape) /\ k - 2 \in 1 .. Len(tape)
      BY <2>2
    <3> QED BY <2>2, <3>1 DEF Extends
  <2>4. PerfFrom(longer, side, k) <=>
          PerfFrom(tape, side, k) \/ (PassesOver(longer, side, n, k-3) /\ PassesOver(longer, side, n, k-2))
    <3> DEFINE passes(m) == PassesOver(longer, side, m, k-3) /\ PassesOver(longer, side, m, k-2)
    <3>1. \A m \in k-1 .. Len(tape) : passes(m) <=> PassesOver(tape, side, m, k-3) /\ PassesOver(tape, side, m, k-2)
      <4> SUFFICES ASSUME NEW m \in k-1 .. Len(tape)
                   PROVE  passes(m) <=> PassesOver(tape, side, m, k-3) /\ PassesOver(tape, side, m, k-2)
        OBVIOUS
      <4>1. m \in 1 .. Len(tape)
        BY <2>2
      <4>2. longer[m] = tape[m]
        BY <4>1 DEF Extends
      <4> QED BY <2>3, <4>2 DEF PassesOver
    <3>2. \A m : m \in k-1 .. n <=> m \in k-1 .. Len(tape) \/ m = n
      BY <2>2
    <3> HIDE DEF passes
    <3>3. PerfFrom(tape, side, k) <=> \E m \in k-1 .. Len(tape) : passes(m)
      BY <3>1 DEF PerfFrom
    <3>4. PerfFrom(longer, side, k) <=> \E m \in k-1 .. n : passes(m)
      BY DEF PerfFrom, passes
    <3>5. PerfFrom(longer, side, k) <=> PerfFrom(tape, side, k) \/ passes(n)
      BY <3>2, <3>3, <3>4
    <3> QED BY <3>5 DEF passes
  <2>5. Perfects(Extreme(Kept(b), side), s, side)
          <=> PassesOver(longer, side, n, k-3) /\ PassesOver(longer, side, n, k-2)
    <3>1. s.ref6 = Extreme(longer[k-3], side) /\ s.ref7 = Extreme(longer[k-2], side)
      BY <2>1, <2>3
    <3>2. Extreme(Kept(b), side) = Extreme(longer[n], side)
      BY <2>2 DEF Extreme, Kept
    <3> QED BY <3>1, <3>2, PerfectsIsPassing
  <2>6. /\ t \in SetupType /\ t.episode = s.episode /\ t.ref6 = s.ref6 /\ t.ref7 = s.ref7
        /\ t.perfected <=> s.perfected \/ late
    <3> HIDE DEF late
    <3>1. t = IF late THEN [s EXCEPT !.perfected = TRUE, !.perfectedAt = index] ELSE s
      BY DEF MarkPerfected
    <3> QED BY <3>1 DEF SetupType
  <2>7. t.perfected <=> PerfFrom(longer, side, k)
    BY <1>2, <2>1, <2>4, <2>5, <2>6
  <2> HIDE DEF t
  <2>8. SetupKept(longer, side, t)
    BY <2>1, <2>3, <2>6, <2>7 DEF SetupKept
  <2> QED BY <2>6, <2>8 DEF t
<1> QED BY <1>1, <1>2

(* A Countdown that waits for the bar, and one that the bar advances.      *)
LEMMA QualifyingNat ==
  ASSUME NEW tape, Len(tape) \in Nat, NEW side, NEW e
  PROVE  IsFiniteSet(Qualifying(tape, side, e)) /\ Cardinality(Qualifying(tape, side, e)) \in Nat
<1>1. Qualifying(tape, side, e) \subseteq 1 .. Len(tape)
  BY DEF Qualifying
<1>2. IsFiniteSet(1 .. Len(tape))
  BY FS_Interval
<1> QED BY <1>1, <1>2, FS_Subset, FS_CardinalityType

LEMMA QualifiesOneMore ==
  ASSUME NEW tape, NEW longer, NEW b, Extends(longer, tape, b), NEW side, NEW e \in Int, e <= b.open
  PROVE  Cardinality(Qualifying(longer, side, e)) =
           Cardinality(Qualifying(tape, side, e)) + IF QualAt(longer, side, Len(longer)) THEN 1 ELSE 0
<1> DEFINE n == Len(longer)
<1>1. Len(tape) \in Nat /\ n = Len(tape) + 1 /\ longer[n] = b
  BY DEF Extends
<1>2. \A m \in 1 .. Len(tape) : longer[m] = tape[m] /\ (QualAt(longer, side, m) <=> QualAt(tape, side, m))
  BY QualLocal DEF Extends
<1>3. Qualifying(longer, side, e) = Qualifying(tape, side, e) \cup (IF QualAt(longer, side, n) THEN {n} ELSE {})
  <2>1. \A m : m \in 1 .. n <=> m \in 1 .. Len(tape) \/ m = n
    BY <1>1
  <2>2. b.open >= e
    BY DEF Extends, BarType
  <2> QED BY <1>1, <1>2, <2>1, <2>2 DEF Qualifying
<1>4. n \notin Qualifying(tape, side, e)
  BY <1>1 DEF Qualifying
<1>5. IsFiniteSet(Qualifying(tape, side, e)) /\ Cardinality(Qualifying(tape, side, e)) \in Nat
  BY <1>1, QualifyingNat
<1>6. CASE QualAt(longer, side, n)
  <2>1. Qualifying(longer, side, e) = Qualifying(tape, side, e) \cup {n}
    BY <1>3, <1>6
  <2> QED BY <1>4, <1>5, <1>6, <2>1, FS_AddElement
<1>7. CASE ~QualAt(longer, side, n)
  <2>1. Qualifying(longer, side, e) = Qualifying(tape, side, e)
    BY <1>3, <1>7
  <2> QED BY <1>5, <1>7, <2>1
<1> QED BY <1>6, <1>7

LEMMA FreshCountdown ==
  ASSUME NEW tape, NEW longer, NEW b, Extends(longer, tape, b), NEW side
  PROVE  LET c == [Idle EXCEPT !.state = "active", !.episode = b.open]
         IN c \in CountdownType /\ CountKept(tape, side, c, b.open)
<1> DEFINE c == [Idle EXCEPT !.state = "active", !.episode = b.open]
<1>1. b.open \in Nat /\ CountdownCount \in Nat /\ 0 < CountdownCount
  BY CountsAssumption DEF Extends, BarType
<1>2. c \in CountdownType /\ c.state = "active" /\ c.count = 0 /\ c.episode = b.open
  <2>1. Idle \in CountdownType /\ Idle.count = 0
    BY DEF Idle, CountdownType, None
  <2>2. PICK i \in CountdownType : i = Idle /\ i.count = 0
    BY <2>1
  <2>3. c = [i EXCEPT !.state = "active", !.episode = b.open]
    BY <2>2
  <2> HIDE DEF c
  <2>4. c = [i EXCEPT !.state = "active", !.episode = b.open] /\ b.open \in Int /\ i \in CountdownType
    BY <1>1, <2>3
  <2>5. c \in CountdownType
    BY <2>4 DEF CountdownType
  <2>6. c.state = "active" /\ c.episode = b.open /\ c.count = i.count
    BY <2>4 DEF CountdownType
  <2> QED BY <2>2, <2>5, <2>6
<1>3. Qualifying(tape, side, b.open) = {}
  <2>1. \A m \in 1 .. Len(tape) : ~(tape[m].open >= b.open)
    BY <1>1 DEF Extends, BarType
  <2> QED BY <2>1 DEF Qualifying
<1>4. Cardinality(Qualifying(tape, side, b.open)) = 0
  BY <1>3, FS_EmptySet
<1> QED BY <1>1, <1>2, <1>4 DEF CountKept

LEMMA QualifiesIsQual ==
  ASSUME NEW tape, NEW longer, NEW b, Extends(longer, tape, b), NEW hist, Remembers(hist, tape),
         NEW side, NEW c
  PROVE  Qualifies(c, side, Kept(b), hist) <=> Unfinished(c) /\ QualAt(longer, side, Len(longer))
<1> DEFINE n == Len(tape)
           h == Len(hist)
<1>1. n \in Nat /\ h \in Nat /\ Len(longer) = n + 1 /\ longer[n + 1] = b /\ Lookback \in Nat /\ Lookback >= 3
  BY CountsAssumption DEF Extends, Remembers
<1>2. h >= 2 <=> n + 1 >= 3
  BY <1>1 DEF Remembers
<1>3. CASE h >= 2
  <2>1. 1 \in Nat /\ 1 < h /\ EndsAlike(hist, tape)
    BY <1>1, <1>3, HistoryEnd
  <2>2. hist[h - 1] = Kept(tape[n - 1]) /\ n - 1 \in 1 .. n
    BY <2>1 DEF EndsAlike
  <2> DEFINE m == n + 1
  <2>3. m - 2 = n - 1 /\ m >= 3 /\ m = Len(longer) /\ longer[m] = b
    BY <1>1, <1>2, <1>3
  <2>4. tape[n - 1] = longer[n - 1]
    BY <2>2 DEF Extends
  <2> HIDE DEF m
  <2>5. hist[h - 1] = Kept(longer[m - 2])
    BY <2>2, <2>3, <2>4
  <2>6. QualAt(longer, side, m) <=> IF side = "buy" THEN Kept(b).C <= hist[h - 1].L ELSE Kept(b).C >= hist[h - 1].H
    <3>1. Kept(b).C = longer[m].C /\ hist[h - 1].L = longer[m - 2].L /\ hist[h - 1].H = longer[m - 2].H
      BY <2>3, <2>5 DEF Kept
    <3>2. QualAt(longer, side, m) <=> IF side = "buy" THEN longer[m].C <= longer[m-2].L ELSE longer[m].C >= longer[m-2].H
      BY <2>3 DEF QualAt
    <3> QED BY <3>1, <3>2, Zenon
  <2>7. Qualifies(c, side, Kept(b), hist) <=>
          Unfinished(c) /\ IF side = "buy" THEN Kept(b).C <= hist[h - 1].L ELSE Kept(b).C >= hist[h - 1].H
    BY <1>3 DEF Qualifies
  <2> QED BY <2>3, <2>6, <2>7
<1>4. CASE ~(h >= 2)
  BY <1>1, <1>2, <1>4 DEF QualAt, Qualifies
<1> QED BY <1>3, <1>4

LEMMA CountsOneMore ==
  ASSUME NEW tape, NEW longer, NEW b, Extends(longer, tape, b), NEW hist, Remembers(hist, tape),
         NEW side, NEW c \in CountdownType, CountKept(tape, side, c, b.open), NEW index \in Int
  PROVE  LET d == AdvanceCountdown(c, side, Kept(b), hist, index)
         IN d \in CountdownType /\ CountKept(longer, side, d, b.open)
<1> DEFINE d == AdvanceCountdown(c, side, Kept(b), hist, index)
           q == QualAt(longer, side, Len(longer))
<1>1. Qualifies(c, side, Kept(b), hist) <=> Unfinished(c) /\ q
  BY QualifiesIsQual
<1>2. /\ CountdownCount \in Nat /\ FirstRef \in Nat /\ DeferRef \in Nat /\ DeferRef < CountdownCount
      /\ c.count \in Nat /\ c.episode \in Int /\ b.open \in Nat /\ Kept(b).C \in Int
  BY CountsAssumption DEF CountdownType, Extends, BarType, Kept
<1>3. c.state = "active" =>
        /\ c.count = Cardinality(Qualifying(tape, side, c.episode)) /\ c.count < CountdownCount
        /\ c.episode <= b.open
        /\ Cardinality(Qualifying(longer, side, c.episode)) = c.count + IF q THEN 1 ELSE 0
  BY <1>2, QualifiesOneMore DEF CountKept
<1>4. c.state = "deferred" => c.count = CountdownCount - 1
  BY DEF CountKept
<1>5. CASE ~Qualifies(c, side, Kept(b), hist)
  <2>1. d = c
    BY <1>5 DEF AdvanceCountdown
  <2>2. c.state = "active" => ~q
    BY <1>1, <1>5 DEF Unfinished
  <2>3. c.state = "active" => c.count = Cardinality(Qualifying(longer, side, c.episode))
    BY <1>2, <1>3, <2>2
  <2>4. CountKept(longer, side, c, b.open)
    BY <1>3, <1>4, <2>3 DEF CountKept
  <2> QED BY <2>1, <2>4
<1>6. CASE Qualifies(c, side, Kept(b), hist) /\ TerminalOK(c, side, Kept(b))
  <2>1. d = Counted(c, Kept(b), index)
    BY <1>6 DEF AdvanceCountdown
  <2>2. /\ d \in CountdownType /\ d.count = c.count + 1 /\ d.episode = c.episode
        /\ d.state = IF c.count + 1 = CountdownCount THEN "completed" ELSE c.state
    <3> DEFINE n  == c.count + 1
               v5 == IF n = FirstRef THEN index ELSE c.bar5
               v8 == IF n = DeferRef THEN index ELSE c.bar8
               vc == IF n = DeferRef THEN Kept(b).C ELSE c.bar8Close
               v13 == IF n = CountdownCount THEN index ELSE c.bar13
               vs == IF n = CountdownCount THEN "completed" ELSE c.state
    <3>1. d = [c EXCEPT !.count = n, !.bar5 = v5, !.bar8 = v8, !.bar8Close = vc, !.bar13 = v13, !.state = vs]
      BY <2>1, Zenon DEF Counted
    <3>2. /\ n \in Nat /\ v5 \in Int /\ v8 \in Int /\ vc \in Int /\ v13 \in Int
          /\ vs \in {"idle", "active", "deferred", "completed"}
      BY <1>2 DEF CountdownType
    <3> HIDE DEF d, n, v5, v8, vc, v13, vs
    <3>3. d \in CountdownType /\ d.count = n /\ d.episode = c.episode /\ d.state = vs
      BY <3>1, <3>2 DEF CountdownType
    <3> QED BY <3>3 DEF n, vs
  <2>3. Unfinished(c) /\ q
    BY <1>1, <1>6
  <2>4. d.state # "deferred"
    BY <1>2, <1>4, <2>2
  <2>5. ASSUME d.state = "active"
        PROVE  /\ d.count = Cardinality(Qualifying(longer, side, d.episode))
               /\ d.count < CountdownCount /\ d.episode <= b.open
    <3>1. c.state = "active" /\ c.count + 1 # CountdownCount
      BY <2>2, <2>5
    <3> QED BY <1>2, <1>3, <2>2, <2>3, <3>1
  <2> HIDE DEF d
  <2>6. CountKept(longer, side, d, b.open)
    BY <2>4, <2>5 DEF CountKept
  <2> QED BY <2>2, <2>6 DEF d
<1>7. CASE Qualifies(c, side, Kept(b), hist) /\ ~TerminalOK(c, side, Kept(b))
  <2>1. d = [c EXCEPT !.state = "deferred"] /\ c.count = CountdownCount - 1
    BY <1>7 DEF AdvanceCountdown, TerminalOK
  <2>2. d \in CountdownType /\ d.state = "deferred" /\ d.count = CountdownCount - 1
    BY <2>1 DEF CountdownType
  <2> HIDE DEF d
  <2>3. CountKept(longer, side, d, b.open)
    BY <2>2 DEF CountKept
  <2> QED BY <2>2, <2>3 DEF d
<1> QED BY <1>5, <1>6, <1>7

LEMMA IdleKept == ASSUME NEW tape, NEW side, NEW t PROVE Idle \in CountdownType /\ CountKept(tape, side, Idle, t)
BY DEF Idle, CountdownType, CountKept, None

(* The Setup phase of a side.                                              *)
LEMMA SetupsOneMore ==
  ASSUME NEW tape, NEW longer, NEW b, Extends(longer, tape, b), LastOpen(tape) <= b.open, LastOpen(tape) \in Int,
         NEW hist, Remembers(hist, tape), NEW side \in Side, NEW s, SideKept(tape, side, s),
         NEW r \in Nat, RunKept(longer, side, r), NEW index \in Int
  PROVE  LET t == SetupPhase(s, side, Kept(b), hist, r, index)
         IN /\ t \in SideType /\ t.run = r /\ SetupKept(longer, side, t.setup)
            /\ CountKept(tape, side, t.countdown, b.open)
<1> DEFINE t == SetupPhase(s, side, Kept(b), hist, r, index)
           h     == Len(hist)
           blank == [episode |-> Kept(b).open, index |-> index, perfected |-> FALSE,
                     ref6 |-> Extreme(hist[h-2], side), ref7 |-> Extreme(hist[h-1], side),
                     perfectedAt |-> None]
           now   == Perfects(Extreme(hist[h], side), blank, side) \/ Perfects(Extreme(Kept(b), side), blank, side)
           new   == IF now THEN MarkPerfected(blank, index) ELSE blank
           late  == s.setup # NoSetup /\ ~s.setup.perfected /\ Perfects(Extreme(Kept(b), side), s.setup, side)
           old   == IF late THEN MarkPerfected(s.setup, index) ELSE s.setup
           start == [Idle EXCEPT !.state = "active", !.episode = Kept(b).open]
           count == IF Unfinished(s.countdown) THEN s.countdown ELSE start
<1>1. s \in SideType /\ s.setup \in SetupType /\ s.countdown \in CountdownType
  BY DEF SideKept, SideType
<1>2. Kept(b).open = b.open /\ b.open \in Nat
  BY DEF Kept, Extends, BarType
<1>3. SetupCount \in Nat \ {0}
  BY CountsAssumption
<1>4. CountKept(tape, side, s.countdown, b.open)
  <2>1. CountKept(tape, side, s.countdown, LastOpen(tape)) /\ s.countdown.episode \in Int
    BY <1>1 DEF SideKept, CountdownType
  <2> QED BY <1>2, <2>1 DEF CountKept
<1>5. start \in CountdownType /\ CountKept(tape, side, start, b.open)
  BY <1>2, FreshCountdown
<1>6. CASE r = SetupCount
  <2>1. t = [s EXCEPT !.run = r, !.setup = new, !.countdown = count]
    BY <1>6, Zenon DEF SetupPhase
  <2>2. new \in SetupType /\ SetupKept(longer, side, new)
    BY <1>2, <1>3, <1>6, NewSetup
  <2>3. count \in CountdownType /\ CountKept(tape, side, count, b.open)
    BY <1>1, <1>4, <1>5
  <2> HIDE DEF t, new, count
  <2>4. t \in SideType /\ t.run = r /\ t.setup = new /\ t.countdown = count
    BY <1>1, <2>1, <2>2, <2>3 DEF SideType
  <2>5. SetupKept(longer, side, t.setup) /\ CountKept(tape, side, t.countdown, b.open)
    BY <2>2, <2>3, <2>4
  <2> QED BY <2>4, <2>5 DEF t
<1>7. CASE r # SetupCount
  <2>1. t = [s EXCEPT !.run = r, !.setup = old]
    BY <1>7, Zenon DEF SetupPhase
  <2>2. SetupKept(tape, side, s.setup)
    BY DEF SideKept
  <2>3. old \in SetupType /\ SetupKept(longer, side, old)
    BY <1>1, <2>2, OldSetup
  <2> HIDE DEF t, old
  <2>4. t \in SideType /\ t.run = r /\ t.setup = old /\ t.countdown = s.countdown
    BY <1>1, <2>1, <2>3 DEF SideType
  <2>5. SetupKept(longer, side, t.setup) /\ CountKept(tape, side, t.countdown, b.open)
    BY <1>4, <2>3, <2>4
  <2> QED BY <2>4, <2>5 DEF t
<1> QED BY <1>6, <1>7

(* What is left of a side when its Countdown was cancelled or recycled.    *)
AnyEnd(tape, longer, b, hist, side, index, t) ==
  \A u, c :
    /\ u = t \/ u = [t EXCEPT !.countdown = Idle]
    /\ c = Idle \/ c = AdvanceCountdown(u.countdown, side, Kept(b), hist, index)
    => SideKept(longer, side, [u EXCEPT !.countdown = c])

LEMMA SideOneMore ==
  ASSUME NEW tape, NEW longer, NEW b, Extends(longer, tape, b), LastOpen(longer) = b.open,
         NEW hist, Remembers(hist, tape), NEW side \in Side, NEW index \in Int,
         NEW t \in SideType, RunKept(longer, side, t.run), SetupKept(longer, side, t.setup),
         CountKept(tape, side, t.countdown, b.open)
  PROVE  AnyEnd(tape, longer, b, hist, side, index, t)
<1> SUFFICES ASSUME NEW u, NEW c, u = t \/ u = [t EXCEPT !.countdown = Idle],
                    c = Idle \/ c = AdvanceCountdown(u.countdown, side, Kept(b), hist, index)
             PROVE  SideKept(longer, side, [u EXCEPT !.countdown = c])
  BY DEF AnyEnd
<1>1. Idle \in CountdownType /\ \A tp, x, at : CountKept(tp, x, Idle, at)
  BY IdleKept
<1>2. u \in SideType /\ u.run = t.run /\ u.setup = t.setup /\ (u.countdown = t.countdown \/ u.countdown = Idle)
  BY <1>1 DEF SideType
<1>3. u.countdown \in CountdownType /\ CountKept(tape, side, u.countdown, b.open)
  BY <1>1, <1>2 DEF SideType
<1>4. c \in CountdownType /\ CountKept(longer, side, c, b.open)
  BY <1>1, <1>3, CountsOneMore
<1> DEFINE v == [u EXCEPT !.countdown = c]
<1>5. v \in SideType /\ v.run = t.run /\ v.setup = t.setup /\ v.countdown = c
  BY <1>2, <1>4 DEF SideType
<1> HIDE DEF v
<1>6. SideKept(longer, side, v)
  BY <1>4, <1>5 DEF SideKept
<1> QED BY <1>6 DEF v

(* The sides after a bar: the phases of Advance, one after the other.      *)
NextSides(hist, prev, s0, kept, index) ==
  LET cmp == Comparison(kept, hist)
      s1  == [x \in Side |->
                SetupPhase(s0[x], x, kept, hist, NextRun(s0[x].run, Direction(x), cmp, prev), index)]
      s2  == [x \in Side |-> IF Cancels(s1, x) THEN [s1[x] EXCEPT !.countdown = Idle] ELSE s1[x]]
      c3  == [x \in Side |-> AdvanceCountdown(s2[x].countdown, x, kept, hist, index)]
  IN [x \in Side |-> [s2[x] EXCEPT !.countdown = IF Recycles(s2[x], c3[x]) THEN Idle ELSE c3[x]]]

LEMMA SegmentOneMore ==
  ASSUME NEW tape, NEW hist, NEW prev, NEW s0, Segment(tape, hist, prev, s0),
         NEW b \in BarType, LastOpen(tape) < b.open, NEW index \in Int
  PROVE  Segment(Append(tape, b), KeepHistory(hist, Kept(b)), Comparison(Kept(b), hist),
                 NextSides(hist, prev, s0, Kept(b), index))
<1> DEFINE longer == Append(tape, b)
           cmp == Comparison(Kept(b), hist)
           r(x) == NextRun(s0[x].run, Direction(x), cmp, prev)
           s1  == [x \in Side |-> SetupPhase(s0[x], x, Kept(b), hist, r(x), index)]
           s2  == [x \in Side |-> IF Cancels(s1, x) THEN [s1[x] EXCEPT !.countdown = Idle] ELSE s1[x]]
           c3  == [x \in Side |-> AdvanceCountdown(s2[x].countdown, x, Kept(b), hist, index)]
           end == [x \in Side |-> [s2[x] EXCEPT !.countdown = IF Recycles(s2[x], c3[x]) THEN Idle ELSE c3[x]]]
<1>1. /\ Tape(tape) /\ Remembers(hist, tape) /\ prev = CompAt(tape, Len(tape))
      /\ \A x \in Side : SideKept(tape, x, s0[x])
  BY DEF Segment
<1>2. Extends(longer, tape, b) /\ LastOpen(longer) = b.open /\ Tape(longer)
  BY <1>1, Longer DEF Extends
<1>3. LastOpen(tape) \in Int /\ LastOpen(tape) <= b.open
  <2>1. CASE tape = <<>>
    BY <2>1 DEF LastOpen, None, BarType
  <2>2. CASE tape # <<>>
    <3>1. Len(tape) \in 1 .. Len(tape)
      BY <1>1, <2>2 DEF Tape
    <3>2. tape[Len(tape)] \in BarType
      BY <3>1, <1>2 DEF Extends
    <3> QED BY <2>2, <3>2 DEF LastOpen, BarType
  <2> QED BY <2>1, <2>2
<1> HIDE DEF longer
<1>4. Remembers(KeepHistory(hist, Kept(b)), longer)
  BY <1>1, <1>2, RemembersOneMore
<1>5. cmp = CompAt(longer, Len(longer))
  BY <1>1, <1>2, ComparesOneMore
<1>6. ASSUME NEW x \in Side PROVE r(x) \in Nat /\ RunKept(longer, x, r(x))
  <2>1. s0[x].run \in Nat /\ RunKept(tape, x, s0[x].run)
    BY <1>1 DEF SideKept, SideType
  <2> QED BY <1>1, <1>2, <1>5, <2>1, RunsOneMore
<1> HIDE DEF cmp, r
<1>7. ASSUME NEW x \in Side
      PROVE  /\ s1[x] \in SideType /\ RunKept(longer, x, s1[x].run) /\ SetupKept(longer, x, s1[x].setup)
             /\ CountKept(tape, x, s1[x].countdown, b.open)
  <2> DEFINE t == SetupPhase(s0[x], x, Kept(b), hist, r(x), index)
  <2>1. SideKept(tape, x, s0[x]) /\ r(x) \in Nat /\ RunKept(longer, x, r(x))
    BY <1>1, <1>6
  <2>2. /\ t \in SideType /\ t.run = r(x) /\ SetupKept(longer, x, t.setup)
        /\ CountKept(tape, x, t.countdown, b.open)
    BY <1>1, <1>2, <1>3, <2>1, SetupsOneMore
  <2>3. s1[x] = t
    OBVIOUS
  <2> HIDE DEF t, s1
  <2> QED BY <2>1, <2>2, <2>3
<1> HIDE DEF s1
<1>8. ASSUME NEW x \in Side PROVE SideKept(longer, x, end[x])
  <2> DEFINE u == s2[x]
             c == IF Recycles(s2[x], c3[x]) THEN Idle ELSE c3[x]
  <2>1. u = s1[x] \/ u = [s1[x] EXCEPT !.countdown = Idle]
    OBVIOUS
  <2>2. c = Idle \/ c = AdvanceCountdown(u.countdown, x, Kept(b), hist, index)
    BY DEF c3
  <2>3. end[x] = [u EXCEPT !.countdown = c]
    OBVIOUS
  <2> HIDE DEF u, c, end
  <2> DEFINE t == s1[x]
  <2>5. /\ t \in SideType /\ RunKept(longer, x, t.run) /\ SetupKept(longer, x, t.setup)
        /\ CountKept(tape, x, t.countdown, b.open)
        /\ u = t \/ u = [t EXCEPT !.countdown = Idle]
        /\ Extends(longer, tape, b) /\ LastOpen(longer) = b.open /\ Remembers(hist, tape)
    BY <1>1, <1>2, <1>7, <2>1
  <2> HIDE DEF t
  <2>6. AnyEnd(tape, longer, b, hist, x, index, t)
    BY <2>5, SideOneMore
  <2>4. SideKept(longer, x, [u EXCEPT !.countdown = c])
    BY <2>2, <2>5, <2>6, Zenon DEF AnyEnd
  <2> QED BY <2>3, <2>4
<1>9. DOMAIN end = Side
  OBVIOUS
<1> HIDE DEF end
<1>10. Segment(longer, KeepHistory(hist, Kept(b)), cmp, end)
  BY <1>2, <1>4, <1>5, <1>8, <1>9 DEF Segment
<1> QED BY <1>10 DEF longer, cmp, end, s1, r, NextSides

(* A data gap leaves the core as it starts.                                *)
LEMMA EmptySegment ==
  ASSUME NEW ss, DOMAIN ss = Side,
         \A x \in Side : /\ ss[x] \in SideType /\ ss[x].run = 0 /\ ss[x].setup = NoSetup
                         /\ ~Unfinished(ss[x].countdown)
  PROVE  Segment(<<>>, <<>>, 0, ss)
<1>1. <<>> \in Seq(BarType) /\ <<>> \in Seq(KeptType) /\ Len(<<>>) = 0
  OBVIOUS
<1>2. Tape(<<>>) /\ Remembers(<<>>, <<>>)
  BY <1>1, CountsAssumption DEF Tape, Remembers
<1>3. CompAt(<<>>, 0) = 0
  BY CountsAssumption DEF CompAt
<1>4. ASSUME NEW x \in Side PROVE SideKept(<<>>, x, ss[x])
  <2>1. RunKept(<<>>, x, 0)
    BY <1>1 DEF RunKept
  <2>2. SetupKept(<<>>, x, NoSetup)
    BY DEF SetupKept
  <2>3. CountKept(<<>>, x, ss[x].countdown, LastOpen(<<>>))
    BY DEF CountKept, Unfinished
  <2> QED BY <2>1, <2>2, <2>3 DEF SideKept
<1> QED BY <1>1, <1>2, <1>3, <1>4 DEF Segment

LEMMA DropsAll ==
  ASSUME NEW s \in SideType
  PROVE  /\ DropGap(s) \in SideType /\ DropGap(s).run = 0 /\ DropGap(s).setup = NoSetup
         /\ ~Unfinished(DropGap(s).countdown)
<1> DEFINE c == IF Unfinished(s.countdown) THEN Idle ELSE s.countdown
<1>1. Idle \in CountdownType /\ ~Unfinished(Idle) /\ NoSetup \in SetupType
  BY DEF Idle, CountdownType, None, Unfinished, NoSetup, SetupType
<1>2. c \in CountdownType /\ ~Unfinished(c)
  BY <1>1 DEF SideType
<1>3. DropGap(s) = [s EXCEPT !.run = 0, !.setup = NoSetup, !.countdown = c]
  BY DEF DropGap
<1> DEFINE d == DropGap(s)
<1>4. d = [s EXCEPT !.run = 0, !.setup = NoSetup, !.countdown = c]
  BY <1>3
<1> HIDE DEF c, d
<1>5. d \in SideType
  BY <1>1, <1>2, <1>4 DEF SideType
<1>6. d.run = 0 /\ d.setup = NoSetup /\ d.countdown = c
  BY <1>4 DEF SideType
<1> QED BY <1>2, <1>5, <1>6 DEF d

(* step of the core, over the bars of its segment.                         *)
CoreKept ==
  /\ lastIndex \in Int /\ lastOpen = LastOpen(bars)
  /\ Segment(bars, history, previousComparison, sides)

LEMMA AdvanceKept ==
  ASSUME CoreKept, NEW candle \in [O : Nat, H : Nat, L : Nat, C : Nat], NEW open \in Nat, NEW declared,
         lastOpen # None => open > lastOpen, Advance(candle, open, declared),
         bars' = Append(IF IsGap(open, declared) THEN <<>> ELSE bars, Stamped(candle, open))
  PROVE  CoreKept'
<1> DEFINE kept == [H |-> candle.H, L |-> candle.L, C |-> candle.C, open |-> open]
           gap  == IsGap(open, declared)
           tape == IF gap THEN <<>> ELSE bars
           hist == IF gap THEN <<>> ELSE history
           prev == IF gap THEN 0 ELSE previousComparison
           s0   == IF gap THEN [x \in Side |-> DropGap(sides[x])] ELSE sides
           b    == Stamped(candle, open)
<1>1. /\ history' = KeepHistory(hist, kept) /\ previousComparison' = Comparison(kept, hist)
      /\ lastOpen' = open /\ lastIndex' = lastIndex + 1
      /\ sides' = NextSides(hist, prev, s0, kept, lastIndex + 1)
  BY Zenon DEF Advance, NextSides
<1>2. b \in BarType /\ b.open = open /\ Kept(b) = kept
  BY DEF Stamped, BarType, Kept
<1>3. Segment(tape, hist, prev, s0)
  <2>1. CASE gap
    <3> DEFINE ss == [x \in Side |-> DropGap(sides[x])]
    <3>1. \A x \in Side : sides[x] \in SideType
      BY DEF CoreKept, Segment, SideKept
    <3>2. \A x \in Side : /\ ss[x] \in SideType /\ ss[x].run = 0 /\ ss[x].setup = NoSetup
                          /\ ~Unfinished(ss[x].countdown)
      BY <3>1, DropsAll
    <3>3. DOMAIN ss = Side
      OBVIOUS
    <3> HIDE DEF ss
    <3>4. Segment(<<>>, <<>>, 0, ss)
      BY <3>2, <3>3, EmptySegment
    <3> QED BY <2>1, <3>4 DEF ss
  <2>2. CASE ~gap
    BY <2>2 DEF CoreKept
  <2> QED BY <2>1, <2>2
<1>4. LastOpen(tape) < open
  <2>1. CASE tape = <<>>
    BY <2>1 DEF LastOpen, None
  <2>2. CASE tape # <<>>
    <3>1. tape = bars /\ lastOpen = bars[Len(bars)].open
      BY <2>2 DEF CoreKept, LastOpen
    <3>2. Len(bars) \in 1 .. Len(bars)
      BY <2>2, <3>1 DEF CoreKept, Segment, Tape
    <3>3. bars[Len(bars)] \in BarType
      BY <3>2 DEF CoreKept, Segment, Tape
    <3>4. lastOpen \in Nat
      BY <3>1, <3>3 DEF BarType
    <3> QED BY <2>2, <3>1, <3>4 DEF LastOpen, None
  <2> QED BY <2>1, <2>2
<1>5. bars' = Append(tape, b) /\ lastIndex + 1 \in Int
  BY DEF CoreKept
<1> HIDE DEF kept, gap, tape, hist, prev, s0, b
<1>6. Segment(bars', history', previousComparison', sides')
  <2>1. LastOpen(tape) < b.open
    BY <1>2, <1>4
  <2> DEFINE index == lastIndex + 1
  <2>2. index \in Int
    BY <1>5
  <2>3. sides' = NextSides(hist, prev, s0, kept, index)
    BY <1>1
  <2> HIDE DEF index
  <2>4. Segment(Append(tape, b), KeepHistory(hist, Kept(b)), Comparison(Kept(b), hist),
                NextSides(hist, prev, s0, Kept(b), index))
    BY <1>2, <1>3, <2>1, <2>2, SegmentOneMore
  <2> QED BY <1>1, <1>2, <1>5, <2>3, <2>4
<1>7. LastOpen(bars') = open
  <2>1. LastOpen(tape) < b.open /\ Tape(tape) /\ b \in BarType
    BY <1>2, <1>3, <1>4 DEF Segment
  <2>2. LastOpen(Append(tape, b)) = b.open
    BY <2>1, Longer
  <2> QED BY <1>2, <1>5, <2>2
<1> QED BY <1>1, <1>5, <1>6, <1>7 DEF CoreKept

(* What a bar of a request is: the next of its open times, and a hole of   *)
(* the stream exactly when the scheduler steps across one.                 *)
Played ==
  /\ ask \in Asks
  /\ phase = "asked" => bars = <<>>
  /\ phase = "running" =>
       /\ Len(bars) <= Len(ask.opens)
       /\ bars # <<>> => bars[Len(bars)].open = ask.opens[Len(bars)]

SequentialKept == CoreKept /\ Played

LEMMA SequentialInitKept == SequentialInit => SequentialKept
<1> SUFFICES ASSUME SequentialInit PROVE SequentialKept
  OBVIOUS
<1>1. /\ lastIndex = -1 /\ lastOpen = None /\ bars = <<>> /\ history = <<>> /\ previousComparison = 0
      /\ sides = [side \in Side |-> Fresh] /\ ask \in Asks /\ phase \in {"core", "asked"}
  BY DEF SequentialInit, Init
<1>2. Fresh \in SideType /\ Fresh.run = 0 /\ Fresh.setup = NoSetup /\ ~Unfinished(Fresh.countdown)
  BY DEF Fresh, SideType, SetupType, CountdownType, NoSetup, Idle, None, Unfinished
<1>3. Segment(<<>>, <<>>, 0, sides)
  <2>1. DOMAIN sides = Side /\ \A x \in Side : sides[x] = Fresh
    BY <1>1
  <2> QED BY <1>2, <2>1, EmptySegment
<1> QED BY <1>1, <1>3 DEF SequentialKept, CoreKept, Played, LastOpen

LEMMA AppendedKept ==
  ASSUME CoreKept, NEW candle \in [O : Nat, H : Nat, L : Nat, C : Nat], NEW open \in Nat, NEW declared,
         lastOpen # None => open > lastOpen, Advance(candle, open, declared),
         ~IsGap(open, declared), bars' = Append(bars, Stamped(candle, open))
  PROVE  CoreKept'
<1>1. bars' = Append(IF IsGap(open, declared) THEN <<>> ELSE bars, Stamped(candle, open))
  OBVIOUS
<1> QED BY <1>1, AdvanceKept

LEMMA CoreStepKept ==
  ASSUME SequentialKept, CoreCalled, CoreStep \/ CoreStepAfterClosure
  PROVE  SequentialKept'
<1>1. CoreKept /\ Played /\ ask \in Asks /\ ask' = ask /\ phase' = phase /\ phase = "core"
  BY DEF SequentialKept, Played, CoreCalled
<1>2. Played'
  BY <1>1 DEF Played
<1>3. PICK candle \in Offered, open \in NextOpens :
        \/ /\ Step(candle, open)
           /\ bars' = Append(IF IsGap(open, FALSE) THEN <<>> ELSE bars, Stamped(candle, open))
        \/ /\ StepAfterClosure(candle, open)
           /\ bars' = Append(bars, Stamped(candle, open))
  BY Zenon DEF CoreStep, CoreStepAfterClosure
<1>4. candle \in [O : Nat, H : Nat, L : Nat, C : Nat]
  <2>1. ask.market \in Seq(SUBSET [O : Nat, H : Nat, L : Nat, C : Nat])
    BY <1>1, SequentialAssumption
  <2> QED BY <2>1 DEF Offered
<1>5. lastOpen = None \/ lastOpen \in Nat
  <2>1. CASE bars = <<>>
    BY <1>1, <2>1 DEF CoreKept, LastOpen
  <2>2. CASE bars # <<>>
    <3>1. Len(bars) \in 1 .. Len(bars) /\ bars \in Seq(BarType)
      BY <1>1, <2>2 DEF CoreKept, Segment, Tape
    <3>2. bars[Len(bars)] \in BarType
      BY <3>1
    <3> QED BY <1>1, <2>2, <3>2 DEF CoreKept, LastOpen, BarType
  <2> QED BY <2>1, <2>2
<1>6. (lastOpen # None => open > lastOpen) /\ open \in Nat
  <2>1. CASE lastOpen = None
    BY <2>1 DEF NextOpens, FirstOpen
  <2>2. CASE lastOpen # None
    <3>1. PICK d \in Offsets : open = lastOpen + d
      BY <2>2 DEF NextOpens
    <3>2. d \in Int /\ lastOpen \in Nat /\ Timeframe \in Nat
      BY <1>5, <2>2, <3>1, CountsAssumption
    <3>3. open > lastOpen \/ open > lastOpen + Timeframe
      BY <1>3, <2>2 DEF Step, StepAfterClosure
    <3> QED BY <3>1, <3>2, <3>3
  <2> QED BY <2>1, <2>2
<1>8. CASE Step(candle, open) /\ bars' = Append(IF IsGap(open, FALSE) THEN <<>> ELSE bars, Stamped(candle, open))
  <2>1. Advance(candle, open, FALSE)
    BY <1>8 DEF Step
  <2>2. CoreKept'
    BY <1>1, <1>4, <1>6, <1>8, <2>1, AdvanceKept
  <2> QED BY <1>2, <2>2 DEF SequentialKept
<1>9. CASE StepAfterClosure(candle, open) /\ bars' = Append(bars, Stamped(candle, open))
  <2>1. Advance(candle, open, TRUE) /\ ~IsGap(open, TRUE)
    BY <1>9 DEF StepAfterClosure, IsGap
  <2>2. CoreKept'
    BY <1>1, <1>4, <1>6, <1>9, <2>1, AppendedKept
  <2> QED BY <1>2, <2>2 DEF SequentialKept
<1> QED BY <1>3, <1>8, <1>9

(* The bar that comes next is no gap: the scheduler declares every hole.    *)
LEMMA NextBar ==
  ASSUME SequentialKept, Observe
  PROVE  LET n    == Len(bars) + 1
             open == ask.opens[n]
             hole == Hole(ask, n)
         IN /\ n \in 1 .. Len(ask.opens) /\ open \in Nat
            /\ lastOpen # None => open > lastOpen
            /\ ~IsGap(open, hole)
            /\ run.refusal = "" /\ ~run.ended
            /\ \E candle \in [O : Nat, H : Nat, L : Nat, C : Nat] :
                 /\ Advance(candle, open, hole)
                 /\ bars' = Append(bars, Stamped(candle, open))
                 /\ run' = Observed(run, bars', Len(bars'), events')
<1> DEFINE n == Len(bars) + 1
           open == ask.opens[n]
           hole == Hole(ask, n)
<1>1. CoreKept /\ Played /\ ask \in Asks /\ phase = "running" /\ ask' = ask /\ phase' = phase
  BY DEF SequentialKept, Played, Observe
<1>2. PICK candle \in ask.market[n] :
        /\ IF hole THEN StepAfterClosure(candle, open) ELSE Step(candle, open)
        /\ bars' = Append(bars, Stamped(candle, open))
        /\ run' = Observed(run, bars', Len(bars'), events')
        /\ run.refusal = "" /\ ~run.ended
  BY Zenon DEF Observe, Bar
<1>3. bars \in Seq(BarType) /\ Len(bars) \in Nat
  BY <1>1 DEF CoreKept, Segment, Tape
<1>4. /\ ask.opens \in Seq(Nat)
      /\ ask.market \in Seq(SUBSET [O : Nat, H : Nat, L : Nat, C : Nat])
      /\ Len(ask.opens) <= Len(ask.market) /\ StepTime = Timeframe
  BY <1>1, SequentialAssumption
<1>5. n \in 1 .. Len(ask.opens) /\ n \in 1 .. Len(ask.market)
  <2>1. Len(ask.opens) \in Nat /\ Len(ask.market) \in Nat
    BY <1>4
  <2>2. Len(bars) < Len(ask.opens)
    BY DEF Observe
  <2> QED BY <1>3, <1>4, <2>1, <2>2
<1>6. open \in Nat /\ candle \in [O : Nat, H : Nat, L : Nat, C : Nat]
  <2>1. open \in Nat
    BY <1>4, <1>5
  <2>2. ask.market[n] \in SUBSET [O : Nat, H : Nat, L : Nat, C : Nat]
    BY <1>4, <1>5
  <2>3. candle \in ask.market[n]
    OBVIOUS
  <2> HIDE DEF n, open, hole
  <2> QED BY <2>1, <2>2, <2>3
<1>7. /\ Advance(candle, open, hole)
      /\ lastOpen # None => open > lastOpen
  <2>0. hole \in BOOLEAN
    BY DEF Hole
  <2>1. CASE hole
    <3>1. hole = TRUE
      BY <2>0, <2>1
    <3>2. StepAfterClosure(candle, open)
      BY <1>2, <2>1
    <3> HIDE DEF n, open, hole
    <3>3. Advance(candle, open, TRUE) /\ lastOpen # None /\ open > lastOpen + Timeframe
      BY <3>2 DEF StepAfterClosure
    <3>4. Advance(candle, open, hole)
      BY <3>1, <3>3
    <3>5. lastOpen \in Nat
      <4>1. bars # <<>> /\ lastOpen = bars[Len(bars)].open
        BY <1>1, <3>3 DEF CoreKept, LastOpen
      <4>2. Len(bars) \in 1 .. Len(bars)
        BY <1>3, <4>1
      <4>3. bars[Len(bars)] \in BarType
        BY <1>3, <4>2
      <4> QED BY <4>1, <4>3 DEF BarType
    <3> QED BY <1>6, <3>3, <3>4, <3>5, CountsAssumption
  <2>2. CASE ~hole
    <3>1. hole = FALSE
      BY <2>0, <2>2
    <3>2. Step(candle, open)
      BY <1>2, <2>2
    <3> HIDE DEF n, open, hole
    <3>3. Advance(candle, open, FALSE) /\ (lastOpen # None => open > lastOpen)
      BY <3>2 DEF Step
    <3> QED BY <3>1, <3>3
  <2> QED BY <2>1, <2>2
<1>8. ~IsGap(open, hole)
  <2> SUFFICES ASSUME ~hole, lastOpen # None, open > lastOpen + Timeframe PROVE FALSE
    BY DEF IsGap
  <2>1. bars # <<>> /\ lastOpen = ask.opens[Len(bars)] /\ Len(bars) \in 1 .. Len(ask.opens)
    <3>1. bars # <<>> /\ lastOpen = bars[Len(bars)].open
      BY <1>1 DEF CoreKept, LastOpen
    <3> QED BY <1>1, <1>3, <3>1 DEF Played
  <2>2. n > 1 /\ n - 1 = Len(bars)
    BY <1>3, <2>1
  <2>3. ask.opens[Len(bars)] \in Nat
    BY <1>4, <2>1
  <2>4. Spacing(ask, n) = open - ask.opens[Len(bars)] /\ StepTime \in Nat /\ open \in Nat
    BY <1>4, <1>6, <2>2, CountsAssumption DEF Spacing
  <2>5. open - ask.opens[Len(bars)] <= StepTime
    BY <2>2, <2>3, <2>4 DEF Hole
  <2> HIDE DEF n, open, hole
  <2> QED BY <1>4, <2>1, <2>3, <2>4, <2>5
<1> HIDE DEF n, open, hole
<1> QED BY <1>2, <1>5, <1>6, <1>7, <1>8 DEF n, open, hole

LEMMA ObserveKept == ASSUME SequentialKept, Observe PROVE SequentialKept'
<1> DEFINE n    == Len(bars) + 1
           open == ask.opens[n]
           hole == Hole(ask, n)
<1>1. CoreKept /\ Played /\ ask \in Asks /\ phase = "running" /\ ask' = ask /\ phase' = phase
  BY DEF SequentialKept, Played, Observe
<1>2. /\ n \in 1 .. Len(ask.opens) /\ open \in Nat
      /\ lastOpen # None => open > lastOpen
      /\ ~IsGap(open, hole)
  BY NextBar
<1>3. PICK candle \in [O : Nat, H : Nat, L : Nat, C : Nat] :
        Advance(candle, open, hole) /\ bars' = Append(bars, Stamped(candle, open))
  BY NextBar
<1>4. bars \in Seq(BarType) /\ Len(bars) \in Nat
  BY <1>1 DEF CoreKept, Segment, Tape
<1>5. Played'
  <2>1. Len(bars') = n /\ bars'[n] = Stamped(candle, open)
    <3> DEFINE b == Stamped(candle, open)
    <3>1. b \in BarType
      BY <1>2, <1>3 DEF Stamped, BarType
    <3> HIDE DEF b
    <3>2. bars' = Append(bars, b)
      BY <1>3 DEF b
    <3>3. Len(bars') = n /\ bars'[n] = b
      BY <1>4, <3>1, <3>2
    <3> QED BY <3>3 DEF b
  <2>2. bars'[n].open = open
    BY <2>1 DEF Stamped
  <2> QED BY <1>1, <1>2, <2>1, <2>2 DEF Played
<1> HIDE DEF n, open, hole
<1>6. CoreKept'
  BY <1>1, <1>2, <1>3, AppendedKept
<1> QED BY <1>5, <1>6 DEF SequentialKept

(* The other steps leave what the core keeps and the bars.                  *)
LEMMA QuietKept ==
  ASSUME SequentialKept, ask' = ask, bars' = bars,
         UNCHANGED <<lastIndex, lastOpen, history, previousComparison, sides>>,
         phase' = "running" => phase \in {"asked", "running"},
         phase' = "asked" => phase = "asked"
  PROVE  SequentialKept'
<1>1. CoreKept'
  BY DEF SequentialKept, CoreKept
<1>2. Played'
  <2>1. phase = "asked" => bars = <<>> /\ Len(bars) = 0 /\ Len(ask.opens) \in Nat
    BY SequentialAssumption DEF SequentialKept, Played
  <2> QED BY <2>1 DEF SequentialKept, Played
<1> QED BY <1>1, <1>2 DEF SequentialKept

LEMMA SequentialStepKept == SequentialKept /\ [SequentialNext]_allVars => SequentialKept'
<1> SUFFICES ASSUME SequentialKept, [SequentialNext]_allVars PROVE SequentialKept'
  OBVIOUS
<1>1. CASE CoreCalled
  <2>1. CASE CoreStep \/ CoreStepAfterClosure
    BY <1>1, <2>1, CoreStepKept
  <2>2. CASE CoreOther
    <3>1. ask' = ask /\ phase' = phase /\ bars' = bars
      BY <1>1, <2>2 DEF CoreCalled, CoreOther
    <3>2. UNCHANGED <<lastIndex, lastOpen, history, previousComparison, sides>>
      BY <2>2 DEF CoreOther, RefuseOrder, Restore, RefuseExhausted, vars
    <3> QED BY <3>1, <3>2, QuietKept
  <2> QED BY <1>1, <2>1, <2>2 DEF CoreCalled
<1>2. CASE Refuse
  BY <1>2, QuietKept DEF Refuse, schedulerVars, vars
<1>3. CASE Start
  BY <1>3, QuietKept DEF Start, schedulerVars, vars
<1>4. CASE Observe
  BY <1>4, ObserveKept
<1>5. CASE BarsEnd
  BY <1>5, QuietKept DEF BarsEnd, End, schedulerVars, vars
<1>6. CASE Answer
  BY <1>6, QuietKept DEF Answer, schedulerVars, vars
<1>7. CASE Done \/ UNCHANGED allVars
  BY <1>7, QuietKept DEF Done, allVars, schedulerVars, vars
<1> QED BY <1>1, <1>2, <1>3, <1>4, <1>5, <1>6, <1>7 DEF SequentialNext

-------------------------------------------------------------------------------
(* What the core keeps is what the property defines.                       *)
LEMMA RunIsUnique ==
  ASSUME NEW tape, Tape(tape), NEW side \in Side, NEW k \in Nat, NEW r \in Nat, k > 0, r > 0, k < r,
         RunEnds(tape, side, k), RunEnds(tape, side, r)
  PROVE  FALSE
<1> DEFINE n == Len(tape)
           m == n - k
<1>1. n \in Nat /\ k < n /\ r < n
  BY DEF Tape, RunEnds
<1>2. CompAt(tape, m) = -Direction(side)
  BY DEF RunEnds
<1>3. m \in n - r + 1 .. n
  BY <1>1
<1>4. CompAt(tape, m) = Direction(side)
  BY <1>3 DEF RunEnds
<1> QED BY <1>2, <1>4 DEF Direction

LEMMA RunOfKept == ASSUME Tape(bars), NEW side \in Side, NEW r \in Nat, RunKept(bars, side, r) PROVE RunOf(side) = r
<1> DEFINE ks == {k \in 1 .. Len(bars) : EndsWithRun(side, k)}
<1>1. \A k : EndsWithRun(side, k) <=> RunEnds(bars, side, k)
  BY DEF EndsWithRun, RunEnds, ComparisonAt, CompAt
<1>2. RunOf(side) = IF ks = {} THEN 0 ELSE CHOOSE k \in ks : TRUE
  BY Zenon DEF RunOf
<1>3. Len(bars) \in Nat
  BY DEF Tape
<1>4. CASE r = 0
  <2>1. ks = {}
    BY <1>1, <1>4 DEF RunKept
  <2> QED BY <1>2, <1>4, <2>1
<1>5. CASE r > 0
  <2>1. RunEnds(bars, side, r)
    BY <1>5 DEF RunKept
  <2>2. r \in ks
    <3>1. r < Len(bars)
      BY <2>1 DEF RunEnds
    <3> QED BY <1>1, <1>3, <1>5, <2>1, <3>1
  <2>3. ASSUME NEW k \in ks PROVE k = r
    <3>1. k \in Nat /\ k > 0 /\ RunEnds(bars, side, k)
      BY <1>1, <1>3
    <3>2. ~(k < r) /\ ~(r < k)
      BY <1>5, <2>1, <3>1, RunIsUnique
    <3> QED BY <3>1, <3>2
  <2> HIDE DEF ks
  <2>4. (CHOOSE k \in ks : TRUE) \in ks /\ ks # {}
    BY <2>2
  <2> QED BY <1>2, <2>3, <2>4
<1> QED BY <1>4, <1>5

LEMMA CountsAreKept == SequentialKept => CountsAreDefinition
<1> SUFFICES ASSUME SequentialKept PROVE CountsAreDefinition
  OBVIOUS
<1>1. Tape(bars) /\ \A side \in Side : SideKept(bars, side, sides[side])
  BY DEF SequentialKept, CoreKept, Segment
<1>2. DOMAIN bars = 1 .. Len(bars) /\ Len(bars) \in Nat
  BY <1>1 DEF Tape
<1>3. ASSUME NEW side \in Side
      PROVE  LET s == sides[side].setup
                 c == sides[side].countdown
             IN /\ sides[side].run = RunOf(side)
                /\ c.state = "active" =>
                     c.count = Cardinality({n \in DOMAIN bars :
                                              bars[n].open >= c.episode /\ QualifyingAt(side, n)})
                /\ s # NoSetup =>
                     \E n \in DOMAIN bars :
                       bars[n].open = s.episode /\ s.perfected = PerfectedFrom(side, n)
  <2> DEFINE s == sides[side].setup
             c == sides[side].countdown
  <2>1. /\ sides[side] \in SideType /\ RunKept(bars, side, sides[side].run)
        /\ SetupKept(bars, side, s) /\ CountKept(bars, side, c, LastOpen(bars))
    BY <1>1 DEF SideKept
  <2>2. sides[side].run \in Nat /\ s \in SetupType
    BY <2>1 DEF SideType
  <2>3. sides[side].run = RunOf(side)
    BY <1>1, <2>1, <2>2, RunOfKept
  <2> HIDE DEF s, c
  <2>4. {n \in DOMAIN bars : bars[n].open >= c.episode /\ QualifyingAt(side, n)} = Qualifying(bars, side, c.episode)
    BY <1>2 DEF Qualifying, QualifyingAt, QualAt
  <2>5. c.state = "active" =>
          c.count = Cardinality({n \in DOMAIN bars : bars[n].open >= c.episode /\ QualifyingAt(side, n)})
    BY <2>1, <2>4 DEF CountKept
  <2>6. \A n : PerfectedFrom(side, n) <=> PerfFrom(bars, side, n)
    BY DEF PerfectedFrom, PerfFrom, Beyond, PassesOver
  <2>7. ASSUME s # NoSetup
        PROVE  \E n \in DOMAIN bars : bars[n].open = s.episode /\ s.perfected = PerfectedFrom(side, n)
    <3>1. PICK n \in 4 .. Len(bars) : bars[n].open = s.episode /\ (s.perfected <=> PerfFrom(bars, side, n))
      BY <2>1, <2>7 DEF SetupKept
    <3>2. n \in DOMAIN bars
      BY <1>2
    <3>3. s.perfected \in BOOLEAN
      BY <2>2 DEF SetupType
    <3>4. PerfectedFrom(side, n) \in BOOLEAN
      BY DEF PerfectedFrom
    <3>5. s.perfected <=> PerfectedFrom(side, n)
      BY <2>6, <3>1
    <3>6. s.perfected = PerfectedFrom(side, n)
      BY <3>3, <3>4, <3>5
    <3> QED BY <3>1, <3>2, <3>6
  <2> QED BY <2>3, <2>5, <2>7 DEF s, c
<1> QED BY Zenon, <1>3 DEF CountsAreDefinition

(* In every reachable state, what the core keeps is that of its segment,   *)
(* and the bars of a request are the first of its open times.              *)
THEOREM SequentialInvariant == SequentialSpec => []SequentialKept
<1> QED BY SequentialInitKept, SequentialStepKept, PTL DEF SequentialSpec

(* Whatever the prices, the holes and the calls: the Setup runs, the counts *)
(* of the active Countdowns and the perfections that the core keeps in a    *)
(* few bars and counters (seqcore.Step, StepAfterClosure, Restore, and the  *)
(* scheduler over them) are those of the whole segment.                     *)
THEOREM CountsAreTheDefinition == SequentialSpec => []CountsAreDefinition
<1> QED BY SequentialInvariant, CountsAreKept, PTL

-------------------------------------------------------------------------------
(* The audit of a run.  The scheduler's state s has decided on the bars up  *)
(* to n, and the broker is at bar now: n, or the next bar before the core   *)
(* has seen it.                                                            *)

RunFields == {"policy", "anchors", "opportunities", "pending", "pos", "trades", "realized",
              "book", "refusal", "ended"}
OppFields == {"id", "side", "at", "first", "decision", "status", "reason", "stop"}
PosFields == {"id", "side", "entry", "size", "sl", "tp", "from"}
IsSeq(q) == \E S : q \in Seq(S)

(* Properties of the scheduler, of any state of it.                        *)
Owns(s, id) == \/ \E k \in DOMAIN s.trades : s.trades[k].id = id
               \/ Held(s) /\ s.pos.id = id
EnteredAt(s, id, n) == /\ \A k \in DOMAIN s.trades : s.trades[k].id = id => s.trades[k].from = n
                       /\ Held(s) /\ s.pos.id = id => s.pos.from = n
Spans(s, n) == \/ Held(s) /\ s.pos.from <= n
               \/ \E k \in DOMAIN s.trades : s.trades[k].from <= n /\ n < s.trades[k].to
Breaks(tape, o) ==
  IF o.side = "buy" THEN o.stop >= tape[o.decision + 1].O + Slippage
  ELSE o.stop <= tape[o.decision + 1].O - Slippage

TradesKept(s, now) ==
  /\ IsSeq(s.trades)
  /\ \A k \in DOMAIN s.trades : /\ s.trades[k].from \in Nat /\ s.trades[k].from <= now
                                /\ s.trades[k].to \in Nat /\ s.trades[k].to <= now
  /\ \A j, k \in DOMAIN s.trades : s.trades[j].id = s.trades[k].id => j = k
  /\ Held(s) => /\ s.pos = [f \in PosFields |-> s.pos[f]]
                /\ s.pos.from \in Nat /\ s.pos.from <= now
                /\ \A k \in DOMAIN s.trades : s.trades[k].id # s.pos.id

(* What became of an opportunity.                                          *)
Decided(s, tape, n, now, o) ==
  \/ o.status = "pending" /\ o.reason = "" /\ o.decision = n /\ ~s.ended
  \/ o.status = "filled" /\ o.reason = "" /\ ~Breaks(tape, o)
  \/ /\ o.status = "rejected" /\ o.reason = "stop_breached_at_entry"
     /\ Breaks(tape, o) /\ o.decision < now
  \/ o.status = "rejected" /\ o.reason \in {"signal_expired", "blocked_in_position"}
  \/ o.status = "rejected" /\ o.reason = "no_next_bar" /\ s.ended /\ o.decision = n

OppKept(s, tape, n, now, o) ==
  /\ o = [f \in OppFields |-> o[f]] /\ o.side \in Side /\ o.id = <<o.side, o.id[2]>>
  /\ o.at \in Nat /\ o.decision \in 1 .. n
  /\ Decided(s, tape, n, now, o)
  /\ o.reason = "signal_expired" <=> s.policy = "E1" /\ o.decision - o.at > Response
  /\ o.reason # "signal_expired" => (o.reason = "blocked_in_position" <=> Spans(s, o.decision))
  /\ o.status = "pending" <=> s.pending = o.id
  /\ o.status = "filled" <=> Owns(s, o.id)
  /\ EnteredAt(s, o.id, o.decision + 1)

Noted(s, id) == \E o \in s.opportunities : o.id = id

AuditKept(s, tape, n, now) ==
  /\ s = [f \in RunFields |-> s[f]]
  /\ TradesKept(s, now)
  /\ \A o \in s.opportunities : OppKept(s, tape, n, now, o)
  /\ \A o, p \in s.opportunities : o.id = p.id => o = p
  /\ s.pending # NoId => Noted(s, s.pending) /\ ~Held(s)
  /\ \A k \in DOMAIN s.trades : Noted(s, s.trades[k].id)
  /\ Held(s) => Noted(s, s.pos.id)

(* An anchor is the bar that completed its Setup: SetupCount comparisons in *)
(* its direction end there, which no bar up to the warm-up can have.        *)
AnchorKept(tape, a) ==
  /\ a = [f \in {"id", "at", "first"} |-> a[f]]
  /\ a.id[1] \in Side /\ a.at \in 1 .. Len(tape) /\ a.id = <<a.id[1], tape[a.at].open>>
  /\ a.first = a.at - SetupCount + 1 /\ a.at > Lookback + SetupCount
  /\ \A m \in a.first .. a.at : CompAt(tape, m) = Direction(a.id[1])

Anchored(s, id) == \E a \in s.anchors : a.id = id
ToldAt(s, id, n) == \E o \in s.opportunities : o.id = id /\ o.decision = n

(* What the core keeps of a side has an anchor, and is told of once it is   *)
(* perfected (E1) or completed (E2), not before.                           *)
SideTold(s, x, t) ==
  /\ t.setup # NoSetup => Anchored(s, <<x, t.setup.episode>>)
  /\ Unfinished(t.countdown) => Anchored(s, <<x, t.countdown.episode>>)
  /\ IF s.policy = "E1"
     THEN t.setup # NoSetup =>
            IF t.setup.perfected THEN ToldAt(s, <<x, t.setup.episode>>, t.setup.perfectedAt + 1)
            ELSE ~Noted(s, <<x, t.setup.episode>>)
     ELSE /\ Unfinished(t.countdown) => ~Noted(s, <<x, t.countdown.episode>>)
          /\ t.countdown.state = "completed" =>
               ToldAt(s, <<x, t.countdown.episode>>, t.countdown.bar13 + 1)

AloneUnfinished(ss) == ~(Unfinished(ss["buy"].countdown) /\ Unfinished(ss["sell"].countdown))

SignalsKept(s, tape, ss) ==
  /\ \A a \in s.anchors : AnchorKept(tape, a)
  /\ \A o \in s.opportunities : Anchored(s, o.id)
  /\ AloneUnfinished(ss)
  /\ \A x \in Side : SideTold(s, x, ss[x])

ScheduleKept ==
  phase # "core" =>
    /\ AuditKept(run, bars, Len(bars), Len(bars)) /\ SignalsKept(run, bars, sides)
    /\ lastIndex = Len(bars) - 1
    /\ run.refusal \in {"", "unsupported-incomplete-terminal-run"}
    /\ run.refusal # "" => run.ended

-------------------------------------------------------------------------------
(* The broker moves, and the audit of the bars decided on stands.          *)

SameBook(s, t, n) ==
  /\ \A id : Owns(t, id) <=> Owns(s, id)
  /\ \A id, d : EnteredAt(t, id, d) <=> EnteredAt(s, id, d)
  /\ \A d \in 1 .. n : Spans(t, d) <=> Spans(s, d)
SameSchedule(s, t) ==
  /\ t = [f \in RunFields |-> t[f]]
  /\ t.policy = s.policy /\ t.opportunities = s.opportunities /\ t.pending = s.pending
  /\ t.ended = s.ended /\ t.anchors = s.anchors /\ t.refusal = s.refusal

LEMMA OwnedNoted ==
  ASSUME NEW s, NEW tape, NEW n, NEW now, AuditKept(s, tape, n, now), NEW id, Owns(s, id)
  PROVE  Noted(s, id)
BY DEF AuditKept, Owns

LEMMA SameAudit ==
  ASSUME NEW s, NEW t, NEW tape, NEW n, NEW now, AuditKept(s, tape, n, now),
         SameSchedule(s, t), SameBook(s, t, n), TradesKept(t, now), Held(t) => Held(s)
  PROVE  AuditKept(t, tape, n, now)
<1>1. \A o \in t.opportunities : OppKept(t, tape, n, now, o)
  <2> SUFFICES ASSUME NEW o \in t.opportunities PROVE OppKept(t, tape, n, now, o)
    OBVIOUS
  <2>1. OppKept(s, tape, n, now, o)
    BY DEF AuditKept, SameSchedule
  <2>2. Decided(t, tape, n, now, o)
    BY <2>1 DEF OppKept, Decided, SameSchedule
  <2> QED BY <2>1, <2>2, Zenon DEF OppKept, SameSchedule, SameBook
<1>2. \A id : Noted(t, id) <=> Noted(s, id)
  BY DEF Noted, SameSchedule
<1>3. \A id : Owns(t, id) => Noted(t, id)
  <2> SUFFICES ASSUME NEW id, Owns(t, id) PROVE Noted(t, id)
    OBVIOUS
  <2>1. Owns(s, id)
    BY DEF SameBook
  <2> QED BY <1>2, <2>1, OwnedNoted
<1>4. (\A k \in DOMAIN t.trades : Noted(t, t.trades[k].id)) /\ (Held(t) => Noted(t, t.pos.id))
  BY <1>3 DEF Owns
<1>5. t.pending # NoId => Noted(t, t.pending) /\ ~Held(t)
  BY <1>2 DEF AuditKept, SameSchedule
<1> QED BY <1>1, <1>4, <1>5 DEF AuditKept, SameSchedule

LEMMA Appended ==
  ASSUME NEW q, IsSeq(q), NEW x
  PROVE  /\ IsSeq(Append(q, x)) /\ Len(q) \in Nat /\ DOMAIN q = 1 .. Len(q)
         /\ DOMAIN Append(q, x) = 1 .. (Len(q) + 1)
         /\ \A k \in 1 .. Len(q) : Append(q, x)[k] = q[k]
         /\ Append(q, x)[Len(q) + 1] = x
<1>1. PICK S : q \in Seq(S)
  BY DEF IsSeq
<1>2. q \in Seq(S \cup {x}) /\ x \in S \cup {x}
  BY <1>1
<1>3. Append(q, x) \in Seq(S \cup {x})
  BY <1>2
<1> QED BY <1>2, <1>3 DEF IsSeq

LEMMA CloseKeeps ==
  ASSUME NEW s, NEW tape, NEW n \in Nat, NEW now \in Nat, n < now, AuditKept(s, tape, n, now),
         Held(s), NEW price, NEW reason
  PROVE  LET t == Close(s, price, now, reason)
         IN AuditKept(t, tape, n, now) /\ SameSchedule(s, t) /\ ~Held(t)
<1> DEFINE pos    == s.pos
           exit   == price - pos.side * Slippage
           pnl    == (exit - pos.entry) * pos.side * pos.size - FeePerUnit * pos.size
           closed == [id |-> pos.id, side |-> pos.side, entry |-> pos.entry, size |-> pos.size,
                      sl |-> pos.sl, tp |-> pos.tp, from |-> pos.from,
                      exit |-> exit, price |-> price, to |-> now, pnl |-> pnl, reason |-> reason]
           trades == Append(s.trades, closed)
           t      == Close(s, price, now, reason)
           end    == Len(s.trades) + 1
<1>1. closed.id = pos.id /\ closed.from = pos.from /\ closed.to = now
  <2> HIDE DEF pos, exit, pnl
  <2> QED BY DEF closed
<1> HIDE DEF pos, exit, pnl, closed
<1>2. t = [s EXCEPT !.pos = NoPosition, !.trades = trades, !.realized = @ + pnl,
                    !.book = OnExit(@, trades, s.realized, s.realized + pnl)]
  BY Zenon DEF Close, closed, pnl, exit, pos
<1>3. SameSchedule(s, t) /\ t.pos = NoPosition /\ t.trades = trades
  <2>1. s = [f \in RunFields |-> s[f]]
    BY DEF AuditKept
  <2> HIDE DEF t, trades
  <2> QED BY <1>2, <2>1 DEF SameSchedule, RunFields
<1>4. ~Held(t)
  BY <1>3 DEF Held
<1>5. /\ IsSeq(trades) /\ Len(s.trades) \in Nat /\ DOMAIN s.trades = 1 .. Len(s.trades)
      /\ DOMAIN trades = 1 .. end
      /\ \A k \in 1 .. Len(s.trades) : trades[k] = s.trades[k]
      /\ trades[end] = closed
  <2>1. IsSeq(s.trades)
    BY DEF AuditKept, TradesKept
  <2> QED BY <2>1, Appended
<1> HIDE DEF t, trades
<1>6. TradesKept(s, now) /\ pos.from \in Nat /\ pos.from <= now /\ \A k \in DOMAIN s.trades : s.trades[k].id # pos.id
  BY DEF AuditKept, TradesKept, pos
<1>7. TradesKept(t, now)
  <2>1. \A k \in DOMAIN trades : /\ trades[k].from \in Nat /\ trades[k].from <= now
                                 /\ trades[k].to \in Nat /\ trades[k].to <= now
    <3> TAKE k \in DOMAIN trades
    <3>1. CASE k = end
      BY <1>1, <1>5, <1>6, <3>1
    <3>2. CASE k \in 1 .. Len(s.trades)
      BY <1>5, <1>6, <3>2 DEF TradesKept
    <3> QED BY <1>5, <3>1, <3>2
  <2>2. \A j, k \in DOMAIN trades : trades[j].id = trades[k].id => j = k
    <3> SUFFICES ASSUME NEW j \in DOMAIN trades, NEW k \in DOMAIN trades, trades[j].id = trades[k].id
                 PROVE  j = k
      OBVIOUS
    <3>1. (j \in 1 .. Len(s.trades) \/ j = end) /\ (k \in 1 .. Len(s.trades) \/ k = end)
      BY <1>5
    <3>2. CASE j \in 1 .. Len(s.trades) /\ k \in 1 .. Len(s.trades)
      BY <1>5, <1>6, <3>2 DEF TradesKept
    <3>3. CASE j = end /\ k \in 1 .. Len(s.trades)
      BY <1>1, <1>5, <1>6, <3>3
    <3>4. CASE k = end /\ j \in 1 .. Len(s.trades)
      BY <1>1, <1>5, <1>6, <3>4
    <3> QED BY <3>1, <3>2, <3>3, <3>4
  <2> QED BY <1>3, <1>4, <1>5, <2>1, <2>2 DEF TradesKept
<1>8. SameBook(s, t, n)
  <2>1. \A id : Owns(t, id) <=> Owns(s, id)
    <3> SUFFICES ASSUME NEW id PROVE Owns(t, id) <=> Owns(s, id)
      OBVIOUS
    <3>1. Owns(t, id) <=> \E k \in 1 .. end : trades[k].id = id
      BY <1>3, <1>4, <1>5 DEF Owns
    <3>2. Owns(s, id) <=> (\E k \in 1 .. Len(s.trades) : trades[k].id = id) \/ trades[end].id = id
      BY <1>1, <1>5 DEF Owns, pos
    <3> QED BY <1>5, <3>1, <3>2
  <2>2. \A id, d : EnteredAt(t, id, d) <=> EnteredAt(s, id, d)
    <3> SUFFICES ASSUME NEW id, NEW d PROVE EnteredAt(t, id, d) <=> EnteredAt(s, id, d)
      OBVIOUS
    <3>1. EnteredAt(t, id, d) <=> \A k \in 1 .. end : trades[k].id = id => trades[k].from = d
      BY <1>3, <1>4, <1>5 DEF EnteredAt
    <3>2. EnteredAt(s, id, d) <=> /\ \A k \in 1 .. Len(s.trades) : trades[k].id = id => trades[k].from = d
                                  /\ trades[end].id = id => trades[end].from = d
      BY <1>1, <1>5 DEF EnteredAt, pos
    <3> QED BY <1>5, <3>1, <3>2
  <2>3. \A d \in 1 .. n : Spans(t, d) <=> Spans(s, d)
    <3> SUFFICES ASSUME NEW d \in 1 .. n PROVE Spans(t, d) <=> Spans(s, d)
      OBVIOUS
    <3>1. Spans(t, d) <=> \E k \in 1 .. end : trades[k].from <= d /\ d < trades[k].to
      BY <1>3, <1>4, <1>5 DEF Spans
    <3>2. Spans(s, d) <=> (\E k \in 1 .. Len(s.trades) : trades[k].from <= d /\ d < trades[k].to)
                          \/ (trades[end].from <= d /\ d < trades[end].to)
      BY <1>1, <1>5 DEF Spans, pos
    <3>3. \A k : k \in 1 .. end <=> k \in 1 .. Len(s.trades) \/ k = end
      BY <1>5
    <3> QED BY <3>1, <3>2, <3>3, Zenon
  <2> QED BY <2>1, <2>2, <2>3 DEF SameBook
<1>9. AuditKept(t, tape, n, now)
  BY <1>3, <1>4, <1>7, <1>8, SameAudit
<1> QED BY <1>3, <1>4, <1>9 DEF t

-------------------------------------------------------------------------------
(* An opportunity is settled.                                              *)

IsSettled(p, q, status, reason) ==
  /\ q = [f \in OppFields |-> q[f]]
  /\ q.id = p.id /\ q.side = p.side /\ q.at = p.at /\ q.first = p.first
  /\ q.decision = p.decision /\ q.stop = p.stop /\ q.status = status /\ q.reason = reason

LEMMA SettledIs ==
  ASSUME NEW found, \A p \in found : p = [f \in OppFields |-> p[f]], NEW id, NEW status, NEW reason
  PROVE  /\ \A q \in Settled(found, id, status, reason) :
              \E p \in found : \/ p.id # id /\ q = p
                               \/ p.id = id /\ IsSettled(p, q, status, reason)
         /\ \A p \in found : \E q \in Settled(found, id, status, reason) :
              q.id = p.id /\ q.decision = p.decision
<1> DEFINE New(p) == IF p.id = id THEN [p EXCEPT !.status = status, !.reason = reason] ELSE p
<1>1. Settled(found, id, status, reason) = {New(p) : p \in found}
  BY Zenon DEF Settled
<1>2. \A p \in found : p.id = id => IsSettled(p, New(p), status, reason)
  <2> SUFFICES ASSUME NEW p \in found, p.id = id PROVE IsSettled(p, New(p), status, reason)
    OBVIOUS
  <2>1. p = [f \in OppFields |-> p[f]]
    OBVIOUS
  <2>2. New(p) = [p EXCEPT !.status = status, !.reason = reason]
    OBVIOUS
  <2> HIDE DEF New
  <2> QED BY <2>1, <2>2 DEF IsSettled, OppFields
<1>3. \A p \in found : p.id # id => New(p) = p
  OBVIOUS
<1> HIDE DEF New
<1>4. ASSUME NEW q \in Settled(found, id, status, reason)
      PROVE  \E p \in found : \/ p.id # id /\ q = p
                              \/ p.id = id /\ IsSettled(p, q, status, reason)
  <2>1. PICK p \in found : q = New(p)
    BY <1>1
  <2> QED BY <1>2, <1>3, <2>1
<1>5. ASSUME NEW p \in found
      PROVE  \E q \in Settled(found, id, status, reason) : q.id = p.id /\ q.decision = p.decision
  <2>1. New(p) \in Settled(found, id, status, reason)
    BY <1>1
  <2>2. New(p).id = p.id /\ New(p).decision = p.decision
    BY <1>2, <1>3 DEF IsSettled
  <2> QED BY <2>1, <2>2
<1> QED BY <1>4, <1>5

(* Whatever settles the pending opportunity, the others stand.             *)
SameIds(s, t) ==
  /\ \A id : Noted(t, id) <=> Noted(s, id)
  /\ \A id, d : ToldAt(s, id, d) => ToldAt(t, id, d)

LEMMA Resettled ==
  ASSUME NEW s, NEW t, NEW tape, NEW n, NEW now, AuditKept(s, tape, n, now),
         NEW status, NEW reason,
         t = [f \in RunFields |-> t[f]], t.pending = NoId,
         t.opportunities = Settled(s.opportunities, s.pending, status, reason),
         TradesKept(t, now),
         \A o \in s.opportunities : o.id # s.pending => OppKept(t, tape, n, now, o),
         \A p \in s.opportunities : \A q :
           p.id = s.pending /\ IsSettled(p, q, status, reason) => OppKept(t, tape, n, now, q),
         \A id : Owns(t, id) => Noted(s, id)
  PROVE  AuditKept(t, tape, n, now) /\ SameIds(s, t)
<1> DEFINE old == s.opportunities
           new == t.opportunities
<1>1. \A p \in old : p = [f \in OppFields |-> p[f]]
  BY DEF AuditKept, OppKept
<1>2. /\ \A q \in new : \E p \in old : \/ p.id # s.pending /\ q = p
                                       \/ p.id = s.pending /\ IsSettled(p, q, status, reason)
      /\ \A p \in old : \E q \in new : q.id = p.id /\ q.decision = p.decision
  BY <1>1, SettledIs
<1>3. \A q \in new : OppKept(t, tape, n, now, q)
  BY <1>2
<1>4. \A q, r \in new : q.id = r.id => q = r
  <2> SUFFICES ASSUME NEW q \in new, NEW r \in new, q.id = r.id PROVE q = r
    OBVIOUS
  <2>1. PICK p \in old : \/ p.id # s.pending /\ q = p
                         \/ p.id = s.pending /\ IsSettled(p, q, status, reason)
    BY <1>2
  <2>2. PICK m \in old : \/ m.id # s.pending /\ r = m
                         \/ m.id = s.pending /\ IsSettled(m, r, status, reason)
    BY <1>2
  <2>3. p.id = q.id /\ m.id = r.id
    BY <2>1, <2>2 DEF IsSettled
  <2>4. p = m
    BY <2>3 DEF AuditKept
  <2>5. CASE p.id = s.pending
    <3>1. IsSettled(p, q, status, reason) /\ IsSettled(p, r, status, reason)
      BY <2>1, <2>2, <2>4, <2>5
    <3>2. \A f \in OppFields : q[f] = r[f]
      BY <3>1 DEF IsSettled, OppFields
    <3>3. q = [f \in OppFields |-> q[f]] /\ r = [f \in OppFields |-> r[f]]
      BY <3>1 DEF IsSettled
    <3> HIDE DEF new
    <3>4. [f \in OppFields |-> q[f]] = [f \in OppFields |-> r[f]]
      BY <3>2
    <3> QED BY <3>3, <3>4
  <2> QED BY <2>1, <2>2, <2>4, <2>5
<1>5. \A id : Noted(t, id) <=> Noted(s, id)
  <2> SUFFICES ASSUME NEW id PROVE Noted(t, id) <=> Noted(s, id)
    OBVIOUS
  <2>1. ASSUME Noted(t, id) PROVE Noted(s, id)
    <3>1. PICK q \in new : q.id = id
      BY <2>1 DEF Noted
    <3>2. PICK p \in old : \/ p.id # s.pending /\ q = p
                           \/ p.id = s.pending /\ IsSettled(p, q, status, reason)
      BY <1>2
    <3>3. p.id = id
      BY <3>1, <3>2 DEF IsSettled
    <3> QED BY <3>3 DEF Noted
  <2>2. ASSUME Noted(s, id) PROVE Noted(t, id)
    BY <1>2, <2>2 DEF Noted
  <2> QED BY <2>1, <2>2
<1>6. \A id, d : ToldAt(s, id, d) => ToldAt(t, id, d)
  <2> SUFFICES ASSUME NEW id, NEW d, ToldAt(s, id, d) PROVE ToldAt(t, id, d)
    OBVIOUS
  <2>1. PICK p \in old : p.id = id /\ p.decision = d
    BY DEF ToldAt
  <2>2. PICK q \in new : q.id = p.id /\ q.decision = p.decision
    BY <1>2
  <2> QED BY <2>1, <2>2 DEF ToldAt
<1>7. (\A k \in DOMAIN t.trades : Noted(t, t.trades[k].id)) /\ (Held(t) => Noted(t, t.pos.id))
  BY <1>5 DEF Owns
<1>8. t.pending # NoId => Noted(t, t.pending) /\ ~Held(t)
  OBVIOUS
<1> HIDE DEF old, new
<1> QED BY <1>3, <1>4, <1>5, <1>6, <1>7, <1>8 DEF AuditKept, SameIds, old, new

-------------------------------------------------------------------------------
(* A bar of the broker, before the core sees it.                           *)

KeepsRest(s, t) ==
  t.policy = s.policy /\ t.anchors = s.anchors /\ t.refusal = s.refusal /\ t.ended = s.ended

LEMMA OnePending ==
  ASSUME NEW s, NEW tape, NEW n \in Nat, NEW now, AuditKept(s, tape, n, now), s.pending # NoId
  PROVE  LET o == CHOOSE p \in s.opportunities : p.id = s.pending
         IN /\ o \in s.opportunities /\ o.id = s.pending /\ OppKept(s, tape, n, now, o)
            /\ o.status = "pending" /\ o.reason = "" /\ o.decision = n /\ ~s.ended
            /\ ~Held(s) /\ ~Owns(s, o.id) /\ ~Spans(s, n)
            /\ ~(s.policy = "E1" /\ o.decision - o.at > Response)
            /\ \A p \in s.opportunities : p.id = s.pending => p = o
<1> DEFINE o == CHOOSE p \in s.opportunities : p.id = s.pending
<1>1. Noted(s, s.pending) /\ ~Held(s)
  BY DEF AuditKept
<1>2. o \in s.opportunities /\ o.id = s.pending
  BY <1>1 DEF Noted
<1> HIDE DEF o
<1>3. OppKept(s, tape, n, now, o) /\ \A p \in s.opportunities : p.id = s.pending => p = o
  BY <1>2 DEF AuditKept
<1>4. o.status = "pending" /\ Decided(s, tape, n, now, o)
  BY <1>2, <1>3 DEF OppKept
<1>5. o.reason = "" /\ o.decision = n /\ ~s.ended
  BY <1>4 DEF Decided
<1>6. ~Owns(s, o.id) /\ ~Spans(s, n) /\ ~(s.policy = "E1" /\ o.decision - o.at > Response)
  BY <1>3, <1>4, <1>5 DEF OppKept
<1> QED BY <1>1, <1>2, <1>3, <1>4, <1>5, <1>6 DEF o

LEMMA NamedId == ASSUME NEW s, NEW tape, NEW n, NEW now, NEW o, OppKept(s, tape, n, now, o) PROVE o.id # NoId
<1> SUFFICES ASSUME o.id = NoId PROVE FALSE
  OBVIOUS
<1>1. o.side \in Side /\ <<o.side, o.id[2]>> = <<"", None>>
  BY Zenon DEF OppKept, NoId
<1>2. o.side = ""
  BY <1>1
<1> QED BY <1>1, <1>2 DEF Side

(* The pending opportunity is settled, the others keep what was said.      *)
LEMMA OthersStand ==
  ASSUME NEW s, NEW t, NEW tape, NEW n, NEW now, NEW o, OppKept(s, tape, n, now, o), o.id # s.pending,
         t.pending = NoId, t.policy = s.policy, t.ended = s.ended \/ ~s.ended,
         Owns(t, o.id) <=> Owns(s, o.id),
         \A d : EnteredAt(t, o.id, d) <=> EnteredAt(s, o.id, d),
         \A d \in 1 .. n : Spans(t, d) <=> Spans(s, d)
  PROVE  OppKept(t, tape, n, now, o)
<1>1. o.id # NoId
  BY NamedId
<1>2. o.status # "pending"
  BY DEF OppKept
<1>3. Decided(t, tape, n, now, o)
  <2>1. Decided(s, tape, n, now, o)
    BY DEF OppKept
  <2> QED BY <1>2, <2>1 DEF Decided
<1>4. o.status = "pending" <=> t.pending = o.id
  BY <1>1, <1>2
<1>5. o.decision \in 1 .. n
  BY DEF OppKept
<1>6. o.reason # "signal_expired" => (o.reason = "blocked_in_position" <=> Spans(t, o.decision))
  BY <1>5 DEF OppKept
<1>7. EnteredAt(t, o.id, o.decision + 1) /\ (o.status = "filled" <=> Owns(t, o.id))
  BY DEF OppKept
<1> QED BY <1>3, <1>4, <1>6, <1>7 DEF OppKept

LEMMA FillKeeps ==
  ASSUME NEW s, NEW tape, NEW n \in Nat, NEW now, now = n + 1, AuditKept(s, tape, n, now), tape[now].O \in Nat
  PROVE  LET t == FillPending(s, tape[now], now)
         IN AuditKept(t, tape, n, now) /\ t.pending = NoId /\ SameIds(s, t) /\ KeepsRest(s, t)
<1> DEFINE b    == tape[now]
           t    == FillPending(s, b, now)
           o    == CHOOSE p \in s.opportunities : p.id = s.pending
           fill == b.O + Sign(o.side) * Slippage
           free == [s EXCEPT !.pending = NoId]
           size == Smaller(RiskUSD \div Larger(fill - o.stop, o.stop - fill), MaxNotionalUSD \div fill)
           pos  == [id |-> o.id, side |-> Sign(o.side), entry |-> fill, size |-> size,
                    sl |-> o.stop, tp |-> fill + 2 * (fill - o.stop), from |-> now]
           after == free.realized - FeePerUnit * size
           open == [free EXCEPT !.pos = pos, !.realized = after,
                                !.book = OnEntry(@, pos, free.trades, free.realized, after)]
           Settling(status, reason) == Settled(s.opportunities, s.pending, status, reason)
<1>1. CASE s.pending = NoId
  <2>1. t = s
    BY <1>1 DEF FillPending
  <2> QED BY <1>1, <2>1 DEF KeepsRest, SameIds
<1>2. CASE s.pending # NoId
  <2>1. /\ o \in s.opportunities /\ o.id = s.pending /\ OppKept(s, tape, n, now, o)
        /\ o.status = "pending" /\ o.reason = "" /\ o.decision = n /\ ~s.ended
        /\ ~Held(s) /\ ~Owns(s, o.id) /\ ~Spans(s, n)
        /\ ~(s.policy = "E1" /\ o.decision - o.at > Response)
        /\ \A p \in s.opportunities : p.id = s.pending => p = o
    BY <1>2, OnePending
  <2>2. t = IF IF o.side = "buy" THEN o.stop >= fill ELSE o.stop <= fill
            THEN [free EXCEPT !.opportunities = Settled(@, o.id, "rejected", "stop_breached_at_entry")]
            ELSE [open EXCEPT !.opportunities = Settled(@, o.id, "filled", "")]
    BY <1>2, Zenon DEF FillPending, Open
  <2>3. s = [f \in RunFields |-> s[f]] /\ TradesKept(s, now)
    BY DEF AuditKept
  <2> HIDE DEF t, o, size
  <2>4. Breaks(tape, o) <=> IF o.side = "buy" THEN o.stop >= fill ELSE o.stop <= fill
    <3>1. tape[o.decision + 1] = b
      BY <2>1
    <3>2. Slippage \in Nat /\ b.O \in Nat /\ o.side \in Side
      BY <2>1, SchedulerAssumption DEF OppKept
    <3>3. CASE o.side = "buy"
      <4>1. fill = b.O + Slippage
        BY <3>2, <3>3 DEF Sign
      <4> QED BY <3>1, <3>3, <4>1 DEF Breaks
    <3>4. CASE o.side # "buy"
      <4>1. fill = b.O - Slippage
        BY <3>2, <3>4 DEF Sign
      <4> QED BY <3>1, <3>4, <4>1 DEF Breaks
    <3> QED BY <3>3, <3>4
  <2> HIDE DEF fill
  <2>5. \A id : Owns(s, id) => Noted(s, id)
    BY OwnedNoted
  <2>6. CASE Breaks(tape, o)
    <3>1. t = [free EXCEPT !.opportunities = Settled(@, o.id, "rejected", "stop_breached_at_entry")]
      BY <2>2, <2>4, <2>6
    <3>2. /\ t = [f \in RunFields |-> t[f]] /\ t.pending = NoId
          /\ t.opportunities = Settling("rejected", "stop_breached_at_entry")
          /\ t.trades = s.trades /\ t.pos = s.pos /\ KeepsRest(s, t)
      <4>1. /\ t = [f \in RunFields |-> t[f]] /\ t.pending = NoId
            /\ t.opportunities = Settled(s.opportunities, o.id, "rejected", "stop_breached_at_entry")
            /\ t.trades = s.trades /\ t.pos = s.pos
        BY <2>3, <3>1 DEF RunFields
      <4>2. KeepsRest(s, t)
        BY <2>3, <3>1 DEF RunFields, KeepsRest
      <4> QED BY <2>1, <4>1, <4>2
    <3>3. /\ \A id : Owns(t, id) <=> Owns(s, id)
          /\ \A id, d : EnteredAt(t, id, d) <=> EnteredAt(s, id, d)
          /\ \A d : Spans(t, d) <=> Spans(s, d)
          /\ TradesKept(t, now)
      <4>1. Held(t) <=> Held(s)
        BY <3>2 DEF Held
      <4> QED BY <2>3, <3>2, <4>1 DEF Owns, EnteredAt, Spans, TradesKept
    <3>4. \A p \in s.opportunities : p.id # s.pending => OppKept(t, tape, n, now, p)
      <4> SUFFICES ASSUME NEW p \in s.opportunities, p.id # s.pending PROVE OppKept(t, tape, n, now, p)
        OBVIOUS
      <4>1. OppKept(s, tape, n, now, p)
        BY DEF AuditKept
      <4> QED BY <3>2, <3>3, <4>1, OthersStand DEF KeepsRest
    <3>5. \A p \in s.opportunities : \A q :
            p.id = s.pending /\ IsSettled(p, q, "rejected", "stop_breached_at_entry") =>
              OppKept(t, tape, n, now, q)
      <4> SUFFICES ASSUME NEW q, IsSettled(o, q, "rejected", "stop_breached_at_entry")
                   PROVE  OppKept(t, tape, n, now, q)
        BY <2>1
      <4>1. Decided(t, tape, n, now, q)
        <5>1. Breaks(tape, q)
          BY <2>6 DEF IsSettled, Breaks
        <5>2. n < now
          OBVIOUS
        <5>3. q.decision = n /\ q.status = "rejected" /\ q.reason = "stop_breached_at_entry"
          BY <2>1 DEF IsSettled
        <5> QED BY <5>1, <5>2, <5>3, Zenon DEF Decided
      <4>2. q.id # NoId
        BY <2>1, NamedId DEF IsSettled
      <4>3. q = [f \in OppFields |-> q[f]] /\ q.side \in Side /\ q.id = <<q.side, q.id[2]>>
            /\ q.at \in Nat /\ q.decision = n /\ q.decision \in 1 .. n
        BY <2>1 DEF IsSettled, OppKept
      <4>4. ~(t.policy = "E1" /\ q.decision - q.at > Response) /\ ~Spans(t, q.decision) /\ ~Owns(t, q.id)
        BY <2>1, <3>2, <3>3 DEF IsSettled, KeepsRest
      <4>5. EnteredAt(t, q.id, q.decision + 1)
        BY <2>1, <3>3 DEF IsSettled, OppKept
      <4>6. q.status = "rejected" /\ q.reason = "stop_breached_at_entry"
        BY DEF IsSettled
      <4> QED BY <3>2, <4>1, <4>2, <4>3, <4>4, <4>5, <4>6 DEF OppKept
    <3>6. \A id : Owns(t, id) => Noted(s, id)
      BY <2>5, <3>3
    <3>7. AuditKept(t, tape, n, now) /\ SameIds(s, t)
      BY <3>2, <3>3, <3>4, <3>5, <3>6, Resettled
    <3> QED BY <3>2, <3>7 DEF t
  <2>7. CASE ~Breaks(tape, o)
    <3>1. t = [open EXCEPT !.opportunities = Settled(@, o.id, "filled", "")]
      BY <2>2, <2>4, <2>7
    <3> HIDE DEF pos
    <3>2. /\ t = [f \in RunFields |-> t[f]] /\ t.pending = NoId
          /\ t.opportunities = Settling("filled", "")
          /\ t.trades = s.trades /\ t.pos = pos /\ KeepsRest(s, t)
      <4>1. /\ t = [f \in RunFields |-> t[f]] /\ t.pending = NoId
            /\ t.opportunities = Settled(s.opportunities, o.id, "filled", "")
            /\ t.trades = s.trades /\ t.pos = pos
        BY <2>3, <3>1 DEF RunFields
      <4>2. KeepsRest(s, t)
        BY <2>3, <3>1 DEF RunFields, KeepsRest
      <4> QED BY <2>1, <4>1, <4>2
    <3>3. /\ pos.id = o.id /\ pos.from = now /\ pos = [f \in PosFields |-> pos[f]]
          /\ pos # NoPosition
      BY DEF pos, PosFields, NoPosition
    <3>4. Held(t)
      BY <3>2, <3>3 DEF Held
    <3>5. \A id : Owns(t, id) <=> Owns(s, id) \/ id = o.id
      BY <2>1, <3>2, <3>3, <3>4 DEF Owns
    <3>6. \A d \in 1 .. n : Spans(t, d) <=> Spans(s, d)
      <4>1. \A d \in 1 .. n : ~(now <= d)
        OBVIOUS
      <4> QED BY <2>1, <3>2, <3>3, <3>4, <4>1, Zenon DEF Spans
    <3>7. \A id, d : id # o.id => (EnteredAt(t, id, d) <=> EnteredAt(s, id, d))
      BY <2>1, <3>2, <3>3, <3>4 DEF EnteredAt
    <3>8. EnteredAt(t, o.id, n + 1)
      BY <2>1, <3>2, <3>3 DEF EnteredAt, Owns
    <3>9. TradesKept(t, now)
      <4>1. \A k \in DOMAIN s.trades : s.trades[k].id # pos.id
        BY <2>1, <3>3 DEF Owns
      <4>2. now \in Nat
        OBVIOUS
      <4>3. now <= now
        BY <4>2
      <4>4. /\ t.pos = [f \in PosFields |-> t.pos[f]] /\ t.pos.from \in Nat /\ t.pos.from <= now
            /\ \A k \in DOMAIN t.trades : t.trades[k].id # t.pos.id
        BY <3>2, <3>3, <4>1, <4>2, <4>3, Zenon
      <4> QED BY <2>3, <3>2, <4>4, Zenon DEF TradesKept
    <3>10. \A p \in s.opportunities : p.id # s.pending => OppKept(t, tape, n, now, p)
      <4> SUFFICES ASSUME NEW p \in s.opportunities, p.id # s.pending PROVE OppKept(t, tape, n, now, p)
        OBVIOUS
      <4>1. OppKept(s, tape, n, now, p) /\ p.id # o.id
        BY <2>1 DEF AuditKept
      <4>2. /\ Owns(t, p.id) <=> Owns(s, p.id)
            /\ \A d : EnteredAt(t, p.id, d) <=> EnteredAt(s, p.id, d)
        BY <3>5, <3>7, <4>1
      <4>3. t.policy = s.policy /\ t.ended = s.ended
        BY <3>2 DEF KeepsRest
      <4> QED BY <3>2, <3>6, <4>1, <4>2, <4>3, OthersStand
    <3>11. \A p \in s.opportunities : \A q :
            p.id = s.pending /\ IsSettled(p, q, "filled", "") => OppKept(t, tape, n, now, q)
      <4> SUFFICES ASSUME NEW q, IsSettled(o, q, "filled", "") PROVE OppKept(t, tape, n, now, q)
        BY <2>1
      <4>1. Decided(t, tape, n, now, q)
        <5>1. ~Breaks(tape, q)
          BY <2>7 DEF IsSettled, Breaks
        <5> QED BY <5>1 DEF Decided, IsSettled
      <4>2. q.id # NoId
        BY <2>1, NamedId DEF IsSettled
      <4>3. q = [f \in OppFields |-> q[f]] /\ q.side \in Side /\ q.id = <<q.side, q.id[2]>>
            /\ q.at \in Nat /\ q.decision = n /\ q.decision \in 1 .. n
        BY <2>1 DEF IsSettled, OppKept
      <4>4. ~(t.policy = "E1" /\ q.decision - q.at > Response)
        BY <2>1, <3>2 DEF IsSettled, KeepsRest
      <4>5. EnteredAt(t, q.id, q.decision + 1) /\ Owns(t, q.id) /\ ~Spans(t, q.decision)
        BY <2>1, <3>5, <3>6, <3>8, <4>3 DEF IsSettled
      <4>6. q.status = "filled" /\ q.reason = ""
        BY DEF IsSettled
      <4> QED BY <3>2, <4>1, <4>2, <4>3, <4>4, <4>5, <4>6 DEF OppKept
    <3>12. \A id : Owns(t, id) => Noted(s, id)
      BY <2>1, <2>5, <3>5 DEF Noted
    <3>13. AuditKept(t, tape, n, now) /\ SameIds(s, t)
      BY <3>2, <3>9, <3>10, <3>11, <3>12, Resettled
    <3> QED BY <3>2, <3>13 DEF t
  <2> QED BY <2>6, <2>7
<1> QED BY <1>1, <1>2

LEMMA SameOpportunities == ASSUME NEW s, NEW t, SameSchedule(s, t) PROVE SameIds(s, t) /\ KeepsRest(s, t)
BY DEF SameSchedule, SameIds, KeepsRest, Noted, ToldAt

LEMMA TimeExitKeeps ==
  ASSUME NEW s, NEW tape, NEW n \in Nat, NEW now \in Nat, n < now, AuditKept(s, tape, n, now), NEW b
  PROVE  LET t == TimeExit(s, b, now)
         IN AuditKept(t, tape, n, now) /\ SameIds(s, t) /\ KeepsRest(s, t)
<1> DEFINE t == TimeExit(s, b, now)
<1>1. t = s \/ (Held(s) /\ t = Close(s, b.O, now, "time"))
  BY DEF TimeExit
<1>2. CASE t = s
  BY <1>2 DEF SameIds, KeepsRest
<1>3. CASE Held(s) /\ t = Close(s, b.O, now, "time")
  <2>1. AuditKept(t, tape, n, now) /\ SameSchedule(s, t)
    BY <1>3, CloseKeeps
  <2> QED BY <2>1, SameOpportunities
<1> QED BY <1>1, <1>2, <1>3

LEMMA BracketKeeps ==
  ASSUME NEW s, NEW tape, NEW n \in Nat, NEW now \in Nat, n < now, AuditKept(s, tape, n, now), NEW b
  PROVE  LET t == Bracket(s, b, now)
         IN /\ AuditKept(t, tape, n, now) /\ SameIds(s, t) /\ KeepsRest(s, t)
            /\ t.pending = s.pending
<1> DEFINE t == Bracket(s, b, now)
<1>1. t = s \/ (Held(s) /\ \E price, reason : t = Close(s, price, now, reason))
  BY Zenon DEF Bracket
<1> HIDE DEF t
<1>2. CASE t = s
  BY <1>2 DEF SameIds, KeepsRest, t
<1>3. CASE Held(s) /\ \E price, reason : t = Close(s, price, now, reason)
  <2>1. AuditKept(t, tape, n, now) /\ SameSchedule(s, t)
    BY <1>3, CloseKeeps
  <2>2. t.pending = s.pending
    BY <2>1 DEF SameSchedule
  <2> QED BY <2>1, <2>2, SameOpportunities DEF t
<1> QED BY <1>1, <1>2, <1>3

LEMMA BeforeKeeps ==
  ASSUME NEW s, NEW tape, NEW n \in Nat, NEW now, now = n + 1, AuditKept(s, tape, n, now), tape[now].O \in Nat
  PROVE  LET t == Before(s, tape[now], now)
         IN AuditKept(t, tape, n, now) /\ t.pending = NoId /\ SameIds(s, t) /\ KeepsRest(s, t)
<1> DEFINE b == tape[now]
           u == TimeExit(s, b, now)
           v == FillPending(u, b, now)
           t == Bracket(v, b, now)
<1>1. now \in Nat /\ n < now
  OBVIOUS
<1>2. AuditKept(u, tape, n, now) /\ SameIds(s, u) /\ KeepsRest(s, u)
  BY <1>1, TimeExitKeeps
<1> HIDE DEF u
<1>3. AuditKept(v, tape, n, now) /\ v.pending = NoId /\ SameIds(u, v) /\ KeepsRest(u, v)
  BY <1>2, FillKeeps
<1> HIDE DEF v
<1>4. AuditKept(t, tape, n, now) /\ SameIds(v, t) /\ KeepsRest(v, t) /\ t.pending = v.pending
  BY <1>1, <1>3, BracketKeeps
<1> HIDE DEF t, b
<1>5. SameIds(s, t) /\ KeepsRest(s, t)
  BY <1>2, <1>3, <1>4 DEF SameIds, KeepsRest
<1> QED BY <1>3, <1>4, <1>5 DEF Before, t, v, u, b

-------------------------------------------------------------------------------
(* The core has seen the bar, and the signals are decided on.              *)

CandidateIds(s, signals) ==
  { <<e.side, e.episode>> : e \in {x \in signals : x.type \in Triggers(s.policy)} }

InTime(s, a, n) == s.policy = "E1" => n - a.at <= Response

(* What the signals of a bar are: of anchored Setups, whose bars are past   *)
(* the warm-up, and at most one of them in time.                           *)
Answerable(s, n, signals) ==
  LET anchors == WithAnchors(s, n, signals)
      ids     == CandidateIds(s, signals)
  IN /\ \A id \in ids : \E a \in anchors : a.id = id
     /\ \A a, b \in anchors : a.id = b.id => a = b
     /\ \A a \in anchors : /\ a.at \in Nat /\ a.id[1] \in Side
                           /\ a.id = <<a.id[1], a.id[2]>> /\ n > Warmup
     /\ \A a, b \in anchors :
          a.id \in ids /\ b.id \in ids /\ InTime(s, a, n) /\ InTime(s, b, n) => a = b

Accepted(s, t, n, signals) ==
  /\ t.anchors = WithAnchors(s, n, signals)
  /\ t.policy = s.policy /\ t.refusal = s.refusal /\ t.ended = s.ended
  /\ \A id : Noted(t, id) <=> Noted(s, id) \/ id \in CandidateIds(s, signals)
  /\ \A id, d : ToldAt(s, id, d) => ToldAt(t, id, d)
  /\ \A id \in CandidateIds(s, signals) : ~Noted(s, id) => ToldAt(t, id, n)

(* What Accept decides on one opportunity of the bar.                      *)
RuledAs(s, t, o, q) ==
  \/ ~InTime(s, o, o.decision) /\ IsSettled(o, q, "rejected", "signal_expired")
  \/ InTime(s, o, o.decision) /\ Held(s) /\ IsSettled(o, q, "rejected", "blocked_in_position")
  \/ /\ InTime(s, o, o.decision) /\ ~Held(s) /\ IsSettled(o, q, "pending", "")
     /\ t.pending = q.id

IsNew(s, tape, n, signals, o) ==
  /\ o = [f \in OppFields |-> o[f]] /\ o.decision = n /\ o.status = "pending" /\ o.reason = ""
  /\ o.id \in CandidateIds(s, signals) /\ ~Noted(s, o.id)
  /\ \E a \in WithAnchors(s, n, signals) :
       a.id = o.id /\ a.at = o.at /\ o.side = a.id[1] /\ o = Opportunity(s.policy, a, tape, n)

News(s, tape, n, signals) ==
  {Opportunity(s.policy, a, tape, n) :
     a \in {x \in WithAnchors(s, n, signals) :
              x.id \in CandidateIds(s, signals) \ {o.id : o \in s.opportunities}}}

Ruled(s, t, tape, n, signals) ==
  LET news == News(s, tape, n, signals)
  IN /\ t = [f \in RunFields |-> t[f]]
     /\ t.anchors = WithAnchors(s, n, signals)
     /\ t.policy = s.policy /\ t.refusal = s.refusal /\ t.ended = s.ended
     /\ t.trades = s.trades /\ t.pos = s.pos
     /\ \A o \in news : IsNew(s, tape, n, signals, o)
     /\ \A o, p \in news : o.id = p.id => o = p
     /\ \E rule : /\ t.opportunities = s.opportunities \cup {rule[o] : o \in news}
                  /\ \A o \in news : RuledAs(s, t, o, rule[o])
     /\ t.pending = NoId \/ (~Held(s) /\ \E o \in news : t.pending = o.id /\ InTime(s, o, n))
     /\ \A o, p \in news : InTime(s, o, n) /\ InTime(s, p, n) => o = p

LEMMA AcceptRules ==
  ASSUME NEW s, NEW tape, NEW n \in Nat, NEW signals, Answerable(s, n, signals),
         s = [f \in RunFields |-> s[f]], s.pending = NoId
  PROVE  Ruled(s, Accept(s, tape, n, signals), tape, n, signals)
<1> DEFINE t       == Accept(s, tape, n, signals)
           anchors == WithAnchors(s, n, signals)
           all     == CandidateIds(s, signals)
           ids     == all \ {o.id : o \in s.opportunities}
           new     == { Opportunity(s.policy, a, tape, n) : a \in {x \in anchors : x.id \in ids} }
           cands   == { o \in new : Early(s.policy, o) = "" }
           both    == {o.side : o \in cands} = Side
           reason  == CASE Occupied(s, n) -> "blocked_in_position"
                        [] both -> "simultaneous_signal"
                        [] OTHER -> ""
           Ruling(o) == IF o \notin cands THEN [o EXCEPT !.status = "rejected", !.reason = Early(s.policy, o)]
                        ELSE IF reason # "" THEN [o EXCEPT !.status = "rejected", !.reason = reason]
                        ELSE o
           decided == { Ruling(o) : o \in new }
           kept    == s.opportunities \cup decided
           pending == IF cands = {} \/ reason # "" THEN s.pending ELSE (CHOOSE o \in cands : TRUE).id
           refusal == IF ids \subseteq {a.id : a \in anchors} THEN s.refusal ELSE "missing admitting setup"
<1>1. t = [s EXCEPT !.anchors = anchors, !.opportunities = kept, !.pending = pending, !.refusal = refusal]
  BY Zenon DEF Accept, CandidateIds
<1>2. /\ \A id \in all : \E a \in anchors : a.id = id
      /\ \A a, b \in anchors : a.id = b.id => a = b
      /\ \A a \in anchors : a.at \in Nat /\ a.id[1] \in Side /\ a.id = <<a.id[1], a.id[2]>> /\ n > Warmup
      /\ \A a, b \in anchors : a.id \in all /\ b.id \in all /\ InTime(s, a, n) /\ InTime(s, b, n) => a = b
  BY Zenon DEF Answerable
<1> HIDE DEF t, anchors, all
<1>3. ids \subseteq {a.id : a \in anchors}
  BY <1>2
<1>4. \A o \in new : \E a \in anchors :
        a.id \in ids /\ o = Opportunity(s.policy, a, tape, n)
  OBVIOUS
<1>5. ASSUME NEW a
      PROVE  LET o == Opportunity(s.policy, a, tape, n)
             IN /\ o = [f \in OppFields |-> o[f]] /\ o.id = a.id /\ o.at = a.at /\ o.side = a.id[1]
                /\ o.decision = n /\ o.status = "pending" /\ o.reason = ""
  BY DEF Opportunity, OppFields
<1> HIDE DEF new
<1>6. \A o \in new : IsNew(s, tape, n, signals, o)
  <2> SUFFICES ASSUME NEW o \in new PROVE IsNew(s, tape, n, signals, o)
    OBVIOUS
  <2>1. PICK a \in anchors : a.id \in ids /\ o = Opportunity(s.policy, a, tape, n)
    BY <1>4
  <2>2. o.id = a.id /\ ~Noted(s, o.id) /\ a.id \in all
    BY <1>5, <2>1 DEF Noted
  <2>3. o = [f \in OppFields |-> o[f]] /\ o.at = a.at /\ o.side = a.id[1]
        /\ o.decision = n /\ o.status = "pending" /\ o.reason = ""
    BY <1>5, <2>1
  <2> QED BY <2>1, <2>2, <2>3 DEF IsNew, all, anchors
<1>7. \A o \in new, p \in new : o.id = p.id => o = p
  <2> SUFFICES ASSUME NEW o \in new, NEW p \in new, o.id = p.id PROVE o = p
    OBVIOUS
  <2>1. PICK a \in anchors : a.id \in ids /\ o = Opportunity(s.policy, a, tape, n)
    BY <1>4
  <2>2. PICK b \in anchors : b.id \in ids /\ p = Opportunity(s.policy, b, tape, n)
    BY <1>4
  <2>3. o.id = a.id /\ p.id = b.id
    BY <1>5, <2>1, <2>2
  <2>4. a = b
    BY <1>2, <2>3
  <2> QED BY <2>1, <2>2, <2>4
<1>8. \A o \in new : Early(s.policy, o) = IF InTime(s, o, n) THEN "" ELSE "signal_expired"
  <2> SUFFICES ASSUME NEW o \in new
               PROVE  Early(s.policy, o) = IF InTime(s, o, n) THEN "" ELSE "signal_expired"
    OBVIOUS
  <2>1. PICK a \in anchors : a.id \in ids /\ o = Opportunity(s.policy, a, tape, n)
    BY <1>4
  <2>2. o.decision = n /\ o.at \in Nat /\ n > Warmup
    BY <1>2, <1>5, <2>1
  <2>3. Warmup \in Nat /\ Response \in Nat
    BY SchedulerAssumption
  <2>4. InTime(s, o, n) <=> ~(s.policy = "E1" /\ o.decision - o.at > Response)
    BY <2>2, <2>3 DEF InTime
  <2>5. ~(o.decision <= Warmup)
    BY <2>2, <2>3
  <2> QED BY <2>4, <2>5, Zenon DEF Early
<1>9. \A o \in new : o \in cands <=> InTime(s, o, n)
  BY <1>8
<1>10. \A o \in new, p \in new : InTime(s, o, n) /\ InTime(s, p, n) => o = p
  <2> SUFFICES ASSUME NEW o \in new, NEW p \in new, InTime(s, o, n), InTime(s, p, n) PROVE o = p
    OBVIOUS
  <2>1. PICK a \in anchors : a.id \in ids /\ o = Opportunity(s.policy, a, tape, n)
    BY <1>4
  <2>2. PICK b \in anchors : b.id \in ids /\ p = Opportunity(s.policy, b, tape, n)
    BY <1>4
  <2>3. o.at = a.at /\ p.at = b.at
    BY <1>5, <2>1, <2>2
  <2>4. InTime(s, a, n) /\ InTime(s, b, n)
    BY <2>3 DEF InTime
  <2>5. a = b
    BY <1>2, <2>1, <2>2, <2>4
  <2> QED BY <2>1, <2>2, <2>5
<1>11. ~both
  <2> SUFFICES ASSUME both PROVE FALSE
    OBVIOUS
  <2>1. PICK o \in cands : o.side = "buy"
    BY DEF Side
  <2>2. PICK p \in cands : p.side = "sell"
    BY DEF Side
  <2>3. o = p
    BY <1>9, <1>10
  <2> QED BY <2>1, <2>2, <2>3
<1>12. Occupied(s, n) <=> Held(s)
  BY DEF Occupied
<1>13. reason = IF Held(s) THEN "blocked_in_position" ELSE ""
  <2> HIDE DEF both
  <2> QED BY <1>11, <1>12, Zenon
<1> HIDE DEF cands, reason
<1>14. /\ t = [f \in RunFields |-> t[f]]
       /\ t.anchors = anchors /\ t.policy = s.policy /\ t.refusal = s.refusal /\ t.ended = s.ended
       /\ t.trades = s.trades /\ t.pos = s.pos
       /\ t.opportunities = s.opportunities \cup decided
       /\ t.pending = IF cands = {} \/ reason # "" THEN s.pending ELSE (CHOOSE o \in cands : TRUE).id
  <2>1. refusal = s.refusal
    BY <1>3
  <2> HIDE DEF kept, pending, refusal, ids, decided
  <2>3. /\ t = [f \in RunFields |-> t[f]]
        /\ t.anchors = anchors /\ t.policy = s.policy /\ t.refusal = refusal /\ t.ended = s.ended
        /\ t.trades = s.trades /\ t.pos = s.pos
        /\ t.opportunities = kept /\ t.pending = pending
    BY <1>1 DEF RunFields
  <2> QED BY <2>1, <2>3 DEF kept, pending
<1>15. /\ t.pending = NoId \/ (~Held(s) /\ \E o \in new : t.pending = o.id /\ InTime(s, o, n))
       /\ \A o \in new : InTime(s, o, n) /\ ~Held(s) => t.pending = o.id
  <2>1. CASE cands = {} \/ Held(s)
    BY <1>9, <1>13, <1>14, <2>1
  <2>2. CASE cands # {} /\ ~Held(s)
    <3>1. PICK o \in cands : o = CHOOSE p \in cands : TRUE
      BY <2>2
    <3>2. t.pending = o.id /\ o \in new /\ InTime(s, o, n)
      BY <1>9, <1>13, <1>14, <2>2, <3>1 DEF cands
    <3> QED BY <1>10, <2>2, <3>2
  <2> QED BY <2>1, <2>2
<1>16. \A o \in new : RuledAs(s, t, o, Ruling(o))
  <2> SUFFICES ASSUME NEW o \in new PROVE RuledAs(s, t, o, Ruling(o))
    OBVIOUS
  <2>1. o = [f \in OppFields |-> o[f]] /\ o.decision = n /\ o.status = "pending" /\ o.reason = ""
    BY <1>6 DEF IsNew
  <2>2. CASE ~InTime(s, o, n)
    <3>1. Ruling(o) = [o EXCEPT !.status = "rejected", !.reason = "signal_expired"]
      BY <1>8, <1>9, <2>2
    <3> HIDE DEF Ruling
    <3>2. IsSettled(o, Ruling(o), "rejected", "signal_expired")
      BY <2>1, <3>1 DEF IsSettled, OppFields
    <3> QED BY <2>1, <2>2, <3>2 DEF RuledAs
  <2>3. CASE InTime(s, o, n) /\ Held(s)
    <3>1. Ruling(o) = [o EXCEPT !.status = "rejected", !.reason = "blocked_in_position"]
      BY <1>9, <1>13, <2>3
    <3> HIDE DEF Ruling
    <3>2. IsSettled(o, Ruling(o), "rejected", "blocked_in_position")
      BY <2>1, <3>1 DEF IsSettled, OppFields
    <3> QED BY <2>1, <2>3, <3>2 DEF RuledAs
  <2>4. CASE InTime(s, o, n) /\ ~Held(s)
    <3>1. Ruling(o) = o
      BY <1>9, <1>13, <2>4
    <3> HIDE DEF Ruling
    <3>2. IsSettled(o, Ruling(o), "pending", "")
      BY <2>1, <3>1 DEF IsSettled
    <3>3. t.pending = Ruling(o).id
      BY <1>15, <2>4, <3>1
    <3> QED BY <2>1, <2>4, <3>2, <3>3 DEF RuledAs
  <2> QED BY <2>2, <2>3, <2>4
<1>17. \E rule : /\ t.opportunities = s.opportunities \cup {rule[o] : o \in new}
                 /\ \A o \in new : RuledAs(s, t, o, rule[o])
  <2> DEFINE rule == [o \in new |-> Ruling(o)]
  <2> HIDE DEF Ruling
  <2>1. \A o \in new : rule[o] = Ruling(o)
    OBVIOUS
  <2> HIDE DEF rule
  <2>2. {rule[o] : o \in new} = decided
    BY <2>1
  <2>3. \A o \in new : RuledAs(s, t, o, rule[o])
    BY <1>16, <2>1
  <2> HIDE DEF decided
  <2>4. t.opportunities = s.opportunities \cup {rule[o] : o \in new}
    BY <1>14, <2>2
  <2> QED BY <2>3, <2>4
<1> HIDE DEF decided, ids
<1>18. News(s, tape, n, signals) = new
  BY Zenon DEF News, new, ids, all, anchors
<1>19. Ruled(s, t, tape, n, signals)
  BY <1>6, <1>7, <1>10, <1>14, <1>15, <1>17, <1>18, Zenon DEF Ruled, anchors
<1> QED BY <1>19 DEF t

LEMMA NewKept ==
  ASSUME NEW s, NEW t, NEW tape, NEW n \in Nat, NEW signals, NEW o, NEW q,
         Answerable(s, n, signals), IsNew(s, tape, n, signals, o), RuledAs(s, t, o, q), n > 0,
         ~s.ended, t.ended = s.ended, t.policy = s.policy, t.trades = s.trades, t.pos = s.pos,
         TradesKept(s, n), \A id : Owns(s, id) => Noted(s, id),
         t.pending = o.id => ~Held(s) /\ InTime(s, o, n)
  PROVE  OppKept(t, tape, n, n, q) /\ q.id = o.id /\ q.decision = n
<1>1. PICK a \in WithAnchors(s, n, signals) : a.id = o.id /\ a.at = o.at /\ o.side = a.id[1]
  BY DEF IsNew
<1>2. a.at \in Nat /\ a.id[1] \in Side /\ a.id = <<a.id[1], a.id[2]>>
  BY DEF Answerable
<1>3. /\ q = [f \in OppFields |-> q[f]] /\ q.id = o.id /\ q.side = o.side /\ q.at = o.at
      /\ q.decision = n
  BY DEF RuledAs, IsSettled, IsNew
<1>4. ~Owns(s, o.id)
  BY DEF IsNew
<1>5. ~Owns(t, q.id) /\ EnteredAt(t, q.id, n + 1)
  <2>1. Held(t) <=> Held(s)
    BY DEF Held
  <2> QED BY <1>3, <1>4, <2>1 DEF Owns, EnteredAt
<1>6. Spans(t, n) <=> Held(s)
  <2>1. Held(t) <=> Held(s)
    BY DEF Held
  <2>2. Held(s) => s.pos.from <= n
    BY DEF TradesKept
  <2>3. \A k \in DOMAIN s.trades : ~(n < s.trades[k].to)
    BY DEF TradesKept
  <2> QED BY <2>1, <2>2, <2>3, Zenon DEF Spans
<1>7. InTime(s, o, n) <=> ~(t.policy = "E1" /\ q.decision - q.at > Response)
  <2>1. Response \in Nat
    BY SchedulerAssumption
  <2> QED BY <1>1, <1>2, <1>3, <2>1 DEF InTime
<1>8. q.id # NoId
  <2> SUFFICES ASSUME q.id = NoId PROVE FALSE
    OBVIOUS
  <2>1. <<a.id[1], a.id[2]>> = <<"", None>>
    BY <1>1, <1>2, <1>3 DEF NoId
  <2>2. a.id[1] = ""
    BY <2>1
  <2> QED BY <1>2, <2>2 DEF Side
<1>9. q.side \in Side /\ q.id = <<q.side, q.id[2]>> /\ q.at \in Nat /\ q.decision \in 1 .. n
  <2>1. q.side = a.id[1] /\ q.id = a.id /\ q.at = a.at
    BY <1>1, <1>3
  <2>2. q.decision \in 1 .. n
    BY <1>3
  <2>3. q.id = <<q.side, q.id[2]>>
    BY <1>2, <2>1
  <2> QED BY <1>2, <2>1, <2>2, <2>3
<1>10. o.decision = n
  BY DEF IsNew
<1>11. CASE ~InTime(s, o, n) /\ q.status = "rejected" /\ q.reason = "signal_expired"
  <2>1. t.pending # q.id
    BY <1>3, <1>11
  <2>2. Decided(t, tape, n, n, q)
    BY <1>11 DEF Decided
  <2> QED BY <1>3, <1>5, <1>7, <1>9, <1>11, <2>1, <2>2 DEF OppKept
<1>12. CASE InTime(s, o, n) /\ Held(s) /\ q.status = "rejected" /\ q.reason = "blocked_in_position"
  <2>1. t.pending # q.id
    BY <1>3, <1>12
  <2>2. Decided(t, tape, n, n, q)
    BY <1>12 DEF Decided
  <2> QED BY <1>3, <1>5, <1>6, <1>7, <1>9, <1>12, <2>1, <2>2 DEF OppKept
<1>13. CASE InTime(s, o, n) /\ ~Held(s) /\ q.status = "pending" /\ q.reason = "" /\ t.pending = q.id
  <2>1. Decided(t, tape, n, n, q)
    BY <1>3, <1>13 DEF Decided
  <2> QED BY <1>3, <1>5, <1>6, <1>7, <1>9, <1>13, <2>1 DEF OppKept
<1>14. \/ ~InTime(s, o, n) /\ q.status = "rejected" /\ q.reason = "signal_expired"
       \/ InTime(s, o, n) /\ Held(s) /\ q.status = "rejected" /\ q.reason = "blocked_in_position"
       \/ InTime(s, o, n) /\ ~Held(s) /\ q.status = "pending" /\ q.reason = "" /\ t.pending = q.id
  BY <1>10 DEF RuledAs, IsSettled
<1> QED BY <1>11, <1>12, <1>13, <1>14

LEMMA OldKept ==
  ASSUME NEW s, NEW t, NEW tape, NEW n \in Nat, NEW m \in Nat, n = m + 1, NEW o,
         OppKept(s, tape, m, n, o), ~s.ended, s.pending = NoId, t.pending # o.id,
         t.ended = s.ended, t.policy = s.policy, t.trades = s.trades, t.pos = s.pos
  PROVE  OppKept(t, tape, n, n, o)
<1>1. o.id # NoId
  BY NamedId
<1>2. o.status # "pending"
  BY <1>1 DEF OppKept
<1>3. Decided(t, tape, n, n, o)
  <2>1. Decided(s, tape, m, n, o)
    BY DEF OppKept
  <2> QED BY <1>2, <2>1 DEF Decided
<1>4. Held(t) <=> Held(s)
  BY DEF Held
<1>5. /\ Spans(t, o.decision) <=> Spans(s, o.decision)
      /\ Owns(t, o.id) <=> Owns(s, o.id)
      /\ EnteredAt(t, o.id, o.decision + 1) <=> EnteredAt(s, o.id, o.decision + 1)
  BY <1>4 DEF Spans, Owns, EnteredAt
<1>6. o.decision \in 1 .. n
  BY DEF OppKept
<1> QED BY <1>2, <1>3, <1>5, <1>6 DEF OppKept

LEMMA AcceptKeeps ==
  ASSUME NEW s, NEW tape, NEW m \in Nat, NEW n, n = m + 1, NEW signals,
         AuditKept(s, tape, m, n), s.pending = NoId, ~s.ended, Answerable(s, n, signals)
  PROVE  LET t == Accept(s, tape, n, signals)
         IN AuditKept(t, tape, n, n) /\ Accepted(s, t, n, signals)
<1> DEFINE t     == Accept(s, tape, n, signals)
           found == s.opportunities
           news  == News(s, tape, n, signals)
<1>0. n \in Nat /\ n > 0 /\ s = [f \in RunFields |-> s[f]] /\ TradesKept(s, n)
  BY DEF AuditKept
<1>1. /\ t = [f \in RunFields |-> t[f]]
      /\ t.anchors = WithAnchors(s, n, signals)
      /\ t.policy = s.policy /\ t.refusal = s.refusal /\ t.ended = s.ended
      /\ t.trades = s.trades /\ t.pos = s.pos
      /\ \A o \in news : IsNew(s, tape, n, signals, o)
      /\ \A o, p \in news : o.id = p.id => o = p
      /\ \E rule : /\ t.opportunities = found \cup {rule[o] : o \in news}
                   /\ \A o \in news : RuledAs(s, t, o, rule[o])
      /\ t.pending = NoId \/ (~Held(s) /\ \E o \in news : t.pending = o.id /\ InTime(s, o, n))
      /\ \A o, p \in news : InTime(s, o, n) /\ InTime(s, p, n) => o = p
  <2>1. Ruled(s, t, tape, n, signals)
    BY <1>0, AcceptRules
  <2> QED BY <2>1, Zenon DEF Ruled
<1>2. \A id \in CandidateIds(s, signals) : ~Noted(s, id) => \E o \in news : o.id = id
  <2> SUFFICES ASSUME NEW id \in CandidateIds(s, signals), ~Noted(s, id) PROVE \E o \in news : o.id = id
    OBVIOUS
  <2>1. PICK a \in WithAnchors(s, n, signals) : a.id = id
    BY Zenon DEF Answerable
  <2>2. id \notin {o.id : o \in found}
    BY DEF Noted
  <2>3. Opportunity(s.policy, a, tape, n) \in news
    BY <2>1, <2>2, Zenon DEF News
  <2>4. Opportunity(s.policy, a, tape, n).id = a.id
    BY DEF Opportunity
  <2> QED BY <2>1, <2>3, <2>4
<1> HIDE DEF t, news
<1>3. PICK rule : /\ t.opportunities = found \cup {rule[o] : o \in news}
                  /\ \A o \in news : RuledAs(s, t, o, rule[o])
  BY <1>1
<1>4. \A id : Owns(s, id) => Noted(s, id)
  BY OwnedNoted
<1>5. \A o \in news : /\ OppKept(t, tape, n, n, rule[o])
                      /\ rule[o].id = o.id /\ rule[o].decision = n /\ ~Noted(s, o.id)
                      /\ o.id \in CandidateIds(s, signals)
  <2> SUFFICES ASSUME NEW o \in news
               PROVE  /\ OppKept(t, tape, n, n, rule[o])
                      /\ rule[o].id = o.id /\ rule[o].decision = n /\ ~Noted(s, o.id)
                      /\ o.id \in CandidateIds(s, signals)
    OBVIOUS
  <2>1. IsNew(s, tape, n, signals, o) /\ RuledAs(s, t, o, rule[o])
    BY <1>1, <1>3
  <2>2. ~Noted(s, o.id) /\ o.id \in CandidateIds(s, signals)
    BY <2>1 DEF IsNew
  <2>3. t.pending = o.id => ~Held(s) /\ InTime(s, o, n)
    <3> SUFFICES ASSUME t.pending = o.id PROVE ~Held(s) /\ InTime(s, o, n)
      OBVIOUS
    <3>1. CASE t.pending = NoId
      <4>1. PICK a \in WithAnchors(s, n, signals) : a.id = o.id
        BY <2>1 DEF IsNew
      <4>2. a.id[1] \in Side /\ <<a.id[1], a.id[2]>> = <<"", None>>
        BY <3>1, <4>1, Zenon DEF Answerable, NoId
      <4>3. a.id[1] = ""
        BY <4>2
      <4> QED BY <4>2, <4>3 DEF Side
    <3>2. CASE ~Held(s) /\ \E p \in news : t.pending = p.id /\ InTime(s, p, n)
      BY <1>1, <3>2
    <3> QED BY <1>1, <3>1, <3>2
  <2>4. OppKept(t, tape, n, n, rule[o]) /\ rule[o].id = o.id /\ rule[o].decision = n
    BY <1>0, <1>1, <1>4, <2>1, <2>3, NewKept
  <2> QED BY <2>2, <2>4
<1>6. \A o \in found : OppKept(t, tape, n, n, o)
  <2> SUFFICES ASSUME NEW o \in found PROVE OppKept(t, tape, n, n, o)
    OBVIOUS
  <2>1. OppKept(s, tape, m, n, o)
    BY DEF AuditKept
  <2>2. t.pending # o.id
    <3>1. Noted(s, o.id)
      BY DEF Noted
    <3>2. o.id # NoId
      BY <2>1, NamedId
    <3> QED BY <1>1, <1>5, <3>1, <3>2
  <2> QED BY <1>0, <1>1, <2>1, <2>2, OldKept
<1>7. \A o \in t.opportunities : o \in found \/ \E p \in news : o = rule[p]
  BY <1>3
<1>8. \A o, p \in t.opportunities : o.id = p.id => o = p
  <2> SUFFICES ASSUME NEW o \in t.opportunities, NEW p \in t.opportunities, o.id = p.id PROVE o = p
    OBVIOUS
  <2>1. CASE o \in found /\ p \in found
    BY <2>1 DEF AuditKept
  <2>2. CASE o \in found /\ \E r \in news : p = rule[r]
    BY <1>5, <2>2 DEF Noted
  <2>3. CASE p \in found /\ \E r \in news : o = rule[r]
    BY <1>5, <2>3 DEF Noted
  <2>4. CASE (\E r \in news : o = rule[r]) /\ \E r \in news : p = rule[r]
    <3>1. PICK r \in news : o = rule[r]
      BY <2>4
    <3>2. PICK q \in news : p = rule[q]
      BY <2>4
    <3>3. r.id = q.id
      BY <1>5, <3>1, <3>2
    <3>4. r = q
      BY <1>1, <3>3
    <3> QED BY <3>1, <3>2, <3>4
  <2> QED BY <1>7, <2>1, <2>2, <2>3, <2>4
<1>9. \A o \in t.opportunities : OppKept(t, tape, n, n, o)
  BY <1>5, <1>6, <1>7
<1>10. \A id : Noted(t, id) <=> Noted(s, id) \/ id \in CandidateIds(s, signals)
  <2> SUFFICES ASSUME NEW id PROVE Noted(t, id) <=> Noted(s, id) \/ id \in CandidateIds(s, signals)
    OBVIOUS
  <2>1. ASSUME Noted(t, id) PROVE Noted(s, id) \/ id \in CandidateIds(s, signals)
    BY <1>5, <1>7, <2>1 DEF Noted
  <2>2. ASSUME Noted(s, id) PROVE Noted(t, id)
    BY <1>3, <2>2 DEF Noted
  <2>3. ASSUME id \in CandidateIds(s, signals), ~Noted(s, id) PROVE Noted(t, id)
    BY <1>2, <1>3, <1>5, <2>3 DEF Noted
  <2> QED BY <2>1, <2>2, <2>3
<1>11. \A id, d : ToldAt(s, id, d) => ToldAt(t, id, d)
  BY <1>3 DEF ToldAt
<1>12. \A id \in CandidateIds(s, signals) : ~Noted(s, id) => ToldAt(t, id, n)
  <2> SUFFICES ASSUME NEW id \in CandidateIds(s, signals), ~Noted(s, id) PROVE ToldAt(t, id, n)
    OBVIOUS
  <2>1. PICK o \in news : o.id = id
    BY <1>2
  <2>2. rule[o] \in t.opportunities
    BY <1>3
  <2> QED BY <1>5, <2>1, <2>2 DEF ToldAt
<1>13. t.pending # NoId => Noted(t, t.pending) /\ ~Held(t)
  <2>1. Held(t) <=> Held(s)
    BY <1>1 DEF Held
  <2> QED BY <1>1, <1>5, <1>10, <2>1
<1>14. TradesKept(t, n) /\ (\A k \in DOMAIN t.trades : Noted(t, t.trades[k].id))
       /\ (Held(t) => Noted(t, t.pos.id))
  <2>1. Held(t) <=> Held(s)
    BY <1>1 DEF Held
  <2>2. TradesKept(t, n)
    BY <1>0, <1>1, <2>1 DEF TradesKept
  <2>3. \A id : Owns(t, id) => Owns(s, id)
    BY <1>1, <2>1 DEF Owns
  <2>4. \A id : Owns(t, id) => Noted(t, id)
    BY <1>4, <1>10, <2>3
  <2> QED BY <2>2, <2>4 DEF Owns
<1>15. AuditKept(t, tape, n, n)
  BY <1>1, <1>8, <1>9, <1>13, <1>14 DEF AuditKept
<1>16. Accepted(s, t, n, signals)
  BY <1>1, <1>10, <1>11, <1>12, Zenon DEF Accepted
<1> QED BY <1>15, <1>16 DEF t

-------------------------------------------------------------------------------
(* What a bar does to a side: s before it, u after the Setup phase, d its   *)
(* Countdown after the cancellations, c after the Countdown phase, w in the *)
(* end.                                                                    *)
SetupMoved(s, u, open, index) ==
  IF u.run = SetupCount
  THEN /\ u.setup # NoSetup /\ u.setup.episode = open
       /\ u.setup.perfected => u.setup.perfectedAt = index
       /\ IF Unfinished(s.countdown) THEN u.countdown = s.countdown
          ELSE u.countdown.state = "active" /\ u.countdown.episode = open
  ELSE /\ u.countdown = s.countdown
       /\ \/ u.setup = s.setup
          \/ /\ s.setup # NoSetup /\ ~s.setup.perfected
             /\ u.setup # NoSetup /\ u.setup # s.setup /\ u.setup.episode = s.setup.episode
             /\ u.setup.perfected /\ u.setup.perfectedAt = index
CountMoved(u, d, c, w, index) ==
  /\ d = u.countdown \/ d.state = "idle"
  /\ \/ c = d
     \/ /\ Unfinished(d) /\ c.episode = d.episode
        /\ Unfinished(c) \/ (c.state = "completed" /\ c.bar13 = index)
  /\ w.setup = u.setup
  /\ w.countdown = c \/ w.countdown.state = "idle"

Perfecting(s, u) == u.setup.perfected /\ (u.run = SetupCount \/ u.setup # s.setup)
Completing(d, c) == Unfinished(d) /\ c.state = "completed"

(* The events of some types name these Setups.                             *)
Names(signals, types, id) == \E e \in signals : e.type \in types /\ id = <<e.side, e.episode>>

LEMMA SetupPhaseMoves ==
  ASSUME NEW s \in SideType, NEW x, NEW b \in KeptType, NEW hist, NEW r \in Nat, NEW index
  PROVE  LET u == SetupPhase(s, x, b, hist, r, index)
         IN u.run = r /\ SetupMoved(s, u, b.open, index)
<1> DEFINE h     == Len(hist)
           u     == SetupPhase(s, x, b, hist, r, index)
           blank == [episode |-> b.open, index |-> index, perfected |-> FALSE,
                     ref6 |-> Extreme(hist[h-2], x), ref7 |-> Extreme(hist[h-1], x),
                     perfectedAt |-> None]
           now   == Perfects(Extreme(hist[h], x), blank, x) \/ Perfects(Extreme(b, x), blank, x)
           new   == IF now THEN MarkPerfected(blank, index) ELSE blank
           late  == s.setup # NoSetup /\ ~s.setup.perfected /\ Perfects(Extreme(b, x), s.setup, x)
           old   == IF late THEN MarkPerfected(s.setup, index) ELSE s.setup
           start == [Idle EXCEPT !.state = "active", !.episode = b.open]
           count == IF Unfinished(s.countdown) THEN s.countdown ELSE start
<1>1. s.setup \in SetupType /\ b.open \in Nat
  BY DEF SideType, KeptType
<1>2. CASE r = SetupCount
  <2>1. u = [s EXCEPT !.run = r, !.setup = new, !.countdown = count]
    BY <1>2, Zenon DEF SetupPhase
  <2>2. new.episode = b.open /\ (new.perfected => new.perfectedAt = index)
    <3> HIDE DEF now
    <3>1. CASE now
      BY <3>1 DEF MarkPerfected
    <3>2. CASE ~now
      BY <3>2
    <3> QED BY <3>1, <3>2
  <2>3. start.state = "active" /\ start.episode = b.open
    BY DEF Idle
  <2> HIDE DEF u, new, start
  <2>4. u.run = r /\ u.setup = new /\ u.countdown = count
    BY <2>1 DEF SideType
  <2>5. NoSetup.episode # b.open
    BY <1>1 DEF NoSetup, None
  <2>6. u.setup # NoSetup
    BY <2>2, <2>4, <2>5
  <2> QED BY <1>2, <2>2, <2>3, <2>4, <2>6 DEF SetupMoved, u
<1>3. CASE r # SetupCount
  <2>1. u = [s EXCEPT !.run = r, !.setup = old]
    BY <1>3, Zenon DEF SetupPhase
  <2> HIDE DEF u
  <2>2. u.run = r /\ u.setup = old /\ u.countdown = s.countdown
    <3> HIDE DEF old
    <3> QED BY <2>1 DEF SideType
  <2>3. CASE late
    <3> HIDE DEF late
    <3>1. old = [s.setup EXCEPT !.perfected = TRUE, !.perfectedAt = index]
      BY <2>3 DEF MarkPerfected
    <3>2. old.perfected = TRUE /\ old.perfectedAt = index /\ old.episode = s.setup.episode
      BY <1>1, <3>1 DEF SetupType
    <3>3. s.setup # NoSetup /\ ~s.setup.perfected
      BY <2>3 DEF late
    <3>4. NoSetup.perfected = FALSE
      BY DEF NoSetup
    <3> QED BY <1>3, <2>2, <3>2, <3>3, <3>4 DEF SetupMoved, u
  <2>4. CASE ~late
    BY <1>3, <2>2, <2>4 DEF SetupMoved, u
  <2> QED BY <2>3, <2>4
<1> QED BY <1>2, <1>3

LEMMA CountPhaseMoves ==
  ASSUME NEW d \in CountdownType, NEW x, NEW b, NEW hist, NEW index
  PROVE  LET c == AdvanceCountdown(d, x, b, hist, index)
         IN /\ \/ c = d
               \/ /\ Unfinished(d) /\ c.episode = d.episode
                  /\ Unfinished(c) \/ (c.state = "completed" /\ c.bar13 = index)
            /\ \A id : Names(CountdownEvents(d, c, x, b, hist), {"countdown_complete"}, id)
                 <=> Completing(d, c) /\ id = <<x, d.episode>>
<1> DEFINE c == AdvanceCountdown(d, x, b, hist, index)
<1>1. Qualifies(d, x, b, hist) => Unfinished(d)
  BY DEF Qualifies
<1>2. CASE ~Qualifies(d, x, b, hist)
  <2>1. c = d
    BY <1>2 DEF AdvanceCountdown
  <2>2. ~Completing(d, c)
    BY <2>1 DEF Completing, Unfinished
  <2>3. CountdownEvents(d, c, x, b, hist) = {}
    BY <1>2 DEF CountdownEvents
  <2> HIDE DEF c
  <2> QED BY <2>1, <2>2, <2>3 DEF Names, c
<1>3. CASE Qualifies(d, x, b, hist) /\ TerminalOK(d, x, b)
  <2> DEFINE n   == d.count + 1
             v5  == IF n = FirstRef THEN index ELSE d.bar5
             v8  == IF n = DeferRef THEN index ELSE d.bar8
             vc  == IF n = DeferRef THEN b.C ELSE d.bar8Close
             v13 == IF n = CountdownCount THEN index ELSE d.bar13
             vs  == IF n = CountdownCount THEN "completed" ELSE d.state
  <2>1. c = Counted(d, b, index)
    BY <1>3 DEF AdvanceCountdown
  <2>2. c = [d EXCEPT !.count = n, !.bar5 = v5, !.bar8 = v8, !.bar8Close = vc, !.bar13 = v13, !.state = vs]
    BY <2>1, Zenon DEF Counted
  <2> HIDE DEF c, v5, v8, vc, v13, vs, n
  <2>3. c.count = n /\ c.episode = d.episode /\ c.state = vs /\ c.bar13 = v13
    BY <2>2 DEF CountdownType
  <2>4. n # d.count
    BY DEF n, CountdownType
  <2>5. Unfinished(c) \/ (c.state = "completed" /\ c.bar13 = index)
    BY <1>1, <1>3, <2>3 DEF vs, v13, Unfinished
  <2>6. CountdownEvents(d, c, x, b, hist) =
          {Event("countdown_count", x, d.episode)}
            \cup (IF c.state = "completed" THEN {Event("countdown_complete", x, d.episode)} ELSE {})
    BY <1>3, <2>3, <2>4 DEF CountdownEvents
  <2>7. \A id : Names(CountdownEvents(d, c, x, b, hist), {"countdown_complete"}, id)
                 <=> Completing(d, c) /\ id = <<x, d.episode>>
    <3>1. CASE c.state = "completed"
      <4>1. CountdownEvents(d, c, x, b, hist) =
              {Event("countdown_count", x, d.episode), Event("countdown_complete", x, d.episode)}
        BY <2>6, <3>1
      <4> QED BY <1>1, <1>3, <3>1, <4>1 DEF Names, Completing, Event
    <3>2. CASE c.state # "completed"
      <4>1. CountdownEvents(d, c, x, b, hist) = {Event("countdown_count", x, d.episode)}
        BY <2>6, <3>2
      <4> QED BY <3>2, <4>1 DEF Names, Completing, Event
    <3> QED BY <3>1, <3>2
  <2> QED BY <1>1, <1>3, <2>3, <2>5, <2>7 DEF c
<1>4. CASE Qualifies(d, x, b, hist) /\ ~TerminalOK(d, x, b)
  <2>1. c = [d EXCEPT !.state = "deferred"]
    BY <1>4 DEF AdvanceCountdown
  <2> HIDE DEF c
  <2>2. c.state = "deferred" /\ c.episode = d.episode /\ c.count = d.count
    BY <2>1 DEF CountdownType
  <2>3. CountdownEvents(d, c, x, b, hist) = {Event("countdown_defer", x, d.episode)}
    BY <1>4, <2>2 DEF CountdownEvents
  <2>4. Unfinished(c) /\ ~Completing(d, c)
    BY <2>2 DEF Unfinished, Completing
  <2> QED BY <1>1, <1>4, <2>2, <2>3, <2>4 DEF Names, Event, c
<1> QED BY <1>2, <1>3, <1>4

LEMMA SetupNames ==
  ASSUME NEW s, NEW u, NEW x, NEW open, NEW index, SetupMoved(s, u, open, index)
  PROVE  LET events1 == SetupEvents(s, u, x)
         IN \A id : /\ Names(events1, {"setup_complete"}, id) <=> u.run = SetupCount /\ id = <<x, open>>
                    /\ Names(events1, {"perfection", "delayed_perfection"}, id)
                         <=> Perfecting(s, u) /\ id = <<x, u.setup.episode>>
                    /\ ~Names(events1, {"countdown_complete"}, id)
<1> DEFINE signals == SetupEvents(s, u, x)
           e == u.setup.episode
<1>1. CASE u.run = SetupCount /\ u.setup.perfected
  <2>1. signals = {Event("setup_complete", x, e), Event("perfection", x, e)}
                  \cup (IF Unfinished(s.countdown) THEN {} ELSE {Event("countdown_start", x, e)})
    BY <1>1 DEF SetupEvents
  <2>2. e = open
    BY <1>1 DEF SetupMoved
  <2> HIDE DEF signals
  <2>3. CASE Unfinished(s.countdown)
    <3>1. signals = {Event("setup_complete", x, e), Event("perfection", x, e)}
      BY <2>1, <2>3
    <3> QED BY <1>1, <2>2, <3>1 DEF Names, Event, Perfecting, signals
  <2>4. CASE ~Unfinished(s.countdown)
    <3>1. signals = {Event("setup_complete", x, e), Event("perfection", x, e), Event("countdown_start", x, e)}
      BY <2>1, <2>4
    <3> QED BY <1>1, <2>2, <3>1 DEF Names, Event, Perfecting, signals
  <2> QED BY <2>3, <2>4
<1>2. CASE u.run = SetupCount /\ ~u.setup.perfected
  <2>1. signals = {Event("setup_complete", x, e)}
                  \cup (IF Unfinished(s.countdown) THEN {} ELSE {Event("countdown_start", x, e)})
    BY <1>2 DEF SetupEvents
  <2>2. e = open
    BY <1>2 DEF SetupMoved
  <2> HIDE DEF signals
  <2>3. CASE Unfinished(s.countdown)
    <3>1. signals = {Event("setup_complete", x, e)}
      BY <2>1, <2>3
    <3> QED BY <1>2, <2>2, <3>1 DEF Names, Event, Perfecting, signals
  <2>4. CASE ~Unfinished(s.countdown)
    <3>1. signals = {Event("setup_complete", x, e), Event("countdown_start", x, e)}
      BY <2>1, <2>4
    <3> QED BY <1>2, <2>2, <3>1 DEF Names, Event, Perfecting, signals
  <2> QED BY <2>3, <2>4
<1>3. CASE u.run # SetupCount /\ u.setup # s.setup
  <2>1. signals = {Event("delayed_perfection", x, e)}
    BY <1>3 DEF SetupEvents
  <2>2. Perfecting(s, u)
    BY <1>3 DEF SetupMoved, Perfecting
  <2> HIDE DEF signals
  <2> QED BY <1>3, <2>1, <2>2 DEF Names, Event, signals
<1>4. CASE u.run # SetupCount /\ u.setup = s.setup
  <2>1. signals = {}
    BY <1>4 DEF SetupEvents
  <2> HIDE DEF signals
  <2> QED BY <1>4, <2>1 DEF Names, Perfecting, signals
<1> QED BY <1>1, <1>2, <1>3, <1>4

(* What a bar that is no gap does to both sides, and what its events say.   *)
Moves(s0, s1, d2, c3, ss, open, index) ==
  \A x \in Side :
    /\ SetupMoved(s0[x], s1[x], open, index)
    /\ CountMoved(s1[x], d2[x], c3[x], ss[x], index)
    /\ s1[Other(x)].run = SetupCount => ~Unfinished(d2[x])
Signalled(s0, s1, d2, c3, signals, open) ==
  \A id :
    /\ Names(signals, {"setup_complete"}, id)
         <=> \E x \in Side : s1[x].run = SetupCount /\ id = <<x, open>>
    /\ Names(signals, {"perfection", "delayed_perfection"}, id)
         <=> \E x \in Side : Perfecting(s0[x], s1[x]) /\ id = <<x, s1[x].setup.episode>>
    /\ Names(signals, {"countdown_complete"}, id)
         <=> \E x \in Side : Completing(d2[x], c3[x]) /\ id = <<x, d2[x].episode>>


LEMMA EventsSignal ==
  ASSUME NEW s0, NEW s1, NEW s2, NEW d2, NEW c3, NEW b, NEW hist, NEW open, NEW index,
         \A x \in Side : SetupMoved(s0[x], s1[x], open, index),
         \A x \in Side : \A id : Names(CountdownEvents(s2[x].countdown, c3[x], x, b, hist), {"countdown_complete"}, id)
                              <=> Completing(d2[x], c3[x]) /\ id = <<x, d2[x].episode>>
  PROVE  Signalled(s0, s1, d2, c3, BarEvents(s0, s1, s2, c3, b, hist), open)
<1> DEFINE setup(x) == SetupEvents(s0[x], s1[x], x)
           count(x) == CountdownEvents(s2[x].countdown, c3[x], x, b, hist)
           E3 == {Event("countdown_cancel", x, s1[x].countdown.episode) : x \in {y \in Side : Cancels(s1, y)}}
           E5 == {Event("countdown_recycle", x, c3[x].episode) : x \in {y \in Side : Recycles(s2[y], c3[y])}}
           signals == BarEvents(s0, s1, s2, c3, b, hist)
           all == {"setup_complete", "perfection", "delayed_perfection", "countdown_complete"}
<1>1. signals = (UNION {setup(x) : x \in Side}) \cup E3 \cup (UNION {count(x) : x \in Side}) \cup E5
  BY Zenon DEF BarEvents
<1>2. (\A e \in E3 : e.type = "countdown_cancel") /\ \A e \in E5 : e.type = "countdown_recycle"
  BY DEF Event
<1>3. \A x : \A e \in count(x) : e.type \in {"countdown_defer", "countdown_count", "countdown_complete"}
  BY DEF CountdownEvents, Event
<1>4. \A x \in Side : \A id :
        /\ Names(setup(x), {"setup_complete"}, id) <=> s1[x].run = SetupCount /\ id = <<x, open>>
        /\ Names(setup(x), {"perfection", "delayed_perfection"}, id)
             <=> Perfecting(s0[x], s1[x]) /\ id = <<x, s1[x].setup.episode>>
        /\ ~Names(setup(x), {"countdown_complete"}, id)
  BY SetupNames
<1>5. \A x \in Side : \A id :
        Names(count(x), {"countdown_complete"}, id) <=> Completing(d2[x], c3[x]) /\ id = <<x, d2[x].episode>>
  OBVIOUS
<1> HIDE DEF setup, count, E3, E5, signals
<1>6. \A id, types : types \subseteq {"setup_complete", "perfection", "delayed_perfection"}
        => \A x : ~Names(count(x), types, id)
  BY <1>3 DEF Names
<1>7. ASSUME NEW id, NEW types, types \subseteq all
      PROVE  Names(signals, types, id) <=> (\E x \in Side : Names(setup(x), types, id))
                                           \/ (\E x \in Side : Names(count(x), types, id))
  <2>1. \A e : e.type \in types => e \notin E3 /\ e \notin E5
    BY <1>2, <1>7
  <2> DEFINE setups == UNION {setup(x) : x \in Side}
             counts == UNION {count(x) : x \in Side}
  <2>2. /\ Names(setups, types, id) <=> \E x \in Side : Names(setup(x), types, id)
        /\ Names(counts, types, id) <=> \E x \in Side : Names(count(x), types, id)
    BY DEF Names
  <2>3. signals = setups \cup E3 \cup counts \cup E5
    BY <1>1, Zenon
  <2> HIDE DEF setups, counts
  <2>4. Names(signals, types, id) <=> Names(setups, types, id) \/ Names(counts, types, id)
    BY <2>1, <2>3 DEF Names
  <2> QED BY <2>2, <2>4
<1>8. ASSUME NEW id
      PROVE  /\ Names(signals, {"setup_complete"}, id)
                  <=> \E x \in Side : s1[x].run = SetupCount /\ id = <<x, open>>
             /\ Names(signals, {"perfection", "delayed_perfection"}, id)
                  <=> \E x \in Side : Perfecting(s0[x], s1[x]) /\ id = <<x, s1[x].setup.episode>>
             /\ Names(signals, {"countdown_complete"}, id)
                  <=> \E x \in Side : Completing(d2[x], c3[x]) /\ id = <<x, d2[x].episode>>
  <2>1. /\ {"setup_complete"} \subseteq all /\ {"perfection", "delayed_perfection"} \subseteq all
        /\ {"countdown_complete"} \subseteq all
        /\ {"setup_complete"} \subseteq {"setup_complete", "perfection", "delayed_perfection"}
        /\ {"perfection", "delayed_perfection"} \subseteq {"setup_complete", "perfection", "delayed_perfection"}
    OBVIOUS
  <2> HIDE DEF all
  <2>2. /\ Names(signals, {"setup_complete"}, id) <=> \E x \in Side : Names(setup(x), {"setup_complete"}, id)
        /\ Names(signals, {"perfection", "delayed_perfection"}, id)
             <=> \E x \in Side : Names(setup(x), {"perfection", "delayed_perfection"}, id)
        /\ Names(signals, {"countdown_complete"}, id) <=> \E x \in Side : Names(count(x), {"countdown_complete"}, id)
    BY <1>4, <1>6, <1>7, <2>1
  <2> QED BY <1>4, <1>5, <2>2
<1> QED BY <1>8 DEF Signalled, signals

LEMMA OneMoreBar ==
  ASSUME CoreKept, NEW candle \in [O : Nat, H : Nat, L : Nat, C : Nat], NEW open \in Nat,
         lastOpen # None => open > lastOpen, bars' = Append(bars, Stamped(candle, open))
  PROVE  LastOpen(bars) < open /\ Extends(bars', bars, Stamped(candle, open))
<1> DEFINE b == Stamped(candle, open)
<1>1. b \in BarType /\ b.open = open
  BY DEF Stamped, BarType
<1>2. Tape(bars)
  BY DEF CoreKept, Segment
<1>3. LastOpen(bars) < open
  <2>1. CASE bars = <<>>
    BY <2>1 DEF LastOpen, None
  <2>2. CASE bars # <<>>
    <3>1. lastOpen = bars[Len(bars)].open
      BY <2>2 DEF CoreKept, LastOpen
    <3>2. Len(bars) \in 1 .. Len(bars)
      BY <1>2, <2>2 DEF Tape
    <3>3. bars[Len(bars)] \in BarType
      BY <1>2, <3>2 DEF Tape
    <3>4. lastOpen \in Nat
      BY <3>1, <3>3 DEF BarType
    <3> QED BY <2>2, <3>1, <3>4 DEF LastOpen, None
  <2> QED BY <2>1, <2>2
<1> HIDE DEF b
<1>4. bars' = Append(bars, b)
  BY DEF b
<1>5. Extends(bars', bars, b)
  BY <1>1, <1>2, <1>3, <1>4, Longer DEF Extends
<1> QED BY <1>3, <1>5 DEF b

LEMMA CoreMoves ==
  ASSUME CoreKept, NEW candle \in [O : Nat, H : Nat, L : Nat, C : Nat], NEW open \in Nat, NEW declared,
         lastOpen # None => open > lastOpen, Advance(candle, open, declared),
         ~IsGap(open, declared), bars' = Append(bars, Stamped(candle, open))
  PROVE  \E s1, d2, c3 :
           /\ Moves(sides, s1, d2, c3, sides', open, lastIndex')
           /\ Signalled(sides, s1, d2, c3, events', open)
           /\ \A x \in Side : s1[x].run \in Nat /\ RunKept(bars', x, s1[x].run)
<1> DEFINE kept  == [H |-> candle.H, L |-> candle.L, C |-> candle.C, open |-> open]
           gap   == IsGap(open, declared)
           index == lastIndex + 1
           hist  == IF gap THEN <<>> ELSE history
           prev  == IF gap THEN 0 ELSE previousComparison
           cmp   == Comparison(kept, hist)
           s0    == IF gap THEN [x \in Side |-> DropGap(sides[x])] ELSE sides
           r(x)  == NextRun(s0[x].run, Direction(x), cmp, prev)
           s1    == [x \in Side |-> SetupPhase(s0[x], x, kept, hist, r(x), index)]
           s2    == [x \in Side |-> IF Cancels(s1, x) THEN [s1[x] EXCEPT !.countdown = Idle] ELSE s1[x]]
           c3    == [x \in Side |-> AdvanceCountdown(s2[x].countdown, x, kept, hist, index)]
           end   == [x \in Side |-> [s2[x] EXCEPT !.countdown = IF Recycles(s2[x], c3[x]) THEN Idle ELSE c3[x]]]
           E0    == IF gap THEN {Event("data_gap", "both", None)}
                               \cup (UNION {GapEvents(sides[x], x) : x \in Side}) ELSE {}
           E1    == IF diagnosticsEmitted THEN {} ELSE {Event("diagnostic", "both", None)}
           E2    == BarEvents(s0, s1, s2, c3, kept, hist)
           b     == Stamped(candle, open)
<1>1. lastIndex' = index /\ sides' = end /\ events' = E0 \cup E1 \cup E2
  <2>1. lastIndex' = index
    BY Zenon DEF Advance
  <2>2. sides' = end
    BY Zenon DEF Advance
  <2>3. events' = E0 \cup E1 \cup E2
    BY Zenon DEF Advance
  <2> HIDE DEF index, end, E0, E1, E2
  <2> QED BY <2>1, <2>2, <2>3
<1>2. ~gap /\ hist = history /\ prev = previousComparison /\ s0 = sides /\ E0 = {}
  OBVIOUS
<1>3. b \in BarType /\ b.open = open /\ Kept(b) = kept /\ kept \in KeptType /\ kept.open = open
  BY DEF Stamped, BarType, Kept, KeptType
<1>4. /\ Tape(bars) /\ Remembers(history, bars) /\ previousComparison = CompAt(bars, Len(bars))
      /\ \A x \in Side : SideKept(bars, x, sides[x])
  BY DEF CoreKept, Segment
<1>5. LastOpen(bars) < b.open
  BY <1>3, OneMoreBar
<1>6. Extends(bars', bars, b)
  BY OneMoreBar
<1> HIDE DEF kept, gap, hist, prev, s0, b
<1>7. cmp = CompAt(bars', Len(bars'))
  BY <1>2, <1>3, <1>4, <1>6, ComparesOneMore
<1> HIDE DEF cmp
<1>8. ASSUME NEW x \in Side PROVE r(x) \in Nat /\ RunKept(bars', x, r(x)) /\ s0[x] \in SideType
  <2>1. s0[x] \in SideType /\ s0[x].run \in Nat /\ RunKept(bars, x, s0[x].run)
    BY <1>2, <1>4 DEF SideKept, SideType
  <2> QED BY <1>2, <1>4, <1>6, <1>7, <2>1, RunsOneMore
<1> HIDE DEF r, E0, E1, E2
<1>9. ASSUME NEW x \in Side
      PROVE  /\ s1[x].run = r(x) /\ SetupMoved(s0[x], s1[x], open, index)
             /\ s1[x] \in SideType
  <2>1. s1[x] = SetupPhase(s0[x], x, kept, hist, r(x), index)
    OBVIOUS
  <2>2. s1[x].run = r(x) /\ SetupMoved(s0[x], s1[x], open, index)
    <3> HIDE DEF s1
    <3> QED BY <1>3, <1>8, <2>1, SetupPhaseMoves
  <2>3. s1[x] \in SideType
    <3>1. LastOpen(bars) \in Int /\ LastOpen(bars) <= b.open
      <4>1. CASE bars = <<>>
        BY <1>3, <4>1 DEF LastOpen, None
      <4>2. CASE bars # <<>>
        <5>1. Len(bars) \in 1 .. Len(bars)
          BY <1>4, <4>2 DEF Tape
        <5>2. bars[Len(bars)] \in BarType
          BY <1>4, <5>1 DEF Tape
        <5> QED BY <1>3, <1>5, <4>2, <5>2 DEF LastOpen, BarType
      <4> QED BY <4>1, <4>2
    <3>2. SideKept(bars, x, s0[x]) /\ index \in Int /\ Remembers(hist, bars)
      BY <1>2, <1>4 DEF CoreKept
    <3> HIDE DEF s1, index
    <3> QED BY <1>3, <1>6, <1>8, <2>1, <3>1, <3>2, SetupsOneMore
  <2> QED BY <2>2, <2>3
<1> HIDE DEF s1, index
<1> DEFINE d2 == [x \in Side |-> s2[x].countdown]
<1>10. ASSUME NEW x \in Side
       PROVE  /\ d2[x] \in CountdownType /\ s2[x].countdown = d2[x] /\ s2[x].setup = s1[x].setup /\ s2[x] \in SideType
              /\ IF Cancels(s1, x) THEN d2[x] = Idle ELSE d2[x] = s1[x].countdown
  <2>1. s2[x] = IF Cancels(s1, x) THEN [s1[x] EXCEPT !.countdown = Idle] ELSE s1[x]
    OBVIOUS
  <2>2. d2[x] = s2[x].countdown
    OBVIOUS
  <2> HIDE DEF s2, d2
  <2>3. Idle \in CountdownType
    BY IdleKept
  <2> QED BY <1>9, <2>1, <2>2, <2>3 DEF SideType
<1>11. ASSUME NEW x \in Side
       PROVE  /\ CountMoved(s1[x], d2[x], c3[x], end[x], index)
              /\ \A id : Names(CountdownEvents(s2[x].countdown, c3[x], x, kept, hist), {"countdown_complete"}, id)
                   <=> Completing(d2[x], c3[x]) /\ id = <<x, d2[x].episode>>
  <2>1. c3[x] = AdvanceCountdown(s2[x].countdown, x, kept, hist, index)
    OBVIOUS
  <2>2. end[x] = [s2[x] EXCEPT !.countdown = IF Recycles(s2[x], c3[x]) THEN Idle ELSE c3[x]]
    OBVIOUS
  <2> HIDE DEF s2, d2, c3, end
  <2>3. end[x].setup = s1[x].setup /\ (end[x].countdown = c3[x] \/ end[x].countdown = Idle)
    BY <1>10, <2>2 DEF SideType
  <2>4. Idle.state = "idle"
    BY DEF Idle
  <2>5. /\ \/ c3[x] = d2[x]
           \/ /\ Unfinished(d2[x]) /\ c3[x].episode = d2[x].episode
              /\ Unfinished(c3[x]) \/ (c3[x].state = "completed" /\ c3[x].bar13 = index)
        /\ \A id : Names(CountdownEvents(d2[x], c3[x], x, kept, hist), {"countdown_complete"}, id)
             <=> Completing(d2[x], c3[x]) /\ id = <<x, d2[x].episode>>
    BY <1>10, <2>1, CountPhaseMoves
  <2>6. d2[x] = s1[x].countdown \/ d2[x].state = "idle"
    BY <1>10, <2>4
  <2> QED BY <1>10, <2>3, <2>4, <2>5, <2>6 DEF CountMoved
<1>12. ASSUME NEW x \in Side, s1[Other(x)].run = SetupCount PROVE ~Unfinished(d2[x])
  <2>1. ~Unfinished(Idle)
    BY DEF Idle, Unfinished
  <2> HIDE DEF d2
  <2> QED BY <1>10, <1>12, <2>1 DEF Cancels
<1>13. Moves(s0, s1, d2, c3, end, open, index)
  <2> HIDE DEF d2, c3, end, s2
  <2> QED BY <1>9, <1>11, <1>12 DEF Moves
<1>14. Signalled(s0, s1, d2, c3, events', open)
  <2>1. \A x \in Side : SetupMoved(s0[x], s1[x], open, index)
    BY <1>9
  <2>2. \A x \in Side : \A id : Names(CountdownEvents(s2[x].countdown, c3[x], x, kept, hist), {"countdown_complete"}, id)
                              <=> Completing(d2[x], c3[x]) /\ id = <<x, d2[x].episode>>
    BY <1>11
  <2> HIDE DEF d2, c3, s2, end
  <2>3. Signalled(s0, s1, d2, c3, E2, open)
    BY <2>1, <2>2, EventsSignal DEF E2
  <2>4. \A id, types : types \subseteq {"setup_complete", "perfection", "delayed_perfection", "countdown_complete"}
          => (Names(events', types, id) <=> Names(E2, types, id))
    BY <1>1, <1>2 DEF E1, Names, Event
  <2>5. \A id : /\ (Names(events', {"setup_complete"}, id) <=> Names(E2, {"setup_complete"}, id))
               /\ (Names(events', {"perfection", "delayed_perfection"}, id)
                     <=> Names(E2, {"perfection", "delayed_perfection"}, id))
               /\ (Names(events', {"countdown_complete"}, id) <=> Names(E2, {"countdown_complete"}, id))
    BY <2>4
  <2> QED BY <2>3, <2>5 DEF Signalled
<1>15. \A x \in Side : s1[x].run \in Nat /\ RunKept(bars', x, s1[x].run)
  BY <1>8, <1>9
<1>16. Moves(sides, s1, d2, c3, sides', open, lastIndex') /\ Signalled(sides, s1, d2, c3, events', open)
  <2> HIDE DEF d2, c3, s2, end
  <2> QED BY <1>1, <1>2, <1>13, <1>14
<1> HIDE DEF d2, c3, s2, end
<1> QED BY <1>15, <1>16

-------------------------------------------------------------------------------
(* The core has seen the bar b: what its signals mean to the run s.         *)
Seen(s, tape, longer, b, s0, s1, d2, c3, ss, signals) ==
  /\ Extends(longer, tape, b) /\ SignalsKept(s, tape, s0)
  /\ Moves(s0, s1, d2, c3, ss, b.open, Len(longer) - 1)
  /\ Signalled(s0, s1, d2, c3, signals, b.open)
  /\ \A x \in Side : s1[x].run \in Nat /\ RunKept(longer, x, s1[x].run)

LEMMA AnchorGrows ==
  ASSUME NEW tape, NEW longer, NEW b, Extends(longer, tape, b), NEW a, AnchorKept(tape, a)
  PROVE  AnchorKept(longer, a)
<1>1. Len(tape) \in Nat /\ Len(longer) = Len(tape) + 1
  BY DEF Extends
<1>2. a.at \in 1 .. Len(tape) /\ a.first = a.at - SetupCount + 1 /\ SetupCount \in Nat
  BY CountsAssumption DEF AnchorKept
<1>3. longer[a.at] = tape[a.at] /\ a.at \in 1 .. Len(longer)
  BY <1>1, <1>2 DEF Extends
<1>4. \A m \in a.first .. a.at : CompAt(longer, m) = CompAt(tape, m)
  <2> SUFFICES ASSUME NEW m \in a.first .. a.at PROVE CompAt(longer, m) = CompAt(tape, m)
    OBVIOUS
  <2>1. m \in Int /\ m <= Len(tape)
    BY <1>1, <1>2
  <2> QED BY <2>1, CompLocal
<1> QED BY <1>3, <1>4 DEF AnchorKept

LEMMA NewAnchorKept ==
  ASSUME NEW tape, Tape(tape), NEW x \in Side, RunKept(tape, x, SetupCount)
  PROVE  LET n == Len(tape)
         IN AnchorKept(tape, [id |-> <<x, tape[n].open>>, at |-> n, first |-> n - SetupCount + 1])
<1> DEFINE n == Len(tape)
           a == [id |-> <<x, tape[n].open>>, at |-> n, first |-> n - SetupCount + 1]
<1>1. n \in Nat /\ SetupCount \in Nat \ {0} /\ Lookback \in Nat
  BY CountsAssumption DEF Tape
<1>2. RunEnds(tape, x, SetupCount)
  BY <1>1 DEF RunKept
<1>3. /\ SetupCount < n /\ CompAt(tape, n - SetupCount) = -Direction(x)
      /\ \A m \in n - SetupCount + 1 .. n : CompAt(tape, m) = Direction(x)
  BY <1>2 DEF RunEnds
<1>4. n - SetupCount > Lookback
  BY <1>1, <1>3 DEF CompAt, Direction
<1>5. n \in 1 .. n /\ n > Lookback + SetupCount
  BY <1>1, <1>4
<1>6. a = [f \in {"id", "at", "first"} |-> a[f]] /\ a.id = <<x, tape[n].open>> /\ a.id[1] = x
      /\ a.at = n /\ a.first = n - SetupCount + 1
  OBVIOUS
<1> HIDE DEF a
<1> QED BY <1>3, <1>5, <1>6 DEF AnchorKept, a

LEMMA OneAnchor ==
  ASSUME NEW tape, Tape(tape), NEW a, NEW b, AnchorKept(tape, a), AnchorKept(tape, b), a.id = b.id
  PROVE  a = b
<1>1. /\ a = [f \in {"id", "at", "first"} |-> a[f]] /\ b = [f \in {"id", "at", "first"} |-> b[f]]
      /\ a.at \in 1 .. Len(tape) /\ b.at \in 1 .. Len(tape)
      /\ a.first = a.at - SetupCount + 1 /\ b.first = b.at - SetupCount + 1
  BY DEF AnchorKept
<1>2. tape[a.at].open = tape[b.at].open
  <2>1. a.id = <<a.id[1], tape[a.at].open>> /\ b.id = <<b.id[1], tape[b.at].open>>
    BY DEF AnchorKept
  <2>2. a.id[2] = tape[a.at].open /\ b.id[2] = tape[b.at].open
    BY <2>1
  <2> QED BY <2>2
<1>3. a.at = b.at
  <2>1. tape[a.at].open \in Nat /\ Len(tape) \in Nat
    <3>1. tape \in Seq(BarType)
      BY DEF Tape
    <3>2. tape[a.at] \in BarType
      BY <1>1, <3>1
    <3>3. tape[a.at].open \in Nat
      BY <3>2 DEF BarType
    <3>4. Len(tape) \in Nat
      BY <3>1
    <3> QED BY <3>3, <3>4
  <2>2. ~(a.at < b.at) /\ ~(b.at < a.at)
    BY <1>1, <1>2, <2>1 DEF Tape
  <2> QED BY <1>1, <2>1, <2>2
<1> QED BY <1>1, <1>3

LEMMA CandidatesAreNames ==
  ASSUME NEW s, NEW signals, NEW id
  PROVE  id \in CandidateIds(s, signals) <=>
           IF s.policy = "E1" THEN Names(signals, {"perfection", "delayed_perfection"}, id)
           ELSE Names(signals, {"countdown_complete"}, id)
BY DEF CandidateIds, Names, Triggers

LEMMA AnchorsAreNames ==
  ASSUME NEW s, NEW signals, NEW n, NEW a
  PROVE  a \in WithAnchors(s, n, signals) <=>
           \/ a \in s.anchors
           \/ \E id : /\ Names(signals, {"setup_complete"}, id)
                      /\ a = [id |-> id, at |-> n, first |-> n - SetupCount + 1]
BY DEF WithAnchors, Names

LEMMA BarAnchors ==
  ASSUME NEW s, NEW tape, NEW longer, NEW b, NEW s0, NEW s1, NEW d2, NEW c3, NEW ss, NEW signals,
         Seen(s, tape, longer, b, s0, s1, d2, c3, ss, signals)
  PROVE  LET anchors == WithAnchors(s, Len(longer), signals)
         IN /\ \A a \in anchors : AnchorKept(longer, a)
            /\ s.anchors \subseteq anchors
            /\ \A x \in Side : /\ s1[x].run = SetupCount => \E a \in anchors : a.id = <<x, b.open>>
                               /\ ~Noted(s, <<x, b.open>>)
<1> DEFINE n == Len(longer)
           anchors == WithAnchors(s, n, signals)
           anchor(x) == [id |-> <<x, b.open>>, at |-> n, first |-> n - SetupCount + 1]
<1>1. Extends(longer, tape, b) /\ SignalsKept(s, tape, s0) /\ Signalled(s0, s1, d2, c3, signals, b.open)
  BY DEF Seen
<1>2. /\ Tape(longer) /\ n = Len(tape) + 1 /\ Len(tape) \in Nat /\ longer[n] = b
      /\ \A m \in 1 .. Len(tape) : tape[m].open < b.open /\ tape[m] \in BarType
      /\ b \in BarType
  BY <1>1 DEF Extends
<1>3. \A a : a \in anchors <=> a \in s.anchors \/ \E x \in Side : s1[x].run = SetupCount /\ a = anchor(x)
  <2> HIDE DEF anchor
  <2> SUFFICES ASSUME NEW a
               PROVE  a \in anchors <=> a \in s.anchors \/ \E x \in Side : s1[x].run = SetupCount /\ a = anchor(x)
    OBVIOUS
  <2>1. a \in anchors <=> \/ a \in s.anchors
                          \/ \E id : /\ Names(signals, {"setup_complete"}, id)
                                     /\ a = [id |-> id, at |-> n, first |-> n - SetupCount + 1]
    BY AnchorsAreNames
  <2>2. \A id : Names(signals, {"setup_complete"}, id) <=> \E x \in Side : s1[x].run = SetupCount /\ id = <<x, b.open>>
    BY <1>1 DEF Signalled
  <2> HIDE DEF anchors, n
  <2> QED BY <2>1, <2>2 DEF anchor
<1>4. \A x : anchor(x).id = <<x, b.open>>
  OBVIOUS
<1>5. \A x \in Side : s1[x].run = SetupCount => AnchorKept(longer, anchor(x))
  <2> SUFFICES ASSUME NEW x \in Side, s1[x].run = SetupCount PROVE AnchorKept(longer, anchor(x))
    OBVIOUS
  <2>1. RunKept(longer, x, SetupCount)
    BY DEF Seen
  <2> QED BY <1>2, <2>1, NewAnchorKept
<1> HIDE DEF anchors, anchor, n
<1>6. \A a \in anchors : AnchorKept(longer, a)
  <2>1. \A a \in s.anchors : AnchorKept(longer, a)
    BY <1>1, AnchorGrows DEF SignalsKept
  <2> QED BY <1>3, <1>5, <2>1
<1>7. \A x \in Side : ~Noted(s, <<x, b.open>>)
  <2> SUFFICES ASSUME NEW x \in Side, Noted(s, <<x, b.open>>) PROVE FALSE
    OBVIOUS
  <2>1. PICK a \in s.anchors : a.id = <<x, b.open>>
    BY <1>1 DEF Noted, SignalsKept, Anchored
  <2>2. a.at \in 1 .. Len(tape) /\ a.id = <<a.id[1], tape[a.at].open>>
    BY <1>1 DEF SignalsKept, AnchorKept
  <2>3. tape[a.at].open = b.open
    <3>1. a.id[2] = tape[a.at].open /\ a.id[2] = b.open
      BY <2>1, <2>2
    <3> QED BY <3>1
  <2>4. tape[a.at].open < b.open /\ b.open \in Nat
    BY <1>2, <2>2 DEF BarType
  <2> QED BY <2>3, <2>4
<1>8. \A x \in Side : s1[x].run = SetupCount => \E a \in anchors : a.id = <<x, b.open>>
  BY <1>3, <1>4
<1> QED BY <1>3, <1>6, <1>7, <1>8 DEF anchors, n

(* What the signals of one side stand on.                                  *)
SideSignals(s, anchors, u0, u, d, x, index) ==
  /\ u.setup # NoSetup => \E a \in anchors : a.id = <<x, u.setup.episode>>
  /\ Unfinished(d) => \E a \in anchors : a.id = <<x, d.episode>>
  /\ Perfecting(u0, u) => u.setup # NoSetup /\ u.setup.perfectedAt = index
  /\ u.setup # NoSetup /\ u.setup.perfected /\ ~Perfecting(u0, u) => u.setup = u0.setup
  /\ s.policy = "E1" /\ u.setup # NoSetup /\ (~u.setup.perfected \/ Perfecting(u0, u)) =>
       ~Noted(s, <<x, u.setup.episode>>)
  /\ s.policy # "E1" /\ Unfinished(d) => ~Noted(s, <<x, d.episode>>)

LEMMA SideSignalled ==
  ASSUME NEW s, NEW tape, NEW longer, NEW b, NEW s0, NEW s1, NEW d2, NEW c3, NEW ss, NEW signals,
         Seen(s, tape, longer, b, s0, s1, d2, c3, ss, signals), NEW x \in Side
  PROVE  SideSignals(s, WithAnchors(s, Len(longer), signals), s0[x], s1[x], d2[x], x, Len(longer) - 1)
<1> DEFINE anchors == WithAnchors(s, Len(longer), signals)
           index   == Len(longer) - 1
           u0      == s0[x]
           u       == s1[x]
           d       == d2[x]
<1>1. /\ s.anchors \subseteq anchors
      /\ u.run = SetupCount => \E a \in anchors : a.id = <<x, b.open>>
      /\ ~Noted(s, <<x, b.open>>)
  BY BarAnchors
<1>2. SetupMoved(u0, u, b.open, index) /\ (d = u.countdown \/ d.state = "idle")
  BY DEF Seen, Moves, CountMoved
<1>3. SideTold(s, x, u0)
  BY DEF Seen, SignalsKept
<1>4. Unfinished(d) => d = u.countdown
  BY <1>2 DEF Unfinished
<1>5. /\ u0.setup # NoSetup => \E a \in anchors : a.id = <<x, u0.setup.episode>>
      /\ Unfinished(u0.countdown) => \E a \in anchors : a.id = <<x, u0.countdown.episode>>
  BY <1>1, <1>3 DEF SideTold, Anchored
<1>6. /\ s.policy = "E1" /\ u0.setup # NoSetup /\ ~u0.setup.perfected => ~Noted(s, <<x, u0.setup.episode>>)
      /\ s.policy # "E1" /\ Unfinished(u0.countdown) => ~Noted(s, <<x, u0.countdown.episode>>)
  BY <1>3 DEF SideTold
<1>7. NoSetup.perfected = FALSE
  BY DEF NoSetup
<1> HIDE DEF anchors, index, u0, u, d
<1>8. CASE u.run = SetupCount
  <2>1. u.setup # NoSetup /\ u.setup.episode = b.open /\ (u.setup.perfected => u.setup.perfectedAt = index)
    BY <1>2, <1>8 DEF SetupMoved
  <2>2. CASE Unfinished(u0.countdown)
    <3>1. u.countdown = u0.countdown
      BY <1>2, <1>8, <2>2 DEF SetupMoved
    <3> QED BY <1>1, <1>4, <1>5, <1>6, <1>8, <2>1, <2>2, <3>1 DEF SideSignals, Perfecting, anchors, index, u0, u, d
  <2>3. CASE ~Unfinished(u0.countdown)
    <3>1. u.countdown.episode = b.open
      BY <1>2, <1>8, <2>3 DEF SetupMoved
    <3> QED BY <1>1, <1>4, <1>8, <2>1, <3>1 DEF SideSignals, Perfecting, anchors, index, u0, u, d
  <2> QED BY <2>2, <2>3
<1>9. CASE u.run # SetupCount /\ u.setup = u0.setup
  <2>1. u.countdown = u0.countdown /\ ~Perfecting(u0, u)
    BY <1>2, <1>9 DEF SetupMoved, Perfecting
  <2> QED BY <1>4, <1>5, <1>6, <1>9, <2>1 DEF SideSignals, anchors, index, u0, u, d
<1>10. CASE u.run # SetupCount /\ u.setup # u0.setup
  <2>1. /\ u.countdown = u0.countdown /\ u0.setup # NoSetup /\ ~u0.setup.perfected /\ u.setup # NoSetup
        /\ u.setup.episode = u0.setup.episode /\ u.setup.perfected /\ u.setup.perfectedAt = index
    BY <1>2, <1>10 DEF SetupMoved
  <2>2. Perfecting(u0, u)
    BY <1>10, <2>1 DEF Perfecting
  <2> QED BY <1>4, <1>5, <1>6, <2>1, <2>2 DEF SideSignals, anchors, index, u0, u, d
<1> QED BY <1>8, <1>9, <1>10

LEMMA SignalsAnswerable ==
  ASSUME NEW s, NEW tape, NEW longer, NEW b, NEW s0, NEW s1, NEW d2, NEW c3, NEW ss, NEW signals,
         Seen(s, tape, longer, b, s0, s1, d2, c3, ss, signals)
  PROVE  Answerable(s, Len(longer), signals)
<1> DEFINE n       == Len(longer)
           anchors == WithAnchors(s, n, signals)
           ids     == CandidateIds(s, signals)
<1>1. /\ \A a \in anchors : AnchorKept(longer, a)
  BY BarAnchors
<1>2. \A x \in Side : SideSignals(s, anchors, s0[x], s1[x], d2[x], x, n - 1)
  BY SideSignalled
<1>3. Tape(longer) /\ n \in Nat /\ SetupCount \in Nat \ {0} /\ Response \in Nat /\ Response < SetupCount
      /\ Warmup \in Nat /\ Lookback \in Nat /\ Warmup <= Lookback + SetupCount
  BY CountsAssumption, SchedulerAssumption DEF Seen, Extends
<1> HIDE DEF anchors, ids, n
<1>4. \A id \in ids : \E x \in Side :
        IF s.policy = "E1" THEN Perfecting(s0[x], s1[x]) /\ id = <<x, s1[x].setup.episode>>
        ELSE Completing(d2[x], c3[x]) /\ id = <<x, d2[x].episode>>
  BY CandidatesAreNames DEF ids, Seen, Signalled
<1>5. \A id \in ids : \E a \in anchors : a.id = id
  <2> SUFFICES ASSUME NEW id \in ids PROVE \E a \in anchors : a.id = id
    OBVIOUS
  <2>1. PICK x \in Side :
          IF s.policy = "E1" THEN Perfecting(s0[x], s1[x]) /\ id = <<x, s1[x].setup.episode>>
          ELSE Completing(d2[x], c3[x]) /\ id = <<x, d2[x].episode>>
    BY <1>4
  <2> QED BY <1>2, <2>1 DEF SideSignals, Completing
<1>6. \A a, c \in anchors : a.id = c.id => a = c
  BY <1>1, <1>3, OneAnchor
<1>7. \A a \in anchors : a.at \in Nat /\ a.id[1] \in Side /\ a.id = <<a.id[1], a.id[2]>> /\ n > Warmup
  <2> SUFFICES ASSUME NEW a \in anchors
               PROVE  a.at \in Nat /\ a.id[1] \in Side /\ a.id = <<a.id[1], a.id[2]>> /\ n > Warmup
    OBVIOUS
  <2>1. /\ a.id[1] \in Side /\ a.at \in 1 .. n /\ a.id = <<a.id[1], longer[a.at].open>>
        /\ a.at > Lookback + SetupCount
    BY <1>1 DEF AnchorKept, n
  <2>2. a.id[2] = longer[a.at].open
    BY <2>1
  <2> QED BY <1>3, <2>1, <2>2
<1>8. ASSUME NEW a \in anchors, NEW c \in anchors, a.id \in ids, c.id \in ids, InTime(s, a, n), InTime(s, c, n)
      PROVE  a.id = c.id
  <2>1. PICK x \in Side :
          IF s.policy = "E1" THEN Perfecting(s0[x], s1[x]) /\ a.id = <<x, s1[x].setup.episode>>
          ELSE Completing(d2[x], c3[x]) /\ a.id = <<x, d2[x].episode>>
    BY <1>4, <1>8
  <2>2. PICK y \in Side :
          IF s.policy = "E1" THEN Perfecting(s0[y], s1[y]) /\ c.id = <<y, s1[y].setup.episode>>
          ELSE Completing(d2[y], c3[y]) /\ c.id = <<y, d2[y].episode>>
    BY <1>4, <1>8
  <2>3. CASE x = y
    BY <2>1, <2>2, <2>3
  <2>4. CASE x # y /\ s.policy = "E1"
    <3>1. a.id[1] = x /\ c.id[1] = y
      BY <2>1, <2>2, <2>4
    <3>2. /\ a.at \in 1 .. n /\ c.at \in 1 .. n /\ n - a.at <= Response /\ n - c.at <= Response
          /\ a.first = a.at - SetupCount + 1 /\ c.first = c.at - SetupCount + 1
          /\ \A m \in a.first .. a.at : CompAt(longer, m) = Direction(x)
          /\ \A m \in c.first .. c.at : CompAt(longer, m) = Direction(y)
      BY <1>1, <1>8, <2>4, <3>1 DEF AnchorKept, InTime, n
    <3>3. \E m : m \in a.first .. a.at /\ m \in c.first .. c.at
      <4>1. CASE a.at <= c.at
        <5>1. a.at \in a.first .. a.at /\ a.at \in c.first .. c.at
          BY <1>3, <3>2, <4>1
        <5> QED BY <5>1
      <4>2. CASE c.at <= a.at
        <5>1. c.at \in a.first .. a.at /\ c.at \in c.first .. c.at
          BY <1>3, <3>2, <4>2
        <5> QED BY <5>1
      <4> QED BY <3>2, <4>1, <4>2
    <3>4. Direction(x) = Direction(y)
      BY <3>2, <3>3
    <3> QED BY <2>4, <3>4 DEF Direction, Side
  <2>5. CASE x # y /\ s.policy # "E1"
    <3>1. Unfinished(d2[x]) /\ Unfinished(d2[y]) /\ y = Other(x) /\ x = Other(y)
      BY <2>1, <2>2, <2>5 DEF Completing, Other, Side
    <3>2. s1[x].run # SetupCount /\ s1[y].run # SetupCount
      BY <3>1 DEF Seen, Moves
    <3>3. d2[x] = s1[x].countdown /\ d2[y] = s1[y].countdown
      BY <3>1 DEF Seen, Moves, CountMoved, Unfinished
    <3>4. s1[x].countdown = s0[x].countdown /\ s1[y].countdown = s0[y].countdown
      BY <3>2 DEF Seen, Moves, SetupMoved
    <3>5. AloneUnfinished(s0)
      BY DEF Seen, SignalsKept
    <3> QED BY <2>5, <3>1, <3>3, <3>4, <3>5 DEF AloneUnfinished, Side
  <2> QED BY <2>3, <2>4, <2>5
<1>9. \A a, c \in anchors : a.id \in ids /\ c.id \in ids /\ InTime(s, a, n) /\ InTime(s, c, n) => a = c
  BY <1>6, <1>8
<1> QED BY <1>5, <1>6, <1>7, <1>9, Zenon DEF Answerable, anchors, ids, n

(* Once they are decided on, the signals of both sides are kept.           *)
LEMMA SideToldAfter ==
  ASSUME NEW s, NEW t, NEW tape, NEW longer, NEW b, NEW s0, NEW s1, NEW d2, NEW c3, NEW ss, NEW signals,
         Seen(s, tape, longer, b, s0, s1, d2, c3, ss, signals), Accepted(s, t, Len(longer), signals),
         NEW x \in Side
  PROVE  SideTold(t, x, ss[x])
<1> DEFINE n       == Len(longer)
           anchors == WithAnchors(s, n, signals)
           ids     == CandidateIds(s, signals)
           u0      == s0[x]
           u       == s1[x]
           d       == d2[x]
           c       == c3[x]
           w       == ss[x]
<1>1. SideSignals(s, anchors, u0, u, d, x, n - 1)
  BY SideSignalled
<1>2. SetupMoved(u0, u, b.open, n - 1) /\ CountMoved(u, d, c, w, n - 1)
  BY DEF Seen, Moves
<1>3. SideTold(s, x, u0)
  BY DEF Seen, SignalsKept
<1>4. /\ t.anchors = anchors /\ t.policy = s.policy
      /\ \A id : Noted(t, id) <=> Noted(s, id) \/ id \in ids
      /\ \A id, k : ToldAt(s, id, k) => ToldAt(t, id, k)
      /\ \A id \in ids : ~Noted(s, id) => ToldAt(t, id, n)
  BY DEF Accepted
<1>5. \A e : <<x, e>> \in ids <=>
        IF s.policy = "E1" THEN Perfecting(u0, u) /\ e = u.setup.episode
        ELSE Completing(d, c) /\ e = d.episode
  <2> SUFFICES ASSUME NEW e
               PROVE  <<x, e>> \in ids <=>
                        IF s.policy = "E1" THEN Perfecting(u0, u) /\ e = u.setup.episode
                        ELSE Completing(d, c) /\ e = d.episode
    OBVIOUS
  <2>1. <<x, e>> \in ids <=> \E y \in Side :
          IF s.policy = "E1" THEN Perfecting(s0[y], s1[y]) /\ <<x, e>> = <<y, s1[y].setup.episode>>
          ELSE Completing(d2[y], c3[y]) /\ <<x, e>> = <<y, d2[y].episode>>
    BY CandidatesAreNames DEF Seen, Signalled
  <2>2. \A y, f : <<x, e>> = <<y, f>> <=> x = y /\ e = f
    OBVIOUS
  <2> HIDE DEF ids
  <2> QED BY <2>1, <2>2
<1>6. n - 1 + 1 = n
  BY DEF Seen, Extends
<1> HIDE DEF n, anchors, ids, u0, u, d, c, w
<1>7. w.setup = u.setup /\ (w.countdown = c \/ w.countdown.state = "idle")
  BY <1>2 DEF CountMoved
<1>8. Unfinished(w.countdown) => w.countdown = c /\ Unfinished(d) /\ c.episode = d.episode /\ Unfinished(c)
  BY <1>2, <1>7 DEF CountMoved, Unfinished
<1>9. w.setup # NoSetup => Anchored(t, <<x, w.setup.episode>>)
  BY <1>1, <1>4, <1>7 DEF SideSignals, Anchored
<1>10. Unfinished(w.countdown) => Anchored(t, <<x, w.countdown.episode>>)
  BY <1>1, <1>4, <1>8 DEF SideSignals, Anchored
<1>11. CASE s.policy = "E1"
  <2> SUFFICES ASSUME u.setup # NoSetup
               PROVE  IF u.setup.perfected THEN ToldAt(t, <<x, u.setup.episode>>, u.setup.perfectedAt + 1)
                      ELSE ~Noted(t, <<x, u.setup.episode>>)
    BY <1>4, <1>7, <1>9, <1>10, <1>11 DEF SideTold, w
  <2>1. CASE Perfecting(u0, u)
    <3>1. <<x, u.setup.episode>> \in ids /\ ~Noted(s, <<x, u.setup.episode>>) /\ u.setup.perfectedAt = n - 1
      BY <1>1, <1>5, <1>11, <2>1 DEF SideSignals
    <3> QED BY <1>4, <1>6, <2>1, <3>1 DEF Perfecting
  <2>2. CASE ~Perfecting(u0, u) /\ u.setup.perfected
    <3>1. u.setup = u0.setup
      BY <1>1, <2>2 DEF SideSignals
    <3> QED BY <1>3, <1>4, <1>11, <2>2, <3>1 DEF SideTold
  <2>3. CASE ~u.setup.perfected
    <3>1. ~Noted(s, <<x, u.setup.episode>>) /\ <<x, u.setup.episode>> \notin ids
      BY <1>1, <1>5, <1>11, <2>3 DEF SideSignals, Perfecting
    <3> QED BY <1>4, <2>3, <3>1
  <2> QED BY <2>1, <2>2, <2>3
<1>12. CASE s.policy # "E1"
  <2>1. ASSUME Unfinished(w.countdown) PROVE ~Noted(t, <<x, w.countdown.episode>>)
    <3>1. w.countdown.episode = d.episode /\ ~Completing(d, c) /\ Unfinished(d)
      BY <1>8, <2>1 DEF Completing, Unfinished
    <3>2. ~Noted(s, <<x, d.episode>>) /\ <<x, d.episode>> \notin ids
      BY <1>1, <1>5, <1>12, <3>1 DEF SideSignals
    <3> QED BY <1>4, <3>1, <3>2
  <2>2. ASSUME w.countdown.state = "completed"
        PROVE  ToldAt(t, <<x, w.countdown.episode>>, w.countdown.bar13 + 1)
    <3>1. w.countdown = c /\ c.state = "completed"
      BY <1>7, <2>2
    <3>2. CASE c = d
      <4>1. d = u.countdown /\ ~Unfinished(d)
        BY <1>2, <3>1, <3>2 DEF CountMoved, Unfinished
      <4>2. u.countdown = u0.countdown
        BY <1>2, <3>1, <3>2, <4>1 DEF SetupMoved
      <4>3. ToldAt(s, <<x, u0.countdown.episode>>, u0.countdown.bar13 + 1)
        BY <1>3, <1>12, <3>1, <3>2, <4>1, <4>2 DEF SideTold
      <4> QED BY <1>4, <3>1, <3>2, <4>1, <4>2, <4>3
    <3>3. CASE c # d
      <4>1. Unfinished(d) /\ c.episode = d.episode /\ c.bar13 = n - 1
        BY <1>2, <3>1, <3>3 DEF CountMoved, Unfinished
      <4>2. <<x, d.episode>> \in ids /\ ~Noted(s, <<x, d.episode>>)
        BY <1>1, <1>5, <1>12, <3>1, <4>1 DEF SideSignals, Completing
      <4> QED BY <1>4, <1>6, <3>1, <4>1, <4>2
    <3> QED BY <3>2, <3>3
  <2> QED BY <1>4, <1>9, <1>10, <1>12, <2>1, <2>2 DEF SideTold, w
<1> QED BY <1>11, <1>12

LEMMA SignalsKeptAfter ==
  ASSUME NEW s, NEW t, NEW tape, NEW longer, NEW b, NEW s0, NEW s1, NEW d2, NEW c3, NEW ss, NEW signals,
         Seen(s, tape, longer, b, s0, s1, d2, c3, ss, signals), Accepted(s, t, Len(longer), signals)
  PROVE  SignalsKept(t, longer, ss)
<1> DEFINE anchors == WithAnchors(s, Len(longer), signals)
<1>1. t.anchors = anchors /\ \A id : Noted(t, id) <=> Noted(s, id) \/ id \in CandidateIds(s, signals)
  BY DEF Accepted
<1>2. (\A a \in anchors : AnchorKept(longer, a)) /\ s.anchors \subseteq anchors
  BY BarAnchors
<1>3. \A id \in CandidateIds(s, signals) : \E a \in anchors : a.id = id
  <2>1. Answerable(s, Len(longer), signals)
    BY SignalsAnswerable
  <2> QED BY <2>1, Zenon DEF Answerable
<1> HIDE DEF anchors
<1>4. \A o \in t.opportunities : Anchored(t, o.id)
  <2> SUFFICES ASSUME NEW o \in t.opportunities PROVE Anchored(t, o.id)
    OBVIOUS
  <2>1. Noted(t, o.id)
    BY DEF Noted
  <2>2. CASE o.id \in CandidateIds(s, signals)
    BY <1>1, <1>3, <2>2 DEF Anchored
  <2>3. CASE Noted(s, o.id)
    <3>1. Anchored(s, o.id)
      BY <2>3 DEF Noted, Seen, SignalsKept
    <3> QED BY <1>1, <1>2, <3>1 DEF Anchored
  <2> QED BY <1>1, <2>1, <2>2, <2>3
<1>5. AloneUnfinished(ss)
  <2> SUFFICES ASSUME Unfinished(ss["buy"].countdown), Unfinished(ss["sell"].countdown) PROVE FALSE
    BY DEF AloneUnfinished
  <2>1. Other("buy") = "sell" /\ Other("sell") = "buy" /\ "buy" \in Side /\ "sell" \in Side
    BY DEF Other, Side
  <2>2. \A x \in Side : Unfinished(ss[x].countdown) => Unfinished(d2[x])
    BY DEF Seen, Moves, CountMoved, Unfinished
  <2>3. Unfinished(d2["buy"]) /\ Unfinished(d2["sell"])
    BY <2>1, <2>2
  <2>4. s1["buy"].run # SetupCount /\ s1["sell"].run # SetupCount
    BY <2>1, <2>3 DEF Seen, Moves
  <2>5. d2["buy"] = s1["buy"].countdown /\ d2["sell"] = s1["sell"].countdown
    BY <2>1, <2>3 DEF Seen, Moves, CountMoved, Unfinished
  <2>6. s1["buy"].countdown = s0["buy"].countdown /\ s1["sell"].countdown = s0["sell"].countdown
    BY <2>1, <2>4 DEF Seen, Moves, SetupMoved
  <2> QED BY <2>3, <2>5, <2>6 DEF Seen, SignalsKept, AloneUnfinished
<1>6. \A x \in Side : SideTold(t, x, ss[x])
  BY SideToldAfter
<1> QED BY <1>1, <1>2, <1>4, <1>5, <1>6 DEF SignalsKept

-------------------------------------------------------------------------------
(* One bar of the scheduler.                                               *)

(* The next bar arrives, before anything is done with it.                  *)
LEMMA AuditGrows ==
  ASSUME NEW s, NEW tape, NEW longer, NEW b, Extends(longer, tape, b), NEW n, n = Len(tape),
         AuditKept(s, tape, n, n)
  PROVE  AuditKept(s, longer, n, n + 1)
<1>1. n \in Nat /\ \A m \in 1 .. n : longer[m] = tape[m]
  BY DEF Extends
<1>2. TradesKept(s, n)
  BY DEF AuditKept
<1>3. TradesKept(s, n + 1)
  <2>1. \A k \in DOMAIN s.trades : /\ s.trades[k].from \in Nat /\ s.trades[k].from <= n + 1
                                   /\ s.trades[k].to \in Nat /\ s.trades[k].to <= n + 1
    BY <1>1, <1>2 DEF TradesKept
  <2>2. Held(s) => s.pos.from \in Nat /\ s.pos.from <= n + 1
    BY <1>1, <1>2 DEF TradesKept
  <2> QED BY <1>2, <2>1, <2>2 DEF TradesKept
<1>4. ASSUME NEW o \in s.opportunities PROVE OppKept(s, longer, n, n + 1, o)
  <2>1. OppKept(s, tape, n, n, o)
    BY DEF AuditKept
  <2>2. o.decision \in 1 .. n /\ Decided(s, tape, n, n, o)
    BY <2>1 DEF OppKept
  <2>3. o.decision + 1 \in 1 .. n => (Breaks(longer, o) <=> Breaks(tape, o))
    BY <1>1 DEF Breaks
  <2>4. o.status = "filled" => o.decision + 1 \in 1 .. n
    <3> SUFFICES ASSUME o.status = "filled" PROVE o.decision + 1 \in 1 .. n
      OBVIOUS
    <3>1. Owns(s, o.id) /\ EnteredAt(s, o.id, o.decision + 1)
      BY <2>1 DEF OppKept
    <3>2. CASE \E k \in DOMAIN s.trades : s.trades[k].id = o.id
      <4>1. PICK k \in DOMAIN s.trades : s.trades[k].id = o.id
        BY <3>2
      <4>2. s.trades[k].from = o.decision + 1
        BY <3>1, <4>1 DEF EnteredAt
      <4>3. s.trades[k].from <= n
        BY <1>2 DEF TradesKept
      <4> QED BY <1>1, <2>2, <4>2, <4>3
    <3>3. CASE Held(s) /\ s.pos.id = o.id
      <4>1. s.pos.from = o.decision + 1
        BY <3>1, <3>3 DEF EnteredAt
      <4>2. s.pos.from <= n
        BY <1>2, <3>3 DEF TradesKept
      <4> QED BY <1>1, <2>2, <4>1, <4>2
    <3> QED BY <3>1, <3>2, <3>3 DEF Owns
  <2>5. o.decision < n => o.decision + 1 \in 1 .. n /\ o.decision < n + 1
    BY <1>1, <2>2
  <2>6. Decided(s, longer, n, n + 1, o)
    BY <2>2, <2>3, <2>4, <2>5 DEF Decided
  <2> QED BY <2>1, <2>6, Zenon DEF OppKept
<1> QED BY <1>3, <1>4 DEF AuditKept

(* What the broker does leaves the signals as they are.                    *)
LEMMA SignalsCarried ==
  ASSUME NEW s, NEW t, NEW tape, NEW ss, SignalsKept(s, tape, ss), SameIds(s, t),
         t.policy = s.policy, t.anchors = s.anchors
  PROVE  SignalsKept(t, tape, ss)
<1>1. \A id : Anchored(t, id) <=> Anchored(s, id)
  BY DEF Anchored
<1>2. \A o \in t.opportunities : Anchored(t, o.id)
  <2> SUFFICES ASSUME NEW o \in t.opportunities PROVE Anchored(t, o.id)
    OBVIOUS
  <2>1. Noted(t, o.id)
    BY DEF Noted
  <2>2. Noted(s, o.id)
    BY <2>1 DEF SameIds
  <2>3. PICK p \in s.opportunities : p.id = o.id
    BY <2>2 DEF Noted
  <2>4. Anchored(s, o.id)
    BY <2>3 DEF SignalsKept
  <2> QED BY <1>1, <2>4
<1>3. \A x \in Side : SideTold(t, x, ss[x])
  <2> SUFFICES ASSUME NEW x \in Side PROVE SideTold(t, x, ss[x])
    OBVIOUS
  <2>1. SideTold(s, x, ss[x])
    BY DEF SignalsKept
  <2> QED BY <1>1, <2>1, Zenon DEF SideTold, SameIds
<1>4. \A a \in t.anchors : AnchorKept(tape, a)
  BY DEF SignalsKept
<1> QED BY <1>2, <1>3, <1>4 DEF SignalsKept

(* The mark is the collector's alone.                                      *)
LEMMA MarkedKeeps ==
  ASSUME NEW s, NEW tape, NEW n, AuditKept(s, tape, n, n), NEW b
  PROVE  LET t == Marked(s, b, n)
         IN AuditKept(t, tape, n, n) /\ SameIds(s, t) /\ KeepsRest(s, t)
<1> DEFINE mark == OnMark(s.book, s.pos, Held(s), s.realized, b.C, n)
           t    == [s EXCEPT !.book = mark]
<1> HIDE DEF mark
<1>1. s = [f \in RunFields |-> s[f]]
  BY DEF AuditKept
<1>2. SameSchedule(s, t) /\ t.trades = s.trades /\ t.pos = s.pos
  BY <1>1 DEF SameSchedule, RunFields
<1> HIDE DEF t
<1>3. Held(t) <=> Held(s)
  BY <1>2 DEF Held
<1>4. SameBook(s, t, n)
  BY <1>2, <1>3 DEF SameBook, Owns, EnteredAt, Spans
<1>5. TradesKept(t, n)
  <2>1. TradesKept(s, n)
    BY DEF AuditKept
  <2> QED BY <1>2, <1>3, <2>1 DEF TradesKept
<1>6. AuditKept(t, tape, n, n)
  BY <1>2, <1>3, <1>4, <1>5, SameAudit
<1>7. SameIds(s, t) /\ KeepsRest(s, t)
  BY <1>2, SameOpportunities
<1>8. Marked(s, b, n) = t
  BY Zenon DEF Marked, t, mark
<1> QED BY <1>6, <1>7, <1>8

LEMMA ObservedKept ==
  ASSUME NEW s, NEW tape, NEW longer, NEW b, NEW s0, NEW s1, NEW d2, NEW c3, NEW ss, NEW signals,
         Seen(s, tape, longer, b, s0, s1, d2, c3, ss, signals),
         AuditKept(s, tape, Len(tape), Len(tape)), ~s.ended
  PROVE  LET t == Observed(s, longer, Len(longer), signals)
         IN /\ AuditKept(t, longer, Len(longer), Len(longer)) /\ SignalsKept(t, longer, ss)
            /\ t.refusal = s.refusal /\ t.ended = s.ended
<1> DEFINE m == Len(tape)
           n == Len(longer)
           u == Before(s, longer[n], n)
           v == Accept(u, longer, n, signals)
           t == Marked(v, longer[n], n)
<1>1. Extends(longer, tape, b) /\ m \in Nat /\ n = m + 1 /\ longer[n] = b /\ longer[n].O \in Nat
  BY DEF Seen, Extends, BarType
<1> HIDE DEF m, n
<1>2. AuditKept(s, longer, m, n)
  BY <1>1, AuditGrows DEF m
<1>3. AuditKept(u, longer, m, n) /\ u.pending = NoId /\ SameIds(s, u) /\ KeepsRest(s, u)
  BY <1>1, <1>2, BeforeKeeps
<1> HIDE DEF u
<1>4. Seen(u, tape, longer, b, s0, s1, d2, c3, ss, signals)
  <2>1. SignalsKept(u, tape, s0)
    BY <1>3, SignalsCarried DEF Seen, KeepsRest
  <2> QED BY <2>1 DEF Seen
<1>5. Answerable(u, n, signals)
  BY <1>4, SignalsAnswerable DEF n
<1>6. ~u.ended
  BY <1>3 DEF KeepsRest
<1>7. AuditKept(v, longer, n, n) /\ Accepted(u, v, n, signals)
  BY <1>1, <1>3, <1>5, <1>6, AcceptKeeps
<1> HIDE DEF v
<1>8. SignalsKept(v, longer, ss)
  BY <1>4, <1>7, SignalsKeptAfter DEF n
<1>9. AuditKept(t, longer, n, n) /\ SameIds(v, t) /\ KeepsRest(v, t)
  BY <1>7, MarkedKeeps
<1> HIDE DEF t
<1>10. SignalsKept(t, longer, ss)
  BY <1>8, <1>9, SignalsCarried DEF KeepsRest
<1>11. t.refusal = s.refusal /\ t.ended = s.ended
  BY <1>3, <1>7, <1>9 DEF KeepsRest, Accepted
<1>12. Observed(s, longer, Len(longer), signals) = t
  BY DEF Observed, t, v, u, n
<1> QED BY <1>9, <1>10, <1>11, <1>12 DEF n

-------------------------------------------------------------------------------
(* The audit and the signals are kept by every step.                       *)

LEMMA FinalizedKept ==
  ASSUME NEW s, NEW tape, NEW n \in Nat, AuditKept(s, tape, n, n), NEW keepsOpen, ~s.ended, s.refusal = ""
  PROVE  LET t == Finalized(s, keepsOpen)
         IN /\ AuditKept(t, tape, n, n) /\ SameIds(s, t)
            /\ t.policy = s.policy /\ t.anchors = s.anchors /\ t.ended
            /\ t.refusal \in {"", "unsupported-incomplete-terminal-run"}
<1> DEFINE t    == Finalized(s, keepsOpen)
           left == IF s.pending = NoId THEN s.opportunities
                   ELSE Settled(s.opportunities, s.pending, "rejected", "no_next_bar")
           says == IF Held(s) /\ ~keepsOpen THEN "unsupported-incomplete-terminal-run" ELSE s.refusal
<1> HIDE DEF left, says
<1>1. t = [s EXCEPT !.ended = TRUE, !.pending = NoId, !.opportunities = left, !.refusal = says]
  BY Zenon DEF Finalized, left, says
<1>2. s = [f \in RunFields |-> s[f]] /\ TradesKept(s, n)
  BY DEF AuditKept
<1> HIDE DEF t
<1>3. /\ t = [f \in RunFields |-> t[f]] /\ t.pending = NoId /\ t.opportunities = left
      /\ t.trades = s.trades /\ t.pos = s.pos /\ t.policy = s.policy /\ t.anchors = s.anchors
      /\ t.ended /\ t.refusal = says
  BY <1>1, <1>2 DEF RunFields
<1>4. says \in {"", "unsupported-incomplete-terminal-run"}
  BY DEF says
<1>5. /\ Held(t) <=> Held(s)
      /\ \A id : Owns(t, id) <=> Owns(s, id)
      /\ \A id, d : EnteredAt(t, id, d) <=> EnteredAt(s, id, d)
      /\ \A d : Spans(t, d) <=> Spans(s, d)
  BY <1>3 DEF Held, Owns, EnteredAt, Spans
<1>6. TradesKept(t, n)
  BY <1>2, <1>3, <1>5 DEF TradesKept
<1>7. ASSUME NEW o \in s.opportunities, o.id # s.pending PROVE OppKept(t, tape, n, n, o)
  <2>1. OppKept(s, tape, n, n, o)
    BY DEF AuditKept
  <2> QED BY <1>3, <1>5, <1>7, <2>1, OthersStand
<1>8. \A id : Owns(t, id) => Noted(s, id)
  BY <1>5, OwnedNoted
<1>9. CASE s.pending = NoId
  <2>1. t.opportunities = s.opportunities
    BY <1>3, <1>9 DEF left
  <2>2. \A o \in t.opportunities : OppKept(t, tape, n, n, o)
    <3> SUFFICES ASSUME NEW o \in s.opportunities PROVE OppKept(t, tape, n, n, o)
      BY <2>1
    <3>1. OppKept(s, tape, n, n, o)
      BY DEF AuditKept
    <3>2. o.id # s.pending
      BY <1>9, <3>1, NamedId
    <3> QED BY <1>7, <3>2
  <2>3. SameIds(s, t)
    BY <2>1 DEF SameIds, Noted, ToldAt
  <2>4. (\A k \in DOMAIN t.trades : Noted(t, t.trades[k].id)) /\ (Held(t) => Noted(t, t.pos.id))
    BY <1>8, <2>3 DEF Owns, SameIds
  <2>5. \A o, p \in t.opportunities : o.id = p.id => o = p
    BY <2>1 DEF AuditKept
  <2>6. AuditKept(t, tape, n, n)
    BY <1>3, <1>6, <2>2, <2>4, <2>5 DEF AuditKept
  <2> QED BY <1>3, <1>4, <2>3, <2>6 DEF t
<1>10. CASE s.pending # NoId
  <2>1. t.opportunities = Settled(s.opportunities, s.pending, "rejected", "no_next_bar")
    BY <1>3, <1>10 DEF left
  <2>2. ASSUME NEW p \in s.opportunities, NEW q, p.id = s.pending, IsSettled(p, q, "rejected", "no_next_bar")
        PROVE  OppKept(t, tape, n, n, q)
    <3>1. /\ OppKept(s, tape, n, n, p) /\ p.decision = n /\ ~Owns(s, p.id) /\ ~Spans(s, n)
          /\ ~(s.policy = "E1" /\ p.decision - p.at > Response)
      BY <1>10, <2>2, OnePending
    <3>2. q.id # NoId
      BY <1>10, <2>2 DEF IsSettled
    <3>3. Decided(t, tape, n, n, q)
      BY <1>3, <2>2, <3>1 DEF Decided, IsSettled
    <3>4. /\ q = [f \in OppFields |-> q[f]] /\ q.id = p.id /\ q.side = p.side /\ q.at = p.at
          /\ q.decision = p.decision /\ q.status = "rejected" /\ q.reason = "no_next_bar"
      BY <2>2 DEF IsSettled
    <3>5. EnteredAt(t, q.id, q.decision + 1) /\ ~Owns(t, q.id) /\ ~Spans(t, q.decision)
      BY <1>5, <3>1, <3>4 DEF OppKept
    <3>6. q.side \in Side /\ q.id = <<q.side, q.id[2]>> /\ q.at \in Nat /\ q.decision \in 1 .. n
      BY <3>1, <3>4 DEF OppKept
    <3> QED BY <1>3, <3>1, <3>2, <3>3, <3>4, <3>5, <3>6 DEF OppKept
  <2>3. AuditKept(t, tape, n, n) /\ SameIds(s, t)
    BY <1>3, <1>6, <1>7, <1>8, <2>1, <2>2, Resettled
  <2> QED BY <1>3, <1>4, <2>3 DEF t
<1> QED BY <1>9, <1>10

LEMMA ScheduleInitKept == SequentialInit => ScheduleKept
<1> SUFFICES ASSUME SequentialInit PROVE ScheduleKept
  OBVIOUS
<1> DEFINE policy == IF ask.op = "core" THEN "E1" ELSE ask.policy
<1> HIDE DEF policy
<1>1. /\ bars = <<>> /\ sides = [side \in Side |-> Fresh] /\ lastIndex = -1 /\ run = NewRun(policy)
  BY DEF SequentialInit, Init, policy
<1>2. /\ run = [f \in RunFields |-> run[f]] /\ run.anchors = {} /\ run.opportunities = {} /\ run.pending = NoId
      /\ run.trades = <<>> /\ run.pos = NoPosition /\ run.refusal = ""
  BY <1>1 DEF NewRun, RunFields
<1>3. ~Held(run) /\ IsSeq(run.trades) /\ DOMAIN run.trades = {} /\ Len(bars) = 0
  <2>1. << >> \in Seq({}) /\ DOMAIN << >> = {}
    OBVIOUS
  <2>2. IsSeq(<< >>)
    BY <2>1 DEF IsSeq
  <2> QED BY <1>1, <1>2, <2>1, <2>2 DEF Held
<1>4. AuditKept(run, bars, Len(bars), Len(bars))
  BY <1>2, <1>3 DEF AuditKept, TradesKept
<1>5. \A x \in Side : /\ sides[x].setup = NoSetup /\ ~Unfinished(sides[x].countdown)
                      /\ sides[x].countdown.state = "idle"
  BY <1>1 DEF Fresh, Idle, Unfinished
<1>6. SignalsKept(run, bars, sides)
  BY <1>2, <1>5 DEF SignalsKept, AloneUnfinished, SideTold, Side
<1>7. lastIndex = Len(bars) - 1
  BY <1>1, <1>3
<1> QED BY <1>2, <1>4, <1>6, <1>7 DEF ScheduleKept

LEMMA ObserveSchedule == ASSUME SequentialKept, ScheduleKept, Observe PROVE ScheduleKept'
<1> DEFINE open == ask.opens[Len(bars) + 1]
           hole == Hole(ask, Len(bars) + 1)
<1>1. /\ CoreKept /\ phase = "running" /\ phase' = "running"
      /\ AuditKept(run, bars, Len(bars), Len(bars)) /\ SignalsKept(run, bars, sides)
      /\ lastIndex = Len(bars) - 1
  BY DEF SequentialKept, ScheduleKept, Observe
<1>2. /\ open \in Nat /\ (lastOpen # None => open > lastOpen) /\ ~IsGap(open, hole)
      /\ run.refusal = "" /\ ~run.ended
  BY NextBar
<1>3. PICK candle \in [O : Nat, H : Nat, L : Nat, C : Nat] :
        /\ Advance(candle, open, hole)
        /\ bars' = Append(bars, Stamped(candle, open))
        /\ run' = Observed(run, bars', Len(bars'), events')
  BY NextBar
<1> HIDE DEF open, hole
<1> DEFINE b == Stamped(candle, open)
<1>4. Extends(bars', bars, b)
  BY <1>1, <1>2, <1>3, OneMoreBar
<1>5. lastIndex' = lastIndex + 1
  BY <1>3, Zenon DEF Advance
<1>6. b.open = open
  BY DEF Stamped
<1> HIDE DEF b
<1>7. lastIndex' = Len(bars') - 1
  BY <1>1, <1>4, <1>5 DEF Extends
<1>8. PICK s1, d2, c3 :
        /\ Moves(sides, s1, d2, c3, sides', open, lastIndex')
        /\ Signalled(sides, s1, d2, c3, events', open)
        /\ \A x \in Side : s1[x].run \in Nat /\ RunKept(bars', x, s1[x].run)
  BY <1>1, <1>2, <1>3, CoreMoves
<1>9. Seen(run, bars, bars', b, sides, s1, d2, c3, sides', events')
  BY <1>1, <1>4, <1>6, <1>7, <1>8 DEF Seen
<1>10. /\ AuditKept(run', bars', Len(bars'), Len(bars')) /\ SignalsKept(run', bars', sides')
       /\ run'.refusal = run.refusal
  <2> DEFINE t == Observed(run, bars', Len(bars'), events')
  <2>1. /\ AuditKept(t, bars', Len(bars'), Len(bars')) /\ SignalsKept(t, bars', sides')
        /\ t.refusal = run.refusal
    <3>1. AuditKept(run, bars, Len(bars), Len(bars)) /\ ~run.ended
      BY <1>1, <1>2
    <3>2. ASSUME NEW longer, NEW ss, NEW signals,
                 Seen(run, bars, longer, b, sides, s1, d2, c3, ss, signals)
          PROVE  LET u == Observed(run, longer, Len(longer), signals)
                 IN /\ AuditKept(u, longer, Len(longer), Len(longer)) /\ SignalsKept(u, longer, ss)
                    /\ u.refusal = run.refusal
      BY <3>1, <3>2, ObservedKept
    <3> QED BY <1>9, <3>2
  <2>2. run' = t
    BY <1>3
  <2> HIDE DEF t
  <2> QED BY <2>1, <2>2
<1> QED BY <1>1, <1>2, <1>7, <1>10 DEF ScheduleKept

LEMMA BarsEndSchedule == ASSUME SequentialKept, ScheduleKept, BarsEnd PROVE ScheduleKept'
<1>1. /\ phase = "running" /\ phase' = "running" /\ bars' = bars /\ sides' = sides /\ lastIndex' = lastIndex
      /\ run.refusal = "" /\ ~run.ended /\ run' = Finalized(run, ask.version = 3)
  BY DEF BarsEnd, End, vars
<1>2. /\ AuditKept(run, bars, Len(bars), Len(bars)) /\ SignalsKept(run, bars, sides)
      /\ lastIndex = Len(bars) - 1
  BY <1>1 DEF ScheduleKept
<1>3. Len(bars) \in Nat
  BY DEF SequentialKept, CoreKept, Segment, Tape
<1>4. /\ AuditKept(run', bars, Len(bars), Len(bars)) /\ SameIds(run, run')
      /\ run'.policy = run.policy /\ run'.anchors = run.anchors /\ run'.ended
      /\ run'.refusal \in {"", "unsupported-incomplete-terminal-run"}
  BY <1>1, <1>2, <1>3, FinalizedKept
<1>5. SignalsKept(run', bars, sides)
  BY <1>2, <1>4, SignalsCarried
<1> QED BY <1>1, <1>2, <1>4, <1>5 DEF ScheduleKept

LEMMA ScheduleStepKept == SequentialKept /\ ScheduleKept /\ [SequentialNext]_allVars => ScheduleKept'
<1> SUFFICES ASSUME SequentialKept, ScheduleKept, [SequentialNext]_allVars PROVE ScheduleKept'
  OBVIOUS
<1>1. CASE CoreCalled
  BY <1>1 DEF CoreCalled, ScheduleKept
<1>2. CASE Observe
  BY <1>2, ObserveSchedule
<1>3. CASE BarsEnd
  BY <1>3, BarsEndSchedule
<1>4. CASE Refuse \/ Start \/ Answer \/ Done \/ UNCHANGED allVars
  <2>1. bars' = bars /\ run' = run /\ sides' = sides /\ lastIndex' = lastIndex
    BY <1>4 DEF Refuse, Start, Answer, Done, allVars, schedulerVars, vars
  <2>2. phase' # "core" => phase # "core"
    BY <1>4 DEF Refuse, Start, Answer, Done, allVars
  <2> QED BY <2>1, <2>2, Zenon DEF ScheduleKept
<1> QED BY <1>1, <1>2, <1>3, <1>4 DEF SequentialNext

-------------------------------------------------------------------------------
(* What is kept is what the audit has to say.                              *)

LEMMA ReasonKept ==
  ASSUME NEW n \in Nat, n = Len(bars), AuditKept(run, bars, n, n), NEW o \in run.opportunities
  PROVE  ReasonTrue(o)
<1> DEFINE mine == Trade(o.id)
<1>1. OppKept(run, bars, n, n, o) /\ TradesKept(run, n)
  BY DEF AuditKept
<1>2. Decided(run, bars, n, n, o) /\ o.decision \in 1 .. n
  BY <1>1 DEF OppKept
<1>3. Owns(run, o.id) <=> mine # {} \/ Holding(o.id)
  BY DEF Owns, Trade, Holding
<1>4. /\ EnteredAt(run, o.id, o.decision + 1)
      /\ \A k \in mine : run.trades[k].from = o.decision + 1
      /\ Holding(o.id) => run.pos.from = o.decision + 1
  BY <1>1 DEF OppKept, EnteredAt, Trade, Holding
<1>5. Breached(o) <=> Breaks(bars, o)
  BY DEF Breached, Breaks
<1>6. Spanned(o.decision) <=> Spans(run, o.decision)
  BY DEF Spanned, Spans
<1>7. ASSUME o.status = "filled" PROVE Cardinality(mine) + (IF Holding(o.id) THEN 1 ELSE 0) = 1
  <2>1. mine # {} \/ Holding(o.id)
    BY <1>1, <1>3, <1>7 DEF OppKept
  <2>2. CASE Holding(o.id)
    <3>1. mine = {}
      BY <1>1, <2>2 DEF Holding, Trade, TradesKept
    <3> HIDE DEF mine
    <3> QED BY <2>2, <3>1, FS_EmptySet
  <2>3. CASE ~Holding(o.id)
    <3>1. PICK k : k \in mine
      BY <2>1, <2>3
    <3>2. \A j \in mine : j = k
      BY <1>1, <3>1 DEF Trade, TradesKept
    <3> HIDE DEF mine
    <3>3. mine = {k}
      BY <3>1, <3>2
    <3>4. Cardinality(mine) = 1
      BY <3>3, FS_Singleton
    <3> QED BY <2>3, <3>4
  <2> QED BY <2>2, <2>3
<1>8. o.status = "filled" => o.decision < n
  <2> SUFFICES ASSUME o.status = "filled" PROVE o.decision < n
    OBVIOUS
  <2>1. mine # {} \/ Holding(o.id)
    BY <1>1, <1>3 DEF OppKept
  <2>2. CASE Holding(o.id)
    <3>1. run.pos.from <= n
      BY <1>1, <2>2 DEF Holding, TradesKept
    <3> QED BY <1>2, <1>4, <2>2, <3>1
  <2>3. ASSUME NEW k \in mine PROVE o.decision < n
    <3>1. run.trades[k].from <= n
      BY <1>1, <2>3 DEF Trade, TradesKept
    <3> QED BY <1>2, <1>4, <2>3, <3>1
  <2> QED BY <2>1, <2>2, <2>3
<1> HIDE DEF mine
<1>9. o.reason \notin {"warmup", "simultaneous_signal"}
  BY <1>2 DEF Decided
<1>10. /\ o.status = "filled" <=> Owns(run, o.id)
       /\ o.reason = "signal_expired" <=> run.policy = "E1" /\ o.decision - o.at > Response
       /\ o.reason # "signal_expired" => (o.reason = "blocked_in_position" <=> Spans(run, o.decision))
       /\ o.status = "pending" <=> run.pending = o.id
  BY <1>1 DEF OppKept
<1>11. /\ o.status = "filled" => ~Breaks(bars, o)
       /\ o.reason = "stop_breached_at_entry" => Breaks(bars, o)
       /\ o.status = "pending" => o.decision = n
  BY <1>2 DEF Decided
<1>12. o.reason = "no_next_bar" <=>
         run.ended /\ o.decision = n /\ o.reason \notin {"blocked_in_position", "signal_expired"}
  <2>1. o.decision = n => ~(o.decision < n)
    OBVIOUS
  <2>2. ASSUME o.reason = "no_next_bar"
        PROVE  run.ended /\ o.decision = n /\ o.reason \notin {"blocked_in_position", "signal_expired"}
    BY <1>2, <2>2 DEF Decided
  <2>3. ASSUME run.ended, o.decision = n, o.reason \notin {"blocked_in_position", "signal_expired"}
        PROVE  o.reason = "no_next_bar"
    BY <1>2, <1>8, <2>1, <2>3, Zenon DEF Decided
  <2> QED BY <2>2, <2>3
<1> QED BY <1>3, <1>4, <1>5, <1>6, <1>7, <1>9, <1>10, <1>11, <1>12 DEF ReasonTrue, mine

LEMMA ReasonsAreKept == SequentialKept /\ ScheduleKept => ReasonsTrue
<1> SUFFICES ASSUME SequentialKept, ScheduleKept, phase \in {"running", "answered"}
             PROVE  /\ \A o \in run.opportunities : ReasonTrue(o)
                    /\ \A side \in Side : Told(side)
                    /\ run.refusal \in {"", "unsupported-incomplete-terminal-run"}
  BY DEF ReasonsTrue
<1>1. /\ AuditKept(run, bars, Len(bars), Len(bars)) /\ SignalsKept(run, bars, sides)
      /\ run.refusal \in {"", "unsupported-incomplete-terminal-run"}
  BY DEF ScheduleKept
<1>2. Len(bars) \in Nat
  BY DEF SequentialKept, CoreKept, Segment, Tape
<1>3. \A o \in run.opportunities : ReasonTrue(o)
  BY <1>1, <1>2, ReasonKept
<1>4. ASSUME NEW x \in Side PROVE Told(x)
  <2>1. SideTold(run, x, sides[x])
    BY <1>1 DEF SignalsKept
  <2>2. sides[x].setup.perfected => sides[x].setup # NoSetup
    BY DEF NoSetup
  <2> QED BY <2>1, <2>2 DEF Told, SideTold, ToldAt
<1> QED BY <1>1, <1>3, <1>4

(* In every reachable state, the audit of a request's run and what the core *)
(* keeps agree with the bars observed so far.                              *)
THEOREM ScheduleInvariant == SequentialSpec => []ScheduleKept
<1> QED BY SequentialInvariant, ScheduleInitKept, ScheduleStepKept, PTL DEF SequentialSpec

(* Whatever the requests, the prices and the holes, the audit of a run      *)
(* tells the truth (acceptEvents, fill, finalize): every filled             *)
(* opportunity is one trade or the position, entered at the bar after its   *)
(* decision, a blocked one met a position, an expired one came late, one    *)
(* with no next bar is the last, no two sides ever answer at one bar, no    *)
(* Setup completes in the warm-up, and every perfected Setup (E1) or        *)
(* completed Countdown (E2) has its opportunity at the very bar.            *)
THEOREM ReasonsAlwaysTrue == SequentialSpec => []ReasonsTrue
<1> QED BY SequentialInvariant, ScheduleInvariant, ReasonsAreKept, PTL
===============================================================================
