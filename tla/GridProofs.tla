------------------------------- MODULE GridProofs -------------------------------
(***************************************************************************)
(* Proofs about Grid, for any number of variants, slots and cost modes.    *)
(*                                                                         *)
(* The inductive invariant: the wait group counts the goroutines that have *)
(* not signed off, with the one main has announced; the channel holds a    *)
(* slot for each that has not freed it, and never more than its capacity;  *)
(* a goroutine past its run has written its own index, and only that.      *)
(***************************************************************************)
EXTENDS Grid, TLAPS, FiniteSetTheorems, WellFoundedInduction

TypeOK ==
  /\ Count \in Nat \ {0} /\ failsAt \in [Variants -> 0 .. Modes]
  /\ refused \in BOOLEAN /\ spawned \in 0 .. Count
  /\ mainPc \in {"prepare", "loop", "spawn", "wait", "read", "done"}
  /\ pc \in [Variants -> {"none", "run", "release", "sign", "end"}]
  /\ mode \in [Variants -> 1 .. Modes]
  /\ slots \in Nat /\ counter \in Nat
  /\ rows \subseteq Variants /\ errors \subseteq Variants
  /\ outcome \in 0 .. Count \cup {Pending, Refused}

Announced == IF mainPc = "spawn" THEN 1 ELSE 0
Active == {v \in Variants : pc[v] \in {"run", "release", "sign"}}
Holding == {v \in Variants : pc[v] \in {"run", "release"}}

Started == \A v \in Variants : pc[v] = "none" <=> v > spawned
Counted == counter = Cardinality(Active) + Announced
Bounded == slots = Cardinality(Holding) + Announced /\ slots <= WorkerLimit

(* What a variant has written, by where its goroutine is.                  *)
Written(v) ==
  /\ v \in rows \cup errors <=> pc[v] \in {"release", "sign", "end"}
  /\ v \in rows => failsAt[v] = 0
  /\ v \in errors => failsAt[v] # 0
  /\ pc[v] \in {"none", "run"} => failsAt[v] = 0 \/ failsAt[v] >= mode[v]

MainOK ==
  /\ mainPc = "spawn" => spawned < Count
  /\ mainPc \in {"wait", "read"} => spawned = Count
  /\ mainPc = "read" => Active = {}
  /\ mainPc = "done" =>
       outcome = Refused \/ (spawned = Count /\ Active = {} /\ outcome = FirstError(errors))

IInv ==
  /\ TypeOK /\ Started /\ Counted /\ Bounded /\ MainOK
  /\ \A v \in Variants : Written(v)
-------------------------------------------------------------------------------
LEMMA ActiveFinite ==
  ASSUME TypeOK
  PROVE  /\ IsFiniteSet(Active) /\ Cardinality(Active) \in Nat
         /\ IsFiniteSet(Holding) /\ Cardinality(Holding) \in Nat
<1>1. IsFiniteSet(Variants)
  BY FS_Interval DEF TypeOK, Variants
<1>2. Active \subseteq Variants /\ Holding \subseteq Variants
  BY DEF Active, Holding
<1> QED BY <1>1, <1>2, FS_Subset, FS_CardinalityType

(* Every nonempty set of variants has a least one.                         *)
LEMMA LeastVariant ==
  ASSUME NEW E, E \subseteq Nat, E # {}
  PROVE  \E v \in E : \A w \in E : v <= w
<1>1. PICK v \in E : \A w \in E : ~(<<w, v>> \in OpToRel(<, Nat))
  BY NatLessThanWellFounded, WFMin, Zenon
<1>2. ASSUME NEW w \in E PROVE v <= w
  <2>1. v \in Nat /\ w \in Nat
    OBVIOUS
  <2>2. ~(w < v)
    BY <1>1, <2>1 DEF OpToRel
  <2> QED BY <2>1, <2>2
<1> QED BY <1>1, <1>2

LEMMA InitInv == Init => IInv
<1> SUFFICES ASSUME Init PROVE IInv
  OBVIOUS
<1> USE GridAssumption
<1>1. PICK n \in 1 .. N : failsAt \in [1 .. n -> 0 .. Modes]
  BY DEF Init, PoolInit
<1>2. failsAt \in Seq(0 .. Modes) /\ Len(failsAt) = n /\ n \in Nat \ {0}
  BY <1>1
<1>3. Count = n /\ Variants = 1 .. n
  BY <1>2 DEF Count, Variants
<1>4. TypeOK
  BY <1>1, <1>2, <1>3 DEF Init, PoolInit, TypeOK, Pending
<1>5. Active = {} /\ Holding = {} /\ Announced = 0
  BY <1>3 DEF Init, PoolInit, Active, Holding, Announced
<1>6. WorkerLimit \in Nat
  BY <1>2, <1>3 DEF WorkerLimit
<1>7. Counted /\ Bounded
  BY <1>5, <1>6, FS_EmptySet DEF Init, PoolInit, Counted, Bounded
<1>8. Started
  BY <1>3 DEF Init, PoolInit, Started
<1>9. MainOK
  BY DEF Init, PoolInit, MainOK
<1>10. \A v \in Variants : Written(v)
  BY <1>1, <1>3 DEF Init, PoolInit, Written
<1> QED BY <1>4, <1>7, <1>8, <1>9, <1>10 DEF IInv

(* The sets follow the goroutine that moves.                               *)
LEMMA Moves ==
  ASSUME TypeOK, UNCHANGED failsAt, NEW v \in Variants, NEW where,
         pc' = [pc EXCEPT ![v] = where]
  PROVE  /\ Variants' = Variants /\ pc'[v] = where /\ \A w \in Variants : w # v => pc'[w] = pc[w]
         /\ where \in {"run", "release", "sign"} => Active' = Active \cup {v}
         /\ where \notin {"run", "release", "sign"} => Active' = Active \ {v}
         /\ where \in {"run", "release"} => Holding' = Holding \cup {v}
         /\ where \notin {"run", "release"} => Holding' = Holding \ {v}
<1>1. Variants' = Variants
  BY DEF Variants, Count
<1>2. pc'[v] = where /\ \A w \in Variants : w # v => pc'[w] = pc[w]
  BY DEF TypeOK
<1>3. /\ where \in {"run", "release", "sign"} => Active' = Active \cup {v}
      /\ where \notin {"run", "release", "sign"} => Active' = Active \ {v}
  BY <1>1, <1>2 DEF Active
<1>4. /\ where \in {"run", "release"} => Holding' = Holding \cup {v}
      /\ where \notin {"run", "release"} => Holding' = Holding \ {v}
  BY <1>1, <1>2 DEF Holding
<1> QED BY <1>1, <1>2, <1>3, <1>4

(* A set that loses or keeps the member counts accordingly.                *)
LEMMA CountMember ==
  ASSUME NEW S, IsFiniteSet(S), NEW v
  PROVE  /\ v \in S => S \cup {v} = S /\ Cardinality(S \ {v}) = Cardinality(S) - 1
         /\ v \notin S => S \ {v} = S /\ Cardinality(S \cup {v}) = Cardinality(S) + 1
<1>1. v \in S => S \cup {v} = S
  OBVIOUS
<1>2. v \notin S => S \ {v} = S
  OBVIOUS
<1> QED BY <1>1, <1>2, FS_AddElement, FS_RemoveElement
-------------------------------------------------------------------------------
(* A step of main that leaves the goroutines alone.                        *)
LEMMA MainAlone ==
  ASSUME IInv, UNCHANGED << spawned, pc, mode, slots, counter, rows, errors, fixed >>,
         Announced' = Announced, MainOK',
         mainPc' \in {"prepare", "loop", "spawn", "wait", "read", "done"},
         outcome' \in 0 .. Count \cup {Pending, Refused}
  PROVE  IInv'
<1>1. /\ UNCHANGED << failsAt, refused, spawned, pc, mode, slots, counter, rows, errors >>
      /\ Count' = Count /\ Variants' = Variants /\ WorkerLimit' = WorkerLimit
  BY DEF fixed, Count, Variants, WorkerLimit
<1>2. Active' = Active /\ Holding' = Holding
  BY <1>1 DEF Active, Holding
<1>3. TypeOK'
  BY <1>1 DEF IInv, TypeOK
<1>4. Started' /\ Counted' /\ Bounded'
  BY <1>1, <1>2 DEF IInv, Started, Counted, Bounded
<1>5. \A v \in Variants' : Written(v)'
  BY <1>1 DEF IInv, Written
<1> QED BY <1>3, <1>4, <1>5 DEF IInv

LEMMA LoopSteps ==
  ASSUME IInv, Refuse \/ Prepare \/ Prepared \/ LoopDone \/ Wait \/ Collect \/ UNCHANGED vars
  PROVE  IInv'
<1>1. CASE Refuse
  <2>1. MainOK'
    BY <1>1 DEF Refuse, MainOK
  <2> QED BY <1>1, <2>1, MainAlone DEF Refuse, Announced
<1>2. CASE Prepare \/ UNCHANGED vars
  <2>1. UNCHANGED pool
    BY <1>2 DEF Prepare, vars, pool
  <2>2. /\ UNCHANGED << failsAt, refused, spawned, mainPc, pc, mode, slots, counter, rows,
                        errors, outcome >>
        /\ Count' = Count /\ Variants' = Variants /\ WorkerLimit' = WorkerLimit
    BY <2>1 DEF pool, Count, Variants, WorkerLimit
  <2>3. Active' = Active /\ Holding' = Holding /\ Announced' = Announced
    BY <2>2 DEF Active, Holding, Announced
  <2>4. TypeOK' /\ Started' /\ Counted' /\ Bounded' /\ MainOK'
    BY <2>2, <2>3 DEF IInv, TypeOK, Started, Counted, Bounded, MainOK
  <2>5. \A v \in Variants' : Written(v)'
    BY <2>2 DEF IInv, Written
  <2> QED BY <2>4, <2>5 DEF IInv
<1>3. CASE Prepared
  <2>1. MainOK'
    BY <1>3 DEF Prepared, MainOK
  <2> QED BY <1>3, <2>1, MainAlone DEF Prepared, Announced, IInv, TypeOK
<1>4. CASE LoopDone
  <2>1. MainOK'
    BY <1>4 DEF LoopDone, MainOK, Count, fixed
  <2> QED BY <1>4, <2>1, MainAlone DEF LoopDone, Announced, IInv, TypeOK
<1>5. CASE Wait
  <2>1. Cardinality(Active) = 0
    BY <1>5, ActiveFinite DEF Wait, WaitOver, IInv, Counted, Announced
  <2>2. Active = {}
    BY <2>1, ActiveFinite, FS_EmptySet DEF IInv
  <2>3. Active' = Active
    BY <1>5 DEF Wait, fixed, Active, Variants, Count
  <2>4. MainOK'
    BY <1>5, <2>2, <2>3 DEF Wait, MainOK, IInv, fixed, Count
  <2> QED BY <1>5, <2>4, MainAlone DEF Wait, Announced, IInv, TypeOK
<1>6. CASE Collect
  <2>1. outcome' \in 0 .. Count
    <3>1. CASE errors = {}
      BY <1>6, <3>1 DEF Collect, FirstError, IInv, TypeOK
    <3>2. CASE errors # {}
      <4>1. errors \subseteq Nat /\ errors \subseteq 0 .. Count
        BY DEF IInv, TypeOK, Variants
      <4>2. FirstError(errors) \in errors
        BY <3>2, <4>1, LeastVariant DEF FirstError
      <4> QED BY <1>6, <4>1, <4>2 DEF Collect
    <3> QED BY <3>1, <3>2
  <2>2. Active' = Active
    BY <1>6 DEF Collect, fixed, Active, Variants, Count
  <2>3. MainOK'
    BY <1>6, <2>2 DEF Collect, MainOK, IInv, fixed, Count, FirstError
  <2> QED BY <1>6, <2>1, <2>3, MainAlone DEF Collect, Announced
<1> QED BY <1>1, <1>2, <1>3, <1>4, <1>5, <1>6

LEMMA AcquireInv == ASSUME IInv, Acquire PROVE IInv'
<1> USE GridAssumption
<1>1. /\ mainPc = "loop" /\ mainPc' = "spawn" /\ spawned < Count /\ slots < WorkerLimit
      /\ slots' = slots + 1 /\ counter' = counter + 1
      /\ UNCHANGED << failsAt, refused, spawned, pc, mode, rows, errors, outcome >>
  BY DEF Acquire, Added, fixed
<1>2. Count' = Count /\ Variants' = Variants /\ WorkerLimit' = WorkerLimit
  BY <1>1 DEF Count, Variants, WorkerLimit
<1>3. Active' = Active /\ Holding' = Holding /\ Announced = 0 /\ Announced' = 1
  BY <1>1, <1>2 DEF Active, Holding, Announced
<1>4. TypeOK'
  BY <1>1, <1>2 DEF IInv, TypeOK
<1>5. Counted'
  BY <1>1, <1>3, ActiveFinite DEF IInv, Counted
<1>6. Bounded'
  <2>1. WorkerLimit \in Nat /\ slots \in Nat
    BY DEF IInv, TypeOK, WorkerLimit
  <2> QED BY <1>1, <1>2, <1>3, <2>1, ActiveFinite DEF IInv, Bounded
<1>7. Started' /\ MainOK'
  BY <1>1, <1>2 DEF IInv, Started, MainOK
<1>8. \A v \in Variants' : Written(v)'
  BY <1>1, <1>2 DEF IInv, Written
<1> QED BY <1>4, <1>5, <1>6, <1>7, <1>8 DEF IInv

LEMMA SpawnInv == ASSUME IInv, Spawn PROVE IInv'
<1> USE GridAssumption
<1> DEFINE v == spawned + 1
<1>1. /\ mainPc = "spawn" /\ mainPc' = "loop" /\ spawned' = spawned + 1
      /\ pc' = [pc EXCEPT ![v] = "run"]
      /\ UNCHANGED << failsAt, refused, mode, slots, counter, rows, errors, outcome >>
  BY DEF Spawn, fixed
<1>2. Count' = Count /\ Variants' = Variants /\ WorkerLimit' = WorkerLimit
  BY <1>1 DEF Count, Variants, WorkerLimit
<1>3. spawned \in Nat /\ Count \in Nat /\ spawned < Count /\ v \in Variants
  BY <1>1 DEF IInv, TypeOK, MainOK, Variants
<1>4. pc[v] = "none"
  BY <1>3 DEF IInv, Started
<1> HIDE DEF v
<1>5. /\ pc'[v] = "run" /\ \A w \in Variants : w # v => pc'[w] = pc[w]
      /\ Active' = Active \cup {v} /\ Holding' = Holding \cup {v}
  BY <1>1, <1>3, Moves DEF IInv
<1>6. v \notin Active /\ v \notin Holding
  BY <1>4 DEF Active, Holding
<1>7. Cardinality(Active') = Cardinality(Active) + 1 /\ Cardinality(Holding') = Cardinality(Holding) + 1
  BY <1>5, <1>6, ActiveFinite, CountMember DEF IInv
<1>8. Announced = 1 /\ Announced' = 0
  BY <1>1 DEF Announced
<1>9. TypeOK'
  BY <1>1, <1>2, <1>3 DEF IInv, TypeOK
<1>10. Counted' /\ Bounded'
  BY <1>1, <1>2, <1>7, <1>8, ActiveFinite DEF IInv, Counted, Bounded
<1>11. Started'
  <2>1. ASSUME NEW w \in Variants PROVE pc'[w] = "none" <=> w > spawned'
    <3>1. w \in Nat
      BY <1>3 DEF Variants
    <3>2. CASE w = v
      BY <1>1, <1>3, <1>5, <3>2 DEF v
    <3>3. CASE w # v
      BY <1>1, <1>3, <1>5, <3>1, <3>3 DEF v, IInv, Started
    <3> QED BY <3>2, <3>3
  <2> QED BY <1>2, <2>1 DEF Started
<1>12. MainOK'
  BY <1>1 DEF MainOK
<1>13. \A w \in Variants' : Written(w)'
  <2>1. ASSUME NEW w \in Variants PROVE Written(w)'
    <3>1. CASE w = v
      BY <1>1, <1>3, <1>4, <1>5, <3>1 DEF IInv, Written
    <3>2. CASE w # v
      BY <1>1, <1>5, <3>2 DEF IInv, Written
    <3> QED BY <3>1, <3>2
  <2> QED BY <1>2, <2>1
<1> QED BY <1>9, <1>10, <1>11, <1>12, <1>13 DEF IInv

(* What a goroutine does keeps main's promises: it moves only while it is  *)
(* counted, so main is neither past its wait nor done.                     *)
LEMMA WorkerInv == ASSUME IInv, NEW v \in Variants, Worker(v) PROVE IInv'
<1> USE GridAssumption
<1>1. /\ UNCHANGED << failsAt, refused, spawned, mainPc, outcome >>
      /\ Count' = Count /\ Variants' = Variants /\ WorkerLimit' = WorkerLimit
      /\ Announced' = Announced
  <2>1. UNCHANGED << failsAt, refused, spawned, mainPc, outcome >>
    BY DEF Worker, RunMode, Succeed, Fail, Release, SignOff, fixed
  <2> QED BY <2>1 DEF Count, Variants, WorkerLimit, Announced
<1>2. v \in Active
  BY DEF Worker, RunMode, Succeed, Fail, Release, SignOff, Active
<1>3. mainPc # "read" /\ (mainPc = "done" => outcome = Refused)
  BY <1>2 DEF IInv, MainOK
<1>4. MainOK'
  BY <1>1, <1>3 DEF IInv, MainOK
<1>5. failsAt[v] \in 0 .. Modes /\ mode[v] \in 1 .. Modes
  BY DEF IInv, TypeOK
<1>6. ASSUME NEW where \in {"run", "release", "sign", "end"}, pc' = [pc EXCEPT ![v] = where]
      PROVE  Started'
  <2>1. \A w \in Variants : pc'[w] = "none" <=> pc[w] = "none"
    BY <1>2, <1>6, Moves DEF IInv, Active, TypeOK
  <2> QED BY <1>1, <2>1 DEF IInv, Started
<1>7. CASE RunMode(v)
  <2>1. /\ mode' = [mode EXCEPT ![v] = mode[v] + 1] /\ mode[v] < Modes /\ failsAt[v] # mode[v]
        /\ UNCHANGED << pc, slots, counter, rows, errors >> /\ pc[v] = "run"
    BY <1>7 DEF RunMode
  <2>2. Active' = Active /\ Holding' = Holding
    BY <1>1, <2>1 DEF Active, Holding
  <2>3. TypeOK' /\ Started' /\ Counted' /\ Bounded'
    BY <1>1, <1>5, <2>1, <2>2 DEF IInv, TypeOK, Started, Counted, Bounded
  <2>4. ASSUME NEW w \in Variants PROVE Written(w)'
    <3>1. Written(w)
      BY DEF IInv
    <3>2. CASE w = v
      <4>1. mode'[w] = mode[v] + 1
        BY <2>1, <3>2 DEF IInv, TypeOK
      <4> QED BY <1>1, <1>5, <2>1, <3>1, <3>2, <4>1 DEF Written
    <3>3. CASE w # v
      BY <1>1, <2>1, <3>1, <3>3 DEF Written, IInv, TypeOK
    <3> QED BY <3>2, <3>3
  <2> QED BY <1>1, <1>4, <2>3, <2>4 DEF IInv
<1>8. CASE Succeed(v)
  <2>1. /\ rows' = rows \cup {v} /\ pc' = [pc EXCEPT ![v] = "release"] /\ pc[v] = "run"
        /\ failsAt[v] # mode[v] /\ mode[v] = Modes
        /\ UNCHANGED << mode, slots, counter, errors >>
    BY <1>8 DEF Succeed
  <2>2. /\ pc'[v] = "release" /\ \A w \in Variants : w # v => pc'[w] = pc[w]
        /\ Active' = Active /\ Holding' = Holding
    <3>1. v \in Holding
      BY <2>1 DEF Holding
    <3>2. /\ pc'[v] = "release" /\ \A w \in Variants : w # v => pc'[w] = pc[w]
          /\ Active' = Active \cup {v} /\ Holding' = Holding \cup {v}
      BY <1>1, <2>1, Moves DEF IInv
    <3> QED BY <1>2, <3>1, <3>2
  <2>3. TypeOK' /\ Started' /\ Counted' /\ Bounded'
    BY <1>1, <1>6, <2>1, <2>2 DEF IInv, TypeOK, Counted, Bounded
  <2>4. ASSUME NEW w \in Variants PROVE Written(w)'
    <3>1. Written(w)
      BY DEF IInv
    <3>2. CASE w = v
      BY <1>1, <1>5, <2>1, <2>2, <3>1, <3>2 DEF Written
    <3>3. CASE w # v
      BY <1>1, <2>1, <2>2, <3>1, <3>3 DEF Written
    <3> QED BY <3>2, <3>3
  <2> QED BY <1>1, <1>4, <2>3, <2>4 DEF IInv
<1>9. CASE Fail(v)
  <2>1. /\ errors' = errors \cup {v} /\ pc' = [pc EXCEPT ![v] = "release"] /\ pc[v] = "run"
        /\ failsAt[v] = mode[v] /\ UNCHANGED << mode, slots, counter, rows >>
    BY <1>9 DEF Fail, AfterError
  <2>2. /\ pc'[v] = "release" /\ \A w \in Variants : w # v => pc'[w] = pc[w]
        /\ Active' = Active /\ Holding' = Holding
    <3>1. v \in Holding
      BY <2>1 DEF Holding
    <3>2. /\ pc'[v] = "release" /\ \A w \in Variants : w # v => pc'[w] = pc[w]
          /\ Active' = Active \cup {v} /\ Holding' = Holding \cup {v}
      BY <1>1, <2>1, Moves DEF IInv
    <3> QED BY <1>2, <3>1, <3>2
  <2>3. TypeOK' /\ Started' /\ Counted' /\ Bounded'
    BY <1>1, <1>6, <2>1, <2>2 DEF IInv, TypeOK, Counted, Bounded
  <2>4. ASSUME NEW w \in Variants PROVE Written(w)'
    <3>1. Written(w)
      BY DEF IInv
    <3>2. CASE w = v
      BY <1>1, <1>5, <2>1, <2>2, <3>1, <3>2 DEF Written
    <3>3. CASE w # v
      BY <1>1, <2>1, <2>2, <3>1, <3>3 DEF Written
    <3> QED BY <3>2, <3>3
  <2> QED BY <1>1, <1>4, <2>3, <2>4 DEF IInv
<1>10. CASE Release(v)
  <2>1. /\ slots' = slots - 1 /\ pc' = [pc EXCEPT ![v] = "sign"] /\ pc[v] = "release"
        /\ UNCHANGED << mode, counter, rows, errors >>
    BY <1>10 DEF Release
  <2>2. v \in Holding
    BY <2>1 DEF Holding
  <2>3. /\ pc'[v] = "sign" /\ \A w \in Variants : w # v => pc'[w] = pc[w]
        /\ Active' = Active /\ Holding' = Holding \ {v}
    <3>1. /\ pc'[v] = "sign" /\ \A w \in Variants : w # v => pc'[w] = pc[w]
          /\ Active' = Active \cup {v} /\ Holding' = Holding \ {v}
      BY <1>1, <2>1, Moves DEF IInv
    <3> QED BY <1>2, <3>1
  <2>4. Cardinality(Holding') = Cardinality(Holding) - 1 /\ Cardinality(Holding') \in Nat
    <3>1. IsFiniteSet(Holding \ {v})
      BY ActiveFinite, FS_RemoveElement DEF IInv
    <3> QED BY <2>2, <2>3, <3>1, ActiveFinite, CountMember, FS_CardinalityType DEF IInv
  <2>5. Bounded' /\ slots' \in Nat
    <3>1. WorkerLimit \in Nat /\ Announced \in Nat
      BY DEF IInv, TypeOK, WorkerLimit, Announced
    <3> QED BY <1>1, <2>1, <2>4, <3>1, ActiveFinite DEF IInv, Bounded, TypeOK
  <2>6. TypeOK' /\ Started' /\ Counted'
    BY <1>1, <1>6, <2>1, <2>3, <2>5 DEF IInv, TypeOK, Counted
  <2>7. \A w \in Variants' : Written(w)'
    BY <1>1, <2>1, <2>3 DEF IInv, Written
  <2> QED BY <1>4, <2>5, <2>6, <2>7 DEF IInv
<1>11. CASE SignOff(v)
  <2>1. /\ counter' = counter - 1 /\ pc' = [pc EXCEPT ![v] = "end"] /\ pc[v] = "sign"
        /\ UNCHANGED << mode, slots, rows, errors >>
    BY <1>11 DEF SignOff
  <2>2. v \notin Holding
    BY <2>1 DEF Holding
  <2>3. /\ pc'[v] = "end" /\ \A w \in Variants : w # v => pc'[w] = pc[w]
        /\ Active' = Active \ {v} /\ Holding' = Holding
    <3>1. /\ pc'[v] = "end" /\ \A w \in Variants : w # v => pc'[w] = pc[w]
          /\ Active' = Active \ {v} /\ Holding' = Holding \ {v}
      BY <1>1, <2>1, Moves DEF IInv
    <3> QED BY <2>2, <3>1
  <2>4. Cardinality(Active') = Cardinality(Active) - 1 /\ Cardinality(Active') \in Nat
    <3>1. IsFiniteSet(Active \ {v})
      BY ActiveFinite, FS_RemoveElement DEF IInv
    <3> QED BY <1>2, <2>3, <3>1, ActiveFinite, CountMember, FS_CardinalityType DEF IInv
  <2>5. Counted' /\ counter' \in Nat
    <3>1. Announced \in Nat
      BY DEF Announced
    <3> QED BY <1>1, <2>1, <2>4, <3>1, ActiveFinite DEF IInv, Counted, TypeOK
  <2>6. TypeOK' /\ Started' /\ Bounded'
    BY <1>1, <1>6, <2>1, <2>3, <2>5 DEF IInv, TypeOK, Bounded
  <2>7. \A w \in Variants' : Written(w)'
    BY <1>1, <2>1, <2>3 DEF IInv, Written
  <2> QED BY <1>4, <2>5, <2>6, <2>7 DEF IInv
<1> QED BY <1>7, <1>8, <1>9, <1>10, <1>11 DEF Worker
-------------------------------------------------------------------------------
LEMMA StepInv == IInv /\ [Next]_vars => IInv'
<1> SUFFICES ASSUME IInv, [Next]_vars PROVE IInv'
  OBVIOUS
<1>1. CASE \E v \in 1 .. N : v \in Variants /\ Worker(v)
  BY <1>1, WorkerInv
<1>2. CASE Done
  BY <1>2, LoopSteps DEF Done
<1> QED BY <1>1, <1>2, LoopSteps, AcquireInv, SpawnInv, Zenon DEF Next, Main

(* runGridVariants: main reads what the goroutines wrote only when none    *)
(* can still write; every variant then has its rows or its error, and what *)
(* is returned is the error of the lowest variant that failed, for every   *)
(* number of variants, slots and modes and every schedule.                 *)
THEOREM ReadsAfterEveryWrite == Spec => []ReadsAfterWrites
<1>1. IInv => ReadsAfterWrites
  <2> SUFFICES ASSUME IInv, mainPc \in {"read", "done"}, outcome # Refused
               PROVE  /\ \A v \in Variants : v \in rows \cup errors /\ pc[v] = "end"
                      /\ errors = {v \in Variants : failsAt[v] # 0}
                      /\ mainPc = "done" => outcome = Min(errors \cup {Count + 1}) % (Count + 1)
    BY DEF ReadsAfterWrites
  <2>1. spawned = Count /\ Active = {} /\ (mainPc = "done" => outcome = FirstError(errors))
    BY DEF IInv, MainOK
  <2>2. Count \in Nat \ {0} /\ errors \subseteq Variants /\ Variants = 1 .. Count
    BY DEF IInv, TypeOK, Variants
  <2>3. ASSUME NEW v \in Variants PROVE pc[v] = "end"
    <3>1. ~(v > spawned)
      BY <2>1, <2>2
    <3>2. pc[v] # "none" /\ pc[v] \notin {"run", "release", "sign"}
      BY <2>1, <3>1 DEF IInv, Started, Active
    <3> QED BY <3>2 DEF IInv, TypeOK
  <2>4. ASSUME NEW v \in Variants
        PROVE  v \in rows \cup errors /\ (v \in errors <=> failsAt[v] # 0)
    <3>1. Written(v)
      BY DEF IInv
    <3> QED BY <2>3, <3>1 DEF Written
  <2>5. errors = {v \in Variants : failsAt[v] # 0}
    BY <2>2, <2>4
  <2>6. FirstError(errors) = Min(errors \cup {Count + 1}) % (Count + 1)
    <3>1. CASE errors = {}
      <4>1. Min({Count + 1}) = Count + 1
        BY <2>2 DEF Min
      <4>2. (Count + 1) % (Count + 1) = 0
        BY <2>2
      <4> QED BY <3>1, <4>1, <4>2 DEF FirstError
    <3>2. CASE errors # {}
      <4>1. errors \subseteq Nat
        BY <2>2
      <4>2. PICK least \in errors : \A w \in errors : least <= w
        BY <3>2, <4>1, LeastVariant
      <4>3. least \in 1 .. Count /\ \A w \in errors : w \in 1 .. Count
        BY <2>2
      <4>4. FirstError(errors) = least
        <5>1. FirstError(errors) \in errors /\ \A w \in errors : FirstError(errors) <= w
          BY <3>2, <4>2, Zenon DEF FirstError
        <5>2. FirstError(errors) <= least /\ least <= FirstError(errors)
          BY <4>2, <5>1
        <5>3. FirstError(errors) \in Nat /\ least \in Nat
          BY <4>1, <4>2, <5>1, Zenon
        <5> QED BY <5>2, <5>3
      <4>6. Min(errors \cup {Count + 1}) = least
        <5> DEFINE S == errors \cup {Count + 1}
        <5>1. least \in S /\ \A w \in S : least <= w
          BY <2>2, <4>2, <4>3
        <5>2. Min(S) \in S /\ \A w \in S : Min(S) <= w
          BY <5>1, Zenon DEF Min
        <5>3. S \subseteq Int
          BY <2>2, <4>1
        <5> HIDE DEF S
        <5>4. Min(S) <= least /\ least <= Min(S) /\ Min(S) \in Int /\ least \in Int
          BY <5>1, <5>2, <5>3
        <5>5. Min(S) = least
          BY <5>4
        <5> QED BY <5>5 DEF S
      <4>5. least % (Count + 1) = least
        BY <2>2, <4>3
      <4> QED BY <4>4, <4>5, <4>6
    <3> QED BY <3>1, <3>2
  <2> QED BY <2>1, <2>3, <2>4, <2>5, <2>6
<1> QED BY <1>1, InitInv, StepInv, PTL DEF Spec

SlotsHold ==
  /\ Cardinality(Holding) <= WorkerLimit
  /\ \A v \in Variants : pc[v] = "release" => slots > 0

(* The bounded channel: no more variants run at once than there are slots, *)
(* and the deferred receive of a goroutine always finds its element, so a  *)
(* slot is freed without blocking on every path.                           *)
THEOREM SlotsAreHeld == Spec => []SlotsHold
<1>1. IInv => SlotsHold
  <2> SUFFICES ASSUME IInv PROVE SlotsHold
    OBVIOUS
  <2>1. /\ Cardinality(Holding) \in Nat /\ Announced \in Nat /\ WorkerLimit \in Nat
        /\ slots = Cardinality(Holding) + Announced /\ slots <= WorkerLimit
    BY ActiveFinite, GridAssumption DEF IInv, Bounded, Announced, TypeOK, WorkerLimit
  <2>2. Cardinality(Holding) <= WorkerLimit
    BY <2>1
  <2>3. ASSUME NEW v \in Variants, pc[v] = "release" PROVE slots > 0
    <3>1. Holding # {}
      BY <2>3 DEF Holding
    <3>2. Cardinality(Holding) # 0
      BY <3>1, ActiveFinite, FS_EmptySet DEF IInv
    <3> QED BY <2>1, <3>2
  <2> QED BY <2>2, <2>3 DEF SlotsHold
<1> QED BY <1>1, InitInv, StepInv, PTL DEF Spec
===============================================================================
