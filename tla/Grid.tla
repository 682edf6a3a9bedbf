---------------------------------- MODULE Grid ----------------------------------
(***************************************************************************)
(* The parameter grid of the command line (cmd/heisentick/grid.go, with    *)
(* report/run.go for the work of one variant).  The main goroutine builds  *)
(* the context that a group of variants shares; then it takes a slot of a  *)
(* bounded channel and starts one goroutine per variant; each runs its     *)
(* cost modes in order on a runner of its own, which reads the shared      *)
(* context, writes its rows or its error to its own index, frees the slot  *)
(* and signs off the wait group; main waits for all of them, then returns  *)
(* the error of the lowest variant or the rows of all.                     *)
(*                                                                         *)
(* Whether the context is refused, and whether a variant fails and in      *)
(* which mode, is chosen at the start: failure depends on the request and  *)
(* the configuration alone, never on the schedule.                         *)
(***************************************************************************)
EXTENDS ContextColumns

CONSTANTS
  N,      \* the most variants
  Limit,  \* GOMAXPROCS
  Modes   \* cost modes of a variant are 1 .. Modes

ASSUME GridAssumption == N \in Nat \ {0} /\ Limit \in Nat \ {0} /\ Modes \in Nat \ {0}

VARIABLES
  refused,  \* the shared context of the group is refused
  failsAt,  \* the mode in which each variant fails, 0 when it does not
  spawned,  \* variants main has started
  mainPc,   \* "prepare", "loop", "spawn" (slot taken), "wait", "read" or "done"
  pc,       \* of each goroutine: "none", "run", "release", "sign" or "end"
  mode,     \* the cost mode a goroutine runs
  slots,    \* elements in the workers channel
  counter,  \* the wait group
  rows,     \* outVariants: the variants that have rows
  errors,   \* variantErrors: the variants that have an error
  outcome   \* what main returns: 0 for all rows, or the variant of the error

pool == << failsAt, refused, spawned, mainPc, pc, mode, slots, counter, rows, errors, outcome >>
vars == << failsAt, refused, spawned, mainPc, pc, mode, slots, counter, rows, errors, outcome,
           tape, track, row, at >>
fixed == << failsAt, refused, tape, track, row, at >>

Count == Len(failsAt)
Variants == 1 .. Count
WorkerLimit == IF Limit > Count THEN Count ELSE Limit
Pending == -1
Refused == -2

PoolInit ==
  /\ failsAt \in UNION {[1 .. n -> 0 .. Modes] : n \in 1 .. N}
  /\ refused \in BOOLEAN
  /\ spawned = 0 /\ mainPc = "prepare"
  /\ pc = [v \in Variants |-> "none"]
  /\ mode = [v \in Variants |-> 1]
  /\ slots = 0 /\ counter = 0
  /\ rows = {} /\ errors = {}
  /\ outcome = Pending

Init == PoolInit /\ ContextInit
-------------------------------------------------------------------------------
(* The main goroutine.                                                     *)

(* The request is checked before its context is built; one row at a time.  *)
Refuse ==
  /\ mainPc = "prepare" /\ refused
  /\ mainPc' = "done" /\ outcome' = Refused
  /\ UNCHANGED << spawned, pc, mode, slots, counter, rows, errors, fixed >>

Prepare ==
  /\ mainPc = "prepare" /\ ~refused
  /\ BuildRow
  /\ UNCHANGED pool

Prepared ==
  /\ mainPc = "prepare" /\ ~refused
  /\ at = Len(tape.chart)
  /\ mainPc' = "loop"
  /\ UNCHANGED << spawned, pc, mode, slots, counter, rows, errors, outcome, fixed >>

(* wg.Add(1), then the send on the bounded channel, which blocks while all *)
(* slots are taken.                                                        *)
Added == counter + 1
Acquire ==
  /\ mainPc = "loop" /\ spawned < Count
  /\ slots < WorkerLimit
  /\ slots' = slots + 1
  /\ counter' = Added
  /\ mainPc' = "spawn"
  /\ UNCHANGED << spawned, pc, mode, rows, errors, outcome, fixed >>

Spawn ==
  /\ mainPc = "spawn"
  /\ spawned' = spawned + 1
  /\ pc' = [pc EXCEPT ![spawned + 1] = "run"]
  /\ mainPc' = "loop"
  /\ UNCHANGED << mode, slots, counter, rows, errors, outcome, fixed >>

LoopDone ==
  /\ mainPc = "loop" /\ spawned = Count
  /\ mainPc' = "wait"
  /\ UNCHANGED << spawned, pc, mode, slots, counter, rows, errors, outcome, fixed >>

WaitOnSlots == slots = 0
WaitOver == counter = 0
Wait ==
  /\ mainPc = "wait" /\ WaitOver
  /\ mainPc' = "read"
  /\ UNCHANGED << spawned, pc, mode, slots, counter, rows, errors, outcome, fixed >>

(* firstGridVariantError scans the slice by index.                         *)
FirstError(E) == IF E = {} THEN 0 ELSE CHOOSE v \in E : \A w \in E : v <= w
Collect ==
  /\ mainPc = "read"
  /\ mainPc' = "done"
  /\ outcome' = FirstError(errors)
  /\ UNCHANGED << spawned, pc, mode, slots, counter, rows, errors, fixed >>
-------------------------------------------------------------------------------
(* The goroutine of a variant.                                             *)

RunMode(v) ==
  /\ pc[v] = "run"
  /\ failsAt[v] # mode[v] /\ mode[v] < Modes
  /\ mode' = [mode EXCEPT ![v] = @ + 1]
  /\ UNCHANGED << spawned, mainPc, pc, slots, counter, rows, errors, outcome, fixed >>

(* The last mode ran: the rows are written to the variant's index.         *)
Succeed(v) ==
  /\ pc[v] = "run"
  /\ failsAt[v] # mode[v] /\ mode[v] = Modes
  /\ rows' = rows \cup {v}
  /\ pc' = [pc EXCEPT ![v] = "release"]
  /\ UNCHANGED << spawned, mainPc, mode, slots, counter, errors, outcome, fixed >>

(* A failed mode discards the rows of the modes before it; the deferred    *)
(* calls still run.                                                        *)
AfterErrorReturn == "end"
AfterError == "release"
Fail(v) ==
  /\ pc[v] = "run"
  /\ failsAt[v] = mode[v]
  /\ errors' = errors \cup {v}
  /\ pc' = [pc EXCEPT ![v] = AfterError]
  /\ UNCHANGED << spawned, mainPc, mode, slots, counter, rows, outcome, fixed >>

(* The deferred receive runs first, the deferred wg.Done last.             *)
Release(v) ==
  /\ pc[v] = "release"
  /\ slots' = slots - 1
  /\ pc' = [pc EXCEPT ![v] = "sign"]
  /\ UNCHANGED << spawned, mainPc, mode, counter, rows, errors, outcome, fixed >>

SignOff(v) ==
  /\ pc[v] = "sign"
  /\ counter' = counter - 1
  /\ pc' = [pc EXCEPT ![v] = "end"]
  /\ UNCHANGED << spawned, mainPc, mode, slots, rows, errors, outcome, fixed >>

Main == Refuse \/ Prepared \/ Acquire \/ Spawn \/ LoopDone \/ Wait \/ Collect
Worker(v) == RunMode(v) \/ Succeed(v) \/ Fail(v) \/ Release(v) \/ SignOff(v)
Done == mainPc = "done" /\ UNCHANGED vars

Next == Main \/ Prepare \/ (\E v \in 1 .. N : v \in Variants /\ Worker(v)) \/ Done

(* The Go scheduler runs every goroutine that can proceed; the loop over   *)
(* the bars, which takes finitely many steps, needs no fairness here.      *)
Fairness == WF_vars(Main) /\ \A v \in 1 .. N : WF_vars(v \in Variants /\ Worker(v))
Spec == Init /\ [][Next]_vars /\ Fairness
-------------------------------------------------------------------------------
(* Properties.                                                             *)

(* Main reads the slices only when no goroutine can still write them: the  *)
(* wait group covers every variant, however the goroutines are scheduled.  *)
ReadsAfterWrites ==
  mainPc \in {"read", "done"} /\ outcome # Refused =>
    /\ \A v \in Variants : v \in rows \cup errors /\ pc[v] = "end"
    /\ errors = {v \in Variants : failsAt[v] # 0}
    /\ mainPc = "done" => outcome = Min(errors \cup {Count + 1}) % (Count + 1)

(* Once the context is built the command always returns: no slot is lost   *)
(* on an error path, so main is never left blocked on the channel or on    *)
(* the wait group.                                                         *)
Returns == mainPc = "loop" ~> mainPc = "done"
===============================================================================
