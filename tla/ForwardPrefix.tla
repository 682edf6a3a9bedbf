----------------------------- MODULE ForwardPrefix -----------------------------
(***************************************************************************)
(* heisentick forward-prefix in checkpoint mode                            *)
(* (cmd/heisentick/forward_prefix.go): every invocation reads the          *)
(* checkpoint of the one before, runs the bars the checkpoint has not      *)
(* seen, publishes its own checkpoint under a new name and only then       *)
(* prints the trades of those bars.  Invocations may overlap, any system   *)
(* call may fail, a process may be killed and the machine may crash.       *)
(*                                                                         *)
(* The file system and the caller are external.  A checkpoint is the       *)
(* number of bars it has processed: the loaded bars of a later invocation  *)
(* extend, or fall short of, those of an earlier one, and never differ     *)
(* from them.  What a resumed run computes is the Broker module's.         *)
(*                                                                         *)
(* A file is named by the invocation that created it.  Its content and the *)
(* names of the directory are in memory until they are synced; a machine   *)
(* crash keeps or loses each unsynced change.                              *)
(***************************************************************************)
EXTENDS Integers, FiniteSets, TLC

CONSTANTS
  Runs,       \* the invocations there may be
  Paths,      \* names the caller passes to --checkpoint-out
  MaxBars,    \* the longest data prefix
  MaxCrashes  \* crashes of the machine

ASSUME ForwardAssumption == MaxBars \in Nat \ {0} /\ MaxCrashes \in Nat /\ Runs # {} /\ Paths # {}

CONSTANT None  \* no file, no name
ASSUME NoneAssumption == None \notin Runs \cup Paths

VARIABLES
  pc,        \* where an invocation is
  in, out,   \* its checkpoint flags
  supplied,  \* the bars it has loaded
  start,     \* the first of them it does not run again, from the checkpoint
  content,   \* of the file an invocation created
  synced,    \* files whose content is on disk
  temps,     \* files that still have their candidate name
  names,     \* the directory: the file of a published name
  disk,      \* the directory as last synced
  crashes,
  pointer,   \* the caller's durable checkpoint pointer
  ledger     \* how often the caller has booked the trades of a bar

process == << pc, in, out, supplied, start >>
files == << content, synced, temps, names, disk >>
caller == << pointer, ledger >>
forwardVars == << process, files, crashes, caller >>

Recorded == 1 .. MaxBars
Absent == -3
Torn == -2
Empty == -1
Content == {Absent, Torn, Empty} \cup Recorded

Candidate == {"write", "sync", "link", "syncdir", "remove", "unwind"}
Live == {"preflight", "read", "create", "print"} \cup Candidate
PC == {"idle", "ok", "failed", "killed"} \cup Live

ForwardTypeOK ==
  /\ pc \in [Runs -> PC]
  /\ in \in [Runs -> Paths \cup {None}] /\ out \in [Runs -> Paths \cup {None}]
  /\ supplied \in [Runs -> 0 .. MaxBars] /\ start \in [Runs -> 0 .. MaxBars]
  /\ \A r \in Runs : start[r] <= supplied[r]
  /\ content \in [Runs -> Content] /\ synced \subseteq Runs /\ temps \subseteq Runs
  /\ names \in [Paths -> Runs \cup {None}] /\ disk \in [Paths -> Runs \cup {None}]
  /\ crashes \in 0 .. MaxCrashes
  /\ pointer \in Paths \cup {None} /\ ledger \in [Recorded -> Nat]

ForwardInit ==
  /\ pc = [r \in Runs |-> "idle"]
  /\ in = [r \in Runs |-> None] /\ out = [r \in Runs |-> None]
  /\ supplied = [r \in Runs |-> 0] /\ start = [r \in Runs |-> 0]
  /\ content = [r \in Runs |-> Absent] /\ synced = {} /\ temps = {}
  /\ names = [p \in Paths |-> None] /\ disk = [p \in Paths |-> None]
  /\ crashes = 0
  /\ pointer = None /\ ledger = [b \in Recorded |-> 0]

Goto(r, from, to) == pc[r] = from /\ pc' = [pc EXCEPT ![r] = to]
-------------------------------------------------------------------------------
(* The invocation.                                                         *)

(* Both flags are checked before the checkpoint is read.                   *)
PreflightPasses(r) == in[r] # out[r] /\ names[out[r]] = None

Preflight(r) ==
  /\ pc[r] = "preflight"
  /\ Goto(r, "preflight", IF PreflightPasses(r) THEN "read" ELSE "failed")
  /\ UNCHANGED << in, out, supplied, start, files, crashes, caller >>

(* What RunPrefixResumable makes of the bytes it is given: no bytes at all *)
(* (no --checkpoint-in, or an empty file) replay from the first bar, and a *)
(* malformed envelope, or one that has seen more bars than are supplied,   *)
(* is refused.                                                             *)
BytesIn(r) ==
  IF in[r] = None THEN Empty
  ELSE IF names[in[r]] = None THEN Absent ELSE content[names[in[r]]]
Accepted(r) == BytesIn(r) = Empty \/ BytesIn(r) \in 1 .. supplied[r]
ResumesAtZero(r) == 0
ResumesAt(r) == IF BytesIn(r) = Empty THEN 0 ELSE BytesIn(r)

Resume(r) ==
  /\ Goto(r, "read", "create")
  /\ Accepted(r)
  /\ start' = [start EXCEPT ![r] = ResumesAt(r)]
  /\ UNCHANGED << in, out, supplied, files, crashes, caller >>

Refuse(r) ==
  /\ Goto(r, "read", "failed")
  /\ ~ Accepted(r)
  /\ UNCHANGED << in, out, supplied, start, files, crashes, caller >>

CreateTemp(r) ==
  /\ Goto(r, "create", "write")
  /\ content' = [content EXCEPT ![r] = Empty]
  /\ temps' = temps \cup {r}
  /\ UNCHANGED << in, out, supplied, start, synced, names, disk, crashes, caller >>

Write(r) ==
  /\ Goto(r, "write", "sync")
  /\ content' = [content EXCEPT ![r] = supplied[r]]
  /\ UNCHANGED << in, out, supplied, start, synced, temps, names, disk, crashes, caller >>

NotSynced(r) == synced
Synced(r) == synced \cup {r}
Sync(r) ==
  /\ Goto(r, "sync", "link")
  /\ synced' = Synced(r)
  /\ UNCHANGED << in, out, supplied, start, content, temps, names, disk, crashes, caller >>

(* os.Link fails when the name has appeared since the preflight check.     *)
LinkReplaces(r) == TRUE
Linkable(r) == names[out[r]] = None
Link(r) ==
  /\ Goto(r, "link", "syncdir")
  /\ Linkable(r)
  /\ names' = [names EXCEPT ![out[r]] = r]
  /\ UNCHANGED << in, out, supplied, start, content, synced, temps, disk, crashes, caller >>

LinkRefused(r) ==
  /\ Goto(r, "link", "unwind")
  /\ ~ Linkable(r)
  /\ UNCHANGED << in, out, supplied, start, files, crashes, caller >>

DirectorySkipped(r) == disk
DirectorySynced(r) == names
SyncDirectory(r) ==
  /\ Goto(r, "syncdir", "remove")
  /\ disk' = DirectorySynced(r)
  /\ UNCHANGED << in, out, supplied, start, content, synced, temps, names, crashes, caller >>

(* The deferred removal of the candidate name, on success and on error,    *)
(* comes before anything is printed.                                       *)
RemoveCandidate(r) ==
  /\ Goto(r, "remove", "print") \/ Goto(r, "unwind", "failed")
  /\ temps' = temps \ {r}
  /\ UNCHANGED << in, out, supplied, start, content, synced, names, disk, crashes, caller >>

Output(r) ==
  /\ Goto(r, "print", "ok")
  /\ UNCHANGED << in, out, supplied, start, files, crashes, caller >>

(* A failing call returns at once.  Before there is a candidate there is   *)
(* nothing to undo, and a failed write may have written some of it.        *)
Unwinds == Candidate \ {"remove", "unwind"}
FailedWrite(r) == pc[r] = "write"
IOError(r) ==
  /\ pc[r] \in {"preflight", "read", "create", "write", "sync", "link", "syncdir", "print"}
  /\ pc' = [pc EXCEPT ![r] = IF pc[r] \in Unwinds THEN "unwind" ELSE "failed"]
  /\ content' = IF FailedWrite(r) THEN [content EXCEPT ![r] = Torn] ELSE content
  /\ UNCHANGED << in, out, supplied, start, synced, temps, names, disk, crashes, caller >>
-------------------------------------------------------------------------------
(* The environment.                                                        *)

Kill(r) ==
  /\ pc[r] \in Live
  /\ pc' = [pc EXCEPT ![r] = "killed"]
  /\ UNCHANGED << in, out, supplied, start, files, crashes, caller >>

(* The directory comes back with each entry as synced or as it was; a file *)
(* comes back whole if it was synced, and in any state otherwise.          *)
Recovered(r) ==
  IF r \in synced \/ content[r] = Absent THEN {content[r]} ELSE {Empty, Torn, content[r]}
Crash ==
  /\ crashes < MaxCrashes
  /\ crashes' = crashes + 1
  /\ pc' = [r \in Runs |-> IF pc[r] \in Live THEN "killed" ELSE pc[r]]
  /\ \E entries \in [Paths -> Runs \cup {None}] :
       /\ \A p \in Paths : entries[p] \in {disk[p], names[p]}
       /\ names' = entries /\ disk' = entries
  /\ \E c \in [Runs -> Content] :
       /\ \A r \in Runs : c[r] \in Recovered(r)
       /\ content' = c
  /\ synced' = {r \in Runs : content[r] # Absent}
  /\ temps' \in SUBSET {r \in Runs : content[r] # Absent}
  /\ UNCHANGED << in, out, supplied, start, caller >>

(* The caller starts an invocation from its pointer, over whatever data is *)
(* there, without waiting for those it started before.                     *)
Invoke(r) ==
  /\ Goto(r, "idle", "preflight")
  /\ in' = [in EXCEPT ![r] = pointer]
  /\ \E p \in Paths : out' = [out EXCEPT ![r] = p]
  /\ \E n \in Recorded : supplied' = [supplied EXCEPT ![r] = n]
  /\ UNCHANGED << start, files, crashes, caller >>

(* It advances the pointer, and books the trades, after exit 0 and a       *)
(* complete capture of the output, and drops an output whose predecessor   *)
(* is not its pointer any more.                                            *)
Advance(r) ==
  /\ pc[r] = "ok" /\ pointer = in[r] /\ out[r] # pointer
  /\ pointer' = out[r]
  /\ ledger' = [b \in Recorded |->
                  ledger[b] + (IF b \in start[r] + 1 .. supplied[r] THEN 1 ELSE 0)]
  /\ UNCHANGED << process, files, crashes >>

PublishCheckpoint(r) == CreateTemp(r) \/ Write(r) \/ Sync(r) \/ Link(r) \/ LinkRefused(r) \/ SyncDirectory(r) \/ RemoveCandidate(r)
Step(r) == Preflight(r) \/ Resume(r) \/ Refuse(r) \/ PublishCheckpoint(r) \/ Output(r) \/ IOError(r)

ForwardNext == Crash \/ \E r \in Runs : Step(r) \/ Kill(r) \/ Invoke(r) \/ Advance(r)

ForwardSpec == ForwardInit /\ [][ForwardNext]_forwardVars
-------------------------------------------------------------------------------
(* Properties.                                                             *)

Stored(p) == IF names[p] = None THEN 0 ELSE content[names[p]]
Complete(r) == r # None => r \in synced /\ content[r] = supplied[r]

(* A published name never holds less than a whole checkpoint, before or    *)
(* after a crash, whichever entries the crash keeps (an empty file would   *)
(* be taken for no checkpoint, and the trades of every bar printed again). *)
PublishedComplete == \A p \in Paths : Complete(names[p]) /\ Complete(disk[p])

(* A published checkpoint is never replaced, however many invocations race *)
(* for its name (README: "an existing output is never replaced"): only a   *)
(* crash of the machine can take away a name that was not yet reported.    *)
NeverReplaced ==
  [][\A p \in Paths : names[p] # None /\ names'[p] # names[p] =>
       crashes' # crashes /\ names'[p] = None /\ pc[names[p]] # "ok"]_forwardVars

(* Nothing is printed before the checkpoint that follows it would survive  *)
(* a crash, so that no printed trade is printed again by a resumed run.    *)
PrintedIsDurable ==
  \A r \in Runs : pc[r] \in {"print", "ok"} => disk[out[r]] = r /\ names[out[r]] = r

(* A caller that advances its pointer as the README tells it to books the  *)
(* trades of every bar up to its checkpoint once, and of no later bar,     *)
(* whatever is killed, retried or run twice.                               *)
BookedOnce ==
  \A b \in Recorded : ledger[b] = IF pointer # None /\ b <= Stored(pointer) THEN 1 ELSE 0

-------------------------------------------------------------------------------
(* Invocations are interchangeable, and so are names.                      *)
RunSymmetry == Permutations(Runs)
PathSymmetry == Permutations(Paths)
MCSymmetry == RunSymmetry \cup PathSymmetry
===============================================================================
