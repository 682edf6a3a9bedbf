-------------------------- MODULE ForwardPrefixProofs --------------------------
(***************************************************************************)
(* Proofs about ForwardPrefix, for any number of invocations, names, bars  *)
(* and crashes: a published name holds a whole checkpoint before and after *)
(* a crash, what is printed is durable, nothing published is replaced, and *)
(* the caller books every bar once.                                        *)
(*                                                                         *)
(* The inductive invariant says, of a name, that whoever published it was  *)
(* past its link and that the directory on disk has no other file there;   *)
(* of an invocation, what its progress has made of its file, and that the  *)
(* checkpoint it was started from is one whose invocation has ended well:  *)
(* such a file can change no more, so the bars that the invocation skips   *)
(* are the bars its caller had booked.                                     *)
(***************************************************************************)
EXTENDS ForwardPrefix, TLAPS

AfterRead == {"create", "write", "sync", "link", "syncdir", "remove", "print", "ok"}
AfterLink == {"syncdir", "remove", "print", "ok"}
Ended     == {"unwind", "failed", "killed"}

(* A name that no crash can take away any more.                            *)
Durable(p) == names[p] # None /\ disk[p] = names[p] /\ pc[names[p]] = "ok"

SeenBars(p) == IF p = None THEN 0 ELSE content[names[p]]

PathOK(p) ==
  /\ Complete(names[p])
  /\ names[p] # None => out[names[p]] = p /\ pc[names[p]] \in AfterLink \cup Ended
  /\ disk[p] # None => disk[p] = names[p]

RunOK(r) ==
  /\ pc[r] = "idle" => start[r] = 0
  /\ pc[r] # "idle" => supplied[r] \in Recorded /\ out[r] \in Paths
  /\ pc[r] \in {"sync", "link"} => content[r] = supplied[r]
  /\ pc[r] = "link" => r \in synced
  /\ pc[r] \in AfterLink => names[out[r]] = r
  /\ pc[r] \in AfterLink \ {"syncdir"} => disk[out[r]] = r
  /\ in[r] # None => Durable(in[r])
  /\ pc[r] \in AfterRead => start[r] = SeenBars(in[r])

CallerOK == (pointer # None => Durable(pointer)) /\ BookedOnce

IInv ==
  /\ ForwardTypeOK
  /\ \A p \in Paths : PathOK(p)
  /\ \A r \in Runs : RunOK(r)
  /\ CallerOK
-------------------------------------------------------------------------------
LEMMA InitInv == ForwardInit => IInv
<1> SUFFICES ASSUME ForwardInit PROVE IInv
  OBVIOUS
<1> USE DEF ForwardInit
<1>1. ForwardTypeOK
  BY ForwardAssumption DEF ForwardTypeOK, PC, Content
<1>2. \A p \in Paths : PathOK(p)
  BY DEF PathOK, Complete
<1>3. \A r \in Runs : RunOK(r)
  BY DEF RunOK, AfterLink, AfterRead
<1>4. CallerOK
  BY DEF CallerOK, BookedOnce
<1> QED BY <1>1, <1>2, <1>3, <1>4 DEF IInv

(* A step of one invocation that has not ended well and touches no name    *)
(* disturbs nothing but, perhaps, what is said of that invocation.         *)
LEMMA LocalStep ==
  ASSUME IInv, NEW r \in Runs, pc[r] # "ok",
         NEW to \in PC, pc' = [pc EXCEPT ![r] = to],
         UNCHANGED << names, disk, caller >>, synced \subseteq synced',
         \A q \in Runs \ {r} :
           /\ in'[q] = in[q] /\ out'[q] = out[q] /\ supplied'[q] = supplied[q]
           /\ start'[q] = start[q] /\ content'[q] = content[q],
         \A p \in Paths : names[p] = r =>
           /\ to \in AfterLink \cup Ended
           /\ out'[r] = out[r] /\ supplied'[r] = supplied[r] /\ content'[r] = content[r]
  PROVE  /\ \A p \in Paths : PathOK(p)'
         /\ \A q \in Runs \ {r} : RunOK(q)'
         /\ \A p \in Paths : Durable(p) => Durable(p)' /\ SeenBars(p)' = SeenBars(p)
         /\ CallerOK'
<1> USE NoneAssumption DEF caller
<1>1. /\ pc \in [Runs -> PC] /\ names \in [Paths -> Runs \cup {None}]
      /\ in \in [Runs -> Paths \cup {None}] /\ pointer \in Paths \cup {None}
  BY DEF IInv, ForwardTypeOK
<1>2. \A p \in Paths : PathOK(p)'
  <2> SUFFICES ASSUME NEW p \in Paths PROVE PathOK(p)'
    OBVIOUS
  <2>1. PathOK(p)
    BY DEF IInv
  <2>2. CASE names[p] = r
    BY <1>1, <2>1, <2>2 DEF PathOK, Complete
  <2>3. CASE names[p] # r
    BY <1>1, <2>1, <2>3 DEF PathOK, Complete
  <2> QED BY <2>2, <2>3
<1>3. \A p \in Paths : Durable(p) => Durable(p)' /\ SeenBars(p)' = SeenBars(p)
  BY <1>1 DEF Durable, SeenBars
<1>4. \A q \in Runs \ {r} : RunOK(q)'
  <2> SUFFICES ASSUME NEW q \in Runs \ {r} PROVE RunOK(q)'
    OBVIOUS
  <2>1. RunOK(q) /\ pc'[q] = pc[q]
    BY <1>1 DEF IInv
  <2>2. in[q] # None => Durable(in[q])' /\ SeenBars(in[q])' = SeenBars(in[q])
    BY <1>1, <1>3, <2>1 DEF RunOK
  <2>3. in[q] = None => SeenBars(in[q])' = SeenBars(in[q])
    BY DEF SeenBars
  <2> QED BY <1>1, <2>1, <2>2, <2>3 DEF RunOK, Durable, SeenBars
<1>5. CallerOK'
  <2>1. CallerOK
    BY DEF IInv
  <2>2. pointer # None => Durable(pointer)' /\ Stored(pointer)' = Stored(pointer)
    BY <1>1, <1>3, <2>1 DEF CallerOK, Durable, SeenBars, Stored
  <2> QED BY <2>1, <2>2 DEF CallerOK, BookedOnce, Durable
<1> QED BY <1>2, <1>3, <1>4, <1>5
-------------------------------------------------------------------------------
(* An invocation before its link has published nothing.                    *)
LEMMA UnnamedBefore ==
  ASSUME IInv, NEW r \in Runs, pc[r] \notin AfterLink \cup Ended
  PROVE  \A p \in Paths : names[p] # r
BY NoneAssumption DEF IInv, PathOK

(* Put together what LocalStep leaves to each action.                      *)
LEMMA PreflightInv ==
  ASSUME IInv, NEW r \in Runs, Preflight(r)
  PROVE  IInv'
<1> USE DEF Preflight, Goto, files, caller
<1>1. PICK to \in {"read", "failed"} : pc' = [pc EXCEPT ![r] = to]
  OBVIOUS
<1>2. ForwardTypeOK'
  BY <1>1 DEF IInv, ForwardTypeOK, PC, Live
<1>3. /\ \A p \in Paths : PathOK(p)'
      /\ \A q \in Runs \ {r} : RunOK(q)'
      /\ \A p \in Paths : Durable(p) => Durable(p)' /\ SeenBars(p)' = SeenBars(p)
      /\ CallerOK'
  <2>1. \A p \in Paths : names[p] # r
    BY UnnamedBefore DEF AfterLink, Ended
  <2> QED BY <1>1, <2>1, LocalStep DEF PC, Live
<1>4. RunOK(r)'
  BY <1>1, <1>3 DEF IInv, ForwardTypeOK, RunOK, AfterLink, AfterRead
<1> QED BY <1>2, <1>3, <1>4 DEF IInv

LEMMA ResumeInv ==
  ASSUME IInv, NEW r \in Runs, Resume(r)
  PROVE  IInv'
<1> USE DEF Resume, Goto, files, caller
<1>1. BytesIn(r) = SeenBars(in[r]) \/ in[r] = None
  BY DEF IInv, RunOK, Durable, BytesIn, SeenBars
<1>2. in[r] # None => SeenBars(in[r]) \in Recorded
  BY NoneAssumption DEF IInv, ForwardTypeOK, RunOK, Durable, PathOK, Complete, SeenBars
<1>3. /\ ResumesAt(r) = SeenBars(in[r])
      /\ ResumesAt(r) \in 0 .. MaxBars /\ ResumesAt(r) <= supplied[r]
  BY <1>1, <1>2, ForwardAssumption DEF IInv, ForwardTypeOK, ResumesAt, Accepted, BytesIn, SeenBars, Recorded, Empty
<1>4. ForwardTypeOK'
  BY <1>3 DEF IInv, ForwardTypeOK, PC, Live
<1>5. /\ \A p \in Paths : PathOK(p)'
      /\ \A q \in Runs \ {r} : RunOK(q)'
      /\ \A p \in Paths : Durable(p) => Durable(p)' /\ SeenBars(p)' = SeenBars(p)
      /\ CallerOK'
  <2>1. \A p \in Paths : names[p] # r
    BY UnnamedBefore DEF AfterLink, Ended
  <2>2. \A q \in Runs \ {r} : start'[q] = start[q]
    BY DEF IInv, ForwardTypeOK
  <2>3. "create" \in PC
    BY DEF PC, Live
  <2> QED BY <2>1, <2>2, <2>3, LocalStep
<1>6. RunOK(r)'
  BY <1>3, <1>5 DEF IInv, ForwardTypeOK, RunOK, AfterLink, AfterRead, SeenBars
<1> QED BY <1>4, <1>5, <1>6 DEF IInv

LEMMA RefuseInv ==
  ASSUME IInv, NEW r \in Runs, Refuse(r)
  PROVE  IInv'
<1> USE DEF Refuse, Goto, files, caller
<1>1. ForwardTypeOK'
  BY DEF IInv, ForwardTypeOK, PC
<1>2. /\ \A p \in Paths : PathOK(p)'
      /\ \A q \in Runs \ {r} : RunOK(q)'
      /\ \A p \in Paths : Durable(p) => Durable(p)' /\ SeenBars(p)' = SeenBars(p)
      /\ CallerOK'
  BY LocalStep DEF PC, AfterLink, Ended
<1>3. RunOK(r)'
  BY <1>2 DEF IInv, ForwardTypeOK, RunOK, AfterLink, AfterRead
<1> QED BY <1>1, <1>2, <1>3 DEF IInv

LEMMA CreateTempInv ==
  ASSUME IInv, NEW r \in Runs, CreateTemp(r)
  PROVE  IInv'
<1> USE DEF CreateTemp, Goto, caller
<1>1. ForwardTypeOK'
  BY DEF IInv, ForwardTypeOK, PC, Live, Candidate, Content
<1>2. /\ \A p \in Paths : PathOK(p)'
      /\ \A q \in Runs \ {r} : RunOK(q)'
      /\ \A p \in Paths : Durable(p) => Durable(p)' /\ SeenBars(p)' = SeenBars(p)
      /\ CallerOK'
  BY UnnamedBefore, LocalStep DEF IInv, ForwardTypeOK, PC, Live, Candidate, AfterLink, Ended
<1>3. RunOK(r)'
  BY <1>2 DEF IInv, ForwardTypeOK, RunOK, AfterLink, AfterRead, SeenBars
<1> QED BY <1>1, <1>2, <1>3 DEF IInv

LEMMA WriteInv ==
  ASSUME IInv, NEW r \in Runs, Write(r)
  PROVE  IInv'
<1> USE DEF Write, Goto, caller
<1>1. supplied[r] \in Recorded
  BY DEF IInv, RunOK
<1>2. ForwardTypeOK'
  BY <1>1 DEF IInv, ForwardTypeOK, PC, Live, Candidate, Content
<1>3. /\ \A p \in Paths : PathOK(p)'
      /\ \A q \in Runs \ {r} : RunOK(q)'
      /\ \A p \in Paths : Durable(p) => Durable(p)' /\ SeenBars(p)' = SeenBars(p)
      /\ CallerOK'
  BY UnnamedBefore, LocalStep DEF IInv, ForwardTypeOK, PC, Live, Candidate, AfterLink, Ended
<1>4. RunOK(r)'
  BY <1>3 DEF IInv, ForwardTypeOK, RunOK, AfterLink, AfterRead, SeenBars
<1> QED BY <1>2, <1>3, <1>4 DEF IInv

LEMMA SyncInv ==
  ASSUME IInv, NEW r \in Runs, Sync(r)
  PROVE  IInv'
<1> USE DEF Sync, Goto, Synced, caller
<1>1. ForwardTypeOK'
  BY DEF IInv, ForwardTypeOK, PC, Live, Candidate
<1>2. /\ \A p \in Paths : PathOK(p)'
      /\ \A q \in Runs \ {r} : RunOK(q)'
      /\ \A p \in Paths : Durable(p) => Durable(p)' /\ SeenBars(p)' = SeenBars(p)
      /\ CallerOK'
  BY UnnamedBefore, LocalStep DEF PC, Live, Candidate, AfterLink, Ended
<1>3. RunOK(r)'
  BY <1>2 DEF IInv, ForwardTypeOK, RunOK, AfterLink, AfterRead, SeenBars
<1> QED BY <1>1, <1>2, <1>3 DEF IInv

(* The link finds the name free: no file is replaced, and the one that is  *)
(* published has been written and synced.                                  *)
LEMMA LinkInv ==
  ASSUME IInv, NEW r \in Runs, Link(r)
  PROVE  IInv'
<1> USE NoneAssumption DEF Link, Goto, Linkable, caller
<1>1. /\ pc \in [Runs -> PC] /\ names \in [Paths -> Runs \cup {None}]
      /\ disk \in [Paths -> Runs \cup {None}]
      /\ in \in [Runs -> Paths \cup {None}] /\ pointer \in Paths \cup {None}
      /\ out[r] \in Paths
  BY DEF IInv, ForwardTypeOK, RunOK
<1>2. ForwardTypeOK'
  BY DEF IInv, ForwardTypeOK, PC, Live, Candidate
<1>3. /\ \A p \in Paths : names[p] # None => names'[p] = names[p] /\ pc'[names[p]] = pc[names[p]]
      /\ \A p \in Paths : names[p] # r
  BY <1>1, UnnamedBefore DEF IInv, PathOK, AfterLink, Ended
<1>4. \A p \in Paths : PathOK(p)'
  <2> SUFFICES ASSUME NEW p \in Paths PROVE PathOK(p)'
    OBVIOUS
  <2>1. PathOK(p) /\ RunOK(r)
    BY DEF IInv
  <2>2. CASE p = out[r]
    BY <1>1, <2>1, <2>2 DEF PathOK, RunOK, Complete, AfterLink
  <2>3. CASE p # out[r]
    BY <1>1, <1>3, <2>1, <2>3 DEF PathOK, Complete
  <2> QED BY <2>2, <2>3
<1>5. \A p \in Paths : Durable(p) => Durable(p)' /\ SeenBars(p)' = SeenBars(p)
  BY <1>1, <1>3 DEF Durable, SeenBars
<1>6. ASSUME NEW q \in Runs PROVE RunOK(q)'
  <2>1. RunOK(q)
    BY DEF IInv
  <2>2. in[q] # None => Durable(in[q])' /\ SeenBars(in[q])' = SeenBars(in[q])
    BY <1>1, <1>5, <2>1 DEF RunOK
  <2>3. in[q] = None => SeenBars(in[q])' = SeenBars(in[q])
    BY DEF SeenBars
  <2>4. CASE q = r
    BY <1>1, <2>1, <2>2, <2>3, <2>4 DEF RunOK, AfterLink, AfterRead, SeenBars, Durable
  <2>5. CASE q # r
    <3>1. pc'[q] = pc[q] /\ (pc[q] \in AfterLink => names'[out[q]] = q)
      BY <1>1, <1>3, <2>1, <2>5 DEF RunOK, AfterLink
    <3> QED BY <2>1, <2>2, <2>3, <3>1 DEF RunOK, SeenBars, Durable
  <2> QED BY <2>4, <2>5
<1>7. CallerOK'
  <2>1. CallerOK
    BY DEF IInv
  <2>2. pointer # None => Durable(pointer)' /\ Stored(pointer)' = Stored(pointer)
    BY <1>1, <1>5, <2>1 DEF CallerOK, Durable, SeenBars, Stored
  <2> QED BY <2>1, <2>2 DEF CallerOK, BookedOnce, Durable
<1> QED BY <1>2, <1>4, <1>6, <1>7 DEF IInv

LEMMA LinkRefusedInv ==
  ASSUME IInv, NEW r \in Runs, LinkRefused(r)
  PROVE  IInv'
<1> USE DEF LinkRefused, Goto, files, caller
<1>1. ForwardTypeOK'
  BY DEF IInv, ForwardTypeOK, PC, Live, Candidate
<1>2. /\ \A p \in Paths : PathOK(p)'
      /\ \A q \in Runs \ {r} : RunOK(q)'
      /\ \A p \in Paths : Durable(p) => Durable(p)' /\ SeenBars(p)' = SeenBars(p)
      /\ CallerOK'
  BY LocalStep DEF PC, Live, Candidate, AfterLink, Ended
<1>3. RunOK(r)'
  BY <1>2 DEF IInv, ForwardTypeOK, RunOK, AfterLink, AfterRead
<1> QED BY <1>1, <1>2, <1>3 DEF IInv

(* The directory holds one file for a name, and so does the disk now.      *)
LEMMA SyncDirectoryInv ==
  ASSUME IInv, NEW r \in Runs, SyncDirectory(r)
  PROVE  IInv'
<1> USE NoneAssumption DEF SyncDirectory, DirectorySynced, Goto, caller
<1>1. /\ pc \in [Runs -> PC] /\ names \in [Paths -> Runs \cup {None}]
      /\ disk \in [Paths -> Runs \cup {None}]
      /\ in \in [Runs -> Paths \cup {None}] /\ pointer \in Paths \cup {None}
      /\ out[r] \in Paths
  BY DEF IInv, ForwardTypeOK, RunOK
<1>2. ForwardTypeOK'
  BY DEF IInv, ForwardTypeOK, PC, Live, Candidate
<1>3. \A p \in Paths : PathOK(p)'
  BY <1>1 DEF IInv, PathOK, Complete, AfterLink
<1>4. \A p \in Paths : Durable(p) => Durable(p)' /\ SeenBars(p)' = SeenBars(p)
  BY <1>1 DEF Durable, SeenBars
<1>5. ASSUME NEW q \in Runs PROVE RunOK(q)'
  <2>1. RunOK(q)
    BY DEF IInv
  <2>2. in[q] # None => Durable(in[q])' /\ SeenBars(in[q])' = SeenBars(in[q])
    BY <1>1, <1>4, <2>1 DEF RunOK
  <2>3. in[q] = None => SeenBars(in[q])' = SeenBars(in[q])
    BY DEF SeenBars
  <2>4. CASE q = r
    BY <1>1, <2>1, <2>2, <2>3, <2>4 DEF RunOK, AfterLink, AfterRead, SeenBars, Durable
  <2>5. CASE q # r
    BY <1>1, <2>1, <2>2, <2>3, <2>5 DEF RunOK, AfterLink, SeenBars, Durable
  <2> QED BY <2>4, <2>5
<1>6. CallerOK'
  <2>1. CallerOK
    BY DEF IInv
  <2>2. pointer # None => Durable(pointer)' /\ Stored(pointer)' = Stored(pointer)
    BY <1>1, <1>4, <2>1 DEF CallerOK, Durable, SeenBars, Stored
  <2> QED BY <2>1, <2>2 DEF CallerOK, BookedOnce, Durable
<1> QED BY <1>2, <1>3, <1>5, <1>6 DEF IInv

LEMMA RemoveInv ==
  ASSUME IInv, NEW r \in Runs, RemoveCandidate(r)
  PROVE  IInv'
<1> USE DEF RemoveCandidate, Goto, caller
<1>1. PICK to \in {"print", "failed"} :
        /\ pc' = [pc EXCEPT ![r] = to]
        /\ pc[r] = IF to = "print" THEN "remove" ELSE "unwind"
  OBVIOUS
<1>2. ForwardTypeOK'
  BY <1>1 DEF IInv, ForwardTypeOK, PC, Live
<1>3. /\ \A p \in Paths : PathOK(p)'
      /\ \A q \in Runs \ {r} : RunOK(q)'
      /\ \A p \in Paths : Durable(p) => Durable(p)' /\ SeenBars(p)' = SeenBars(p)
      /\ CallerOK'
  BY <1>1, LocalStep DEF PC, Live, AfterLink, Ended
<1>4. RunOK(r)'
  BY <1>1, <1>3 DEF IInv, ForwardTypeOK, RunOK, AfterLink, AfterRead, SeenBars
<1> QED BY <1>2, <1>3, <1>4 DEF IInv

LEMMA OutputInv ==
  ASSUME IInv, NEW r \in Runs, Output(r)
  PROVE  IInv'
<1> USE DEF Output, Goto, files, caller
<1>1. ForwardTypeOK'
  BY DEF IInv, ForwardTypeOK, PC
<1>2. /\ \A p \in Paths : PathOK(p)'
      /\ \A q \in Runs \ {r} : RunOK(q)'
      /\ \A p \in Paths : Durable(p) => Durable(p)' /\ SeenBars(p)' = SeenBars(p)
      /\ CallerOK'
  BY LocalStep DEF PC, AfterLink, Ended
<1>3. RunOK(r)'
  BY <1>2 DEF IInv, ForwardTypeOK, RunOK, AfterLink, AfterRead, SeenBars
<1> QED BY <1>1, <1>2, <1>3 DEF IInv

LEMMA IOErrorInv ==
  ASSUME IInv, NEW r \in Runs, IOError(r)
  PROVE  IInv'
<1> USE DEF IOError, FailedWrite, caller
<1>1. PICK to \in {"unwind", "failed"} : pc' = [pc EXCEPT ![r] = to]
  OBVIOUS
<1>2. ForwardTypeOK'
  BY <1>1 DEF IInv, ForwardTypeOK, PC, Live, Candidate, Content
<1>3. /\ \A p \in Paths : PathOK(p)'
      /\ \A q \in Runs \ {r} : RunOK(q)'
      /\ \A p \in Paths : Durable(p) => Durable(p)' /\ SeenBars(p)' = SeenBars(p)
      /\ CallerOK'
  <2>1. /\ \A q \in Runs \ {r} : content'[q] = content[q]
        /\ pc[r] # "write" => content' = content
    BY DEF IInv, ForwardTypeOK
  <2>2. pc[r] = "write" => \A p \in Paths : names[p] # r
    BY UnnamedBefore DEF AfterLink, Ended
  <2>3. to \in PC /\ to \in Ended /\ pc[r] # "ok"
    BY DEF PC, Live, Candidate, Ended
  <2>4. \A p \in Paths : names[p] = r => content'[r] = content[r]
    BY <2>1, <2>2
  <2>5. UNCHANGED << in, out, supplied, start, synced, names, disk, caller >>
    OBVIOUS
  <2> HIDE DEF IOError, FailedWrite
  <2> QED BY <1>1, <2>1, <2>3, <2>4, <2>5, LocalStep
<1>4. RunOK(r)'
  BY <1>1, <1>3 DEF IInv, ForwardTypeOK, RunOK, AfterLink, AfterRead
<1> QED BY <1>2, <1>3, <1>4 DEF IInv

LEMMA KillInv ==
  ASSUME IInv, NEW r \in Runs, Kill(r)
  PROVE  IInv'
<1> USE DEF Kill, files, caller
<1>1. ForwardTypeOK'
  BY DEF IInv, ForwardTypeOK, PC
<1>2. /\ \A p \in Paths : PathOK(p)'
      /\ \A q \in Runs \ {r} : RunOK(q)'
      /\ \A p \in Paths : Durable(p) => Durable(p)' /\ SeenBars(p)' = SeenBars(p)
      /\ CallerOK'
  BY LocalStep DEF PC, Live, Candidate, Ended
<1>3. RunOK(r)'
  BY <1>2 DEF IInv, ForwardTypeOK, RunOK, AfterLink, AfterRead, Live, Candidate
<1> QED BY <1>1, <1>2, <1>3 DEF IInv

(* The caller starts an invocation from a pointer that is durable.         *)
LEMMA StartInv ==
  ASSUME IInv, NEW r \in Runs, Invoke(r)
  PROVE  IInv'
<1> USE DEF Invoke, Goto, files, caller
<1>1. PICK p \in Paths, n \in Recorded :
        out' = [out EXCEPT ![r] = p] /\ supplied' = [supplied EXCEPT ![r] = n]
  OBVIOUS
<1>2. ForwardTypeOK'
  <2>1. start[r] <= n
    BY ForwardAssumption DEF IInv, RunOK, Recorded
  <2> QED BY <1>1, <2>1, ForwardAssumption DEF IInv, ForwardTypeOK, PC, Live, Recorded
<1>3. /\ \A q \in Paths : PathOK(q)'
      /\ \A q \in Runs \ {r} : RunOK(q)'
      /\ \A q \in Paths : Durable(q) => Durable(q)' /\ SeenBars(q)' = SeenBars(q)
      /\ CallerOK'
  <2>1. \A q \in Paths : names[q] # r
    BY UnnamedBefore DEF AfterLink, Ended
  <2>2. \A q \in Runs \ {r} : in'[q] = in[q] /\ out'[q] = out[q] /\ supplied'[q] = supplied[q]
    BY <1>1 DEF IInv, ForwardTypeOK
  <2>3. "preflight" \in PC
    BY DEF PC, Live
  <2> QED BY <2>1, <2>2, <2>3, LocalStep
<1>4. RunOK(r)'
  <2>1. in'[r] # None => Durable(in'[r]) /\ in'[r] \in Paths
    BY DEF IInv, ForwardTypeOK, CallerOK
  <2>2. in'[r] # None => Durable(in[r])'
    BY <2>1, <1>3 DEF Durable
  <2> QED BY <1>1, <2>2 DEF IInv, ForwardTypeOK, RunOK, AfterLink, AfterRead
<1> QED BY <1>2, <1>3, <1>4 DEF IInv

(* The caller advances only from the pointer that the invocation was       *)
(* started from, so the bars it skipped are the bars booked.               *)
LEMMA AdvanceInv ==
  ASSUME IInv, NEW r \in Runs, Advance(r)
  PROVE  IInv'
<1> USE NoneAssumption DEF Advance, files, process
<1>1. /\ pc \in [Runs -> PC] /\ out[r] \in Paths /\ supplied[r] \in Recorded
      /\ names[out[r]] = r /\ disk[out[r]] = r /\ start[r] = SeenBars(in[r])
      /\ start[r] \in 0 .. MaxBars /\ start[r] <= supplied[r]
  BY DEF IInv, ForwardTypeOK, RunOK, AfterLink, AfterRead
<1>2. ForwardTypeOK'
  <2>1. ledger' \in [Recorded -> Nat]
    BY DEF IInv, ForwardTypeOK
  <2> QED BY <1>1, <2>1 DEF IInv, ForwardTypeOK
<1>3. (\A p \in Paths : PathOK(p)') /\ (\A q \in Runs : RunOK(q)')
  BY DEF IInv, PathOK, RunOK, Complete, Durable, SeenBars
<1>4. CallerOK'
  <2>1. Durable(pointer)' /\ pointer' # None
    BY <1>1 DEF Durable
  <2>2. Stored(pointer)' = supplied[r]
    BY <1>1 DEF IInv, PathOK, Complete, Stored
  <2>3. \A b \in Recorded : ledger[b] = IF b <= start[r] THEN 1 ELSE 0
    <3>1. CASE pointer = None
      BY <1>1, <3>1, ForwardAssumption DEF IInv, CallerOK, BookedOnce, SeenBars, Recorded
    <3>2. CASE pointer # None
      BY <1>1, <3>2 DEF IInv, CallerOK, BookedOnce, SeenBars, Stored, Durable
    <3> QED BY <3>1, <3>2
  <2>4. \A b \in Recorded : ledger'[b] = IF b <= supplied[r] THEN 1 ELSE 0
    BY <1>1, <2>3, ForwardAssumption DEF Recorded
  <2> QED BY <2>1, <2>2, <2>4 DEF CallerOK, BookedOnce
<1> QED BY <1>2, <1>3, <1>4 DEF IInv

(* A crash takes away only names that are not on disk, and keeps the       *)
(* content of every file that was synced.                                  *)
LEMMA CrashInv ==
  ASSUME IInv, Crash
  PROVE  IInv'
<1> USE NoneAssumption DEF Crash
<1>1. /\ pc \in [Runs -> PC] /\ names \in [Paths -> Runs \cup {None}]
      /\ disk \in [Paths -> Runs \cup {None}] /\ content \in [Runs -> Content]
      /\ supplied \in [Runs -> 0 .. MaxBars]
      /\ in \in [Runs -> Paths \cup {None}] /\ pointer \in Paths \cup {None}
  BY DEF IInv, ForwardTypeOK
<1>2. /\ names' \in [Paths -> Runs \cup {None}] /\ disk' = names'
      /\ \A p \in Paths : names'[p] \in {disk[p], names[p]}
  OBVIOUS
<1>3. content' \in [Runs -> Content] /\ \A r \in synced : content'[r] = content[r]
  <2>1. synced \subseteq Runs
    BY DEF IInv, ForwardTypeOK
  <2> QED BY <2>1 DEF Recovered
<1>4. \A r \in Runs : pc'[r] = IF pc[r] \in Live THEN "killed" ELSE pc[r]
  OBVIOUS
<1>5. ForwardTypeOK'
  <2>1. pc' \in [Runs -> PC]
    BY <1>1 DEF PC
  <2>2. crashes' \in 0 .. MaxCrashes
    BY ForwardAssumption DEF IInv, ForwardTypeOK
  <2>3. synced' \subseteq Runs /\ temps' \subseteq Runs
    OBVIOUS
  <2> QED BY <1>2, <1>3, <2>1, <2>2, <2>3 DEF IInv, ForwardTypeOK, caller
<1>6. \A p \in Paths : names'[p] # None => names'[p] = names[p]
  BY <1>1, <1>2 DEF IInv, PathOK
<1>7. \A p \in Paths : Durable(p) => Durable(p)' /\ SeenBars(p)' = SeenBars(p)
  <2> SUFFICES ASSUME NEW p \in Paths, Durable(p)
               PROVE  Durable(p)' /\ SeenBars(p)' = SeenBars(p)
    OBVIOUS
  <2>1. names'[p] = names[p] /\ names[p] \in Runs /\ names[p] \in synced
    BY <1>1, <1>2 DEF Durable, IInv, PathOK, Complete
  <2> QED BY <1>2, <1>3, <1>4, <2>1 DEF Durable, SeenBars, Live, Candidate
<1>8. \A p \in Paths : PathOK(p)'
  <2> SUFFICES ASSUME NEW p \in Paths, names'[p] # None PROVE PathOK(p)'
    BY <1>2 DEF PathOK, Complete
  <2>1. PathOK(p) /\ names'[p] = names[p] /\ names[p] \in Runs
    BY <1>1, <1>6 DEF IInv
  <2>2. content[names[p]] # Absent
    BY <2>1, ForwardAssumption DEF IInv, RunOK, PathOK, Complete, AfterLink, Ended, Recorded, Absent
  <2>3. names[p] \in synced' /\ content'[names[p]] = content[names[p]]
    BY <1>3, <2>1, <2>2 DEF PathOK, Complete
  <2>4. pc'[names[p]] \in AfterLink \cup Ended
    BY <1>4, <2>1 DEF PathOK, Ended, AfterLink, Live
  <2> QED BY <1>2, <2>1, <2>3, <2>4 DEF PathOK, Complete
<1>9. ASSUME NEW r \in Runs PROVE RunOK(r)'
  <2>1. RunOK(r)
    BY DEF IInv
  <2>2. in[r] # None => Durable(in[r])' /\ SeenBars(in[r])' = SeenBars(in[r])
    BY <1>1, <1>7, <2>1 DEF RunOK
  <2>3. in[r] = None => SeenBars(in[r])' = SeenBars(in[r])
    BY DEF SeenBars
  <2>4. CASE pc[r] \in Live
    BY <1>4, <2>1, <2>2, <2>4 DEF RunOK, AfterLink, AfterRead, Live, Candidate, Durable
  <2>5. CASE pc[r] \notin Live
    <3>1. pc'[r] = pc[r] /\ pc[r] \in {"idle", "ok", "failed", "killed"}
      BY <1>1, <1>4, <2>5 DEF PC
    <3>2. pc[r] = "ok" => names'[out[r]] = r /\ disk'[out[r]] = r
      BY <1>2, <2>1, <3>1 DEF RunOK, AfterLink
    <3> QED BY <2>1, <2>2, <2>3, <3>1, <3>2 DEF RunOK, AfterLink, AfterRead, SeenBars, Durable
  <2> QED BY <2>4, <2>5
<1>10. CallerOK'
  <2>1. CallerOK
    BY DEF IInv
  <2>2. pointer # None => Durable(pointer)' /\ Stored(pointer)' = Stored(pointer)
    BY <1>1, <1>7, <2>1 DEF CallerOK, Durable, SeenBars, Stored, caller
  <2> QED BY <2>1, <2>2 DEF CallerOK, BookedOnce, Durable, caller
<1> QED BY <1>5, <1>8, <1>9, <1>10 DEF IInv
-------------------------------------------------------------------------------
LEMMA NextInv == IInv /\ [ForwardNext]_forwardVars => IInv'
<1> SUFFICES ASSUME IInv, [ForwardNext]_forwardVars PROVE IInv'
  OBVIOUS
<1>1. CASE Crash
  BY <1>1, CrashInv
<1>2. ASSUME NEW r \in Runs, Step(r) PROVE IInv'
  BY <1>2, PreflightInv, ResumeInv, RefuseInv, CreateTempInv, WriteInv, SyncInv, LinkInv,
     LinkRefusedInv, SyncDirectoryInv, RemoveInv, OutputInv, IOErrorInv DEF Step, PublishCheckpoint
<1>3. ASSUME NEW r \in Runs, Kill(r) \/ Invoke(r) \/ Advance(r) PROVE IInv'
  BY <1>3, KillInv, StartInv, AdvanceInv
<1>4. CASE UNCHANGED forwardVars
  BY <1>4 DEF forwardVars, process, files, caller, IInv, ForwardTypeOK, PathOK, RunOK, CallerOK, Complete,
              Durable, SeenBars, BookedOnce, Stored
<1> QED BY <1>1, <1>2, <1>3, <1>4 DEF ForwardNext

LEMMA Invariance == ForwardSpec => []IInv
BY InitInv, NextInv, PTL DEF ForwardSpec
-------------------------------------------------------------------------------
(* The state keeps its types.                                              *)
THEOREM ForwardTypeCorrect == ForwardSpec => []ForwardTypeOK
<1>1. IInv => ForwardTypeOK
  BY DEF IInv
<1> QED BY <1>1, Invariance, PTL

(* publishPrefixCheckpoint syncs the candidate before it links it, and     *)
(* nothing writes to it after: every published name, in memory and on      *)
(* disk, holds a whole checkpoint at every moment.                         *)
THEOREM Publication == ForwardSpec => []PublishedComplete
<1>1. IInv => PublishedComplete
  <2> SUFFICES ASSUME IInv, NEW p \in Paths
               PROVE  Complete(names[p]) /\ Complete(disk[p])
    BY DEF PublishedComplete
  <2>1. PathOK(p)
    BY DEF IInv
  <2> QED BY <2>1 DEF PathOK, Complete
<1> QED BY <1>1, Invariance, PTL

(* runForwardPrefix prints after the directory was synced: the checkpoint  *)
(* behind everything printed is on disk under its name.                    *)
THEOREM Durability == ForwardSpec => []PrintedIsDurable
<1>1. IInv => PrintedIsDurable
  BY DEF IInv, RunOK, PrintedIsDurable, AfterLink
<1> QED BY <1>1, Invariance, PTL

(* The caller that advances its pointer after each successful run, and     *)
(* drops the output of a run whose predecessor is not its pointer, has     *)
(* booked each bar of its checkpoint once and no other.                    *)
THEOREM Booking == ForwardSpec => []BookedOnce
<1>1. IInv => BookedOnce
  BY DEF IInv, CallerOK
<1> QED BY <1>1, Invariance, PTL

(* os.Link replaces nothing and nothing else gives a name: a name changes  *)
(* its file only by a crash that loses it, before it was reported.         *)
THEOREM Replacement == ForwardSpec => NeverReplaced
<1>1. IInv /\ [ForwardNext]_forwardVars =>
        [\A p \in Paths : names[p] # None /\ names'[p] # names[p] =>
           crashes' # crashes /\ names'[p] = None /\ pc[names[p]] # "ok"]_forwardVars
  <2> SUFFICES ASSUME IInv, ForwardNext, NEW p \in Paths, names[p] # None, names'[p] # names[p]
               PROVE  crashes' # crashes /\ names'[p] = None /\ pc[names[p]] # "ok"
    BY DEF forwardVars
  <2>1. PathOK(p) /\ names[p] \in Runs /\ names \in [Paths -> Runs \cup {None}]
    BY DEF IInv, ForwardTypeOK
  <2>2. CASE Crash
    <3>1. crashes' # crashes
      BY <2>2 DEF Crash, IInv, ForwardTypeOK
    <3>2. names'[p] \in {disk[p], names[p]}
      BY <2>2 DEF Crash
    <3>3. names'[p] = None /\ disk[p] = None
      BY <2>1, <3>2 DEF PathOK
    <3>4. pc[names[p]] = "ok" => disk[p] = names[p]
      BY <2>1 DEF IInv, RunOK, PathOK, AfterLink
    <3> QED BY <3>1, <3>3, <3>4
  <2>3. ASSUME NEW r \in Runs, Step(r) \/ Kill(r) \/ Invoke(r) \/ Advance(r), ~Link(r)
        PROVE  names' = names
    BY <2>3 DEF Step, PublishCheckpoint, Preflight, Resume, Refuse, CreateTemp, Write, Sync, LinkRefused,
                SyncDirectory, RemoveCandidate, Output, IOError, Kill, Invoke, Advance, files
  <2>4. ASSUME NEW r \in Runs, Link(r) PROVE names'[p] = names[p]
    BY <2>1, <2>4 DEF Link, Linkable
  <2> QED BY <2>2, <2>3, <2>4 DEF ForwardNext
<1> QED BY <1>1, Invariance, PTL DEF ForwardSpec, NeverReplaced
================================================================================
