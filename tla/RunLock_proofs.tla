---------------------------- MODULE RunLock_proofs ----------------------------
(* The second look excludes two runs in one checkout, for any number of      *)
(* processes, runs and machines, --force and kills included.                 *)
EXTENDS RunLock, TLAPS

\* Where a process stands while its lock file can be the one on disk.
Holding == {"listing again", "looking again", "starting", "working", "releasing",
            "unlinking", "exiting", "exit unlinking", "killed", "signalled"}

\* A lock names a process that wrote it for this run and has not removed it,
\* and lies in a directory that exists; a command that has begun has a run.
LockInv ==
  /\ \A p \in Procs : pc[p] # "idle" => target[p] \in Runs
  /\ \A r \in Runs, p \in Procs : lock[r] = p => target[p] = r /\ pc[p] \in Holding
  /\ \A r \in Runs : lock[r] # "absent" => r \in dirs

\* p has written its lock, which is still there, and has not been refused.
Claimed(p) ==
  pc[p] \in {"listing again", "looking again", "starting", "working"} /\ OwnLock(p)

\* p's second look has still to come to q's run.
StillToSee(p, q) ==
  \/ pc[p] = "listing again"
  \/ pc[p] = "looking again" /\ target[q] \in scan[p]

\* Of two claims on one checkout at least one has still to see the other.
LooksInv ==
  \A p, q \in Procs :
    Claimed(p) /\ Claimed(q) /\ target[p] # target[q]
      => \/ target[p] \in Worktrees /\ target[q] \in Worktrees
         \/ StillToSee(p, q)
         \/ StillToSee(q, p)

LockAndLooks == TypeOK /\ LockInv /\ LooksInv

LEMMA InitLock == ASSUME Init PROVE LockAndLooks
<1> USE LockAssumption DEF Init
<1>1. TypeOK BY DEF TypeOK, Locks, States
<1>2. LockInv BY DEF LockInv, Locks
<1>3. LooksInv BY DEF LooksInv, Claimed
<1> QED BY <1>1, <1>2, <1>3 DEF LockAndLooks

LEMMA StepType == ASSUME TypeOK, [Next]_vars PROVE TypeOK'
<1> USE DEF TypeOK, Goto
<1>1. ASSUME NEW p \in Procs, NEW r \in Runs, Begin(p, r) \/ AskToDelete(p, r) PROVE TypeOK'
  <2>1. pc' \in [Procs -> States]
    BY <1>1 DEF Begin, AskToDelete, States
  <2> QED BY <1>1, <2>1 DEF Begin, AskToDelete
<1>2. ASSUME NEW p \in Procs, NEW r \in Runs, LookAt(p, r) \/ Refuse(p, r) PROVE TypeOK'
  <2>1. pc' \in [Procs -> States]
    BY <1>2 DEF LookAt, Refuse, States
  <2> QED BY <1>2, <2>1 DEF LookAt, Refuse
<1>3. ASSUME NEW p \in Procs, NEW r \in Runs, Claim(p, r) PROVE TypeOK'
  <2>1. pc' \in [Procs -> States]
    BY <1>3 DEF Claim, States
  <2> QED BY <1>3, <2>1 DEF Claim
<1>4. ASSUME NEW p \in Procs, List(p) \/ ClaimFails(p) \/ ReadLock(p) PROVE TypeOK'
  <2>1. pc' \in [Procs -> States]
    BY <1>4 DEF List, ClaimFails, ReadLock, States
  <2>2. CASE List(p)
    <3>1. scan' \in [Procs -> SUBSET Runs]
      BY <2>2 DEF List
    <3> QED BY <2>1, <2>2, <3>1 DEF List
  <2>3. CASE ClaimFails(p)
    BY <2>1, <2>3 DEF ClaimFails
  <2>4. CASE ReadLock(p)
    <3>1. UNCHANGED <<dirs, recorded, lock, ending, target, scan, undo, succeeded>>
      BY <2>4 DEF ReadLock
    <3> QED BY <2>1, <3>1
  <2> QED BY <1>4, <2>2, <2>3, <2>4
<1>5. ASSUME NEW p \in Procs, OpenLock(p) \/ WriteLock(p) PROVE TypeOK'
  <2>1. pc' \in [Procs -> States]
    BY <1>5 DEF OpenLock, WriteLock, States
  <2>2. lock' \in [Runs -> Locks]
    BY <1>5 DEF OpenLock, WriteLock, Locks
  <2> QED BY <1>5, <2>1, <2>2 DEF OpenLock, WriteLock
<1>6. ASSUME NEW p \in Procs, Start(p) PROVE TypeOK'
  <2>1. pc' \in [Procs -> States]
    BY <1>6 DEF Start, States
  <2>2. recorded' \subseteq dirs /\ dirs' = dirs
    <3>1. CASE p \in undo
      BY <1>6, <3>1 DEF Start
    <3>2. CASE p \notin undo
      BY <1>6, <3>2 DEF Start
    <3> QED BY <3>1, <3>2
  <2> QED BY <1>6, <2>1, <2>2 DEF Start
<1>7. ASSUME NEW p \in Procs, InstallStamp(p) \/ Reread(p) \/ Unlink(p) PROVE TypeOK'
  <2>1. pc' \in [Procs -> States]
    BY <1>7 DEF InstallStamp, Reread, Unlink, AfterRelease, States
  <2>2. lock' \in [Runs -> Locks]
    BY <1>7 DEF InstallStamp, Reread, Unlink, Locks
  <2> QED BY <1>7, <2>1, <2>2 DEF InstallStamp, Reread, Unlink
<1>8. ASSUME NEW p \in Procs, TakeBack(p) \/ Delete(p) PROVE TypeOK'
  <2>1. pc' \in [Procs -> States]
    BY <1>8 DEF TakeBack, Delete, States
  <2>2. lock' \in [Runs -> Locks]
    BY <1>8 DEF TakeBack, Delete, RemoveDir, Locks
  <2> QED BY <1>8, <2>1, <2>2 DEF TakeBack, Delete, RemoveDir
<1>9. ASSUME NEW p \in Procs, Finish(p) \/ ExitCalled(p) \/ Signal(p) \/ Kill(p) PROVE TypeOK'
  <2>1. pc' \in [Procs -> States]
    BY <1>9 DEF Finish, ExitCalled, Signal, Kill, States
  <2>2. CASE Finish(p) \/ ExitCalled(p)
    BY <2>1, <2>2 DEF Finish, ExitCalled
  <2>3. CASE Signal(p)
    BY <2>1, <2>3 DEF Signal, Stamp
  <2>4. CASE Kill(p)
    BY <2>1, <2>4 DEF Kill
  <2> QED BY <1>9, <2>2, <2>3, <2>4
<1>11. ASSUME NEW p \in Procs, ExitReread(p) \/ ExitUnlink(p) \/ StampExit(p) PROVE TypeOK'
  <2>1. pc' \in [Procs -> States]
    BY <1>11 DEF ExitReread, ExitUnlink, StampExit, States
  <2>2. lock' \in [Runs -> Locks]
    BY <1>11 DEF ExitReread, ExitUnlink, StampExit, Locks
  <2>3. ending' \in [Runs -> {"absent"} \cup Procs]
    BY <1>11 DEF ExitReread, ExitUnlink, StampExit, Stamp
  <2> QED BY <1>11, <2>1, <2>2, <2>3 DEF ExitReread, ExitUnlink, StampExit
<1>10. CASE UNCHANGED vars
  BY <1>10 DEF vars
<1> QED BY <1>1, <1>2, <1>3, <1>4, <1>5, <1>6, <1>7, <1>8, <1>9, <1>10, <1>11 DEF Next, Command

\* One process's step.
Act(p) ==
  \/ Command(p) \/ Finish(p) \/ ExitCalled(p) \/ Signal(p) \/ Kill(p)
  \/ \E r \in Runs : Begin(p, r) \/ AskToDelete(p, r)

LEMMA NextIsAct == [Next]_vars => UNCHANGED vars \/ \E p \in Procs : Act(p)
  BY DEF Next, Act

\* A process's place, run and scan are its own.
LEMMA OneActs ==
  ASSUME TypeOK, NEW p \in Procs, Act(p), NEW q \in Procs, q # p
  PROVE  pc'[q] = pc[q] /\ target'[q] = target[q] /\ scan'[q] = scan[q]
<1>1. UNCHANGED pc \/ \E s : pc' = [pc EXCEPT ![p] = s]
  BY DEF Act, Command, LookAt, Refuse, List, ClaimFails, ReadLock, OpenLock, WriteLock, Start,
     InstallStamp, Reread, Unlink, TakeBack, Delete, Finish, ExitCalled, ExitReread, ExitUnlink,
     StampExit, Signal, Kill, Goto, Begin, AskToDelete, Claim
<1>2. UNCHANGED target \/ \E r \in Runs : target' = [target EXCEPT ![p] = r]
  BY DEF Act, Command, LookAt, Refuse, List, ClaimFails, ReadLock, OpenLock, WriteLock, Start,
     InstallStamp, Reread, Unlink, TakeBack, Delete, Finish, ExitCalled, ExitReread, ExitUnlink,
     StampExit, Signal, Kill, Begin, AskToDelete, Claim
<1>3. UNCHANGED scan \/ \E S : scan' = [scan EXCEPT ![p] = S]
  BY DEF Act, Command, LookAt, Refuse, List, ClaimFails, ReadLock, OpenLock, WriteLock, Start,
     InstallStamp, Reread, Unlink, TakeBack, Delete, Finish, ExitCalled, ExitReread, ExitUnlink,
     StampExit, Signal, Kill, Begin, AskToDelete, Claim
<1> QED BY <1>1, <1>2, <1>3 DEF TypeOK

\* Which locks a step can add: one, by the process that is writing it.
LEMMA LocksOnlyWritten ==
  ASSUME TypeOK, [Next]_vars, NEW r \in Runs, NEW q \in Procs, lock'[r] = q, lock[r] # q
  PROVE  WriteLock(q) /\ target[q] = r
<1> USE LockAssumption DEF TypeOK
<1>1. lock' # lock
  OBVIOUS
<1>2. q # "absent" /\ q # "torn"
  OBVIOUS
<1>3. \E p \in Procs : OpenLock(p) \/ WriteLock(p) \/ Unlink(p) \/ ExitUnlink(p)
                      \/ TakeBack(p) \/ Delete(p)
  BY <1>1 DEF Next, Command, vars, Begin, AskToDelete, LookAt, Refuse, Claim, List, ClaimFails,
     ReadLock, Start, InstallStamp, Reread, Finish, ExitCalled, ExitReread, StampExit, Signal,
     Kill
<1>4. PICK p \in Procs : OpenLock(p) \/ WriteLock(p) \/ Unlink(p) \/ ExitUnlink(p)
                           \/ TakeBack(p) \/ Delete(p)
  BY <1>3
<1>5. \/ lock' = [lock EXCEPT ![target[p]] = "absent"]
      \/ lock' = [lock EXCEPT ![target[p]] = "torn"]
      \/ WriteLock(p) /\ lock' = [lock EXCEPT ![target[p]] = p]
  BY <1>1, <1>4 DEF OpenLock, WriteLock, Unlink, ExitUnlink, TakeBack, Delete, RemoveDir
<1> QED BY <1>2, <1>5

\* A claimed run's lock is never one that another process may pass over.
LEMMA ClaimIsSeen ==
  ASSUME LockAndLooks, NEW p \in Procs, NEW q \in Procs, Claimed(q),
         target[q] \in Runs, ~Conflict(p, target[q])
  PROVE  target[p] \in Worktrees /\ target[q] \in Worktrees
<1>1. lock[target[q]] = q /\ Alive(q)
  BY DEF Claimed, OwnLock, Alive, Over
<1>2. Liveness(q, p) \in {"running", "unknown"}
  BY <1>1, LockAssumption DEF Liveness
<1> QED BY <1>1, <1>2 DEF Conflict, Permits, StoredWorktree, Isolated

LEMMA ClaimHasRun ==
  ASSUME LockAndLooks, NEW p \in Procs, Claimed(p)
  PROVE  target[p] \in Runs /\ target[p] \in dirs
<1>1. target[p] \in Runs
  BY DEF LockAndLooks, LockInv, Claimed
<1>2. lock[target[p]] # "absent"
  BY LockAssumption DEF Claimed, OwnLock
<1> QED BY <1>1, <1>2 DEF LockAndLooks, LockInv

LEMMA StepLock == ASSUME TypeOK, LockInv, [Next]_vars PROVE LockInv'
<1> DEFINE Target == \A p \in Procs : pc[p] # "idle" => target[p] \in Runs
           Holder == \A r \in Runs, p \in Procs : lock[r] = p => target[p] = r /\ pc[p] \in Holding
           InDir == \A r \in Runs : lock[r] # "absent" => r \in dirs
<1>1. Target'
  <2>1. ASSUME NEW p \in Procs, NEW r \in Runs, Begin(p, r) \/ AskToDelete(p, r) \/ Claim(p, r)
        PROVE  Target'
    BY <2>1 DEF TypeOK, LockInv, Goto, Begin, AskToDelete, Claim
  <2>4. ASSUME NEW p \in Procs, Command(p) \/ Finish(p) \/ ExitCalled(p) \/ Signal(p) \/ Kill(p),
               \A r \in Runs : ~Claim(p, r)
        PROVE  Target'
    <3>1. UNCHANGED target
      BY <2>4 DEF Command, LookAt, Refuse, List, ClaimFails, ReadLock, OpenLock, WriteLock, Start,
         InstallStamp, Reread, Unlink, TakeBack, Delete, Finish, ExitCalled, ExitReread,
         ExitUnlink, StampExit, Signal, Kill
    <3>2. pc[p] # "idle" /\ (UNCHANGED pc \/ \E s : pc' = [pc EXCEPT ![p] = s])
      BY <2>4 DEF Command, LookAt, Refuse, List, ClaimFails, ReadLock, OpenLock, WriteLock, Start,
         InstallStamp, Reread, Unlink, TakeBack, Delete, Finish, ExitCalled, ExitReread,
         ExitUnlink, StampExit, Signal, Kill, Goto
    <3> QED BY <3>1, <3>2 DEF TypeOK, LockInv
  <2>5. CASE UNCHANGED vars
    BY <2>5 DEF vars, LockInv
  <2> QED BY <2>1, <2>4, <2>5 DEF Next, Command
<1>2. ASSUME NEW r \in Runs, NEW q \in Procs, lock'[r] = q
      PROVE  target'[q] = r /\ pc'[q] \in Holding
  <2>1. CASE lock[r] # q
    <3>1. WriteLock(q) /\ target[q] = r
      BY <1>2, <2>1, LocksOnlyWritten
    <3> QED BY <3>1 DEF WriteLock, Goto, TypeOK, Holding
  <2>2. CASE lock[r] = q
    <3>1. target[q] = r /\ pc[q] \in Holding
      BY <2>2 DEF LockInv
    <3>2. CASE UNCHANGED vars
      BY <3>1, <3>2 DEF vars
    <3>3. ASSUME NEW p \in Procs, p # q, Act(p)
          PROVE  target'[q] = r /\ pc'[q] \in Holding
      BY <3>1, <3>3, OneActs
    <3>4. CASE Act(q)
      <4>1. \A s \in Runs : ~Begin(q, s) /\ ~AskToDelete(q, s) /\ ~Claim(q, s)
        BY <3>1 DEF Holding, Begin, AskToDelete, Claim
      <4>2. ~ClaimFails(q) /\ ~ReadLock(q) /\ ~OpenLock(q) /\ ~WriteLock(q) /\ ~TakeBack(q)
            /\ ~Delete(q)
        BY <3>1 DEF Holding, ClaimFails, ReadLock, OpenLock, WriteLock, TakeBack, Delete
      <4>3. ~Unlink(q) /\ ~ExitUnlink(q) /\ ~StampExit(q)
        BY <1>2, <3>1, LockAssumption DEF Unlink, ExitUnlink, StampExit, TypeOK, Holding
      <4>4. ASSUME NEW s \in Runs, LookAt(q, s) \/ Refuse(q, s)
            PROVE  target'[q] = r /\ pc'[q] \in Holding
        BY <3>1, <4>4 DEF LookAt, Refuse, Goto, TypeOK, Holding
      <4>5. ASSUME List(q) \/ Start(q) \/ InstallStamp(q) \/ Finish(q) \/ ExitCalled(q)
                     \/ Signal(q) \/ Kill(q)
            PROVE  target'[q] = r /\ pc'[q] \in Holding
        BY <3>1, <4>5 DEF List, Start, InstallStamp, Finish, ExitCalled, Signal, Kill, Goto,
           TypeOK, Holding
      <4>6. ASSUME Reread(q) \/ ExitReread(q) PROVE target'[q] = r /\ pc'[q] \in Holding
        BY <2>2, <3>1, <4>6 DEF Reread, ExitReread, OwnLock, Goto, TypeOK, Holding
      <4> QED BY <3>4, <4>1, <4>2, <4>3, <4>4, <4>5, <4>6 DEF Act, Command
    <3> QED BY <3>2, <3>3, <3>4, NextIsAct
  <2> QED BY <2>1, <2>2
<1>3. InDir'
  <2>1. ASSUME NEW p \in Procs, NEW r \in Runs, Begin(p, r) \/ AskToDelete(p, r) \/ LookAt(p, r)
                 \/ Refuse(p, r) \/ Claim(p, r)
        PROVE  InDir'
    BY <2>1 DEF Begin, AskToDelete, LookAt, Refuse, Claim, LockInv
  <2>2. ASSUME NEW p \in Procs, List(p) \/ ClaimFails(p) \/ ReadLock(p) \/ Start(p)
                 \/ InstallStamp(p) \/ Reread(p) \/ Finish(p) \/ ExitCalled(p)
                 \/ ExitReread(p) \/ StampExit(p) \/ Signal(p) \/ Kill(p)
        PROVE  InDir'
    BY <2>2 DEF List, ClaimFails, ReadLock, Start, InstallStamp, Reread, Finish, ExitCalled,
       ExitReread, StampExit, Signal, Kill, LockInv
  <2>3. ASSUME NEW p \in Procs, OpenLock(p) \/ WriteLock(p) \/ Unlink(p) \/ ExitUnlink(p)
        PROVE  InDir'
    <3>1. CASE OpenLock(p)
      BY <3>1 DEF OpenLock, LockInv, TypeOK
    <3>2. CASE WriteLock(p)
      <4>1. lock' # lock => lock[target[p]] # "absent"
        BY <3>2, LockAssumption DEF WriteLock
      <4>2. \A r \in Runs : r # target[p] => lock'[r] = lock[r]
        BY <3>2 DEF WriteLock, TypeOK
      <4>3. dirs' = dirs
        BY <3>2 DEF WriteLock
      <4> QED BY <4>1, <4>2, <4>3 DEF LockInv
    <3>3. CASE Unlink(p) \/ ExitUnlink(p)
      BY <3>3 DEF Unlink, ExitUnlink, LockInv, TypeOK
    <3> QED BY <2>3, <3>1, <3>2, <3>3
  <2>4. ASSUME NEW p \in Procs, TakeBack(p) \/ Delete(p) PROVE InDir'
    BY <2>4 DEF TakeBack, Delete, RemoveDir, LockInv, TypeOK
  <2>5. CASE UNCHANGED vars
    BY <2>5 DEF vars, LockInv
  <2> QED BY <2>1, <2>2, <2>3, <2>4, <2>5 DEF Next, Command
<1> QED BY <1>1, <1>2, <1>3 DEF LockInv

NotClaiming == {"releasing", "unlinking", "exiting", "exit unlinking", "killed", "signalled"}

\* A claim is made by the process writing its lock, and kept by going on.
LEMMA ClaimsGrow ==
  ASSUME LockAndLooks, [Next]_vars, NEW q \in Procs, Claimed(q)'
  PROVE  \/ Claimed(q) /\ target'[q] = target[q]
         \/ pc'[q] = "listing again"
<1> USE DEF LockAndLooks
<1>1. CASE UNCHANGED vars
  BY <1>1 DEF vars, Claimed, OwnLock
<1>2. TypeOK' /\ LockInv'
  BY StepType, StepLock
<1>3. target'[q] \in Runs /\ lock'[target'[q]] = q
  BY <1>2 DEF Claimed, OwnLock, LockInv
<1>4. CASE lock[target'[q]] # q
  <2>1. WriteLock(q)
    BY <1>3, <1>4, LocksOnlyWritten
  <2> QED BY <2>1 DEF WriteLock, Goto, TypeOK
<1>5. ASSUME lock[target'[q]] = q, NEW p \in Procs, Act(p), p # q
      PROVE  Claimed(q) /\ target'[q] = target[q]
  BY <1>5, OneActs DEF Claimed, OwnLock
<1>6. CASE lock[target'[q]] = q /\ Act(q)
  <2>1. target'[q] = target[q] /\ pc[q] \in Holding
    BY <1>3, <1>6 DEF LockInv
  <2>2. pc[q] \in {"listing again", "looking again", "starting", "working"}
    <3>1. pc[q] # pc'[q] => pc[q] \notin NotClaiming
      <4>1. SUFFICES ASSUME pc[q] \in NotClaiming,
                            pc[q] # pc'[q]
                     PROVE  FALSE
        OBVIOUS
      <4>2. Reread(q) \/ Unlink(q) \/ ExitReread(q) \/ ExitUnlink(q) \/ Kill(q)
        BY <1>6, <4>1 DEF NotClaiming, Act, Command, LookAt, Refuse, List, ClaimFails, ReadLock, OpenLock,
           WriteLock, Start, InstallStamp, TakeBack, Delete, Finish, ExitCalled, StampExit, Signal,
           Begin, AskToDelete, Claim
      <4>3. pc'[q] \in {"unlinking", "removing", "exit unlinking", "stamping", "done", "killed"}
        BY <4>2 DEF Reread, Unlink, ExitReread, ExitUnlink, Kill, Goto, AfterRelease, TypeOK
      <4> QED BY <4>3 DEF Claimed
    <3> QED BY <2>1, <3>1 DEF Claimed, Holding, NotClaiming
  <2> QED BY <1>6, <2>1, <2>2 DEF Claimed, OwnLock
<1> QED BY <1>1, <1>4, <1>5, <1>6, NextIsAct

\* What a claimed process has still to see, it still has to see, unless it has
\* just seen that the two runs may share the repository.
LEMMA SeeingStep ==
  ASSUME LockAndLooks, [Next]_vars, NEW p \in Procs, NEW q \in Procs,
         Claimed(p), Claimed(q), Claimed(p)', Claimed(q)', target[p] # target[q],
         target'[p] = target[p], target'[q] = target[q], StillToSee(p, q)
  PROVE  StillToSee(p, q)' \/ (target[p] \in Worktrees /\ target[q] \in Worktrees)
<1> USE DEF LockAndLooks
<1>1. CASE UNCHANGED vars
  BY <1>1 DEF vars, StillToSee
<1>2. ASSUME NEW u \in Procs, u # p, Act(u) PROVE StillToSee(p, q)'
  BY <1>2, OneActs DEF StillToSee
<1>3. CASE Act(p)
  <2>1. pc[p] \in {"listing again", "looking again"}
    BY DEF StillToSee
  <2>2. (\E r \in Runs : LookAt(p, r) \/ Refuse(p, r)) \/ List(p) \/ Start(p) \/ Kill(p)
    BY <1>3, <2>1 DEF Act, Command, ClaimFails, ReadLock, OpenLock, WriteLock, InstallStamp,
       Reread, Unlink, TakeBack, Delete, Finish, ExitCalled, ExitReread, ExitUnlink, StampExit,
       Signal, Begin, AskToDelete, Claim
  <2>3. pc[p] = "looking again" => target[q] \in scan[p]
    BY DEF StillToSee
  <2>4. ASSUME NEW r \in Runs, LookAt(p, r) PROVE StillToSee(p, q)' \/
            (target[p] \in Worktrees /\ target[q] \in Worktrees)
    <3>1. CASE r = target[q]
      BY <2>4, <3>1, ClaimIsSeen DEF LookAt
    <3>2. CASE r # target[q]
      BY <2>3, <2>4, <3>2, <2>1 DEF LookAt, StillToSee, TypeOK
    <3> QED BY <3>1, <3>2
  <2>5. ASSUME NEW r \in Runs, Refuse(p, r) PROVE FALSE
    BY <2>1, <2>5 DEF Refuse, Goto, Claimed, TypeOK
  <2>6. ASSUME List(p) PROVE StillToSee(p, q)'
    <3>1. target[q] \in dirs \ {target[p]}
      BY ClaimHasRun
    <3> QED BY <2>1, <2>6, <3>1 DEF List, Goto, StillToSee, TypeOK
  <2>7. ~Start(p)
    BY <2>3 DEF Start
  <2>8. ~Kill(p)
    BY DEF Kill, Goto, Claimed, TypeOK
  <2> QED BY <2>2, <2>4, <2>5, <2>6, <2>7, <2>8
<1> QED BY <1>1, <1>2, <1>3, NextIsAct

LEMMA StepLooks == ASSUME LockAndLooks, [Next]_vars PROVE LooksInv'
<1> SUFFICES ASSUME NEW p \in Procs, NEW q \in Procs, Claimed(p)', Claimed(q)',
                    target'[p] # target'[q],
                    ~(target'[p] \in Worktrees /\ target'[q] \in Worktrees)
             PROVE  StillToSee(p, q)' \/ StillToSee(q, p)'
  BY DEF LooksInv
<1>1. CASE pc'[p] = "listing again" \/ pc'[q] = "listing again"
  BY <1>1 DEF StillToSee
<1>2. CASE pc'[p] # "listing again" /\ pc'[q] # "listing again"
  <2>1. /\ Claimed(p) /\ target'[p] = target[p]
        /\ Claimed(q) /\ target'[q] = target[q]
    BY <1>2, ClaimsGrow
  <2>2. StillToSee(p, q) \/ StillToSee(q, p)
    BY <2>1 DEF LockAndLooks, LooksInv
  <2> QED BY <2>1, <2>2, SeeingStep
<1> QED BY <1>1, <1>2

LEMMA LockInvariant == Spec => []LockAndLooks
<1>1. Init => LockAndLooks BY InitLock
<1>2. LockAndLooks /\ [Next]_vars => LockAndLooks'
  BY StepType, StepLock, StepLooks DEF LockAndLooks
<1> QED BY <1>1, <1>2, PTL DEF Spec

\* Records, directories, locks and commands keep their types.
THEOREM TypeCorrect == Spec => []TypeOK
<1>1. LockAndLooks => TypeOK BY DEF LockAndLooks
<1> QED BY <1>1, LockInvariant, PTL

\* The second look keeps two runs under locks of their own out of one checkout.
THEOREM CheckoutExclusion == Spec => []OneRunPerCheckout
<1>1. ASSUME LockAndLooks PROVE OneRunPerCheckout
  BY <1>1 DEF LockAndLooks, LooksInv, OneRunPerCheckout, Driving, Claimed, StillToSee
<1> QED BY <1>1, LockInvariant, PTL

\* A command that ends by itself leaves no lock: a lock's owner lives or was killed.
THEOREM LocksAreKept == Spec => []ALockMeansLiveOrKilled
<1>1. ASSUME LockAndLooks PROVE ALockMeansLiveOrKilled
  BY <1>1 DEF LockAndLooks, LockInv, ALockMeansLiveOrKilled, Holding
<1> QED BY <1>1, LockInvariant, PTL

\* A stamp is the last word of a process that left by itself; and the lock of a
\* process a signal ended, that nobody has taken up since, has a stamp beside it.
StampsLast == \A r \in Runs : ending[r] \in Procs => pc[ending[r]] \in {"signalled", "exited"}

SignalsTold ==
  \A r \in Runs, p \in Procs \ succeeded :
    lock[r] = p /\ pc[p] = "signalled" => ending[r] \in Procs

StampInv == StampsLast /\ SignalsTold

\* What changes a stamp.
LEMMA EndingsOnlyStamped ==
  ASSUME TypeOK, [Next]_vars, NEW r \in Runs, ending'[r] # ending[r]
  PROVE  \E p \in Procs :
           \/ ending'[r] = "absent" /\ target[p] = r
              /\ (InstallStamp(p) \/ ((TakeBack(p) \/ Delete(p)) /\ lock'[r] = "absent"))
           \/ ending'[r] = p /\ target[p] = r /\ (Signal(p) \/ StampExit(p))
<1>1. \E p \in Procs : InstallStamp(p) \/ TakeBack(p) \/ Delete(p) \/ Signal(p) \/ StampExit(p)
  BY DEF Next, Command, vars, Begin, AskToDelete, LookAt, Refuse, Claim, List, ClaimFails,
     ReadLock, OpenLock, WriteLock, Start, Reread, Unlink, Finish, ExitCalled, ExitReread,
     ExitUnlink, Kill
<1>2. PICK p \in Procs : InstallStamp(p) \/ TakeBack(p) \/ Delete(p) \/ Signal(p) \/ StampExit(p)
  BY <1>1
<1>3. CASE InstallStamp(p)
  BY <1>3 DEF InstallStamp, TypeOK
<1>4. CASE TakeBack(p) \/ Delete(p)
  BY <1>4 DEF TakeBack, Delete, RemoveDir, TypeOK
<1>5. CASE Signal(p) \/ StampExit(p)
  BY <1>5 DEF Signal, StampExit, Stamp, TypeOK
<1> QED BY <1>2, <1>3, <1>4, <1>5

\* A process that is over takes no step.
LEMMA OverIsOver ==
  ASSUME TypeOK, [Next]_vars, NEW q \in Procs, ~Alive(q)
  PROVE  pc'[q] = pc[q] /\ target'[q] = target[q]
<1>1. CASE UNCHANGED vars
  BY <1>1 DEF vars
<1>2. ASSUME NEW p \in Procs, Act(p) PROVE pc'[q] = pc[q] /\ target'[q] = target[q]
  <2>1. pc[p] \notin Over
    BY <1>2 DEF Act, Command, LookAt, Refuse, List, ClaimFails, ReadLock, OpenLock, WriteLock,
       Start, InstallStamp, Reread, Unlink, TakeBack, Delete, Finish, ExitCalled, ExitReread,
       ExitUnlink, StampExit, Signal, Kill, Begin, AskToDelete, Claim, Alive, Over
  <2> QED BY <1>2, <2>1, OneActs DEF Alive
<1> QED BY <1>1, <1>2, NextIsAct

\* Who has been succeeded stays so.
LEMMA SucceededGrows == ASSUME [Next]_vars PROVE succeeded \subseteq succeeded'
<1>1. CASE UNCHANGED vars
  BY <1>1 DEF vars
<1>2. ASSUME NEW p \in Procs, Act(p) PROVE succeeded \subseteq succeeded'
  BY <1>2 DEF Act, Command, LookAt, Refuse, List, ClaimFails, ReadLock, OpenLock, WriteLock,
     Start, InstallStamp, Reread, Unlink, TakeBack, Delete, Finish, ExitCalled, ExitReread,
     ExitUnlink, StampExit, Signal, Kill, Begin, AskToDelete, Claim, RemoveDir
<1> QED BY <1>1, <1>2, NextIsAct

LEMMA StepStampsLast == ASSUME TypeOK, StampsLast, [Next]_vars PROVE StampsLast'
<1> SUFFICES ASSUME NEW r \in Runs, ending'[r] \in Procs
             PROVE  pc'[ending'[r]] \in {"signalled", "exited"}
  BY DEF StampsLast
<1>1. CASE ending'[r] = ending[r]
  <2>1. pc[ending[r]] \in {"signalled", "exited"}
    BY <1>1 DEF StampsLast
  <2>2. ~Alive(ending[r])
    BY <2>1 DEF Alive, Over
  <2> QED BY <1>1, <2>1, <2>2, OverIsOver
<1>2. CASE ending'[r] # ending[r]
  <2>1. PICK p \in Procs : ending'[r] = p /\ (Signal(p) \/ StampExit(p))
    BY <1>2, EndingsOnlyStamped, LockAssumption
  <2> QED BY <2>1 DEF Signal, StampExit, Goto, TypeOK
<1> QED BY <1>1, <1>2

LEMMA StepSignalsTold ==
  ASSUME TypeOK, LockInv, SignalsTold, [Next]_vars PROVE SignalsTold'
<1> SUFFICES ASSUME NEW r \in Runs, NEW p \in Procs, p \notin succeeded', lock'[r] = p,
                    pc'[p] = "signalled", ending'[r] \notin Procs
             PROVE  FALSE
  BY DEF SignalsTold
<1>1. p \notin succeeded
  BY SucceededGrows
<1>2. lock[r] = p
  <2>1. SUFFICES ASSUME lock[r] # p PROVE FALSE
    OBVIOUS
  <2>2. WriteLock(p)
    BY <2>1, LocksOnlyWritten
  <2> QED BY <2>2 DEF WriteLock, Goto, TypeOK
<1>3. target[p] = r /\ r \in dirs
  BY <1>2, LockAssumption DEF LockInv
<1>4. CASE pc[p] = "signalled"
  <2>1. ending[r] \in Procs
    BY <1>1, <1>2, <1>4 DEF SignalsTold
  <2>2. PICK q \in Procs : /\ target[q] = r
                           /\ InstallStamp(q) \/ lock'[r] = "absent"
    BY <2>1, EndingsOnlyStamped
  <2>3. InstallStamp(q)
    BY <2>2, LockAssumption
  <2>4. p \in succeeded'
    BY <1>3, <1>4, <2>2, <2>3 DEF InstallStamp, Alive, Over
  <2> QED BY <2>4
<1>5. CASE pc[p] # "signalled"
  <2>1. Signal(p)
    <3>1. PICK q \in Procs : Act(q)
      BY <1>5, NextIsAct DEF vars
    <3>2. q = p
      BY <1>5, <3>1, OneActs
    <3>3. UNCHANGED pc \/ Signal(p) \/ \E s \in States \ {"signalled"} : pc' = [pc EXCEPT ![p] = s]
      BY <3>1, <3>2 DEF Act, Command, LookAt, Refuse, List, ClaimFails, ReadLock, OpenLock,
         WriteLock, Start, InstallStamp, Reread, Unlink, TakeBack, Delete, Finish, ExitCalled,
         ExitReread, ExitUnlink, StampExit, Kill, Goto, Begin, AskToDelete, Claim, AfterRelease,
         States
    <3> QED BY <1>5, <3>3 DEF TypeOK
  <2> QED BY <1>3, <2>1 DEF Signal, Stamp, TypeOK
<1> QED BY <1>4, <1>5

\* What howItEnded tells of the process a lock names is what became of it, over
\* any number of commands that start, stop, are killed and take the run up again.
THEOREM EndingsAreToldAsTheyWere == Spec => []EndingsAreTold
<1>1. Init => StampInv
  BY LockAssumption DEF Init, StampInv, StampsLast, SignalsTold
<1>2. LockAndLooks /\ StampInv /\ [Next]_vars => StampInv'
  BY StepStampsLast, StepSignalsTold DEF LockAndLooks, StampInv
<1>3. ASSUME LockAndLooks, StampInv PROVE EndingsAreTold
  <2> SUFFICES ASSUME NEW r \in Runs, NEW p \in Procs \ succeeded, lock[r] = p, ~Alive(p)
               PROVE  /\ HowItEnded(r) = "killed" => pc[p] = "killed"
                      /\ HowItEnded(r) = "itself" => pc[p] \in {"signalled", "exited"}
    BY DEF EndingsAreTold
  <2>1. pc[p] \in {"killed", "signalled"}
    BY <1>3 DEF LockAndLooks, LockInv, Holding, Alive, Over
  <2>2. pc[p] = "signalled" => ending[r] # "absent"
    BY <1>3, LockAssumption DEF StampInv, SignalsTold
  <2>3. ending[r] = lock[r] => pc[p] \in {"signalled", "exited"}
    BY <1>3 DEF StampInv, StampsLast
  <2> QED BY <2>1, <2>2, <2>3 DEF HowItEnded
<1> QED BY <1>1, <1>2, <1>3, LockInvariant, PTL DEF Spec
===============================================================================
