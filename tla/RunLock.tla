-------------------------------- MODULE RunLock --------------------------------
(***************************************************************************)
(* Who may work in a repository: the run.lock of every run under           *)
(* .vibe/runs, the two looks at everybody else's lock that `vibe run` and  *)
(* `vibe resume` take around writing their own, release, deletion, and the *)
(* ending stamp beside the lock (lock.ts, ending.ts, worktree.ts, cli.ts,  *)
(* run.ts).  Each process here is one command, on one machine, that shares *)
(* the file system with the others and may be killed between any two of    *)
(* its file operations.  A stamp that cannot be written is a finding lost, *)
(* as ending.ts says, and is left out.                                     *)
(***************************************************************************)
EXTENDS Naturals, FiniteSets

CONSTANTS
  Procs,      \* commands, each a process of its own
  Runs,       \* run ids under .vibe/runs
  Hosts, host(_),  \* the machine each process runs on
  Worktrees,  \* runs whose configuration gives them a worktree of their own
  Existing,   \* runs already recorded on disk when the story begins
  Forcers     \* processes that were given --force

ASSUME LockAssumption ==
  /\ \A p \in Procs : host(p) \in Hosts
  /\ Worktrees \subseteq Runs
  /\ Existing \subseteq Runs
  /\ Forcers \subseteq Procs
  /\ {"absent", "torn"} \cap Procs = {}
  /\ "none" \notin Runs

VARIABLES
  dirs,      \* run directories that exist
  recorded,  \* runs whose state.json exists
  lock,      \* run.lock: absent, torn (not valid JSON), or its writer
  ending,    \* ending.json: absent, or the process that stamped it
  pc,        \* where each command stands
  target,    \* the run it is about
  scan,      \* the entries its look at the others has still to read
  undo,      \* starts that were refused and will remove their directory
  succeeded  \* (history) commands that were over when another took up their run

vars == <<dirs, recorded, lock, ending, pc, target, scan, undo, succeeded>>

Locks == {"absent", "torn"} \cup Procs

States == {"idle", "listing", "looking", "reading", "opening", "writing", "listing again",
           "looking again", "starting", "working", "releasing", "unlinking", "removing",
           "deleting", "exiting", "exit unlinking", "stamping",
           "done", "killed", "signalled", "exited"}

Over == {"done", "killed", "signalled", "exited"}

Alive(p) == pc[p] \notin Over

-----------------------------------------------------------------------------

\* livenessOf: what process p makes of a lock file's content.
Liveness(c, p) ==
  CASE c = "absent"         -> "not-running"
    [] c = "torn"           -> "unknown"
    [] c \in Procs /\ host(c) # host(p) -> "unknown"
    [] OTHER                -> IF Alive(c) THEN "running" ELSE "interrupted"

\* (wrong: whoever stamped is taken for the one the lock names)
HowItEndedByStamp(r) == IF ending[r] = "absent" THEN "killed" ELSE "itself"

\* howItEnded, of a lock whose process is gone: a stamp of another process is
\* not this one's.
HowItEnded(r) ==
  IF ending[r] = "absent" THEN "killed"
  ELSE IF ending[r] = lock[r] THEN "itself" ELSE "unrecorded"

Permits(l) == l \in {"not-running", "interrupted"}

\* storedWorktree reads state.json, so a start that has not written it yet
\* counts as working in the repository itself.
StoredWorktree(r) == r \in recorded /\ r \in Worktrees

\* Whether p would work in a worktree: a start knows its configuration, a
\* resume asks the stored record.
Isolated(p) == target[p] \in Worktrees /\ (p \in undo \/ target[p] \in recorded)

\* entryConflict and the test of the two worktree answers.
Conflict(p, r) ==
  /\ ~Permits(Liveness(lock[r], p))
  /\ ~(StoredWorktree(r) /\ Isolated(p))

-----------------------------------------------------------------------------

Init ==
  /\ dirs = Existing /\ recorded = Existing
  /\ lock = [r \in Runs |-> "absent"]
  /\ ending = [r \in Runs |-> "absent"]
  /\ pc = [p \in Procs |-> "idle"]
  /\ target = [p \in Procs |-> "none"]
  /\ scan = [p \in Procs |-> {}]
  /\ undo = {} /\ succeeded = {}

Goto(p, s) == pc' = [pc EXCEPT ![p] = s]

\* A start's run id is new: no resume, deletion or earlier start has had it.
Fresh(r) == r \notin dirs \cup Existing /\ \A q \in Procs : target[q] = r => q \in undo

\* cmdResume names a recorded run; cmdRun will have the next free id.
Begin(p, r) ==
  /\ pc[p] = "idle"
  /\ r \in recorded \/ Fresh(r)
  /\ target' = [target EXCEPT ![p] = r]
  /\ undo' = IF r \in dirs THEN undo ELSE undo \cup {p}
  /\ Goto(p, "listing")
  /\ UNCHANGED <<dirs, recorded, lock, ending, scan, succeeded>>

\* sameRepositoryRefusal: readdir, then one entry after the other.
List(p) ==
  /\ \/ pc[p] = "listing" /\ Goto(p, "looking")
     \/ pc[p] = "listing again" /\ Goto(p, "looking again")
  /\ scan' = [scan EXCEPT ![p] = dirs \ {target[p]}]
  /\ UNCHANGED <<dirs, recorded, lock, ending, target, undo, succeeded>>

LookAt(p, r) ==
  /\ pc[p] \in {"looking", "looking again"} /\ r \in scan[p]
  /\ ~Conflict(p, r)
  /\ scan' = [scan EXCEPT ![p] = @ \ {r}]
  /\ UNCHANGED <<dirs, recorded, lock, ending, pc, target, undo, succeeded>>

RefuseWithoutRelease(p, r) ==
  /\ pc[p] \in {"looking", "looking again"} /\ r \in scan[p] /\ Conflict(p, r)
  /\ Goto(p, "done")
  /\ UNCHANGED <<dirs, recorded, lock, ending, target, scan, undo, succeeded>>

\* The first look refuses before anything exists, the second lets go again.
Refuse(p, r) ==
  /\ r \in scan[p] /\ Conflict(p, r)
  /\ \/ pc[p] = "looking" /\ Goto(p, "done")
     \/ pc[p] = "looking again" /\ Goto(p, "releasing")
  /\ UNCHANGED <<dirs, recorded, lock, ending, target, scan, undo, succeeded>>

\* allocateRun claims a directory nobody has: mkdir is exclusive, and a start
\* whose name is taken goes on to the next suffix.
Claim(p, r) ==
  /\ pc[p] = "looking" /\ scan[p] = {}
  /\ IF p \in undo
       THEN /\ Fresh(r) /\ (r \in Worktrees <=> target[p] \in Worktrees)
            /\ dirs' = dirs \cup {r}
       ELSE r = target[p] /\ UNCHANGED dirs
  /\ target' = [target EXCEPT ![p] = r]
  /\ Goto(p, "reading")
  /\ UNCHANGED <<recorded, lock, ending, scan, undo, succeeded>>

\* Every suffix was taken: "Could not allocate a run directory".
ClaimFails(p) ==
  /\ pc[p] = "looking" /\ scan[p] = {} /\ p \in undo
  /\ \A r \in Runs : Fresh(r) => ~(r \in Worktrees <=> target[p] \in Worktrees)
  /\ undo' = undo \ {p}
  /\ Goto(p, "done")
  /\ UNCHANGED <<dirs, recorded, lock, ending, target, scan, succeeded>>

\* acquireLock, first half: the verdict.
ReadLock(p) ==
  /\ pc[p] = "reading"
  /\ IF Permits(Liveness(lock[target[p]], p)) \/ p \in Forcers
       THEN Goto(p, "opening") ELSE Goto(p, "done")
  /\ UNCHANGED <<dirs, recorded, lock, ending, target, scan, undo, succeeded>>

\* acquireLock, second half: writeFileSync truncates, then writes.  A run
\* deleted in between has no directory to write into, which throws.
OpenLock(p) ==
  /\ pc[p] = "opening"
  /\ IF target[p] \in dirs
       THEN lock' = [lock EXCEPT ![target[p]] = "torn"] /\ Goto(p, "writing")
       ELSE UNCHANGED lock /\ Goto(p, "done")
  /\ UNCHANGED <<dirs, recorded, ending, target, scan, undo, succeeded>>

\* A text another process wrote since our truncation may be longer than ours,
\* and what is left of it behind ours is not JSON.
WriteLock(p) ==
  /\ pc[p] = "writing"
  /\ \/ lock[target[p]] # "absent" /\ lock' = [lock EXCEPT ![target[p]] = p]
     \/ lock[target[p]] \in Procs /\ lock' = [lock EXCEPT ![target[p]] = "torn"]
     \/ lock[target[p]] = "absent" /\ UNCHANGED lock   \* unlinked meanwhile
  /\ Goto(p, "listing again")
  /\ UNCHANGED <<dirs, recorded, ending, target, scan, undo, succeeded>>

StartWithoutLookingAgain(p) ==
  /\ pc[p] = "looking again"
  /\ recorded' = IF p \in undo THEN recorded \cup {target[p]} ELSE recorded
  /\ undo' = undo \ {p}
  /\ Goto(p, IF target[p] \in dirs THEN "starting" ELSE "releasing")
  /\ UNCHANGED <<dirs, lock, ending, target, scan, succeeded>>

\* Nobody in the way: createRun writes state.json, or loadRun reads it, and
\* either throws into the finally when the directory has been deleted.
Start(p) ==
  /\ pc[p] = "looking again" /\ scan[p] = {}
  /\ undo' = undo \ {p}
  /\ IF target[p] \in (IF p \in undo THEN dirs ELSE recorded)
       THEN recorded' = recorded \cup {target[p]} /\ Goto(p, "starting")
       ELSE UNCHANGED recorded /\ Goto(p, "releasing")
  /\ UNCHANGED <<dirs, lock, ending, target, scan, succeeded>>

\* installEndingStamp: the last ending is read and removed, if it can be.
InstallStamp(p) ==
  /\ pc[p] = "starting"
  /\ \/ ending' = [ending EXCEPT ![target[p]] = "absent"]
     \/ UNCHANGED ending
  /\ succeeded' = succeeded \cup {q \in Procs : ~Alive(q) /\ target[q] = target[p]}
  /\ Goto(p, "working")
  /\ UNCHANGED <<dirs, recorded, lock, target, scan, undo>>

\* The loop returns, escalates or throws: every way out goes through finally.
Finish(p) ==
  /\ pc[p] \in {"starting", "working"}
  /\ Goto(p, "releasing")
  /\ UNCHANGED <<dirs, recorded, lock, ending, target, scan, undo, succeeded>>

\* release, first half: the re-read.
OwnLock(p) == lock[target[p]] = p

AfterRelease(p) == IF p \in undo THEN "removing" ELSE "done"

Reread(p) ==
  /\ pc[p] = "releasing"
  /\ Goto(p, IF OwnLock(p) THEN "unlinking" ELSE AfterRelease(p))
  /\ UNCHANGED <<dirs, recorded, lock, ending, target, scan, undo, succeeded>>

\* release, second half: rmSync on the path, whoever's file is there by now.
Unlink(p) ==
  /\ pc[p] = "unlinking"
  /\ lock' = [lock EXCEPT ![target[p]] = "absent"]
  /\ Goto(p, AfterRelease(p))
  /\ UNCHANGED <<dirs, recorded, ending, target, scan, undo, succeeded>>

RemoveDir(r) ==
  /\ dirs' = dirs \ {r}
  /\ recorded' = recorded \ {r}
  /\ lock' = [lock EXCEPT ![r] = "absent"]
  /\ ending' = [ending EXCEPT ![r] = "absent"]

\* A refused start takes back the directory it made.
TakeBack(p) ==
  /\ pc[p] = "removing"
  /\ RemoveDir(target[p])
  /\ undo' = undo \ {p}
  /\ Goto(p, "done")
  /\ UNCHANGED <<target, scan, succeeded>>

\* deleteRun, first half: the same verdict, and no --force.
AskToDelete(p, r) ==
  /\ pc[p] = "idle" /\ r \in dirs
  /\ target' = [target EXCEPT ![p] = r]
  /\ Goto(p, IF Permits(Liveness(lock[r], p)) THEN "deleting" ELSE "done")
  /\ UNCHANGED <<dirs, recorded, lock, ending, scan, undo, succeeded>>

\* deleteRun, second half: rmSync, recursive.
Delete(p) ==
  /\ pc[p] = "deleting"
  /\ RemoveDir(target[p])
  /\ Goto(p, "done")
  /\ UNCHANGED <<target, scan, undo, succeeded>>

Stamp(p) ==
  ending' = IF target[p] \in dirs THEN [ending EXCEPT ![target[p]] = p] ELSE ending

\* A signal the stamp listens for: the handler writes, then the process dies.
Signal(p) ==
  /\ pc[p] = "working"
  /\ Stamp(p)
  /\ Goto(p, "signalled")
  /\ UNCHANGED <<dirs, recorded, lock, target, scan, undo, succeeded>>

\* process.exit, or an error nobody caught: the exit listener of the lock, which
\* was there first, releases, and that of the stamp writes.
ExitCalled(p) ==
  /\ pc[p] = "working"
  /\ Goto(p, "exiting")
  /\ UNCHANGED <<dirs, recorded, lock, ending, target, scan, undo, succeeded>>

ExitReread(p) ==
  /\ pc[p] = "exiting"
  /\ Goto(p, IF OwnLock(p) THEN "exit unlinking" ELSE "stamping")
  /\ UNCHANGED <<dirs, recorded, lock, ending, target, scan, undo, succeeded>>

ExitUnlink(p) ==
  /\ pc[p] = "exit unlinking"
  /\ lock' = [lock EXCEPT ![target[p]] = "absent"]
  /\ Goto(p, "stamping")
  /\ UNCHANGED <<dirs, recorded, ending, target, scan, undo, succeeded>>

StampExit(p) ==
  /\ pc[p] = "stamping"
  /\ Stamp(p)
  /\ Goto(p, "exited")
  /\ UNCHANGED <<dirs, recorded, lock, target, scan, undo, succeeded>>

\* SIGKILL, a power cut, or a signal outside the stamp's window: no code runs.
Kill(p) ==
  /\ Alive(p) /\ pc[p] # "idle"
  /\ Goto(p, "killed")
  /\ UNCHANGED <<dirs, recorded, lock, ending, target, scan, undo, succeeded>>

Command(p) ==
  \/ \E r \in Runs : LookAt(p, r) \/ Refuse(p, r) \/ Claim(p, r)
  \/ List(p) \/ ClaimFails(p) \/ ReadLock(p) \/ OpenLock(p) \/ WriteLock(p)
  \/ Start(p) \/ InstallStamp(p) \/ Reread(p) \/ Unlink(p) \/ TakeBack(p) \/ Delete(p)
  \/ ExitReread(p) \/ ExitUnlink(p) \/ StampExit(p)

Next == \E p \in Procs :
  \/ \E r \in Runs : Begin(p, r) \/ AskToDelete(p, r)
  \/ Command(p)
  \/ Finish(p) \/ ExitCalled(p) \/ Signal(p) \/ Kill(p)

Spec == Init /\ [][Next]_vars

-----------------------------------------------------------------------------

\* A record never outlives its directory.
TypeOK ==
  /\ dirs \subseteq Runs /\ recorded \subseteq dirs
  /\ lock \in [Runs -> Locks]
  /\ ending \in [Runs -> {"absent"} \cup Procs]
  /\ pc \in [Procs -> States]
  /\ target \in [Procs -> Runs \cup {"none"}]
  /\ scan \in [Procs -> SUBSET Runs]
  /\ undo \subseteq Procs /\ succeeded \subseteq Procs

\* Processes that drive a run whose lock is still the one they wrote.
Driving(p) == pc[p] \in {"starting", "working"} /\ OwnLock(p)

\* The second look (cli.ts:748-756): two runs that would share the checkout are
\* never both driven under locks of their own, though nothing is serialised.
OneRunPerCheckout ==
  \A p, q \in Procs :
    Driving(p) /\ Driving(q) /\ target[p] # target[q]
      => target[p] \in Worktrees /\ target[q] \in Worktrees

\* "A lock with a dead process [...] means something killed it from outside"
\* (docs/artifacts.md:40): a command that ends by itself, refused or finished,
\* leaves no lock of its own behind, and nobody else ever writes one for it.
ALockMeansLiveOrKilled ==
  \A r \in Runs, p \in Procs :
    lock[r] = p =>
      /\ target[p] = r
      /\ pc[p] \in {"listing again", "looking again", "starting", "working",
                    "releasing", "unlinking", "exiting", "exit unlinking",
                    "killed", "signalled"}

\* What howItEnded says of the dead process a lock names, from the two files, is
\* what became of it: that it was stopped from outside, when there is no stamp
\* ("A lock with a dead process and no ending.json means something killed it from
\* outside", docs/artifacts.md:40), or that it left by itself, when the stamp is
\* its own, however many came before it and whatever they left on disk.  The one
\* exception: a process that goes to work under another's lock takes away the
\* stamp beside it.
EndingsAreTold ==
  \A r \in Runs, p \in Procs \ succeeded :
    lock[r] = p /\ ~Alive(p) =>
      /\ HowItEnded(r) = "killed" => pc[p] = "killed"
      /\ HowItEnded(r) = "itself" => pc[p] \in {"signalled", "exited"}

=============================================================================
