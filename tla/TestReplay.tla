----------------------------- MODULE TestReplay -----------------------------
(***************************************************************************)
(* The replay of edited tests: src/src/test-replay.ts, the call of it from *)
(* reviewPhase (replayEditedTests), the restore a resume makes before      *)
(* anything else, and execute's catch, which decides what of the marker is *)
(* saved.                                                                  *)
(*                                                                         *)
(* A file of the tree is a version: 0 is its earliest committed one, 1 and *)
(* up what the writer or a person made of it, Torn a write cut short.  A   *)
(* marker is a partial function from files to the version to put back.     *)
(* One step is one file operation, so a kill can come between any two.     *)
(***************************************************************************)
EXTENDS Integers, FiniteSets

CONSTANTS
    Files,       \* the test files of the run
    MaxVersion   \* bound: versions a file takes in a behaviour

ASSUME FilesAssumption == IsFiniteSet(Files)
ASSUME VersionAssumption == MaxVersion \in Nat \ {0}

VARIABLES
    tree,    \* what each file of the working tree holds
    backup,  \* <run dir>/test-replay-<round>: named by content, so per version
    mem,     \* state.testReplayInFlight of the process
    disk,    \* the same field of state.json
    pc,      \* where the process is; "off" when none runs
    job,     \* the locals of runReplay and attempt: lost with the process
    rogue,   \* files a gate's process that outlives its pass may still write
    seen     \* what the properties remember; nothing reads it

vars == <<tree, backup, mem, disk, pc, job, rogue, seen>>

Earliest == 0
Torn == -1
Versions == Earliest..MaxVersion
NoMarker == [f \in {} |-> 0]
Nobody == "no file"

ASSUME NobodyAssumption == Nobody \notin Files

NoJob == [ready |-> NoMarker, pass |-> {}, todo |-> {}, at |-> Nobody, queue |-> {},
          batch |-> FALSE, then |-> "none", outcome |-> "none", problem |-> FALSE]

Init ==
    /\ tree = [f \in Files |-> Earliest]
    /\ backup = [f \in Files |-> [v \in Versions |-> "none"]]
    /\ mem = NoMarker /\ disk = NoMarker
    /\ pc = "working"
    /\ job = NoJob
    /\ rogue = {}
    /\ seen = [want |-> [f \in Files |-> Earliest], beside |-> FALSE]

Whole(f, v) == backup[f][v] = "whole"
Swapped == {f \in Files : tree[f] # seen.want[f] /\ tree[f] \in {Earliest, Torn}}

-----------------------------------------------------------------------------
(* The run around the replay.                                              *)

Edited(files) == [f \in Files |-> IF f \in files THEN seen.want[f] + 1 ELSE tree[f]]
Wanted(files) == [f \in Files |-> IF f \in files THEN seen.want[f] + 1 ELSE seen.want[f]]
Room(files) == \A f \in files : seen.want[f] < MaxVersion

\* A turn of the run's agents: it reads the tree and leaves some tests edited.
Turn ==
    /\ pc = "working"
    /\ \E files \in SUBSET Files :
          /\ files # {} /\ Room(files)
          /\ tree' = Edited(files)
          /\ seen' = [seen EXCEPT !.want = Wanted(files)]
    /\ UNCHANGED <<backup, mem, disk, pc, job, rogue>>

\* A person edits tests while no process runs, the ones a marker names too.
PersonEdits ==
    /\ pc = "off"
    /\ \E f \in Files :
          /\ Room({f})
          /\ tree' = Edited({f})
          /\ seen' = [seen EXCEPT !.want = Wanted({f})]
    /\ UNCHANGED <<backup, mem, disk, pc, job, rogue>>

\* A gate's process that vibe has not ended: it may put back what the gate was
\* given, until it ends or somebody stops it.
RogueWrites ==
    /\ \E f \in rogue : tree' = [tree EXCEPT ![f] = Earliest]
    /\ UNCHANGED <<backup, mem, disk, pc, job, rogue, seen>>

RogueStopped ==
    /\ rogue # {}
    /\ rogue' = {}
    /\ UNCHANGED <<tree, backup, mem, disk, pc, job, seen>>

InGates == pc = "swap" /\ job.at = Nobody /\ job.todo = {}

\* A gate runs in a process group of its own, which neither a SIGKILL nor a
\* SIGTERM of vibe reaches: the gate may go on.
Killed ==
    /\ pc # "off"
    /\ pc' = "off"
    /\ mem' = NoMarker
    /\ job' = NoJob
    /\ \/ UNCHANGED rogue
       \/ InGates /\ rogue' = rogue \cup job.pass
    /\ UNCHANGED <<tree, backup, disk, seen>>

\* execute: restoreInFlight before recovery, preflight and the loop.
Resume ==
    /\ pc = "off"
    /\ mem' = disk
    /\ pc' = IF disk = NoMarker THEN "working" ELSE "check"
    /\ job' = [NoJob EXCEPT !.pass = DOMAIN disk, !.then = "resume"]
    /\ seen' = [seen EXCEPT !.beside = @ \/ rogue # {}]
    /\ UNCHANGED <<tree, backup, disk, rogue>>

-----------------------------------------------------------------------------
(* runReplay: back up every head copy, mark, then swap.                    *)

\* classify and cached: any of the edited tests whose verdict is not known.
Candidates == {f \in Files : tree[f] > Earliest}

BeginReplay ==
    /\ pc = "working"
    /\ \E pending \in SUBSET Candidates :
          /\ pending # {}
          /\ job' = [NoJob EXCEPT !.todo = pending, !.then = "replay"]
    /\ pc' = "backup"
    /\ UNCHANGED <<tree, backup, mem, disk, rogue, seen>>

Ready(f) == [job EXCEPT !.at = Nobody, !.todo = @ \ {f},
                        !.ready = [g \in DOMAIN @ \cup {f} |-> IF g = f THEN tree[f] ELSE @[g]]]

\* (wrong: a file of that name is taken for the backup)
AlreadyBackedUpByName(f) ==
    /\ backup[f][tree[f]] # "none"
    /\ job' = Ready(f)
    /\ UNCHANGED backup

\* A backup of that name that holds those bytes is kept.
AlreadyBackedUp(f) ==
    /\ Whole(f, tree[f])
    /\ job' = Ready(f)
    /\ UNCHANGED backup

OpenBackup(f) ==
    /\ ~Whole(f, tree[f])
    /\ backup' = [backup EXCEPT ![f][tree[f]] = "torn"]
    /\ job' = [job EXCEPT !.at = f]

BackUp ==
    /\ pc = "backup" /\ job.at = Nobody
    /\ \E f \in job.todo : AlreadyBackedUp(f) \/ OpenBackup(f)
    /\ UNCHANGED <<tree, mem, disk, pc, rogue, seen>>

BackedUp ==
    /\ pc = "backup" /\ job.at # Nobody
    /\ backup' = [backup EXCEPT ![job.at][tree[job.at]] = "whole"]
    /\ job' = Ready(job.at)
    /\ UNCHANGED <<tree, mem, disk, pc, rogue, seen>>

\* unproven(): git cannot write the earliest version out, the target or its
\* backup cannot be read or written, or does not read back.
NotReplayable ==
    /\ pc = "backup"
    /\ \E f \in IF job.at = Nobody THEN job.todo ELSE {job.at} :
          job' = [job EXCEPT !.at = Nobody, !.todo = @ \ {f}]
    /\ UNCHANGED <<tree, backup, mem, disk, pc, rogue, seen>>

BackupsDone == pc = "backup" /\ job.at = Nobody /\ job.todo = {}

NothingToReplay ==
    /\ BackupsDone /\ job.ready = NoMarker
    /\ pc' = "recording"
    /\ UNCHANGED <<tree, backup, mem, disk, job, rogue, seen>>

Pass(files) == [job EXCEPT !.pass = files, !.todo = files, !.outcome = "none", !.problem = FALSE]

Mark ==
    /\ BackupsDone /\ job.ready # NoMarker
    /\ mem' = job.ready
    /\ disk' = job.ready
    /\ pc' = "swap"
    /\ job' = [Pass(DOMAIN job.ready) EXCEPT !.batch = TRUE]
    /\ UNCHANGED <<tree, backup, rogue, seen>>

\* The save throws with the marker already in memory, and nothing is swapped.
MarkFails ==
    /\ BackupsDone /\ job.ready # NoMarker
    /\ mem' = job.ready
    /\ pc' = "failing"
    /\ UNCHANGED <<tree, backup, disk, job, rogue, seen>>

-----------------------------------------------------------------------------
(* attempt: one pass over a set of files.                                  *)

WriteEarliest ==
    /\ pc = "swap" /\ job.at = Nobody
    /\ \E f \in job.todo :
          /\ tree' = [tree EXCEPT ![f] = Torn]
          /\ job' = [job EXCEPT !.at = f]
    /\ UNCHANGED <<backup, mem, disk, pc, rogue, seen>>

EarliestWritten ==
    /\ pc = "swap" /\ job.at # Nobody
    /\ tree' = [tree EXCEPT ![job.at] = Earliest]
    /\ job' = [job EXCEPT !.at = Nobody, !.todo = @ \ {job.at}]
    /\ UNCHANGED <<backup, mem, disk, pc, rogue, seen>>

ToRestore(outcome) ==
    /\ pc' = "check"
    /\ job' = [job EXCEPT !.at = Nobody, !.todo = {}, !.outcome = outcome]

\* A write that fails, bytes that do not read back or hash back: no gate runs.
CannotSwap ==
    /\ pc = "swap"
    /\ ToRestore("unproven")
    /\ UNCHANGED <<tree, backup, mem, disk, rogue, seen>>

GatesRun ==
    /\ InGates
    /\ \E outcome \in {"preserved", "earlier-fails", "unproven"} : ToRestore(outcome)
    /\ UNCHANGED <<tree, backup, mem, disk, rogue, seen>>

\* ReplayGateEscapedError: the head copies go back first, as for any outcome.
GateEscapes ==
    /\ InGates
    /\ ToRestore("escaped")
    /\ rogue' = rogue \cup job.pass
    /\ UNCHANGED <<tree, backup, mem, disk, seen>>

-----------------------------------------------------------------------------
(* restoreFiles: every backup is checked before the first write.           *)

Checked ==
    /\ pc = "check"
    /\ LET good == \A f \in job.pass : Whole(f, mem[f])
       IN  /\ pc' = IF good THEN "restore" ELSE "failing"
           /\ job' = [job EXCEPT !.todo = job.pass]
    /\ UNCHANGED <<tree, backup, mem, disk, rogue, seen>>

AlreadyHead ==
    /\ pc = "restore" /\ job.at = Nobody
    /\ \E f \in job.todo :
          /\ tree[f] = mem[f]
          /\ job' = [job EXCEPT !.todo = @ \ {f}]
    /\ UNCHANGED <<tree, backup, mem, disk, pc, rogue, seen>>

WriteHead ==
    /\ pc = "restore" /\ job.at = Nobody
    /\ \E f \in job.todo :
          /\ tree[f] # mem[f]
          /\ tree' = [tree EXCEPT ![f] = Torn]
          /\ job' = [job EXCEPT !.at = f]
    /\ UNCHANGED <<backup, mem, disk, pc, rogue, seen>>

HeadWritten ==
    /\ pc = "restore" /\ job.at # Nobody
    /\ tree' = [tree EXCEPT ![job.at] = mem[job.at]]
    /\ job' = [job EXCEPT !.at = Nobody, !.todo = @ \ {job.at}]
    /\ UNCHANGED <<backup, mem, disk, pc, rogue, seen>>

\* The file cannot be written back, or does not read back: the rest still is.
CannotRestore ==
    /\ pc = "restore"
    /\ \E f \in IF job.at = Nobody THEN job.todo ELSE {job.at} :
          job' = [job EXCEPT !.at = Nobody, !.todo = @ \ {f}, !.problem = TRUE]
    /\ UNCHANGED <<tree, backup, mem, disk, pc, rogue, seen>>

\* (wrong: the head copies are back, so an escaped gate is like any outcome)
KeepMarkerNot == job.problem
\* (wrong: a file that could not be put back is only reported)
KeepMarkerIfEscaped == job.outcome = "escaped"
\* ReplayRestoreError and ReplayGateEscapedError leave the marker where it is.
KeepMarker == job.problem \/ job.outcome = "escaped"

RestoreDone == pc = "restore" /\ job.at = Nobody /\ job.todo = {}

RestoreStops ==
    /\ RestoreDone /\ KeepMarker
    /\ pc' = "failing"
    /\ UNCHANGED <<tree, backup, mem, disk, job, rogue, seen>>

\* The batch did not pass and holds more than one file: a pass for each.
OneByOne == job.batch /\ job.outcome # "preserved" /\ Cardinality(DOMAIN job.ready) > 1

NextPass(queue) ==
    \E f \in queue :
        /\ pc' = "swap"
        /\ job' = [Pass({f}) EXCEPT !.batch = FALSE, !.queue = queue \ {f}]

\* (wrong: a pass that ends puts its file back in line)
PassEndsAgain ==
    /\ RestoreDone /\ ~KeepMarker /\ job.then = "replay"
    /\ IF OneByOne THEN NextPass(DOMAIN job.ready)
       ELSE IF job.batch THEN pc' = "clear" /\ UNCHANGED job
       ELSE NextPass(job.queue \cup job.pass)
    /\ UNCHANGED <<tree, backup, mem, disk, rogue, seen>>

PassEnds ==
    /\ RestoreDone /\ ~KeepMarker /\ job.then = "replay"
    /\ IF OneByOne THEN NextPass(DOMAIN job.ready)
       ELSE IF job.queue # {} THEN NextPass(job.queue)
       ELSE pc' = "clear" /\ UNCHANGED job
    /\ UNCHANGED <<tree, backup, mem, disk, rogue, seen>>

ResumeRestored ==
    /\ RestoreDone /\ ~KeepMarker /\ job.then = "resume"
    /\ pc' = "clear"
    /\ UNCHANGED <<tree, backup, mem, disk, job, rogue, seen>>

\* delete state.testReplayInFlight; saveState(state).
Clear ==
    /\ pc = "clear"
    /\ mem' = NoMarker
    /\ disk' = NoMarker
    /\ pc' = IF job.then = "resume" THEN "working" ELSE "recording"
    /\ job' = NoJob
    /\ UNCHANGED <<tree, backup, rogue, seen>>

ClearFails ==
    /\ pc = "clear"
    /\ mem' = NoMarker
    /\ pc' = "failing"
    /\ UNCHANGED <<tree, backup, disk, job, rogue, seen>>

\* The record and the cache of verdicts, on one save.
Record ==
    /\ pc = "recording"
    /\ pc' \in {"working", "failing"}
    /\ job' = NoJob
    /\ UNCHANGED <<tree, backup, mem, disk, rogue, seen>>

\* execute's catch: status "error" and an event, saved with whatever marker
\* memory holds, unless that save fails too.
Fails ==
    /\ pc = "failing"
    /\ disk' \in {mem, disk}
    /\ pc' = "off"
    /\ mem' = NoMarker
    /\ job' = NoJob
    /\ UNCHANGED <<tree, backup, rogue, seen>>

-----------------------------------------------------------------------------
Replay ==
    \/ BackUp \/ BackedUp \/ NotReplayable \/ NothingToReplay \/ Mark \/ MarkFails
    \/ WriteEarliest \/ EarliestWritten \/ CannotSwap \/ GatesRun \/ GateEscapes
    \/ Checked \/ AlreadyHead \/ WriteHead \/ HeadWritten \/ CannotRestore
    \/ RestoreStops \/ PassEnds \/ ResumeRestored \/ Clear \/ ClearFails \/ Record \/ Fails

Next ==
    \/ Turn \/ BeginReplay \/ Replay
    \/ Killed \/ Resume \/ PersonEdits \/ RogueWrites \/ RogueStopped

Spec == Init /\ [][Next]_vars

\* A live process does its next file operation; a gate has a timeout, and a
\* process nobody stops may keep writing for ever.
FairSpec == Spec /\ WF_vars(Replay)

-----------------------------------------------------------------------------
(* Properties.                                                             *)

Markers == UNION {[files -> Versions] : files \in SUBSET Files}

Job ==
    [ready : Markers, pass : SUBSET Files, todo : SUBSET Files, at : Files \cup {Nobody},
     queue : SUBSET Files, batch : BOOLEAN, then : {"none", "resume", "replay"},
     outcome : {"none", "preserved", "earlier-fails", "unproven", "escaped"}, problem : BOOLEAN]

Pcs == {"off", "working", "backup", "swap", "check", "restore", "clear", "recording", "failing"}

\* Where the run goes on, and may write a checkpoint, memory holds no marker:
\* writeCheckpoint refuses one with it and calls that a defect.
TypeOK ==
    /\ pc \in {"off", "working", "backup", "recording"} => mem = NoMarker
    /\ tree \in [Files -> {Torn} \cup Versions]
    /\ backup \in [Files -> [Versions -> {"none", "torn", "whole"}]]
    /\ mem \in Markers /\ disk \in Markers
    /\ pc \in Pcs
    /\ job \in Job
    /\ rogue \subseteq Files
    /\ seen \in [want : [Files -> Versions], beside : BOOLEAN]

\* No turn of the run starts on a tree that holds an earliest version or half of
\* a write: a resume restores first, and a replay that cannot put a file back
\* ends the run (restoreInFlight, ReplayRestoreError).  The exception is a run
\* resumed beside a gate's process: an escaped one, which the person was told to
\* stop first, or one that outlived a kill of vibe, of which nobody is told; it
\* may write the earlier versions back over what the resume restored.
NoTurnReadsSwapped == pc = "working" /\ ~seen.beside => Swapped = {}

\* A resume never refuses for want of a backup: every file the saved marker
\* names has its head copy whole (backups are written and read back before the
\* marker, and one of that name is trusted only if its bytes hash to it).
RestoreIsPossible == \A f \in DOMAIN disk : Whole(f, disk[f])

\* The tests a person has edited since the marker that names them was saved.
EditedSince == {f \in DOMAIN disk : tree[f] > disk[f]}

\* A replay is invisible: whatever is killed or fails, what counts as a test's
\* head only moves to a newer version, and never to one swapped in.  The
\* exceptions are HeadTests' own: what a person wrote to a test after a replay
\* was cut off, the resume's restore overwrites with the version backed up
\* (restoreFiles compares with the backup, and asks nobody); and a run resumed
\* beside a gate's process promises nothing.
HeadOf(f) == IF f \in DOMAIN disk \ EditedSince THEN disk[f] ELSE tree[f]
Heads == INSTANCE HeadTests WITH head <- [f \in Files |-> HeadOf(f)],
                                 behind <- [f \in EditedSince |-> disk[f]],
                                 stray <- seen.beside
ReplayIsInvisible == Heads!Spec

\* A replay ends: the batch, then one pass for each file at most.
ReplayEnds == []<>(pc \in {"off", "working"})
=============================================================================
