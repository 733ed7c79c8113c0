------------------------- MODULE TestReplay_proofs -------------------------
(***************************************************************************)
(* Proofs about TestReplay, for every set of files and every bound on      *)
(* their versions.  The inductive invariant says where memory and disk may *)
(* disagree about the marker, that what a marker names is backed up, that  *)
(* what is torn is marked, and which of the marked files may differ from   *)
(* their marker at each step of a pass.                                    *)
(***************************************************************************)
EXTENDS TestReplay, FiniteSetTheorems, TLAPS

Passing == pc \in {"swap", "check", "restore"}

\* Where memory and state.json agree about the marker, and what a pass is for.
MarkersAgree ==
    /\ pc \in {"working", "backup", "recording"} => disk = NoMarker
    /\ Passing \/ pc = "clear" => mem = disk /\ job.then \in {"replay", "resume"}
    /\ pc = "failing" => mem = disk \/ disk = NoMarker \/ mem = NoMarker
    /\ pc \in {"backup", "swap"} => job.then = "replay"
    /\ Passing /\ job.then = "replay" => job.ready = mem
    /\ Passing /\ job.then = "resume" => job.pass = DOMAIN mem

\* A pass is over files the marker names.
PassesAreMarked ==
    /\ Passing =>
          /\ job.pass \subseteq DOMAIN mem /\ job.queue \subseteq DOMAIN mem
          /\ job.todo \subseteq job.pass /\ job.at \in job.pass \cup {Nobody}
    /\ pc \in {"swap", "check"} => ~job.problem
    /\ pc = "check" => job.at = Nobody
    /\ pc = "backup" => job.queue = {}
    /\ pc = "swap" => job.outcome = "none"

\* Every backup a marker names, or is about to, is whole.
BackedUpWhole ==
    \A m \in {mem, disk, job.ready} : \A f \in DOMAIN m : Whole(f, m[f])

\* What a step of the replay has still to put back: the whole pass until the
\* restore, then what is left of it, unless the restore has given up on a file.
Due == IF pc \in {"swap", "check"} \/ KeepMarker THEN job.pass ELSE job.todo \cup {job.at}

\* A torn file is one the saved marker names, and one still due.
TornFiles == {f \in Files : tree[f] = Torn}
TornIsMarked ==
    /\ TornFiles \subseteq DOMAIN disk
    /\ Passing => TornFiles \subseteq Due
    /\ pc = "clear" => TornFiles = {}
    /\ pc = "failing" => mem = disk \/ TornFiles = {}

\* The files that do not hold what a marker names for them.
Away(m) == {f \in DOMAIN m : tree[f] # m[f]}

\* A gate that escaped, or outlived a kill, writes only what the saved marker names.
RogueIsMarked ==
    rogue # {} =>
        /\ pc \in {"check", "restore", "failing", "off"} /\ rogue \subseteq DOMAIN disk
        /\ pc \in {"check", "restore"} => job.outcome = "escaped" /\ rogue \subseteq job.pass
        /\ pc = "failing" => mem = disk

\* A marker names a version that was written, and no newer one than the last.
MarkersAreHeads ==
    /\ \A f \in Files : tree[f] <= seen.want[f]
    /\ \A m \in {mem, disk, job.ready} :
          \A f \in DOMAIN m : m[f] > Earliest /\ m[f] <= seen.want[f]
    /\ pc = "backup" =>
          /\ \A f \in job.todo \cup ({job.at} \cap Files) : tree[f] > Earliest
          /\ Away(job.ready) = {}

\* What a marker names is in the tree, but for what is due.
AwayIsDue ==
    /\ Passing => Away(mem) \subseteq Due
    /\ pc = "clear" => Away(mem) = {}
    /\ pc = "failing" => mem = disk \/ (Away(mem) = {} /\ Away(disk) = {})
    /\ Swapped \subseteq DOMAIN disk

Attended == ~seen.beside => RogueIsMarked /\ MarkersAreHeads /\ AwayIsDue

IInv ==
    /\ TypeOK
    /\ MarkersAgree /\ PassesAreMarked /\ BackedUpWhole /\ TornIsMarked
    /\ Attended

\* A marker is a partial function from files to versions, and stays one with a
\* file more.
LEMMA MarkerTypes ==
    /\ NoMarker \in Markers /\ DOMAIN NoMarker = {}
    /\ \A m \in Markers : DOMAIN m \subseteq Files /\ \A f \in DOMAIN m : m[f] \in Versions
    /\ \A m \in Markers, f \in Files, v \in Versions :
          [g \in DOMAIN m \cup {f} |-> IF g = f THEN v ELSE m[g]] \in Markers
<1>1. NoMarker \in Markers /\ DOMAIN NoMarker = {}
    <2>1. NoMarker \in [{} -> Versions] BY DEF NoMarker
    <2> QED BY <2>1 DEF Markers, NoMarker
<1>2. \A m \in Markers : \E files \in SUBSET Files : m \in [files -> Versions]
    BY DEF Markers
<1>3. ASSUME NEW m \in Markers, NEW f \in Files, NEW v \in Versions
      PROVE  [g \in DOMAIN m \cup {f} |-> IF g = f THEN v ELSE m[g]] \in Markers
    <2>1. PICK files \in SUBSET Files : m \in [files -> Versions] BY <1>2
    <2>2. files \cup {f} \in SUBSET Files BY <2>1
    <2>3. [g \in DOMAIN m \cup {f} |-> IF g = f THEN v ELSE m[g]] \in [files \cup {f} -> Versions]
        BY <2>1
    <2> QED BY <2>2, <2>3 DEF Markers
<1> QED BY <1>1, <1>2, <1>3

\* The locals once a file is backed up.
LEMMA ReadyIs ==
    ASSUME job \in Job, NEW f \in Files, tree[f] \in Versions
    PROVE  /\ Ready(f) \in Job
           /\ Ready(f).at = Nobody /\ Ready(f).todo = job.todo \ {f}
           /\ DOMAIN Ready(f).ready = DOMAIN job.ready \cup {f}
           /\ \A g \in DOMAIN Ready(f).ready :
                 Ready(f).ready[g] = IF g = f THEN tree[f] ELSE job.ready[g]
           /\ Ready(f).then = job.then /\ Ready(f).pass = job.pass /\ Ready(f).queue = job.queue
           /\ Ready(f).outcome = job.outcome /\ Ready(f).problem = job.problem
<1> DEFINE m == [g \in DOMAIN job.ready \cup {f} |-> IF g = f THEN tree[f] ELSE job.ready[g]]
<1>1. m \in Markers
    <2>1. job.ready \in Markers BY DEF Job
    <2> QED BY <2>1, MarkerTypes
<1>2. /\ DOMAIN m = DOMAIN job.ready \cup {f}
      /\ \A g \in DOMAIN m : m[g] = IF g = f THEN tree[f] ELSE job.ready[g]
    OBVIOUS
<1>3. Ready(f) = [job EXCEPT !.at = Nobody, !.todo = @ \ {f}, !.ready = m] BY DEF Ready, Job
<1> HIDE DEF m
<1>4. Ready(f) \in Job BY <1>1, <1>3 DEF Job
<1> QED BY <1>2, <1>3, <1>4 DEF Job

\* What is done to the locals keeps their type.
LEMMA JobKeepsType ==
    ASSUME job \in Job
    PROVE  /\ NoJob \in Job
           /\ \A files \in SUBSET Files :
                 /\ [NoJob EXCEPT !.pass = files, !.then = "resume"] \in Job
                 /\ [NoJob EXCEPT !.todo = files, !.then = "replay"] \in Job
                 /\ [job EXCEPT !.todo = files] \in Job
                 /\ [Pass(files) EXCEPT !.batch = TRUE] \in Job
                 /\ \A queue \in SUBSET Files :
                       [Pass(files) EXCEPT !.batch = FALSE, !.queue = queue] \in Job
                 /\ [job EXCEPT !.at = Nobody, !.todo = files] \in Job
                 /\ [job EXCEPT !.at = Nobody, !.todo = files, !.problem = TRUE] \in Job
           /\ \A f \in Files : [job EXCEPT !.at = f] \in Job
           /\ \A outcome \in {"preserved", "earlier-fails", "unproven", "escaped"} :
                 [job EXCEPT !.at = Nobody, !.todo = {}, !.outcome = outcome] \in Job
<1>1. NoJob \in Job
      /\ \A files \in SUBSET Files :
            /\ [NoJob EXCEPT !.pass = files, !.then = "resume"] \in Job
            /\ [NoJob EXCEPT !.todo = files, !.then = "replay"] \in Job
    BY MarkerTypes DEF NoJob, Job
<1>2. \A files \in SUBSET Files :
         /\ [Pass(files) EXCEPT !.batch = TRUE] \in Job
         /\ \A queue \in SUBSET Files :
               [Pass(files) EXCEPT !.batch = FALSE, !.queue = queue] \in Job
    BY DEF Pass, Job
<1>3. \A files \in SUBSET Files :
         /\ [job EXCEPT !.todo = files] \in Job
         /\ [job EXCEPT !.at = Nobody, !.todo = files] \in Job
         /\ [job EXCEPT !.at = Nobody, !.todo = files, !.problem = TRUE] \in Job
    BY DEF Job
<1>4. /\ \A f \in Files : [job EXCEPT !.at = f] \in Job
      /\ \A outcome \in {"preserved", "earlier-fails", "unproven", "escaped"} :
            [job EXCEPT !.at = Nobody, !.todo = {}, !.outcome = outcome] \in Job
    BY DEF Job
<1> QED BY <1>1, <1>2, <1>3, <1>4

\* The locals keep their type.
LEMMA StepJob ==
    ASSUME TypeOK, MarkersAgree, TornIsMarked, [Next]_vars
    PROVE  job' \in Job
<1>0. /\ job \in Job /\ disk \in Markers
      /\ pc = "backup" => \A f \in Files : tree[f] \in Versions
    BY MarkerTypes DEF TypeOK, MarkersAgree, TornIsMarked, TornFiles, Torn
<1> USE <1>0
<1> USE NobodyAssumption
<1>1. CASE Turn BY <1>1 DEF Turn, Edited, Wanted, Room
<1>2. CASE PersonEdits BY <1>2 DEF PersonEdits, Edited, Wanted, Room
<1>3. CASE RogueWrites BY <1>3 DEF RogueWrites
<1>4. CASE RogueStopped BY <1>4 DEF RogueStopped
<1>5. CASE Killed BY <1>5, JobKeepsType DEF Killed, InGates
<1>6. CASE Resume
    <2>1. DOMAIN disk \in SUBSET Files BY MarkerTypes
    <2> QED BY <1>6, <2>1, JobKeepsType DEF Resume
<1>7. CASE BeginReplay
    <2>1. PICK pending \in SUBSET Candidates :
             job' = [NoJob EXCEPT !.todo = pending, !.then = "replay"]
        BY <1>7 DEF BeginReplay
    <2>2. pending \in SUBSET Files BY DEF Candidates
    <2> QED BY <2>1, <2>2, JobKeepsType
<1>8. CASE BackUp
    <2>1. PICK f \in job.todo : AlreadyBackedUp(f) \/ OpenBackup(f) BY <1>8 DEF BackUp
    <2>2. f \in Files BY DEF Job
    <2>3. tree[f] \in Versions BY <1>8, <2>2 DEF BackUp
    <2> QED BY <2>1, <2>2, <2>3, ReadyIs, JobKeepsType DEF AlreadyBackedUp, OpenBackup
<1>9. CASE BackedUp
    <2>1. job.at \in Files /\ tree[job.at] \in Versions BY <1>9 DEF BackedUp, Job
    <2> QED BY <1>9, <2>1, ReadyIs DEF BackedUp
<1>10. CASE NotReplayable
    <2>1. job.todo \in SUBSET Files /\ job.at \in Files \cup {Nobody} BY DEF Job
    <2>3. PICK f : job' = [job EXCEPT !.at = Nobody, !.todo = job.todo \ {f}]
        BY <1>10 DEF NotReplayable, Job
    <2>4. job.todo \ {f} \in SUBSET Files BY <2>1
    <2> QED BY <2>3, <2>4, JobKeepsType
<1>11. CASE NothingToReplay BY <1>11 DEF NothingToReplay, BackupsDone
<1>12. CASE Mark
    <2>1. DOMAIN job.ready \in SUBSET Files BY MarkerTypes DEF Job
    <2> QED BY <1>12, <2>1, JobKeepsType DEF Mark
<1>13. CASE MarkFails BY <1>13 DEF MarkFails, BackupsDone
<1>14. CASE WriteEarliest
    <2>1. job.todo \subseteq Files BY DEF Job
    <2> QED BY <1>14, <2>1, JobKeepsType DEF WriteEarliest
<1>15. CASE EarliestWritten
    <2>1. job' = [job EXCEPT !.at = Nobody, !.todo = job.todo \ {job.at}]
        BY <1>15 DEF EarliestWritten, Job
    <2>2. job.todo \ {job.at} \in SUBSET Files BY DEF Job
    <2> QED BY <2>1, <2>2, JobKeepsType
<1>16. CASE CannotSwap BY <1>16, JobKeepsType DEF CannotSwap, ToRestore
<1>17. CASE GatesRun BY <1>17, JobKeepsType DEF GatesRun, InGates, ToRestore
<1>18. CASE GateEscapes BY <1>18, JobKeepsType DEF GateEscapes, InGates, ToRestore
<1>19. CASE Checked
    <2>1. job' = [job EXCEPT !.todo = job.pass] /\ job.pass \in SUBSET Files
        BY <1>19 DEF Checked, Job
    <2> QED BY <2>1, JobKeepsType
<1>20. CASE AlreadyHead
    <2>1. PICK f : job' = [job EXCEPT !.todo = job.todo \ {f}] BY <1>20 DEF AlreadyHead, Job
    <2>2. job.todo \ {f} \in SUBSET Files BY DEF Job
    <2> QED BY <2>1, <2>2, JobKeepsType
<1>21. CASE WriteHead
    <2>1. job.todo \subseteq Files BY DEF Job
    <2> QED BY <1>21, <2>1, JobKeepsType DEF WriteHead
<1>22. CASE HeadWritten
    <2>1. job' = [job EXCEPT !.at = Nobody, !.todo = job.todo \ {job.at}]
        BY <1>22 DEF HeadWritten, Job
    <2>2. job.todo \ {job.at} \in SUBSET Files BY DEF Job
    <2> QED BY <2>1, <2>2, JobKeepsType
<1>23. CASE CannotRestore
    <2>1. job.todo \in SUBSET Files /\ job.at \in Files \cup {Nobody} BY DEF Job
    <2>3. PICK f : job' = [job EXCEPT !.at = Nobody, !.todo = job.todo \ {f}, !.problem = TRUE]
        BY <1>23 DEF CannotRestore, Job
    <2>4. job.todo \ {f} \in SUBSET Files BY <2>1
    <2> QED BY <2>3, <2>4, JobKeepsType
<1>24. CASE RestoreStops BY <1>24 DEF RestoreStops, RestoreDone
<1>25. CASE PassEnds
    <2>1. DOMAIN job.ready \in SUBSET Files /\ job.queue \in SUBSET Files
        BY MarkerTypes DEF Job
    <2>2. ASSUME NEW queue \in SUBSET Files, NextPass(queue) PROVE job' \in Job
        <3>1. PICK f \in queue : job' = [Pass({f}) EXCEPT !.batch = FALSE, !.queue = queue \ {f}]
            BY <2>2 DEF NextPass
        <3>2. {f} \in SUBSET Files /\ queue \ {f} \in SUBSET Files OBVIOUS
        <3> QED BY <3>1, <3>2, JobKeepsType
    <2> QED BY <1>25, <2>1, <2>2 DEF PassEnds
<1>26. CASE ResumeRestored BY <1>26 DEF ResumeRestored, RestoreDone
<1>27. CASE Clear BY <1>27, JobKeepsType DEF Clear
<1>28. CASE ClearFails BY <1>28 DEF ClearFails
<1>29. CASE Record BY <1>29, JobKeepsType DEF Record
<1>30. CASE Fails BY <1>30, JobKeepsType DEF Fails
<1>31. CASE UNCHANGED vars BY <1>31 DEF vars
<1> QED BY <1>1, <1>2, <1>3, <1>4, <1>5, <1>6, <1>7, <1>8, <1>9, <1>10, <1>11, <1>12, <1>13,
         <1>14, <1>15, <1>16, <1>17, <1>18, <1>19, <1>20, <1>21, <1>22, <1>23, <1>24, <1>25,
         <1>26, <1>27, <1>28, <1>29, <1>30, <1>31 DEF Next, Replay

\* Edits keep the types of what is in the tree and what is wanted there.
LEMMA EditsKeepType ==
    ASSUME TypeOK, NEW files \in SUBSET Files, Room(files)
    PROVE  /\ Edited(files) \in [Files -> {Torn} \cup Versions]
           /\ [seen EXCEPT !.want = Wanted(files)]
                 \in [want : [Files -> Versions], beside : BOOLEAN]
           /\ \A f \in Files :
                 /\ Edited(files)[f] = IF f \in files THEN seen.want[f] + 1 ELSE tree[f]
                 /\ Wanted(files)[f] = IF f \in files THEN seen.want[f] + 1 ELSE seen.want[f]
                 /\ f \in files => seen.want[f] + 1 \in Versions
<1>1. \A f \in Files : seen.want[f] \in Versions BY DEF TypeOK
<1>2. \A f \in files : seen.want[f] + 1 \in Versions
    BY <1>1, VersionAssumption DEF Room, Versions, Earliest
<1>3. Edited(files) \in [Files -> {Torn} \cup Versions] BY <1>2 DEF TypeOK, Edited
<1>4. Wanted(files) \in [Files -> Versions] BY <1>1, <1>2 DEF Wanted
<1> QED BY <1>2, <1>3, <1>4 DEF TypeOK, Edited, Wanted

\* Types are kept by every step.
LEMMA StepType ==
    ASSUME TypeOK, MarkersAgree, PassesAreMarked, TornIsMarked, [Next]_vars
    PROVE  TypeOK'
<1>0. /\ pc = "backup" => \A f \in Files : tree[f] \in Versions
      /\ Torn \in {Torn} \cup Versions /\ Earliest \in {Torn} \cup Versions
      /\ job.ready \in Markers /\ job.pass \subseteq Files /\ job.todo \subseteq Files
      /\ job.at \in Files \cup {Nobody}
    BY MarkerTypes, VersionAssumption
    DEF TypeOK, MarkersAgree, TornIsMarked, TornFiles, Torn, Job, Versions, Earliest
<1> USE <1>0, MarkerTypes, NobodyAssumption, StepJob DEF TypeOK, MarkersAgree, Pcs
<1>1. CASE Turn
    <2>1. PICK files \in SUBSET Files :
             Room(files) /\ tree' = Edited(files) /\ seen' = [seen EXCEPT !.want = Wanted(files)]
        BY <1>1 DEF Turn
    <2> QED BY <1>1, <2>1, EditsKeepType DEF Turn
<1>2. CASE PersonEdits
    <2>1. PICK f \in Files :
             Room({f}) /\ tree' = Edited({f}) /\ seen' = [seen EXCEPT !.want = Wanted({f})]
        BY <1>2 DEF PersonEdits
    <2>2. {f} \in SUBSET Files OBVIOUS
    <2> QED BY <1>2, <2>1, <2>2, EditsKeepType DEF PersonEdits
<1>3. CASE RogueWrites BY <1>3 DEF RogueWrites
<1>4. CASE RogueStopped BY <1>4 DEF RogueStopped
<1>5. CASE Killed BY <1>5 DEF Killed, InGates, NoJob
<1>6. CASE Resume BY <1>6 DEF Resume, NoJob
<1>7. CASE BeginReplay BY <1>7 DEF BeginReplay, NoJob, Candidates
<1>8. CASE BackUp BY <1>8 DEF BackUp, AlreadyBackedUp, OpenBackup
<1>9. CASE BackedUp BY <1>9 DEF BackedUp
<1>10. CASE NotReplayable BY <1>10 DEF NotReplayable
<1>11. CASE NothingToReplay BY <1>11 DEF NothingToReplay, BackupsDone
<1>12. CASE Mark BY <1>12 DEF Mark, BackupsDone, Pass
<1>13. CASE MarkFails BY <1>13 DEF MarkFails, BackupsDone
<1>14. CASE WriteEarliest BY <1>14 DEF WriteEarliest
<1>15. CASE EarliestWritten BY <1>15 DEF EarliestWritten
<1>16. CASE CannotSwap BY <1>16 DEF CannotSwap, ToRestore
<1>17. CASE GatesRun BY <1>17 DEF GatesRun, InGates, ToRestore
<1>18. CASE GateEscapes BY <1>18 DEF GateEscapes, InGates, ToRestore
<1>19. CASE Checked BY <1>19 DEF Checked
<1>20. CASE AlreadyHead BY <1>20 DEF AlreadyHead
<1>21. CASE WriteHead BY <1>21 DEF WriteHead
<1>22. CASE HeadWritten
    <2>1. mem[job.at] \in Versions BY <1>22 DEF HeadWritten, PassesAreMarked, Passing
    <2> QED BY <1>22, <2>1 DEF HeadWritten
<1>23. CASE CannotRestore BY <1>23 DEF CannotRestore
<1>24. CASE RestoreStops BY <1>24 DEF RestoreStops, RestoreDone
<1>25. CASE PassEnds BY <1>25 DEF PassEnds, NextPass, Pass, RestoreDone
<1>26. CASE ResumeRestored BY <1>26 DEF ResumeRestored, RestoreDone
<1>27. CASE Clear BY <1>27 DEF Clear, NoJob
<1>28. CASE ClearFails BY <1>28 DEF ClearFails
<1>29. CASE Record BY <1>29 DEF Record, NoJob
<1>30. CASE Fails BY <1>30 DEF Fails, NoJob
<1>31. CASE UNCHANGED vars BY <1>31 DEF vars
<1> QED BY <1>1, <1>2, <1>3, <1>4, <1>5, <1>6, <1>7, <1>8, <1>9, <1>10, <1>11, <1>12, <1>13,
         <1>14, <1>15, <1>16, <1>17, <1>18, <1>19, <1>20, <1>21, <1>22, <1>23, <1>24, <1>25,
         <1>26, <1>27, <1>28, <1>29, <1>30, <1>31 DEF Next, Replay

\* Memory and state.json agree where they must, and passes stay within the marker.
LEMMA StepAgree ==
    ASSUME TypeOK, MarkersAgree, PassesAreMarked, [Next]_vars
    PROVE  (MarkersAgree /\ PassesAreMarked)'
<1> USE MarkerTypes, NobodyAssumption DEF TypeOK, Job, MarkersAgree, PassesAreMarked, Passing
<1>1. CASE Turn BY <1>1 DEF Turn, Edited, Wanted, Room
<1>2. CASE PersonEdits BY <1>2 DEF PersonEdits, Edited, Wanted, Room
<1>3. CASE RogueWrites BY <1>3 DEF RogueWrites
<1>4. CASE RogueStopped BY <1>4 DEF RogueStopped
<1>5. CASE Killed BY <1>5 DEF Killed, InGates, NoJob
<1>6. CASE Resume BY <1>6 DEF Resume, NoJob
<1>7. CASE BeginReplay BY <1>7 DEF BeginReplay, NoJob, Candidates
<1>8. CASE BackUp
    <2>1. PICK f \in job.todo : AlreadyBackedUp(f) \/ OpenBackup(f) BY <1>8 DEF BackUp
    <2>2. pc = "backup" /\ UNCHANGED <<mem, disk, pc>> BY <1>8 DEF BackUp
    <2>3. job'.then = job.then /\ job'.queue = job.queue
        BY <2>1 DEF AlreadyBackedUp, OpenBackup, Ready
    <2> QED BY <2>2, <2>3
<1>9. CASE BackedUp
    <2>1. pc = "backup" /\ UNCHANGED <<mem, disk, pc>> /\ job'.then = job.then
          /\ job'.queue = job.queue
        BY <1>9 DEF BackedUp, Ready
    <2> QED BY <2>1
<1>10. CASE NotReplayable BY <1>10 DEF NotReplayable
<1>11. CASE NothingToReplay BY <1>11 DEF NothingToReplay, BackupsDone
<1>12. CASE Mark
    <2>1. /\ mem' = job.ready /\ disk' = job.ready /\ pc' = "swap" /\ job.then = "replay"
          /\ job' = [Pass(DOMAIN job.ready) EXCEPT !.batch = TRUE]
          /\ job.at = Nobody /\ job.queue \subseteq DOMAIN job.ready
        BY <1>12 DEF Mark, BackupsDone
    <2>2. /\ job'.then = job.then /\ job'.ready = job.ready /\ job'.at = job.at
          /\ job'.queue = job.queue /\ job'.pass = DOMAIN job.ready /\ job'.todo = job'.pass
          /\ job'.outcome = "none" /\ ~job'.problem
        BY <2>1 DEF Pass
    <2> QED BY <2>1, <2>2
<1>13. CASE MarkFails BY <1>13 DEF MarkFails, BackupsDone
<1>14. CASE WriteEarliest BY <1>14 DEF WriteEarliest
<1>15. CASE EarliestWritten BY <1>15 DEF EarliestWritten
<1>16. CASE CannotSwap BY <1>16 DEF CannotSwap, ToRestore
<1>17. CASE GatesRun BY <1>17 DEF GatesRun, InGates, ToRestore
<1>18. CASE GateEscapes BY <1>18 DEF GateEscapes, InGates, ToRestore
<1>19. CASE Checked BY <1>19 DEF Checked
<1>20. CASE AlreadyHead BY <1>20 DEF AlreadyHead
<1>21. CASE WriteHead BY <1>21 DEF WriteHead
<1>22. CASE HeadWritten BY <1>22 DEF HeadWritten
<1>23. CASE CannotRestore BY <1>23 DEF CannotRestore
<1>24. CASE RestoreStops BY <1>24 DEF RestoreStops, RestoreDone
<1>25. CASE PassEnds
    <2>1. /\ job.then = "replay" /\ pc = "restore" /\ job.at = Nobody /\ job.ready = mem
          /\ UNCHANGED <<mem, disk>>
        BY <1>25 DEF PassEnds, RestoreDone
    <2>2. ASSUME NEW queue, queue \subseteq DOMAIN mem, NextPass(queue)
          PROVE  (MarkersAgree /\ PassesAreMarked)'
        <3>1. PICK f \in queue : /\ pc' = "swap"
                                /\ job' = [Pass({f}) EXCEPT !.batch = FALSE, !.queue = queue \ {f}]
            BY <2>2 DEF NextPass
        <3>2. /\ job'.then = job.then /\ job'.ready = job.ready /\ job'.at = job.at
              /\ job'.queue = queue \ {f} /\ job'.pass = {f} /\ job'.todo = {f}
              /\ job'.outcome = "none" /\ ~job'.problem
            BY <3>1 DEF Pass
        <3> QED BY <2>1, <2>2, <3>1, <3>2
    <2>3. CASE pc' = "clear" /\ UNCHANGED job BY <2>1, <2>3
    <2> QED BY <1>25, <2>1, <2>2, <2>3 DEF PassEnds
<1>26. CASE ResumeRestored BY <1>26 DEF ResumeRestored, RestoreDone
<1>27. CASE Clear BY <1>27 DEF Clear, NoJob
<1>28. CASE ClearFails BY <1>28 DEF ClearFails
<1>29. CASE Record BY <1>29 DEF Record, NoJob
<1>30. CASE Fails BY <1>30 DEF Fails, NoJob
<1>31. CASE UNCHANGED vars BY <1>31 DEF vars
<1> QED BY <1>1, <1>2, <1>3, <1>4, <1>5, <1>6, <1>7, <1>8, <1>9, <1>10, <1>11, <1>12, <1>13,
         <1>14, <1>15, <1>16, <1>17, <1>18, <1>19, <1>20, <1>21, <1>22, <1>23, <1>24, <1>25,
         <1>26, <1>27, <1>28, <1>29, <1>30, <1>31 DEF Next, Replay

\* A write of a backup leaves every whole backup whole.
LEMMA BackupsStay ==
    ASSUME backup \in [Files -> [Versions -> {"none", "torn", "whole"}]],
           NEW f \in Files, NEW v \in Versions, NEW b \in {"torn", "whole"},
           ~Whole(f, v) \/ b = "whole", backup' = [backup EXCEPT ![f][v] = b]
    PROVE  /\ \A g \in Files : \A w \in Versions : Whole(g, w) => Whole(g, w)'
           /\ b = "whole" => Whole(f, v)'
BY DEF Whole

\* What a marker names stays backed up.
LEMMA StepBackups ==
    ASSUME TypeOK, MarkersAgree, TornIsMarked, BackedUpWhole, [Next]_vars
    PROVE  BackedUpWhole'
<1>0. /\ backup \in [Files -> [Versions -> {"none", "torn", "whole"}]] /\ job \in Job
      /\ job.todo \subseteq Files /\ job.at \in Files \cup {Nobody}
      /\ pc = "backup" => \A f \in Files : tree[f] \in Versions
      /\ \A m \in {mem, disk, job.ready} :
            DOMAIN m \subseteq Files /\ \A f \in DOMAIN m : m[f] \in Versions
    BY MarkerTypes DEF TypeOK, MarkersAgree, TornIsMarked, TornFiles, Torn, Job
<1> USE MarkerTypes DEF BackedUpWhole, Whole, NoJob, Pass, ToRestore, Job, TypeOK
<1>1. CASE Turn BY <1>1 DEF Turn, Edited, Wanted, Room
<1>2. CASE PersonEdits BY <1>2 DEF PersonEdits, Edited, Wanted, Room
<1>3. CASE RogueWrites BY <1>3 DEF RogueWrites
<1>4. CASE RogueStopped BY <1>4 DEF RogueStopped
<1>5. CASE Killed BY <1>5 DEF Killed, InGates, NoJob
<1>6. CASE Resume BY <1>6 DEF Resume, NoJob
<1>7. CASE BeginReplay BY <1>7 DEF BeginReplay, NoJob, Candidates
<1>8. CASE BackUp
    <2>1. PICK f \in job.todo : AlreadyBackedUp(f) \/ OpenBackup(f) BY <1>8 DEF BackUp
    <2>2. f \in Files /\ tree[f] \in Versions BY <1>8, <1>0 DEF BackUp
    <2>3. UNCHANGED <<mem, disk>> BY <1>8 DEF BackUp
    <2>4. CASE AlreadyBackedUp(f)
        <3>1. /\ UNCHANGED backup /\ Whole(f, tree[f])
              /\ DOMAIN job'.ready = DOMAIN job.ready \cup {f}
              /\ \A g \in DOMAIN job'.ready :
                    job'.ready[g] = IF g = f THEN tree[f] ELSE job.ready[g]
            BY <2>2, <2>4, <1>0, ReadyIs DEF AlreadyBackedUp
        <3> QED BY <2>3, <3>1 DEF BackedUpWhole, Whole
    <2>5. CASE OpenBackup(f)
        <3>1. job'.ready = job.ready BY <2>5 DEF OpenBackup
        <3>2. \A g \in Files : \A w \in Versions : Whole(g, w) => Whole(g, w)'
            BY <2>2, <2>5, <1>0, BackupsStay DEF OpenBackup
        <3> QED BY <1>0, <2>3, <3>1, <3>2 DEF BackedUpWhole
    <2> QED BY <2>1, <2>4, <2>5
<1>9. CASE BackedUp
    <2>1. job.at \in Files /\ tree[job.at] \in Versions BY <1>9, <1>0 DEF BackedUp
    <2>2. /\ DOMAIN job'.ready = DOMAIN job.ready \cup {job.at}
          /\ \A g \in DOMAIN job'.ready :
                job'.ready[g] = IF g = job.at THEN tree[job.at] ELSE job.ready[g]
          /\ UNCHANGED <<mem, disk>>
        BY <1>9, <2>1, <1>0, ReadyIs DEF BackedUp
    <2>3. backup' = [backup EXCEPT ![job.at][tree[job.at]] = "whole"] BY <1>9 DEF BackedUp
    <2>4. \A g \in Files : \A w \in Versions :
             backup'[g][w] = "whole" <=> Whole(g, w) \/ (g = job.at /\ w = tree[job.at])
        BY <1>0, <2>1, <2>3 DEF Whole
    <2>5. \A g \in DOMAIN job'.ready : backup'[g][job'.ready[g]] = "whole"
        BY <1>0, <2>1, <2>2, <2>4
    <2> QED BY <1>0, <2>2, <2>4, <2>5
<1>10. CASE NotReplayable BY <1>10 DEF NotReplayable
<1>11. CASE NothingToReplay BY <1>11 DEF NothingToReplay, BackupsDone
<1>12. CASE Mark BY <1>12 DEF Mark, BackupsDone, Pass
<1>13. CASE MarkFails BY <1>13 DEF MarkFails, BackupsDone, NoJob
<1>14. CASE WriteEarliest BY <1>14 DEF WriteEarliest
<1>15. CASE EarliestWritten BY <1>15 DEF EarliestWritten
<1>16. CASE CannotSwap BY <1>16 DEF CannotSwap, ToRestore
<1>17. CASE GatesRun BY <1>17 DEF GatesRun, InGates, ToRestore
<1>18. CASE GateEscapes BY <1>18 DEF GateEscapes, InGates, ToRestore
<1>19. CASE Checked BY <1>19 DEF Checked
<1>20. CASE AlreadyHead BY <1>20 DEF AlreadyHead
<1>21. CASE WriteHead BY <1>21 DEF WriteHead
<1>22. CASE HeadWritten BY <1>22 DEF HeadWritten
<1>23. CASE CannotRestore BY <1>23 DEF CannotRestore
<1>24. CASE RestoreStops BY <1>24 DEF RestoreStops, RestoreDone
<1>25. CASE PassEnds
    <2>1. job'.ready = job.ready /\ UNCHANGED <<backup, mem, disk>>
        BY <1>25 DEF PassEnds, NextPass, Pass
    <2> QED BY <2>1
<1>26. CASE ResumeRestored BY <1>26 DEF ResumeRestored, RestoreDone
<1>27. CASE Clear BY <1>27 DEF Clear, NoJob
<1>28. CASE ClearFails BY <1>28 DEF ClearFails
<1>29. CASE Record BY <1>29 DEF Record, NoJob
<1>30. CASE Fails BY <1>30 DEF Fails, NoJob
<1>31. CASE UNCHANGED vars BY <1>31 DEF vars
<1> QED BY <1>1, <1>2, <1>3, <1>4, <1>5, <1>6, <1>7, <1>8, <1>9, <1>10, <1>11, <1>12, <1>13,
         <1>14, <1>15, <1>16, <1>17, <1>18, <1>19, <1>20, <1>21, <1>22, <1>23, <1>24, <1>25,
         <1>26, <1>27, <1>28, <1>29, <1>30, <1>31 DEF Next, Replay

\* A turn or a person's edit only moves files to new versions.
LEMMA EditSteps ==
    ASSUME TypeOK, Turn \/ PersonEdits
    PROVE  /\ UNCHANGED <<backup, mem, disk, pc, job, rogue>> /\ pc \in {"working", "off"}
           /\ seen'.beside = seen.beside
           /\ \E files \in SUBSET Files : \A f \in Files :
                 /\ tree'[f] = IF f \in files THEN seen.want[f] + 1 ELSE tree[f]
                 /\ seen'.want[f] = IF f \in files THEN seen.want[f] + 1 ELSE seen.want[f]
                 /\ f \in files => seen.want[f] + 1 \in Versions
<1>1. \E files \in SUBSET Files :
         Room(files) /\ tree' = Edited(files) /\ seen' = [seen EXCEPT !.want = Wanted(files)]
    <2>1. CASE Turn BY <2>1 DEF Turn
    <2>2. CASE PersonEdits
        <3>1. PICK f \in Files :
                 Room({f}) /\ tree' = Edited({f}) /\ seen' = [seen EXCEPT !.want = Wanted({f})]
            BY <2>2 DEF PersonEdits
        <3>2. {f} \in SUBSET Files OBVIOUS
        <3> QED BY <3>1, <3>2
    <2> QED BY <2>1, <2>2
<1>2. PICK files \in SUBSET Files :
         Room(files) /\ tree' = Edited(files) /\ seen' = [seen EXCEPT !.want = Wanted(files)]
    BY <1>1
<1>3. seen'.want = Wanted(files) /\ seen'.beside = seen.beside BY <1>2 DEF TypeOK
<1>4. \A f \in Files :
         /\ tree'[f] = IF f \in files THEN seen.want[f] + 1 ELSE tree[f]
         /\ seen'.want[f] = IF f \in files THEN seen.want[f] + 1 ELSE seen.want[f]
         /\ f \in files => seen.want[f] + 1 \in Versions
    <2>1. Room(files) /\ TypeOK BY <1>2
    <2>2. \A f \in Files :
             /\ Edited(files)[f] = IF f \in files THEN seen.want[f] + 1 ELSE tree[f]
             /\ Wanted(files)[f] = IF f \in files THEN seen.want[f] + 1 ELSE seen.want[f]
             /\ f \in files => seen.want[f] + 1 \in Versions
        BY <2>1, EditsKeepType
    <2> QED BY <1>2, <1>3, <2>2
<1>5. UNCHANGED <<backup, mem, disk, pc, job, rogue>> /\ pc \in {"working", "off"}
    BY DEF Turn, PersonEdits
<1> QED BY <1>3, <1>4, <1>5

\* What is torn stays marked, and due.
LEMMA StepTorn ==
    ASSUME TypeOK, MarkersAgree, PassesAreMarked, TornIsMarked, [Next]_vars
    PROVE  TornIsMarked'
<1>0. /\ tree \in [Files -> {Torn} \cup Versions] /\ job \in Job
      /\ DOMAIN NoMarker = {} /\ DOMAIN mem \subseteq Files
      /\ \A f \in DOMAIN mem : mem[f] \in Versions
      /\ \A v \in Versions : v # Torn
      /\ Earliest \in Versions
    BY MarkerTypes, VersionAssumption DEF TypeOK, Versions, Earliest, Torn
<1>edits. Turn \/ PersonEdits =>
         /\ UNCHANGED <<mem, disk, pc, job>>
         /\ \A f \in Files : tree'[f] = Torn => tree[f] = Torn
    BY EditSteps, VersionAssumption DEF Versions, Earliest, Torn
<1> USE <1>0, NobodyAssumption DEF MarkersAgree, PassesAreMarked, Passing, TornIsMarked,
       TornFiles, Due, KeepMarker, Torn
<1>1. CASE Turn
    <2>1. UNCHANGED <<mem, disk, pc, job>> /\ \A f \in Files : tree'[f] = Torn => tree[f] = Torn
        BY <1>edits, <1>1
    <2> QED BY <2>1
<1>2. CASE PersonEdits
    <2>1. UNCHANGED <<mem, disk, pc, job>> /\ \A f \in Files : tree'[f] = Torn => tree[f] = Torn
        BY <1>edits, <1>2
    <2> QED BY <2>1
<1>3. CASE RogueWrites BY <1>3 DEF RogueWrites
<1>4. CASE RogueStopped BY <1>4 DEF RogueStopped
<1>5. CASE Killed BY <1>5 DEF Killed, InGates, NoJob
<1>6. CASE Resume BY <1>6 DEF Resume, NoJob
<1>7. CASE BeginReplay BY <1>7 DEF BeginReplay, NoJob, Candidates
<1>8. CASE BackUp BY <1>8 DEF BackUp, AlreadyBackedUp, OpenBackup
<1>9. CASE BackedUp BY <1>9 DEF BackedUp
<1>10. CASE NotReplayable BY <1>10 DEF NotReplayable
<1>11. CASE NothingToReplay BY <1>11 DEF NothingToReplay, BackupsDone
<1>12. CASE Mark BY <1>12 DEF Mark, BackupsDone, Pass
<1>13. CASE MarkFails BY <1>13 DEF MarkFails, BackupsDone
<1>14. CASE WriteEarliest BY <1>14 DEF WriteEarliest
<1>15. CASE EarliestWritten BY <1>15 DEF EarliestWritten
<1>16. CASE CannotSwap BY <1>16 DEF CannotSwap, ToRestore
<1>17. CASE GatesRun BY <1>17 DEF GatesRun, InGates, ToRestore
<1>18. CASE GateEscapes BY <1>18 DEF GateEscapes, InGates, ToRestore
<1>19. CASE Checked BY <1>19 DEF Checked
<1>20. CASE AlreadyHead BY <1>20 DEF AlreadyHead
<1>21. CASE WriteHead BY <1>21 DEF WriteHead
<1>22. CASE HeadWritten BY <1>22 DEF HeadWritten
<1>23. CASE CannotRestore BY <1>23 DEF CannotRestore
<1>24. CASE RestoreStops BY <1>24 DEF RestoreStops, RestoreDone
<1>25. CASE PassEnds BY <1>25 DEF PassEnds, NextPass, Pass, RestoreDone
<1>26. CASE ResumeRestored BY <1>26 DEF ResumeRestored, RestoreDone
<1>27. CASE Clear BY <1>27 DEF Clear, NoJob
<1>28. CASE ClearFails BY <1>28 DEF ClearFails
<1>29. CASE Record BY <1>29 DEF Record, NoJob
<1>30. CASE Fails BY <1>30 DEF Fails, NoJob
<1>31. CASE UNCHANGED vars BY <1>31 DEF vars
<1> QED BY <1>1, <1>2, <1>3, <1>4, <1>5, <1>6, <1>7, <1>8, <1>9, <1>10, <1>11, <1>12, <1>13,
         <1>14, <1>15, <1>16, <1>17, <1>18, <1>19, <1>20, <1>21, <1>22, <1>23, <1>24, <1>25,
         <1>26, <1>27, <1>28, <1>29, <1>30, <1>31 DEF Next, Replay

\* The files of a gate that still runs stay marked while the run is attended.
LEMMA StepRogue ==
    ASSUME TypeOK, MarkersAgree, PassesAreMarked, RogueIsMarked, ~seen.beside', [Next]_vars
    PROVE  RogueIsMarked'
<1>0. job \in Job /\ seen \in [want : [Files -> Versions], beside : BOOLEAN] BY DEF TypeOK
<1> USE MarkerTypes, NobodyAssumption DEF MarkersAgree, PassesAreMarked, Passing,
       RogueIsMarked, KeepMarker
<1>1. CASE Turn BY <1>1 DEF Turn, Edited, Wanted, Room
<1>2. CASE PersonEdits BY <1>2 DEF PersonEdits, Edited, Wanted, Room
<1>3. CASE RogueWrites BY <1>3 DEF RogueWrites
<1>4. CASE RogueStopped BY <1>4 DEF RogueStopped
<1>5. CASE Killed BY <1>5 DEF Killed, InGates, NoJob
<1>6. CASE Resume
    <2>1. rogue = {} BY <1>0, <1>6 DEF Resume
    <2> QED BY <1>6, <2>1 DEF Resume
<1>7. CASE BeginReplay BY <1>7 DEF BeginReplay, NoJob, Candidates
<1>8. CASE BackUp BY <1>8 DEF BackUp, AlreadyBackedUp, OpenBackup
<1>9. CASE BackedUp BY <1>9 DEF BackedUp
<1>10. CASE NotReplayable BY <1>10 DEF NotReplayable
<1>11. CASE NothingToReplay BY <1>11 DEF NothingToReplay, BackupsDone
<1>12. CASE Mark BY <1>12 DEF Mark, BackupsDone, Pass
<1>13. CASE MarkFails BY <1>13 DEF MarkFails, BackupsDone
<1>14. CASE WriteEarliest BY <1>14 DEF WriteEarliest
<1>15. CASE EarliestWritten BY <1>15 DEF EarliestWritten
<1>16. CASE CannotSwap BY <1>16 DEF CannotSwap, ToRestore
<1>17. CASE GatesRun BY <1>17 DEF GatesRun, InGates, ToRestore
<1>18. CASE GateEscapes BY <1>18 DEF GateEscapes, InGates, ToRestore
<1>19. CASE Checked BY <1>19 DEF Checked
<1>20. CASE AlreadyHead BY <1>20 DEF AlreadyHead
<1>21. CASE WriteHead BY <1>21 DEF WriteHead
<1>22. CASE HeadWritten BY <1>22 DEF HeadWritten
<1>23. CASE CannotRestore BY <1>23 DEF CannotRestore
<1>24. CASE RestoreStops BY <1>24 DEF RestoreStops, RestoreDone
<1>25. CASE PassEnds BY <1>25 DEF PassEnds, NextPass, Pass, RestoreDone
<1>26. CASE ResumeRestored BY <1>26 DEF ResumeRestored, RestoreDone
<1>27. CASE Clear BY <1>27 DEF Clear, NoJob
<1>28. CASE ClearFails BY <1>28 DEF ClearFails
<1>29. CASE Record BY <1>29 DEF Record, NoJob
<1>30. CASE Fails BY <1>30 DEF Fails, NoJob
<1>31. CASE UNCHANGED vars BY <1>31 DEF vars
<1> QED BY <1>1, <1>2, <1>3, <1>4, <1>5, <1>6, <1>7, <1>8, <1>9, <1>10, <1>11, <1>12, <1>13,
         <1>14, <1>15, <1>16, <1>17, <1>18, <1>19, <1>20, <1>21, <1>22, <1>23, <1>24, <1>25,
         <1>26, <1>27, <1>28, <1>29, <1>30, <1>31 DEF Next, Replay

\* Markers go on naming heads while the run is attended.
LEMMA StepHeads ==
    ASSUME TypeOK, MarkersAgree, PassesAreMarked, TornIsMarked, RogueIsMarked,
           MarkersAreHeads, ~seen.beside', [Next]_vars
    PROVE  MarkersAreHeads'
<1>0. /\ tree \in [Files -> {Torn} \cup Versions] /\ job \in Job /\ rogue \subseteq Files
      /\ DOMAIN NoMarker = {} /\ DOMAIN mem \subseteq Files
      /\ job.todo \subseteq Files /\ job.at \in Files \cup {Nobody}
      /\ \A f \in Files : tree[f] \in Int /\ seen.want[f] \in Int /\ seen.want[f] >= 0
      /\ \A f \in DOMAIN mem : mem[f] \in Int
      /\ pc = "backup" => \A f \in Files : tree[f] \in Versions
    BY MarkerTypes, VersionAssumption
    DEF TypeOK, MarkersAgree, TornIsMarked, TornFiles, Job, Versions, Earliest, Torn
<1>marks. \A m \in {mem, disk, job.ready} : \A f \in DOMAIN m : f \in Files /\ m[f] \in Int
    BY MarkerTypes DEF TypeOK, Job, Versions, Earliest
<1>edits. Turn \/ PersonEdits =>
         /\ UNCHANGED <<mem, disk, pc, job>> /\ pc # "backup"
         /\ \A f \in Files :
               /\ seen'.want[f] \in Int /\ seen'.want[f] >= seen.want[f]
               /\ tree'[f] = tree[f] \/ tree'[f] = seen'.want[f]
    BY <1>0, EditSteps
<1>passes. PassEnds =>
         UNCHANGED <<tree, mem, disk, seen>> /\ pc' # "backup" /\ job'.ready = job.ready
    <2>1. ASSUME NEW queue, NextPass(queue) PROVE pc' = "swap" /\ job'.ready = job.ready
        BY <2>1, <1>0 DEF NextPass, Pass, Job
    <2> QED BY <2>1, <1>0 DEF PassEnds
<1> USE <1>0, NobodyAssumption DEF MarkersAgree, PassesAreMarked, Passing, RogueIsMarked,
       MarkersAreHeads, Away, Torn, Earliest
<1>1. CASE Turn
    <2>1. UNCHANGED <<mem, disk, pc, job>> /\ pc # "backup" BY <1>edits, <1>1
    <2>2. \A f \in Files : tree'[f] <= seen'.want[f] BY <1>0, <1>edits, <1>1
    <2>3. \A m \in {mem, disk, job.ready} : \A f \in DOMAIN m :
             m[f] > Earliest /\ m[f] <= seen'.want[f]
        BY <1>0, <1>marks, <1>edits, <1>1
    <2> QED BY <2>1, <2>2, <2>3
<1>2. CASE PersonEdits
    <2>1. UNCHANGED <<mem, disk, pc, job>> /\ pc # "backup" BY <1>edits, <1>2
    <2>2. \A f \in Files : tree'[f] <= seen'.want[f] BY <1>0, <1>edits, <1>2
    <2>3. \A m \in {mem, disk, job.ready} : \A f \in DOMAIN m :
             m[f] > Earliest /\ m[f] <= seen'.want[f]
        BY <1>0, <1>marks, <1>edits, <1>2
    <2> QED BY <2>1, <2>2, <2>3
<1>3. CASE RogueWrites BY <1>3 DEF RogueWrites
<1>4. CASE RogueStopped BY <1>4 DEF RogueStopped
<1>5. CASE Killed BY <1>5 DEF Killed, InGates, NoJob
<1>6. CASE Resume BY <1>6 DEF Resume, NoJob
<1>7. CASE BeginReplay BY <1>7 DEF BeginReplay, NoJob, Candidates
<1>8. CASE BackUp
    <2>1. PICK f \in job.todo : AlreadyBackedUp(f) \/ OpenBackup(f) BY <1>8 DEF BackUp
    <2>2. /\ pc = "backup" /\ UNCHANGED <<tree, mem, disk, pc, seen>>
          /\ f \in Files /\ tree[f] \in Versions
        BY <1>0, <1>8 DEF BackUp
    <2>3. CASE AlreadyBackedUp(f)
        <3>1. /\ DOMAIN job'.ready = DOMAIN job.ready \cup {f}
              /\ \A g \in DOMAIN job'.ready :
                    job'.ready[g] = IF g = f THEN tree[f] ELSE job.ready[g]
              /\ job'.todo \subseteq job.todo /\ job'.at = Nobody
            BY <1>0, <2>2, <2>3, ReadyIs DEF AlreadyBackedUp
        <3> QED BY <2>2, <3>1
    <2>4. CASE OpenBackup(f)
        <3>1. job'.ready = job.ready /\ job'.todo = job.todo /\ job'.at = f
            BY <1>0, <2>4 DEF OpenBackup, Job
        <3> QED BY <2>2, <3>1
    <2> QED BY <2>1, <2>3, <2>4
<1>9. CASE BackedUp
    <2>1. /\ pc = "backup" /\ UNCHANGED <<tree, mem, disk, pc, seen>>
          /\ job.at \in Files /\ tree[job.at] \in Versions
        BY <1>0, <1>9 DEF BackedUp
    <2>2. /\ DOMAIN job'.ready = DOMAIN job.ready \cup {job.at}
          /\ \A g \in DOMAIN job'.ready :
                job'.ready[g] = IF g = job.at THEN tree[job.at] ELSE job.ready[g]
          /\ job'.todo \subseteq job.todo /\ job'.at = Nobody
        BY <1>0, <1>9, <2>1, ReadyIs DEF BackedUp
    <2> QED BY <2>1, <2>2
<1>10. CASE NotReplayable BY <1>10 DEF NotReplayable
<1>11. CASE NothingToReplay BY <1>11 DEF NothingToReplay, BackupsDone
<1>12. CASE Mark BY <1>12 DEF Mark, BackupsDone, Pass
<1>13. CASE MarkFails BY <1>13 DEF MarkFails, BackupsDone
<1>14. CASE WriteEarliest BY <1>14 DEF WriteEarliest
<1>15. CASE EarliestWritten BY <1>15 DEF EarliestWritten
<1>16. CASE CannotSwap BY <1>16 DEF CannotSwap, ToRestore
<1>17. CASE GatesRun BY <1>17 DEF GatesRun, InGates, ToRestore
<1>18. CASE GateEscapes BY <1>18 DEF GateEscapes, InGates, ToRestore
<1>19. CASE Checked BY <1>19 DEF Checked
<1>20. CASE AlreadyHead BY <1>20 DEF AlreadyHead
<1>21. CASE WriteHead BY <1>21 DEF WriteHead
<1>22. CASE HeadWritten BY <1>22 DEF HeadWritten
<1>23. CASE CannotRestore BY <1>23 DEF CannotRestore
<1>24. CASE RestoreStops BY <1>24 DEF RestoreStops, RestoreDone
<1>25. CASE PassEnds
    <2>1. UNCHANGED <<tree, mem, disk, seen>> /\ pc' # "backup" /\ job'.ready = job.ready
        BY <1>passes, <1>25
    <2> QED BY <2>1
<1>26. CASE ResumeRestored BY <1>26 DEF ResumeRestored, RestoreDone
<1>27. CASE Clear BY <1>27 DEF Clear, NoJob
<1>28. CASE ClearFails BY <1>28 DEF ClearFails
<1>29. CASE Record BY <1>29 DEF Record, NoJob
<1>30. CASE Fails BY <1>30 DEF Fails, NoJob
<1>31. CASE UNCHANGED vars BY <1>31 DEF vars
<1> QED BY <1>1, <1>2, <1>3, <1>4, <1>5, <1>6, <1>7, <1>8, <1>9, <1>10, <1>11, <1>12, <1>13,
         <1>14, <1>15, <1>16, <1>17, <1>18, <1>19, <1>20, <1>21, <1>22, <1>23, <1>24, <1>25,
         <1>26, <1>27, <1>28, <1>29, <1>30, <1>31 DEF Next, Replay

\* Only a resume beside a gate's process makes a run unattended, and it writes
\* nothing.
LEMMA StaysBeside ==
    ASSUME TypeOK, [Next]_vars
    PROVE  \/ seen'.beside = seen.beside
           \/ seen'.beside = TRUE /\ UNCHANGED <<tree, disk>>
<1>1. seen \in [want : [Files -> Versions], beside : BOOLEAN] BY DEF TypeOK
<1>2. CASE Turn \/ PersonEdits BY <1>2, EditSteps
<1>3. CASE Resume
    <2>1. seen' = [seen EXCEPT !.beside = seen.beside \/ rogue # {}] /\ UNCHANGED <<tree, disk>>
        BY <1>3 DEF Resume
    <2>2. seen'.beside = (seen.beside \/ rogue # {}) BY <1>1, <2>1
    <2> QED BY <1>1, <2>1, <2>2
<1>4. CASE RogueWrites \/ RogueStopped \/ Killed \/ BeginReplay \/ Replay \/ UNCHANGED vars
    <2>1. UNCHANGED seen
        BY <1>4 DEF RogueWrites, RogueStopped, Killed, BeginReplay, Replay, BackUp, BackedUp,
               NotReplayable, NothingToReplay, Mark, MarkFails, WriteEarliest, EarliestWritten,
               CannotSwap, GatesRun, GateEscapes, Checked, AlreadyHead, WriteHead, HeadWritten,
               CannotRestore, RestoreStops, PassEnds, ResumeRestored, Clear, ClearFails, Record,
               Fails, vars
    <2> QED BY <2>1
<1> QED BY <1>2, <1>3, <1>4 DEF Next

\* What a marker names is in the tree, but for what is due, while the run is attended.
LEMMA StepAway ==
    ASSUME TypeOK, MarkersAgree, PassesAreMarked, TornIsMarked, RogueIsMarked, MarkersAreHeads,
           AwayIsDue, ~seen.beside', [Next]_vars
    PROVE  AwayIsDue'
<1>0. /\ tree \in [Files -> {Torn} \cup Versions] /\ job \in Job /\ rogue \subseteq Files
      /\ pc = "recording" => mem = NoMarker
      /\ DOMAIN NoMarker = {} /\ DOMAIN mem \subseteq Files /\ DOMAIN disk \subseteq Files
      /\ job.todo \subseteq Files /\ job.at \in Files \cup {Nobody}
    BY MarkerTypes DEF TypeOK, Job
<1>heads. \A m \in {mem, disk} : Away(m) = {} /\ m = disk => Swapped = {}
    <2>1. ASSUME NEW f \in DOMAIN disk, tree[f] = disk[f] PROVE tree[f] \notin {Earliest, Torn}
        <3>1. disk[f] > Earliest /\ disk[f] \in Int
            BY MarkerTypes DEF TypeOK, MarkersAreHeads, Versions, Earliest
        <3> QED BY <2>1, <3>1 DEF Earliest, Torn
    <2> QED BY <2>1 DEF Away, Swapped, AwayIsDue
<1>edits. Turn \/ PersonEdits =>
         /\ UNCHANGED <<mem, disk, job, pc>> /\ pc \in {"working", "off"}
         /\ \A f \in Files :
               \/ tree'[f] = tree[f] /\ seen'.want[f] = seen.want[f]
               \/ tree'[f] = seen'.want[f]
    BY EditSteps
<1>passes. PassEnds => pc' \in {"swap", "clear"} BY DEF PassEnds, NextPass
<1> USE <1>0, NobodyAssumption DEF MarkersAgree, PassesAreMarked, Passing, AwayIsDue, Away,
       Swapped, Due, KeepMarker, Torn, Earliest
<1>1. CASE Turn BY <1>1, <1>edits
<1>2. CASE PersonEdits BY <1>2, <1>edits
<1>3. CASE RogueWrites
    <2>1. PICK f \in rogue : tree' = [tree EXCEPT ![f] = Earliest] BY <1>3 DEF RogueWrites
    <2>2. /\ UNCHANGED <<mem, disk, job, pc, seen>> /\ f \in Files /\ f \in DOMAIN disk
          /\ pc \in {"check", "restore", "failing", "off"}
          /\ pc \in {"check", "restore"} => job.outcome = "escaped" /\ f \in job.pass
          /\ pc = "failing" => mem = disk
        BY <1>3, <1>0, <2>1 DEF RogueWrites, RogueIsMarked
    <2> QED BY <1>0, <2>1, <2>2
<1>4. CASE RogueStopped BY <1>4 DEF RogueStopped
<1>5. CASE Killed BY <1>5 DEF Killed, InGates, NoJob
<1>6. CASE Resume BY <1>6 DEF Resume, NoJob
<1>7. CASE BeginReplay BY <1>7 DEF BeginReplay, NoJob, Candidates
<1>8. CASE BackUp BY <1>8 DEF BackUp, AlreadyBackedUp, OpenBackup
<1>9. CASE BackedUp BY <1>9 DEF BackedUp
<1>10. CASE NotReplayable BY <1>10 DEF NotReplayable
<1>11. CASE NothingToReplay BY <1>11 DEF NothingToReplay, BackupsDone
<1>12. CASE Mark BY <1>12 DEF Mark, BackupsDone, Pass
<1>13. CASE MarkFails
    <2>1. Away(job.ready) = {} /\ disk = NoMarker /\ mem' = job.ready /\ pc' = "failing"
          /\ UNCHANGED <<tree, disk, seen>>
        BY <1>13 DEF MarkFails, BackupsDone, MarkersAreHeads
    <2> QED BY <1>0, <2>1
<1>14. CASE WriteEarliest BY <1>14 DEF WriteEarliest
<1>15. CASE EarliestWritten BY <1>15 DEF EarliestWritten
<1>16. CASE CannotSwap BY <1>16 DEF CannotSwap, ToRestore
<1>17. CASE GatesRun BY <1>17 DEF GatesRun, InGates, ToRestore
<1>18. CASE GateEscapes BY <1>18 DEF GateEscapes, InGates, ToRestore
<1>19. CASE Checked BY <1>19 DEF Checked
<1>20. CASE AlreadyHead BY <1>20 DEF AlreadyHead
<1>21. CASE WriteHead BY <1>21 DEF WriteHead
<1>22. CASE HeadWritten BY <1>22 DEF HeadWritten
<1>23. CASE CannotRestore BY <1>23 DEF CannotRestore
<1>24. CASE RestoreStops BY <1>24 DEF RestoreStops, RestoreDone
<1>25. CASE PassEnds
    <2>1. Away(mem) = {} /\ UNCHANGED <<tree, mem, disk, seen>>
        BY <1>25, <1>0 DEF PassEnds, RestoreDone
    <2>2. pc' \in {"swap", "clear"} BY <1>25, <1>passes
    <2> QED BY <2>1, <2>2
<1>26. CASE ResumeRestored BY <1>26 DEF ResumeRestored, RestoreDone
<1>27. CASE Clear
    <2>1. Away(mem) = {} /\ mem = disk /\ pc = "clear" BY <1>27 DEF Clear
    <2>2. Swapped = {} BY <2>1, <1>heads
    <2> QED BY <1>27, <2>1, <2>2 DEF Clear
<1>28. CASE ClearFails BY <1>28 DEF ClearFails
<1>29. CASE Record BY <1>29 DEF Record, NoJob
<1>30. CASE Fails
    <2>1. /\ pc = "failing" /\ disk' \in {mem, disk} /\ pc' = "off" /\ UNCHANGED <<tree, seen>>
        BY <1>30 DEF Fails
    <2>2. CASE mem = disk BY <2>1, <2>2
    <2>3. CASE Away(mem) = {} /\ Away(disk) = {}
        <3>1. Swapped = {} BY <2>3, <1>heads
        <3> QED BY <2>1, <3>1
    <2> QED BY <2>1, <2>2, <2>3
<1>31. CASE UNCHANGED vars BY <1>31 DEF vars
<1> QED BY <1>1, <1>2, <1>3, <1>4, <1>5, <1>6, <1>7, <1>8, <1>9, <1>10, <1>11, <1>12, <1>13,
         <1>14, <1>15, <1>16, <1>17, <1>18, <1>19, <1>20, <1>21, <1>22, <1>23, <1>24, <1>25,
         <1>26, <1>27, <1>28, <1>29, <1>30, <1>31 DEF Next, Replay

\* How a step moves the heads: nothing moves but to newer versions, or a person
\* writes one test over a replay cut off, or one such test is taken back.
HeadsRise ==
    /\ \A f \in Files : HeadOf(f)' = HeadOf(f) \/ HeadOf(f)' > HeadOf(f)
    /\ EditedSince' = EditedSince
    /\ \A f \in EditedSince : disk'[f] = disk[f]
WroteOver(f) ==
    /\ UNCHANGED disk /\ EditedSince' = EditedSince \cup {f}
    /\ HeadOf(f)' > HeadOf(f)
    /\ f \in EditedSince \/ disk[f] = HeadOf(f)
    /\ \A g \in Files \ {f} : HeadOf(g)' = HeadOf(g)
TookBack(f) ==
    /\ UNCHANGED disk /\ EditedSince' = EditedSince \ {f}
    /\ HeadOf(f)' = disk[f]
    /\ \A g \in Files \ {f} : HeadOf(g)' = HeadOf(g)

\* What is written to a marked file, and is not newer than its marker, leaves its
\* head alone or takes an edit back.
LEMMA WriteMarked ==
    ASSUME TypeOK, NEW f \in DOMAIN disk, NEW v \in {Torn} \cup Versions, v <= disk[f],
           tree' = [tree EXCEPT ![f] = v], UNCHANGED disk
    PROVE  HeadsRise \/ (f \in EditedSince /\ TookBack(f))
<1>1. /\ tree \in [Files -> {Torn} \cup Versions] /\ f \in Files /\ DOMAIN disk \subseteq Files
      /\ \A g \in DOMAIN disk : disk[g] \in Versions
      /\ \A w \in {Torn} \cup Versions : w \in Int
    BY MarkerTypes DEF TypeOK, Versions, Earliest, Torn
<1>2. tree'[f] = v /\ \A g \in Files \ {f} : tree'[g] = tree[g] BY <1>1
<1>3. f \notin EditedSince' BY <1>1, <1>2 DEF EditedSince
<1>4. \A g \in Files \ {f} : (g \in EditedSince' <=> g \in EditedSince) BY <1>2 DEF EditedSince
<1>5. EditedSince \subseteq Files /\ EditedSince' \subseteq Files BY <1>1 DEF EditedSince
<1>6. EditedSince' = EditedSince \ {f} BY <1>3, <1>4, <1>5
<1>7. \A g \in Files \ {f} : HeadOf(g)' = HeadOf(g) BY <1>2, <1>4 DEF HeadOf
<1>8. HeadOf(f)' = disk[f] BY <1>3 DEF HeadOf
<1>9. CASE f \in EditedSince BY <1>6, <1>7, <1>8, <1>9 DEF TookBack
<1>10. CASE f \notin EditedSince
    <2>1. HeadOf(f) = disk[f] BY <1>10 DEF HeadOf
    <2>2. EditedSince' = EditedSince BY <1>6, <1>10
    <2> QED BY <1>7, <1>8, <2>1, <2>2 DEF HeadsRise
<1> QED BY <1>9, <1>10

\* A marker set or cleared while the tree holds what it names moves no head.
LEMMA MarkerMoves ==
    ASSUME UNCHANGED tree, \A f \in Files : tree[f] \in Int,
           disk \in Markers, disk' \in Markers,
           \A f \in DOMAIN disk : tree[f] = disk[f],
           \A f \in DOMAIN disk' : tree[f] = disk'[f]
    PROVE  HeadsRise
<1>1. DOMAIN disk \subseteq Files /\ DOMAIN disk' \subseteq Files BY MarkerTypes
<1>2. EditedSince = {} BY <1>1 DEF EditedSince
<1>3. EditedSince' = {} BY <1>1 DEF EditedSince
<1>4. \A f \in Files : HeadOf(f) = tree[f] BY DEF HeadOf
<1>5. \A f \in Files : HeadOf(f)' = tree[f] BY DEF HeadOf
<1> QED BY <1>2, <1>3, <1>4, <1>5 DEF HeadsRise

\* The head of a test only moves to a newer version while the run is attended, but
\* for what was written over a replay cut off.
LEMMA StepHeadOf ==
    ASSUME TypeOK, TypeOK', MarkersAgree, PassesAreMarked, RogueIsMarked, MarkersAreHeads,
           AwayIsDue, ~seen.beside', [Next]_vars
    PROVE  \/ HeadsRise
           \/ \E f \in Files : WroteOver(f)
           \/ \E f \in EditedSince : TookBack(f)
<1>0. /\ tree \in [Files -> {Torn} \cup Versions] /\ DOMAIN NoMarker = {}
      /\ NoMarker \in Markers /\ disk \in Markers /\ disk' \in Markers
      /\ DOMAIN disk \subseteq Files
      /\ \A f \in DOMAIN disk : disk[f] \in Versions /\ disk[f] > Earliest /\ disk[f] > Torn
      /\ \A f \in Files : tree[f] \in Int
      /\ Torn \in {Torn} \cup Versions /\ Earliest \in {Torn} \cup Versions
    BY MarkerTypes, VersionAssumption
    DEF TypeOK, MarkersAreHeads, Versions, Earliest, Torn
<1>same. UNCHANGED <<tree, disk>> => HeadsRise
    BY DEF HeadsRise, HeadOf, EditedSince
<1>wants. \A f \in Files : /\ seen.want[f] \in Int /\ tree[f] <= seen.want[f]
                           /\ f \in DOMAIN disk => disk[f] <= seen.want[f]
    BY <1>0 DEF TypeOK, MarkersAreHeads, Versions, Earliest
<1> USE NobodyAssumption DEF MarkersAgree, PassesAreMarked, Passing
<1>1. CASE Turn
    <2>1. UNCHANGED disk /\ DOMAIN disk = {} BY <1>0, <1>1 DEF Turn
    <2>2. \A f \in Files : tree'[f] = tree[f] \/ tree'[f] > tree[f]
        BY <1>1, <1>0, <1>wants, EditSteps
    <2> QED BY <2>1, <2>2 DEF HeadsRise, HeadOf, EditedSince
<1>2. CASE PersonEdits
    <2>1. PICK f \in Files :
             /\ tree' = Edited({f})
             /\ UNCHANGED disk
        BY <1>2 DEF PersonEdits
    <2>2. tree'[f] = seen.want[f] + 1 /\ \A g \in Files \ {f} : tree'[g] = tree[g]
        BY <2>1 DEF Edited
    <2>3. \A g \in Files \ {f} : /\ g \in EditedSince' <=> g \in EditedSince
                                 /\ HeadOf(g)' = HeadOf(g)
        BY <2>1, <2>2 DEF EditedSince, HeadOf
    <2>4. EditedSince \subseteq Files /\ EditedSince' \subseteq Files
        BY <1>0, <2>1 DEF EditedSince
    <2>5. CASE f \in DOMAIN disk
        <3>1. disk[f] \in Int BY <1>0, <2>5 DEF Versions, Earliest
        <3>2. f \in EditedSince' BY <2>1, <2>2, <2>5, <3>1, <1>wants DEF EditedSince
        <3>3. EditedSince' = EditedSince \cup {f} BY <2>3, <2>4, <3>2
        <3>4. HeadOf(f)' = seen.want[f] + 1 BY <2>2, <3>2 DEF HeadOf
        <3>5. HeadOf(f) \in {tree[f], disk[f]} /\ (f \in EditedSince \/ disk[f] = HeadOf(f))
            BY <2>5 DEF HeadOf
        <3>6. HeadOf(f)' > HeadOf(f) BY <1>0, <1>wants, <2>5, <3>1, <3>4, <3>5
        <3> QED BY <2>1, <2>3, <3>3, <3>5, <3>6 DEF WroteOver
    <2>6. CASE f \notin DOMAIN disk
        <3>1. f \notin EditedSince /\ f \notin EditedSince' BY <2>1, <2>6 DEF EditedSince
        <3>2. EditedSince' = EditedSince BY <2>3, <2>4, <3>1
        <3>3. HeadOf(f)' = seen.want[f] + 1 /\ HeadOf(f) = tree[f]
            BY <2>1, <2>2, <2>6 DEF HeadOf
        <3>4. HeadOf(f)' > HeadOf(f) BY <1>0, <1>wants, <3>3
        <3> QED BY <2>1, <2>3, <3>2, <3>4 DEF HeadsRise
    <2> QED BY <2>5, <2>6
<1>3. CASE RogueWrites
    <2>1. /\ rogue \subseteq DOMAIN disk /\ UNCHANGED disk
          /\ \E f \in rogue : tree' = [tree EXCEPT ![f] = Earliest]
        BY <1>3 DEF RogueWrites, RogueIsMarked
    <2>2. PICK f \in DOMAIN disk : tree' = [tree EXCEPT ![f] = Earliest] BY <2>1
    <2>3. Earliest <= disk[f] BY <1>0 DEF Versions, Earliest
    <2> QED BY <1>0, <2>1, <2>2, <2>3, WriteMarked
<1>4. CASE \/ RogueStopped \/ Killed \/ Resume \/ BeginReplay \/ BackUp \/ BackedUp
           \/ NotReplayable \/ NothingToReplay \/ MarkFails \/ CannotSwap \/ GatesRun
           \/ GateEscapes \/ Checked \/ AlreadyHead \/ CannotRestore \/ RestoreStops
           \/ PassEnds \/ ResumeRestored \/ ClearFails \/ Record \/ UNCHANGED vars
    <2>1. UNCHANGED <<tree, disk>>
        BY <1>4 DEF RogueStopped, Killed, Resume, BeginReplay, BackUp, BackedUp, NotReplayable,
           NothingToReplay, MarkFails, CannotSwap, GatesRun, GateEscapes, Checked, AlreadyHead,
           CannotRestore, RestoreStops, PassEnds, ResumeRestored, ClearFails, Record, vars
    <2> QED BY <2>1, <1>same
<1>5. CASE Mark
    <2>1. /\ pc = "backup" /\ DOMAIN disk = {} /\ disk' = job.ready /\ UNCHANGED tree
          /\ \A f \in DOMAIN job.ready : tree[f] = job.ready[f]
        BY <1>5, <1>0 DEF Mark, BackupsDone, MarkersAreHeads, Away
    <2> QED BY <1>0, <2>1, MarkerMoves
<1>6. CASE WriteEarliest \/ WriteHead
    <2>1. PICK f \in job.todo : tree' = [tree EXCEPT ![f] = Torn]
        BY <1>6 DEF WriteEarliest, WriteHead
    <2>2. f \in DOMAIN disk /\ UNCHANGED disk BY <1>6 DEF WriteEarliest, WriteHead
    <2>3. Torn <= disk[f] BY <1>0, <2>2 DEF Versions, Earliest, Torn
    <2> QED BY <1>0, <2>1, <2>2, <2>3, WriteMarked
<1>7. CASE EarliestWritten
    <2>1. /\ job.at \in DOMAIN disk /\ UNCHANGED disk
          /\ tree' = [tree EXCEPT ![job.at] = Earliest]
        BY <1>7 DEF EarliestWritten
    <2>2. Earliest <= disk[job.at] BY <1>0, <2>1 DEF Versions, Earliest
    <2> QED BY <1>0, <2>1, <2>2, WriteMarked
<1>8. CASE HeadWritten
    <2>1. /\ job.at \in DOMAIN disk /\ UNCHANGED disk
          /\ tree' = [tree EXCEPT ![job.at] = disk[job.at]]
        BY <1>8 DEF HeadWritten
    <2>2. disk[job.at] <= disk[job.at] BY <1>0, <2>1 DEF Versions, Earliest
    <2> QED BY <1>0, <2>1, <2>2, WriteMarked
<1>9. CASE Clear
    <2>1. /\ mem = disk /\ \A f \in DOMAIN disk : tree[f] = disk[f]
          /\ UNCHANGED tree /\ DOMAIN disk' = {}
        BY <1>9, <1>0 DEF Clear, AwayIsDue, Away
    <2> QED BY <1>0, <2>1, MarkerMoves
<1>10. CASE Fails
    <2>1. pc = "failing" /\ disk' \in {mem, disk} /\ UNCHANGED tree BY <1>10 DEF Fails
    <2>2. \/ mem = disk
          \/ /\ \A f \in DOMAIN disk : tree[f] = disk[f]
             /\ \A f \in DOMAIN mem : tree[f] = mem[f]
        BY <2>1 DEF AwayIsDue, Away
    <2>3. CASE mem = disk BY <2>1, <2>3, <1>same
    <2>4. CASE /\ \A f \in DOMAIN disk : tree[f] = disk[f]
               /\ \A f \in DOMAIN mem : tree[f] = mem[f]
        BY <1>0, <2>1, <2>4, MarkerMoves
    <2> QED BY <2>2, <2>3, <2>4
<1> QED BY <1>1, <1>2, <1>3, <1>4, <1>5, <1>6, <1>7, <1>8, <1>9, <1>10 DEF Next, Replay

\* No process runs and nothing is marked before the first turn.
LEMMA InitIInv == Init => IInv
<1> SUFFICES ASSUME Init PROVE IInv OBVIOUS
<1>1. \A v \in Versions : v # Torn BY DEF Versions, Earliest, Torn
<1>2. Earliest \in Versions BY VersionAssumption DEF Versions, Earliest
<1>local. NoJob \in Job BY MarkerTypes DEF NoJob, Job
<1>3. TypeOK BY <1>2, <1>local, MarkerTypes DEF Init, TypeOK, Pcs
<1>4. MarkersAgree /\ PassesAreMarked
    BY DEF Init, MarkersAgree, PassesAreMarked, Passing, NoJob
<1>5. BackedUpWhole BY MarkerTypes DEF Init, BackedUpWhole, NoJob
<1>6. TornFiles = {} BY <1>1, <1>2 DEF Init, TornFiles
<1>7. TornIsMarked BY <1>6 DEF Init, TornIsMarked, Passing
<1>8. RogueIsMarked BY DEF Init, RogueIsMarked
<1>9. MarkersAreHeads BY MarkerTypes DEF Init, MarkersAreHeads, NoJob, Earliest
<1>10. AwayIsDue BY DEF Init, AwayIsDue, Passing, Swapped
<1> QED BY <1>3, <1>4, <1>5, <1>7, <1>8, <1>9, <1>10 DEF IInv, Attended

\* Every step keeps the inductive invariant.
LEMMA StepIInv == IInv /\ [Next]_vars => IInv'
<1> SUFFICES ASSUME IInv, [Next]_vars PROVE IInv' OBVIOUS
<1>1. TypeOK /\ MarkersAgree /\ PassesAreMarked /\ BackedUpWhole /\ TornIsMarked BY DEF IInv
<1>2. TypeOK' BY <1>1, StepType
<1>3. (MarkersAgree /\ PassesAreMarked)' BY <1>1, StepAgree
<1>4. BackedUpWhole' BY <1>1, StepBackups
<1>5. TornIsMarked' BY <1>1, StepTorn
<1>6. ASSUME ~seen.beside' PROVE RogueIsMarked' /\ MarkersAreHeads' /\ AwayIsDue'
    <2>1. ~seen.beside BY <1>1, <1>6, StaysBeside
    <2>2. RogueIsMarked /\ MarkersAreHeads /\ AwayIsDue BY <2>1 DEF IInv, Attended
    <2>3. RogueIsMarked' BY <1>1, <1>6, <2>2, StepRogue
    <2>4. MarkersAreHeads' BY <1>1, <1>6, <2>2, StepHeads
    <2>5. AwayIsDue' BY <1>1, <1>6, <2>2, StepAway
    <2> QED BY <2>3, <2>4, <2>5
<1>7. Attended' BY <1>6 DEF Attended
<1> QED BY <1>2, <1>3, <1>4, <1>5, <1>7 DEF IInv

\* Every reachable state satisfies the inductive invariant.
THEOREM Invariant == Spec => []IInv
BY InitIInv, StepIInv, PTL DEF Spec

\* The tree, the backups, the markers and the locals keep their shape, and no
\* marker is in memory where the run goes on (runReplay, writeCheckpoint).
THEOREM TypeCorrect == Spec => []TypeOK
<1>1. IInv => TypeOK BY DEF IInv
<1> QED BY <1>1, Invariant, PTL

\* No turn starts on a tree with an earlier version of a test in it, until the run
\* is resumed beside a gate's process (restoreInFlight, ReplayRestoreError).
THEOREM TurnsReadHeads == Spec => []NoTurnReadsSwapped
<1>1. ASSUME IInv PROVE NoTurnReadsSwapped
    <2> SUFFICES ASSUME pc = "working", ~seen.beside PROVE Swapped = {}
        BY DEF NoTurnReadsSwapped
    <2>1. disk = NoMarker BY <1>1 DEF IInv, MarkersAgree
    <2>2. Swapped \subseteq DOMAIN disk BY <1>1 DEF IInv, Attended, AwayIsDue
    <2> QED BY <2>1, <2>2, MarkerTypes
<1> QED BY <1>1, Invariant, PTL

\* Whatever the saved marker names, its head copy is in the backups, whole
\* (runReplay backs up and reads back before it marks).
THEOREM EveryMarkIsBackedUp == Spec => []RestoreIsPossible
<1>1. IInv => RestoreIsPossible BY DEF IInv, BackedUpWhole, RestoreIsPossible
<1> QED BY <1>1, Invariant, PTL

\* A replay implements HeadTests: whatever is killed or fails, a test's head moves
\* only to a newer version, but that what a person wrote over a replay cut off is
\* taken back by the restore, until a person resumes beside a gate's process
\* (restoreFiles, restoreInFlight).
THEOREM ReplayKeepsHeads == Spec => ReplayIsInvisible
<1> DEFINE H == [f \in Files |-> HeadOf(f)]
           B == [f \in EditedSince |-> disk[f]]
           Refined == <<H, B, seen.beside>>
<1>1. Init => Heads!Init
    <2> SUFFICES ASSUME Init PROVE Heads!Init OBVIOUS
    <2>1. \A f \in Files : HeadOf(f) = 0 BY MarkerTypes DEF Init, HeadOf, Earliest
    <2>2. EditedSince = {} BY MarkerTypes DEF Init, EditedSince
    <2> QED BY <2>1, <2>2 DEF Init, Heads!Init
<1>2. IInv /\ IInv' /\ [Next]_vars => [Heads!Next]_Refined
    <2> SUFFICES ASSUME IInv, IInv', [Next]_vars PROVE [Heads!Next]_Refined OBVIOUS
    <2>0. TypeOK /\ TypeOK' /\ seen.beside \in BOOLEAN BY DEF IInv, TypeOK
    <2>1. CASE seen.beside
        <3>1. seen'.beside = seen.beside BY <2>0, <2>1, StaysBeside
        <3>2. DOMAIN H' = Files OBVIOUS
        <3> QED BY <2>1, <3>1, <3>2 DEF Heads!Next, Heads!Overwritten
    <2>2. CASE ~seen.beside /\ seen'.beside
        <3>1. seen'.beside = TRUE /\ UNCHANGED <<tree, disk>> BY <2>0, <2>2, StaysBeside
        <3>2. EditedSince' = EditedSince BY <3>1 DEF EditedSince
        <3>3. H' = H /\ B' = B BY <3>1, <3>2 DEF HeadOf
        <3> QED BY <3>1, <3>3 DEF Heads!Next, Heads!GoesStray
    <2>3. CASE ~seen.beside /\ ~seen'.beside
        <3>1. seen'.beside = seen.beside BY <2>0, <2>3, StaysBeside
        <3>2. HeadsRise \/ (\E f \in Files : WroteOver(f)) \/ (\E f \in EditedSince : TookBack(f))
            BY <2>0, <2>3, StepHeadOf DEF IInv, Attended
        <3>3. CASE HeadsRise
            <4> DEFINE files == {f \in Files : HeadOf(f)' > HeadOf(f)}
            <4>1. /\ \A f \in files : H'[f] > H[f]
                  /\ H' = [f \in Files |-> IF f \in files THEN H'[f] ELSE H[f]]
                BY <3>3 DEF HeadsRise
            <4>2. B' = B BY <3>3 DEF HeadsRise
            <4> QED BY <3>1, <4>1, <4>2 DEF Heads!Next, Heads!Written
        <3>4. ASSUME NEW f \in Files, WroteOver(f) PROVE Heads!Next
            <4>1. H'[f] > H[f] /\ H' = [H EXCEPT ![f] = H'[f]] BY <3>4 DEF WroteOver
            <4>2. B' = [g \in DOMAIN B \cup {f} |-> IF g \in DOMAIN B THEN B[g] ELSE H[f]]
                BY <3>4 DEF WroteOver
            <4> QED BY <3>1, <4>1, <4>2 DEF Heads!Next, Heads!WrittenOver
        <3>5. ASSUME NEW f \in EditedSince, TookBack(f) PROVE Heads!Next
            <4>1. f \in DOMAIN B /\ H' = [H EXCEPT ![f] = B[f]]
                <5>1. f \in Files BY <2>0, MarkerTypes DEF TypeOK, EditedSince
                <5> QED BY <3>5, <5>1 DEF TookBack
            <4>2. B' = [g \in DOMAIN B \ {f} |-> B[g]] BY <3>5 DEF TookBack
            <4> QED BY <3>1, <4>1, <4>2 DEF Heads!Next, Heads!TakenBack
        <3> QED BY <3>2, <3>3, <3>4, <3>5
    <2> QED BY <2>1, <2>2, <2>3
<1> QED BY <1>1, <1>2, Invariant, PTL DEF Spec, ReplayIsInvisible, Heads!Spec

-----------------------------------------------------------------------------
(* Why a replay ends, short of fairness: a count of file operations that    *)
(* every step of the process spends.                                        *)

Size == Cardinality(Files)

\* Two operations to each file in line, one of them begun or not.
InLine == 2 * Cardinality(job.todo) + IF job.at = Nobody THEN 1 ELSE 0

\* How far the pass at hand is from its end, the backups before the first of them.
Position ==
    CASE pc \in {"off", "working"} -> 0
      [] pc = "failing" -> 1
      [] pc = "recording" -> 2
      [] pc = "clear" -> 3
      [] pc = "restore" -> 4 + InLine
      [] pc = "check" -> 2 * Size + 6
      [] pc = "swap" -> 2 * Size + 7 + InLine
      [] pc = "backup" -> InLine

\* The passes after it: the batch, then one for each of its files.
PassesLeft ==
    IF pc = "backup" THEN Size + 1
    ELSE IF ~Passing THEN 0
    ELSE Cardinality(IF job.batch THEN DOMAIN job.ready ELSE job.queue)

StepsLeft == (4 * Size + 9) * PassesLeft + Position

\* A replay or a restore takes boundedly many file operations, whichever of them
\* fail; what a gate left running writes meanwhile does not lengthen it (runReplay).
EveryStepSpends ==
    [][ /\ Replay => StepsLeft' < StepsLeft
        /\ pc \notin {"off", "working"} => StepsLeft' <= StepsLeft ]_vars

\* The file at hand is one of those in line.
AtIsInLine == pc \in {"backup", "swap", "restore"} /\ job.at # Nobody => job.at \in job.todo

\* Counting the files of a set.
LEMMA FilesCount ==
    /\ Size \in Nat
    /\ \A S \in SUBSET Files : Cardinality(S) \in Nat /\ Cardinality(S) <= Size
    /\ \A S \in SUBSET Files : \A f \in S : Cardinality(S \ {f}) = Cardinality(S) - 1
    /\ \A f \in Files : Cardinality({f}) = 1
    /\ Cardinality({}) = 0
<1>1. Size \in Nat
    BY FilesAssumption, FS_CardinalityType DEF Size
<1>2. ASSUME NEW S \in SUBSET Files
      PROVE  /\ Cardinality(S) \in Nat /\ Cardinality(S) <= Size
             /\ \A f \in S : Cardinality(S \ {f}) = Cardinality(S) - 1
    <2>1. IsFiniteSet(S) /\ Cardinality(S) <= Size
        BY FilesAssumption, FS_Subset DEF Size
    <2>2. Cardinality(S) \in Nat
        BY <2>1, FS_CardinalityType
    <2>3. \A f \in S : Cardinality(S \ {f}) = Cardinality(S) - 1
        BY <2>1, FS_RemoveElement
    <2> QED BY <2>1, <2>2, <2>3
<1> QED BY <1>1, <1>2, FS_Singleton, FS_EmptySet

\* What the locals are worth.
LEMMA LeftIsNatural ==
    ASSUME TypeOK
    PROVE  /\ InLine \in 0..(2 * Size + 1) /\ Size \in Nat
           /\ Position \in 0..(4 * Size + 8) /\ PassesLeft \in Nat /\ StepsLeft \in Nat
<1>1. job \in Job /\ pc \in Pcs
    BY DEF TypeOK
<1>2. /\ job.todo \in SUBSET Files /\ job.queue \in SUBSET Files
      /\ DOMAIN job.ready \in SUBSET Files
    <2>1. job.ready \in Markers
        BY <1>1 DEF Job
    <2> QED BY <1>1, <2>1, MarkerTypes DEF Job
<1>3. /\ Cardinality(job.todo) \in Nat /\ Cardinality(job.todo) <= Size /\ Size \in Nat
      /\ Cardinality(job.queue) \in Nat /\ Cardinality(DOMAIN job.ready) \in Nat
    BY <1>2, FilesCount
<1>4. InLine \in 0..(2 * Size + 1)
    BY <1>3 DEF InLine
<1>5. Position \in 0..(4 * Size + 8)
    BY <1>1, <1>3, <1>4 DEF Position, Pcs
<1>6. PassesLeft \in Nat
    BY <1>3 DEF PassesLeft
<1>7. \A n, k, q \in Nat : (4 * n + 9) * k + q \in Nat
    OBVIOUS
<1> QED BY <1>3, <1>4, <1>5, <1>6, <1>7 DEF StepsLeft

\* A file leaves the line, or is taken in hand.
LEMMA InLineFalls ==
    ASSUME job \in Job,
           \/ \E f \in job.todo : job'.todo = job.todo \ {f} /\ job'.at = Nobody
           \/ job'.todo = job.todo /\ job.at = Nobody /\ job'.at # Nobody
    PROVE  InLine' < InLine
<1>1. job.todo \in SUBSET Files
    BY DEF Job
<1>2. Cardinality(job.todo) \in Nat
    BY <1>1, FilesCount
<1>3. CASE \E f \in job.todo : job'.todo = job.todo \ {f} /\ job'.at = Nobody
    <2>1. Cardinality(job'.todo) = Cardinality(job.todo) - 1
        BY <1>1, <1>3, FilesCount
    <2> QED BY <1>2, <1>3, <2>1 DEF InLine
<1>4. CASE job'.todo = job.todo /\ job.at = Nobody /\ job'.at # Nobody
    BY <1>2, <1>4 DEF InLine
<1> QED BY <1>3, <1>4

LEMMA StepInLine == TypeOK /\ PassesAreMarked /\ AtIsInLine /\ [Next]_vars => AtIsInLine'
<1> SUFFICES ASSUME TypeOK, PassesAreMarked, AtIsInLine, [Next]_vars PROVE AtIsInLine'
    OBVIOUS
<1> USE DEF AtIsInLine, NoJob
<1>1. job \in Job /\ (pc = "check" => job.at = Nobody)
    BY DEF TypeOK, PassesAreMarked
<1> USE DEF Job
<1>2. CASE Turn BY <1>1, <1>2 DEF Turn
<1>3. CASE PersonEdits BY <1>1, <1>3 DEF PersonEdits
<1>4. CASE RogueWrites \/ RogueStopped BY <1>1, <1>4 DEF RogueWrites, RogueStopped
<1>5. CASE Killed BY <1>1, <1>5 DEF Killed, InGates
<1>6. CASE Resume BY <1>1, <1>6 DEF Resume
<1>7. CASE BeginReplay BY <1>1, <1>7 DEF BeginReplay
<1>8. CASE BackUp BY <1>1, <1>8 DEF BackUp, AlreadyBackedUp, OpenBackup, Ready
<1>9. CASE BackedUp BY <1>1, <1>9 DEF BackedUp, Ready
<1>10. CASE NotReplayable BY <1>1, <1>10 DEF NotReplayable
<1>11. CASE NothingToReplay BY <1>1, <1>11 DEF NothingToReplay
<1>12. CASE Mark \/ MarkFails BY <1>1, <1>12 DEF Mark, MarkFails, BackupsDone, Pass
<1>13. CASE WriteEarliest BY <1>1, <1>13 DEF WriteEarliest
<1>14. CASE EarliestWritten BY <1>1, <1>14 DEF EarliestWritten
<1>15. CASE CannotSwap BY <1>1, <1>15 DEF CannotSwap, ToRestore
<1>16. CASE GatesRun BY <1>1, <1>16 DEF GatesRun, InGates, ToRestore
<1>17. CASE GateEscapes BY <1>1, <1>17 DEF GateEscapes, InGates, ToRestore
<1>18. CASE Checked BY <1>1, <1>18 DEF Checked
<1>19. CASE AlreadyHead BY <1>1, <1>19 DEF AlreadyHead
<1>20. CASE WriteHead BY <1>1, <1>20 DEF WriteHead
<1>21. CASE HeadWritten BY <1>1, <1>21 DEF HeadWritten
<1>22. CASE CannotRestore BY <1>1, <1>22 DEF CannotRestore
<1>23. CASE RestoreStops \/ ResumeRestored BY <1>1, <1>23 DEF RestoreStops, ResumeRestored
<1>24. CASE PassEnds BY <1>1, <1>24 DEF PassEnds, RestoreDone, NextPass, Pass
<1>25. CASE Clear \/ ClearFails \/ Record \/ Fails BY <1>1, <1>25 DEF Clear, ClearFails, Record, Fails
<1>26. CASE UNCHANGED vars BY <1>1, <1>26 DEF vars
<1> QED BY <1>2, <1>3, <1>4, <1>5, <1>6, <1>7, <1>8, <1>9, <1>10, <1>11, <1>12, <1>13, <1>14,
        <1>15, <1>16, <1>17, <1>18, <1>19, <1>20, <1>21, <1>22, <1>23, <1>24, <1>25, <1>26 DEF Next, Replay

\* A step of a replay goes on with its pass, or leaves it behind.
LEMMA StepGoesOn ==
    ASSUME TypeOK, job' \in Job, MarkersAgree, PassesAreMarked, TornIsMarked, AtIsInLine, Replay
    PROVE  \/ PassesLeft' = PassesLeft /\ Position' < Position
           \/ PassesLeft' < PassesLeft
<1>1. /\ job \in Job /\ pc \in Pcs /\ Size \in Nat /\ Size' = Size
      /\ InLine \in 0..(2 * Size + 1) /\ PassesLeft \in Nat
    BY LeftIsNatural DEF TypeOK, Size
<1>2. InLine' \in 0..(2 * Size + 1)
    <2>1. job'.todo \in SUBSET Files
        BY DEF Job
    <2>2. Cardinality(job'.todo) \in Nat /\ Cardinality(job'.todo) <= Size
        BY <2>1, FilesCount
    <2> QED BY <1>1, <2>2 DEF InLine
<1>3. /\ job.todo \in SUBSET Files /\ job.queue \in SUBSET Files
      /\ job.ready \in Markers /\ DOMAIN job.ready \in SUBSET Files
    <2>1. job.ready \in Markers
        BY <1>1 DEF Job
    <2> QED BY <1>1, <2>1, MarkerTypes DEF Job
<1>4. pc = "backup" => \A f \in Files : tree[f] \in Versions
    BY MarkerTypes DEF TypeOK, MarkersAgree, TornIsMarked, TornFiles, Torn
<1> DEFINE SamePass == /\ job'.batch = job.batch /\ job'.ready = job.ready
                       /\ job'.queue = job.queue
<1>5. CASE BackUp \/ BackedUp \/ NotReplayable
    <2>1. pc = "backup" /\ pc' = "backup"
        BY <1>5 DEF BackUp, BackedUp, NotReplayable
    <2>2. InLine' < InLine
        <3>1. CASE BackUp
            <4>1. PICK f \in job.todo : job' = Ready(f) \/ job' = [job EXCEPT !.at = f]
                BY <3>1 DEF BackUp, AlreadyBackedUp, OpenBackup
            <4>2. f \in Files /\ tree[f] \in Versions /\ f # Nobody
                BY <1>3, <1>4, <2>1, NobodyAssumption
            <4>3. CASE job' = Ready(f)
                BY <1>1, <4>2, <4>3, ReadyIs, InLineFalls
            <4>4. CASE job' = [job EXCEPT !.at = f]
                <5>1. job'.todo = job.todo /\ job'.at = f /\ job.at = Nobody
                    BY <1>1, <3>1, <4>4 DEF Job, BackUp
                <5> QED BY <1>1, <4>2, <5>1, InLineFalls
            <4> QED BY <4>1, <4>3, <4>4
        <3>2. CASE BackedUp
            <4>1. job.at \in job.todo /\ job' = Ready(job.at)
                BY <2>1, <3>2 DEF BackedUp, AtIsInLine
            <4>2. job.at \in Files /\ tree[job.at] \in Versions
                BY <1>3, <1>4, <2>1, <4>1
            <4> QED BY <1>1, <4>1, <4>2, ReadyIs, InLineFalls
        <3>3. CASE NotReplayable
            <4>1. PICK f \in job.todo : job' = [job EXCEPT !.at = Nobody, !.todo = @ \ {f}]
                BY <2>1, <3>3 DEF NotReplayable, AtIsInLine
            <4>2. job'.todo = job.todo \ {f} /\ job'.at = Nobody
                BY <1>1, <4>1 DEF Job
            <4> QED BY <1>1, <4>2, InLineFalls
        <3> QED BY <1>5, <3>1, <3>2, <3>3
    <2> QED BY <1>1, <2>1, <2>2 DEF PassesLeft, Position
<1>6. CASE NothingToReplay \/ MarkFails
    <2>1. pc = "backup" /\ pc' \in {"recording", "failing"}
        BY <1>6 DEF NothingToReplay, MarkFails, BackupsDone
    <2> QED BY <1>1, <2>1 DEF PassesLeft, Passing
<1>7. CASE Mark
    <2>1. pc = "backup" /\ pc' = "swap" /\ job'.batch /\ job'.ready = job.ready
        BY <1>1, <1>7 DEF Mark, BackupsDone, Pass, Job
    <2>2. Cardinality(DOMAIN job.ready) \in Nat /\ Cardinality(DOMAIN job.ready) <= Size
        BY <1>3, FilesCount
    <2> QED BY <1>1, <2>1, <2>2 DEF PassesLeft, Passing
<1>8. CASE WriteEarliest \/ EarliestWritten \/ AlreadyHead \/ WriteHead \/ HeadWritten \/ CannotRestore
    <2>1. pc \in {"swap", "restore"} /\ pc' = pc
        BY <1>8 DEF WriteEarliest, EarliestWritten, AlreadyHead, WriteHead, HeadWritten, CannotRestore
    <2>2. SamePass
        BY <1>1, <1>8 DEF WriteEarliest, EarliestWritten, AlreadyHead, WriteHead, HeadWritten,
           CannotRestore, Job
    <2>3. InLine' < InLine
        <3>1. CASE EarliestWritten \/ AlreadyHead \/ HeadWritten \/ CannotRestore
            <4>1. job.at # Nobody => job.at \in job.todo
                BY <2>1 DEF AtIsInLine
            <4>2. PICK f \in job.todo : job'.todo = job.todo \ {f} /\ job'.at = Nobody
                <5>1. CASE EarliestWritten
                    BY <1>1, <4>1, <5>1 DEF EarliestWritten, Job
                <5>2. CASE HeadWritten
                    BY <1>1, <4>1, <5>2 DEF HeadWritten, Job
                <5>3. CASE AlreadyHead
                    BY <1>1, <5>3 DEF AlreadyHead, Job
                <5>4. CASE CannotRestore
                    <6>1. PICK f \in job.todo :
                              job' = [job EXCEPT !.at = Nobody, !.todo = @ \ {f}, !.problem = TRUE]
                        BY <4>1, <5>4 DEF CannotRestore
                    <6> QED BY <1>1, <6>1 DEF Job
                <5> QED BY <3>1, <5>1, <5>2, <5>3, <5>4
            <4> QED BY <1>1, <4>2, InLineFalls
        <3>2. CASE WriteEarliest \/ WriteHead
            <4>1. PICK f \in job.todo : job' = [job EXCEPT !.at = f] /\ job.at = Nobody
                BY <3>2 DEF WriteEarliest, WriteHead
            <4>2. job'.todo = job.todo /\ job'.at = f /\ f # Nobody
                BY <1>1, <1>3, <4>1, NobodyAssumption DEF Job
            <4> QED BY <1>1, <4>1, <4>2, InLineFalls
        <3> QED BY <1>8, <3>1, <3>2
    <2>4. PassesLeft' = PassesLeft
        BY <2>1, <2>2 DEF PassesLeft, Passing
    <2> QED BY <1>1, <1>2, <2>1, <2>3, <2>4 DEF Position
<1>9. CASE CannotSwap \/ GatesRun \/ GateEscapes
    <2>1. pc = "swap" /\ pc' = "check"
        BY <1>9 DEF CannotSwap, GatesRun, GateEscapes, InGates, ToRestore
    <2>2. SamePass
        BY <1>1, <1>9 DEF CannotSwap, GatesRun, GateEscapes, InGates, ToRestore, Job
    <2>3. PassesLeft' = PassesLeft
        BY <2>1, <2>2 DEF PassesLeft, Passing
    <2> QED BY <1>1, <2>1, <2>3 DEF Position
<1>10. CASE Checked
    <2>1. pc = "check" /\ pc' \in {"restore", "failing"}
        BY <1>10 DEF Checked
    <2>2. SamePass
        BY <1>1, <1>10 DEF Checked, Job
    <2>3. PassesLeft' = PassesLeft \/ (PassesLeft' = 0 /\ pc' = "failing")
        BY <2>1, <2>2 DEF PassesLeft, Passing
    <2>4. Position' < Position
        BY <1>1, <1>2, <2>1 DEF Position
    <2> QED BY <1>1, <2>3, <2>4
<1>11. CASE RestoreStops \/ ResumeRestored
    <2>1. pc = "restore" /\ pc' \in {"failing", "clear"}
        BY <1>11 DEF RestoreStops, ResumeRestored, RestoreDone
    <2>2. PassesLeft' = 0 /\ Position' < Position
        BY <1>1, <2>1 DEF PassesLeft, Passing, Position
    <2> QED BY <1>1, <2>2
<1>12. CASE PassEnds
    <2>1. pc = "restore" /\ job.then = "replay"
        BY <1>12 DEF PassEnds, RestoreDone
    <2>2. CASE pc' = "clear"
        <3>1. PassesLeft' = 0 /\ Position' < Position
            BY <1>1, <2>1, <2>2 DEF PassesLeft, Passing, Position
        <3> QED BY <1>1, <3>1
    <2>3. ASSUME NEW queue \in SUBSET DOMAIN job.ready, NextPass(queue),
                 (queue = DOMAIN job.ready /\ job.batch) \/ queue = job.queue
          PROVE  PassesLeft' < PassesLeft
        <3>1. PICK f \in queue : /\ pc' = "swap"
                                /\ job' = [Pass({f}) EXCEPT !.batch = FALSE, !.queue = queue \ {f}]
            BY <2>3 DEF NextPass
        <3>2. ~job'.batch /\ job'.queue = queue \ {f}
            BY <1>1, <3>1 DEF Pass, Job
        <3>3. /\ Cardinality(queue \ {f}) = Cardinality(queue) - 1
              /\ Cardinality(queue) \in Nat /\ Cardinality(DOMAIN job.ready) \in Nat
            BY <1>3, FilesCount
        <3>4. Cardinality(queue) <= Cardinality(DOMAIN job.ready)
            BY <1>3, FilesAssumption, FS_Subset
        <3>5. PassesLeft' = Cardinality(queue) - 1
            BY <3>1, <3>2, <3>3 DEF PassesLeft, Passing
        <3>6. Cardinality(queue) <= PassesLeft
            BY <2>1, <2>3, <3>3, <3>4 DEF PassesLeft, Passing
        <3> QED BY <1>1, <3>3, <3>5, <3>6
    <2>4. job.queue \subseteq DOMAIN job.ready
        BY <2>1 DEF PassesAreMarked, MarkersAgree, Passing
    <2>5. \/ NextPass(DOMAIN job.ready) /\ job.batch
          \/ NextPass(job.queue)
          \/ pc' = "clear"
        BY <1>12 DEF PassEnds, OneByOne
    <2> QED BY <2>2, <2>3, <2>4, <2>5
<1>13. CASE Clear \/ ClearFails \/ Record \/ Fails
    <2>1. \/ pc = "clear" /\ pc' \in {"working", "recording", "failing"}
          \/ pc = "recording" /\ pc' \in {"working", "failing"}
          \/ pc = "failing" /\ pc' = "off"
        BY <1>13 DEF Clear, ClearFails, Record, Fails
    <2> QED BY <2>1 DEF PassesLeft, Passing, Position
<1> QED BY <1>5, <1>6, <1>7, <1>8, <1>9, <1>10, <1>11, <1>12, <1>13 DEF Replay

\* What does not belong to a replay, beside a process that is in one: its end, or
\* a gate left running.
LEMMA OthersLeaveTheCount ==
    ASSUME TypeOK, [Next]_vars, ~Replay, pc \notin {"off", "working"}
    PROVE  StepsLeft' <= StepsLeft
<1>1. StepsLeft \in Nat
    BY LeftIsNatural
<1>2. CASE Killed
    <2>1. pc' = "off"
        BY <1>2 DEF Killed
    <2>2. PassesLeft' = 0 /\ Position' = 0 /\ Size' = Size /\ Size \in Nat
        BY <2>1, LeftIsNatural DEF PassesLeft, Passing, Position, Size
    <2>3. \A n \in Nat : (4 * n + 9) * 0 + 0 = 0
        OBVIOUS
    <2>4. StepsLeft' = 0
        BY <2>2, <2>3 DEF StepsLeft
    <2> QED BY <1>1, <2>4
<1>3. CASE RogueWrites \/ RogueStopped \/ UNCHANGED vars
    <2>1. pc' = pc /\ job' = job
        BY <1>3 DEF RogueWrites, RogueStopped, vars
    <2>2. StepsLeft' = StepsLeft
        BY <2>1 DEF StepsLeft, PassesLeft, Passing, Position, InLine, Size
    <2> QED BY <1>1, <2>2
<1>4. CASE Turn \/ BeginReplay \/ Resume \/ PersonEdits
    BY <1>4 DEF Turn, BeginReplay, Resume, PersonEdits
<1> QED BY <1>2, <1>3, <1>4 DEF Next

\* The count is a natural number that every operation of a replay lowers, so each
\* replay and each restore ends or stands still: the part of ReplayEnds that is
\* not fairness, for any number of files and whatever a gate left writes.
THEOREM ReplaysRunOut == Spec => [](StepsLeft \in Nat) /\ EveryStepSpends
<1> DEFINE Left == /\ Position \in 0..(4 * Size + 8) /\ PassesLeft \in Nat
                   /\ Size \in Nat /\ StepsLeft \in Nat
           Spends == /\ Replay => StepsLeft' < StepsLeft
                     /\ pc \notin {"off", "working"} => StepsLeft' <= StepsLeft
<1>1. IInv => Left
    BY LeftIsNatural DEF IInv
<1>2. Init => AtIsInLine
    BY DEF Init, AtIsInLine
<1>3. IInv /\ AtIsInLine /\ [Next]_vars => AtIsInLine'
    BY StepInLine DEF IInv
<1>4. IInv /\ AtIsInLine /\ Left /\ IInv' /\ Left' /\ [Next]_vars => [Spends]_vars
    <2> SUFFICES ASSUME IInv, AtIsInLine, Left, IInv', Left', [Next]_vars PROVE Spends
        OBVIOUS
    <2>1. ASSUME Replay PROVE StepsLeft' < StepsLeft
        <3>1. TypeOK /\ job' \in Job /\ MarkersAgree /\ PassesAreMarked /\ TornIsMarked
            BY DEF IInv, TypeOK
        <3>2. (PassesLeft' = PassesLeft /\ Position' < Position) \/ PassesLeft' < PassesLeft
            BY <2>1, <3>1, StepGoesOn
        <3>3. Size' = Size
            BY DEF Size
        <3>4. /\ StepsLeft = (4 * Size + 9) * PassesLeft + Position
              /\ StepsLeft' = (4 * Size + 9) * PassesLeft' + Position'
            BY <3>3 DEF StepsLeft
        <3>5. ASSUME NEW n \in Nat, NEW r \in Nat, NEW s \in Nat,
                     NEW p \in 0..(4 * n + 8), NEW q \in 0..(4 * n + 8),
                     (s = r /\ q < p) \/ s < r
              PROVE  (4 * n + 9) * s + q < (4 * n + 9) * r + p
            <4> DEFINE w == 4 * n + 9
            <4>1. w \in Nat /\ p \in Nat /\ q \in Nat /\ q < w
                OBVIOUS
            <4> HIDE DEF w
            <4>2. CASE s = r /\ q < p
                <5>1. w * s = w * r /\ w * r \in Nat
                    BY <4>1, <4>2
                <5> QED BY <4>1, <4>2, <5>1 DEF w
            <4>3. CASE s < r
                <5>1. w * (s + 1) <= w * r /\ w * (s + 1) = w * s + w /\ w * s \in Nat /\ w * r \in Nat
                    BY <4>1, <4>3
                <5> QED BY <4>1, <5>1 DEF w
            <4> QED BY <3>5, <4>2, <4>3
        <3>6. /\ Position \in 0..(4 * Size + 8) /\ Position' \in 0..(4 * Size + 8)
              /\ PassesLeft \in Nat /\ PassesLeft' \in Nat /\ Size \in Nat
            BY <3>3
        <3> QED BY <3>2, <3>4, <3>5, <3>6, Zenon
    <2>2. ASSUME pc \notin {"off", "working"} PROVE StepsLeft' <= StepsLeft
        <3>1. StepsLeft \in Nat /\ StepsLeft' \in Nat
            OBVIOUS
        <3>2. CASE Replay
            BY <2>1, <3>1, <3>2
        <3>3. CASE ~Replay
            <4>1. TypeOK
                BY DEF IInv
            <4> QED BY <2>2, <3>3, <4>1, OthersLeaveTheCount
        <3> QED BY <3>2, <3>3
    <2> QED BY <2>1, <2>2
<1>5. Left => StepsLeft \in Nat
    OBVIOUS
<1>6. [Spends]_vars => [ /\ Replay => StepsLeft' < StepsLeft
                         /\ pc \notin {"off", "working"} => StepsLeft' <= StepsLeft ]_vars
    OBVIOUS
<1> HIDE DEF Left, Spends
<1> QED BY <1>1, <1>2, <1>3, <1>4, <1>5, <1>6, Invariant, PTL DEF EveryStepSpends, Spec

=============================================================================
