# A verified model of vibe's run

`vibe` drives a coding run: a planner and a critic argue about a plan, a writer
implements it, gates verify it, a reviewer reads it, a fixer fixes, and everything
is written to `state.json` so that a run killed at any point can be resumed. A
desktop app drives the same run through a host process, and a phone drives the
desktop. This directory models that machinery in TLA+. TLC checks the models on
small instances; TLAPS proves what matters most for every instance.
`PROJECT.json` lists the components, the runs, the mutants (a plausible bug per
property, which the property catches), the source lines of every definition, the
hazards, the findings and the theorems.

Paths below are relative to the repository's `src/` directory of TypeScript
unless they start with `docs/` or `app/`; those of remote access are relative to
`app/src-tauri/src/remote/`.

## Running it

    tlc -workers 2 -config MCPlanLoop.cfg MCPlanLoop    # any run of the table below
    tlapm RunLock_proofs.tla                            # any *_proofs module

## The system

### Components, their state and their operations

| Component | State it keeps | Operations |
|---|---|---|
| **Run loop** (`orchestrator.ts`: `runPhases`) | `state.phase`: planning, implementing, reviewing, complete | plan, implement, review; each phase is entered by a save |
| **Plan loop** (`planPhase`, `revisePlan`, `resolveQuestions`, `approvePlan`, `guardProgress`) | plan, `planRound`, `questionRound`, `pendingFindings`, `pendingAnswers`, `advisoryAnswers`, `answeredQuestions`, `planStalls`, `carried`, `planRevisedByAnswer` | draft, ask the answerer, revise, critique, judge, step back, approve |
| **Review loop** (`reviewPhase`, `runFixRound`, `runFinalFix`, `runGate`) | `reviewRound`, `verifyRound`, `pendingFindings`, `fixInFlight`, `finalFixDone`, the round histories | gate, verify-fix, review, fix round, final fix, confirm |
| **Stops and resumes** (`cli.ts`: `execute`, `cmdResume`, `resumeRun`; `raise.ts`, `answers.ts`) | `NEEDS-INPUT.md`, `state.status` | save then write the file; read answers, moves and raised findings; merge; retire the file |
| **Run lock** (`lock.ts`, `worktree.ts`, `run.ts`) | `run.lock` and the run directory | acquire, look at the others again, release, delete a run |
| **Ending stamp** (`ending.ts`) | `ending.json` | installed at the start of work, written by a signal handler |
| **Turn charging** (`charge.ts`, `progress.ts`, `context.ts`, `cli.ts`) | totals and `inFlight` in `state.json` | begin a turn, beat, charge, retry, rotate a session, recover what a killed process left |
| **Seat groups** (`seat-group.ts`, `cancel.ts`, `proc.ts`) | the group's failure, the cancel latch, the registries of children and waits | run seats at most `maxParallel` at once, stop a group, stop the run |
| **Convergence and stall** (`run.ts`) | histories of rounds | `assessConvergence`, `planStall`, `stallAction`, `roundRepeated`, over each recorded round |
| **Conversation slots** (`slots.ts`, `context.ts`, `claude.ts`, `codex.ts`, `fork.ts`) | one session id and its debts (registration, owed forks, handoff) per role | mint, register, resume, fork, give up, rotate |
| **Test replay** (`test-replay.ts`) | `state.testReplayInFlight`, backups, files swapped in the working tree | swap, run, restore, restore after a kill |
| **Serve host** (`serve.ts`, `protocol.ts`; `app/src/cockpit/hosts.ts`) | one run at a time, pause and stop requests, gates awaiting an answer | the NDJSON requests of the desktop app |
| **Remote access** (`mod.rs`, `pairing.rs`, `handshake.rs`, `endpoint.rs`, `bridge.rs`, `store.rs`, `settings.rs`) | the switch, the endpoint, the list of paired phones, a code and its prompt, the connections | pair, connect, switch on and off, change the relay, revoke, unpair |
| **Votes, finder merge, judge** (`vote.ts`, `finder-merge.ts`, `judge.ts`) | ballots and claims of one round | pure, once the seats have answered |
| **Git, worktrees, forks** (`git.ts`, `worktree.ts`, `fork.ts`, `work.ts`) | branches, checkpoint refs, worktrees | commit, checkpoint, create, fork a run at a round |
| **Verification gates** (`verify.ts`, `gates.ts`) | attempts of one gate | run, classify flaky or failing |
| **Desktop app** (`app/src`, `app/src-tauri`): views, host table, pilot, updater | views, chats, children, a download | spawn and reap hosts, show what they say; no run state of their own |
| Roles, configuration, prompts, schemas, validation, reports | none that changes | sequential functions of their input |

### How they interact

`vibe run` and `vibe resume` take the lock, look at every other run in the
repository before and after writing it, install the ending stamp, recover the
spend a dead process left in the in-flight list, put back the tests a dead process
left swapped, and call `runPhases`. A phase dispatches turns; a round with several
seats runs them as a seat group; each turn is sent to the conversation its slot
says. Every turn puts an entry in the in-flight list when it starts and is charged
when it ends, and the charge asks the ceilings. A phase that cannot go on throws
an `Escalation`; `execute` saves the record, **then** writes `NEEDS-INPUT.md`,
then releases the lock. A person edits the file, or the tree, and resumes. The
processes share nothing but files.

The desktop app starts a run by an `invoke` request to a `vibe serve` child and
folds the frames it sends back; a run asks the host at its boundaries whether to
pause and waits at a gate for an answer. A paired phone sends the same requests
through the desktop's endpoint.

### What is hard

* **Crashes.** Between any two saves a kill is possible, and the next process
  knows only `state.json` and the files. What is bought and not yet consumed
  (answers, findings, a fix in flight, a spend figure, an opened conversation)
  must be neither lost nor used twice.
* **Interleaving.** Seat turns, the rotation beside a turn and the heartbeat
  share one `RunState`, one await at a time; several `vibe` commands share one
  directory, one file operation at a time; in the desktop app's remote access
  tasks, handlers of connections and the window share state under three locks.
* **Order.** A verdict is about the tree, the draft or the findings as they were,
  an answer about the gate that was open; what is read later may be of another
  draft, another round, another tree or another gate.
* **Partial failure.** A save that throws, a child that dies, a seat whose
  sibling failed first, a commit that fails, a keychain that cannot be read.
* **Termination.** Several counters bound the loops together, and a resume
  restarts them in the middle.

Per component, what makes it correct is the list of properties in the sections
below; `PROJECT.json` lists every hazard at its line with the properties aimed at
it, and those no property covers with the reason.

## The modules

| Module | Models | Proofs |
|---|---|---|
| `SeatGroup` | one seat group and both stops | `Stops_proofs` |
| `RunLock` | lock, two looks, release, deletion, ending stamp | `RunLock_proofs` |
| `PlanLoop` | planning, questions, stall check, escalation and resume | `PlanLoop_proofs` |
| `ReviewLoop` | implementation, verify/review/fix loop, escalation and resume | `Rounds_proofs` |
| `RunPhases` | abstract: what `state.phase` promises; `PlanLoop` and `ReviewLoop` implement it | `PlanLoop_proofs`, `Rounds_proofs` |
| `TurnCharge` | charging, in-flight list, rotation, ceilings, recovery | `TurnCharge_proofs` |
| `Convergence` | the judgement of one recorded round after another | `Rounds_proofs` |
| `Slots` | which conversation a turn is sent to, in a run and its forks | `Slots_proofs` |
| `TestReplay` | swapping edited tests, running the gates, restoring | `TestReplay_proofs` |
| `HeadTests` | abstract: what a run promises of its tests; `TestReplay` implements it | `TestReplay_proofs` |
| `ServeHost` | a host's session, the run's boundaries, a client's drawing | `Stops_proofs` |
| `RemotePairing` | how a phone gets on the list | `RemoteAccess_proofs` |
| `RemoteAccess` | the switch, the endpoint, connections and removals, with `RemotePairing` | `RemoteAccess_proofs` |

Each `MC…` module fixes the constants for TLC. `RemoteAccess` extends
`RemotePairing` and shares its variables; the other modules do not share
variables. Where two components meet, one has the other's contribution as a
constant or as a nondeterministic choice: `PlanRounds` in `ReviewLoop` is what
planning left in the history; the trend's verdict in `PlanLoop` and `ReviewLoop`
covers what `Convergence` computes (proved where a theorem can say it, see
"What is proved"); and a turn's outcome in both covers everything
`SeatGroup` and `TurnCharge` may do to it.

`Stops_proofs` joins the two modules in which a stop or a late answer may come at
any point of what it is for, `Rounds_proofs` the review loop and the judgement of
its rounds. Names that two modules of such a pair would share carry the component's
name (`HistorySpec`, `HostSpec`).

A definition beside an action with a similar name that no `Next` uses
(`RefuseWithoutRelease` beside `Refuse`) is that action with one mistake in it:
the mutant `PROJECT.json` names for a property.

### SeatGroup

One step is what one Node callback does between two awaits. A worker is at the
loop's test, awaiting a task, or returned (`runSeatGroup`); a task spawns a child
(`proc.run`: the refusal after a stop and the registration are one callback),
waits for it, may sleep out a rate limit (`cancel.ts`), and settles. `reason` is
the run's latch, `groupReason` the group's. The first failure stops the group. A
person's stop can come at any point of it, or before it starts.

* `StopReachesEverything`: after a stop no child runs and no sleep is pending.
* `NothingOutlivesTheGroup`: when the group settles nothing of it is in flight.
* `CancelledIsAPersons`: a sibling's `Cancelled` is never the group's outcome.
* `OnlyAChildHoldsTheRound` (liveness): nothing but a child that does not end can
  hold a round.

### RunLock

A process is one command, `run`, `resume` or delete, acquiring at most once, and
a step is one of its file operations. `acquireLock` reads its verdict
(`ReadLock`), truncates (`OpenLock`) and writes (`WriteLock`) in three steps, so
two processes can interleave anywhere between them, and a kill between the last
two leaves a torn lock. `release` re-reads (`Reread`) and unlinks (`Unlink`) in
two, `deleteRun` asks and removes in two. `livenessOf`'s read and its probe of
the process are one step; a process id is never reused; a start's run id is
fresh. Hosts differ, so a lock can be of a process that cannot be probed.

* `OneRunPerCheckout`: the second look works. Two processes that both hold the
  lock they wrote are never driving two runs in one checkout.
* `ALockMeansLiveOrKilled`: what a refusal or an end leaves.
* `EndingsAreTold`: what `howItEnded` says of the dead process a lock names, from
  the lock and the stamp beside it, is what became of it: stopped from outside if
  nothing is stamped, gone by itself if the stamp is its own. A stamp the last
  process left, that `installEndingStamp` could not remove, is not taken for the
  next one's. A process leaves a stamp on a signal (`Signal`) or from the exit
  listeners, which run in the order they were added: the lock's releases first
  (`ExitReread`, `ExitUnlink`), then the stamp's writes (`StampExit`). The one
  exception is in the property: a process that takes a run up under somebody
  else's lock (`--force`, or the race below) removes the stamp that lock's
  process left. `succeeded`, a history variable, remembers it.

What the code does **not** promise shows in how these are stated: `lock.ts` calls
the lock a refusal and not a mutex. Two resumes of one run can both pass, the
second overwriting the first's lock, and a writer between `Reread` and `Unlink`
loses its lock to somebody else's release. `OneRunPerCheckout` speaks of
processes whose own lock is on disk.

### PlanLoop

`run` is the durable record and every action is the code from one write of it to
the next, so what a process has in memory equals `run` between actions and
`Killed` loses only `pc` and `job` (the locals). A draft is its number, a list of
findings is the verdict the gate gives it (`clean`, `tolerated`, `blocking`), a
question one class of wordings. `WriteNeedsInput` is a step of its own after the
throw, as in `execute`; `TakeAnswers` and `RetireFile` are the resume's save and
rename. `ResumeWithEdits` is a person answering any subset of what was asked,
raising a finding, demoting or promoting, all at one stop.
`ContinueIntoImplementation` is `vibe resume --implement` of a plan-only run that
is complete: one save clears `run.planOnly` and opens the run again, and what
follows is the review loop's (`pc = "done"`). `seen` is history,
which no action reads. `Settings` is the set of configurations a run may have;
a behaviour keeps the one `Init` chose, `planOnly` apart.

* `AnswersAreDelivered`, `FindingsAreConsumed`: nothing bought or given is lost
  or dropped unread.
* `DeclinedReachesAPerson`: a blocking question the answerer declined has been
  put to a person before anything is implemented. One exception is named in it:
  the question is marked answered by one save and handed over by a later write,
  and a kill between the two loses it.
* `ApprovalIsOfThisDraft`: the plan implemented is the draft a critic passed, or
  one whose findings a person moved on that very draft.
* `SteppedBackBeforeAsking`: the two steps of `docs/how-it-works.md`, "A plan
  loop that stops converging". One exception is named in it: a request to step
  back that is waiting when a person accepts the findings it came with is never
  sent, and a kill may undo the approval and leave the request
  (`seen.accepted`).
* `PlanningEnds` (liveness): a process left alone ends.
* `KeepsThePhases`: the refinement of `RunPhases` up to the implementation: of a
  run like any other, or of a plan-only one that is told to go on. It is in no
  run's list, being proved; TLC was asked once, with the constants of `plan_loop`.

Abstracted: the trend is a nondeterministic verdict once there are enough records
for it; decisions on assumptions; an answerer that omits a blocking question,
which passes silently in the code too. `ApprovalIsOfThisDraft` excepts by name
one case: a person demoting a finding raised before there was any draft has the
first draft approved unread.

### ReviewLoop and RunPhases

Built the same way. A list of findings is `none`, `minor`, `worth` or
`blocking`; the working tree is whether the last gate pass still covers it
(`seen.gated`), which every write turn, a half-done turn and an edit by a person
while the run is stopped undo. A commit may fail.

* `DoneIsVerified`, `DoneIsApproved`: what completion means.
* `RoundsAreBounded`, `ReviewEnds`: verify fixes and fix rounds cannot alternate
  for ever, and a resume buys at most the one round it found waiting.
* `FixAnswersItsReview`: a fix turn taken up again keeps its review's number.
* `KeepsThePhases`: the refinement of `RunPhases` from the implementation on, with `phase` the stored one
  and `working` whether a process has the run. A run that got here is plan-only no
  longer, so `planOnly` is false: `RunPhases` opens a complete run again only when
  it was plan-only, which is `PlanLoop`'s part.

Reproducers, dispositions, confirmations and artifacts are records nothing in
this loop decides on, and are left out.

### TurnCharge

`mem` is the process's `RunState`, `disk` the `state.json` a save makes of it,
atomically; a save may fail. A label is a dispatched turn (`Claude`'s stream
their spend, Codex's report it at the end) or the rotation's handoff turn, which
may run beside a turn (`withConcurrentCompaction`). `Line` and `Beat` are a
stream line and the heartbeat; `ChildEnds`, `ChargeOk`, `ChargeAndRetry`,
`ChargeAndThrow` follow `takeInFlight`, `applyCharge`, `chargeFailure` and
`enforceCeilings`; `Recover` is `recoverInterrupted`.

* `NothingChargedTwice`: totals, what recovery would still add and what was
  observed and not charged never exceed together what was spent, in memory and on
  disk.
* `NothingObservedIsLost`: what a save has recorded as observed stays accounted
  for: in flight, charged, or, when a completed turn reports less than its stream
  observed, in that charge's event (`noted`, the code's `observedTokens`).
* `NoTurnOverTheCeiling`: no turn starts over the ceiling, except where the code
  means it.

`InFlight`, the sum of the list's figures, is counted as a set of tokens. Abstracted:
one token figure and one ceiling. A completed turn reports any figure up to what it
spent, and is charged that (`charge.ts:316-334`). The exceptions are in the properties: `deferred` covers a run
resumed over its ceiling, and a rotation that crosses it beside a turn
(`context.ts:373`), whose ceiling is raised by that turn's charge or held until
the phase's work returns; a forced release charges nothing. A save that fails
between a Codex turn's result and its charge leaves it uncharged. A stop before a
spawn refuses it, so a turn begins only without one.

### Convergence

One action is one round judged as `guardProgress` judges it: the round's claims
are appended to the history, `planStall` looks at the ids, `assessConvergence` at
the claims and the counts, the cap has the last word. A claim is an id and a
wording; `Alike` is an arbitrary relation on wordings, so likeness is not
transitive. The pool of `claimsMatch` is the function `taken` of `Greedy`: each
claim takes the first partner that is the same and that no claim before it took. A history may begin with records an older build wrote, without claims
or without ids; a resume, a changed cap and a round that was judged and never
recorded may come between any two rounds.

* `GreedyPairsOff`: `claimsMatch`, a greedy pairing, finds one exactly when there
  is one. The reference definition is the existence of a bijection.
* `TrendIsStuck`: a falling count never stops the loop as off its trend; late in
  the loop a window without a fall in it is let through only if the count stood
  still, not if it rose, and the excuse "the findings turned over" buys one window
  and no more.
* `StallIsNews`: the stall check and the repetition check, which ask for opposite
  things, never both hold of one round.

### Slots

A record per slot: its id, whether it has started, whether it was registered
before its first turn, the forks it owes. A process holds a copy in memory; its
saves and checkpoints are separate steps, and a kill or a failed save can come at
each. The providers' store is external and is modelled from the flags the code
passes to the two CLIs: `--session-id` with an id that exists is refused, so is
`--resume` of one that does not, `--fork-session` copies. What a conversation
knows is the set of turns that succeeded on it or were told to it. A second run
may be forked from any checkpoint of the first (`commitFork`).

* `NoIdIsSpentTwice`: an id is handed over as new at most once.
* `ConversationsAreNotShared`: each is written by the run that opened it, and by
  one turn at a time, the rotation's beside a turn included.
* `TurnsAreBriefed`: a turn's conversation knows every earlier turn of its slot
  whose success was saved, by resuming, forking or the briefing.

### TestReplay and HeadTests

A file of the tree is a version. `runReplay` writes and reads back the backups,
saves the marker, writes the earliest versions, runs the gates over the batch and,
if they fail, over one file at a time, and restores after each pass; every file
operation is a step, each may be cut short by a kill, and the writes and saves may
fail. A resume restores first. A gate's process may escape its timeout and go on
writing the earlier bytes; a person who resumes beside it was told to stop it. A
gate also runs in a process group of its own, so a kill of vibe while the gates
run may leave it, and then nobody is told (`Killed`). Between processes a person
may edit any test, the ones a marker names too.

* `NoTurnReadsSwapped`: no turn starts on a tree that holds an earlier version,
  unless the run was resumed beside a gate's process (`seen.beside`).
* `RestoreIsPossible`: every file the saved marker names has its backup whole.
* `ReplayEnds` (liveness): a replay that nothing stops ends.
* `ReplayIsInvisible`: the refinement of `HeadTests`. The head of a test is what
  the saved marker names, or what the tree holds if the marker does not name it or
  a person has written it since (`EditedSince`). A head only ever moves to a newer
  version, with one exception that `HeadTests` has as an action of its own: what a
  person writes over a replay that was cut off, the restore takes back
  (`TakenBack`). Beside a gate's process nothing is promised.

### ServeHost

One session of `createSession` (`HostSpec`). Several clients put requests into one pipe; the
host takes them in order (`Receives` is the disjunction of the handlers), and the
run's own steps (command accepted, `execute` begun, turn, boundary, held, over)
interleave with them. An answer carries the id of the gate it is for. `draws` is
what a client folds the frames into. The end of the pipe and a `shutdown` can come
at any step.

* `StaleAnswersDecideNothing`: an answer lets go of its own gate only.
* `PauseIsOfThisRun`: a pause holds once, and never a later run.
* `LeavesWhenTold` (liveness): a host told to go goes, and waits for nothing but
  the answer to the gate it holds.

### RemotePairing and RemoteAccess

`RemotePairing` is the list of phones, the code and its one prompt, the handler of
a pairing connection (proof, prompt, wait, answer) and the yes that reads the
list, adds to it and writes it, all under the pairing lock except the handler's
wait. `RemoteAccess` adds the switch. A change of it, by the window, by a phone
or at launch, is a task: wait for the transition lock, write `remote.json`,
reconcile (stop what listens, wait for a phone's answer to reach it, read the
key, bind, install, look whether the settings moved), let go. A phone's connection
passes the hook (`Hooked`), the registration and the second check before it is
served. A revoke and an Unpair write the list and then close what is registered.
Phones may hang up, lose their connection, stop reading or say nothing at any
point.

* `RemovedIsShutOut`: once a removal is over, a removed phone is served no more,
  however the hook, the registration, the second check and the removal's steps
  interleave. The one connection the code leaves open is named in the property
  (`missed`): the window's revoke found no installed endpoint to close it in,
  while the phone was already served by one that listens before its `Running::Up`
  or after it (`mod.rs:951-954`, `NoConnections`).
* `EndpointMatchesSwitch`: when no change is under way, what listens is what the
  switch and `Running` say.
* `AnswerReachesItsPhone`: a phone that hears it is paired is the one the person
  said yes to, for the code it dialled with, and the list has been written.
* `AskerHearsFirst`: no endpoint is stopped over a connected phone that is still
  owed the answer to its own change.
* `SwitchSettles` (liveness): every change the window asks for comes to its
  answer, unless a phone whose own change stops the endpoint stays connected and,
  from some time on, reads nothing for good (`StopIsHeld`).

Budgets bound the histories: each history may use up one record of codes,
changes, removals, dials and faults, chosen at the start from `Budgets`.

## The runs

| Run | Bounds | Why they are enough | States |
|---|---|---|---|
| `seat_group` | 3 seats, 2 at once, 2 children each | a seat queued behind two that run, fail in the same tick, sleep or are stopped; a second child is a retry or a part | 43 000 |
| `run_lock` | 3 commands, 2 runs, 2 hosts, one with `--force`, one run with a worktree | two commands in conflict and a third that deletes, resumes or overwrites between their steps | 327 000 |
| `plan_loop` | 2 plan rounds, 1 question round, a blocking and an advisory question, answerer on or off; one setting plan-only; or 6 plan rounds with `stallAfter` 2 and no question; 2 resumes | each cap is reached, and a second resume can follow one that left something half done; step back, ask, and step back again after an answer; a plan-only run that is complete is told to go on | 1 284 000 |
| `review_loop` | 2 review and 2 verify rounds, 3 resumes, all holds | a fix round, a final fix, and a resume inside each | 29 000 |
| `turn_charge` | a Claude and a Codex turn, a rotation, 3 attempts, 2 resumes, 1 failed save, ceiling 1 | any two overlap, one is retried, and a recovery is itself interrupted | 848 000 |
| `convergence` | 8 rounds to choose from over 4 ids and 3 wordings, windows of 2, a trend floor of 4, 5 records | every measure sees a full window before, at and after the floor, and a record of each age | 1 090 000 |
| `slots` | a run and its fork, 3 slots, 4 conversations, 2 turns that succeed, 2 kills or failed saves | an id minted, given up and replaced, a fork that owes, a rotation beside a turn, each cut off twice | 2 490 000 |
| `test_replay` | 2 files, 2 versions beyond the earliest | a batch, one file at a time, and a file edited again after a replay | 600 000 |
| `serve_host` | 6 requests, 3 in the pipe, 3 steps of a run | two answers to one gate or a pause and its withdrawal, over two runs of one host | 568 000 |
| `remote_access` | 2 phones, 2 relays, 2 endpoint numbers, 7 budgets | any two of: a code, a change, a removal, a phone's connection, a fault; two changes over two phones | 681 000 |
| `forgotten_stop`, `fork_of_fork` | the smallest instance that shows it | one disagreement each, below | |

The longest takes three minutes. Every bound on a counter is a constant with
`Max` in its name or a field of `Budgets`, commented "bound" where the code has no
such limit. `CHECK_DEADLOCK FALSE` everywhere: a run, a group, a host and a
command end, and the bounded histories do.

### Fairness

* `PlanLoop`, `ReviewLoop`: `WF(Step)`. A live process goes on to its next write:
  the code awaits only turns, which the quiet-turn limit, the ceilings or a stop
  end. Kills, failed turns, edits and resumes get no fairness: nothing makes a
  person resume, so the liveness properties say that the process ends or the run
  is done, never that the run completes.
* `SeatGroup`: callbacks and timers run. A child need not end, and
  `OnlyAChildHoldsTheRound` says that it is the only thing that can hold a round.
* `TestReplay`: `WF(Replay)`. The process does its next file operation, and a gate
  returns because it has a timeout. A gate's process that outlives its pass need
  not do anything.
* `ServeHost`: `WF(Receives)` and `WF(RunSteps)`. The event loop takes the next
  request and the run goes on. No client need send anything, and nobody need
  answer a gate, hence the disjunct `at = "held"`.
* `RemoteAccess`: `WF` of each asker's task, of the window's revoke and of a
  phone's Unpair once the desktop has it: Rust tasks that the runtime polls. The
  wait for an acknowledgement has a ceiling of three seconds, which begins only
  once the answer has been written (`bridge.rs:296`, `306`); the write has none,
  so the action that ends the wait is not possible while the stream takes no
  bytes. It has `SF`: what is queued before an answer is finite, so a phone that
  reads again and again takes it. No phone need read, acknowledge or hang up.
* `RunLock`, `TurnCharge`, `Convergence`, `Slots`: none; their properties are
  safety.

## Findings

Each is a `violation` run: TLC shows the code doing what a comment or a document
says it does not.

| Property | Where | What happens |
|---|---|---|
| `StopIsObeyed` | `cli.ts:2283` | the host accepts a stop from the moment a command is accepted, and `execute` clears the latch when it begins: a stop in between is answered, drawn as "stopping" and forgotten |
| `OwedForksAreKept` | `slots.ts:825` | a fork forked again before its main conversation has taken a turn drops the fork it still owed, and that conversation starts empty |

### Behaviour of the code that no holding property describes

The models contain these (but for the second run in the checkout of a killed
replay, which is outside `TestReplay`), and properties are stated around them:

* a resume that locks a run between `deleteRun`'s verdict and its removal is
  deleted while it works (`run.ts:2006-2022`);
* a finding a person makes blocking once the final fix has begun is fixed and
  never reviewed (`orchestrator.ts:1793`);
* two processes that read one permitting verdict both write `run.lock`, and the
  second wins (`lock.ts:415`); a writer between `release`'s two steps loses its
  lock to the release (`lock.ts:440`);
* after a kill in a replay, another run in the same checkout reads the swapped
  tests: the marker is the killed run's (`test-replay.ts:448`);
* a gate outlives a SIGKILL or SIGTERM of vibe (`verify.ts:506-512`, `671-675`)
  and nothing on disk records it, so a resume that follows may start turns beside
  a gate that still writes the tests it was replaying;
* a resume after a replay that was cut off writes the backed-up version over what
  a person has written to that test since, and says nothing (`restoreFiles`,
  `test-replay.ts:305-306`);
* with the answerer off, advisory questions alone use up the question rounds and
  stop the run (`resolveQuestions`);
* `consistency.ts:62` and `:67` call `planOnly` immutable, `createRun` its only
  writer; `continueIntoImplementation` clears it (`run.ts:2087`);
* `state.carried` is not cleared when a run killed after its approval plans again
  (`orchestrator.ts:1198`), and the phase is saved before the planning history is
  reset (`orchestrator.ts:1045`), so a kill between leaves it in the review's;
* an Unpair, a revoke and a yes each load `remote-paired.json` and write it back
  with no lock in common: the later write undoes the earlier (`store.rs:97`);
* a challenge that cannot be written (`handshake.rs:210`) or an endpoint that
  stops leaves the prompt up, and `begin_code` has declined the waiting phone
  before its read of the keychain can fail;
* a revoke from the window while `Running` is off or starting closes no
  connection (`mod.rs:951-954`): a phone served by an endpoint that listens and is
  not installed yet stays served after the install, and one served by an endpoint
  about to stop until it stops. The comment at `endpoint.rs:240-241` ("a revoke
  after that point finds and closes it") speaks of an installed endpoint;
* a phone that turns remote access off and stays connected without reading holds
  the transition lock (`mod.rs:614`), and every change behind it, for as long as
  it does: `WRITTEN_CEILING` bounds the acknowledgement, not the write before it
  (`bridge.rs:296`), against its comment at `bridge.rs:99-102`.

## What is proved

All for every value of the constants that satisfies the modules' named
assumptions (caps and bounds are naturals, sets of processes or turns arbitrary).

| Theorem | Says |
|---|---|
| `Stops_proofs!GroupTypes`, `StopReachesAll`, `GroupIsStructured`, `SiblingStopIsNotAnOutcome`, `AtMostLimit` | of `SeatGroup`: types, the three safety properties of a stop, and that the group's counter is the number of seats in flight, at most the width, for any number of seats and any width |
| `Stops_proofs!HostTypes`, `HostIsOrdered`, `LateAnswersDecideNothing`, `PausesHoldTheirRun` | of `ServeHost`: types, its invariant, and both safety properties of `serve_host` |
| `RunLock_proofs!TypeCorrect`, `CheckoutExclusion`, `LocksAreKept`, `EndingsAreToldAsTheyWere` | types; the second look excludes; locks outlive only the killed; an ending is told as it was |
| `PlanLoop_proofs!TypeCorrect`, `AnswersReachARevision`, `DeclinedIsHandedOver`, `ApprovalIsCurrent`, `StepsBackFirst`, `FindingsLeaveAnswered`, `ImplementsRunPhases`, `RoundsRunOut` | types, every safety property of `plan_loop`, the refinement of `RunPhases`, and that a process takes boundedly many steps |
| `Rounds_proofs!TypeCorrect`, `CompletionIsVerified`, `CompletionIsApproved`, `CapsHold`, `RetriesKeepTheirRound`, `ImplementsRunPhases`, `RoundsRunOut` | of `ReviewLoop`: types, every safety property of `review_loop`, the refinement of `RunPhases`, and that a process takes boundedly many steps |
| `Rounds_proofs!HistoryIsJudged`, `GreedyIsExact`, `ClaimsPairOff`, `TrendStopsOnlyTheStuck`, `StallsAreNews` | of `Convergence`: its invariant, what the greedy match computes, and the three properties of `convergence`, for histories of any length |
| `Rounds_proofs!RepeatsAreOfOneSet`, `StallsAlternateApart`, `LoopTakesEveryVerdict` | what the two loops take for granted of the judgement |
| `TurnCharge_proofs!TypeCorrect`, `TheBrakeHolds`, `NoTokenIsChargedTwice`, `NoFigureIsLost` | types and the three properties of `turn_charge` |
| `Slots_proofs!TypeCorrect`, `IdsAreSpentOnce`, `OneWriterEach`, `TurnsKnowTheirSlot`, `OneForkKnowsItsSlots`, `ForksAreOwedOrKept` | types and the three properties of `slots`, the third as stated below |
| `TestReplay_proofs!TypeCorrect`, `TurnsReadHeads`, `EveryMarkIsBackedUp`, `ReplayKeepsHeads`, `ReplaysRunOut` | types, the two invariants of `test_replay`, the refinement of `HeadTests`, and that a replay takes boundedly many steps |
| `RemoteAccess_proofs!TypeCorrect`, `AnswersReachTheirPhone`, `RemovedStaysOut`, `SwitchIsObeyed`, `AskersAreAnswered` | types and every safety property of `remote_access` |

The arguments, each an inductive invariant stated in the proof module:

* **SeatGroup.** `GroupInv`. That the group outlives its turns follows from
  `Manned` (whoever is in flight is some worker's await) and `EndInv` (the
  promise settles when all workers have returned). That a sibling's `Cancelled`
  is not the outcome needs `CancelInv`: until the group has failed only the
  latch can have cancelled a turn, so the first failure is a real one. The width
  (`WidthInv`) is a count: whoever is in flight is the await of one worker, two
  workers never await the same task, so there are no more tasks in flight than
  workers, and no more workers than the limit.
* **ServeHost.** `HostInv`. Gates are numbered over all the runs of a host, only
  the last number given out can be open (`LastGateOnly`), and an answer carries
  the number of the gate its client saw (`AnswersNameTheirGate`): so an answer
  that fits the open gate was meant for it, however long it was in the pipe. An
  armed pause was pressed for the run under way, or for the next if there was
  none, and has held nothing yet (`ArmedPauseIsOfThisRun`): that is what the
  `finally` of `runInvoke` has to re-establish.
* **RunLock.** `OneRunPerCheckout` is not inductive: two processes may both be
  about to look. `LooksInv` says that of two claims on one checkout at least one
  has still to see the other, and the one that sees it is refused. `LockInv` is
  what makes a claim visible: the lock on disk lies in a directory the listing
  returns. The proof goes through two lemmas: claims appear only at `WriteLock`,
  before the writer's listing; and a look that passes a run leaves no claim there.
  `StampInv` is what makes an ending tellable: a stamp names a process that left
  by itself (`StampsLast`), and the lock of a process a signal ended has a stamp
  beside it until somebody else takes the run up (`SignalsTold`).
* **PlanLoop.** `IInv` says, place by place of the process, where a bought answer
  waits (`AnswersWait`: never where the next round of questions would write over
  it), whose hands a declined question is in (`DeclinedAreHeld`), whose judgement
  an approval rests on (`ApprovalHolds`), and that stalls alternate, a request to
  step back that is still due keeping its findings owed, so that no critique and
  no second stall can come before it (`StallsInOrder`). The refinement of
  `RunPhases` maps `planOnly` to the stored flag too, and needs `PhaseEnds`: that a
  process out of planning only stops, and that a stopped run is complete and
  plan-only when `ContinueIntoImplementation` opens it.
* **ReviewLoop.** `IInv` says where findings belong (`InPhase`), that a fix in
  flight and the findings it answers agree on their round
  (`FlightMatchesFindings`), that only a passed review leads to the final round
  or the end (`VerdictDecides`), that nothing touches the tree between a pass and
  what relies on it (`GateCovers`), and that findings a process finds waiting
  leave room for the one round they take (`RoundsFit`), without which the cap is
  not inductive over a resume. The refinement of `RunPhases` maps `phase` to the
  stored phase, `planOnly` to false and `working` to whether a process has the
  run; that the place of a working process and the phase agree comes from `IInv`.
* **Convergence.** Three arguments. That greedy is exact: a greedy match is an
  injection, so a pairing; conversely, if one round names no id twice and a pairing
  exists, the other names none twice either, a claim has one possible partner, and
  the pairing itself is what greedy takes. The counting of `NoIdTwice` comes down
  to one lemma: a function of `n` places with `n` values is one to one. That the
  trend and the stalls are right: `HistoryInv` carries what the last verdict said
  of the last rounds, and the only hard step is the late one, where a window whose
  findings turned over is excused at one length of the flat run and not at the
  next. Maxima (the longest flat run) are had from the well-founded minimum of the
  library, with no induction over data. That the judgement fits the loops:
  `StallsAlternateApart` is what `PlanLoop`'s `MayStall` and `StallAction` build
  in, `RepeatsAreOfOneSet` is why a repeat may be compared with the first round of
  a window alone, and `LoopTakesEveryVerdict` couples the two modules at one round
  (`AtOneRound`), without the stall check, which the review loop does not make, and
  with `TrendNeeds` no larger than either window: whatever `Judge` decides,
  `ReviewLoop`'s guard may decide, and the coupling holds after it.
* **Termination.** Liveness is beyond the prover, but the count that makes it true
  is not. In each of the three components whose process must end, `StepsLeft` is
  shown to be a natural number, from the invariant, and every step of a process
  to lower it (`EveryStepSpends`). `ReviewLoop`: twelve for each verify or review
  round left, plus a place within the round; it rests on `RoundsFit`, and a
  resume adds the round it found waiting. `PlanLoop`: sixteen for each plan round,
  question round, and the one revision a resume may carry past a cap; the two
  kinds of round alternate, and what keeps them from feeding one another is that
  a question round begins with no findings owed (`AsksOweNothing`).
  `TestReplay`: a pass of `4 * Size + 9` steps for the batch and for each of its
  files, with `Size` the number of files, and a step of a gate's process never
  raises it. What is left to TLC of `ReviewEnds`, `PlanningEnds` and `ReplayEnds`
  is that a step is enabled and taken.
* **TurnCharge.** `Brake`: in a process that is not ending, being over the
  ceiling means being deferred; memory equals disk when no process runs, so a
  resume's own test is about the same figure; and the rotation is known whenever
  its turn is. Every charge either stays under the ceiling or sets `ending`.
  `Books`: the total, what was noted and what each attempt may still be charged (`Claims`: all
  that one under way has spent, what the list keeps of one that is over) add up
  to no more than was spent, and the file accounts for no more than memory does.
  It needs `Figures` (a figure lags behind what it is of, and a turn that streams
  none has none, which is why a Codex turn dropped uncharged costs no entry) and
  `Settled` (a process that goes on has nothing in the list for turns that are
  over, so a label can be used again). Sums are cardinalities of sets of tokens:
  `CountGrows` and `CountReplaces` are the two facts about them every action
  uses, through one lemma for a step of one turn (`TurnStep`) and one for a save
  (`BooksStep`).
* **Slots.** `Ownership`: every id a record or a turn under way has was drawn, is
  of one slot of one run, and its conversation is that run's. `Spending`: an id
  vibe chose is spent in every record that has it before it is handed over, and
  an unspent one is unknown to the providers; the two together keep an id from
  being handed over as new a second time, whichever of the two records a kill
  leaves. `Memory`: what a conversation has to know is in it, in one it still owes
  a fork of, or in the run's handoff, and while a turn is away its slot stays as
  it is on disk too. `Memory` is **not** an invariant of the code: the finding
  `OwedForksAreKept` breaks it. `TurnsKnowTheirSlot` therefore supposes
  `PaidTogether`, that no run is forked which has paid one of its forks and owes
  another; `OneForkKnowsItsSlots` supposes nothing but that there is at most one
  fork, as in the run that checks `TurnsAreBriefed`, where `PaidTogether` is
  proved.
* **TestReplay.** `IInv` says where memory and `state.json` may disagree about the
  marker (`MarkersAgree`), that every backup a marker names is whole
  (`BackedUpWhole`), that what is torn is marked and still due, and (`Attended`)
  that until a person resumes beside a gate's process what differs from its marker
  is exactly what a step of the pass has still to put back (`Due`). `Attended` is
  what the refinement needs: restoring a file changes nothing `HeadTests` sees,
  unless a person wrote it since, and then it is that edit which is taken back
  (`StepHeadOf`, over `WriteMarked` and `MarkerMoves`).
* **RemoteAccess.** `OneChange` is the transition lock. `ChangeMatches` says what
  listens, and for which settings, at each step of a change, and that between
  changes it is what `Running` says. `GoneIsOffTheList` with the order of the two
  sides (the list is written before connections are closed, a connection is
  registered before its second check) gives `RemovedIsShutOut`. `WaiterIsAsked`
  ties the waiting handler, the prompt and the yes to one phone and one code.

Only model-checked are the six liveness properties (`PlanningEnds`, `ReviewEnds`,
`ReplayEnds`, `LeavesWhenTold`, `SwitchSettles`, `OnlyAChildHoldsTheRound`):
fairness speaks of `ENABLED`, which is beyond the prover. For the first three the
count that falls is proved, as above. `LeavesWhenTold` and
`OnlyAChildHoldsTheRound` have none worth proving: it would rest on the bounds of
the models (requests, steps of a run, turns of a seat), which the code does not
have. `SwitchSettles` rests on the order in which tasks get the transition lock.
Every invariant, action property and refinement of the passing runs is proved,
`TurnsAreBriefed` of `slots` as stated under **Slots**. The two `violation` runs
check what does not hold.

## What is not modelled

The components of `PROJECT.json` with status `not_modelled` say why, and the notes
of those with status `partly` say what is left out. The repository has about
100 000 lines of implementation. Most of them hold no state machine: views and
settings forms of the desktop app and the phone (some 35 000 lines of rendering),
prompts and schemas, the validation and migration of stored records and replies
field by field, flag parsing, reports, the wording of messages. A model of them
would restate them. Of what does keep state and has an order to get wrong, these
are still missing: the desktop's table of hosts, its updater and its keep-awake
and login switches, the pilot's conversation, the phone's reconnecting link,
checkpoints and forks as git operations, and reading a child's output.

In the modelled parts, file contents, wording, timings and the reading of streams
are abstracted as each section says. A file write is atomic where the code renames
into place, and two steps where it does not (`run.lock`, a backup, a swapped
file).

## Plan

What is left, in order:

1. **Host table** (`app/src-tauri/src/host.rs`): one `vibe serve` child per
   project, its reader, the grace before a kill, the updater's claim that freezes
   runs, keys sent to a host while they change.
2. **Votes**: finder merge, ballots and the judge, with the order in which seats
   return made irrelevant.
3. **Checkpoints**: commits, refs and forks of a run; a worktree created beside
   another.
4. **The phone's link** (`app/`): reconnecting, and the fan-out of the event
   stream.
