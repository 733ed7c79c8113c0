------------------------------- MODULE Slots -------------------------------
(***************************************************************************)
(* Which conversation a turn is sent to (src/src/slots.ts, the dispatchers *)
(* of src/src/orchestrator.ts, rotateSession in src/src/context.ts and     *)
(* commitFork in src/src/fork.ts).  A slot is a run's conversation for a   *)
(* role.  A client slot's id is chosen by vibe and spent once it has been  *)
(* handed over, whether or not a turn came back; a provider slot's id is   *)
(* what a turn returned.  A run forked from another owes each conversation *)
(* a fork, which its first turn makes.  Rotation replaces the main         *)
(* conversation by a fresh one and a briefing.                             *)
(*                                                                         *)
(* The providers' store is modelled from the flags the code passes:        *)
(* --session-id of an id that exists is refused, --resume of one that does *)
(* not is, and --fork-session copies at creation.  What a conversation     *)
(* knows is the set of turns that succeeded on it or were told to it.      *)
(***************************************************************************)
EXTENDS Integers, FiniteSets

CONSTANTS
    Runs, Root,    \* Root exists at the start, the others are forked
    ClientSlots,   \* Claude conversations
    ProviderSlots, \* Codex threads
    Main,          \* the client slot of the generative roles, which rotates
    Persisting,    \* slots the configuration carries from turn to turn
    MaxIds,        \* bound: conversations
    MaxTurns,      \* bound: turns that succeed
    MaxFaults,     \* bound: kills and failed saves
    MaxAlive       \* bound: processes alive at once

Slots == ClientSlots \cup ProviderSlots

ASSUME SlotsAssumption ==
    /\ Root \in Runs /\ Main \in ClientSlots
    /\ ClientSlots \cap ProviderSlots = {} /\ ClientSlots \subseteq Persisting
    /\ MaxIds \in Nat \ {0} /\ {MaxTurns, MaxFaults, MaxAlive} \subseteq Nat

VARIABLES
    mem,         \* the record each process holds
    disk,        \* each run's state.json, or NoRecord
    checkpoint,  \* its last checkpoint, or NoRecord
    state,       \* of its process: "off", "on", "ending"
    call,        \* the turn each slot has at the provider, or NoCall
    sessions,    \* the providers' store: id -> whose it is and what it knows
    minted,      \* ids drawn so far, of both kinds
    turns,       \* turns that succeeded
    faults       \* kills and failed saves

vars == <<mem, disk, checkpoint, state, call, sessions, minted, turns, faults>>

None == 0
NoRecord == [slot |-> <<>>, hand |-> {}]
NoCall == [at |-> "none", kind |-> "new", id |-> None, parent |-> None, brief |-> {}, handoff |-> FALSE]

\* A conversation no turn was sent to.  must is history: the turns whose success
\* was saved, which the conversation has to know.
Unopened(id, owed, must) ==
    [id |-> id, started |-> FALSE, registered |-> FALSE, owed |-> owed, must |-> must]

Init ==
    /\ disk = [r \in Runs |->
                  IF r = Root
                  THEN [slot |-> [s \in Slots |-> Unopened(IF s = Main THEN 1 ELSE None, None, {})],
                        hand |-> {}]
                  ELSE NoRecord]
    /\ mem = disk
    /\ checkpoint = [r \in Runs |-> NoRecord]
    /\ state = [r \in Runs |-> "off"]
    /\ call = [r \in Runs |-> [s \in Slots |-> NoCall]]
    /\ sessions = <<>>
    /\ minted = 1 /\ turns = 0 /\ faults = 0

-----------------------------------------------------------------------------
Minting(n) == minted + n <= MaxIds /\ minted' = minted + n

Fault == faults < MaxFaults /\ faults' = faults + 1

\* A save that throws ends the process with what it has in memory.
Save(r, m) ==
    /\ mem' = [mem EXCEPT ![r] = m]
    /\ \/ disk' = [disk EXCEPT ![r] = m] /\ UNCHANGED <<state, faults>>
       \/ state' = [state EXCEPT ![r] = "ending"] /\ Fault /\ UNCHANGED disk

\* chargeFailure's save, whose failure is swallowed.
TriesToSave(r, m) ==
    /\ mem' = [mem EXCEPT ![r] = m]
    /\ \/ disk' = [disk EXCEPT ![r] = m] /\ UNCHANGED faults
       \/ Fault /\ UNCHANGED disk

CallIs(r, s, c) == call' = [call EXCEPT ![r][s] = c]

HasMemory(s, c) == s \in Persisting /\ c.started /\ c.id # None
HasDeadTurn(s, c) == s \in ClientSlots /\ c.registered /\ ~c.started /\ c.id # None
Owes(s, c) == s \in Persisting /\ ~c.started /\ c.owed # None
Continuity(s, c) == HasMemory(s, c) \/ Owes(s, c) \/ HasDeadTurn(s, c)

\* freshConversationPrefix: only generative roles are briefed, and only when the
\* conversation carries nothing.
Brief(r, s, c) == IF s = Main /\ ~Continuity(s, c) THEN mem[r].hand ELSE {}

\* A turn begins when no other has the run, except the rotation beside it.
MayBegin(r, s) ==
    /\ state[r] = "on" /\ call[r][s] = NoCall
    /\ \A other \in Slots : call[r][other] = NoCall \/ call[r][other].handoff

\* (wrong: the fork is taken off the record when it is asked for)
RegisteredAndPaid(s, c) == [c EXCEPT !.registered = s \in ClientSlots, !.owed = None]

\* What noteSpawn leaves of a conversation that is handed over.
Registered(s, c) == [c EXCEPT !.registered = s \in ClientSlots]

\* One attempt of a Claude turn: the id first, then what is asked of it, then
\* the save, then the spawn.
ClaudeSpawn(r, s) ==
    LET c0 == mem[r].slot[s]
        c == IF c0.id = None THEN Unopened(minted + 1, c0.owed, c0.must) ELSE c0
        dead == HasDeadTurn(s, c)
        fork == ~dead /\ Owes(s, c)
        resume == dead \/ (~fork /\ HasMemory(s, c))
        m == [mem[r] EXCEPT !.slot[s] = IF dead THEN c ELSE Registered(s, c)]
    IN /\ s \in ClientSlots /\ MayBegin(r, s)
       /\ Minting(IF c0.id = None THEN 1 ELSE 0)
       /\ IF fork \/ ~c.registered THEN Save(r, m)
          ELSE mem' = [mem EXCEPT ![r] = m] /\ UNCHANGED <<disk, state, faults>>
       /\ IF state'[r] = "on"
          THEN CallIs(r, s, [at |-> "sent", id |-> c.id, handoff |-> FALSE,
                             kind |-> IF resume THEN "resume" ELSE IF fork THEN "fork" ELSE "new",
                             parent |-> IF fork THEN c.owed ELSE None, brief |-> Brief(r, s, c)])
          ELSE UNCHANGED call
       /\ UNCHANGED <<checkpoint, sessions, turns>>

\* One attempt of a Codex turn.  The thread of a new or forked one is named by
\* the provider when the turn returns.
CodexSpawn(r, s) ==
    LET c == mem[r].slot[s]
        fork == Owes(s, c)
        resume == HasMemory(s, c)
    IN /\ s \in ProviderSlots /\ MayBegin(r, s)
       /\ Minting(IF resume THEN 0 ELSE 1)
       /\ IF fork THEN Save(r, mem[r]) ELSE UNCHANGED <<mem, disk, state, faults>>
       /\ IF state'[r] = "on"
          THEN CallIs(r, s, [at |-> "sent", id |-> IF resume THEN c.id ELSE minted + 1, handoff |-> FALSE,
                             kind |-> IF resume THEN "resume" ELSE IF fork THEN "fork" ELSE "new",
                             parent |-> IF fork THEN c.owed ELSE None, brief |-> Brief(r, s, c)])
          ELSE UNCHANGED call
       /\ UNCHANGED <<checkpoint, sessions, turns>>

\* rotateSession's turn, on the conversation that is to be replaced.
HandoffAsked(r) ==
    /\ state[r] = "on" /\ call[r][Main] = NoCall /\ mem[r].slot[Main].started
    /\ CallIs(r, Main, [NoCall EXCEPT !.at = "sent", !.kind = "resume",
                                      !.id = mem[r].slot[Main].id, !.handoff = TRUE])
    /\ UNCHANGED <<mem, disk, checkpoint, state, sessions, minted, turns, faults>>

-----------------------------------------------------------------------------
(* The provider. *)

Known == DOMAIN sessions

Granted(c) ==
    CASE c.kind = "new" -> c.id \notin Known
      [] c.kind = "fork" -> c.id \notin Known /\ c.parent \in Known
      [] c.kind = "resume" -> c.id \in Known

Opens(r, s) ==
    LET c == call[r][s]
        knows == c.brief \cup (IF c.kind = "fork" THEN sessions[c.parent].knows ELSE {})
    IN /\ c.at = "sent" /\ Granted(c)
       /\ CallIs(r, s, [NoCall EXCEPT !.at = "open", !.id = c.id, !.handoff = c.handoff])
       /\ sessions' = IF c.kind = "resume" THEN sessions
                      ELSE [i \in Known \cup {c.id} |->
                               IF i = c.id THEN [owner |-> r, knows |-> knows] ELSE sessions[i]]
       /\ UNCHANGED <<mem, disk, checkpoint, state, minted, turns, faults>>

-----------------------------------------------------------------------------
(* What comes back. *)

\* markSlotStarted and clearSlotFork, in the write that charges the turn.
Started(s, c, id, turn) ==
    [c EXCEPT !.id = IF s \in ClientSlots \/ s \notin Persisting THEN @ ELSE id,
              !.started = TRUE, !.owed = IF Owes(s, c) THEN None ELSE @,
              !.must = IF s \in Persisting THEN @ \cup {turn} ELSE @]

Succeeds(r, s) ==
    LET c == call[r][s]
    IN /\ c.at = "open" /\ ~c.handoff /\ turns < MaxTurns
       /\ turns' = turns + 1
       /\ sessions' = [sessions EXCEPT ![c.id].knows = @ \cup {turns + 1}]
       /\ Save(r, [mem[r] EXCEPT !.slot[s] = Started(s, @, c.id, turns + 1)])
       /\ CallIs(r, s, NoCall)
       /\ UNCHANGED <<checkpoint, minted>>

\* A rate limit spares the conversation; the run waits and tries again, or ends.
RateLimited(r, s) ==
    /\ call[r][s].at = "open" /\ ~call[r][s].handoff
    /\ TriesToSave(r, mem[r])
    /\ state' \in {state, [state EXCEPT ![r] = "ending"]}
    /\ CallIs(r, s, NoCall)
    /\ UNCHANGED <<checkpoint, sessions, minted, turns>>

\* (wrong: the same id is offered again as a new one)
RecoveredUnregistered(s, c) ==
    IF HasDeadTurn(s, c) THEN [c EXCEPT !.registered = FALSE] ELSE c

\* recoverDeadSlot: an id on which nothing ever succeeded is given up.
Recovered(s, c) ==
    IF HasDeadTurn(s, c) THEN Unopened(minted + 1, c.owed, c.must) ELSE c

\* Any other failure: the turn's process died, or the provider refused the id.
\* A Codex turn that was cut off is tried again once.
Fails(r, s) ==
    LET c == mem[r].slot[s]
    IN /\ call[r][s] # NoCall /\ ~call[r][s].handoff
       /\ Minting(IF HasDeadTurn(s, c) THEN 1 ELSE 0)
       /\ TriesToSave(r, [mem[r] EXCEPT !.slot[s] = Recovered(s, c)])
       /\ \/ state' = [state EXCEPT ![r] = "ending"]
          \/ s \in ProviderSlots /\ UNCHANGED state
       /\ CallIs(r, s, NoCall)
       /\ UNCHANGED <<checkpoint, sessions, turns>>

\* The rotation and its briefing are one write.
Rotated(r, hand) ==
    [mem[r] EXCEPT !.slot[Main] = Unopened(minted + 1, None, @.must), !.hand = hand]

HandoffOk(r) ==
    /\ call[r][Main].at = "open" /\ call[r][Main].handoff
    /\ Minting(1)
    /\ Save(r, Rotated(r, sessions[call[r][Main].id].knows))
    /\ CallIs(r, Main, NoCall)
    /\ UNCHANGED <<checkpoint, sessions, turns>>

\* A measured rotation that fails keeps the conversation, and ends the run
\* unless it ran beside a turn.
HandoffFails(r) ==
    /\ call[r][Main] # NoCall /\ call[r][Main].handoff
    /\ TriesToSave(r, mem[r])
    /\ state' \in {state, [state EXCEPT ![r] = "ending"]}
    /\ CallIs(r, Main, NoCall)
    /\ UNCHANGED <<checkpoint, sessions, minted, turns>>

\* One whose measurement is of another model rotates without a new briefing: the
\* run is told that the briefing is an older one.
HandoffForgone(r) ==
    /\ call[r][Main] # NoCall /\ call[r][Main].handoff
    /\ Minting(1)
    /\ Save(r, [Rotated(r, mem[r].hand) EXCEPT !.slot[Main].must = mem[r].hand])
    /\ CallIs(r, Main, NoCall)
    /\ UNCHANGED <<checkpoint, sessions, turns>>

-----------------------------------------------------------------------------
(* Processes, checkpoints, forks. *)

Start(r) ==
    /\ state[r] = "off" /\ disk[r] # NoRecord
    /\ Cardinality({q \in Runs : state[q] # "off"}) < MaxAlive
    /\ state' = [state EXCEPT ![r] = "on"]
    /\ mem' = [mem EXCEPT ![r] = disk[r]]
    /\ UNCHANGED <<disk, checkpoint, call, sessions, minted, turns, faults>>

\* The process ends once its turns have come back; its last save may fail too.
Exit(r) ==
    /\ state[r] # "off" /\ \A s \in Slots : call[r][s] = NoCall
    /\ state' = [state EXCEPT ![r] = "off"]
    /\ \/ disk' = [disk EXCEPT ![r] = mem[r]] /\ UNCHANGED faults
       \/ Fault /\ UNCHANGED disk
    /\ mem' = [mem EXCEPT ![r] = disk'[r]]
    /\ UNCHANGED <<checkpoint, call, sessions, minted, turns>>

Killed(r) ==
    /\ state[r] # "off" /\ Fault
    /\ state' = [state EXCEPT ![r] = "off"]
    /\ mem' = [mem EXCEPT ![r] = disk[r]]
    /\ call' = [call EXCEPT ![r] = [s \in Slots |-> NoCall]]
    /\ UNCHANGED <<disk, checkpoint, sessions, minted, turns>>

\* Taken while a run may still be forked from it.
Checkpoint(r) ==
    /\ state[r] = "on" /\ \A s \in Slots : call[r][s] = NoCall
    /\ \E child \in Runs : disk[child] = NoRecord
    /\ checkpoint' = [checkpoint EXCEPT ![r] = disk[r]]
    /\ mem[r] = disk[r]
    /\ UNCHANGED <<mem, disk, state, call, sessions, minted, turns, faults>>

\* forkedSlotFields: every conversation starts as a fresh run's would, and owes
\* a fork of what the parent had.  With nothing to owe, what the checkpoint
\* itself owed is carried by the spread.
Inherits(rec, s) == HasMemory(s, rec.slot[s])

OwedFork(rec, s) ==
    IF \E any \in Slots : Inherits(rec, any)
    THEN IF Inherits(rec, s) THEN rec.slot[s].id ELSE None
    ELSE rec.slot[s].owed

\* (wrong: the Claude reviewer's conversation is not on the list of cleared fields)
InheritedIdUncleared(rec, s) == IF s = Main THEN minted + 1 ELSE rec.slot[s].id

InheritedId(rec, s) == IF s = Main THEN minted + 1 ELSE None

Forked(rec) ==
    [slot |-> [s \in Slots |-> Unopened(InheritedId(rec, s), OwedFork(rec, s), rec.slot[s].must)],
     hand |-> IF Inherits(rec, Main) THEN {} ELSE rec.hand]

Fork(parent, child) ==
    /\ disk[child] = NoRecord /\ checkpoint[parent] # NoRecord /\ state[parent] = "off"
    /\ Minting(1)
    /\ disk' = [disk EXCEPT ![child] = Forked(checkpoint[parent])]
    /\ mem' = [mem EXCEPT ![child] = disk'[child]]
    /\ UNCHANGED <<checkpoint, state, call, sessions, turns, faults>>

Next ==
    \/ \E r \in Runs, s \in Slots :
          ClaudeSpawn(r, s) \/ CodexSpawn(r, s) \/ Opens(r, s)
          \/ Succeeds(r, s) \/ RateLimited(r, s) \/ Fails(r, s)
    \/ \E r \in Runs :
          \/ HandoffAsked(r) \/ HandoffOk(r) \/ HandoffFails(r) \/ HandoffForgone(r)
          \/ Start(r) \/ Exit(r) \/ Killed(r) \/ Checkpoint(r)
    \/ \E parent, child \in Runs : Fork(parent, child)

Spec == Init /\ [][Next]_vars

-----------------------------------------------------------------------------
(* Properties. *)

Ids == 0..MaxIds
Facts == SUBSET (1..MaxTurns)
Conversation == [id : Ids, started : BOOLEAN, registered : BOOLEAN, owed : Ids, must : Facts]
Records == [slot : [Slots -> Conversation], hand : Facts] \cup {NoRecord}
Calls == [at : {"none", "sent", "open"}, kind : {"new", "fork", "resume"}, id : Ids,
          parent : Ids, brief : Facts, handoff : BOOLEAN]

TypeOK ==
    /\ {mem, disk, checkpoint} \subseteq [Runs -> Records]
    /\ state \in [Runs -> {"off", "on", "ending"}]
    /\ call \in [Runs -> [Slots -> Calls]]
    /\ Known \subseteq Ids /\ sessions \in [Known -> [owner : Runs, knows : Facts]]
    /\ minted \in Ids /\ turns \in 0..MaxTurns /\ faults \in 0..MaxFaults

AtProvider == {c \in [run : Runs, slot : Slots] : call[c.run][c.slot] # NoCall}

\* An id is handed over as a new conversation's at most once: no kill, failed
\* save, rate limit or failed turn makes a later attempt spend it again, which
\* the provider refuses and no retry would get past (slots.ts, registration).
NoIdIsSpentTwice ==
    \A a \in AtProvider :
        LET c == call[a.run][a.slot]
        IN c.at = "sent" /\ c.kind # "resume" => c.id \notin Known

\* A conversation is written to by the run that opened it and by one turn at a
\* time: a fork copies its parent and never continues it, and a turn beside the
\* rotation is never on the conversation that is being rotated.
ConversationsAreNotShared ==
    \A a \in AtProvider :
        LET c == call[a.run][a.slot]
        IN /\ c.id \in Known => sessions[c.id].owner = a.run
           /\ \A b \in AtProvider : b # a => call[b.run][b.slot].id # c.id

\* A turn's conversation knows every earlier turn of its slot whose success was
\* saved, its own, its parent's or by way of the briefing: resuming, forking,
\* giving up an id and rotating, killed anywhere, lose none of it.
TurnsAreBriefed ==
    \A a \in AtProvider :
        LET c == call[a.run][a.slot]
        IN c.at = "open" /\ a.slot \in Persisting =>
              mem[a.run].slot[a.slot].must \subseteq sessions[c.id].knows

\* A forked conversation never becomes a fresh one: what a record's conversation
\* has to know is in the one it owes a fork of, or in the briefing
\* (types.ts, RunState.forkPending).
OwedForksAreKept ==
    \A r \in Runs : disk[r] # NoRecord =>
        \A s \in Slots :
            LET c == disk[r].slot[s]
            IN ~c.started /\ c.must # {} =>
                  \/ c.owed # None /\ c.must \subseteq sessions[c.owed].knows
                  \/ s = Main /\ c.must \subseteq disk[r].hand
=============================================================================
