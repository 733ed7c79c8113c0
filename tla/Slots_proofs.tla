---------------------------- MODULE Slots_proofs ----------------------------
(***************************************************************************)
(* Proofs about Slots, for any number of runs and of slots and any bounds. *)
(* The inductive invariant gives every id to one conversation of one run,  *)
(* and says which records an id that was handed over is spent in, so that  *)
(* none is handed over as a new one again.  Memory says where what each    *)
(* conversation has to know is: in the conversation, in one it still owes  *)
(* a fork of, or in the run's handoff.  It supposes that no run is forked  *)
(* with some of its own forks paid and others owed, where the code loses   *)
(* the rest; with a single fork that is proved as well.                    *)
(***************************************************************************)
EXTENDS Slots, TLAPS

\* The records of a run: its process's, and the one on disk.
Recs(r) == {rec \in {mem[r], disk[r]} : rec # NoRecord}

\* The ids a slot of a run can send a turn to, or has.
Holds(r, s, i) ==
    /\ i # None
    /\ \/ \E rec \in Recs(r) : rec.slot[s].id = i
       \/ call[r][s] # NoCall /\ call[r][s].id = i

\* Only a process whose save failed knows what its disk does not.
InStep ==
    \A r \in Runs :
        /\ state[r] # "ending" => mem[r] = disk[r]
        /\ state[r] # "off" => mem[r] # NoRecord /\ disk[r] # NoRecord
        /\ state[r] = "off" => \A s \in Slots : call[r][s] = NoCall
        /\ disk[r] = NoRecord => mem[r] = NoRecord

CallsAreSent ==
    \A r \in Runs, s \in Slots :
        /\ call[r][s] # NoCall => call[r][s].id # None /\ call[r][s].at # "none"
        /\ call[r][s].at = "open" => call[r][s].id \in Known

\* The conversation that rotates has an id from the start.
MainHasAnId == \A r \in Runs : \A rec \in Recs(r) : rec.slot[Main].id # None

\* Ids are drawn once, and each is one slot's.
Bounded ==
    /\ Known \subseteq 1..minted
    /\ \A r \in Runs, s \in Slots, i \in Ids : Holds(r, s, i) => i <= minted
Apart ==
    \A r, q \in Runs, s, t \in Slots, i \in Ids :
        Holds(r, s, i) /\ Holds(q, t, i) => r = q /\ s = t
Owned ==
    \A r \in Runs, s \in Slots : \A i \in Known : Holds(r, s, i) => sessions[i].owner = r

\* An id vibe chose is spent in every record that still has it, from before it
\* is handed over.
Spent(c) == c.registered \/ c.started
HandedOver ==
    \A r \in Runs, s \in ClientSlots : call[r][s] # NoCall =>
        \A rec \in Recs(r) : rec.slot[s].id = call[r][s].id => Spent(rec.slot[s])
UnspentIsUnknown ==
    \A r \in Runs, s \in ClientSlots : \A rec \in Recs(r) :
        rec.slot[s].id # None /\ ~Spent(rec.slot[s]) => rec.slot[s].id \notin Known
SpentOnce ==
    \A r \in Runs, s \in Slots :
        call[r][s].at = "sent" /\ call[r][s].kind # "resume" => call[r][s].id \notin Known

Ownership == Bounded /\ Apart /\ Owned
Spending == HandedOver /\ UnspentIsUnknown /\ SpentOnce

IInv == TypeOK /\ InStep /\ CallsAreSent /\ MainHasAnId /\ Ownership /\ Spending

-----------------------------------------------------------------------------
(* What a conversation knows.  A run that is forked pays the forks it owes   *)
(* one by one; one that is forked again in between loses what is still owed  *)
(* (OwedForksAreKept), so this is of behaviours in which that never happens. *)

\* No checkpoint is of a run that has paid one of its forks and owes another.
PaidTogether ==
    \A r \in Runs : checkpoint[r] # NoRecord /\ (\E any \in Slots : Inherits(checkpoint[r], any)) =>
        \A s \in Slots : Inherits(checkpoint[r], s) \/ checkpoint[r].slot[s].owed = None

Knows(i, must) == i \in Known /\ must \subseteq sessions[i].knows

\* Where what a conversation has to know is.
Remembers(rec, s) ==
    /\ rec.slot[s].started => Knows(rec.slot[s].id, rec.slot[s].must)
    /\ ~rec.slot[s].started /\ rec.slot[s].owed # None =>
          Knows(rec.slot[s].owed, rec.slot[s].must)
    /\ ~rec.slot[s].started /\ rec.slot[s].owed = None =>
          rec.slot[s].must \subseteq IF s = Main THEN rec.hand ELSE {}
RecordsRemember ==
    \A r \in Runs, s \in Persisting \cap Slots :
        /\ \A rec \in Recs(r) : Remembers(rec, s)
        /\ checkpoint[r] # NoRecord => Remembers(checkpoint[r], s)

\* An id a record has, once the providers know it, knows all it has to.
OpenedKnows ==
    \A r \in Runs, s \in ClientSlots : \A rec \in Recs(r) :
        rec.slot[s].id \in Known => Knows(rec.slot[s].id, rec.slot[s].must)

\* While a turn is away its slot stays as it is, on disk too.
SlotsWait ==
    \A r \in Runs, s \in Slots : call[r][s] # NoCall =>
        /\ mem[r].slot[s] = disk[r].slot[s]
        /\ s \in ClientSlots => mem[r].slot[s].id = call[r][s].id

\* What a turn carries, or is sent to, is what its slot has to know.
Briefed(c, must) ==
    /\ c.at = "open" => Knows(c.id, must)
    /\ c.at = "sent" =>
          /\ c.kind = "new" => must \subseteq c.brief
          /\ c.kind = "fork" => Knows(c.parent, must)
          /\ c.kind = "resume" /\ c.id \in Known => Knows(c.id, must)
CallsAreBriefed ==
    \A r \in Runs, s \in Persisting \cap Slots : Briefed(call[r][s], mem[r].slot[s].must)

Memory == RecordsRemember /\ OpenedKnows /\ SlotsWait /\ CallsAreBriefed

Rec == [slot : [Slots -> Conversation], hand : Facts]

\* What a slot may become in a step of the slot s of the run r: another's stays
\* what it was in one of the run's records, and s itself may take an id that is
\* drawn by the step or that the provider named.  A run that has begun comes to
\* owe no fork.
Follows(r, s, t, c) ==
    /\ \/ c.id = None /\ t # Main
       \/ \E old \in Recs(r) : c.id = old.slot[t].id /\ (Spent(old.slot[t]) => Spent(c))
       \/ t = s /\ c.id = minted + 1 /\ minted' = minted + 1
       \/ t = s /\ s \in ProviderSlots /\ call[r][s] # NoCall /\ c.id = call[r][s].id
    /\ \/ Recs(r) = {} \/ c.owed = None
       \/ \E old \in Recs(r) : c.owed = old.slot[t].owed

\* A turn the step sends: of an id its slot holds or draws, a new one only if
\* the providers do not know it, and spent on every record that has it.
NewCall(r, s, c) ==
    /\ c.id # None /\ c.id \in Ids
    /\ Holds(r, s, c.id) \/ (c.id = minted + 1 /\ minted' = minted + 1)
    /\ c.at = "sent"
    /\ c.kind # "resume" => c.id \notin Known
    /\ s \in ClientSlots =>
          \A rec \in Recs(r)' : rec.slot[s].id = c.id => Spent(rec.slot[s])

\* What every step but the provider's does, seen from the slot it is of.
LocalStep(r, s) ==
    /\ minted' \in {minted, minted + 1}
    /\ Known' = Known /\ \A i \in Known : sessions'[i].owner = sessions[i].owner
    /\ \A q \in Runs \ {r} : mem'[q] = mem[q] /\ disk'[q] = disk[q] /\ call'[q] = call[q]
    /\ disk'[r] # NoRecord
    /\ \A t \in Slots : \A rec \in Recs(r)' : Follows(r, s, t, rec.slot[t])
    /\ \A t \in Slots :
          call'[r][t] \in {NoCall, call[r][t]} \/ (t = s /\ NewCall(r, s, call'[r][s]))

\* No record is not a record, and the bounds leave room for the first ids.
LEMMA RecordTypes ==
    /\ Main \in Slots /\ Records = Rec \cup {NoRecord} /\ NoRecord \notin Rec
    /\ None \in Ids /\ {} \in Facts /\ NoCall \in Calls /\ Ids \subseteq Nat
<1>1. Main \in Slots BY SlotsAssumption DEF Slots
<1>2. NoRecord \notin Rec
    <2>1. SUFFICES ASSUME NoRecord \in Rec PROVE FALSE OBVIOUS
    <2>2. NoRecord.slot \in [Slots -> Conversation] BY <2>1 DEF Rec
    <2>3. NoRecord.slot = <<>> BY DEF NoRecord
    <2> QED BY <1>1, <2>2, <2>3
<1>3. Records = Rec \cup {NoRecord} BY DEF Records, Rec
<1>4. None \in Ids /\ {} \in Facts /\ Ids \subseteq Nat BY SlotsAssumption DEF None, Ids, Facts
<1>5. NoCall \in Calls BY <1>4 DEF NoCall, Calls
<1> QED BY <1>1, <1>2, <1>3, <1>4, <1>5

\* Whatever is local to one slot keeps ids apart, and spent ones spent.
LEMMA LocalStepsKeep ==
    ASSUME IInv, NEW r \in Runs, NEW s \in Slots, LocalStep(r, s)
    PROVE  Ownership' /\ Spending' /\ MainHasAnId' /\ CallsAreSent'
<1>0. minted \in Nat /\ minted' \in Nat /\ minted' >= minted /\ Ids \subseteq Nat
    BY RecordTypes DEF IInv, TypeOK, LocalStep
<1>1. ASSUME NEW q \in Runs, NEW t \in Slots, NEW i \in Ids, Holds(q, t, i)'
      PROVE  Holds(q, t, i) \/ (q = r /\ t = s /\ i = minted + 1 /\ minted' = minted + 1)
    <2>1. CASE q # r BY <1>1, <2>1 DEF Holds, Recs, LocalStep
    <2>2. CASE q = r /\ \E rec \in Recs(r)' : rec.slot[t].id = i
        <3>1. PICK rec \in Recs(r)' : rec.slot[t].id = i BY <2>2
        <3>2. Follows(r, s, t, rec.slot[t]) BY <3>1 DEF LocalStep
        <3>3. i # None BY <1>1 DEF Holds
        <3> QED BY <2>2, <3>1, <3>2, <3>3 DEF Follows, Holds
    <2>3. CASE q = r /\ call'[r][t] # NoCall /\ call'[r][t].id = i
        <3>1. call'[r][t] = call[r][t] \/ (t = s /\ NewCall(r, s, call'[r][s]))
            BY <2>3 DEF LocalStep
        <3> QED BY <1>1, <2>3, <3>1 DEF NewCall, Holds
    <2> QED BY <1>1, <2>1, <2>2, <2>3 DEF Holds
<1>2. Bounded'
    <2>1. Known' \subseteq 1..minted' BY <1>0 DEF IInv, Ownership, Bounded, LocalStep
    <2>2. ASSUME NEW q \in Runs, NEW t \in Slots, NEW i \in Ids, Holds(q, t, i)'
          PROVE  i <= minted'
        BY <1>0, <1>1, <2>2 DEF IInv, Ownership, Bounded
    <2> QED BY <2>1, <2>2 DEF Bounded
<1>3. Apart'
    <2>1. ASSUME NEW q \in Runs, NEW u \in Runs, NEW t \in Slots, NEW v \in Slots, NEW i \in Ids,
                 Holds(q, t, i)', Holds(u, v, i)'
          PROVE  q = u /\ t = v
        <3>1. \/ Holds(q, t, i)
              \/ q = r /\ t = s /\ i = minted + 1
            BY <1>1, <2>1
        <3>2. \/ Holds(u, v, i)
              \/ u = r /\ v = s /\ i = minted + 1
            BY <1>1, <2>1
        <3>3. \A p \in Runs, w \in Slots : Holds(p, w, i) => i <= minted
            BY DEF IInv, Ownership, Bounded
        <3>4. Holds(q, t, i) /\ Holds(u, v, i) => q = u /\ t = v
            BY DEF IInv, Ownership, Apart
        <3> QED BY <1>0, <3>1, <3>2, <3>3, <3>4
    <2> QED BY <2>1 DEF Apart
<1>4. Owned'
    <2>1. ASSUME NEW q \in Runs, NEW t \in Slots, NEW i \in Known', Holds(q, t, i)'
          PROVE  sessions'[i].owner = q
        <3>1. i \in Known /\ i \in 1..minted /\ sessions'[i].owner = sessions[i].owner
            BY <2>1 DEF LocalStep, IInv, Ownership, Bounded
        <3>2. i \in Ids BY <3>1 DEF IInv, TypeOK
        <3>3. Holds(q, t, i) BY <1>0, <1>1, <2>1, <3>1, <3>2
        <3> QED BY <3>1, <3>3 DEF IInv, Ownership, Owned
    <2> QED BY <2>1 DEF Owned
<1>5. ASSUME NEW q \in Runs, NEW t \in Slots, call'[q][t] # NoCall
      PROVE  \/ call'[q][t] = call[q][t]
             \/ q = r /\ t = s /\ NewCall(r, s, call'[r][s])
    BY <1>5 DEF LocalStep
<1>6. ASSUME NEW q \in Runs, NEW t \in Slots, NEW rec \in Recs(q)'
      PROVE  \/ \E old \in Recs(q) : /\ rec.slot[t].id = old.slot[t].id
                                     /\ Spent(old.slot[t]) => Spent(rec.slot[t])
             \/ rec.slot[t].id = None /\ t # Main
             \/ q = r /\ t = s /\ rec.slot[t].id = minted + 1
             \/ /\ q = r /\ t = s /\ s \in ProviderSlots /\ call[r][s] # NoCall
                /\ rec.slot[t].id = call[r][s].id
    <2>1. CASE q # r BY <2>1 DEF LocalStep, Recs
    <2>2. CASE q = r BY <2>2 DEF LocalStep, Follows
    <2> QED BY <2>1, <2>2
<1>7. HandedOver'
    <2>1. SUFFICES ASSUME NEW q \in Runs, NEW t \in ClientSlots, call'[q][t] # NoCall,
                          NEW rec \in Recs(q)', rec.slot[t].id = call'[q][t].id
                   PROVE  Spent(rec.slot[t])
        BY DEF HandedOver
    <2>2. t \in Slots /\ t \notin ProviderSlots BY SlotsAssumption DEF Slots
    <2>3. CASE call'[q][t] = call[q][t]
        <3>1. call[q][t].id \in Ids /\ call[q][t].id # None /\ Holds(q, t, call[q][t].id)
            BY <2>1, <2>2, <2>3 DEF IInv, TypeOK, Calls, CallsAreSent, Holds
        <3>2. call[q][t].id <= minted BY <2>2, <3>1 DEF IInv, Ownership, Bounded
        <3>3. PICK old \in Recs(q) : /\ rec.slot[t].id = old.slot[t].id
                                     /\ Spent(old.slot[t]) => Spent(rec.slot[t])
            BY <1>0, <1>6, <2>1, <2>2, <2>3, <3>1, <3>2
        <3> QED BY <2>1, <2>3, <3>3 DEF IInv, Spending, HandedOver
    <2>4. CASE q = r /\ t = s /\ NewCall(r, s, call'[r][s]) BY <2>1, <2>4 DEF NewCall
    <2> QED BY <1>5, <2>1, <2>2, <2>3, <2>4
<1>8. UnspentIsUnknown'
    <2>1. SUFFICES ASSUME NEW q \in Runs, NEW t \in ClientSlots, NEW rec \in Recs(q)',
                          rec.slot[t].id # None, ~Spent(rec.slot[t])
                   PROVE  rec.slot[t].id \notin Known
        BY DEF UnspentIsUnknown, LocalStep
    <2>2. t \in Slots /\ t \notin ProviderSlots BY SlotsAssumption DEF Slots
    <2>3. CASE rec.slot[t].id = minted + 1 BY <1>0, <2>3 DEF IInv, Ownership, Bounded
    <2>4. CASE \E old \in Recs(q) : /\ rec.slot[t].id = old.slot[t].id
                                    /\ Spent(old.slot[t]) => Spent(rec.slot[t])
        BY <2>1, <2>4 DEF IInv, Spending, UnspentIsUnknown
    <2> QED BY <1>6, <2>1, <2>2, <2>3, <2>4
<1>9. SpentOnce'
    <2>1. ASSUME NEW q \in Runs, NEW t \in Slots,
                 call'[q][t].at = "sent" /\ call'[q][t].kind # "resume"
          PROVE  call'[q][t].id \notin Known
        <3>1. call'[q][t] # NoCall BY <2>1 DEF NoCall
        <3>2. CASE call'[q][t] = call[q][t] BY <2>1, <3>2 DEF IInv, Spending, SpentOnce
        <3>3. CASE q = r /\ t = s /\ NewCall(r, s, call'[r][s]) BY <2>1, <3>3 DEF NewCall
        <3> QED BY <1>5, <3>1, <3>2, <3>3
    <2> QED BY <2>1 DEF SpentOnce, LocalStep
<1>10. MainHasAnId'
    <2>1. SUFFICES ASSUME NEW q \in Runs, NEW rec \in Recs(q)' PROVE rec.slot[Main].id # None
        BY DEF MainHasAnId
    <2>2. Main \in Slots /\ Main \notin ProviderSlots BY SlotsAssumption DEF Slots
    <2>3. minted + 1 # None BY <1>0 DEF None
    <2> QED BY <1>6, <2>1, <2>2, <2>3 DEF IInv, MainHasAnId
<1>11. CallsAreSent'
    <2>1. Known' = Known BY DEF LocalStep
    <2>2. ASSUME NEW q \in Runs, NEW t \in Slots
          PROVE  /\ call'[q][t] # NoCall => call'[q][t].id # None /\ call'[q][t].at # "none"
                 /\ call'[q][t].at = "open" => call'[q][t].id \in Known
        <3>1. CASE call'[q][t] = NoCall BY <3>1 DEF NoCall
        <3>2. CASE call'[q][t] = call[q][t] BY <3>2 DEF IInv, CallsAreSent
        <3>3. CASE q = r /\ t = s /\ NewCall(r, s, call'[r][s]) BY <3>3 DEF NewCall
        <3> QED BY <1>5, <3>1, <3>2, <3>3
    <2> QED BY <2>1, <2>2 DEF CallsAreSent
<1> QED BY <1>2, <1>3, <1>4, <1>7, <1>8, <1>9, <1>10, <1>11 DEF Ownership, Spending

\* A process that runs has records, and its conversations are conversations.
LEMMA Shapes ==
    ASSUME IInv, NEW r \in Runs, state[r] # "off"
    PROVE  /\ mem[r] \in Rec /\ disk[r] \in Rec /\ Recs(r) = {mem[r], disk[r]}
           /\ mem[r].hand \in Facts
           /\ \A s \in Slots : mem[r].slot[s] \in Conversation
<1>1. mem[r] \in Rec /\ disk[r] \in Rec BY RecordTypes DEF IInv, TypeOK, InStep
<1>2. Recs(r) = {mem[r], disk[r]} BY <1>1, RecordTypes DEF Recs
<1> QED BY <1>1, <1>2 DEF Rec

\* One slot of a record is replaced.
LEMMA SlotPut ==
    ASSUME NEW rec \in Rec, NEW s \in Slots, NEW c \in Conversation
    PROVE  /\ [rec EXCEPT !.slot[s] = c] \in Rec
           /\ [rec EXCEPT !.slot[s] = c].slot[s] = c
           /\ [rec EXCEPT !.slot[s] = c].hand = rec.hand
           /\ \A t \in Slots : t # s => [rec EXCEPT !.slot[s] = c].slot[t] = rec.slot[t]
           /\ c = rec.slot[s] => [rec EXCEPT !.slot[s] = c] = rec
BY DEF Rec

\* What a save leaves in memory and on disk.
LEMMA Saves ==
    ASSUME IInv, NEW r \in Runs, NEW m \in Rec,
           \/ Save(r, m) \/ TriesToSave(r, m)
           \/ mem' = [mem EXCEPT ![r] = m] /\ UNCHANGED <<disk, faults>>
    PROVE  /\ mem' \in [Runs -> Records] /\ disk' \in [Runs -> Records] /\ faults' \in 0..MaxFaults
           /\ mem'[r] = m /\ disk'[r] \in {m, disk[r]}
           /\ \A q \in Runs \ {r} : mem'[q] = mem[q] /\ disk'[q] = disk[q]
           /\ Recs(r)' \subseteq Recs(r) \cup {m}
<1>1. m \in Records BY RecordTypes
<1>2. mem \in [Runs -> Records] /\ disk \in [Runs -> Records] BY DEF IInv, TypeOK
<1>3. faults' \in 0..MaxFaults
    BY SlotsAssumption DEF IInv, TypeOK, Save, TriesToSave, Fault
<1>4. mem' = [mem EXCEPT ![r] = m] /\ disk' \in {disk, [disk EXCEPT ![r] = m]}
    BY DEF Save, TriesToSave
<1>5. /\ mem' \in [Runs -> Records] /\ disk' \in [Runs -> Records]
      /\ mem'[r] = m /\ disk'[r] \in {m, disk[r]}
      /\ \A q \in Runs \ {r} : mem'[q] = mem[q] /\ disk'[q] = disk[q]
    BY <1>1, <1>2, <1>4
<1>6. Recs(r)' \subseteq Recs(r) \cup {m} BY <1>5 DEF Recs
<1> QED BY <1>3, <1>5, <1>6

\* A saved record follows the old ones if the slot that changed does.
LEMMA RecordFollows ==
    ASSUME NEW r \in Runs, NEW s \in Slots, NEW m, Recs(r)' \subseteq Recs(r) \cup {m},
           mem[r] \in Recs(r), \A t \in Slots : t # s => m.slot[t] = mem[r].slot[t],
           Follows(r, s, s, m.slot[s])
    PROVE  \A t \in Slots : \A rec \in Recs(r)' : Follows(r, s, t, rec.slot[t])
<1> SUFFICES ASSUME NEW t \in Slots, NEW rec \in Recs(r)'
             PROVE  Follows(r, s, t, rec.slot[t])
    OBVIOUS
<1>1. CASE rec \in Recs(r) BY <1>1 DEF Follows
<1>2. CASE rec = m /\ t # s BY <1>2 DEF Follows
<1>3. CASE rec = m /\ t = s BY <1>3
<1> QED BY <1>1, <1>2, <1>3

\* A process stays in step with its disk unless its save failed.
LEMMA StaysInStep ==
    ASSUME IInv, NEW r \in Runs, NEW s \in Slots, LocalStep(r, s), state[r] # "off",
           mem'[r] \in Rec, disk'[r] \in Rec,
           \A q \in Runs \ {r} : state'[q] = state[q],
           state'[r] \in {"on", "ending"}, state'[r] = "on" => mem'[r] = disk'[r]
    PROVE  InStep'
<1>1. ASSUME NEW q \in Runs \ {r} PROVE
         /\ state'[q] = state[q] /\ mem'[q] = mem[q] /\ disk'[q] = disk[q] /\ call'[q] = call[q]
    BY DEF LocalStep
<1>2. mem'[r] # NoRecord /\ disk'[r] # NoRecord BY RecordTypes
<1>3. ASSUME NEW q \in Runs
      PROVE  /\ state'[q] # "ending" => mem'[q] = disk'[q]
             /\ state'[q] # "off" => mem'[q] # NoRecord /\ disk'[q] # NoRecord
             /\ state'[q] = "off" => \A t \in Slots : call'[q][t] = NoCall
             /\ disk'[q] = NoRecord => mem'[q] = NoRecord
    <2>1. CASE q # r BY <1>1, <2>1 DEF IInv, InStep
    <2>2. CASE q = r BY <1>2, <2>2
    <2> QED BY <2>1, <2>2
<1> QED BY <1>3 DEF InStep

\* A conversation never forgets.
KnowsNext(i, must) == i \in Known' /\ must \subseteq sessions'[i].knows
Grown == \A i \in Known : i \in Known' /\ sessions[i].knows \subseteq sessions'[i].knows

\* What one slot's step does to what is remembered: its own record remembers,
\* and so does the turn it sends, if it sends one.
MemoryStep(r, s, m) ==
    /\ Grown /\ Known' = Known /\ checkpoint' = checkpoint
    /\ mem'[r] = m /\ disk'[r] \in {m, disk[r]}
    /\ \A t \in Slots : t # s => m.slot[t] = mem[r].slot[t] /\ call'[r][t] = call[r][t]
    /\ m.hand = mem[r].hand \/ s = Main
    /\ s \in Persisting =>
          Remembers(m, s) \/ (m.slot[s].started /\ KnowsNext(m.slot[s].id, m.slot[s].must))
    /\ s \in ClientSlots /\ m.slot[s].id \in Known =>
          Knows(m.slot[s].id, m.slot[s].must) \/ KnowsNext(m.slot[s].id, m.slot[s].must)
    /\ \/ call'[r][s] = NoCall
       \/ /\ disk'[r].slot[s] = m.slot[s]
          /\ s \in ClientSlots => m.slot[s].id = call'[r][s].id
          /\ s \in Persisting => Briefed(call'[r][s], m.slot[s].must)

LEMMA KnowledgeGrows ==
    ASSUME Grown
    PROVE  \A i, must : Knows(i, must) => KnowsNext(i, must)
BY DEF Grown, Knows, KnowsNext

LEMMA RemembersOn ==
    ASSUME Grown, NEW rec, NEW s, Remembers(rec, s)
    PROVE  Remembers(rec, s)'
<1>1. \A i, must : Knows(i, must) => KnowsNext(i, must) BY KnowledgeGrows
<1>2. rec.slot[s].started => KnowsNext(rec.slot[s].id, rec.slot[s].must) BY <1>1 DEF Remembers
<1>3. ~rec.slot[s].started /\ rec.slot[s].owed # None =>
          KnowsNext(rec.slot[s].owed, rec.slot[s].must)
    BY <1>1 DEF Remembers
<1> QED BY <1>2, <1>3 DEF Remembers, Knows, KnowsNext

LEMMA BriefedOn ==
    ASSUME Grown, Known' = Known, NEW c, NEW must, Briefed(c, must)
    PROVE  Briefed(c, must)'
<1>1. \A i : Knows(i, must) => KnowsNext(i, must) BY KnowledgeGrows
<1> QED BY <1>1 DEF Briefed, Knows, KnowsNext

\* A step of one slot that remembers leaves everything remembered.
LEMMA MemoryKeeps ==
    ASSUME IInv, Memory, NEW r \in Runs, NEW s \in Slots, NEW m \in Rec, state[r] # "off",
           LocalStep(r, s), MemoryStep(r, s, m)
    PROVE  Memory'
<1>1. /\ mem[r] \in Recs(r) /\ disk[r] \in Recs(r)
    BY Shapes
<1>2. \A rec \in Recs(r)' : rec = m \/ rec \in Recs(r)
    BY <1>1, RecordTypes DEF MemoryStep, Recs
<1>3. \A q \in Runs \ {r} : mem'[q] = mem[q] /\ disk'[q] = disk[q] /\ call'[q] = call[q]
    BY DEF LocalStep
<1>4. \A q \in Runs \ {r} : Recs(q)' = Recs(q) BY <1>3 DEF Recs
<1>5. Grown /\ Known' = Known BY DEF MemoryStep
<1>6. RecordsRemember'
    <2>1. ASSUME NEW q \in Runs, NEW t \in Persisting \cap Slots, NEW rec \in Recs(q)'
          PROVE  Remembers(rec, t)'
        <3>1. CASE rec \in Recs(q)
            BY <1>5, <3>1, RemembersOn DEF Memory, RecordsRemember
        <3>2. CASE q = r /\ rec = m /\ t # s
            <4>1. Remembers(mem[r], t) BY <1>1 DEF Memory, RecordsRemember
            <4>2. m.slot[t] = mem[r].slot[t] /\ (t = Main => m.hand = mem[r].hand)
                BY <3>2 DEF MemoryStep
            <4>3. Remembers(m, t) BY <4>1, <4>2 DEF Remembers
            <4> QED BY <1>5, <3>2, <4>3, RemembersOn
        <3>3. CASE q = r /\ rec = m /\ t = s
            <4>1. CASE Remembers(m, s) BY <1>5, <3>3, <4>1, RemembersOn
            <4>2. CASE m.slot[s].started /\ KnowsNext(m.slot[s].id, m.slot[s].must)
                BY <3>3, <4>2 DEF Remembers, Knows, KnowsNext
            <4> QED BY <3>3, <4>1, <4>2 DEF MemoryStep
        <3> QED BY <1>2, <1>4, <2>1, <3>1, <3>2, <3>3
    <2>2. ASSUME NEW q \in Runs, NEW t \in Persisting \cap Slots, checkpoint'[q] # NoRecord
          PROVE  Remembers(checkpoint[q], t)'
        <3>1. Remembers(checkpoint[q], t)
            BY <2>2 DEF MemoryStep, Memory, RecordsRemember
        <3>2. PICK rec : rec = checkpoint[q] OBVIOUS
        <3>3. Remembers(rec, t)' BY <1>5, <3>1, <3>2, RemembersOn
        <3>4. checkpoint' = checkpoint BY DEF MemoryStep
        <3> QED BY <3>2, <3>3, <3>4 DEF Remembers, Knows
    <2>3. checkpoint' = checkpoint BY DEF MemoryStep
    <2> QED BY <2>1, <2>2, <2>3 DEF RecordsRemember
<1>7. OpenedKnows'
    <2>1. ASSUME NEW q \in Runs, NEW t \in ClientSlots, NEW rec \in Recs(q)',
                 rec.slot[t].id \in Known'
          PROVE  KnowsNext(rec.slot[t].id, rec.slot[t].must)
        <3>0. t \in Slots BY DEF Slots
        <3>1. CASE rec \in Recs(q)
            BY <1>5, <2>1, <3>1, KnowledgeGrows DEF Memory, OpenedKnows
        <3>2. CASE q = r /\ rec = m /\ t # s
            <4>1. m.slot[t] = mem[r].slot[t] BY <3>0, <3>2 DEF MemoryStep
            <4> QED BY <1>1, <1>5, <2>1, <3>2, <4>1, KnowledgeGrows DEF Memory, OpenedKnows
        <3>3. CASE q = r /\ rec = m /\ t = s
            BY <1>5, <2>1, <3>3, KnowledgeGrows DEF MemoryStep
        <3> QED BY <1>2, <1>4, <2>1, <3>1, <3>2, <3>3
    <2> QED BY <2>1 DEF OpenedKnows, Knows, KnowsNext
<1>8. SlotsWait'
    <2>1. ASSUME NEW q \in Runs, NEW t \in Slots, call'[q][t] # NoCall
          PROVE  /\ mem'[q].slot[t] = disk'[q].slot[t]
                 /\ t \in ClientSlots => mem'[q].slot[t].id = call'[q][t].id
        <3>1. CASE q # r BY <1>3, <2>1, <3>1 DEF Memory, SlotsWait
        <3>2. CASE q = r /\ t # s BY <2>1, <3>2 DEF MemoryStep, Memory, SlotsWait
        <3>3. CASE q = r /\ t = s BY <2>1, <3>3 DEF MemoryStep
        <3> QED BY <3>1, <3>2, <3>3
    <2> QED BY <2>1 DEF SlotsWait
<1>9. CallsAreBriefed'
    <2>1. ASSUME NEW q \in Runs, NEW t \in Persisting \cap Slots
          PROVE  \E c, must : /\ c = call'[q][t] /\ must = mem'[q].slot[t].must
                              /\ Briefed(c, must) \/ c = NoCall
        <3>1. CASE q # r BY <1>3, <3>1 DEF Memory, CallsAreBriefed
        <3>2. CASE q = r /\ t # s
            <4>1. mem'[q].slot[t] = mem[q].slot[t] /\ call'[q][t] = call[q][t]
                BY <3>2 DEF MemoryStep
            <4> QED BY <4>1 DEF Memory, CallsAreBriefed
        <3>3. CASE q = r /\ t = s BY <3>3 DEF MemoryStep
        <3> QED BY <3>1, <3>2, <3>3
    <2>2. ASSUME NEW q \in Runs, NEW t \in Persisting \cap Slots
          PROVE  Briefed(call[q][t], mem[q].slot[t].must)'
        <3>1. PICK c, must : /\ c = call'[q][t] /\ must = mem'[q].slot[t].must
                             /\ Briefed(c, must) \/ c = NoCall
            BY <2>1
        <3>2. Briefed(c, must)'
            <4>1. CASE Briefed(c, must) BY <1>5, <4>1, BriefedOn
            <4>2. CASE c = NoCall BY <4>2 DEF Briefed, NoCall
            <4> QED BY <3>1, <4>1, <4>2
        <3> QED BY <3>1, <3>2 DEF Briefed, Knows
    <2> QED BY <2>2 DEF CallsAreBriefed
<1> QED BY <1>6, <1>7, <1>8, <1>9 DEF Memory


\* A record that starts out remembering, under ids the providers never saw.
Begins(rec) ==
    /\ \A s \in Persisting \cap Slots : Remembers(rec, s)
    /\ \A s \in ClientSlots : rec.slot[s].id \notin Known

\* Nothing is forgotten by a step that tells the providers nothing and sends no
\* turn, and whose records are old ones or begin so.
LEMMA MemoryStays ==
    ASSUME Memory, UNCHANGED sessions,
           \A q \in Runs : \A rec \in Recs(q)' : rec \in Recs(q) \/ Begins(rec),
           \A q \in Runs : checkpoint'[q] \in {checkpoint[q], NoRecord} \cup Recs(q),
           \A q \in Runs, t \in Slots :
              \/ call'[q][t] = NoCall
              \/ call'[q][t] = call[q][t] /\ mem'[q] = mem[q] /\ disk'[q] = disk[q]
    PROVE  Memory'
<1>1. Known' = Known BY DEF Known
<1>2. RecordsRemember'
    <2>1. ASSUME NEW q \in Runs, NEW t \in Persisting \cap Slots, NEW rec \in Recs(q)'
          PROVE  Remembers(rec, t)
        BY DEF Memory, RecordsRemember, Begins
    <2>2. ASSUME NEW q \in Runs, NEW t \in Persisting \cap Slots, checkpoint'[q] # NoRecord
          PROVE  \E rec : rec = checkpoint'[q] /\ Remembers(rec, t)
        BY <2>2 DEF Memory, RecordsRemember
    <2> QED BY <1>1, <2>1, <2>2 DEF RecordsRemember, Remembers, Knows
<1>3. OpenedKnows'
    <2>1. ASSUME NEW q \in Runs, NEW t \in ClientSlots, NEW rec \in Recs(q)',
                 rec.slot[t].id \in Known
          PROVE  Knows(rec.slot[t].id, rec.slot[t].must)
        BY <2>1 DEF Memory, OpenedKnows, Begins
    <2> QED BY <1>1, <2>1 DEF OpenedKnows, Knows
<1>4. SlotsWait' BY DEF Memory, SlotsWait
<1>5. CallsAreBriefed'
    <2>1. ASSUME NEW q \in Runs, NEW t \in Persisting \cap Slots
          PROVE  \E c, must : c = call'[q][t] /\ must = mem'[q].slot[t].must /\ Briefed(c, must)
        <3>1. CASE call'[q][t] = NoCall BY <3>1 DEF Briefed, NoCall
        <3>2. CASE call'[q][t] = call[q][t] /\ mem'[q] = mem[q]
            BY <3>2 DEF Memory, CallsAreBriefed
        <3> QED BY <3>1, <3>2
    <2> QED BY <1>1, <2>1 DEF CallsAreBriefed, Briefed, Knows
<1> QED BY <1>2, <1>3, <1>4, <1>5 DEF Memory
\* A Claude turn is sent under an id that every record of the run has spent.
LEMMA ClaudeSpawnKeeps ==
    ASSUME IInv, NEW r \in Runs, NEW s \in Slots, ClaudeSpawn(r, s)
    PROVE  TypeOK' /\ InStep' /\ LocalStep(r, s) /\ (Memory => Memory')
<1> DEFINE c0 == mem[r].slot[s]
           c == IF c0.id = None THEN Unopened(minted + 1, c0.owed, c0.must) ELSE c0
           dead == HasDeadTurn(s, c)
           fork == ~dead /\ Owes(s, c)
           resume == dead \/ (~fork /\ HasMemory(s, c))
           put == IF dead THEN c ELSE Registered(s, c)
           m == [mem[r] EXCEPT !.slot[s] = put]
           sent == [at |-> "sent", id |-> c.id, handoff |-> FALSE,
                    kind |-> IF resume THEN "resume" ELSE IF fork THEN "fork" ELSE "new",
                    parent |-> IF fork THEN c.owed ELSE None, brief |-> Brief(r, s, c)]
<1>1. /\ s \in ClientSlots /\ s \in Persisting /\ s \notin ProviderSlots
      /\ state[r] = "on" /\ call[r][s] = NoCall /\ mem[r] = disk[r]
    BY SlotsAssumption DEF ClaudeSpawn, MayBegin, IInv, InStep
<1>2. /\ mem[r] \in Rec /\ Recs(r) = {mem[r]} /\ c0 \in Conversation /\ mem[r].hand \in Facts
    BY <1>1, Shapes
<1>3. /\ minted' \in Ids /\ minted' \in {minted, minted + 1} /\ minted \in Nat
      /\ c0.id = None => minted' = minted + 1
    BY RecordTypes, SlotsAssumption DEF ClaudeSpawn, Minting, IInv, TypeOK, Ids
<1>4. /\ c \in Conversation /\ c.id # None
      /\ c = c0 \/ (c.id = minted + 1 /\ minted' = minted + 1 /\ ~c.registered /\ ~c.started)
    BY <1>2, <1>3 DEF Unopened, Conversation, None
<1>5. /\ put \in Conversation /\ put.id = c.id /\ Spent(put)
      /\ c.registered => put = c0
    <2>1. CASE dead BY <1>2, <1>4, <2>1 DEF HasDeadTurn, Spent
    <2>2. CASE ~dead BY <1>1, <1>2, <1>4, <2>2 DEF Registered, Spent, Conversation
    <2> QED BY <2>1, <2>2
<1>6. /\ UNCHANGED <<checkpoint, sessions, turns>>
      /\ \/ Save(r, m)
         \/ mem' = [mem EXCEPT ![r] = m] /\ UNCHANGED <<disk, state, faults>> /\ c.registered
      /\ IF state'[r] = "on" THEN call' = [call EXCEPT ![r][s] = sent] ELSE UNCHANGED call
    <2>1. UNCHANGED <<checkpoint, sessions, turns>> BY DEF ClaudeSpawn
    <2>2. IF fork \/ ~c.registered THEN Save(r, m)
          ELSE mem' = [mem EXCEPT ![r] = m] /\ UNCHANGED <<disk, state, faults>>
        BY Zenon DEF ClaudeSpawn
    <2>3. IF state'[r] = "on" THEN CallIs(r, s, sent) ELSE UNCHANGED call
        BY Zenon DEF ClaudeSpawn
    <2> HIDE DEF c, m, fork, sent
    <2> QED BY <2>1, <2>2, <2>3 DEF CallIs
<1>7. sent \in Calls /\ sent.at = "sent" /\ sent.id = c.id
      /\ (sent.kind # "resume" => ~resume)
    BY <1>2, <1>4, RecordTypes DEF Calls, Brief, Conversation
<1>8. ~resume => c.id \notin Known
    <2>1. CASE c.id = minted + 1 BY <1>3, <2>1 DEF IInv, Ownership, Bounded
    <2>2. CASE c = c0 /\ ~resume
        <3>1. ~Spent(c0)
            BY <1>1, <1>4, <2>2 DEF HasDeadTurn, Owes, HasMemory, Spent
        <3> QED BY <1>1, <1>2, <1>4, <2>2, <3>1 DEF IInv, Spending, UnspentIsUnknown
    <2> QED BY <1>4, <2>1, <2>2
<1> HIDE DEF c, dead, fork, resume, sent
<1>9. /\ m \in Rec /\ m.slot[s] = put /\ \A t \in Slots : t # s => m.slot[t] = mem[r].slot[t]
      /\ c.registered => m = mem[r]
    BY <1>2, <1>5, SlotPut
<1> HIDE DEF put, m
<1>10. /\ mem' \in [Runs -> Records] /\ disk' \in [Runs -> Records] /\ faults' \in 0..MaxFaults
       /\ mem'[r] = m /\ disk'[r] \in {m, disk[r]}
       /\ \A q \in Runs \ {r} : mem'[q] = mem[q] /\ disk'[q] = disk[q]
       /\ Recs(r)' \subseteq Recs(r) \cup {m}
    BY <1>6, <1>9, Saves
<1>11. /\ state' \in [Runs -> {"off", "on", "ending"}] /\ state'[r] \in {"on", "ending"}
       /\ \A q \in Runs \ {r} : state'[q] = state[q]
       /\ state'[r] = "on" => disk'[r] = m
    <2>1. CASE Save(r, m) BY <1>1, <1>9, <2>1 DEF Save, IInv, TypeOK
    <2>2. CASE UNCHANGED <<disk, state>> /\ c.registered BY <1>1, <1>9, <2>2 DEF IInv, TypeOK
    <2> QED BY <1>6, <2>1, <2>2
<1>12. Follows(r, s, s, put)
    <2>1. c.owed = c0.owed BY <1>2 DEF c, Unopened, Conversation
    <2>2. put.owed = c.owed BY <1>4 DEF put, Registered, Conversation
    <2> QED BY <1>2, <1>4, <1>5, <2>1, <2>2 DEF Follows
<1>13. \A t \in Slots : \A rec \in Recs(r)' : Follows(r, s, t, rec.slot[t])
    BY <1>2, <1>9, <1>10, <1>12, RecordFollows
<1>14. call \in [Runs -> [Slots -> Calls]] BY DEF IInv, TypeOK
<1>15. state'[r] = "on" => NewCall(r, s, sent)
    <2>1. c.id \in Ids BY <1>4 DEF Conversation
    <2>2. Holds(r, s, c.id) \/ (c.id = minted + 1 /\ minted' = minted + 1)
        BY <1>2, <1>4 DEF Holds
    <2>3. state'[r] = "on" => \A rec \in Recs(r)' : rec = m BY <1>10, <1>11 DEF Recs
    <2> QED BY <1>4, <1>5, <1>7, <1>8, <1>9, <2>1, <2>2, <2>3 DEF NewCall
<1>16. /\ call' \in [Runs -> [Slots -> Calls]]
       /\ \A q \in Runs \ {r} : call'[q] = call[q]
       /\ \A t \in Slots : call'[r][t] = call[r][t]
                           \/ (t = s /\ NewCall(r, s, call'[r][s]))
    <2>1. CASE state'[r] = "on" BY <1>6, <1>7, <1>14, <1>15, <2>1
    <2>2. CASE state'[r] # "on" BY <1>6, <1>14, <2>2
    <2> QED BY <2>1, <2>2
<1>17. LocalStep(r, s)
    <2>1. disk'[r] # NoRecord BY <1>1, <1>2, <1>9, <1>10, RecordTypes
    <2> QED BY <1>3, <1>6, <1>10, <1>13, <1>16, <2>1 DEF LocalStep, Known
<1>18. TypeOK' BY <1>3, <1>6, <1>10, <1>11, <1>16 DEF IInv, TypeOK, Known
<1>19. InStep' BY <1>1, <1>2, <1>9, <1>10, <1>11, <1>17, StaysInStep
<1>20. ASSUME Memory PROVE MemoryStep(r, s, m)
    <2>1. /\ Remembers(mem[r], s) /\ (c0.id \in Known => Knows(c0.id, c0.must))
        BY <1>1, <1>2, <1>20 DEF Memory, RecordsRemember, OpenedKnows
    <2>2. c0.started => c0.id # None
        BY <2>1 DEF Remembers, Knows, IInv, Ownership, Bounded, None
    <2>3. /\ c.must = c0.must /\ c.owed = c0.owed /\ c.started = c0.started
        BY <1>2, <2>2 DEF c, Unopened, Conversation
    <2>4. put.must = c.must /\ put.owed = c.owed /\ put.started = c.started
        BY <1>4 DEF put, Registered, Conversation
    <2>5. c.id \in Known => c = c0
        BY <1>3, <1>4 DEF IInv, Ownership, Bounded
    <2>6. m.hand = mem[r].hand BY <1>2, <1>5, SlotPut DEF m
    <2>7. Remembers(m, s)
        <3>1. put.started => put.id = c0.id BY <1>2, <1>5, <2>2, <2>3, <2>4 DEF c
        <3> QED BY <1>9, <2>1, <2>3, <2>4, <2>6, <3>1 DEF Remembers
    <2>8. m.slot[s].id \in Known => Knows(m.slot[s].id, m.slot[s].must)
        BY <1>5, <1>9, <2>1, <2>4, <2>5
    <2>9. Briefed(sent, c.must)
        <3>1. CASE resume
            <4>1. sent.kind = "resume" BY <3>1 DEF sent
            <4> QED BY <1>7, <2>1, <2>5, <4>1 DEF Briefed
        <3>2. CASE ~resume /\ fork
            <4>1. sent.kind = "fork" /\ sent.parent = c.owed BY <3>2 DEF sent
            <4>2. ~c0.started /\ c0.owed # None BY <2>3, <3>2 DEF fork, Owes
            <4> QED BY <1>7, <2>1, <2>3, <4>1, <4>2 DEF Briefed, Remembers
        <3>3. CASE ~resume /\ ~fork
            <4>1. sent.kind = "new" /\ sent.brief = Brief(r, s, c) BY <3>3 DEF sent
            <4>2. ~dead /\ ~Owes(s, c) /\ ~HasMemory(s, c) BY <3>3 DEF resume, fork
            <4>3. ~c0.started /\ c0.owed = None
                BY <1>1, <1>4, <2>3, <4>2 DEF Owes, HasMemory
            <4>4. sent.brief = IF s = Main THEN mem[r].hand ELSE {}
                BY <4>1, <4>2 DEF Brief, Continuity, dead
            <4> QED BY <1>7, <2>1, <2>3, <4>1, <4>3, <4>4 DEF Briefed, Remembers
        <3> QED BY <3>1, <3>2, <3>3
    <2>10. \/ call'[r][s] = NoCall
           \/ /\ disk'[r].slot[s] = m.slot[s] /\ m.slot[s].id = call'[r][s].id
              /\ Briefed(call'[r][s], m.slot[s].must)
        <3>1. CASE state'[r] # "on" BY <1>1, <1>6, <3>1
        <3>2. CASE state'[r] = "on"
            <4>1. call'[r][s] = sent BY <1>6, <1>14, <3>2
            <4> QED BY <1>5, <1>7, <1>9, <1>11, <2>4, <2>9, <3>2, <4>1
        <3> QED BY <3>1, <3>2
    <2>11. \A t \in Slots : t # s => call'[r][t] = call[r][t] BY <1>16
    <2>12. Grown /\ Known' = Known BY <1>6 DEF Grown, Known
    <2> QED BY <1>1, <1>6, <1>9, <1>10, <2>6, <2>7, <2>8, <2>10, <2>11, <2>12 DEF MemoryStep
<1>21. Memory => Memory' BY <1>1, <1>9, <1>17, <1>20, MemoryKeeps
<1> QED BY <1>17, <1>18, <1>19, <1>21

\* A turn that comes back leaves its slot, and a record that follows.
LEMMA ComesBack ==
    ASSUME IInv, NEW r \in Runs, NEW s \in Slots, NEW m \in Rec, state[r] # "off",
           Save(r, m) \/ TriesToSave(r, m),
           state' \in {state, [state EXCEPT ![r] = "ending"]},
           state'[r] = "on" => disk'[r] = m,
           \A t \in Slots : t # s => m.slot[t] = mem[r].slot[t],
           Follows(r, s, s, m.slot[s]),
           call' = [call EXCEPT ![r][s] = NoCall],
           minted' \in {minted, minted + 1},
           Known' = Known, \A i \in Known : sessions'[i].owner = sessions[i].owner
    PROVE  /\ mem' \in [Runs -> Records] /\ disk' \in [Runs -> Records] /\ faults' \in 0..MaxFaults
           /\ state' \in [Runs -> {"off", "on", "ending"}]
           /\ call' \in [Runs -> [Slots -> Calls]]
           /\ InStep' /\ LocalStep(r, s)
<1>1. /\ mem' \in [Runs -> Records] /\ disk' \in [Runs -> Records] /\ faults' \in 0..MaxFaults
      /\ mem'[r] = m /\ disk'[r] \in {m, disk[r]}
      /\ \A q \in Runs \ {r} : mem'[q] = mem[q] /\ disk'[q] = disk[q]
      /\ Recs(r)' \subseteq Recs(r) \cup {m}
    BY Saves
<1>2. mem[r] \in Rec /\ disk[r] \in Rec /\ mem[r] \in Recs(r) BY Shapes
<1>3. \A t \in Slots : \A rec \in Recs(r)' : Follows(r, s, t, rec.slot[t])
    BY <1>1, <1>2, RecordFollows
<1>4. /\ call' \in [Runs -> [Slots -> Calls]]
      /\ \A q \in Runs \ {r} : call'[q] = call[q]
      /\ \A t \in Slots : call'[r][t] \in {NoCall, call[r][t]}
    <2>1. call \in [Runs -> [Slots -> Calls]] BY DEF IInv, TypeOK
    <2> QED BY <2>1, RecordTypes
<1>5. /\ state' \in [Runs -> {"off", "on", "ending"}] /\ state'[r] \in {"on", "ending"}
      /\ \A q \in Runs \ {r} : state'[q] = state[q]
    <2>1. state \in [Runs -> {"off", "on", "ending"}] BY DEF IInv, TypeOK
    <2> QED BY <2>1
<1>6. LocalStep(r, s)
    <2>1. disk'[r] # NoRecord BY <1>1, <1>2, RecordTypes
    <2> QED BY <1>1, <1>3, <1>4, <2>1 DEF LocalStep
<1>7. InStep' BY <1>1, <1>2, <1>5, <1>6, StaysInStep
<1> QED BY <1>1, <1>4, <1>5, <1>6, <1>7

\* What it leaves remembers what the slot did, and so does the rest.
LEMMA LeavesMemory ==
    ASSUME IInv, Memory, NEW r \in Runs, NEW s \in Slots, NEW m \in Rec, state[r] # "off",
           LocalStep(r, s), Save(r, m) \/ TriesToSave(r, m),
           \A t \in Slots : t # s => m.slot[t] = mem[r].slot[t],
           m.hand = mem[r].hand \/ s = Main,
           call' = [call EXCEPT ![r][s] = NoCall],
           Grown, Known' = Known, checkpoint' = checkpoint,
           s \in Persisting =>
              Remembers(m, s) \/ (m.slot[s].started /\ KnowsNext(m.slot[s].id, m.slot[s].must)),
           s \in ClientSlots /\ m.slot[s].id \in Known =>
              Knows(m.slot[s].id, m.slot[s].must) \/ KnowsNext(m.slot[s].id, m.slot[s].must)
    PROVE  Memory'
<1>1. call \in [Runs -> [Slots -> Calls]] BY DEF IInv, TypeOK
<1>2. call'[r][s] = NoCall /\ \A t \in Slots : t # s => call'[r][t] = call[r][t] BY <1>1
<1>3. mem'[r] = m /\ disk'[r] \in {m, disk[r]} BY Saves
<1>4. MemoryStep(r, s, m) BY <1>2, <1>3 DEF MemoryStep
<1> QED BY <1>4, MemoryKeeps

\* A turn that succeeds starts its slot's conversation, or names it.
LEMMA SucceedsKeeps ==
    ASSUME IInv, NEW r \in Runs, NEW s \in Slots, Succeeds(r, s)
    PROVE  TypeOK' /\ InStep' /\ LocalStep(r, s) /\ (Memory => Memory')
<1> DEFINE c == mem[r].slot[s]
           id == call[r][s].id
           put == Started(s, c, id, turns + 1)
           m == [mem[r] EXCEPT !.slot[s] = put]
<1>1. /\ call[r][s].at = "open" /\ call[r][s] # NoCall /\ turns < MaxTurns /\ turns' = turns + 1
      /\ sessions' = [sessions EXCEPT ![id].knows = @ \cup {turns + 1}]
      /\ UNCHANGED <<checkpoint, minted>> /\ call' = [call EXCEPT ![r][s] = NoCall]
    BY DEF Succeeds, NoCall, CallIs
<1>2. Save(r, [mem[r] EXCEPT !.slot[s] = Started(s, @, id, turns + 1)]) BY DEF Succeeds
<1>3. state[r] # "off" BY <1>1 DEF IInv, InStep
<1>4. mem[r] \in Rec /\ mem[r] \in Recs(r) /\ c \in Conversation BY <1>3, Shapes
<1>5. Save(r, m) BY <1>2, <1>4 DEF Rec
<1>6. turns' \in 0..MaxTurns /\ turns + 1 \in 1..MaxTurns
    BY <1>1, SlotsAssumption DEF IInv, TypeOK
<1>7. id \in Ids /\ id \in Known BY <1>1 DEF IInv, TypeOK, Calls, CallsAreSent
<1>8. /\ put \in Conversation /\ Spent(put)
      /\ put.id = c.id \/ (s \in ProviderSlots /\ put.id = id)
      /\ put.owed \in {c.owed, None}
    BY <1>4, <1>6, <1>7, RecordTypes DEF Started, Conversation, Spent, Facts, Slots
<1> HIDE DEF put
<1>9. /\ m \in Rec /\ m.slot[s] = put /\ \A t \in Slots : t # s => m.slot[t] = mem[r].slot[t]
    BY <1>4, <1>8, SlotPut
<1> HIDE DEF m
<1>10. Follows(r, s, s, m.slot[s]) BY <1>1, <1>4, <1>8, <1>9 DEF Follows
<1>11. /\ sessions' \in [Known -> [owner : Runs, knows : Facts]]
       /\ \A i \in Known : sessions'[i].owner = sessions[i].owner
    <2>1. sessions \in [Known -> [owner : Runs, knows : Facts]] BY DEF IInv, TypeOK
    <2>2. sessions[id].knows \cup {turns + 1} \in Facts BY <1>6, <1>7, <2>1 DEF Facts
    <2> QED BY <1>1, <1>7, <2>1, <2>2
<1>12. Known' = Known BY <1>11 DEF Known
<1>13. /\ state' \in {state, [state EXCEPT ![r] = "ending"]}
       /\ state'[r] = "on" => disk'[r] = m
    BY <1>5, <1>9 DEF Save, IInv, TypeOK
<1>14. /\ mem' \in [Runs -> Records] /\ disk' \in [Runs -> Records] /\ faults' \in 0..MaxFaults
       /\ state' \in [Runs -> {"off", "on", "ending"}]
       /\ call' \in [Runs -> [Slots -> Calls]]
       /\ InStep' /\ LocalStep(r, s)
    BY <1>1, <1>3, <1>5, <1>9, <1>10, <1>11, <1>12, <1>13, ComesBack
<1>15. Grown
    <2>1. sessions \in [Known -> [owner : Runs, knows : Facts]] BY DEF IInv, TypeOK
    <2> QED BY <1>1, <1>7, <1>12, <2>1 DEF Grown
<1>16. ASSUME Memory PROVE Memory'
    <2>1. s \in Persisting => Knows(id, c.must)
        BY <1>1, <1>16 DEF Memory, CallsAreBriefed, Briefed
    <2>2. s \in ClientSlots => s \in Persisting /\ c.id = id
        BY <1>1, <1>16, SlotsAssumption DEF Memory, SlotsWait
    <2>3. s \in Persisting => /\ put.id = id /\ put.must = c.must \cup {turns + 1}
        BY <1>4, <1>8, <2>2 DEF put, Started, Conversation, Slots
    <2>4. s \in Persisting => KnowsNext(put.id, put.must)
        <3>1. sessions \in [Known -> [owner : Runs, knows : Facts]] BY DEF IInv, TypeOK
        <3>2. sessions'[id].knows = sessions[id].knows \cup {turns + 1} BY <1>1, <1>7, <3>1
        <3> QED BY <1>7, <1>12, <2>1, <2>3, <3>2 DEF Knows, KnowsNext
    <2>5. put.started BY <1>4 DEF put, Started, Conversation
    <2>6. m.hand = mem[r].hand BY <1>4, <1>8, SlotPut DEF m
    <2> QED BY <1>1, <1>3, <1>5, <1>9, <1>12, <1>14, <1>15, <1>16, <2>2, <2>4, <2>5, <2>6,
               LeavesMemory
<1>17. TypeOK' BY <1>1, <1>6, <1>11, <1>12, <1>14 DEF IInv, TypeOK
<1> QED BY <1>14, <1>16, <1>17

\* A rate limit changes no record.
LEMMA RateLimitedKeeps ==
    ASSUME IInv, NEW r \in Runs, NEW s \in Slots,
           \/ RateLimited(r, s)
           \/ s = Main /\ HandoffFails(r)
    PROVE  TypeOK' /\ InStep' /\ LocalStep(r, s) /\ (Memory => Memory')
<1>1. /\ call[r][s] # NoCall /\ TriesToSave(r, mem[r])
      /\ state' \in {state, [state EXCEPT ![r] = "ending"]}
      /\ call' = [call EXCEPT ![r][s] = NoCall]
      /\ UNCHANGED <<checkpoint, sessions, minted, turns>>
    BY DEF RateLimited, HandoffFails, CallIs, NoCall
<1>2. state[r] # "off" BY <1>1 DEF IInv, InStep
<1>3. mem[r] \in Rec /\ mem[r] \in Recs(r) BY <1>2, Shapes
<1>4. Follows(r, s, s, mem[r].slot[s]) BY <1>3 DEF Follows
<1>5. state'[r] = "on" => disk'[r] = mem[r]
    BY <1>1 DEF TriesToSave, IInv, TypeOK, InStep
<1>6. Known' = Known BY <1>1 DEF Known
<1>7. /\ mem' \in [Runs -> Records] /\ disk' \in [Runs -> Records] /\ faults' \in 0..MaxFaults
      /\ state' \in [Runs -> {"off", "on", "ending"}]
      /\ call' \in [Runs -> [Slots -> Calls]]
      /\ InStep' /\ LocalStep(r, s)
    BY <1>1, <1>2, <1>3, <1>4, <1>5, <1>6, ComesBack
<1>8. ASSUME Memory PROVE Memory'
    <2>1. s \in Persisting => Remembers(mem[r], s) BY <1>3, <1>8 DEF Memory, RecordsRemember
    <2>2. s \in ClientSlots /\ mem[r].slot[s].id \in Known =>
             Knows(mem[r].slot[s].id, mem[r].slot[s].must)
        BY <1>3, <1>8 DEF Memory, OpenedKnows
    <2>3. Grown BY <1>1 DEF Grown, Known
    <2> QED BY <1>1, <1>2, <1>3, <1>6, <1>7, <1>8, <2>1, <2>2, <2>3, LeavesMemory
<1>9. TypeOK' BY <1>1, <1>6, <1>7 DEF IInv, TypeOK
<1> QED BY <1>7, <1>8, <1>9

\* An id nothing succeeded on is given up for a fresh one; any other is kept.
LEMMA FailsKeeps ==
    ASSUME IInv, NEW r \in Runs, NEW s \in Slots, Fails(r, s)
    PROVE  TypeOK' /\ InStep' /\ LocalStep(r, s) /\ (Memory => Memory')
<1> DEFINE c == mem[r].slot[s]
           put == Recovered(s, c)
           m == [mem[r] EXCEPT !.slot[s] = put]
<1>1. /\ call[r][s] # NoCall /\ TriesToSave(r, m)
      /\ state' = [state EXCEPT ![r] = "ending"] \/ (s \in ProviderSlots /\ UNCHANGED state)
      /\ call' = [call EXCEPT ![r][s] = NoCall]
      /\ UNCHANGED <<checkpoint, sessions, turns>>
    BY DEF Fails, CallIs
<1>2. state[r] # "off" BY <1>1 DEF IInv, InStep
<1>3. mem[r] \in Rec /\ mem[r] \in Recs(r) /\ c \in Conversation BY <1>2, Shapes
<1>4. /\ minted' \in Ids /\ minted' \in {minted, minted + 1}
      /\ HasDeadTurn(s, c) => minted' = minted + 1
    BY RecordTypes DEF Fails, Minting, IInv, TypeOK, Ids
<1>5. /\ put \in Conversation
      /\ put = c \/ (HasDeadTurn(s, c) /\ put.id = minted + 1)
      /\ put.owed = c.owed
      /\ s \in ProviderSlots => put = c
    BY <1>3, <1>4, SlotsAssumption DEF Recovered, Unopened, Conversation, HasDeadTurn
<1> HIDE DEF put
<1>6. /\ m \in Rec /\ m.slot[s] = put /\ \A t \in Slots : t # s => m.slot[t] = mem[r].slot[t]
      /\ put = c => m = mem[r]
    BY <1>3, <1>5, SlotPut
<1> HIDE DEF m
<1>7. Follows(r, s, s, m.slot[s]) BY <1>3, <1>4, <1>5, <1>6 DEF Follows
<1>8. state'[r] = "on" => disk'[r] = m
    <2>1. state'[r] = "on" => UNCHANGED state /\ m = mem[r] BY <1>1, <1>5, <1>6 DEF IInv, TypeOK
    <2> QED BY <1>1, <2>1 DEF TriesToSave, IInv, TypeOK, InStep
<1>9. Known' = Known BY <1>1 DEF Known
<1>10. /\ mem' \in [Runs -> Records] /\ disk' \in [Runs -> Records] /\ faults' \in 0..MaxFaults
       /\ state' \in [Runs -> {"off", "on", "ending"}]
       /\ call' \in [Runs -> [Slots -> Calls]]
       /\ InStep' /\ LocalStep(r, s)
    BY <1>1, <1>2, <1>4, <1>6, <1>7, <1>8, <1>9, ComesBack
<1>11. ASSUME Memory PROVE Memory'
    <2>1. /\ s \in Persisting => Remembers(mem[r], s)
          /\ s \in ClientSlots /\ c.id \in Known => Knows(c.id, c.must)
        BY <1>3, <1>11 DEF Memory, RecordsRemember, OpenedKnows
    <2>2. /\ put.started = c.started /\ put.owed = c.owed /\ put.must = c.must
          /\ put.started => put.id = c.id
          /\ put.id \in Known => put.id = c.id
        <3>1. minted + 1 \notin Known BY RecordTypes DEF IInv, TypeOK, Ownership, Bounded
        <3> QED BY <1>3, <1>5, <3>1 DEF put, Recovered, Unopened, HasDeadTurn, Conversation
    <2>3. m.hand = mem[r].hand BY <1>3, <1>5, SlotPut DEF m
    <2>4. s \in Persisting => Remembers(m, s) BY <1>6, <2>1, <2>2, <2>3 DEF Remembers
    <2>5. Grown BY <1>1 DEF Grown, Known
    <2> QED BY <1>1, <1>2, <1>6, <1>9, <1>10, <1>11, <2>1, <2>2, <2>3, <2>4, <2>5, LeavesMemory
<1>12. TypeOK' BY <1>1, <1>4, <1>9, <1>10 DEF IInv, TypeOK
<1> QED BY <1>10, <1>11, <1>12

\* A rotation replaces the main conversation by one with a fresh id.
LEMMA RotationKeeps ==
    ASSUME IInv, NEW r \in Runs, HandoffOk(r) \/ HandoffForgone(r)
    PROVE  TypeOK' /\ InStep' /\ LocalStep(r, Main) /\ (Memory => Memory')
<1>1. /\ call[r][Main] # NoCall
      /\ call' = [call EXCEPT ![r][Main] = NoCall]
      /\ UNCHANGED <<checkpoint, sessions, turns>>
    BY DEF HandoffOk, HandoffForgone, CallIs, NoCall
<1>2. state[r] # "off" /\ Main \in Slots BY <1>1, RecordTypes DEF IInv, InStep
<1>3. mem[r] \in Rec /\ mem[r].slot[Main] \in Conversation /\ mem[r].hand \in Facts
    BY <1>2, Shapes
<1>4. minted' \in Ids /\ minted' = minted + 1
    BY RecordTypes DEF HandoffOk, HandoffForgone, Minting, IInv, TypeOK, Ids
<1>5. \E m \in Rec :
         /\ Save(r, m) /\ m.slot[Main].id = minted + 1
         /\ ~m.slot[Main].started /\ m.slot[Main].owed = None
         /\ Memory => m.slot[Main].must \subseteq m.hand
         /\ \A t \in Slots : t # Main => m.slot[t] = mem[r].slot[t]
    <2>1. \A hand \in Facts :
             /\ Rotated(r, hand) \in Rec
             /\ Rotated(r, hand).slot[Main] = Unopened(minted + 1, None, mem[r].slot[Main].must)
             /\ Rotated(r, hand).hand = hand
             /\ \A t \in Slots : t # Main => Rotated(r, hand).slot[t] = mem[r].slot[t]
        <3>1. \A must \in Facts : Unopened(minted + 1, None, must) \in Conversation
            BY <1>4, RecordTypes DEF Unopened, Conversation
        <3>2. mem[r].slot[Main].must \in Facts BY <1>3 DEF Conversation
        <3> QED BY <1>2, <1>3, <3>1, <3>2 DEF Rotated, Rec
    <2>2. CASE HandoffOk(r)
        <3>1. call[r][Main].id \in Known BY <1>2, <2>2 DEF HandoffOk, IInv, CallsAreSent
        <3>2. sessions[call[r][Main].id].knows \in Facts BY <3>1 DEF IInv, TypeOK
        <3>3. mem[r].slot[Main].must \in Facts BY <1>3 DEF Conversation
        <3>4. Memory => mem[r].slot[Main].must \subseteq sessions[call[r][Main].id].knows
            BY <1>2, <2>2, SlotsAssumption
            DEF HandoffOk, Memory, CallsAreBriefed, Briefed, Knows
        <3> QED BY <2>1, <2>2, <3>2, <3>3, <3>4 DEF HandoffOk, Unopened
    <2>3. CASE HandoffForgone(r)
        <3> DEFINE m == [Rotated(r, mem[r].hand) EXCEPT !.slot[Main].must = mem[r].hand]
        <3> DEFINE old == Rotated(r, mem[r].hand)
                   c == [old.slot[Main] EXCEPT !.must = mem[r].hand]
        <3>1. /\ m \in Rec /\ m.slot[Main].id = minted + 1
              /\ ~m.slot[Main].started /\ m.slot[Main].owed = None
              /\ m.slot[Main].must = mem[r].hand /\ m.hand = mem[r].hand
              /\ \A t \in Slots : t # Main => m.slot[t] = mem[r].slot[t]
            <4>1. /\ old \in Rec /\ old.slot[Main] \in Conversation
                  /\ old.slot[Main].id = minted + 1
                  /\ ~old.slot[Main].started /\ old.slot[Main].owed = None /\ old.hand = mem[r].hand
                  /\ \A t \in Slots : t # Main => old.slot[t] = mem[r].slot[t]
                BY <1>2, <1>3, <2>1 DEF Rec, Unopened
            <4> HIDE DEF old
            <4>2. /\ c \in Conversation /\ c.id = minted + 1
                  /\ ~c.started /\ c.owed = None /\ c.must = mem[r].hand
                BY <1>3, <4>1 DEF Conversation
            <4>3. [old EXCEPT !.slot[Main].must = mem[r].hand] = [old EXCEPT !.slot[Main] = c]
                BY <1>2, <4>1 DEF Rec
            <4> HIDE DEF c
            <4> QED BY <1>2, <4>1, <4>2, <4>3, SlotPut DEF old
        <3>2. Save(r, m) BY <2>3 DEF HandoffForgone
        <3> QED BY <1>3, <3>1, <3>2
    <2> QED BY <2>2, <2>3
<1>6. PICK m \in Rec : /\ Save(r, m) /\ m.slot[Main].id = minted + 1
                       /\ ~m.slot[Main].started /\ m.slot[Main].owed = None
                       /\ Memory => m.slot[Main].must \subseteq m.hand
                       /\ \A t \in Slots : t # Main => m.slot[t] = mem[r].slot[t]
    BY <1>5
<1>7. Follows(r, Main, Main, m.slot[Main]) BY <1>4, <1>6 DEF Follows
<1>8. /\ state' \in {state, [state EXCEPT ![r] = "ending"]}
      /\ state'[r] = "on" => disk'[r] = m
    BY <1>6 DEF Save, IInv, TypeOK
<1>9. Known' = Known BY <1>1 DEF Known
<1>10. /\ mem' \in [Runs -> Records] /\ disk' \in [Runs -> Records] /\ faults' \in 0..MaxFaults
       /\ state' \in [Runs -> {"off", "on", "ending"}]
       /\ call' \in [Runs -> [Slots -> Calls]]
       /\ InStep' /\ LocalStep(r, Main)
    BY <1>1, <1>2, <1>4, <1>6, <1>7, <1>8, <1>9, ComesBack
<1>11. ASSUME Memory PROVE Memory'
    <2>1. minted + 1 \notin Known BY RecordTypes DEF IInv, TypeOK, Ownership, Bounded
    <2>2. Remembers(m, Main) BY <1>6, <1>11 DEF Remembers
    <2>3. Grown BY <1>1 DEF Grown, Known
    <2>4. m.slot[Main].id \notin Known BY <1>6, <2>1
    <2>5. \A t \in Slots : t # Main => m.slot[t] = mem[r].slot[t] BY <1>6
    <2>6. Save(r, m) /\ LocalStep(r, Main) /\ checkpoint' = checkpoint /\ m \in Rec
        BY <1>1, <1>6, <1>10
    <2> QED BY <1>1, <1>2, <1>9, <1>11, <2>2, <2>3, <2>4, <2>5, <2>6, LeavesMemory
<1>12. TypeOK' BY <1>1, <1>4, <1>9, <1>10 DEF IInv, TypeOK
<1> QED BY <1>10, <1>11, <1>12

\* A Codex turn resumes the thread its slot has, or asks for one nobody has.
LEMMA CodexSpawnKeeps ==
    ASSUME IInv, NEW r \in Runs, NEW s \in Slots, CodexSpawn(r, s)
    PROVE  TypeOK' /\ InStep' /\ LocalStep(r, s) /\ (Memory => Memory')
<1> DEFINE c == mem[r].slot[s]
           fork == Owes(s, c)
           resume == HasMemory(s, c)
           sent == [at |-> "sent", id |-> IF resume THEN c.id ELSE minted + 1, handoff |-> FALSE,
                    kind |-> IF resume THEN "resume" ELSE IF fork THEN "fork" ELSE "new",
                    parent |-> IF fork THEN c.owed ELSE None, brief |-> Brief(r, s, c)]
<1>1. /\ s \notin ClientSlots /\ s # Main /\ state[r] = "on" /\ mem[r] = disk[r]
      /\ call[r][s] = NoCall
    BY SlotsAssumption DEF CodexSpawn, MayBegin, IInv, InStep
<1>2. mem[r] \in Rec /\ mem[r] \in Recs(r) /\ c \in Conversation /\ mem[r].hand \in Facts
    BY <1>1, Shapes
<1>3. /\ minted' \in Ids /\ minted' \in {minted, minted + 1} /\ minted \in Nat
      /\ ~resume => minted' = minted + 1
    BY RecordTypes DEF CodexSpawn, Minting, IInv, TypeOK, Ids
<1>4. /\ UNCHANGED <<checkpoint, sessions, turns>>
      /\ Save(r, mem[r]) \/ UNCHANGED <<mem, disk, state, faults>>
    BY Zenon DEF CodexSpawn
<1>5. IF state'[r] = "on" THEN CallIs(r, s, sent) ELSE UNCHANGED call BY Zenon DEF CodexSpawn
<1>6. sent \in Calls /\ NewCall(r, s, sent)
    <2>1. sent.id \in Ids /\ sent.id # None /\ (resume \/ sent.id = minted + 1)
        BY <1>2, <1>3 DEF HasMemory, Conversation, None
    <2>2. sent \in Calls BY <1>2, <2>1, RecordTypes DEF Calls, Brief, Conversation
    <2>3. resume => sent.id = c.id /\ Holds(r, s, c.id) BY <1>2 DEF HasMemory, Holds
    <2>4. minted + 1 \notin Known BY <1>3 DEF IInv, Ownership, Bounded
    <2>5. sent.at = "sent" /\ (sent.kind # "resume" => ~resume) OBVIOUS
    <2> HIDE DEF sent, resume
    <2> QED BY <1>1, <1>3, <2>1, <2>2, <2>3, <2>4, <2>5 DEF NewCall
<1>15. ASSUME Memory, s \in Persisting PROVE Remembers(mem[r], s) /\ Briefed(sent, c.must)
    <2>1. Remembers(mem[r], s) BY <1>2, <1>15 DEF Memory, RecordsRemember
    <2>2. /\ resume => sent.kind = "resume" /\ sent.id = c.id
          /\ ~resume /\ fork => sent.kind = "fork" /\ sent.parent = c.owed
          /\ ~resume /\ ~fork => sent.kind = "new"
          /\ sent.at = "sent"
        OBVIOUS
    <2>3. resume => c.started BY DEF HasMemory
    <2>4. fork => ~c.started /\ c.owed # None BY DEF Owes
    <2>5. ~resume => ~c.started
        BY <1>15, <2>1 DEF HasMemory, Remembers, Knows, IInv, Ownership, Bounded, None
    <2>6. ~resume /\ ~fork => c.must = {}
        BY <1>1, <1>15, <2>1, <2>5 DEF Owes, Remembers
    <2> HIDE DEF sent, resume, fork
    <2> QED BY <2>1, <2>2, <2>3, <2>4, <2>5, <2>6 DEF Briefed, Remembers
<1> HIDE DEF sent, resume, fork
<1>7. /\ mem' \in [Runs -> Records] /\ disk' \in [Runs -> Records] /\ faults' \in 0..MaxFaults
      /\ mem'[r] = mem[r] /\ disk'[r] \in {mem[r], disk[r]}
      /\ \A q \in Runs \ {r} : mem'[q] = mem[q] /\ disk'[q] = disk[q]
      /\ Recs(r)' \subseteq Recs(r) \cup {mem[r]}
    <2>1. CASE Save(r, mem[r]) BY <1>2, <2>1, Saves
    <2>2. CASE UNCHANGED <<mem, disk, state, faults>> BY <2>2 DEF IInv, TypeOK, Recs
    <2> QED BY <1>4, <2>1, <2>2
<1>8. /\ state' \in [Runs -> {"off", "on", "ending"}] /\ state'[r] \in {"on", "ending"}
      /\ \A q \in Runs \ {r} : state'[q] = state[q]
    BY <1>1, <1>4 DEF Save, IInv, TypeOK
<1>9. Follows(r, s, s, mem[r].slot[s]) BY <1>2 DEF Follows
<1>10. \A t \in Slots : \A rec \in Recs(r)' : Follows(r, s, t, rec.slot[t])
    BY <1>2, <1>7, <1>9, RecordFollows
<1>11. /\ call' \in [Runs -> [Slots -> Calls]]
       /\ \A q \in Runs \ {r} : call'[q] = call[q]
       /\ \A t \in Slots : call'[r][t] = call[r][t] \/ (t = s /\ NewCall(r, s, call'[r][s]))
    <2>1. call \in [Runs -> [Slots -> Calls]] BY DEF IInv, TypeOK
    <2> QED BY <1>5, <1>6, <2>1 DEF CallIs
<1>12. LocalStep(r, s)
    <2>1. disk'[r] # NoRecord BY <1>1, <1>2, <1>7, RecordTypes
    <2> QED BY <1>3, <1>4, <1>7, <1>10, <1>11, <2>1 DEF LocalStep, Known
<1>13. TypeOK' BY <1>3, <1>4, <1>7, <1>8, <1>11 DEF IInv, TypeOK, Known
<1>14. InStep' BY <1>1, <1>2, <1>7, <1>8, <1>12, StaysInStep
<1>16. ASSUME Memory PROVE MemoryStep(r, s, mem[r])
    <2>1. Grown /\ Known' = Known /\ checkpoint' = checkpoint BY <1>4 DEF Grown, Known
    <2>2. \A t \in Slots : t # s => call'[r][t] = call[r][t] BY <1>11
    <2>3. call'[r][s] \in {NoCall, sent}
        <3>1. call \in [Runs -> [Slots -> Calls]] BY DEF IInv, TypeOK
        <3> QED BY <1>1, <1>5, <3>1 DEF CallIs
    <2>4. disk'[r] = mem[r] BY <1>1, <1>7
    <2> QED BY <1>1, <1>7, <1>15, <1>16, <2>1, <2>2, <2>3, <2>4 DEF MemoryStep
<1>17. Memory => Memory' BY <1>1, <1>2, <1>12, <1>16, MemoryKeeps
<1> QED BY <1>12, <1>13, <1>14, <1>17

\* The rotation's turn is sent on the main conversation, which it resumes.
LEMMA HandoffAskedKeeps ==
    ASSUME IInv, NEW r \in Runs, HandoffAsked(r)
    PROVE  TypeOK' /\ InStep' /\ LocalStep(r, Main) /\ (Memory => Memory')
<1> DEFINE sent == [NoCall EXCEPT !.at = "sent", !.kind = "resume",
                                  !.id = mem[r].slot[Main].id, !.handoff = TRUE]
<1>1. /\ state[r] = "on" /\ mem[r] = disk[r] /\ Main \in Slots
      /\ call' = [call EXCEPT ![r][Main] = sent]
      /\ UNCHANGED <<mem, disk, checkpoint, state, sessions, minted, turns, faults>>
    BY RecordTypes DEF HandoffAsked, CallIs, IInv, InStep
<1>2. mem[r] \in Rec /\ mem[r] \in Recs(r) /\ mem[r].slot[Main] \in Conversation BY <1>1, Shapes
<1>3. /\ sent \in Calls /\ sent.at = "sent" /\ sent.kind = "resume"
      /\ sent.id = mem[r].slot[Main].id
    BY <1>2, RecordTypes DEF NoCall, Calls, Conversation
<1> HIDE DEF sent
<1>4. sent.id # None /\ sent.id \in Ids BY <1>2, <1>3 DEF IInv, MainHasAnId, Conversation
<1>5. \A rec \in Recs(r)' : rec.slot[Main].id = sent.id => Spent(rec.slot[Main])
    <2>1. mem[r].slot[Main].started BY DEF HandoffAsked
    <2>2. \A rec \in Recs(r)' : rec = mem[r] BY <1>1 DEF Recs
    <2> QED BY <2>1, <2>2 DEF Spent
<1>6. NewCall(r, Main, sent) BY <1>2, <1>3, <1>4, <1>5 DEF NewCall, Holds
<1>7. /\ call' \in [Runs -> [Slots -> Calls]]
      /\ \A q \in Runs \ {r} : call'[q] = call[q]
      /\ \A t \in Slots : call'[r][t] = call[r][t]
                          \/ (t = Main /\ NewCall(r, Main, call'[r][Main]))
    <2>1. call \in [Runs -> [Slots -> Calls]] BY DEF IInv, TypeOK
    <2> QED BY <1>1, <1>3, <1>6, <2>1
<1>8. \A t \in Slots : \A rec \in Recs(r)' : Follows(r, Main, t, rec.slot[t])
    BY <1>1 DEF Follows, Recs
<1>9. LocalStep(r, Main)
    <2>1. disk'[r] # NoRecord BY <1>1, <1>2, RecordTypes
    <2> QED BY <1>1, <1>7, <1>8, <2>1 DEF LocalStep, Known
<1>10. TypeOK' BY <1>1, <1>7 DEF IInv, TypeOK, Known
<1>11. InStep'
    <2>1. mem'[r] \in Rec /\ disk'[r] \in Rec BY <1>1, <1>2
    <2>2. state' = state /\ mem' = mem /\ disk' = disk BY <1>1
    <2> QED BY <1>1, <1>9, <2>1, <2>2, StaysInStep
<1>12. ASSUME Memory PROVE MemoryStep(r, Main, mem[r])
    <2>1. Main \in Persisting /\ Main \in ClientSlots BY SlotsAssumption
    <2>2. /\ Remembers(mem[r], Main)
          /\ Knows(mem[r].slot[Main].id, mem[r].slot[Main].must)
        BY <1>1, <1>2, <1>12, <2>1
        DEF Memory, RecordsRemember, Remembers, HandoffAsked
    <2>3. Grown /\ Known' = Known /\ checkpoint' = checkpoint BY <1>1 DEF Grown, Known
    <2>4. Briefed(sent, mem[r].slot[Main].must) BY <1>3, <2>2 DEF Briefed
    <2>5. call'[r][Main] = sent /\ \A t \in Slots : t # Main => call'[r][t] = call[r][t]
        <3>1. call \in [Runs -> [Slots -> Calls]] BY DEF IInv, TypeOK
        <3> QED BY <1>1, <3>1
    <2>6. mem'[r] = mem[r] /\ disk'[r] = mem[r] BY <1>1
    <2> QED BY <1>3, <2>2, <2>3, <2>4, <2>5, <2>6 DEF MemoryStep
<1>13. Memory => Memory' BY <1>1, <1>2, <1>9, <1>12, MemoryKeeps
<1> QED BY <1>9, <1>10, <1>11, <1>13

\* A process that starts or ends, and a checkpoint, leave every id where it was.
LEMMA ProcessKeeps ==
    ASSUME IInv, NEW r \in Runs, Start(r) \/ Exit(r) \/ Killed(r) \/ Checkpoint(r)
    PROVE  TypeOK' /\ InStep' /\ LocalStep(r, Main) /\ (Memory => Memory')
<1>1. /\ UNCHANGED <<sessions, minted, turns>>
      /\ faults' = faults \/ Fault
    BY DEF Start, Exit, Killed, Checkpoint
<1>2. /\ mem \in [Runs -> Records] /\ disk \in [Runs -> Records]
      /\ checkpoint \in [Runs -> Records]
      /\ state \in [Runs -> {"off", "on", "ending"}] /\ call \in [Runs -> [Slots -> Calls]]
    BY DEF IInv, TypeOK
<1>3. /\ mem' \in [Runs -> Records] /\ disk' \in [Runs -> Records]
      /\ checkpoint' \in [Runs -> Records]
      /\ state' \in [Runs -> {"off", "on", "ending"}] /\ call' \in [Runs -> [Slots -> Calls]]
      /\ mem'[r] \in {mem[r], disk[r]} /\ disk'[r] \in {mem[r], disk[r]}
      /\ \A q \in Runs \ {r} : /\ mem'[q] = mem[q] /\ disk'[q] = disk[q]
                               /\ call'[q] = call[q] /\ state'[q] = state[q]
      /\ \A t \in Slots : call'[r][t] \in {NoCall, call[r][t]}
    <2>1. CASE Start(r) BY <1>2, <2>1 DEF Start
    <2>2. CASE Exit(r) BY <1>2, <2>2 DEF Exit
    <2>3. CASE Killed(r) BY <1>2, <2>3, RecordTypes DEF Killed
    <2>4. CASE Checkpoint(r) BY <1>2, <2>4 DEF Checkpoint
    <2> QED BY <2>1, <2>2, <2>3, <2>4
<1>4. Recs(r)' \subseteq Recs(r) BY <1>3 DEF Recs
<1>5. \A t \in Slots : \A rec \in Recs(r)' : Follows(r, Main, t, rec.slot[t])
    BY <1>4 DEF Follows
<1>6. LocalStep(r, Main)
    <2>1. mem'[r] # NoRecord /\ disk'[r] # NoRecord
        <3>1. CASE Start(r) BY <1>2, <3>1 DEF Start
        <3>2. CASE Exit(r) \/ Killed(r) \/ Checkpoint(r)
            BY <1>3, <3>2 DEF Exit, Killed, Checkpoint, IInv, InStep
        <3> QED BY <3>1, <3>2
    <2> QED BY <1>1, <1>3, <1>5, <2>1 DEF LocalStep, Known
<1>7. TypeOK'
    <2>1. faults' \in 0..MaxFaults BY <1>1, SlotsAssumption DEF IInv, TypeOK, Fault
    <2> QED BY <1>1, <1>3, <2>1 DEF IInv, TypeOK, Known
<1>8. /\ state'[r] # "ending" => mem'[r] = disk'[r]
      /\ state'[r] # "off" => mem'[r] # NoRecord /\ disk'[r] # NoRecord
      /\ state'[r] = "off" => \A s \in Slots : call'[r][s] = NoCall
      /\ disk'[r] = NoRecord => mem'[r] = NoRecord
    <2>1. CASE Start(r) BY <1>2, <2>1 DEF Start, IInv, InStep
    <2>2. CASE Exit(r) BY <1>2, <2>2 DEF Exit, IInv, InStep
    <2>3. CASE Killed(r) BY <1>2, <2>3 DEF Killed, IInv, InStep
    <2>4. CASE Checkpoint(r) BY <1>2, <2>4 DEF Checkpoint, IInv, InStep
    <2> QED BY <2>1, <2>2, <2>3, <2>4
<1>9. InStep'
    <2>1. ASSUME NEW q \in Runs
          PROVE  /\ state'[q] # "ending" => mem'[q] = disk'[q]
                 /\ state'[q] # "off" => mem'[q] # NoRecord /\ disk'[q] # NoRecord
                 /\ state'[q] = "off" => \A s \in Slots : call'[q][s] = NoCall
                 /\ disk'[q] = NoRecord => mem'[q] = NoRecord
        <3>1. CASE q = r BY <1>8, <3>1
        <3>2. CASE q # r BY <1>3, <3>2 DEF IInv, InStep
        <3> QED BY <3>1, <3>2
    <2> QED BY <2>1 DEF InStep
<1>10. \A t \in Slots : \/ call'[r][t] = NoCall
                        \/ call'[r][t] = call[r][t] /\ mem'[r] = mem[r] /\ disk'[r] = disk[r]
    <2>1. CASE Start(r) BY <2>1 DEF Start, IInv, InStep
    <2>2. CASE Exit(r) BY <2>2 DEF Exit
    <2>3. CASE Killed(r) BY <1>2, <2>3 DEF Killed
    <2>4. CASE Checkpoint(r) BY <2>4 DEF Checkpoint
    <2> QED BY <2>1, <2>2, <2>3, <2>4
<1>11. \A q \in Runs : checkpoint'[q] \in {checkpoint[q], NoRecord} \cup Recs(q)
    <2>1. CASE Checkpoint(r) BY <1>2, <2>1 DEF Checkpoint, Recs
    <2>2. CASE ~Checkpoint(r) BY <2>2 DEF Start, Exit, Killed
    <2> QED BY <2>1, <2>2
<1>12. Memory => Memory'
    <2>1. \A q \in Runs : \A rec \in Recs(q)' : rec \in Recs(q)
        <3>1. \A q \in Runs \ {r} : Recs(q)' = Recs(q) BY <1>3 DEF Recs
        <3> QED BY <1>4, <3>1
    <2>2. \A q \in Runs, t \in Slots :
             \/ call'[q][t] = NoCall
             \/ call'[q][t] = call[q][t] /\ mem'[q] = mem[q] /\ disk'[q] = disk[q]
        BY <1>3, <1>10
    <2> QED BY <1>1, <1>11, <2>1, <2>2, MemoryStays
<1> QED BY <1>6, <1>7, <1>9, <1>12

\* A forked run starts with one fresh id, and owes the rest.
LEMMA ForkKeeps ==
    ASSUME IInv, NEW parent \in Runs, NEW child \in Runs, Fork(parent, child)
    PROVE  TypeOK' /\ InStep' /\ LocalStep(child, Main) /\ (Memory /\ PaidTogether => Memory')
<1> DEFINE rec == Forked(checkpoint[parent])
<1>1. /\ disk[child] = NoRecord /\ mem[child] = NoRecord /\ state[child] = "off"
      /\ disk' = [disk EXCEPT ![child] = rec]
      /\ mem' = [mem EXCEPT ![child] = disk'[child]]
      /\ UNCHANGED <<checkpoint, state, call, sessions, turns, faults>>
    BY DEF Fork, IInv, InStep
<1>2. minted' \in Ids /\ minted' = minted + 1
    BY RecordTypes DEF Fork, Minting, IInv, TypeOK, Ids
<1>3. checkpoint[parent] \in Rec BY RecordTypes DEF Fork, IInv, TypeOK
<1>4. /\ rec \in Rec
      /\ \A t \in Slots : rec.slot[t].id = InheritedId(checkpoint[parent], t)
    <2>1. \A t \in Slots : OwedFork(checkpoint[parent], t) \in Ids
        BY <1>3, RecordTypes DEF OwedFork, Rec, Conversation
    <2>2. \A t \in Slots : InheritedId(checkpoint[parent], t) \in Ids
        BY <1>2, RecordTypes DEF InheritedId
    <2>3. \A t \in Slots : checkpoint[parent].slot[t].must \in Facts
        BY <1>3 DEF Rec, Conversation
    <2>4. \A t \in Slots :
             LET c == Unopened(InheritedId(checkpoint[parent], t),
                               OwedFork(checkpoint[parent], t), checkpoint[parent].slot[t].must)
             IN c \in Conversation /\ c.id = InheritedId(checkpoint[parent], t)
        BY <2>1, <2>2, <2>3 DEF Unopened, Conversation
    <2>5. (IF Inherits(checkpoint[parent], Main) THEN {} ELSE checkpoint[parent].hand) \in Facts
        BY <1>3, RecordTypes DEF Rec
    <2> QED BY <2>4, <2>5 DEF Forked, Rec
<1>10. /\ \A t \in Slots : rec.slot[t] = Unopened(InheritedId(checkpoint[parent], t),
                            OwedFork(checkpoint[parent], t), checkpoint[parent].slot[t].must)
       /\ rec.hand = IF Inherits(checkpoint[parent], Main) THEN {} ELSE checkpoint[parent].hand
    BY DEF Forked
<1> HIDE DEF rec
<1>5. /\ mem' \in [Runs -> Records] /\ disk' \in [Runs -> Records]
      /\ mem'[child] = rec /\ disk'[child] = rec
      /\ \A q \in Runs \ {child} : mem'[q] = mem[q] /\ disk'[q] = disk[q]
    <2>1. mem \in [Runs -> Records] /\ disk \in [Runs -> Records] BY DEF IInv, TypeOK
    <2>2. rec \in Records BY <1>4, RecordTypes
    <2> QED BY <1>1, <2>1, <2>2
<1>6. \A t \in Slots : \A new \in Recs(child)' : Follows(child, Main, t, new.slot[t])
    <2>1. \A new \in Recs(child)' : new = rec BY <1>5 DEF Recs
    <2>2. \A t \in Slots : rec.slot[t].id = IF t = Main THEN minted + 1 ELSE None
        BY <1>4 DEF InheritedId
    <2>3. Recs(child) = {} BY <1>1 DEF Recs
    <2> QED BY <1>2, <2>1, <2>2, <2>3 DEF Follows
<1>7. LocalStep(child, Main)
    <2>1. disk'[child] # NoRecord BY <1>4, <1>5, RecordTypes
    <2> QED BY <1>1, <1>2, <1>5, <1>6, <2>1 DEF LocalStep, Known
<1>8. TypeOK' BY <1>1, <1>2, <1>5 DEF IInv, TypeOK, Known
<1>9. InStep'
    <2>1. ASSUME NEW q \in Runs
          PROVE  /\ state'[q] # "ending" => mem'[q] = disk'[q]
                 /\ state'[q] # "off" => mem'[q] # NoRecord /\ disk'[q] # NoRecord
                 /\ state'[q] = "off" => \A s \in Slots : call'[q][s] = NoCall
                 /\ disk'[q] = NoRecord => mem'[q] = NoRecord
        <3>1. CASE q = child BY <1>1, <1>4, <1>5, <3>1, RecordTypes DEF IInv, InStep
        <3>2. CASE q # child BY <1>1, <1>5, <3>2 DEF IInv, InStep
        <3> QED BY <3>1, <3>2
    <2> QED BY <2>1 DEF InStep
<1>11. ASSUME Memory, PaidTogether PROVE Begins(rec)
    <2> DEFINE old == checkpoint[parent]
    <2>1. None \notin Known BY RecordTypes DEF IInv, TypeOK, Ownership, Bounded, None
    <2>2. ASSUME NEW t \in Persisting \cap Slots PROVE Remembers(rec, t)
        <3>1. Remembers(old, t) BY <1>1, <1>11 DEF Fork, Memory, RecordsRemember
        <3>2. /\ ~rec.slot[t].started /\ rec.slot[t].owed = OwedFork(old, t)
              /\ rec.slot[t].must = old.slot[t].must
            <4>1. rec.slot[t] = Unopened(InheritedId(old, t), OwedFork(old, t), old.slot[t].must)
                BY <1>10
            <4> QED BY <4>1 DEF Unopened
        <3>3. t = Main /\ ~Inherits(old, t) => rec.hand = old.hand BY <1>10
        <3>4. CASE Inherits(old, t)
            <4>1. rec.slot[t].owed = old.slot[t].id /\ old.slot[t].started
                BY <3>2, <3>4 DEF OwedFork, Inherits, HasMemory
            <4> QED BY <2>1, <3>1, <3>2, <4>1 DEF Remembers, Knows
        <3>5. CASE ~Inherits(old, t)
            <4>1. ~old.slot[t].started
                BY <2>1, <3>1, <3>5 DEF Inherits, HasMemory, Remembers, Knows
            <4>2. rec.slot[t].owed = old.slot[t].owed
                BY <1>11, <3>2, <3>5, <1>3, RecordTypes DEF OwedFork, PaidTogether
            <4> QED BY <3>1, <3>2, <3>3, <3>5, <4>1, <4>2 DEF Remembers
        <3> QED BY <3>4, <3>5
    <2>3. ASSUME NEW t \in ClientSlots PROVE rec.slot[t].id \notin Known
        <3>1. t \in Slots BY DEF Slots
        <3>2. rec.slot[t].id \in {minted + 1, None} BY <1>4, <3>1 DEF InheritedId
        <3>3. minted + 1 \notin Known BY RecordTypes DEF IInv, TypeOK, Ownership, Bounded
        <3> QED BY <2>1, <3>2, <3>3
    <2> QED BY <2>2, <2>3 DEF Begins
<1>12. ASSUME Memory, PaidTogether PROVE Memory'
    <2>1. \A q \in Runs : \A new \in Recs(q)' : new \in Recs(q) \/ Begins(new)
        BY <1>5, <1>11, <1>12 DEF Recs
    <2>2. \A q \in Runs, t \in Slots :
             \/ call'[q][t] = NoCall
             \/ call'[q][t] = call[q][t] /\ mem'[q] = mem[q] /\ disk'[q] = disk[q]
        BY <1>1, <1>5 DEF IInv, InStep
    <2> QED BY <1>1, <1>12, <2>1, <2>2, MemoryStays
<1> QED BY <1>7, <1>8, <1>9, <1>12

\* A provider opens what it was asked to open, for the run that asked.
LEMMA OpensKeeps ==
    ASSUME IInv, NEW r \in Runs, NEW s \in Slots, Opens(r, s)
    PROVE  IInv' /\ (Memory => Memory')
<1> DEFINE c == call[r][s]
           knows == c.brief \cup (IF c.kind = "fork" THEN sessions[c.parent].knows ELSE {})
           open == [NoCall EXCEPT !.at = "open", !.id = c.id, !.handoff = c.handoff]
<1>1. /\ c.at = "sent" /\ c # NoCall /\ Granted(c)
      /\ call' = [call EXCEPT ![r][s] = open]
      /\ UNCHANGED <<mem, disk, checkpoint, state, minted, turns, faults>>
    BY DEF Opens, CallIs, NoCall
<1>2. sessions' = IF c.kind = "resume" THEN sessions
                  ELSE [i \in Known \cup {c.id} |->
                           IF i = c.id THEN [owner |-> r, knows |-> knows] ELSE sessions[i]]
    BY Zenon DEF Opens
<1>3. /\ call \in [Runs -> [Slots -> Calls]] /\ c \in Calls
      /\ sessions \in [Known -> [owner : Runs, knows : Facts]]
    BY DEF IInv, TypeOK
<1>4. c.id \in Ids /\ c.id # None /\ Holds(r, s, c.id)
    BY <1>1, <1>3 DEF IInv, CallsAreSent, Calls, Holds
<1>5. /\ c.kind = "resume" => c.id \in Known
      /\ c.kind # "resume" => c.id \notin Known
      /\ c.kind = "fork" => c.parent \in Known
    BY <1>1, <1>3 DEF Granted, Calls
<1>6. open \in Calls /\ open.at = "open" /\ open.id = c.id /\ open # NoCall
    BY <1>3, RecordTypes DEF NoCall, Calls
<1>7. knows \in Facts BY <1>3, <1>5 DEF Calls, Facts
<1>18. /\ c.kind = "fork" => sessions[c.parent].knows \subseteq knows
       /\ c.kind = "new" => c.brief \subseteq knows
    OBVIOUS
<1> HIDE DEF knows, open
<1>8. /\ Known' = Known \cup {c.id}
      /\ sessions' \in [Known' -> [owner : Runs, knows : Facts]]
      /\ \A i \in Known : sessions'[i].owner = sessions[i].owner
      /\ \A i \in Known : sessions'[i].knows = sessions[i].knows
      /\ c.kind # "resume" => sessions'[c.id].owner = r /\ sessions'[c.id].knows = knows
    <2>1. CASE c.kind = "resume" BY <1>2, <1>3, <1>5, <2>1 DEF Known
    <2>2. CASE c.kind # "resume"
        <3>1. sessions' = [i \in Known \cup {c.id} |->
                              IF i = c.id THEN [owner |-> r, knows |-> knows] ELSE sessions[i]]
            BY <1>2, <2>2
        <3>2. DOMAIN sessions' = Known \cup {c.id} BY <3>1
        <3> QED BY <1>3, <1>5, <1>7, <2>2, <3>1, <3>2 DEF Known
    <2> QED BY <2>1, <2>2
<1>9. /\ call' \in [Runs -> [Slots -> Calls]]
      /\ call'[r][s] = open
      /\ \A q \in Runs, t \in Slots : q # r \/ t # s => call'[q][t] = call[q][t]
    BY <1>1, <1>3, <1>6
<1> HIDE DEF c
<1>10. \A q \in Runs : Recs(q)' = Recs(q) BY <1>1 DEF Recs
<1>11. \A q \in Runs, t \in Slots, i \in Ids : Holds(q, t, i)' <=> Holds(q, t, i)
    BY <1>1, <1>4, <1>6, <1>9, <1>10 DEF Holds, c
<1>12. TypeOK' BY <1>1, <1>4, <1>8, <1>9 DEF IInv, TypeOK
<1>13. InStep'
    <2>1. \A q \in Runs, t \in Slots : call'[q][t] = NoCall <=> call[q][t] = NoCall
        BY <1>1, <1>6, <1>9 DEF c
    <2> QED BY <1>1, <2>1 DEF IInv, InStep
<1>14. CallsAreSent'
    <2>1. ASSUME NEW q \in Runs, NEW t \in Slots
          PROVE  /\ call'[q][t] # NoCall => call'[q][t].id # None /\ call'[q][t].at # "none"
                 /\ call'[q][t].at = "open" => call'[q][t].id \in Known'
        <3>1. CASE q = r /\ t = s BY <1>4, <1>6, <1>8, <1>9, <3>1
        <3>2. CASE q # r \/ t # s BY <1>8, <1>9, <3>2 DEF IInv, CallsAreSent
        <3> QED BY <3>1, <3>2
    <2> QED BY <2>1 DEF CallsAreSent
<1>15. MainHasAnId' BY <1>10 DEF IInv, MainHasAnId
<1>16. Ownership'
    <2>1. Bounded'
        <3>1. c.id \in 1..minted
            BY <1>4, RecordTypes DEF IInv, TypeOK, Ownership, Bounded, None, Ids
        <3> QED BY <1>1, <1>8, <1>11, <3>1 DEF IInv, Ownership, Bounded
    <2>2. Apart' BY <1>11 DEF IInv, Ownership, Apart
    <2>3. Owned'
        <3>1. ASSUME NEW q \in Runs, NEW t \in Slots, NEW i \in Known', Holds(q, t, i)'
              PROVE  sessions'[i].owner = q
            <4>1. i \in Ids BY <1>12 DEF TypeOK
            <4>2. Holds(q, t, i) BY <1>11, <3>1, <4>1
            <4>3. CASE i \in Known BY <1>8, <4>2, <4>3 DEF IInv, Ownership, Owned
            <4>4. CASE i = c.id /\ i \notin Known
                <5>1. q = r BY <1>4, <4>1, <4>2, <4>4 DEF IInv, Ownership, Apart
                <5> QED BY <1>5, <1>8, <4>4, <5>1
            <4> QED BY <1>8, <4>3, <4>4
        <3> QED BY <3>1 DEF Owned
    <2> QED BY <2>1, <2>2, <2>3 DEF Ownership
<1>17. Spending'
    <2>1. HandedOver'
        <3>1. ASSUME NEW q \in Runs, NEW t \in ClientSlots
              PROVE  call'[q][t] # NoCall => call[q][t] # NoCall /\ call'[q][t].id = call[q][t].id
            <4>1. t \in Slots BY DEF Slots
            <4> QED BY <1>1, <1>6, <1>9, <4>1 DEF c
        <3> QED BY <1>10, <3>1 DEF IInv, Spending, HandedOver
    <2>2. UnspentIsUnknown'
        <3>1. ASSUME NEW q \in Runs, NEW t \in ClientSlots, NEW rec \in Recs(q),
                     rec.slot[t].id # None, ~Spent(rec.slot[t])
              PROVE  rec.slot[t].id # c.id
            <4>1. SUFFICES ASSUME rec.slot[t].id = c.id PROVE FALSE OBVIOUS
            <4>2. t \in Slots BY DEF Slots
            <4>3. Holds(q, t, c.id) BY <1>4, <3>1, <4>1 DEF Holds
            <4>4. q = r /\ t = s BY <1>4, <4>2, <4>3 DEF IInv, Ownership, Apart
            <4> QED BY <1>1, <3>1, <4>1, <4>4 DEF IInv, Spending, HandedOver, c
        <3> QED BY <1>8, <1>10, <3>1 DEF IInv, Spending, UnspentIsUnknown
    <2>3. SpentOnce'
        <3>1. ASSUME NEW q \in Runs, NEW t \in Slots,
                     call'[q][t].at = "sent" /\ call'[q][t].kind # "resume"
              PROVE  call'[q][t].id \notin Known'
            <4>1. q # r \/ t # s BY <1>6, <1>9, <3>1
            <4>2. call'[q][t] = call[q][t] /\ call[q][t].id \notin Known
                BY <1>9, <3>1, <4>1 DEF IInv, Spending, SpentOnce
            <4>3. call[q][t] # NoCall BY <3>1, <4>2 DEF NoCall
            <4>4. call[q][t].id \in Ids /\ Holds(q, t, call[q][t].id)
                BY <4>3, <1>3 DEF IInv, CallsAreSent, Calls, Holds
            <4>5. call[q][t].id # c.id BY <1>4, <4>1, <4>4 DEF IInv, Ownership, Apart
            <4> QED BY <1>8, <4>2, <4>5
        <3> QED BY <3>1 DEF SpentOnce
    <2> QED BY <2>1, <2>2, <2>3 DEF Spending
<1>19. IInv' BY <1>12, <1>13, <1>14, <1>15, <1>16, <1>17 DEF IInv
<1>20. Grown BY <1>8 DEF Grown
<1>21. ASSUME Memory PROVE Memory'
    <2>1. /\ mem[r].slot[s] = disk[r].slot[s]
          /\ s \in ClientSlots => s \in Persisting /\ mem[r].slot[s].id = c.id
        BY <1>1, <1>21, SlotsAssumption DEF Memory, SlotsWait, c
    <2>2. s \in Persisting => KnowsNext(c.id, mem[r].slot[s].must)
        <3>1. s \in Persisting => Briefed(c, mem[r].slot[s].must)
            BY <1>21 DEF Memory, CallsAreBriefed, c
        <3>2. c.kind \in {"new", "fork", "resume"} BY <1>3 DEF Calls, c
        <3> QED BY <1>1, <1>5, <1>8, <1>18, <3>1, <3>2 DEF Briefed, Knows, KnowsNext
    <2>3. RecordsRemember'
        <3>1. ASSUME NEW q \in Runs, NEW t \in Persisting \cap Slots, NEW rec \in Recs(q)'
              PROVE  Remembers(rec, t)'
            BY <1>10, <1>20, <1>21, RemembersOn DEF Memory, RecordsRemember
        <3>2. ASSUME NEW q \in Runs, NEW t \in Persisting \cap Slots, checkpoint'[q] # NoRecord
              PROVE  Remembers(checkpoint[q], t)'
            <4>1. PICK rec : rec = checkpoint[q] OBVIOUS
            <4>2. Remembers(rec, t)
                BY <1>1, <1>21, <3>2, <4>1 DEF Memory, RecordsRemember
            <4>3. Remembers(rec, t)' BY <1>20, <4>2, RemembersOn
            <4>4. checkpoint' = checkpoint BY <1>1
            <4> QED BY <4>1, <4>3, <4>4 DEF Remembers, Knows
        <3> QED BY <3>1, <3>2 DEF RecordsRemember
    <2>4. OpenedKnows'
        <3>1. ASSUME NEW q \in Runs, NEW t \in ClientSlots, NEW rec \in Recs(q),
                     rec.slot[t].id \in Known'
              PROVE  KnowsNext(rec.slot[t].id, rec.slot[t].must)
            <4>1. CASE rec.slot[t].id \in Known
                BY <1>20, <1>21, <4>1, KnowledgeGrows DEF Memory, OpenedKnows
            <4>2. CASE rec.slot[t].id = c.id
                <5>1. t \in Slots /\ Holds(q, t, c.id)
                    BY <1>4, <4>2 DEF Holds, Slots
                <5>2. q = r /\ t = s BY <1>4, <5>1 DEF IInv, Ownership, Apart
                <5>3. rec.slot[s] = mem[r].slot[s] BY <2>1, <5>2 DEF Recs
                <5> QED BY <2>1, <2>2, <4>2, <5>2, <5>3
            <4> QED BY <1>8, <3>1, <4>1, <4>2
        <3> QED BY <1>10, <3>1 DEF OpenedKnows, Knows, KnowsNext
    <2>5. SlotsWait'
        <3>1. \A q \in Runs, t \in Slots : call'[q][t] # NoCall =>
                 call[q][t] # NoCall /\ call'[q][t].id = call[q][t].id
            BY <1>1, <1>6, <1>9 DEF c
        <3> QED BY <1>1, <1>21, <3>1 DEF Memory, SlotsWait
    <2>6. CallsAreBriefed'
        <3>1. ASSUME NEW q \in Runs, NEW t \in Persisting \cap Slots
              PROVE  \E turn, must : /\ turn = call'[q][t] /\ must = mem'[q].slot[t].must
                                    /\ Briefed(turn, must)'
            <4>1. CASE q = r /\ t = s
                BY <1>1, <1>6, <1>9, <2>2, <4>1 DEF Briefed, Knows, KnowsNext
            <4>2. CASE q # r \/ t # s
                <5>1. PICK turn, must : turn = call[q][t] /\ must = mem[q].slot[t].must OBVIOUS
                <5>2. Briefed(turn, must) BY <1>21, <5>1 DEF Memory, CallsAreBriefed
                <5>3. turn.at = "sent" => turn.id # c.id
                    <6>1. turn.at = "sent" =>
                              turn # NoCall /\ turn.id \in Ids /\ Holds(q, t, turn.id)
                        BY <1>3, <5>1 DEF IInv, CallsAreSent, Calls, Holds, NoCall
                    <6> QED BY <1>4, <4>2, <6>1 DEF IInv, Ownership, Apart
                <5>4. \A i, m : Knows(i, m) => KnowsNext(i, m) BY <1>20, KnowledgeGrows
                <5>5. Briefed(turn, must)'
                    BY <1>8, <5>2, <5>3, <5>4 DEF Briefed, Knows, KnowsNext
                <5>6. turn = call'[q][t] /\ must = mem'[q].slot[t].must
                    BY <1>1, <1>9, <4>2, <5>1
                <5> QED BY <5>5, <5>6
            <4> QED BY <4>1, <4>2
        <3> QED BY <3>1 DEF CallsAreBriefed, Briefed, Knows
    <2> QED BY <2>3, <2>4, <2>5, <2>6 DEF Memory
<1> QED BY <1>19, <1>21

\* At first the root has the one id that was drawn, and nothing is known.
LEMMA InitIInv == Init => IInv
<1> SUFFICES ASSUME Init PROVE IInv OBVIOUS
<1> DEFINE rec == [slot |-> [s \in Slots |-> Unopened(IF s = Main THEN 1 ELSE None, None, {})],
                   hand |-> {}]
<1>1. 1 \in Ids /\ 1 # None BY SlotsAssumption DEF Ids, None
<1>2. rec \in Rec /\ \A s \in Slots : rec.slot[s].id = IF s = Main THEN 1 ELSE None
    BY <1>1, RecordTypes DEF Rec, Unopened, Conversation
<1>3. /\ disk = [r \in Runs |-> IF r = Root THEN rec ELSE NoRecord] /\ mem = disk
      /\ minted = 1 /\ Known = {}
    BY DEF Init, Known
<1> HIDE DEF rec
<1>4. \A r \in Runs, s \in Slots : call[r][s] = NoCall /\ state[r] = "off" BY DEF Init
<1>5. TypeOK
    <2>1. sessions \in [Known -> [owner : Runs, knows : Facts]] BY <1>3 DEF Init, Known
    <2>2. turns \in 0..MaxTurns /\ faults \in 0..MaxFaults BY SlotsAssumption DEF Init
    <2>3. mem \in [Runs -> Records] /\ disk \in [Runs -> Records]
        <3>1. rec \in Records /\ NoRecord \in Records BY <1>2, RecordTypes
        <3> QED BY <1>3, <3>1
    <2>4. checkpoint \in [Runs -> Records] /\ state \in [Runs -> {"off", "on", "ending"}]
        BY RecordTypes DEF Init
    <2>5. call \in [Runs -> [Slots -> Calls]] BY RecordTypes DEF Init
    <2> QED BY <1>1, <1>3, <2>1, <2>2, <2>3, <2>4, <2>5 DEF TypeOK
<1>6. InStep BY <1>3, <1>4, RecordTypes DEF InStep, Init
<1>7. CallsAreSent
    <2>1. NoCall.at # "open" BY DEF NoCall
    <2> QED BY <1>4, <2>1 DEF CallsAreSent
<1>8. \A r \in Runs : \A old \in Recs(r) : r = Root /\ old = rec BY <1>3 DEF Recs
<1>9. MainHasAnId BY <1>1, <1>2, <1>8, RecordTypes DEF MainHasAnId
<1>10. \A r \in Runs, s \in Slots, i \in Ids : Holds(r, s, i) => r = Root /\ s = Main /\ i = 1
    BY <1>2, <1>4, <1>8 DEF Holds
<1>11. Ownership BY <1>3, <1>10 DEF Ownership, Bounded, Apart, Owned
<1>12. Spending
    <2>1. ClientSlots \subseteq Slots BY DEF Slots
    <2> QED BY <1>3, <1>4, <2>1 DEF Spending, HandedOver, UnspentIsUnknown, SpentOnce
<1> QED BY <1>5, <1>6, <1>7, <1>9, <1>11, <1>12 DEF IInv

\* Nothing has been told to any conversation yet.
LEMMA InitMemory == Init => Memory
<1> SUFFICES ASSUME Init PROVE Memory OBVIOUS
<1>1. /\ \A r \in Runs : checkpoint[r] = NoRecord
      /\ \A r \in Runs, s \in Slots : call[r][s] = NoCall
      /\ Known = {}
    BY DEF Init, Known
<1>2. ASSUME NEW r \in Runs, NEW rec \in Recs(r), NEW s \in Slots
      PROVE  ~rec.slot[s].started /\ rec.slot[s].owed = None /\ rec.slot[s].must = {}
    BY DEF Init, Recs, Unopened
<1>3. RecordsRemember BY <1>1, <1>2 DEF RecordsRemember, Remembers
<1>4. CallsAreBriefed BY <1>1 DEF CallsAreBriefed, Briefed, NoCall
<1> QED BY <1>1, <1>3, <1>4 DEF Memory, OpenedKnows, SlotsWait

\* Every step keeps the inductive invariant, and what conversations know as
\* long as the forks a run owes are paid together.
LEMMA StepKeeps == IInv /\ [Next]_vars => IInv' /\ (Memory /\ PaidTogether => Memory')
<1> DEFINE Kept == IInv' /\ (Memory /\ PaidTogether => Memory')
<1> SUFFICES ASSUME IInv, [Next]_vars PROVE Kept OBVIOUS
<1>1. ASSUME NEW r \in Runs, NEW s \in Slots, TypeOK' /\ InStep' /\ LocalStep(r, s) PROVE IInv'
    BY <1>1, LocalStepsKeep DEF IInv
<1>2. Main \in Slots BY RecordTypes
<1>3. ASSUME NEW r \in Runs, NEW s \in Slots, ClaudeSpawn(r, s) PROVE Kept
    BY <1>1, <1>3, ClaudeSpawnKeeps
<1>4. ASSUME NEW r \in Runs, NEW s \in Slots, CodexSpawn(r, s) PROVE Kept
    BY <1>1, <1>4, CodexSpawnKeeps
<1>5. ASSUME NEW r \in Runs, NEW s \in Slots, Opens(r, s) PROVE Kept BY <1>5, OpensKeeps
<1>6. ASSUME NEW r \in Runs, NEW s \in Slots, Succeeds(r, s) PROVE Kept
    BY <1>1, <1>6, SucceedsKeeps
<1>7. ASSUME NEW r \in Runs, NEW s \in Slots, RateLimited(r, s) PROVE Kept
    BY <1>1, <1>7, RateLimitedKeeps
<1>8. ASSUME NEW r \in Runs, NEW s \in Slots, Fails(r, s) PROVE Kept BY <1>1, <1>8, FailsKeeps
<1>9. ASSUME NEW r \in Runs, HandoffAsked(r) PROVE Kept BY <1>1, <1>2, <1>9, HandoffAskedKeeps
<1>10. ASSUME NEW r \in Runs, HandoffOk(r) \/ HandoffForgone(r) PROVE Kept
    BY <1>1, <1>2, <1>10, RotationKeeps
<1>11. ASSUME NEW r \in Runs, HandoffFails(r) PROVE Kept
    BY <1>1, <1>2, <1>11, RateLimitedKeeps
<1>12. ASSUME NEW r \in Runs, Start(r) \/ Exit(r) \/ Killed(r) \/ Checkpoint(r) PROVE Kept
    BY <1>1, <1>2, <1>12, ProcessKeeps
<1>13. ASSUME NEW parent \in Runs, NEW child \in Runs, Fork(parent, child) PROVE Kept
    BY <1>1, <1>2, <1>13, ForkKeeps
<1>14. CASE UNCHANGED vars
    <2> USE <1>14 DEF vars
    <2>1. TypeOK' BY DEF IInv, TypeOK, Known
    <2>2. InStep' /\ CallsAreSent' BY DEF IInv, InStep, CallsAreSent, Known
    <2>3. \A r \in Runs : Recs(r)' = Recs(r) BY DEF Recs
    <2>4. \A r \in Runs, s \in Slots, i \in Ids : Holds(r, s, i)' <=> Holds(r, s, i)
        BY <2>3 DEF Holds
    <2>5. MainHasAnId' BY <2>3 DEF IInv, MainHasAnId
    <2>6. Known' = Known /\ Known \subseteq Ids BY DEF Known, IInv, TypeOK
    <2>7. Ownership' BY <2>4, <2>6 DEF IInv, Ownership, Bounded, Apart, Owned
    <2>8. Spending'
        BY <2>3, <2>6 DEF IInv, Spending, HandedOver, UnspentIsUnknown, SpentOnce
    <2>9. Memory => Memory' BY <2>3, MemoryStays
    <2> QED BY <2>1, <2>2, <2>5, <2>7, <2>8, <2>9 DEF IInv
<1> HIDE DEF Kept
<1> QED BY <1>3, <1>4, <1>5, <1>6, <1>7, <1>8, <1>9, <1>10, <1>11, <1>12, <1>13, <1>14 DEF Next

\* Every reachable state satisfies the inductive invariant.
THEOREM Invariant == Spec => []IInv
BY InitIInv, StepKeeps, PTL DEF Spec

\* Records, calls and conversations keep their shape (state.ts, slots.ts).
THEOREM TypeCorrect == Spec => []TypeOK
<1>1. IInv => TypeOK BY DEF IInv
<1> QED BY <1>1, Invariant, PTL

\* No id is handed over as a new conversation's when the providers know it
\* (slots.ts, registration; recoverDeadSlot).
THEOREM IdsAreSpentOnce == Spec => []NoIdIsSpentTwice
<1>1. ASSUME IInv PROVE NoIdIsSpentTwice
    <2>1. ASSUME NEW a \in AtProvider, call[a.run][a.slot].at = "sent",
                 call[a.run][a.slot].kind # "resume"
          PROVE  call[a.run][a.slot].id \notin Known
        <3>1. a.run \in Runs /\ a.slot \in Slots BY DEF AtProvider
        <3> QED BY <1>1, <2>1, <3>1 DEF IInv, Spending, SpentOnce
    <2> QED BY <2>1 DEF NoIdIsSpentTwice
<1> QED BY <1>1, Invariant, PTL

\* A conversation is one run's, and has one turn at a time (fork.ts, slots.ts).
THEOREM OneWriterEach == Spec => []ConversationsAreNotShared
<1>1. ASSUME IInv PROVE ConversationsAreNotShared
    <2>1. ASSUME NEW a \in AtProvider
          PROVE  /\ a \in [run : Runs, slot : Slots] /\ a.run \in Runs /\ a.slot \in Slots
                 /\ call[a.run][a.slot].id \in Ids
                 /\ Holds(a.run, a.slot, call[a.run][a.slot].id)
        <3>1. a \in [run : Runs, slot : Slots] /\ call[a.run][a.slot] # NoCall BY DEF AtProvider
        <3>2. a.run \in Runs /\ a.slot \in Slots BY <3>1
        <3>3. call[a.run][a.slot] \in Calls BY <1>1, <3>2 DEF IInv, TypeOK
        <3> QED BY <1>1, <3>1, <3>2, <3>3 DEF IInv, CallsAreSent, Calls, Holds
    <2>2. ASSUME NEW a \in AtProvider, call[a.run][a.slot].id \in Known
          PROVE  sessions[call[a.run][a.slot].id].owner = a.run
        BY <1>1, <2>1, <2>2 DEF IInv, Ownership, Owned
    <2>3. ASSUME NEW a \in AtProvider, NEW b \in AtProvider, b # a
          PROVE  call[b.run][b.slot].id # call[a.run][a.slot].id
        <3>1. SUFFICES ASSUME call[b.run][b.slot].id = call[a.run][a.slot].id PROVE FALSE OBVIOUS
        <3>2. a.run = b.run /\ a.slot = b.slot
            BY <1>1, <2>1, <3>1 DEF IInv, Ownership, Apart
        <3> QED BY <2>1, <2>3, <3>2
    <2> QED BY <2>2, <2>3 DEF ConversationsAreNotShared
<1> QED BY <1>1, Invariant, PTL

\* A step is of one run, unless a provider takes it or it changes nothing.
LEMMA StepsAreLocal ==
    IInv /\ [Next]_vars => /\ \/ UNCHANGED <<mem, disk>>
                              \/ \E r \in Runs, s \in Slots : LocalStep(r, s)
                           /\ UNCHANGED checkpoint \/ \E r \in Runs : Checkpoint(r)
<1> DEFINE Local == UNCHANGED <<mem, disk>> \/ \E r \in Runs, s \in Slots : LocalStep(r, s)
<1> DEFINE Kept == Local /\ (UNCHANGED checkpoint \/ \E r \in Runs : Checkpoint(r))
<1> SUFFICES ASSUME IInv, [Next]_vars PROVE Kept OBVIOUS
<1>1. Main \in Slots BY RecordTypes
<1>2. ASSUME NEW r \in Runs, NEW s \in Slots, ClaudeSpawn(r, s) PROVE Kept
    BY <1>2, ClaudeSpawnKeeps DEF ClaudeSpawn
<1>3. ASSUME NEW r \in Runs, NEW s \in Slots, CodexSpawn(r, s) PROVE Kept
    BY <1>3, CodexSpawnKeeps DEF CodexSpawn
<1>4. ASSUME NEW r \in Runs, NEW s \in Slots, Opens(r, s) PROVE Kept BY <1>4 DEF Opens
<1>5. ASSUME NEW r \in Runs, NEW s \in Slots, Succeeds(r, s) PROVE Kept
    BY <1>5, SucceedsKeeps DEF Succeeds
<1>6. ASSUME NEW r \in Runs, NEW s \in Slots, RateLimited(r, s) PROVE Kept
    BY <1>6, RateLimitedKeeps DEF RateLimited
<1>7. ASSUME NEW r \in Runs, NEW s \in Slots, Fails(r, s) PROVE Kept BY <1>7, FailsKeeps DEF Fails
<1>8. ASSUME NEW r \in Runs, HandoffAsked(r) PROVE Kept
    BY <1>1, <1>8, HandoffAskedKeeps DEF HandoffAsked
<1>9. ASSUME NEW r \in Runs, HandoffOk(r) \/ HandoffForgone(r) PROVE Kept
    BY <1>1, <1>9, RotationKeeps DEF HandoffOk, HandoffForgone
<1>10. ASSUME NEW r \in Runs, HandoffFails(r) PROVE Kept
    BY <1>1, <1>10, RateLimitedKeeps DEF HandoffFails
<1>11. ASSUME NEW r \in Runs, Start(r) \/ Exit(r) \/ Killed(r) \/ Checkpoint(r) PROVE Kept
    <2>1. Local BY <1>1, <1>11, ProcessKeeps
    <2>2. Checkpoint(r) \/ UNCHANGED checkpoint BY <1>11 DEF Start, Exit, Killed
    <2> QED BY <2>1, <2>2
<1>12. ASSUME NEW parent \in Runs, NEW child \in Runs, Fork(parent, child) PROVE Kept
    BY <1>1, <1>12, ForkKeeps DEF Fork
<1>13. CASE UNCHANGED vars BY <1>13 DEF vars
<1> HIDE DEF Kept
<1> QED BY <1>2, <1>3, <1>4, <1>5, <1>6, <1>7, <1>8, <1>9, <1>10, <1>11, <1>12, <1>13 DEF Next

-----------------------------------------------------------------------------
(* With one fork at most the forks a run owes are always paid together: only *)
(* the root is forked from, and it owes none.                                *)
OneFork == \E child : Runs \subseteq {Root, child}

RootOwesNone ==
    /\ disk[Root] # NoRecord
    /\ \A s \in Slots : \A rec \in Recs(Root) : rec.slot[s].owed = None
    /\ \A r \in Runs : checkpoint[r] # NoRecord =>
          r = Root /\ \A s \in Slots : checkpoint[r].slot[s].owed = None

\* The root keeps owing nothing, and no run that was forked is checkpointed.
LEMMA RootKeeps == OneFork /\ IInv /\ RootOwesNone /\ [Next]_vars => RootOwesNone'
<1> SUFFICES ASSUME OneFork, IInv, RootOwesNone, [Next]_vars PROVE RootOwesNone' OBVIOUS
<1>1. Root \in Runs /\ disk[Root] \in Recs(Root) BY SlotsAssumption DEF RootOwesNone, Recs
<1>2. /\ disk'[Root] # NoRecord
      /\ \A s \in Slots : \A rec \in Recs(Root)' : rec.slot[s].owed = None
    <2>1. CASE UNCHANGED <<mem, disk>> BY <2>1 DEF RootOwesNone, Recs
    <2>2. ASSUME NEW r \in Runs, NEW s \in Slots, LocalStep(r, s), r # Root
          PROVE  mem'[Root] = mem[Root] /\ disk'[Root] = disk[Root]
        BY <1>1, <2>2 DEF LocalStep
    <2>3. ASSUME NEW s \in Slots, LocalStep(Root, s)
          PROVE  /\ disk'[Root] # NoRecord
                 /\ \A t \in Slots : \A rec \in Recs(Root)' : rec.slot[t].owed = None
        BY <1>1, <2>3 DEF LocalStep, Follows, RootOwesNone
    <2>4. CASE mem'[Root] = mem[Root] /\ disk'[Root] = disk[Root]
        BY <2>4 DEF RootOwesNone, Recs
    <2> QED BY <2>1, <2>2, <2>3, <2>4, StepsAreLocal
<1>3. ASSUME NEW r \in Runs, Checkpoint(r) PROVE r = Root
    <2>1. disk[r] # NoRecord BY <1>3 DEF Checkpoint, IInv, InStep
    <2>2. \E child \in Runs : disk[child] = NoRecord BY <1>3 DEF Checkpoint
    <2> QED BY <2>1, <2>2 DEF OneFork, RootOwesNone
<1>4. ASSUME NEW r \in Runs, checkpoint'[r] # NoRecord
      PROVE  r = Root /\ \A s \in Slots : checkpoint'[r].slot[s].owed = None
    <2>1. CASE UNCHANGED checkpoint BY <1>4, <2>1 DEF RootOwesNone
    <2>2. CASE Checkpoint(Root)
        <3>1. checkpoint' = [checkpoint EXCEPT ![Root] = disk[Root]] BY <2>2 DEF Checkpoint
        <3>2. checkpoint'[Root] = disk[Root] /\ (r # Root => checkpoint'[r] = checkpoint[r])
            BY <1>1, <3>1 DEF IInv, TypeOK
        <3> QED BY <1>1, <1>4, <3>2 DEF RootOwesNone
    <2> QED BY <1>3, <2>1, <2>2, StepsAreLocal
<1> QED BY <1>2, <1>4 DEF RootOwesNone

\* So no checkpoint is of a half-paid run.
LEMMA RootPays == RootOwesNone => PaidTogether
BY DEF RootOwesNone, PaidTogether

\* The root begins with nothing to fork from.
LEMMA InitRoot == Init => RootOwesNone
<1> SUFFICES ASSUME Init PROVE RootOwesNone OBVIOUS
<1>1. Root \in Runs BY SlotsAssumption
<1>2. /\ disk[Root] = [slot |-> [s \in Slots |-> Unopened(IF s = Main THEN 1 ELSE None, None, {})],
                       hand |-> {}]
      /\ mem[Root] = disk[Root] /\ \A r \in Runs : checkpoint[r] = NoRecord
    BY <1>1 DEF Init
<1>3. disk[Root] # NoRecord
    <2>1. disk[Root] \in Rec
        BY <1>2, SlotsAssumption, RecordTypes DEF Rec, Unopened, Conversation, Ids, None
    <2> QED BY <2>1, RecordTypes
<1>4. \A s \in Slots : \A rec \in Recs(Root) : rec.slot[s].owed = None
    BY <1>2 DEF Recs, Unopened
<1> QED BY <1>2, <1>3, <1>4 DEF RootOwesNone

\* As long as no run is forked that has paid one of its forks and owes another,
\* what every conversation has to know is where its next turn finds it.
THEOREM MemoryInvariant == Spec /\ []PaidTogether => []Memory
<1>1. Init => IInv /\ Memory BY InitIInv, InitMemory
<1>2. IInv /\ Memory /\ PaidTogether /\ [Next]_vars => IInv' /\ Memory' BY StepKeeps
<1> QED BY <1>1, <1>2, PTL DEF Spec

\* Then every turn knows the earlier turns of its slot whose success was saved
\* (slots.ts, context.ts, fork.ts).
THEOREM TurnsKnowTheirSlot == Spec /\ []PaidTogether => []TurnsAreBriefed
<1>1. Memory => TurnsAreBriefed
    <2>1. ASSUME Memory, NEW a \in AtProvider, call[a.run][a.slot].at = "open",
                 a.slot \in Persisting
          PROVE  mem[a.run].slot[a.slot].must \subseteq sessions[call[a.run][a.slot].id].knows
        <3>1. a.run \in Runs /\ a.slot \in Slots BY DEF AtProvider
        <3> QED BY <2>1, <3>1 DEF Memory, CallsAreBriefed, Briefed, Knows
    <2> QED BY <2>1 DEF TurnsAreBriefed
<1> QED BY <1>1, MemoryInvariant, PTL

\* And a conversation that has something to know owes the fork that knows it, or
\* its run's briefing has it (types.ts, RunState.forkPending).
THEOREM ForksAreOwedOrKept ==
    Spec /\ []PaidTogether => [](\A r \in Runs : disk[r] # NoRecord =>
        \A s \in Persisting \cap Slots : Remembers(disk[r], s))
<1>1. Memory => \A r \in Runs : disk[r] # NoRecord =>
                    \A s \in Persisting \cap Slots : Remembers(disk[r], s)
    BY DEF Memory, RecordsRemember, Recs
<1> QED BY <1>1, MemoryInvariant, PTL

\* With one fork nothing has to be supposed of it.
THEOREM OneForkKnowsItsSlots == OneFork => (Spec => []TurnsAreBriefed)
<1> SUFFICES ASSUME OneFork PROVE Spec => []TurnsAreBriefed OBVIOUS
<1>1. Init => IInv /\ RootOwesNone BY InitIInv, InitRoot
<1>2. IInv /\ RootOwesNone /\ [Next]_vars => IInv' /\ RootOwesNone' BY StepKeeps, RootKeeps
<1>3. RootOwesNone => PaidTogether BY RootPays
<1> QED BY <1>1, <1>2, <1>3, TurnsKnowTheirSlot, PTL DEF Spec
=============================================================================
