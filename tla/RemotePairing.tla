--------------------------- MODULE RemotePairing ---------------------------
(***************************************************************************)
(* How a phone gets on the desktop's list of paired phones: the code, the  *)
(* prompt and its answer (pairing.rs), the handler of a pairing connection *)
(* (handshake.rs) and the update of remote-paired.json that a yes makes    *)
(* (store.rs), all under src/app/src-tauri/src/remote.                     *)
(*                                                                         *)
(* The pairing lock (Shared.pairing) is held across a yes's read and write *)
(* of the list; everything else done under it is one action.  A code is    *)
(* its number, which is also the generation of the one prompt it may       *)
(* raise.  Wall clock and timers agree: nothing of a code's time is over   *)
(* before the code has expired.                                            *)
(***************************************************************************)
EXTENDS Naturals

CONSTANTS
    Phones,     \* the phones that know this desktop
    Nobody,     \* no phone
    Budgets     \* bounds, one of them for each history: codes asked for, changes
                \* of the switch, removals, connections, and files, keychain
                \* reads and binds that fail

ASSUME NobodyAssumption == Nobody \notin Phones
ASSUME BudgetAssumption ==
    Budgets \subseteq [codes : Nat, changes : Nat, removals : Nat, dials : Nat, faults : Nat]

VARIABLES
    list,     \* remote-paired.json
    key,      \* whether the device key exists
    code,     \* Pairing.code: its number, 0 for none
    prompt,   \* Pairing.pending: the phone asked about
    waiting,  \* Shared.waiting: the phone whose handler waits for the answer
    dial,     \* each phone's last pairing connection, and its handler
    yes,      \* the yes that is being written to the list, or NoYes
    added,    \* remembered: the <<phone, code>> that a yes put on the list
    left      \* what is left of this history's budget

pairing == <<list, key, code, prompt, waiting, dial, yes, added>>
pairingVars == <<pairing, left>>

\* at: where the handler is; told: what its oneshot holds; heard: the last
\* message the phone read.
NoDial == [at |-> "off", code |-> 0, open |-> FALSE, told |-> "nothing", heard |-> "nothing"]
NoYes == [phone |-> Nobody, read |-> {}, at |-> "off"]

PairingInit ==
    /\ list \in SUBSET Phones
    /\ key \in BOOLEAN /\ (list # {} => key)
    /\ code = [n |-> 0, burnt |-> FALSE, expired |-> FALSE]
    /\ prompt = Nobody /\ waiting = Nobody
    /\ dial = [p \in Phones |-> NoDial]
    /\ yes = NoYes
    /\ added = {}
    /\ left \in Budgets

Spend(what) == left[what] > 0 /\ left' = [left EXCEPT ![what] = @ - 1]
Fault == Spend("faults")

PairingLockFree == yes.at = "off"

\* Shared.tell: the one waiting handler is sent the answer, and no other.
Told(result) ==
    IF waiting = Nobody THEN dial ELSE [dial EXCEPT ![waiting].told = result]

-----------------------------------------------------------------------------
(* The person at the desktop.                                              *)

\* begin_code: whoever waits is declined, the old prompt goes, the first code
\* makes the key.
BeginCode ==
    /\ PairingLockFree /\ Spend("codes")
    /\ dial' = Told("declined")
    /\ waiting' = Nobody /\ prompt' = Nobody
    /\ code' = [n |-> code.n + 1, burnt |-> FALSE, expired |-> FALSE]
    /\ key' = TRUE
    /\ UNCHANGED <<list, yes, added>>

\* The keychain refuses: the wait has ended by then, the code and the prompt stay.
BeginCodeFails ==
    /\ PairingLockFree /\ Fault
    /\ dial' = Told("declined")
    /\ waiting' = Nobody
    /\ UNCHANGED <<list, key, code, prompt, yes, added>>

CodeExpires ==
    /\ code.n > 0 /\ ~code.expired
    /\ code' = [code EXCEPT !.expired = TRUE]
    /\ UNCHANGED <<list, key, prompt, waiting, dial, yes, added, left>>

\* A no, an answer after the code's time, or an answer to a prompt that is gone.
AnswersNo ==
    /\ PairingLockFree /\ (prompt # Nobody \/ waiting # Nobody)
    /\ dial' = Told("declined")
    /\ waiting' = Nobody /\ prompt' = Nobody
    /\ UNCHANGED <<list, key, code, yes, added, left>>

AnswersYes ==
    /\ PairingLockFree /\ prompt # Nobody /\ ~code.expired
    /\ yes' = [phone |-> prompt, read |-> {}, at |-> "load"]
    /\ prompt' = Nobody
    /\ UNCHANGED <<list, key, code, waiting, dial, added, left>>

\* Store::add reads the list ...
YesReads ==
    /\ yes.at = "load"
    /\ yes' = [yes EXCEPT !.read = list, !.at = "write"]
    /\ UNCHANGED <<list, key, code, prompt, waiting, dial, added, left>>

\* ... and writes what it read and one phone more; then the phone is told.
YesWrites ==
    /\ yes.at = "write"
    /\ list' = yes.read \cup {yes.phone}
    /\ added' = added \cup {<<yes.phone, code.n>>}
    /\ dial' = Told("paired")
    /\ waiting' = Nobody /\ yes' = NoYes
    /\ UNCHANGED <<key, code, prompt, left>>

\* (wrong: the phone is told paired whatever became of the file)
YesFailsToldPaired ==
    /\ yes.at \in {"load", "write"} /\ Fault
    /\ dial' = Told("paired")
    /\ waiting' = Nobody /\ yes' = NoYes
    /\ UNCHANGED <<list, key, code, prompt, added>>

\* The list could not be read or written: the phone is refused.
YesFails ==
    /\ yes.at \in {"load", "write"} /\ Fault
    /\ dial' = Told("refused")
    /\ waiting' = Nobody /\ yes' = NoYes
    /\ UNCHANGED <<list, key, code, prompt, added>>

-----------------------------------------------------------------------------
(* A phone on vibe/pair/1, and the handler of its connection.              *)

\* The hello, with a code the phone has scanned; each is tried once.
SaysHello(p, n) ==
    /\ dial[p].at = "off" /\ dial[p].code < n /\ Spend("dials")
    /\ dial' = [dial EXCEPT ![p] = [NoDial EXCEPT !.at = "said", !.code = n, !.open = TRUE]]
    /\ UNCHANGED <<list, key, code, prompt, waiting, yes, added>>

HangsUp(p) ==
    /\ dial[p].at # "off" /\ dial[p].open
    /\ dial' = [dial EXCEPT ![p].open = FALSE]
    /\ UNCHANGED <<list, key, code, prompt, waiting, yes, added, left>>

Over(p, message) ==
    [dial EXCEPT ![p].at = "off", ![p].open = FALSE,
                 ![p].heard = IF dial[p].open THEN message ELSE @]

\* attempt refuses: no code, a used or expired one, another's, a phone that is
\* paired already or a name it cannot show.  All but the first two burn the code.
Refused(p) ==
    /\ dial[p].at = "said" /\ PairingLockFree
    /\ code' = [code EXCEPT !.burnt = @ \/ (code.n > 0 /\ ~code.expired)]
    /\ dial' = Over(p, "refused")
    /\ UNCHANGED <<list, key, prompt, waiting, yes, added, left>>

\* The list could not be read: refused before the code is looked at.
RefusedUnread(p) ==
    /\ dial[p].at = "said" /\ PairingLockFree /\ Fault
    /\ dial' = Over(p, "refused")
    /\ UNCHANGED <<list, key, code, prompt, waiting, yes, added>>

\* The prompt and the waiter go up together; a waiter it replaces is dropped,
\* which reads as declined.
Prompts(p) ==
    /\ dial[p].at = "said" /\ PairingLockFree
    /\ code.n = dial[p].code /\ ~code.burnt /\ ~code.expired /\ p \notin list
    /\ code' = [code EXCEPT !.burnt = TRUE]
    /\ prompt' = p /\ waiting' = p
    /\ dial' = [Told("declined") EXCEPT ![p].at = "prompted", ![p].told = "nothing"]
    /\ UNCHANGED <<list, key, yes, added, left>>

ChallengeWritten(p) ==
    /\ dial[p].at = "prompted" /\ dial[p].open
    /\ dial' = [dial EXCEPT ![p].at = "shown"]
    /\ UNCHANGED <<list, key, code, prompt, waiting, yes, added, left>>

\* The challenge cannot be written: the handler is gone, its prompt stays up.
ChallengeFails(p) ==
    /\ dial[p].at = "prompted" /\ ~dial[p].open
    /\ dial' = [dial EXCEPT ![p].at = "off"]
    /\ UNCHANGED <<list, key, code, prompt, waiting, yes, added, left>>

\* The answer arrives and is passed on.
HearsAnswer(p) ==
    /\ dial[p].at = "shown" /\ dial[p].told # "nothing"
    /\ dial' = Over(p, dial[p].told)
    /\ UNCHANGED <<list, key, code, prompt, waiting, yes, added, left>>

\* The phone hung up: if it is still the one waiting, its prompt is taken down.
SeesHangUp(p) ==
    /\ dial[p].at = "shown" /\ ~dial[p].open /\ PairingLockFree
    /\ dial' = [dial EXCEPT ![p].at = "off"]
    /\ waiting' = IF waiting = p THEN Nobody ELSE waiting
    /\ prompt' = IF waiting = p THEN Nobody ELSE prompt
    /\ UNCHANGED <<list, key, code, yes, added, left>>

\* The code's own life has passed under the prompt.
WaitsTooLong(p) ==
    /\ dial[p].at = "shown" /\ (code.expired \/ dial[p].code # code.n)
    /\ dial' = Over(p, "declined")
    /\ waiting' = IF waiting = p THEN Nobody ELSE waiting
    /\ UNCHANGED <<list, key, code, prompt, yes, added, left>>

PersonSteps == BeginCode \/ BeginCodeFails \/ CodeExpires \/ AnswersNo \/ AnswersYes
YesSteps == YesReads \/ YesWrites \/ YesFails
DialSteps(p) ==
    \/ HangsUp(p) \/ Refused(p) \/ RefusedUnread(p) \/ Prompts(p)
    \/ ChallengeWritten(p) \/ ChallengeFails(p) \/ HearsAnswer(p) \/ SeesHangUp(p) \/ WaitsTooLong(p)

-----------------------------------------------------------------------------
Messages == {"nothing", "declined", "refused", "paired"}

Dial ==
    [at : {"off", "said", "prompted", "shown"}, code : Nat, open : BOOLEAN,
     told : Messages, heard : Messages]

\* A waiter, a prompt or an answer in hand is a phone's; `left` only bounds.
PairingType ==
    /\ list \subseteq Phones /\ key \in BOOLEAN
    /\ code \in [n : Nat, burnt : BOOLEAN, expired : BOOLEAN]
    /\ prompt \in Phones \cup {Nobody} /\ waiting \in Phones \cup {Nobody}
    /\ dial \in [Phones -> Dial]
    /\ yes \in [phone : Phones \cup {Nobody}, read : SUBSET Phones, at : {"off", "load", "write"}]

\* A phone that is told it is paired is the one the person said yes to, for the
\* code it dialled with, and the list had it on disk by then: no other phone
\* with the same code, no hang-up, new code or failed write takes the answer
\* (handshake.rs: "the prompt's answer reaches the phone that caused it").
AnswerReachesItsPhone ==
    \A p \in Phones :
        "paired" \in {dial[p].told, dial[p].heard} => <<p, dial[p].code>> \in added
=============================================================================
