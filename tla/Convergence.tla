---------------------------- MODULE Convergence ----------------------------
(***************************************************************************)
(* The judgement guardProgress (src/src/orchestrator.ts) makes of a round  *)
(* of the plan loop: the round is recorded, the stall check looks at its   *)
(* ids, assessConvergence (src/src/run.ts) at its claims and its count,    *)
(* and the cap has the last word.  PlanLoop and ReviewLoop have these      *)
(* verdicts as nondeterministic choices; the review loop is the case       *)
(* StallAfter = 0.                                                         *)
(*                                                                         *)
(* A claim is an id and a wording; Alike is when two wordings count as one *)
(* (similarity.ts), a relation that need not be transitive.  A history may *)
(* begin with records an older build wrote: without claims, or without ids *)
(* as well.                                                                *)
(***************************************************************************)
EXTENDS Integers, Sequences, FiniteSets, SequencesExt, FiniteSetsExt

CONSTANTS
    Claims,                \* [id, wording]
    Alike,                 \* pairs of wordings
    Rounds,                \* what a critique may find: sequences of claims
    OlderHistories,        \* records an older build may have left
    OscillationThreshold,  \* loop.oscillationThreshold
    ConvergenceWindow,     \* loop.convergenceWindow
    Caps,                  \* the values loop.maxPlanRounds is given
    TrendFloor,            \* 8 in the code
    StallAfter,            \* loop.stallAfter
    MaxRecords             \* bound: records in the history

\* A record has the ids of its claims alone ("ids"), or neither ("bare").
Records == [claims : Seq(Claims), kind : {"claims", "ids", "bare"}]

ASSUME ConvergenceAssumption ==
    /\ Rounds \subseteq Seq(Claims) /\ OlderHistories \subseteq Seq(Records)
    /\ {OscillationThreshold, ConvergenceWindow, TrendFloor} \subseteq Nat \ {0}
    /\ Caps \subseteq Nat \ {0} /\ StallAfter \in Nat /\ MaxRecords \in Nat

VARIABLES
    history,   \* state.p1Rounds: sequences of [claims, kind]
    stalls,    \* state.planStalls: positions and actions
    round,     \* the round judged last
    cap,       \* loop.maxPlanRounds now
    verdict    \* what was decided of it, and whether a stall was seen

historyVars == <<history, stalls, round, cap, verdict>>

-----------------------------------------------------------------------------
(* The measurement of sameness. *)

Record(claims) == [claims |-> claims, kind |-> "claims"]
Count(r) == Len(r.claims)
Ids(r) == {c.id : c \in Range(r.claims)}
HasClaims(r) == r.kind = "claims"
HasIds(r) == r.kind # "bare"

\* The signature hashes the sorted ids, repeated ones repeated.
Signature(r) == [i \in Ids(r) |-> Len(SelectSeq(r.claims, LAMBDA c : c.id = i))]

SameClaim(a, b) == a.id = b.id /\ <<a.wording, b.wording>> \in Alike

\* The pool of claimsMatch: each claim of a takes the first of b that is the same
\* and that no claim before it has taken.
Greedy(a, b, taken) ==
    \A i \in DOMAIN a :
        LET pool == {j \in DOMAIN b : SameClaim(a[i], b[j])} \ {taken[k] : k \in 1..(i - 1)}
        IN taken[i] \in pool /\ \A j \in pool : taken[i] <= j

\* (wrong: a partner is not taken from the pool)
ClaimsMatchKeeping(a, b) ==
    Len(a) = Len(b) /\ \A i \in DOMAIN a : \E j \in DOMAIN b : SameClaim(a[i], b[j])

ClaimsMatch(a, b) ==
    Len(a) = Len(b) /\ \E taken \in [DOMAIN a -> DOMAIN b] : Greedy(a, b, taken)

RoundRepeated(a, b) ==
    IF HasClaims(a) /\ HasClaims(b)
    THEN a.claims # <<>> /\ ClaimsMatch(a.claims, b.claims)
    ELSE a.claims # <<>> /\ Signature(a) = Signature(b)

-----------------------------------------------------------------------------
(* assessConvergence. *)

Latest(h, n) == SubSeq(h, Len(h) - n + 1, Len(h))

Repeats(h) ==
    /\ Len(h) >= OscillationThreshold
    /\ LET recent == Latest(h, OscillationThreshold)
       IN \A i \in DOMAIN recent : RoundRepeated(recent[1], recent[i])

Improved(recent) == \E i \in 2..Len(recent) : Count(recent[i]) < Count(recent[i - 1])

\* Every finding of the window is of one round only; by claim if all the rounds
\* have claims, by id otherwise, and "cannot tell" is no.
WindowTurnedOver(recent) ==
    \A i, j \in DOMAIN recent :
        /\ HasIds(recent[i]) /\ recent[i].claims # <<>>
        /\ i < j =>
            IF \A r \in Range(recent) : HasClaims(r)
            THEN \A a \in Range(recent[i].claims), b \in Range(recent[j].claims) :
                     ~SameClaim(a, b)
            ELSE Ids(recent[i]) \cap Ids(recent[j]) = {}

\* Trailing rounds with the count of the last one.
FlatRun(h) ==
    Len(h) - Max({0} \cup {i \in DOMAIN h : Count(h[i]) # Count(h[Len(h)])})

\* round >= ceil(cap * 0.75), or a run that is simply long.
Late(n) == 4 * n >= 3 * cap \/ n >= TrendFloor

\* (wrong: the excuse holds for as long as the count stays flat)
ExcusedAgain(h) ==
    /\ ConvergenceWindow > 1 /\ FlatRun(h) >= ConvergenceWindow
    /\ WindowTurnedOver(Latest(h, ConvergenceWindow))

\* Turnover excuses a flat count for one window, and never a rising one.
Excused(h) ==
    /\ ConvergenceWindow > 1 /\ FlatRun(h) = ConvergenceWindow
    /\ WindowTurnedOver(Latest(h, ConvergenceWindow))

TrendIsOff(h) ==
    /\ Len(h) >= ConvergenceWindow
    /\ ~Improved(Latest(h, ConvergenceWindow))
    /\ ~Excused(h)

-----------------------------------------------------------------------------
(* planStall and stallAction; positions count from 0. *)

Fresh(h, i) == Cardinality(Ids(h[i]) \ UNION {Ids(h[k]) : k \in 1..(i - 1)})
Blocking(h, i) == Cardinality(Ids(h[i]))

\* (wrong: half will do)
HalfNew(h, n) == 2 * (Fresh(h, n - 1) + Fresh(h, n)) >= Blocking(h, n - 1) + Blocking(h, n)

MostlyNew(h, n) == 2 * (Fresh(h, n - 1) + Fresh(h, n)) > Blocking(h, n - 1) + Blocking(h, n)

PlanStall(h) ==
    LET n == Len(h)
    IN /\ StallAfter > 0 /\ n > StallAfter /\ n > 2
       /\ stalls # <<>> => n - 1 >= Last(stalls).position + 2
       /\ \A r \in Range(h) : HasIds(r)
       /\ Blocking(h, n) > 0 /\ Blocking(h, n) >= Blocking(h, n - 2)
       /\ MostlyNew(h, n)

StallAction ==
    IF stalls # <<>> /\ Last(stalls).action = "step-back" THEN "escalated" ELSE "step-back"

-----------------------------------------------------------------------------
Going == {"going", "step-back", "resumed"}

HistoryInit ==
    /\ history \in OlderHistories
    /\ stalls = <<>>
    /\ round = Len(history)
    /\ cap \in Caps
    /\ verdict = "resumed"

\* guardProgress, on what one critique found.  A stall is recorded whatever the
\* cap says, and takes the trend's place; the cap takes the stall's.
Judge(claims) ==
    LET h == Append(history, Record(claims))
        stalled == PlanStall(h)
    IN /\ verdict \in Going /\ Len(history) < MaxRecords
       /\ history' = h
       /\ round' = round + 1
       /\ stalls' = IF stalled
                    THEN Append(stalls, [position |-> Len(history), action |-> StallAction])
                    ELSE stalls
       /\ verdict' = IF ~stalled /\ Repeats(h) THEN "repeat"
                     ELSE IF ~stalled /\ Late(round + 1) /\ TrendIsOff(h) THEN "trend"
                     ELSE IF round' >= cap THEN "cap"
                     ELSE IF stalled THEN StallAction
                     ELSE "going"
       /\ UNCHANGED cap

\* A critique whose process stopped before the guard: a resume revises from its
\* findings, and the round is never recorded.
Unjudged ==
    /\ verdict \in Going /\ round < cap
    /\ round' = round + 1
    /\ verdict' = "resumed"
    /\ UNCHANGED <<history, stalls, cap>>

\* A person resumes a stopped loop, which revises and critiques again; the
\* settings may have been changed in between.
Resume ==
    /\ verdict \notin Going
    /\ cap' \in Caps
    /\ verdict' = "resumed"
    /\ UNCHANGED <<history, stalls, round>>

HistoryNext == (\E claims \in Rounds : Judge(claims)) \/ Unjudged \/ Resume

HistorySpec == HistoryInit /\ [][HistoryNext]_historyVars

-----------------------------------------------------------------------------
(* Properties. *)

Outcomes == Going \cup {"repeat", "trend", "cap", "escalated"}

HistoryTypeOK ==
    /\ history \in Seq(Records)
    /\ stalls \in Seq([position : Nat, action : {"step-back", "escalated"}])
    /\ round \in Nat /\ cap \in Caps
    /\ verdict \in Outcomes

NoIdTwice(claims) == Cardinality({c.id : c \in Range(claims)}) = Len(claims)

\* Two rounds repeat each other when their claims pair off one for one: the
\* greedy match finds a pairing whenever there is one, as long as one of the
\* rounds names no id twice, though likeness is not transitive (claimsMatch:
\* "exact whenever an id appears once in a round").
GreedyPairsOff ==
    \A r \in Range(history) :
        LET a == r.claims
            b == Last(history).claims
            Pairings == {f \in [DOMAIN a -> DOMAIN b] : IsInjective(f)}
        IN NoIdTwice(a) \/ NoIdTwice(b) =>
              (ClaimsMatch(a, b) <=>
                  Len(a) = Len(b) /\ \E f \in Pairings : \A i \in DOMAIN a : SameClaim(a[i], b[f[i]]))

Counts == [i \in DOMAIN history |-> Count(history[i])]

\* A falling count never stops the loop as off its trend.  Late in the loop a
\* round that goes on without a fall in its window has a count that stood still
\* all through it, and came to stand there with its first round: a rising count
\* is never let through, and one that stands still only once
\* (assessConvergence: "turnover buys one window, not the cap"; "it says nothing
\* about a rising count").
TrendIsStuck ==
    LET first == Len(history) - ConvergenceWindow + 1
        window == (first + 1)..Len(history)
    IN /\ verdict = "trend" => \A i \in window : Counts[i] >= Counts[i - 1]
       /\ verdict = "going" /\ Late(round) /\ first >= 1 =>
             \/ \E i \in window : Counts[i] < Counts[i - 1]
             \/ /\ \A i \in window : Counts[i] = Counts[i - 1]
                /\ first > 1 => Counts[first] # Counts[first - 1]

\* The two brakes never argue about one round: a loop the stall check calls
\* stalled, whose findings are mostly new, is not one whose rounds repeat, by
\* claim or by signature (planStall preempts assessConvergence).
StallIsNews ==
    stalls # <<>> =>
        LET n == Last(stalls).position + 1
        IN ~RoundRepeated(history[n - 1], history[n])
=============================================================================
