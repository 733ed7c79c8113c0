------------------------ MODULE RemoteAccess_proofs ------------------------
(***************************************************************************)
(* Proofs about RemotePairing and RemoteAccess, for every set of phones,   *)
(* relays and endpoint numbers and every budget.  The inductive invariant  *)
(* says whose answer is waited for, that one change runs at a time, what   *)
(* listens at each of its steps, and whose call an answer is written to.   *)
(***************************************************************************)
EXTENDS RemoteAccess, TLAPS

\* The phone that waits dialled the code there is, and it is the one the person
\* is asked about or has said yes to.
WaiterIsAsked ==
    /\ waiting # Nobody => dial[waiting].code = code.n
    /\ waiting # Nobody /\ prompt # Nobody => waiting = prompt
    /\ waiting # Nobody /\ yes.at # "off" => waiting = yes.phone
    /\ yes.at # "off" => yes.phone # Nobody

\* Whoever was removed is off the list until a write puts it back; a removal is
\* of some phone.
GoneIsOffTheList ==
    /\ gone \cap list = {}
    /\ removal.at # "off" => removal.phone # Nobody

Active(k) == task[k].at \notin {"off", "lock"}

\* The transition lock: one change at a time.
OneChange == \A k, l \in Askers : Active(k) /\ Active(l) => k = l

Listening == IF running.at = "up" THEN {running.ep} ELSE {}
Fits == running.at = "up" => settings.enabled /\ settings.relay = running.relay

\* What listens, and for which settings, at each step of a change and between changes.
ChangeMatches ==
    /\ (\A k \in Askers : ~Active(k)) => bound = Listening /\ Fits
    /\ \A k \in Askers :
          /\ task[k].at = "stop" => bound = Listening
          /\ task[k].at \in {"wait", "shut", "key", "bind", "install"} =>
                running.at # "up" /\ task[k].want = settings
          /\ task[k].at \in {"wait", "shut", "install"} => bound = {task[k].ep}
          /\ task[k].at \in {"key", "bind"} => bound = {}
          /\ task[k].at \in {"key", "bind", "install"} => settings.enabled

\* With the switch on, a start was tried with the key there is, or one is due.
StartIsTried ==
    settings.enabled =>
        \/ running.at \in {"up", "failed"}
        \/ running.at = "nokey" /\ ~key
        \/ task["start"].at = "lock"
        \/ \E k \in Askers : Active(k)

\* An answer written and not yet heard is to the phone whose change is about to
\* stop the endpoint; only a phone's change keeps its asker.
AnswerIsAwaited ==
    /\ \A p \in Phones : conn[p].call = "written" =>
          task["phone"].at \in {"stop", "wait"} /\ task["phone"].asker = p
    /\ task["phone"].at = "stop" /\ task["phone"].asker # Nobody => ClosesConnections(settings)
    /\ task["phone"].at \in {"lock", "wait"} => task["phone"].asker # Nobody
    /\ \A k \in Askers \ {"phone"} : task[k].asker = Nobody
    /\ \A k \in Askers \ {"start"} :
          ~task[k].again /\ (task[k].at = "lock" => task[k].want \in Changes)

IInv ==
    /\ TypeOK
    /\ WaiterIsAsked /\ AnswerReachesItsPhone
    /\ GoneIsOffTheList /\ RemovedIsShutOut
    /\ OneChange /\ ChangeMatches /\ StartIsTried
    /\ AnswerIsAwaited

\* A step of pairing.
PairingStep ==
    \/ BeginCode \/ BeginCodeFails \/ CodeExpires \/ AnswersNo \/ AnswersYes \/ YesSteps
    \/ \E p \in Phones : DialSteps(p) \/ \E n \in 1 .. code.n : SaysHello(p, n)

\* What is done to a pairing connection keeps its type.
LEMMA DialKeepsType ==
    ASSUME dial \in [Phones -> Dial], waiting \in Phones \cup {Nobody}
    PROVE  /\ \A m \in Messages : Told(m) \in [Phones -> Dial]
           /\ \A p \in Phones, m \in Messages : Over(p, m) \in [Phones -> Dial]
           /\ \A p \in Phones, at \in {"off", "shown"} : [dial EXCEPT ![p].at = at] \in [Phones -> Dial]
           /\ \A p \in Phones : [dial EXCEPT ![p].open = FALSE] \in [Phones -> Dial]
           /\ \A p \in Phones, n \in Nat :
                 [dial EXCEPT ![p] = [NoDial EXCEPT !.at = "said", !.code = n, !.open = TRUE]]
                     \in [Phones -> Dial]
           /\ \A p \in Phones, m \in Messages :
                 [Told(m) EXCEPT ![p].at = "prompted", ![p].told = "nothing"] \in [Phones -> Dial]
<1>1. \A p \in Phones, r \in Dial : [dial EXCEPT ![p] = r] \in [Phones -> Dial] OBVIOUS
<1>2. ASSUME NEW m \in Messages PROVE Told(m) \in [Phones -> Dial]
    <2>1. CASE waiting = Nobody BY <2>1 DEF Told
    <2>2. CASE waiting \in Phones
        <3>1. [dial[waiting] EXCEPT !.told = m] \in Dial BY <2>2 DEF Dial
        <3> QED BY <1>1, <2>2, <3>1, NobodyAssumption DEF Told
    <2> QED BY <2>1, <2>2
<1>3. ASSUME NEW p \in Phones, NEW m \in Messages PROVE Over(p, m) \in [Phones -> Dial]
    <2> DEFINE h == IF dial[p].open THEN m ELSE dial[p].heard
               r == [dial[p] EXCEPT !.at = "off", !.open = FALSE, !.heard = h]
    <2>1. dial[p] \in Dial /\ h \in Messages BY DEF Dial
    <2>2. r \in Dial BY <2>1 DEF Dial
    <2>3. Over(p, m) = [dial EXCEPT ![p] = r] BY DEF Over, Dial
    <2> HIDE DEF r
    <2> QED BY <1>1, <2>2, <2>3
<1>4. ASSUME NEW p \in Phones
      PROVE  /\ \A at \in {"off", "shown"} : [dial EXCEPT ![p].at = at] \in [Phones -> Dial]
             /\ [dial EXCEPT ![p].open = FALSE] \in [Phones -> Dial]
    <2>1. \A at \in {"off", "shown"} : [dial[p] EXCEPT !.at = at] \in Dial BY DEF Dial
    <2>2. [dial[p] EXCEPT !.open = FALSE] \in Dial BY DEF Dial
    <2> QED BY <1>1, <2>1, <2>2
<1>5. ASSUME NEW p \in Phones, NEW n \in Nat
      PROVE  [dial EXCEPT ![p] = [NoDial EXCEPT !.at = "said", !.code = n, !.open = TRUE]]
                 \in [Phones -> Dial]
    <2>1. [NoDial EXCEPT !.at = "said", !.code = n, !.open = TRUE] \in Dial
        BY DEF NoDial, Dial, Messages
    <2> QED BY <1>1, <2>1
<1>6. ASSUME NEW p \in Phones, NEW m \in Messages
      PROVE  [Told(m) EXCEPT ![p].at = "prompted", ![p].told = "nothing"] \in [Phones -> Dial]
    <2> DEFINE d == Told(m)
               r == [d[p] EXCEPT !.at = "prompted", !.told = "nothing"]
    <2>1. d \in [Phones -> Dial] BY <1>2
    <2> HIDE DEF d
    <2>2. r \in Dial BY <2>1 DEF Dial, Messages
    <2>3. [d EXCEPT ![p].at = "prompted", ![p].told = "nothing"] = [d EXCEPT ![p] = r]
        BY <2>1 DEF Dial
    <2> HIDE DEF r
    <2>4. [d EXCEPT ![p] = r] \in [Phones -> Dial] BY <2>1, <2>2
    <2> QED BY <2>3, <2>4 DEF d
<1> QED BY <1>2, <1>3, <1>4, <1>5, <1>6

\* Types are kept by pairing on its own.
LEMMA PairingKeepsType ==
    ASSUME PairingType, WaiterIsAsked, PairingStep
    PROVE  PairingType'
<1>0. code.n \in Nat /\ code.n + 1 \in Nat /\ \A n \in 1 .. code.n : n \in Nat
    <2>1. code.n \in Nat BY DEF PairingType
    <2> QED BY <2>1
<1> USE <1>0, DialKeepsType, NobodyAssumption DEF PairingType, NoYes, Messages
<1>1. CASE BeginCode BY <1>1 DEF BeginCode
<1>2. CASE BeginCodeFails BY <1>2 DEF BeginCodeFails
<1>3. CASE CodeExpires BY <1>3 DEF CodeExpires
<1>4. CASE AnswersNo BY <1>4 DEF AnswersNo
<1>5. CASE AnswersYes BY <1>5 DEF AnswersYes
<1>6. CASE YesReads BY <1>6 DEF YesReads
<1>7. CASE YesWrites
    <2>1. yes.phone \in Phones BY <1>7 DEF YesWrites, WaiterIsAsked
    <2> QED BY <1>7, <2>1 DEF YesWrites
<1>8. CASE YesFails BY <1>8 DEF YesFails
<1>9. ASSUME NEW p \in Phones, HangsUp(p) PROVE PairingType' BY <1>9 DEF HangsUp
<1>10. ASSUME NEW p \in Phones, Refused(p) PROVE PairingType' BY <1>10 DEF Refused
<1>11. ASSUME NEW p \in Phones, RefusedUnread(p) PROVE PairingType' BY <1>11 DEF RefusedUnread
<1>12. ASSUME NEW p \in Phones, Prompts(p) PROVE PairingType' BY <1>12 DEF Prompts
<1>13. ASSUME NEW p \in Phones, ChallengeWritten(p) PROVE PairingType'
    BY <1>13 DEF ChallengeWritten
<1>14. ASSUME NEW p \in Phones, ChallengeFails(p) PROVE PairingType' BY <1>14 DEF ChallengeFails
<1>15. ASSUME NEW p \in Phones, HearsAnswer(p) PROVE PairingType'
    <2>1. dial[p].told \in Messages BY DEF Dial
    <2> QED BY <1>15, <2>1 DEF HearsAnswer
<1>16. ASSUME NEW p \in Phones, SeesHangUp(p) PROVE PairingType' BY <1>16 DEF SeesHangUp
<1>17. ASSUME NEW p \in Phones, WaitsTooLong(p) PROVE PairingType' BY <1>17 DEF WaitsTooLong
<1>18. ASSUME NEW p \in Phones, NEW n \in 1 .. code.n, SaysHello(p, n) PROVE PairingType'
    <2>1. n \in Nat BY <1>0
    <2> QED BY <1>18, <2>1 DEF SaysHello
<1> QED BY <1>1, <1>2, <1>3, <1>4, <1>5, <1>6, <1>7, <1>8, <1>9, <1>10, <1>11, <1>12, <1>13,
         <1>14, <1>15, <1>16, <1>17, <1>18 DEF PairingStep, YesSteps, DialSteps

\* Whoever waits stays the one asked about, for the code there is.
LEMMA PairingKeepsWaiter ==
    ASSUME PairingType, WaiterIsAsked, PairingStep
    PROVE  WaiterIsAsked'
<1> USE NobodyAssumption DEF PairingType, Dial, Messages, NoDial, NoYes, WaiterIsAsked
<1>1. CASE BeginCode BY <1>1 DEF BeginCode, Told
<1>2. CASE BeginCodeFails BY <1>2 DEF BeginCodeFails, Told
<1>3. CASE CodeExpires BY <1>3 DEF CodeExpires
<1>4. CASE AnswersNo BY <1>4 DEF AnswersNo, Told
<1>5. CASE AnswersYes BY <1>5 DEF AnswersYes
<1>6. CASE YesReads BY <1>6 DEF YesReads
<1>7. CASE YesWrites BY <1>7 DEF YesWrites, Told
<1>8. CASE YesFails BY <1>8 DEF YesFails, Told
<1>9. ASSUME NEW p \in Phones, HangsUp(p) PROVE WaiterIsAsked' BY <1>9 DEF HangsUp
<1>10. ASSUME NEW p \in Phones, Refused(p) PROVE WaiterIsAsked' BY <1>10 DEF Refused, Over
<1>11. ASSUME NEW p \in Phones, RefusedUnread(p) PROVE WaiterIsAsked'
    BY <1>11 DEF RefusedUnread, Over
<1>12. ASSUME NEW p \in Phones, Prompts(p) PROVE WaiterIsAsked'
    <2> DEFINE d == Told("declined")
    <2>1. d \in [Phones -> Dial] BY DialKeepsType
    <2>2. d[p].code = dial[p].code BY DEF Told
    <2> HIDE DEF d
    <2>3. dial' = [d EXCEPT ![p].at = "prompted", ![p].told = "nothing"] BY <1>12 DEF Prompts, d
    <2>4. dial'[p].code = dial[p].code BY <2>1, <2>2, <2>3
    <2>5. code'.n = code.n /\ dial[p].code = code.n /\ waiting' = p /\ prompt' = p /\ yes' = yes
        BY <1>12 DEF Prompts
    <2> QED BY <1>12, <2>4, <2>5 DEF Prompts, PairingLockFree
<1>13. ASSUME NEW p \in Phones, ChallengeWritten(p) PROVE WaiterIsAsked'
    BY <1>13 DEF ChallengeWritten
<1>14. ASSUME NEW p \in Phones, ChallengeFails(p) PROVE WaiterIsAsked' BY <1>14 DEF ChallengeFails
<1>15. ASSUME NEW p \in Phones, HearsAnswer(p) PROVE WaiterIsAsked' BY <1>15 DEF HearsAnswer, Over
<1>16. ASSUME NEW p \in Phones, SeesHangUp(p) PROVE WaiterIsAsked' BY <1>16 DEF SeesHangUp
<1>17. ASSUME NEW p \in Phones, WaitsTooLong(p) PROVE WaiterIsAsked'
    BY <1>17 DEF WaitsTooLong, Over
<1>18. ASSUME NEW p \in Phones, NEW n \in 1 .. code.n, SaysHello(p, n) PROVE WaiterIsAsked'
    BY <1>18 DEF SaysHello
<1> QED BY <1>1, <1>2, <1>3, <1>4, <1>5, <1>6, <1>7, <1>8, <1>9, <1>10, <1>11, <1>12, <1>13,
         <1>14, <1>15, <1>16, <1>17, <1>18 DEF PairingStep, YesSteps, DialSteps

\* Only the waiter is told, and only what was written.
LEMMA PairingKeepsAnswers ==
    ASSUME PairingType, WaiterIsAsked, AnswerReachesItsPhone, PairingStep
    PROVE  AnswerReachesItsPhone'
<1> USE NobodyAssumption DEF PairingType, Dial, Messages, NoDial, NoYes, WaiterIsAsked,
        AnswerReachesItsPhone
<1>1. CASE BeginCode BY <1>1 DEF BeginCode, Told
<1>2. CASE BeginCodeFails BY <1>2 DEF BeginCodeFails, Told
<1>3. CASE CodeExpires BY <1>3 DEF CodeExpires
<1>4. CASE AnswersNo BY <1>4 DEF AnswersNo, Told
<1>5. CASE AnswersYes BY <1>5 DEF AnswersYes
<1>6. CASE YesReads BY <1>6 DEF YesReads
<1>7. CASE YesWrites BY <1>7 DEF YesWrites, Told
<1>8. CASE YesFails BY <1>8 DEF YesFails, Told
<1>9. ASSUME NEW p \in Phones, HangsUp(p) PROVE AnswerReachesItsPhone' BY <1>9 DEF HangsUp
<1>10. ASSUME NEW p \in Phones, Refused(p) PROVE AnswerReachesItsPhone' BY <1>10 DEF Refused, Over
<1>11. ASSUME NEW p \in Phones, RefusedUnread(p) PROVE AnswerReachesItsPhone'
    BY <1>11 DEF RefusedUnread, Over
<1>12. ASSUME NEW p \in Phones, Prompts(p) PROVE AnswerReachesItsPhone' BY <1>12 DEF Prompts, Told
<1>13. ASSUME NEW p \in Phones, ChallengeWritten(p) PROVE AnswerReachesItsPhone'
    BY <1>13 DEF ChallengeWritten
<1>14. ASSUME NEW p \in Phones, ChallengeFails(p) PROVE AnswerReachesItsPhone'
    BY <1>14 DEF ChallengeFails
<1>15. ASSUME NEW p \in Phones, HearsAnswer(p) PROVE AnswerReachesItsPhone'
    BY <1>15 DEF HearsAnswer, Over
<1>16. ASSUME NEW p \in Phones, SeesHangUp(p) PROVE AnswerReachesItsPhone' BY <1>16 DEF SeesHangUp
<1>17. ASSUME NEW p \in Phones, WaitsTooLong(p) PROVE AnswerReachesItsPhone'
    BY <1>17 DEF WaitsTooLong, Over
<1>18. ASSUME NEW p \in Phones, NEW n \in 1 .. code.n, SaysHello(p, n) PROVE AnswerReachesItsPhone'
    BY <1>18 DEF SaysHello
<1> QED BY <1>1, <1>2, <1>3, <1>4, <1>5, <1>6, <1>7, <1>8, <1>9, <1>10, <1>11, <1>12, <1>13,
         <1>14, <1>15, <1>16, <1>17, <1>18 DEF PairingStep, YesSteps, DialSteps

\* Pairing leaves the rest alone but for a new code, which asks for a start.
LEMMA StepsOfPairing ==
    ASSUME PairingSteps
    PROVE  \/ AsksForCode
           \/ /\ PairingStep /\ key' = key /\ gone' = gone \ list'
              /\ UNCHANGED <<settings, running, bound, conn, task, removal>>
BY DEF PairingSteps, PairingStep, YesSteps, DialSteps, BeginCodeFails, CodeExpires, AnswersNo,
       AnswersYes, YesReads, YesWrites, YesFails, HangsUp, Refused, RefusedUnread, Prompts,
       ChallengeWritten, ChallengeFails, HearsAnswer, SeesHangUp, WaitsTooLong, SaysHello

\* Closing a removed phone's connection changes nothing else of any.
LEMMA ClosedKeeps ==
    ASSUME conn \in [Phones -> Conn], NEW phones
    PROVE  /\ Closed(phones) \in [Phones -> Conn]
           /\ \A q \in Phones :
                 /\ Closed(phones)[q].at = conn[q].at /\ Closed(phones)[q].call = conn[q].call
                 /\ Closed(phones)[q].missed = conn[q].missed
                 /\ Closed(phones)[q].open => conn[q].open /\ (q \in phones => conn[q].at # "served")
<1> DEFINE shut(q) == [conn[q] EXCEPT !.open = FALSE]
<1>0. \A q \in Phones : conn[q] \in Conn OBVIOUS
<1>1. \A q \in Phones : /\ shut(q) \in Conn /\ ~shut(q).open
                        /\ shut(q).at = conn[q].at /\ shut(q).call = conn[q].call
                        /\ shut(q).missed = conn[q].missed
    BY <1>0 DEF Conn
<1>2. \A q \in Phones : Closed(phones)[q] = IF q \in phones /\ conn[q].at \in {"registered", "served"}
                                            THEN shut(q) ELSE conn[q]
    BY DEF Closed
<1>3. Closed(phones) \in [Phones -> Conn]
    <2> HIDE DEF shut
    <2> QED BY <1>1 DEF Closed, shut
<1> HIDE DEF shut
<1> QED BY <1>1, <1>2, <1>3

\* A call dropped with its connection was waiting for the lock.
LEMMA CallsDropped ==
    ASSUME task \in [Askers -> Task], NEW dropped
    PROVE  /\ WithoutCallsOf(dropped) \in [Askers -> Task]
           /\ \A k \in Askers : WithoutCallsOf(dropped)[k] # task[k] =>
                 /\ k = "phone" /\ task[k].at = "lock" /\ WithoutCallsOf(dropped)[k] = NoTask
<1>1. NoTask \in Task /\ "phone" \in Askers BY DEF NoTask, NoChange, Task, Askers
<1> QED BY <1>1 DEF WithoutCallsOf

\* The end of a change leaves its task idle, or due once more.
LEMMA DoneIsIdle ==
    ASSUME task \in [Askers -> Task], NEW k \in Askers
    PROVE  /\ Done(k) \in [Askers -> Task]
           /\ \A l \in Askers \ {k} : Done(k)[l] = task[l]
           /\ Done(k)[k].at = IF task[k].again THEN "lock" ELSE "off"
           /\ Done(k)[k].asker = Nobody /\ ~Done(k)[k].again
<1> DEFINE t == IF task[k].again THEN [NoTask EXCEPT !.at = "lock"] ELSE NoTask
<1>1. /\ t \in Task /\ t.asker = Nobody /\ ~t.again
      /\ t.at = IF task[k].again THEN "lock" ELSE "off"
    BY DEF NoTask, NoChange, Task
<1>2. Done(k) = [task EXCEPT ![k] = t] BY DEF Done
<1> HIDE DEF t
<1> QED BY <1>1, <1>2

\* A removed phone stays off the list, and off the air.
LEMMA StepGone ==
    ASSUME TypeOK, GoneIsOffTheList, RemovedIsShutOut, [Next]_vars
    PROVE  (GoneIsOffTheList /\ RemovedIsShutOut)'
<1> USE NobodyAssumption DEF TypeOK, PairingType, Conn, Removal, GoneIsOffTheList,
        RemovedIsShutOut, pairingVars, pairing
<1>1. CASE /\ PairingStep /\ key' = key /\ gone' = gone \ list'
           /\ UNCHANGED <<settings, running, bound, conn, task, removal>>
    BY <1>1 DEF PairingStep
<1>2. CASE AsksForCode BY <1>2 DEF AsksForCode, BeginCode, NoTask
<1>3. ASSUME NEW p \in Phones, Dials(p) PROVE (GoneIsOffTheList /\ RemovedIsShutOut)'
    BY <1>3 DEF Dials, NoConn
<1>4. ASSUME NEW p \in Phones, Registers(p) PROVE (GoneIsOffTheList /\ RemovedIsShutOut)'
    BY <1>4 DEF Registers
<1>5. ASSUME NEW p \in Phones, Admits(p) PROVE (GoneIsOffTheList /\ RemovedIsShutOut)'
    BY <1>5 DEF Admits
<1>6. ASSUME NEW p \in Phones, AdmitsNobody(p) PROVE (GoneIsOffTheList /\ RemovedIsShutOut)'
    BY <1>6 DEF AdmitsNobody
<1>7. ASSUME NEW p \in Phones, Drops(p) PROVE (GoneIsOffTheList /\ RemovedIsShutOut)'
    BY <1>7 DEF Drops
<1>8. ASSUME NEW p \in Phones, Ends(p) PROVE (GoneIsOffTheList /\ RemovedIsShutOut)'
    BY <1>8 DEF Ends, NoConn, NoTask, WithoutCallsOf
<1>9. ASSUME NEW p \in Phones, Unpairs(p) PROVE (GoneIsOffTheList /\ RemovedIsShutOut)'
    BY <1>9 DEF Unpairs
<1>10. ASSUME NEW p \in Phones, UnpairLoads(p) PROVE (GoneIsOffTheList /\ RemovedIsShutOut)'
    BY <1>10 DEF UnpairLoads
<1>11. ASSUME NEW p \in Phones, UnpairWrites(p) PROVE (GoneIsOffTheList /\ RemovedIsShutOut)'
    BY <1>11 DEF UnpairWrites, WriteList
<1>12. ASSUME NEW p \in Phones, UnpairCloses(p) PROVE (GoneIsOffTheList /\ RemovedIsShutOut)'
    <2> DEFINE c == Closed({p})
    <2>1. /\ c \in [Phones -> Conn]
          /\ \A q \in Phones :
                /\ c[q].at = conn[q].at /\ c[q].missed = conn[q].missed
                /\ c[q].open => conn[q].open /\ (q = p => conn[q].at # "served")
        BY ClosedKeeps
    <2>2. conn' = [c EXCEPT ![p].leaving = "no", ![p].read = {}] BY <1>12 DEF UnpairCloses
    <2> HIDE DEF c
    <2>3. \A q \in Phones : /\ conn'[q].at = c[q].at /\ conn'[q].open = c[q].open
                            /\ conn'[q].missed = c[q].missed
        BY <2>1, <2>2
    <2>4. \A q \in gone' : q \in gone \/ (q = p /\ p \notin list) BY <1>12 DEF UnpairCloses
    <2>5. UNCHANGED <<list, removal>> BY <1>12 DEF UnpairCloses
    <2> QED BY <2>1, <2>3, <2>4, <2>5
<1>13. ASSUME NEW p \in Phones, UnpairFails(p) PROVE (GoneIsOffTheList /\ RemovedIsShutOut)'
    BY <1>13 DEF UnpairFails
<1>14. ASSUME NEW p \in Phones, RevokeBegins(p) PROVE (GoneIsOffTheList /\ RemovedIsShutOut)'
    BY <1>14 DEF RevokeBegins
<1>15. ASSUME NEW p \in Phones, PhoneAsks(p) PROVE (GoneIsOffTheList /\ RemovedIsShutOut)'
    BY <1>15 DEF PhoneAsks, NoTask
<1>16. ASSUME NEW p \in Phones, Hears(p) PROVE (GoneIsOffTheList /\ RemovedIsShutOut)'
    BY <1>16 DEF Hears
<1>33. ASSUME NEW p \in Phones, StopsReading(p) \/ ReadsAgain(p) PROVE (GoneIsOffTheList /\ RemovedIsShutOut)'
    BY <1>33 DEF StopsReading, ReadsAgain
<1>17. CASE RevokeLoads BY <1>17 DEF RevokeLoads
<1>18. CASE RevokeWrites BY <1>18 DEF RevokeWrites, WriteList
<1>19. CASE RevokeCloses
    <2>1. /\ removal.phone \in Phones /\ list' = list /\ removal'.at = "off"
          /\ gone' = gone \cup ({removal.phone} \ list)
        BY <1>19 DEF RevokeCloses, NoRemoval
    <2>2. CASE running.at = "up"
        <3>1. \A q \in Phones :
                 /\ conn'[q].at = conn[q].at /\ conn'[q].missed = conn[q].missed
                 /\ conn'[q].open => conn[q].open /\ (q = removal.phone => conn[q].at # "served")
            BY <1>19, <2>2, ClosedKeeps DEF RevokeCloses
        <3> QED BY <2>1, <3>1
    <2>3. CASE running.at # "up"
        <3>1. \A q \in Phones :
                 /\ conn'[q].at = conn[q].at /\ conn'[q].open = conn[q].open
                 /\ conn'[q].missed = IF q = removal.phone THEN conn[q].at = "served"
                                      ELSE conn[q].missed
            BY <1>19, <2>1, <2>3 DEF RevokeCloses
        <3> QED BY <2>1, <3>1
    <2> QED BY <2>2, <2>3
<1>20. CASE RevokeFails BY <1>20 DEF RevokeFails, NoRemoval
<1>21. CASE WindowAsks BY <1>21 DEF WindowAsks, NoTask
<1>22. ASSUME NEW k \in Askers, Take(k) PROVE (GoneIsOffTheList /\ RemovedIsShutOut)'
    BY <1>22 DEF Take
<1>23. ASSUME NEW k \in Askers, Stop(k) PROVE (GoneIsOffTheList /\ RemovedIsShutOut)'
    BY <1>23 DEF Stop, Down, Done
<1>24. ASSUME NEW k \in Askers, WaitEnds(k) PROVE (GoneIsOffTheList /\ RemovedIsShutOut)'
    BY <1>24 DEF WaitEnds, At
<1>25. ASSUME NEW k \in Askers, Shut(k) PROVE (GoneIsOffTheList /\ RemovedIsShutOut)'
    <2>1. \A q \in Phones : ~conn'[q].open BY <1>25 DEF Shut, Ended, NoConn
    <2> QED BY <1>25, <2>1 DEF Shut
<1>26. ASSUME NEW k \in Askers, FindsNoKey(k) PROVE (GoneIsOffTheList /\ RemovedIsShutOut)'
    BY <1>26 DEF FindsNoKey, Down, Done
<1>27. ASSUME NEW k \in Askers, FindsKey(k) PROVE (GoneIsOffTheList /\ RemovedIsShutOut)'
    BY <1>27 DEF FindsKey, Down, At
<1>28. ASSUME NEW k \in Askers, Bind(k) PROVE (GoneIsOffTheList /\ RemovedIsShutOut)'
    BY <1>28 DEF Bind
<1>29. ASSUME NEW k \in Askers, Install(k) PROVE (GoneIsOffTheList /\ RemovedIsShutOut)'
    BY <1>29 DEF Install, Down, Done
<1>30. ASSUME NEW k \in Askers, TakeFails(k) PROVE (GoneIsOffTheList /\ RemovedIsShutOut)'
    BY <1>30 DEF TakeFails, NoTask
<1>31. ASSUME NEW k \in Askers, BindFails(k) PROVE (GoneIsOffTheList /\ RemovedIsShutOut)'
    BY <1>31 DEF BindFails, Down, Done
<1>32. CASE UNCHANGED vars BY <1>32 DEF vars, pairingVars, pairing, accessVars
<1> QED BY <1>1, <1>2, <1>3, <1>4, <1>5, <1>6, <1>7, <1>8, <1>9, <1>10, <1>11, <1>12, <1>13,
         <1>14, <1>15, <1>16, <1>17, <1>18, <1>19, <1>20, <1>21, <1>22, <1>23, <1>24, <1>25,
         <1>26, <1>27, <1>28, <1>29, <1>30, <1>31, <1>32, <1>33, StepsOfPairing
    DEF Next, TaskSteps, RevokeSteps, UnpairSteps

\* One change at a time, and what listens is what its step says.
LEMMA StepChange ==
    ASSUME TypeOK, OneChange, ChangeMatches, AnswerIsAwaited, [Next]_vars
    PROVE  (OneChange /\ ChangeMatches)'
<1> USE NobodyAssumption, EndpointAssumption DEF TypeOK, PairingType, Endpoint, Removal, Task,
        Changes, Askers, OneChange, ChangeMatches, Active, Listening, Fits, TransitionFree,
        ClosesConnections, pairingVars, pairing
<1>1. CASE /\ PairingStep /\ key' = key /\ gone' = gone \ list'
           /\ UNCHANGED <<settings, running, bound, conn, task, removal>>
    BY <1>1 DEF PairingStep
<1>2. CASE AsksForCode BY <1>2 DEF AsksForCode, BeginCode, NoTask
<1>3. ASSUME NEW p \in Phones, Dials(p) PROVE (OneChange /\ ChangeMatches)'
    BY <1>3 DEF Dials, NoConn
<1>4. ASSUME NEW p \in Phones, Registers(p) PROVE (OneChange /\ ChangeMatches)'
    BY <1>4 DEF Registers
<1>5. ASSUME NEW p \in Phones, Admits(p) PROVE (OneChange /\ ChangeMatches)'
    BY <1>5 DEF Admits
<1>6. ASSUME NEW p \in Phones, AdmitsNobody(p) PROVE (OneChange /\ ChangeMatches)'
    BY <1>6 DEF AdmitsNobody
<1>7. ASSUME NEW p \in Phones, Drops(p) PROVE (OneChange /\ ChangeMatches)'
    BY <1>7 DEF Drops
<1>8. ASSUME NEW p \in Phones, Ends(p) PROVE (OneChange /\ ChangeMatches)'
    BY <1>8 DEF Ends, NoConn, NoTask, WithoutCallsOf
<1>9. ASSUME NEW p \in Phones, Unpairs(p) PROVE (OneChange /\ ChangeMatches)'
    BY <1>9 DEF Unpairs
<1>10. ASSUME NEW p \in Phones, UnpairLoads(p) PROVE (OneChange /\ ChangeMatches)'
    BY <1>10 DEF UnpairLoads
<1>11. ASSUME NEW p \in Phones, UnpairWrites(p) PROVE (OneChange /\ ChangeMatches)'
    BY <1>11 DEF UnpairWrites, WriteList
<1>12. ASSUME NEW p \in Phones, UnpairCloses(p) PROVE (OneChange /\ ChangeMatches)'
    BY <1>12 DEF UnpairCloses, Closed
<1>13. ASSUME NEW p \in Phones, UnpairFails(p) PROVE (OneChange /\ ChangeMatches)'
    BY <1>13 DEF UnpairFails
<1>14. ASSUME NEW p \in Phones, RevokeBegins(p) PROVE (OneChange /\ ChangeMatches)'
    BY <1>14 DEF RevokeBegins
<1>15. ASSUME NEW p \in Phones, PhoneAsks(p) PROVE (OneChange /\ ChangeMatches)'
    BY <1>15 DEF PhoneAsks, NoTask
<1>16. ASSUME NEW p \in Phones, Hears(p) PROVE (OneChange /\ ChangeMatches)'
    BY <1>16 DEF Hears
<1>33. ASSUME NEW p \in Phones, StopsReading(p) \/ ReadsAgain(p) PROVE (OneChange /\ ChangeMatches)'
    BY <1>33 DEF StopsReading, ReadsAgain
<1>17. CASE RevokeLoads BY <1>17 DEF RevokeLoads
<1>18. CASE RevokeWrites BY <1>18 DEF RevokeWrites, WriteList
<1>19. CASE RevokeCloses BY <1>19 DEF RevokeCloses, Closed, NoRemoval
<1>20. CASE RevokeFails BY <1>20 DEF RevokeFails, NoRemoval
<1>21. CASE WindowAsks BY <1>21 DEF WindowAsks, NoTask
<1>22. ASSUME NEW k \in Askers, Take(k) PROVE (OneChange /\ ChangeMatches)'
    BY <1>22 DEF Take
<1>23. ASSUME NEW k \in Askers, Stop(k) PROVE (OneChange /\ ChangeMatches)'
    <2>1. \A l \in Askers \ {k} : ~Active(l) BY <1>23 DEF Stop
    <2>2. CASE ClosesConnections(settings)
        <3>1. /\ \A l \in Askers \ {k} : task'[l] = task[l]
              /\ task'[k].at \in {"wait", "shut"} /\ task'[k].ep = running.ep /\ task'[k].want = settings
            BY <1>23, <2>2 DEF Stop
        <3> QED BY <1>23, <2>1, <2>2, <3>1 DEF Stop, Down
    <2>3. CASE ~ClosesConnections(settings) /\ (running.at = "up" \/ ~settings.enabled)
        <3>1. task' = Done(k) /\ bound' = bound /\ settings' = settings
              /\ running' = IF settings.enabled THEN running ELSE Down("off")
            BY <1>23, <2>3 DEF Stop
        <3>2. \A l \in Askers : task'[l].at \in {"off", "lock"} BY <2>1, <3>1, DoneIsIdle DEF NoTask
        <3> QED BY <1>23, <2>3, <3>1, <3>2 DEF Stop, Down
    <2>4. CASE running.at # "up" /\ settings.enabled
        <3>1. /\ \A l \in Askers \ {k} : task'[l] = task[l]
              /\ task'[k].at = "key" /\ task'[k].want = settings /\ running' = running
            BY <1>23, <2>4 DEF Stop
        <3> QED BY <1>23, <2>1, <2>4, <3>1 DEF Stop
    <2> QED BY <2>2, <2>3, <2>4
<1>24. ASSUME NEW k \in Askers, WaitEnds(k) PROVE (OneChange /\ ChangeMatches)'
    BY <1>24 DEF WaitEnds, At
<1>25. ASSUME NEW k \in Askers, Shut(k) PROVE (OneChange /\ ChangeMatches)'
    <2>1. \A l \in Askers \ {k} : ~Active(l) BY <1>25 DEF Shut
    <2>2. /\ \A l \in Askers \ {k} : task'[l].at \in {"off", "lock"}
          /\ task'[k].at \in {"off", "lock", "key"}
          /\ task'[k].at = "key" => task'[k].want = settings /\ settings.enabled
        BY <1>25, <2>1 DEF Shut, WithoutCallsOf, NoTask
    <2> QED BY <1>25, <2>2 DEF Shut
<1>26. ASSUME NEW k \in Askers, FindsNoKey(k) PROVE (OneChange /\ ChangeMatches)'
    <2>1. \A l \in Askers \ {k} : ~Active(l) BY <1>26 DEF FindsNoKey
    <2>2. \A l \in Askers : task'[l].at \in {"off", "lock"}
        BY <1>26, <2>1, DoneIsIdle DEF FindsNoKey, NoTask
    <2> QED BY <1>26, <2>2 DEF FindsNoKey, Down
<1>27. ASSUME NEW k \in Askers, FindsKey(k) PROVE (OneChange /\ ChangeMatches)'
    BY <1>27 DEF FindsKey, Down, At
<1>28. ASSUME NEW k \in Askers, Bind(k) PROVE (OneChange /\ ChangeMatches)'
    BY <1>28 DEF Bind
<1>29. ASSUME NEW k \in Askers, Install(k) PROVE (OneChange /\ ChangeMatches)'
    <2>1. \A l \in Askers \ {k} : ~Active(l) BY <1>29 DEF Install
    <2>2. settings = task[k].want BY <1>29 DEF Install
    <2>3. \A l \in Askers : task'[l].at \in {"off", "lock"}
        BY <1>29, <2>1, <2>2, DoneIsIdle DEF Install, NoTask
    <2> QED BY <1>29, <2>2, <2>3 DEF Install
<1>30. ASSUME NEW k \in Askers, TakeFails(k) PROVE (OneChange /\ ChangeMatches)'
    BY <1>30 DEF TakeFails, NoTask
<1>31. ASSUME NEW k \in Askers, BindFails(k) PROVE (OneChange /\ ChangeMatches)'
    <2>1. \A l \in Askers \ {k} : ~Active(l) BY <1>31 DEF BindFails
    <2>2. \A l \in Askers : task'[l].at \in {"off", "lock"}
        BY <1>31, <2>1, DoneIsIdle DEF BindFails, NoTask
    <2> QED BY <1>31, <2>2 DEF BindFails, Down
<1>32. CASE UNCHANGED vars BY <1>32 DEF vars, pairingVars, pairing, accessVars
<1> QED BY <1>1, <1>2, <1>3, <1>4, <1>5, <1>6, <1>7, <1>8, <1>9, <1>10, <1>11, <1>12, <1>13,
         <1>14, <1>15, <1>16, <1>17, <1>18, <1>19, <1>20, <1>21, <1>22, <1>23, <1>24, <1>25,
         <1>26, <1>27, <1>28, <1>29, <1>30, <1>31, <1>32, <1>33, StepsOfPairing
    DEF Next, TaskSteps, RevokeSteps, UnpairSteps

\* With the switch on a start stays tried, or due.
LEMMA StepStart ==
    ASSUME TypeOK, OneChange, ChangeMatches, StartIsTried, [Next]_vars
    PROVE  StartIsTried'
<1> USE NobodyAssumption, EndpointAssumption DEF TypeOK, PairingType, Endpoint, Removal, Task,
        Changes, Askers, Active, TransitionFree, ClosesConnections, pairingVars, pairing,
        OneChange, ChangeMatches, StartIsTried, Fits
<1>1. CASE /\ PairingStep /\ key' = key /\ gone' = gone \ list'
           /\ UNCHANGED <<settings, running, bound, conn, task, removal>>
    BY <1>1 DEF PairingStep
<1>2. CASE AsksForCode BY <1>2 DEF AsksForCode, BeginCode, NoTask
<1>3. ASSUME NEW p \in Phones, Dials(p) PROVE StartIsTried'
    BY <1>3 DEF Dials, NoConn
<1>4. ASSUME NEW p \in Phones, Registers(p) PROVE StartIsTried'
    BY <1>4 DEF Registers
<1>5. ASSUME NEW p \in Phones, Admits(p) PROVE StartIsTried'
    BY <1>5 DEF Admits
<1>6. ASSUME NEW p \in Phones, AdmitsNobody(p) PROVE StartIsTried'
    BY <1>6 DEF AdmitsNobody
<1>7. ASSUME NEW p \in Phones, Drops(p) PROVE StartIsTried'
    BY <1>7 DEF Drops
<1>8. ASSUME NEW p \in Phones, Ends(p) PROVE StartIsTried'
    BY <1>8 DEF Ends, NoConn, NoTask, WithoutCallsOf
<1>9. ASSUME NEW p \in Phones, Unpairs(p) PROVE StartIsTried'
    BY <1>9 DEF Unpairs
<1>10. ASSUME NEW p \in Phones, UnpairLoads(p) PROVE StartIsTried'
    BY <1>10 DEF UnpairLoads
<1>11. ASSUME NEW p \in Phones, UnpairWrites(p) PROVE StartIsTried'
    BY <1>11 DEF UnpairWrites, WriteList
<1>12. ASSUME NEW p \in Phones, UnpairCloses(p) PROVE StartIsTried'
    BY <1>12 DEF UnpairCloses, Closed
<1>13. ASSUME NEW p \in Phones, UnpairFails(p) PROVE StartIsTried'
    BY <1>13 DEF UnpairFails
<1>14. ASSUME NEW p \in Phones, RevokeBegins(p) PROVE StartIsTried'
    BY <1>14 DEF RevokeBegins
<1>15. ASSUME NEW p \in Phones, PhoneAsks(p) PROVE StartIsTried'
    BY <1>15 DEF PhoneAsks, NoTask
<1>16. ASSUME NEW p \in Phones, Hears(p) PROVE StartIsTried'
    BY <1>16 DEF Hears
<1>33. ASSUME NEW p \in Phones, StopsReading(p) \/ ReadsAgain(p) PROVE StartIsTried'
    BY <1>33 DEF StopsReading, ReadsAgain
<1>17. CASE RevokeLoads BY <1>17 DEF RevokeLoads
<1>18. CASE RevokeWrites BY <1>18 DEF RevokeWrites, WriteList
<1>19. CASE RevokeCloses BY <1>19 DEF RevokeCloses, Closed, NoRemoval
<1>20. CASE RevokeFails BY <1>20 DEF RevokeFails, NoRemoval
<1>21. CASE WindowAsks BY <1>21 DEF WindowAsks, NoTask
<1>22. ASSUME NEW k \in Askers, Take(k) PROVE StartIsTried'
    <2>1. task'[k].at = "stop" BY <1>22 DEF Take
    <2> QED BY <2>1
<1>23. ASSUME NEW k \in Askers, Stop(k) PROVE StartIsTried'
    <2>1. CASE ClosesConnections(settings)
        <3>1. task'[k].at \in {"wait", "shut"} BY <1>23, <2>1 DEF Stop
        <3> QED BY <3>1
    <2>2. CASE ~ClosesConnections(settings) /\ (running.at = "up" \/ ~settings.enabled)
        <3>1. settings' = settings /\ running' = IF settings.enabled THEN running ELSE Down("off")
            BY <1>23, <2>2 DEF Stop
        <3> QED BY <2>2, <3>1
    <2>3. CASE running.at # "up" /\ settings.enabled
        <3>1. task'[k].at = "key" BY <1>23, <2>3 DEF Stop
        <3> QED BY <3>1
    <2> QED BY <2>1, <2>2, <2>3
<1>24. ASSUME NEW k \in Askers, WaitEnds(k) PROVE StartIsTried'
    BY <1>24 DEF WaitEnds, At
<1>25. ASSUME NEW k \in Askers, Shut(k) PROVE StartIsTried'
    <2>1. /\ task'[k].at = "key" \/ ~settings.enabled
          /\ running' = running /\ settings' = settings
        <3>1. WithoutCallsOf(Phones)[k] = task[k] BY <1>25, CallsDropped DEF Shut
        <3>2. WithoutCallsOf(Phones) \in [Askers -> Task] BY CallsDropped
        <3>3. task' = [WithoutCallsOf(Phones) EXCEPT ![k] =
                          IF task[k].want.enabled /\ running.at # "up" THEN [task[k] EXCEPT !.at = "key"]
                          ELSE IF task[k].again THEN [NoTask EXCEPT !.at = "lock"] ELSE NoTask]
            BY <1>25, <3>1, <3>2 DEF Shut
        <3>4. task[k].want = settings /\ running.at # "up" BY <1>25 DEF Shut
        <3> QED BY <1>25, <3>2, <3>3, <3>4 DEF Shut
    <2> QED BY <2>1
<1>26. ASSUME NEW k \in Askers, FindsNoKey(k) PROVE StartIsTried'
    BY <1>26 DEF FindsNoKey, Down, Done
<1>27. ASSUME NEW k \in Askers, FindsKey(k) PROVE StartIsTried'
    BY <1>27 DEF FindsKey, Down, At
<1>28. ASSUME NEW k \in Askers, Bind(k) PROVE StartIsTried'
    BY <1>28 DEF Bind
<1>29. ASSUME NEW k \in Askers, Install(k) PROVE StartIsTried'
    BY <1>29 DEF Install, Down, Done
<1>30. ASSUME NEW k \in Askers, TakeFails(k) PROVE StartIsTried'
    BY <1>30 DEF TakeFails, NoTask
<1>31. ASSUME NEW k \in Askers, BindFails(k) PROVE StartIsTried'
    BY <1>31 DEF BindFails, Down, Done
<1>32. CASE UNCHANGED vars BY <1>32 DEF vars, pairingVars, pairing, accessVars
<1> QED BY <1>1, <1>2, <1>3, <1>4, <1>5, <1>6, <1>7, <1>8, <1>9, <1>10, <1>11, <1>12, <1>13,
         <1>14, <1>15, <1>16, <1>17, <1>18, <1>19, <1>20, <1>21, <1>22, <1>23, <1>24, <1>25,
         <1>26, <1>27, <1>28, <1>29, <1>30, <1>31, <1>32, <1>33, StepsOfPairing
    DEF Next, TaskSteps, RevokeSteps, UnpairSteps

\* A written answer is waited for.
LEMMA StepAwaited ==
    ASSUME TypeOK, OneChange, ChangeMatches, AnswerIsAwaited, [Next]_vars
    PROVE  AnswerIsAwaited'
<1>0. /\ WithoutCallsOf(Phones) \in [Askers -> Task]
      /\ \A l \in Askers : WithoutCallsOf(Phones)[l] # task[l] =>
            task[l].at = "lock" /\ WithoutCallsOf(Phones)[l] = NoTask
    BY CallsDropped DEF TypeOK
<1> USE NobodyAssumption, EndpointAssumption DEF TypeOK, PairingType, Endpoint, Removal, Task,
        Changes, Askers, Active, TransitionFree, ClosesConnections, pairingVars, pairing, Conn,
        NoConn, NoTask, NoChange, OneChange, AnswerIsAwaited
<1>1. CASE /\ PairingStep /\ key' = key /\ gone' = gone \ list'
           /\ UNCHANGED <<settings, running, bound, conn, task, removal>>
    BY <1>1 DEF PairingStep
<1>2. CASE AsksForCode BY <1>2 DEF AsksForCode, BeginCode, NoTask
<1>3. ASSUME NEW p \in Phones, Dials(p) PROVE AnswerIsAwaited'
    BY <1>3 DEF Dials, NoConn
<1>4. ASSUME NEW p \in Phones, Registers(p) PROVE AnswerIsAwaited'
    BY <1>4 DEF Registers
<1>5. ASSUME NEW p \in Phones, Admits(p) PROVE AnswerIsAwaited'
    BY <1>5 DEF Admits
<1>6. ASSUME NEW p \in Phones, AdmitsNobody(p) PROVE AnswerIsAwaited'
    BY <1>6 DEF AdmitsNobody
<1>7. ASSUME NEW p \in Phones, Drops(p) PROVE AnswerIsAwaited'
    BY <1>7 DEF Drops
<1>8. ASSUME NEW p \in Phones, Ends(p) PROVE AnswerIsAwaited'
    BY <1>8 DEF Ends, NoConn, NoTask, WithoutCallsOf
<1>9. ASSUME NEW p \in Phones, Unpairs(p) PROVE AnswerIsAwaited'
    BY <1>9 DEF Unpairs
<1>10. ASSUME NEW p \in Phones, UnpairLoads(p) PROVE AnswerIsAwaited'
    BY <1>10 DEF UnpairLoads
<1>11. ASSUME NEW p \in Phones, UnpairWrites(p) PROVE AnswerIsAwaited'
    BY <1>11 DEF UnpairWrites, WriteList
<1>12. ASSUME NEW p \in Phones, UnpairCloses(p) PROVE AnswerIsAwaited'
    <2> DEFINE c == Closed({p})
    <2>1. c \in [Phones -> Conn] /\ \A q \in Phones : c[q].call = conn[q].call BY ClosedKeeps
    <2>2. conn' = [c EXCEPT ![p].leaving = "no", ![p].read = {}] BY <1>12 DEF UnpairCloses
    <2> HIDE DEF c
    <2>3. \A q \in Phones : conn'[q].call = conn[q].call BY <2>1, <2>2
    <2> QED BY <1>12, <2>3 DEF UnpairCloses
<1>13. ASSUME NEW p \in Phones, UnpairFails(p) PROVE AnswerIsAwaited'
    BY <1>13 DEF UnpairFails
<1>14. ASSUME NEW p \in Phones, RevokeBegins(p) PROVE AnswerIsAwaited'
    BY <1>14 DEF RevokeBegins
<1>15. ASSUME NEW p \in Phones, PhoneAsks(p) PROVE AnswerIsAwaited'
    BY <1>15 DEF PhoneAsks, NoTask
<1>16. ASSUME NEW p \in Phones, Hears(p) PROVE AnswerIsAwaited'
    BY <1>16 DEF Hears
<1>33. ASSUME NEW p \in Phones, StopsReading(p) \/ ReadsAgain(p) PROVE AnswerIsAwaited'
    <2>1. UNCHANGED <<settings, running, bound, task>> BY <1>33 DEF StopsReading, ReadsAgain
    <2>2. \A q \in Phones : conn'[q].call = conn[q].call BY <1>33 DEF StopsReading, ReadsAgain
    <2> QED BY <2>1, <2>2
<1>17. CASE RevokeLoads BY <1>17 DEF RevokeLoads
<1>18. CASE RevokeWrites BY <1>18 DEF RevokeWrites, WriteList
<1>19. CASE RevokeCloses BY <1>19 DEF RevokeCloses, Closed, NoRemoval
<1>20. CASE RevokeFails BY <1>20 DEF RevokeFails, NoRemoval
<1>21. CASE WindowAsks BY <1>21 DEF WindowAsks, NoTask
<1>22. ASSUME NEW k \in Askers, Take(k) PROVE AnswerIsAwaited'
    <2> DEFINE answered == IF k = "phone" /\ ClosesConnections(task[k].want)
                           THEN task[k].asker ELSE Nobody
    <2>1. /\ \A l \in Askers : ~Active(l)
          /\ \A l \in Askers \ {k} : task'[l] = task[l]
          /\ task'[k].at = "stop" /\ task'[k].asker = answered /\ task'[k].again = task[k].again
          /\ task'[k].want = task[k].want
        BY <1>22 DEF Take
    <2>2. \A p \in Phones : conn[p].call # "written" BY <2>1
    <2>3. \A p \in Phones : conn'[p].call = "written" => k = "phone" /\ p = answered
        BY <1>22, <2>2 DEF Take
    <2>4. /\ running' = running
          /\ settings' = IF k = "start" THEN settings ELSE task[k].want
        BY <1>22 DEF Take
    <2> QED BY <2>1, <2>3, <2>4
<1>23. ASSUME NEW k \in Askers, Stop(k) PROVE AnswerIsAwaited'
    <2>1. \A l \in Askers \ {k} : ~Active(l) BY <1>23 DEF Stop
    <2>2. conn' = conn /\ settings' = settings BY <1>23 DEF Stop
    <2>3. CASE ClosesConnections(settings)
        <3>1. /\ \A l \in Askers \ {k} : task'[l] = task[l]
              /\ task'[k].at = IF task[k].asker # Nobody THEN "wait" ELSE "shut"
              /\ task'[k].asker = task[k].asker /\ task'[k].again = task[k].again
            BY <1>23, <2>3 DEF Stop
        <3> QED BY <1>23, <2>1, <2>2, <3>1 DEF Stop
    <2>4. CASE ~ClosesConnections(settings) /\ (running.at = "up" \/ ~settings.enabled)
        <3>1. task' = Done(k) BY <1>23, <2>4 DEF Stop
        <3>2. /\ \A l \in Askers \ {k} : task'[l] = task[l]
              /\ task'[k].at = IF task[k].again THEN "lock" ELSE "off"
              /\ task'[k].asker = Nobody /\ ~task'[k].again
            BY <3>1, DoneIsIdle
        <3>3. \A p \in Phones : conn[p].call # "written" BY <1>23, <2>1, <2>4 DEF Stop
        <3> QED BY <2>1, <2>2, <3>2, <3>3
    <2>5. CASE ~ClosesConnections(settings) /\ running.at # "up" /\ settings.enabled
        <3>1. /\ \A l \in Askers \ {k} : task'[l] = task[l]
              /\ task'[k].at = "key" /\ task'[k].asker = task[k].asker
              /\ task'[k].again = task[k].again
            BY <1>23, <2>5 DEF Stop
        <3>2. \A p \in Phones : conn[p].call # "written" BY <1>23, <2>1, <2>5 DEF Stop
        <3> QED BY <2>1, <2>2, <3>1, <3>2
    <2> QED BY <2>3, <2>4, <2>5
<1>24. ASSUME NEW k \in Askers, WaitEnds(k) PROVE AnswerIsAwaited'
    BY <1>24 DEF WaitEnds, At
<1>25. ASSUME NEW k \in Askers, Shut(k) PROVE AnswerIsAwaited'
    <2>1. \A l \in Askers \ {k} : ~Active(l) BY <1>25 DEF Shut
    <2>2. \A p \in Phones : conn[p].call # "written" BY <1>25, <2>1 DEF Shut
    <2>3. \A p \in Phones : conn'[p].call # "written" BY <1>25, <2>2 DEF Shut, Ended
    <2> DEFINE kept == WithoutCallsOf(Phones)
    <2>4. /\ kept \in [Askers -> Task] /\ kept[k] = task[k]
          /\ \A l \in Askers : kept[l] = task[l] \/ kept[l] = NoTask
        <3>1. task[k].at = "shut" BY <1>25 DEF Shut
        <3>2. /\ kept \in [Askers -> Task]
              /\ \A l \in Askers : kept[l] # task[l] => task[l].at = "lock" /\ kept[l] = NoTask
            BY <1>0
        <3> HIDE DEF kept
        <3> QED BY <3>1, <3>2
    <2> DEFINE t == IF task[k].want.enabled /\ running.at # "up" THEN [task[k] EXCEPT !.at = "key"]
                    ELSE IF task[k].again THEN [NoTask EXCEPT !.at = "lock"] ELSE NoTask
    <2>5. task' = [kept EXCEPT ![k] = t] BY <1>25, <2>4 DEF Shut
    <2>6. /\ t.asker \in {task[k].asker, Nobody} /\ (t.again => task[k].again)
          /\ t.at \in {"key", "lock", "off"} /\ (t.at = "lock" => task[k].again)
        OBVIOUS
    <2> HIDE DEF kept, t
    <2>7. task'[k] = t /\ \A l \in Askers \ {k} : task'[l] = task[l] \/ task'[l] = NoTask
        BY <2>4, <2>5
    <2>8. \A l \in Askers : task'[l].at \notin {"stop", "wait"} BY <2>1, <2>6, <2>7
    <2>9. task'["phone"].at = "lock" => task'["phone"].asker # Nobody
        BY <2>6, <2>7
    <2>10. \A l \in Askers \ {"phone"} : task'[l].asker = Nobody BY <2>6, <2>7
    <2>11. \A l \in Askers \ {"start"} :
              ~task'[l].again /\ (task'[l].at = "lock" => task'[l].want \in Changes)
        BY <2>6, <2>7
    <2> QED BY <2>3, <2>8, <2>9, <2>10, <2>11
<1>26. ASSUME NEW k \in Askers, FindsNoKey(k) PROVE AnswerIsAwaited'
    <2>1. \A l \in Askers \ {k} : ~Active(l) BY <1>26 DEF FindsNoKey
    <2>2. \A p \in Phones : conn[p].call # "written" BY <1>26, <2>1 DEF FindsNoKey
    <2>4. conn' = conn /\ task' = Done(k) BY <1>26 DEF FindsNoKey
    <2>5. /\ \A l \in Askers \ {k} : task'[l] = task[l]
          /\ task'[k].at = IF task[k].again THEN "lock" ELSE "off"
          /\ task'[k].asker = Nobody /\ ~task'[k].again
        BY <2>4, DoneIsIdle
    <2> QED BY <2>1, <2>2, <2>4, <2>5
<1>27. ASSUME NEW k \in Askers, FindsKey(k) PROVE AnswerIsAwaited'
    BY <1>27 DEF FindsKey, Down, At
<1>28. ASSUME NEW k \in Askers, Bind(k) PROVE AnswerIsAwaited'
    BY <1>28 DEF Bind
<1>29. ASSUME NEW k \in Askers, Install(k) PROVE AnswerIsAwaited'
    <2>1. \A l \in Askers \ {k} : ~Active(l) BY <1>29 DEF Install
    <2>2. \A p \in Phones : conn[p].call # "written" BY <1>29, <2>1 DEF Install
    <2>3. settings = task[k].want BY <1>29 DEF Install, ChangeMatches
    <2>4. conn' = conn /\ task' = Done(k) BY <1>29, <2>3 DEF Install
    <2>5. /\ \A l \in Askers \ {k} : task'[l] = task[l]
          /\ task'[k].at = IF task[k].again THEN "lock" ELSE "off"
          /\ task'[k].asker = Nobody /\ ~task'[k].again
        BY <2>4, DoneIsIdle
    <2> QED BY <2>1, <2>2, <2>4, <2>5
<1>30. ASSUME NEW k \in Askers, TakeFails(k) PROVE AnswerIsAwaited'
    BY <1>30 DEF TakeFails, NoTask
<1>31. ASSUME NEW k \in Askers, BindFails(k) PROVE AnswerIsAwaited'
    <2>1. \A l \in Askers \ {k} : ~Active(l) BY <1>31 DEF BindFails
    <2>2. \A p \in Phones : conn[p].call # "written" BY <1>31, <2>1 DEF BindFails
    <2>4. conn' = conn /\ task' = Done(k) BY <1>31 DEF BindFails
    <2>5. /\ \A l \in Askers \ {k} : task'[l] = task[l]
          /\ task'[k].at = IF task[k].again THEN "lock" ELSE "off"
          /\ task'[k].asker = Nobody /\ ~task'[k].again
        BY <2>4, DoneIsIdle
    <2> QED BY <2>1, <2>2, <2>4, <2>5
<1>32. CASE UNCHANGED vars BY <1>32 DEF vars, pairingVars, pairing, accessVars
<1> HIDE DEF AnswerIsAwaited, TypeOK, OneChange, ChangeMatches
<1> QED BY <1>1, <1>2, <1>3, <1>4, <1>5, <1>6, <1>7, <1>8, <1>9, <1>10, <1>11, <1>12, <1>13,
         <1>14, <1>15, <1>16, <1>17, <1>18, <1>19, <1>20, <1>21, <1>22, <1>23, <1>24, <1>25,
         <1>26, <1>27, <1>28, <1>29, <1>30, <1>31, <1>32, <1>33, StepsOfPairing
    DEF Next, TaskSteps, RevokeSteps, UnpairSteps

\* The steps that touch what pairing keeps.
LEMMA StepsThatPair ==
    ASSUME [Next]_vars
    PROVE  \/ PairingStep \/ RevokeWrites \/ UNCHANGED pairing
           \/ \E p \in Phones : UnpairWrites(p)
           \/ \E k \in Askers : Shut(k)
<1>1. CASE PairingSteps BY <1>1, StepsOfPairing DEF AsksForCode, PairingStep
<1>2. ASSUME NEW p \in Phones,
             \/ Dials(p) \/ Registers(p) \/ Admits(p) \/ AdmitsNobody(p) \/ Drops(p) \/ Ends(p)
             \/ Unpairs(p) \/ UnpairLoads(p) \/ UnpairCloses(p) \/ UnpairFails(p)
             \/ RevokeBegins(p) \/ PhoneAsks(p) \/ Hears(p) \/ StopsReading(p) \/ ReadsAgain(p)
      PROVE  UNCHANGED pairing
    BY <1>2 DEF Dials, Registers, Admits, AdmitsNobody, Drops, Ends, Unpairs, UnpairLoads,
           UnpairCloses, UnpairFails, RevokeBegins, PhoneAsks, Hears, StopsReading, ReadsAgain,
           pairingVars
<1>3. ASSUME RevokeLoads \/ RevokeCloses \/ RevokeFails \/ WindowAsks PROVE UNCHANGED pairing
    BY <1>3 DEF RevokeLoads, RevokeCloses, RevokeFails, WindowAsks, pairingVars
<1>4. ASSUME NEW k \in Askers,
             \/ Take(k) \/ Stop(k) \/ WaitEnds(k) \/ FindsNoKey(k) \/ FindsKey(k) \/ Bind(k)
             \/ Install(k) \/ TakeFails(k) \/ BindFails(k)
      PROVE  UNCHANGED pairing
    BY <1>4 DEF Take, Stop, WaitEnds, FindsNoKey, FindsKey, Bind, Install, TakeFails, BindFails,
           pairingVars
<1>5. CASE UNCHANGED vars BY <1>5 DEF vars, pairingVars
<1> QED BY <1>1, <1>2, <1>3, <1>4, <1>5 DEF Next, TaskSteps, RevokeSteps, UnpairSteps

\* Neither a removal nor an endpoint that stops tells a phone anything.
LEMMA StepPairing ==
    ASSUME TypeOK, WaiterIsAsked, AnswerReachesItsPhone, [Next]_vars
    PROVE  (PairingType /\ WaiterIsAsked /\ AnswerReachesItsPhone)'
<1>1. CASE PairingStep
    BY <1>1, PairingKeepsType, PairingKeepsWaiter, PairingKeepsAnswers DEF TypeOK
<1>2. CASE UNCHANGED pairing
    BY <1>2 DEF TypeOK, PairingType, WaiterIsAsked, AnswerReachesItsPhone, pairing
<1>3. CASE RevokeWrites \/ \E p \in Phones : UnpairWrites(p)
    <2>1. /\ UNCHANGED <<key, code, prompt, waiting, dial, yes, added>>
          /\ list' \subseteq Phones
        BY <1>3 DEF RevokeWrites, UnpairWrites, WriteList, TypeOK, Removal, Conn
    <2> QED BY <2>1 DEF TypeOK, PairingType, WaiterIsAsked, AnswerReachesItsPhone
<1>4. CASE \E k \in Askers : Shut(k)
    <2>1. /\ UNCHANGED <<list, key, code, prompt, waiting, yes, added>>
          /\ dial' = Hanging
        BY <1>4 DEF Shut
    <2>2. \A p \in Phones : dial[p] \in Dial BY DEF TypeOK, PairingType
    <2>3. /\ Hanging \in [Phones -> Dial]
          /\ \A p \in Phones :
                /\ Hanging[p].code = dial[p].code
                /\ Hanging[p].told = dial[p].told /\ Hanging[p].heard = dial[p].heard
        BY <2>2 DEF Hanging, Dial
    <2> QED BY <2>1, <2>3, NobodyAssumption DEF TypeOK, PairingType, WaiterIsAsked, AnswerReachesItsPhone
<1> QED BY <1>1, <1>2, <1>3, <1>4, StepsThatPair

\* What is done to a phone's connection keeps its type.
LEMMA ConnKeepsType ==
    ASSUME conn \in [Phones -> Conn]
    PROVE  \A p \in Phones :
              /\ \A c \in Conn : [conn EXCEPT ![p] = c] \in [Phones -> Conn]
              /\ NoConn \in Conn /\ [NoConn EXCEPT !.at = "hooked", !.open = TRUE] \in Conn
              /\ [conn[p] EXCEPT !.at = "registered"] \in Conn
              /\ \A b \in BOOLEAN : [conn[p] EXCEPT !.at = "served", !.open = b] \in Conn
              /\ [conn[p] EXCEPT !.open = FALSE] \in Conn
              /\ \A b \in BOOLEAN : /\ [conn[p] EXCEPT !.stalled = b] \in Conn
                                   /\ [conn[p] EXCEPT !.missed = b] \in Conn
              /\ \A m \in {"none", "asked", "written", "heard", "late"} :
                    [conn[p] EXCEPT !.call = m] \in Conn
              /\ \A l \in {"no", "load", "write", "close"} :
                    /\ [conn[p] EXCEPT !.leaving = l] \in Conn
                    /\ \A r \in SUBSET Phones :
                          /\ [conn[p] EXCEPT !.leaving = l, !.read = r] \in Conn
                          /\ [conn[p] EXCEPT !.read = r, !.leaving = l] \in Conn
<1> TAKE p \in Phones
<1>1. conn[p] \in Conn OBVIOUS
<1>2. \A c \in Conn : [conn EXCEPT ![p] = c] \in [Phones -> Conn] OBVIOUS
<1> HIDE <1>2
<1>3. NoConn \in Conn /\ [NoConn EXCEPT !.at = "hooked", !.open = TRUE] \in Conn
    BY DEF NoConn, Conn
<1>4. /\ [conn[p] EXCEPT !.at = "registered"] \in Conn
      /\ [conn[p] EXCEPT !.open = FALSE] \in Conn
      /\ \A b \in BOOLEAN : /\ [conn[p] EXCEPT !.at = "served", !.open = b] \in Conn
                           /\ [conn[p] EXCEPT !.stalled = b] \in Conn
                           /\ [conn[p] EXCEPT !.missed = b] \in Conn
    BY <1>1 DEF Conn
<1>5. \A m \in {"none", "asked", "written", "heard", "late"} : [conn[p] EXCEPT !.call = m] \in Conn
    BY <1>1 DEF Conn
<1>6. \A l \in {"no", "load", "write", "close"} :
          /\ [conn[p] EXCEPT !.leaving = l] \in Conn
          /\ \A r \in SUBSET Phones :
                /\ [conn[p] EXCEPT !.leaving = l, !.read = r] \in Conn
                /\ [conn[p] EXCEPT !.read = r, !.leaving = l] \in Conn
    BY <1>1 DEF Conn
<1> QED BY <1>2, <1>3, <1>4, <1>5, <1>6

\* Connections keep their type.
LEMMA StepConn ==
    ASSUME TypeOK, [Next]_vars
    PROVE  conn' \in [Phones -> Conn]
<1>1. conn \in [Phones -> Conn] /\ list \subseteq Phones /\ \A p \in Phones : conn[p] \in Conn
    BY DEF TypeOK, PairingType
<1> USE <1>1
<1>2. ASSUME UNCHANGED conn PROVE conn' \in [Phones -> Conn] BY <1>2
<1>3. ASSUME NEW p \in Phones, Dials(p) PROVE conn' \in [Phones -> Conn]
    BY <1>3, ConnKeepsType DEF Dials
<1>4. ASSUME NEW p \in Phones, Registers(p) PROVE conn' \in [Phones -> Conn]
    BY <1>4, ConnKeepsType DEF Registers
<1>5. ASSUME NEW p \in Phones, Drops(p) PROVE conn' \in [Phones -> Conn]
    BY <1>5, ConnKeepsType DEF Drops
<1>6. ASSUME NEW p \in Phones, Unpairs(p) PROVE conn' \in [Phones -> Conn]
    BY <1>6, ConnKeepsType DEF Unpairs
<1>7. ASSUME NEW p \in Phones, PhoneAsks(p) PROVE conn' \in [Phones -> Conn]
    BY <1>7, ConnKeepsType DEF PhoneAsks
<1>8. ASSUME NEW p \in Phones, Hears(p) PROVE conn' \in [Phones -> Conn]
    BY <1>8, ConnKeepsType DEF Hears
<1>9. ASSUME NEW p \in Phones, Ends(p) PROVE conn' \in [Phones -> Conn]
    BY <1>9, ConnKeepsType DEF Ends
<1>10. ASSUME NEW p \in Phones, Admits(p) PROVE conn' \in [Phones -> Conn]
    <2> DEFINE b == conn[p].open /\ p \in list
    <2>1. conn' = [conn EXCEPT ![p] = [conn[p] EXCEPT !.at = "served", !.open = b]]
        BY <1>10 DEF Admits, Conn
    <2>2. b \in BOOLEAN BY DEF Conn
    <2> HIDE DEF b
    <2> QED BY <2>1, <2>2, ConnKeepsType
<1>11. ASSUME NEW p \in Phones, AdmitsNobody(p) PROVE conn' \in [Phones -> Conn]
    <2>1. conn' = [conn EXCEPT ![p] = [conn[p] EXCEPT !.at = "served", !.open = FALSE]]
        BY <1>11 DEF AdmitsNobody, Conn
    <2> QED BY <2>1, ConnKeepsType
<1>12. ASSUME NEW p \in Phones, UnpairWrites(p) PROVE conn' \in [Phones -> Conn]
    <2>1. conn' = [conn EXCEPT ![p] = [conn[p] EXCEPT !.leaving = "close", !.read = {}]]
        BY <1>12 DEF UnpairWrites, Conn
    <2> QED BY <2>1, ConnKeepsType
<1>13. ASSUME NEW p \in Phones, UnpairFails(p) PROVE conn' \in [Phones -> Conn]
    <2>1. conn' = [conn EXCEPT ![p] = [conn[p] EXCEPT !.leaving = "no", !.read = {}]]
        BY <1>13 DEF UnpairFails, Conn
    <2> QED BY <2>1, ConnKeepsType
<1>14. ASSUME NEW p \in Phones, UnpairLoads(p) PROVE conn' \in [Phones -> Conn]
    <2> DEFINE l == IF p \in list THEN "write" ELSE "close"
    <2>1. conn' = [conn EXCEPT ![p] = [conn[p] EXCEPT !.read = list, !.leaving = l]]
        BY <1>14 DEF UnpairLoads, Conn
    <2>2. l \in {"no", "load", "write", "close"} OBVIOUS
    <2> HIDE DEF l
    <2> QED BY <2>1, <2>2, ConnKeepsType
<1>15. ASSUME NEW p \in Phones, UnpairCloses(p) PROVE conn' \in [Phones -> Conn]
    <2> DEFINE c == Closed({p})
    <2>1. c \in [Phones -> Conn] BY ClosedKeeps
    <2>2. conn' = [c EXCEPT ![p].leaving = "no", ![p].read = {}] BY <1>15 DEF UnpairCloses
    <2> HIDE DEF c
    <2>3. [c[p] EXCEPT !.leaving = "no", !.read = {}] \in Conn
        <3>1. c[p] \in Conn BY <2>1
        <3> QED BY <3>1 DEF Conn
    <2>4. conn' = [c EXCEPT ![p] = [c[p] EXCEPT !.leaving = "no", !.read = {}]]
        BY <2>1, <2>2 DEF Conn
    <2> QED BY <2>1, <2>3, <2>4
<1>16. CASE RevokeCloses
    <2>1. CASE removal.phone \in Phones
        <3> DEFINE b == conn[removal.phone].at = "served"
        <3>1. \/ conn' = Closed({removal.phone})
              \/ conn' = [conn EXCEPT ![removal.phone] = [conn[removal.phone] EXCEPT !.missed = b]]
            BY <1>16, <2>1 DEF RevokeCloses
        <3>2. b \in BOOLEAN OBVIOUS
        <3> HIDE DEF b
        <3>3. [conn EXCEPT ![removal.phone] = [conn[removal.phone] EXCEPT !.missed = b]]
                  \in [Phones -> Conn]
            BY <2>1, <3>2, ConnKeepsType
        <3>4. Closed({removal.phone}) \in [Phones -> Conn] BY ClosedKeeps
        <3> QED BY <3>1, <3>3, <3>4
    <2>2. CASE removal.phone \notin Phones
        BY <1>16, <2>2, ClosedKeeps DEF RevokeCloses
    <2> QED BY <2>1, <2>2
<1>25. ASSUME NEW p \in Phones, StopsReading(p) \/ ReadsAgain(p) PROVE conn' \in [Phones -> Conn]
    BY <1>25, ConnKeepsType DEF StopsReading, ReadsAgain
<1>17. ASSUME NEW k \in Askers, Take(k) PROVE conn' \in [Phones -> Conn]
    BY <1>17, ConnKeepsType DEF Take
<1>18. ASSUME NEW k \in Askers, WaitEnds(k) PROVE conn' \in [Phones -> Conn]
    <2>1. CASE task[k].asker \in Phones
        <3> DEFINE a == task[k].asker
                   m == IF conn[a].call = "written" THEN "late" ELSE conn[a].call
        <3>1. m \in {"none", "asked", "written", "heard", "late"} BY <2>1 DEF Conn
        <3>2. conn' = [conn EXCEPT ![a] = [conn[a] EXCEPT !.call = m]] BY <1>18, <2>1 DEF WaitEnds
        <3> HIDE DEF m
        <3> QED BY ConnKeepsType, <2>1, <3>1, <3>2
    <2>2. CASE task[k].asker \notin Phones
        BY <1>18, <2>2 DEF WaitEnds
    <2> QED BY <2>1, <2>2
<1>19. ASSUME NEW k \in Askers, TakeFails(k) PROVE conn' \in [Phones -> Conn]
    BY <1>19, ConnKeepsType DEF TakeFails
<1>20. ASSUME NEW k \in Askers, Shut(k) PROVE conn' \in [Phones -> Conn]
    BY <1>20, ConnKeepsType DEF Shut, Ended
<1>21. ASSUME NEW k \in Askers, \/ Stop(k) \/ FindsNoKey(k) \/ FindsKey(k) \/ Bind(k)
                                   \/ Install(k) \/ BindFails(k)
       PROVE  UNCHANGED conn
    BY <1>21 DEF Stop, FindsNoKey, FindsKey, Bind, Install, BindFails
<1>22. ASSUME NEW p \in Phones, RevokeBegins(p) PROVE UNCHANGED conn BY <1>22 DEF RevokeBegins
<1>23. CASE RevokeLoads \/ RevokeWrites \/ RevokeFails \/ WindowAsks \/ UNCHANGED vars
    BY <1>23, <1>2 DEF RevokeLoads, RevokeWrites, RevokeFails, WindowAsks, vars, accessVars
<1>24. CASE PairingSteps BY <1>24, <1>2, StepsOfPairing DEF AsksForCode
<1> HIDE <1>1
<1> QED BY <1>2, <1>3, <1>4, <1>5, <1>6, <1>7, <1>8, <1>9, <1>10, <1>11, <1>12, <1>13, <1>14,
         <1>15,
         <1>16, <1>17, <1>18, <1>19, <1>20, <1>21, <1>22, <1>23, <1>24, <1>25
    DEF Next, TaskSteps, RevokeSteps, UnpairSteps

\* What is done to a change under way keeps its type.
LEMMA TaskKeepsType ==
    ASSUME task \in [Askers -> Task]
    PROVE  /\ \A k \in Askers : \A t \in Task : [task EXCEPT ![k] = t] \in [Askers -> Task]
           /\ NoTask \in Task /\ [NoTask EXCEPT !.at = "lock"] \in Task
           /\ \A want \in Changes : [NoTask EXCEPT !.at = "lock", !.want = want] \in Task
           /\ \A p \in Phones, want \in Changes :
                 [NoTask EXCEPT !.at = "lock", !.asker = p, !.want = want] \in Task
           /\ \A k \in Askers :
                 /\ [task[k] EXCEPT !.again = TRUE] \in Task
                 /\ \A at \in {"shut", "key", "bind"} : [task[k] EXCEPT !.at = at] \in Task
                 /\ \A p \in Phones \cup {Nobody} :
                       [task[k] EXCEPT !.at = "stop", !.asker = p] \in Task
                 /\ \A at \in {"wait", "shut"}, e \in Endpoints \cup {0}, want \in Changes :
                       [task[k] EXCEPT !.at = at, !.ep = e, !.want = want] \in Task
                 /\ \A want \in Changes : [task[k] EXCEPT !.at = "key", !.want = want] \in Task
                 /\ \A e \in Endpoints : [task[k] EXCEPT !.at = "install", !.ep = e] \in Task
<1>1. \A k \in Askers : task[k] \in Task OBVIOUS
<1>2. \A k \in Askers : \A t \in Task : [task EXCEPT ![k] = t] \in [Askers -> Task] OBVIOUS
<1>3. NoTask \in Task /\ [NoTask EXCEPT !.at = "lock"] \in Task
    BY DEF NoTask, NoChange, Task
<1>4. \A want \in Changes :
         /\ [NoTask EXCEPT !.at = "lock", !.want = want] \in Task
         /\ \A p \in Phones : [NoTask EXCEPT !.at = "lock", !.asker = p, !.want = want] \in Task
    BY DEF NoTask, Changes, Task
<1>5. ASSUME NEW k \in Askers
      PROVE  /\ [task[k] EXCEPT !.again = TRUE] \in Task
             /\ \A at \in {"shut", "key", "bind"} : [task[k] EXCEPT !.at = at] \in Task
             /\ \A p \in Phones \cup {Nobody} :
                   [task[k] EXCEPT !.at = "stop", !.asker = p] \in Task
             /\ \A e \in Endpoints : [task[k] EXCEPT !.at = "install", !.ep = e] \in Task
    BY <1>1 DEF Task
<1>6. ASSUME NEW k \in Askers
      PROVE  /\ \A at \in {"wait", "shut"}, e \in Endpoints \cup {0}, want \in Changes :
                   [task[k] EXCEPT !.at = at, !.ep = e, !.want = want] \in Task
             /\ \A want \in Changes : [task[k] EXCEPT !.at = "key", !.want = want] \in Task
    BY <1>1 DEF Task, Changes
<1> QED BY <1>2, <1>3, <1>4, <1>5, <1>6

\* Changes under way keep their type.
LEMMA StepTask ==
    ASSUME TypeOK, OneChange, ChangeMatches, AnswerIsAwaited, [Next]_vars
    PROVE  task' \in [Askers -> Task]
<1>1. /\ task \in [Askers -> Task] /\ settings \in Changes
      /\ running.ep \in Endpoints \cup {0}
      /\ \A k \in Askers : task[k] \in Task
    BY DEF TypeOK, Endpoint
<1>2. ASSUME UNCHANGED task PROVE task' \in [Askers -> Task] BY <1>1, <1>2
<1>3. CASE AsksForCode
    <2> DEFINE t == IF task["start"].at \in {"off", "lock"} THEN [NoTask EXCEPT !.at = "lock"]
                    ELSE [task["start"] EXCEPT !.again = TRUE]
    <2>1. "start" \in Askers BY DEF Askers
    <2>2. t \in Task BY <1>1, <2>1, TaskKeepsType
    <2>3. task' = [task EXCEPT !["start"] = t] BY <1>1, <1>3, <2>1 DEF AsksForCode
    <2> HIDE DEF t
    <2> QED BY <1>1, <2>1, <2>2, <2>3
<1>4. ASSUME NEW dropped PROVE WithoutCallsOf(dropped) \in [Askers -> Task]
    BY <1>1, CallsDropped
<1>5. ASSUME NEW p \in Phones, Ends(p) PROVE task' \in [Askers -> Task] BY <1>4, <1>5 DEF Ends
<1>6. ASSUME NEW p \in Phones, PhoneAsks(p) PROVE task' \in [Askers -> Task]
    <2>1. "phone" \in Askers BY DEF Askers
    <2>2. PICK want \in Changes : task' = [task EXCEPT !["phone"] =
                                     [NoTask EXCEPT !.at = "lock", !.asker = p, !.want = want]]
        BY <1>6 DEF PhoneAsks
    <2>3. [NoTask EXCEPT !.at = "lock", !.asker = p, !.want = want] \in Task
        BY <1>1, TaskKeepsType
    <2> QED BY <1>1, <2>1, <2>2, <2>3
<1>7. CASE WindowAsks
    <2>1. "window" \in Askers BY DEF Askers
    <2> QED BY <1>1, <1>7, <2>1, TaskKeepsType DEF WindowAsks
<1>8. ASSUME NEW k \in Askers, Take(k) PROVE task' \in [Askers -> Task]
    <2> DEFINE a == IF k = "phone" /\ ClosesConnections(task[k].want) THEN task[k].asker ELSE Nobody
    <2>1. a \in Phones \cup {Nobody} BY <1>1 DEF Task
    <2>2. task' = [task EXCEPT ![k].at = "stop", ![k].asker = a] BY <1>8 DEF Take
    <2> HIDE DEF a
    <2>3. [task[k] EXCEPT !.at = "stop", !.asker = a] \in Task BY <1>1, <2>1, TaskKeepsType
    <2>4. task' = [task EXCEPT ![k] = [task[k] EXCEPT !.at = "stop", !.asker = a]]
        BY <1>1, <2>2 DEF Task
    <2> QED BY <1>1, <2>3, <2>4
<1>9. ASSUME NEW k \in Askers, TakeFails(k) PROVE task' \in [Askers -> Task]
    BY <1>1, <1>9, TaskKeepsType DEF TakeFails
<1>10. ASSUME NEW k \in Askers PROVE Done(k) \in [Askers -> Task] BY <1>1, DoneIsIdle
<1>11. ASSUME NEW k \in Askers, Stop(k) PROVE task' \in [Askers -> Task]
    <2>1. CASE ClosesConnections(settings)
        <3> DEFINE at == IF task[k].asker # Nobody THEN "wait" ELSE "shut"
        <3>1. at \in {"wait", "shut"} OBVIOUS
        <3>2. task' = [task EXCEPT ![k].at = at, ![k].ep = running.ep, ![k].want = settings]
            BY <1>11, <2>1 DEF Stop
        <3> HIDE DEF at
        <3> DEFINE t == [task[k] EXCEPT !.at = at, !.ep = running.ep, !.want = settings]
        <3>3. t \in Task BY <1>1, <3>1, TaskKeepsType
        <3>4. task' = [task EXCEPT ![k] = t] BY <1>1, <3>2 DEF Task
        <3> HIDE DEF t
        <3> QED BY <1>1, <3>3, <3>4
    <2>2. CASE ~ClosesConnections(settings) /\ (running.at = "up" \/ ~settings.enabled)
        BY <1>10, <1>11, <2>2 DEF Stop
    <2>3. CASE ~ClosesConnections(settings) /\ running.at # "up" /\ settings.enabled
        <3>1. task' = [task EXCEPT ![k].at = "key", ![k].want = settings] BY <1>11, <2>3 DEF Stop
        <3> DEFINE t == [task[k] EXCEPT !.at = "key", !.want = settings]
        <3>2. t \in Task BY <1>1, TaskKeepsType
        <3>3. task' = [task EXCEPT ![k] = t] BY <1>1, <3>1 DEF Task
        <3> HIDE DEF t
        <3> QED BY <1>1, <3>2, <3>3
    <2> QED BY <2>1, <2>2, <2>3
<1>12. ASSUME NEW k \in Askers, NEW at \in {"shut", "key", "bind"}, task' = At(k, at)
       PROVE  task' \in [Askers -> Task]
    <2>1. [task[k] EXCEPT !.at = at] \in Task BY <1>1, TaskKeepsType
    <2>2. task' = [task EXCEPT ![k] = [task[k] EXCEPT !.at = at]] BY <1>12 DEF At
    <2> QED BY <1>1, <2>1, <2>2
<1>13. ASSUME NEW k \in Askers, WaitEnds(k) \/ FindsKey(k) PROVE task' \in [Askers -> Task]
    BY <1>12, <1>13 DEF WaitEnds, FindsKey
<1>14. ASSUME NEW k \in Askers, Shut(k) PROVE task' \in [Askers -> Task]
    <2> DEFINE kept == WithoutCallsOf(Phones)
    <2>1. kept \in [Askers -> Task] BY <1>4
    <2>2. kept[k] = task[k]
        <3>1. task[k].at = "shut" BY <1>14 DEF Shut
        <3> QED BY <1>1, <3>1, CallsDropped
    <2> DEFINE t == IF task[k].want.enabled /\ running.at # "up" THEN [task[k] EXCEPT !.at = "key"]
                    ELSE IF task[k].again THEN [NoTask EXCEPT !.at = "lock"] ELSE NoTask
    <2>3. t \in Task BY <1>1, TaskKeepsType
    <2>4. task' = [kept EXCEPT ![k] = t] BY <1>14, <2>1, <2>2 DEF Shut
    <2> HIDE DEF kept, t
    <2> QED BY <2>1, <2>3, <2>4
<1>15. ASSUME NEW k \in Askers, FindsNoKey(k) \/ BindFails(k) PROVE task' \in [Askers -> Task]
    BY <1>10, <1>15 DEF FindsNoKey, BindFails
<1>16. ASSUME NEW k \in Askers, Bind(k) PROVE task' \in [Askers -> Task]
    <2> DEFINE ep == CHOOSE e \in Endpoints \ bound : TRUE
    <2>1. ep \in Endpoints /\ task' = [task EXCEPT ![k].at = "install", ![k].ep = ep]
        BY <1>16 DEF Bind
    <2> HIDE DEF ep
    <2> DEFINE t == [task[k] EXCEPT !.at = "install", !.ep = ep]
    <2>2. t \in Task BY <1>1, <2>1, TaskKeepsType
    <2>3. task' = [task EXCEPT ![k] = t] BY <1>1, <2>1 DEF Task
    <2> HIDE DEF t
    <2> QED BY <1>1, <2>2, <2>3
<1>17. ASSUME NEW k \in Askers, Install(k) PROVE task' \in [Askers -> Task]
    <2>1. settings = task[k].want BY <1>17 DEF Install, ChangeMatches
    <2> QED BY <1>10, <1>17, <2>1 DEF Install
<1>18. ASSUME NEW p \in Phones,
              \/ Dials(p) \/ Registers(p) \/ Admits(p) \/ AdmitsNobody(p) \/ Drops(p)
              \/ Unpairs(p) \/ UnpairLoads(p) \/ UnpairWrites(p) \/ UnpairCloses(p) \/ UnpairFails(p)
              \/ RevokeBegins(p) \/ Hears(p) \/ StopsReading(p) \/ ReadsAgain(p)
       PROVE  UNCHANGED task
    BY <1>18 DEF Dials, Registers, Admits, AdmitsNobody, Drops, Unpairs, UnpairLoads, UnpairWrites,
           UnpairCloses, UnpairFails, RevokeBegins, Hears, StopsReading, ReadsAgain
<1>19. CASE RevokeLoads \/ RevokeWrites \/ RevokeCloses \/ RevokeFails \/ UNCHANGED vars
    BY <1>19, <1>2 DEF RevokeLoads, RevokeWrites, RevokeCloses, RevokeFails, vars, accessVars
<1>20. CASE PairingSteps BY <1>20, <1>2, <1>3, StepsOfPairing
<1> QED BY <1>2, <1>5, <1>6, <1>7, <1>8, <1>9, <1>11, <1>13, <1>14, <1>15, <1>16, <1>17, <1>18,
         <1>19, <1>20
    DEF Next, TaskSteps, RevokeSteps, UnpairSteps

\* Types are kept by every step.
LEMMA StepType ==
    ASSUME TypeOK, OneChange, ChangeMatches, AnswerIsAwaited, GoneIsOffTheList, PairingType',
           [Next]_vars
    PROVE  TypeOK'
<1> DEFINE Rest == /\ settings \in Changes /\ running \in Endpoint /\ bound \subseteq Endpoints
                      /\ gone \subseteq Phones /\ removal \in Removal
<1>1. Rest /\ list \subseteq Phones /\ list' \subseteq Phones
    BY DEF TypeOK, PairingType
<1>2. \A k \in Askers : task[k].ep \in Endpoints \cup {0} BY DEF TypeOK, Task
<1>3. \A at \in {"off", "nokey", "failed", "starting"} : Down(at) \in Endpoint BY DEF Down, Endpoint
<1>4. NoRemoval \in Removal BY DEF NoRemoval, Removal
<1>5. ASSUME UNCHANGED <<settings, running, bound, removal>>, gone' \subseteq Phones PROVE Rest'
    BY <1>1, <1>5
<1>6. ASSUME PairingSteps PROVE Rest'
    <2>1. UNCHANGED <<settings, running, bound, removal>> /\ (gone' = gone \/ gone' = gone \ list')
        BY <1>6, StepsOfPairing DEF AsksForCode
    <2> QED BY <1>1, <1>5, <2>1
<1>7. ASSUME NEW p \in Phones,
             \/ Dials(p) \/ Registers(p) \/ Admits(p) \/ AdmitsNobody(p) \/ Drops(p) \/ Ends(p)
             \/ Unpairs(p) \/ UnpairLoads(p) \/ UnpairFails(p) \/ PhoneAsks(p) \/ Hears(p)
             \/ StopsReading(p) \/ ReadsAgain(p)
      PROVE  UNCHANGED <<settings, running, bound, removal, gone>>
    BY <1>7 DEF Dials, Registers, Admits, AdmitsNobody, Drops, Ends, Unpairs, UnpairLoads,
           UnpairFails, PhoneAsks, Hears, StopsReading, ReadsAgain
<1>8. ASSUME NEW p \in Phones, UnpairWrites(p) \/ UnpairCloses(p) PROVE Rest'
    <2>1. UNCHANGED <<settings, running, bound, removal>>
        BY <1>8 DEF UnpairWrites, UnpairCloses
    <2>2. gone' \subseteq Phones BY <1>1, <1>8 DEF UnpairWrites, UnpairCloses, WriteList
    <2> QED BY <1>5, <2>1, <2>2
<1>9. ASSUME NEW p \in Phones, RevokeBegins(p) PROVE Rest'
    BY <1>1, <1>9 DEF RevokeBegins, Removal
<1>10. ASSUME RevokeLoads PROVE Rest'
    <2>1. removal' \in Removal BY <1>1, <1>10 DEF RevokeLoads, Removal
    <2> QED BY <1>1, <1>10, <2>1 DEF RevokeLoads
<1>11. ASSUME RevokeWrites PROVE Rest'
    <2>1. removal' \in Removal BY <1>1, <1>11 DEF RevokeWrites, Removal
    <2>2. UNCHANGED <<settings, running, bound>> /\ gone' \subseteq Phones
        BY <1>1, <1>11 DEF RevokeWrites, WriteList
    <2> QED BY <1>1, <2>1, <2>2
<1>12. ASSUME RevokeCloses PROVE Rest'
    <2>1. removal.phone \in Phones \cup {Nobody} BY <1>1 DEF Removal
    <2>2. removal' \in Removal /\ UNCHANGED <<settings, running, bound>>
        BY <1>4, <1>12 DEF RevokeCloses
    <2>3. gone' = gone \cup ({removal.phone} \ list)
        BY <1>12 DEF RevokeCloses
    <2>4. removal.phone # Nobody BY <1>12 DEF RevokeCloses, GoneIsOffTheList
    <2> QED BY <1>1, <2>1, <2>2, <2>3, <2>4
<1>13. ASSUME RevokeFails PROVE Rest'
    BY <1>1, <1>4, <1>13 DEF RevokeFails
<1>14. ASSUME WindowAsks \/ UNCHANGED vars PROVE Rest'
    BY <1>1, <1>14 DEF WindowAsks, vars, accessVars
<1>15. ASSUME NEW k \in Askers, Take(k) PROVE Rest'
    <2>1. settings' \in Changes BY <1>1, <1>15 DEF Take, AnswerIsAwaited
    <2> QED BY <1>1, <1>15, <2>1 DEF Take
<1>16. ASSUME NEW k \in Askers,
              Stop(k) \/ FindsNoKey(k) \/ FindsKey(k) \/ BindFails(k)
       PROVE  Rest'
    <2>1. \/ running' = running
          \/ \E at \in {"off", "nokey", "failed", "starting"} : running' = Down(at)
        BY <1>16 DEF Stop, FindsNoKey, FindsKey, BindFails
    <2>2. UNCHANGED <<settings, bound, removal, gone>>
        BY <1>16 DEF Stop, FindsNoKey, FindsKey, BindFails
    <2> QED BY <1>1, <1>3, <2>1, <2>2
<1>17. ASSUME NEW k \in Askers, Install(k) PROVE Rest'
    <2>1. [at |-> "up", ep |-> task[k].ep, relay |-> settings.relay] \in Endpoint
        BY <1>1, <1>2 DEF Endpoint, Changes
    <2>2. running' = Down("off") \/ running' = [at |-> "up", ep |-> task[k].ep, relay |-> settings.relay]
        BY <1>17 DEF Install
    <2> QED BY <1>1, <1>3, <1>17, <2>1, <2>2 DEF Install
<1>18. ASSUME NEW k \in Askers, WaitEnds(k) \/ TakeFails(k) PROVE Rest'
    BY <1>1, <1>18 DEF WaitEnds, TakeFails
<1>19. ASSUME NEW k \in Askers, Bind(k) \/ Shut(k) PROVE Rest'
    <2>1. bound' \subseteq Endpoints BY <1>1, <1>19 DEF Bind, Shut
    <2> QED BY <1>1, <1>19, <2>1 DEF Bind, Shut
<1>20. Rest'
    <2> HIDE DEF Rest
    <2>1. ASSUME UNCHANGED <<settings, running, bound, removal, gone>> PROVE Rest'
        BY <1>1, <2>1 DEF Rest
    <2> QED BY <1>6, <1>7, <1>8, <1>9, <1>10, <1>11, <1>12, <1>13, <1>14, <1>15, <1>16, <1>17, <1>18,
             <1>19, <2>1
        DEF Next, TaskSteps, RevokeSteps, UnpairSteps
<1> QED BY <1>20, StepConn, StepTask DEF TypeOK

\* At launch nothing listens, and one start is due.
LEMMA InitIInv == Init => IInv
<1> SUFFICES ASSUME Init PROVE IInv
    OBVIOUS
<1>1. /\ waiting = Nobody /\ yes = NoYes /\ removal = NoRemoval /\ gone = {} /\ bound = {}
      /\ running = Down("off") /\ list \subseteq Phones
      /\ code = [n |-> 0, burnt |-> FALSE, expired |-> FALSE]
      /\ \A p \in Phones : dial[p] = NoDial /\ conn[p] = NoConn
      /\ \A k \in Askers : task[k] = IF k = "start" THEN [NoTask EXCEPT !.at = "lock"] ELSE NoTask
    BY DEF Init, PairingInit
<1>2. /\ dial = [p \in Phones |-> NoDial] /\ conn = [p \in Phones |-> NoConn] /\ key \in BOOLEAN
      /\ prompt = Nobody /\ settings \in [enabled : BOOLEAN, relay : {FirstRelay}]
      /\ task = [k \in Askers |-> IF k = "start" THEN [NoTask EXCEPT !.at = "lock"] ELSE NoTask]
    BY DEF Init, PairingInit
<1>3. TypeOK
    <2>1. NoDial \in Dial BY DEF NoDial, Dial, Messages
    <2>2. PairingType BY <1>1, <1>2, <2>1 DEF PairingType, NoYes
    <2>3. NoTask \in Task /\ [NoTask EXCEPT !.at = "lock"] \in Task BY DEF NoTask, NoChange, Task
    <2>4. NoConn \in Conn BY DEF NoConn, Conn
    <2>5. settings \in Changes BY <1>2, EndpointAssumption DEF Changes
    <2>6. running \in Endpoint BY <1>1 DEF Down, Endpoint
    <2>7. removal \in Removal BY <1>1 DEF NoRemoval, Removal
    <2> QED BY <1>1, <1>2, <2>2, <2>3, <2>4, <2>5, <2>6, <2>7 DEF TypeOK
<1>4. WaiterIsAsked /\ AnswerReachesItsPhone
    BY <1>1 DEF WaiterIsAsked, AnswerReachesItsPhone, NoDial, NoYes
<1>5. GoneIsOffTheList /\ RemovedIsShutOut BY <1>1 DEF GoneIsOffTheList, RemovedIsShutOut, NoRemoval
<1>6. \A k \in Askers : task[k].at = IF k = "start" THEN "lock" ELSE "off" BY <1>1 DEF NoTask
<1>7. OneChange /\ StartIsTried BY <1>6 DEF OneChange, StartIsTried, Active, Askers
<1>8. ChangeMatches BY <1>1, <1>6 DEF ChangeMatches, Active, Listening, Fits, Down
<1>9. AnswerIsAwaited
    <2>1. \A k \in Askers : task[k].asker = Nobody /\ ~task[k].again BY <1>1 DEF NoTask
    <2> QED BY <1>1, <1>6, <2>1 DEF AnswerIsAwaited, Askers, NoConn
<1> QED BY <1>3, <1>4, <1>5, <1>7, <1>8, <1>9 DEF IInv

\* One lemma above for each part.
LEMMA StepIInv == IInv /\ [Next]_vars => IInv'
<1> SUFFICES ASSUME IInv, [Next]_vars PROVE IInv'
    OBVIOUS
<1>1. (PairingType /\ WaiterIsAsked /\ AnswerReachesItsPhone)' BY StepPairing DEF IInv
<1>2. TypeOK' BY <1>1, StepType DEF IInv
<1>3. (GoneIsOffTheList /\ RemovedIsShutOut)' BY StepGone DEF IInv
<1>4. (OneChange /\ ChangeMatches)' BY StepChange DEF IInv
<1>5. StartIsTried' BY StepStart DEF IInv
<1>6. AnswerIsAwaited' BY StepAwaited DEF IInv
<1> QED BY <1>1, <1>2, <1>3, <1>4, <1>5, <1>6 DEF IInv

\* An endpoint is stopped when no written answer is on its way: only Shut does
\* that, and a call is written only while its change holds the lock before that.
LEMMA StepHears ==
    ASSUME IInv, [Next]_vars, bound \ bound' # {}
    PROVE  \A p \in Phones : conn[p].call # "written"
<1>1. ASSUME NEW k \in Askers, Shut(k) PROVE \A p \in Phones : conn[p].call # "written"
    <2>1. "phone" \in Askers /\ task[k].at = "shut" BY <1>1 DEF Shut, Askers
    <2>2. task["phone"].at \notin {"stop", "wait"}
        BY <2>1 DEF IInv, OneChange, Active
    <2> QED BY <2>2 DEF IInv, AnswerIsAwaited
<1>2. ASSUME NEW p \in Phones,
             \/ Dials(p) \/ Registers(p) \/ Admits(p) \/ AdmitsNobody(p) \/ Drops(p) \/ Ends(p)
             \/ Unpairs(p) \/ UnpairLoads(p) \/ UnpairWrites(p) \/ UnpairCloses(p) \/ UnpairFails(p)
             \/ RevokeBegins(p) \/ PhoneAsks(p) \/ Hears(p) \/ StopsReading(p) \/ ReadsAgain(p)
      PROVE  bound' = bound
    BY <1>2 DEF Dials, Registers, Admits, AdmitsNobody, Drops, Ends, Unpairs, UnpairLoads,
           UnpairWrites, UnpairCloses, UnpairFails, RevokeBegins, PhoneAsks, Hears, StopsReading,
           ReadsAgain
<1>3. ASSUME RevokeLoads \/ RevokeWrites \/ RevokeCloses \/ RevokeFails \/ WindowAsks \/ UNCHANGED vars
      PROVE  bound' = bound
    BY <1>3 DEF RevokeLoads, RevokeWrites, RevokeCloses, RevokeFails, WindowAsks, vars, accessVars
<1>4. ASSUME NEW k \in Askers,
             \/ Take(k) \/ Stop(k) \/ WaitEnds(k) \/ FindsNoKey(k) \/ FindsKey(k) \/ Bind(k)
             \/ Install(k) \/ TakeFails(k) \/ BindFails(k)
      PROVE  bound \subseteq bound'
    BY <1>4 DEF Take, Stop, WaitEnds, FindsNoKey, FindsKey, Bind, Install, TakeFails, BindFails
<1>5. CASE PairingSteps
    <2>1. bound' = bound BY <1>5, StepsOfPairing DEF AsksForCode
    <2> QED BY <2>1
<1> QED BY <1>1, <1>2, <1>3, <1>4, <1>5 DEF Next, TaskSteps, RevokeSteps, UnpairSteps

\* Every reachable state satisfies the inductive invariant.
THEOREM Invariant == Spec => []IInv
BY InitIInv, StepIInv, PTL DEF Spec

\* The list, the code, the prompt, the switch, the endpoint and the connections
\* keep their shape (Pairing, Running, Settings, Live).
THEOREM TypeCorrect == Spec => []TypeOK
<1>1. IInv => TypeOK BY DEF IInv
<1> QED BY <1>1, Invariant, PTL

\* The prompt's answer reaches the phone that caused it (handshake.rs, Shared.tell).
THEOREM AnswersReachTheirPhone == Spec => []AnswerReachesItsPhone
<1>1. IInv => AnswerReachesItsPhone BY DEF IInv
<1> QED BY <1>1, Invariant, PTL

\* A phone that was removed is served no more until it is on the list again
\* (the second check of endpoint.rs, Live.close).
THEOREM RemovedStaysOut == Spec => []RemovedIsShutOut
<1>1. IInv => RemovedIsShutOut BY DEF IInv
<1> QED BY <1>1, Invariant, PTL

\* Between changes what listens is what the switch says (reconcile_locked).
THEOREM SwitchIsObeyed == Spec => []EndpointMatchesSwitch
<1>1. ASSUME IInv PROVE EndpointMatchesSwitch
    <2> SUFFICES ASSUME \A k \in Askers : task[k].at \in {"off", "lock"}
                 PROVE  /\ bound = Listening /\ Fits
                        /\ settings.enabled /\ (\A k \in Askers : task[k].at = "off") =>
                              running.at \in {"up", "failed"} \/ (running.at = "nokey" /\ ~key)
        BY DEF EndpointMatchesSwitch, Listening, Fits
    <2>1. \A k \in Askers : ~Active(k) BY DEF Active
    <2>2. bound = Listening /\ Fits BY <1>1, <2>1 DEF IInv, ChangeMatches
    <2>3. "start" \in Askers BY DEF Askers
    <2> QED BY <1>1, <2>1, <2>2, <2>3 DEF IInv, StartIsTried
<1> QED BY <1>1, Invariant, PTL

\* No endpoint is stopped over a phone whose written answer it has not heard
\* (patch_locked, WRITTEN_CEILING).
THEOREM AskersAreAnswered == Spec => AskerHearsFirst
<1> DEFINE Heard == bound \ bound' # {} => \A p \in Phones : ~(conn[p].open /\ conn[p].call = "written")
<1>1. IInv /\ [Next]_vars => [Heard]_vars BY StepHears
<1> QED BY <1>1, Invariant, PTL DEF Spec, AskerHearsFirst

=============================================================================
