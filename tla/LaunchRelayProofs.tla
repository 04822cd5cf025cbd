-------------------------- MODULE LaunchRelayProofs --------------------------
(***************************************************************************)
(* Proofs about LaunchRelay, for any launches, creators, keys, requests    *)
(* and prepares.  What TLC checks speaks of transactions and rows; IInv    *)
(* adds what a request knows between two of its awaits: that it holds its  *)
(* reservation, that its transaction is out, that its hash is on the       *)
(* record.                                                                 *)
(***************************************************************************)
EXTENDS LaunchRelay, TLAPS

USE DEF rows, chain, Answers

\* A request that got past Reserve, and from then on one that has a transaction.
Holds(r) ==
    relay[r].pc \in {"gate", "broadcast", "submitted", "complete", "failed"} \/ tx[r] # "none"

\* A request has a launch and a key once it began; only then can it have a transaction.
Begun ==
    \A r \in Requests :
        /\ relay[r].pc # "idle" => relay[r].launch \in Launches /\ relay[r].key \in Keys
        /\ relay[r].pc \in {"idle", "lookup", "reserve", "gate", "broadcast"} => tx[r] = "none"
        /\ relay[r].pc \in {"submitted", "complete"} => tx[r] # "none"
        /\ receipt[r] # "none" => tx[r] # "none"
        /\ receipt[r] \in {"success", "reverted"} =>
              tx[r] = receipt[r] \/ relay[r].launch \in reorged

\* A reservation names a launch of its creator.
ReservationsNamed ==
    \A s \in Creators \X Keys : resv[s].state # "none" =>
        resv[s].launch \in Launches /\ CreatorOf[resv[s].launch] = s[1]

\* Whoever holds a reservation made it, for its own launch, and is alone.
OneHolder ==
    /\ \A r \in Requests : Holds(r) =>
         resv[Slot(r)].state # "none" /\ resv[Slot(r)].launch = relay[r].launch
    /\ \A r, s \in Requests : Holds(r) /\ Holds(s) /\ Slot(r) = Slot(s) => r = s

\* A request about to complete its reservation has written a hash to the record.
HashWritten ==
    \A r \in Requests : relay[r].pc = "complete" => record[relay[r].launch].tx # None

\* FAILED has a cause: a transaction that reverted, a reorganisation, a relay that ended
\* in an error, or a prepare that writes a stale FAILED back.
FailedCause(l) ==
    \/ \E r \in Requests : tx[r] = "reverted" /\ relay[r].launch = l
    \/ l \in reorged
    \/ Erred(l)
    \/ WroteBack(l, "FAILED")

FailedHasCause == \A l \in Launches : record[l].state = "FAILED" => FailedCause(l)

\* A launch whose hash is on the record is seen as sent, unless something reopened it.
SentUnlessReopened ==
    \A l \in Launches :
        (\E r \in Requests : /\ relay[r].pc = "complete" \/ relay[r].outcome = "SUBMITTED"
                             /\ relay[r].launch = l) =>
            record[l].state \in Sent \/ Reopened(l)

\* A prepare names a launch once it has read the record, and is found stale when it saves.
PreparesPlaced ==
    \A p \in Prepares :
        /\ prep[p].pc = "idle" => prep[p].launch = None
        /\ prep[p].pc = "save" => prep[p].launch \in Launches
        /\ prep[p].stale => prep[p].pc = "done"

\* An answer is the end of a request.
AnswersFinal ==
    \A r \in Requests : relay[r].outcome # None => relay[r].pc = "done"

IInv ==
    /\ TypeOK /\ Begun /\ ReservationsNamed /\ OneHolder /\ HashWritten
    /\ RecordedTxIsReal /\ CompletedHasTransaction
    /\ FailedHasCause /\ SentUnlessReopened /\ PreparesPlaced /\ AnswersFinal

\* The type of the requests.
Request == [pc : RelayPc, launch : Launches \cup {None}, key : Keys \cup {None},
            outcome : Outcomes, answer : Launches \cup {None}]
RelayTable == [Requests -> Request]

\* The initial state satisfies the invariant.
LEMMA InitHolds == Init => IInv
<1> SUFFICES ASSUME Init PROVE IInv
  OBVIOUS
<1> USE LaunchAssumption DEF Init
<1>1. TypeOK
  BY DEF TypeOK, RecordState, Outcomes, RelayPc
<1>2. \A s \in Creators \X Keys : resv[s].state = "none"
  OBVIOUS
<1>3. /\ Begun /\ HashWritten /\ AnswersFinal /\ FailedHasCause /\ SentUnlessReopened
      /\ PreparesPlaced
  BY DEF Begun, HashWritten, AnswersFinal, FailedHasCause, SentUnlessReopened, PreparesPlaced
<1>4. ReservationsNamed /\ CompletedHasTransaction
  BY <1>2 DEF ReservationsNamed, CompletedHasTransaction
<1>5. OneHolder /\ RecordedTxIsReal
  BY DEF OneHolder, Holds, RecordedTxIsReal
<1> QED BY <1>1, <1>3, <1>4, <1>5 DEF IInv

\* What FAILED and a reopened launch have as their cause is never undone, except that a
\* reorganisation takes the place of a revert.
LEMMA CausesStay ==
    ASSUME reorged \subseteq reorged',
           \A r \in Requests : tx[r] = "reverted" =>
               \/ tx'[r] = "reverted" /\ relay'[r].launch = relay[r].launch
               \/ relay[r].launch \in reorged',
           \A r \in Requests : relay[r].outcome \in Errors =>
               relay'[r].outcome \in Errors /\ relay'[r].launch = relay[r].launch,
           \A p \in Prepares : prep[p].stale => prep'[p] = prep[p]
    PROVE  \A l \in Launches : /\ FailedCause(l) => FailedCause(l)'
                               /\ Reopened(l) => Reopened(l)'
<1> SUFFICES ASSUME NEW l \in Launches
             PROVE  /\ FailedCause(l) => FailedCause(l)'
                    /\ Reopened(l) => Reopened(l)'
  OBVIOUS
<1>1. (\E r \in Requests : tx[r] = "reverted" /\ relay[r].launch = l) =>
        (\E r \in Requests : tx'[r] = "reverted" /\ relay'[r].launch = l) \/ l \in reorged'
  OBVIOUS
<1>2. Erred(l) => Erred(l)'
  BY DEF Erred, TxLaunch
<1>3. \A st \in RecordState : WroteBack(l, st) => WroteBack(l, st)'
  BY DEF WroteBack
<1>4. FailedCause(l) => FailedCause(l)'
  BY <1>1, <1>2, <1>3 DEF FailedCause, RecordState
<1>5. Reopened(l) => Reopened(l)'
  BY <1>1, <1>2, <1>3 DEF Reopened, TxLaunch
<1> QED BY <1>4, <1>5

\* What explains FAILED explains that the launch is not seen as sent.
LEMMA FailedReopens == \A l \in Launches : FailedCause(l) => Reopened(l)
BY DEF FailedCause, Reopened, TxLaunch, RecordState, Sent

\* A step that leaves the states of the records alone, and undoes no cause.
LEMMA StatesKept ==
    ASSUME IInv, \A l \in Launches : record'[l].state = record[l].state,
           \A l \in Launches : /\ FailedCause(l) => FailedCause(l)'
                               /\ Reopened(l) => Reopened(l)',
           \A r \in Requests : relay'[r].pc = "complete" \/ relay'[r].outcome = "SUBMITTED" =>
               /\ relay[r].pc = "complete" \/ relay[r].outcome = "SUBMITTED"
               /\ relay'[r].launch = relay[r].launch
    PROVE  FailedHasCause' /\ SentUnlessReopened'
<1>1. FailedHasCause'
  BY DEF IInv, FailedHasCause
<1>2. SentUnlessReopened'
  BY DEF IInv, SentUnlessReopened
<1> QED BY <1>1, <1>2

\* What an update of the state of one record does to the table.
LEMMA StateWritten ==
    ASSUME TypeOK, NEW l \in Launches, NEW st \in RecordState,
           record' = [record EXCEPT ![l].state = st]
    PROVE  /\ record' \in [Launches -> [state : RecordState, tx : Requests \cup {None}, mined : BOOLEAN]]
           /\ \A k \in Launches : /\ record'[k].tx = record[k].tx
                                  /\ record'[k].mined = record[k].mined
                                  /\ record'[k].state = IF k = l THEN st ELSE record[k].state
BY DEF TypeOK

\* The steps of prepare change only the state of a record.
LEMMA PrepareHolds == ASSUME IInv, NEW p \in Prepares, PrepareNext(p) PROVE IInv'
<1> USE LaunchAssumption DEF IInv
<1>1. ASSUME NEW l \in Launches, PrepareFind(p, l) PROVE IInv'
  <2> USE <1>1 DEF PrepareFind
  <2>1. TypeOK'
    BY DEF TypeOK
  <2>2. Begun' /\ ReservationsNamed' /\ OneHolder' /\ HashWritten' /\ AnswersFinal'
    BY DEF Begun, ReservationsNamed, OneHolder, Holds, Slot, HashWritten, AnswersFinal
  <2>3. RecordedTxIsReal' /\ CompletedHasTransaction'
    BY DEF RecordedTxIsReal, TxLaunch, CompletedHasTransaction
  <2>a. \A l2 \in Launches : /\ FailedCause(l2) => FailedCause(l2)'
                             /\ Reopened(l2) => Reopened(l2)'
    BY CausesStay DEF TypeOK, PreparesPlaced
  <2>4. FailedHasCause' /\ SentUnlessReopened'
    BY <2>a, StatesKept
  <2>5. PreparesPlaced'
    BY DEF TypeOK, PreparesPlaced
  <2> QED BY <2>1, <2>2, <2>3, <2>4, <2>5
<1>2. ASSUME PrepareSave(p) PROVE IInv'
  <2> USE <1>2 DEF PrepareSave
  <2>0. TypeOK /\ prep[p].launch \in Launches /\ prep[p].seen \in RecordState
    BY DEF PreparesPlaced, TypeOK
  <2>l. PICK l \in Launches : l = prep[p].launch
    BY <2>0
  <2>a. PICK st \in RecordState :
            /\ record' = [record EXCEPT ![l].state = st]
            /\ st # record[l].state => \/ st = prep[p].seen
                                       \/ record[l].state = "none" /\ st = "PENDING_RELAY"
    <3> DEFINE new == IF prep[p].seen # "none" THEN prep[p].seen
                      ELSE IF record[l].state = "none" THEN "PENDING_RELAY" ELSE record[l].state
    <3>1. record' = [record EXCEPT ![l].state = new]
      BY <2>0, <2>l DEF TypeOK
    <3>2. new \in RecordState
      BY <2>0 DEF TypeOK, RecordState
    <3> QED BY <3>1, <3>2
  <2>b. /\ record' \in [Launches -> [state : RecordState, tx : Requests \cup {None}, mined : BOOLEAN]]
        /\ \A m \in Launches : record'[m].tx = record[m].tx /\ record'[m].mined = record[m].mined
        /\ \A m \in Launches : record'[m].state = IF m = l THEN st ELSE record[m].state
    BY ONLY <2>0, <2>a, StateWritten
  <2>c. /\ prep' \in [Prepares -> [pc : {"idle", "save", "done"}, launch : Launches \cup {None},
                                   seen : RecordState, stale : BOOLEAN]]
        /\ prep'[p].pc = "done" /\ prep'[p].launch = prep[p].launch /\ prep'[p].seen = prep[p].seen
        /\ prep'[p].stale <=> record[prep[p].launch].state # prep[p].seen
        /\ \A q \in Prepares \ {p} : prep'[q] = prep[q]
    <3> DEFINE row == [prep[p] EXCEPT !.pc = "done",
                                      !.stale = record[prep[p].launch].state # prep[p].seen]
    <3>1. prep \in [Prepares -> [pc : {"idle", "save", "done"}, launch : Launches \cup {None},
                                 seen : RecordState, stale : BOOLEAN]]
      BY DEF TypeOK
    <3>2. /\ row \in [pc : {"idle", "save", "done"}, launch : Launches \cup {None},
                       seen : RecordState, stale : BOOLEAN]
          /\ row.pc = "done" /\ row.launch = prep[p].launch /\ row.seen = prep[p].seen
          /\ row.stale = (record[prep[p].launch].state # prep[p].seen)
      BY <3>1, Zenon
    <3>3. prep' = [prep EXCEPT ![p] = row]
      OBVIOUS
    <3> HIDE DEF row
    <3> QED BY ONLY <3>1, <3>2, <3>3, p \in Prepares
  <2>1. TypeOK'
    BY <2>b, <2>c DEF TypeOK
  <2>3. Begun' /\ ReservationsNamed' /\ OneHolder' /\ AnswersFinal'
    BY DEF Begun, ReservationsNamed, OneHolder, Holds, Slot, AnswersFinal
  <2>4. HashWritten'
    BY <2>b DEF HashWritten, Begun
  <2>5. RecordedTxIsReal'
    BY <2>b DEF RecordedTxIsReal, TxLaunch
  <2>6. CompletedHasTransaction'
    BY <2>b DEF CompletedHasTransaction, ReservationsNamed
  <2>d. \A m \in Launches : /\ FailedCause(m) => FailedCause(m)'
                            /\ Reopened(m) => Reopened(m)'
    <3>1. \A q \in Prepares : prep[q].stale => prep'[q] = prep[q]
      BY <2>c DEF PreparesPlaced
    <3>2. UNCHANGED <<relay, tx, reorged>>
      OBVIOUS
    <3> QED BY ONLY <3>1, <3>2, CausesStay
  <2>e. st # record[l].state =>
            WroteBack(l, st)' \/ (record[l].state = "none" /\ st = "PENDING_RELAY")
    BY <2>l, <2>a, <2>c DEF WroteBack
  <2>f. st # record[l].state /\ st = "FAILED" => FailedCause(l)'
    BY <2>e DEF FailedCause
  <2>g. st # record[l].state /\ record[l].state \in Sent => st \in Sent \/ Reopened(l)'
    BY <2>e DEF Reopened, Sent
  <2>7. FailedHasCause'
    BY <2>b, <2>d, <2>f DEF FailedHasCause
  <2>8. SentUnlessReopened'
    BY <2>b, <2>d, <2>g DEF SentUnlessReopened
  <2>9. PreparesPlaced'
    BY <2>c DEF PreparesPlaced
  <2> QED BY <2>1, <2>3, <2>4, <2>5, <2>6, <2>7, <2>8, <2>9
<1>3. ASSUME prep' = [prep EXCEPT ![p].pc = "done"], prep[p].pc # "done",
             UNCHANGED <<rows, relay, chain, receipt>>
      PROVE  IInv'
  <2> USE <1>3
  <2>0. prep' \in [Prepares -> [pc : {"idle", "save", "done"}, launch : Launches \cup {None},
                                seen : RecordState, stale : BOOLEAN]]
    BY DEF TypeOK
  <2>1. TypeOK'
    BY <2>0 DEF TypeOK
  <2>2. Begun' /\ ReservationsNamed' /\ OneHolder' /\ HashWritten' /\ AnswersFinal'
    BY DEF Begun, ReservationsNamed, OneHolder, Holds, Slot, HashWritten, AnswersFinal
  <2>3. RecordedTxIsReal' /\ CompletedHasTransaction'
    BY DEF RecordedTxIsReal, TxLaunch, CompletedHasTransaction
  <2>4. \A q \in Prepares : prep[q].stale => prep'[q] = prep[q]
    BY DEF TypeOK, PreparesPlaced
  <2>5. FailedHasCause' /\ SentUnlessReopened'
    BY <2>4, CausesStay, StatesKept
  <2>6. PreparesPlaced'
    BY DEF TypeOK, PreparesPlaced
  <2> QED BY <2>1, <2>2, <2>3, <2>5, <2>6
<1> QED BY <1>1, <1>2, <1>3 DEF PrepareNext, PrepareRejected, PrepareCrash

\* Where a request that has begun and not ended stands.
LEMMA RequestPlaced ==
    ASSUME IInv, NEW r \in Requests, relay[r].pc # "idle"
    PROVE  /\ relay[r].launch \in Launches /\ relay[r].key \in Keys
           /\ Slot(r) \in Creators \X Keys
           /\ relay[r].pc # "done" => relay[r].outcome \notin Errors
BY LaunchAssumption DEF IInv, Begun, Slot, AnswersFinal, Errors

\* What moving one request on, or answering it, does to the requests.
LEMMA RelayMoved ==
    ASSUME TypeOK, NEW r \in Requests, NEW pc \in RelayPc, Goto(r, pc)
    PROVE  /\ relay' \in RelayTable
           /\ \A s \in Requests \ {r} : relay'[s] = relay[s]
           /\ relay'[r].pc = pc
           /\ relay'[r].launch = relay[r].launch /\ relay'[r].key = relay[r].key
           /\ relay'[r].outcome = relay[r].outcome
<1> DEFINE row == [relay[r] EXCEPT !.pc = pc]
<1>1. relay \in RelayTable
  BY DEF TypeOK, RelayTable, Request
<1>2. relay[r] \in Request
  BY <1>1 DEF RelayTable
<1>3. /\ row \in Request /\ row.pc = pc
      /\ row.launch = relay[r].launch /\ row.key = relay[r].key /\ row.outcome = relay[r].outcome
  BY <1>2 DEF Request
<1>4. relay' = [relay EXCEPT ![r] = row]
  BY DEF Goto
<1> HIDE DEF row
<1> QED BY <1>1, <1>3, <1>4 DEF RelayTable

LEMMA RelayAnswered ==
    ASSUME TypeOK, NEW r \in Requests, NEW out \in Outcomes, NEW a \in Launches \cup {None},
           Answer(r, out, a)
    PROVE  /\ relay' \in RelayTable
           /\ \A s \in Requests \ {r} : relay'[s] = relay[s]
           /\ relay'[r].pc = "done"
           /\ relay'[r].launch = relay[r].launch /\ relay'[r].key = relay[r].key
           /\ relay'[r].outcome = out
<1> DEFINE row == [relay[r] EXCEPT !.pc = "done", !.outcome = out, !.answer = a]
<1>1. relay \in RelayTable /\ "done" \in RelayPc
  BY DEF TypeOK, RelayTable, RelayPc, Request
<1>2. relay[r] \in Request
  BY <1>1 DEF RelayTable
<1>3. /\ row \in Request /\ row.pc = "done"
      /\ row.launch = relay[r].launch /\ row.key = relay[r].key /\ row.outcome = out
  BY <1>1, <1>2 DEF Request
<1>4. relay' = [relay EXCEPT ![r] = row]
  BY <1>1 DEF Answer, RelayTable
<1> HIDE DEF row
<1> QED BY <1>1, <1>3, <1>4 DEF RelayTable

\* A step that moves one request on and touches no row and no transaction: it must not
\* take the request past a point that it has not earned.
LEMMA MoveHolds ==
    ASSUME IInv, NEW r \in Requests,
           relay' \in RelayTable,
           \A s \in Requests \ {r} : relay'[s] = relay[s],
           relay[r].pc \notin {"idle", "done"},
           relay'[r].launch = relay[r].launch, relay'[r].key = relay[r].key,
           \/ relay'[r].pc = "done"
           \/ relay'[r].pc = "reserve" /\ relay[r].pc = "lookup"
           \/ relay'[r].pc = "broadcast" /\ relay[r].pc = "gate"
           \/ relay'[r].pc = "failed" /\ relay[r].pc \in {"submitted", "complete"},
           relay'[r].outcome # None => relay'[r].pc = "done",
           relay'[r].outcome # "SUBMITTED",
           UNCHANGED <<rows, prep, chain, receipt>>
    PROVE  IInv'
<1> USE LaunchAssumption DEF IInv
<1>0. \A s \in Requests : relay'[s].launch = relay[s].launch /\ relay'[s].key = relay[s].key
  OBVIOUS
<1>1. TypeOK'
  BY DEF TypeOK, RelayTable, Request
<1>2. Begun'
  BY DEF Begun
<1>3. ReservationsNamed' /\ CompletedHasTransaction' /\ PreparesPlaced'
  BY DEF ReservationsNamed, CompletedHasTransaction, PreparesPlaced
<1>4. \A s \in Requests : (Holds(s)' => Holds(s)) /\ Slot(s)' = Slot(s)
  BY <1>0 DEF Holds, Slot
<1>5. OneHolder'
  BY <1>0, <1>4 DEF OneHolder
<1>6. HashWritten'
  BY <1>0 DEF HashWritten
<1>7. RecordedTxIsReal'
  BY <1>0 DEF RecordedTxIsReal, TxLaunch, TypeOK
<1>8. FailedHasCause' /\ SentUnlessReopened'
  <2>1. \A s \in Requests : relay[s].outcome \in Errors => relay'[s] = relay[s]
    BY RequestPlaced
  <2>2. \A s \in Requests : relay'[s].pc = "complete" \/ relay'[s].outcome = "SUBMITTED" => s # r
    OBVIOUS
  <2> QED BY <1>0, <2>1, <2>2, CausesStay, StatesKept
<1>9. AnswersFinal'
  BY DEF AnswersFinal
<1> QED BY <1>1, <1>2, <1>3, <1>5, <1>6, <1>7, <1>8, <1>9

\* The early returns of relay, its look at the reservation, the gates, and a request that
\* dies: none of them touches a row.
LEMMA QuietStepsHold ==
    ASSUME IInv, NEW r \in Requests,
           \/ \E l \in Launches, k \in Keys : RelayBegin(r, l, k)
           \/ Lookup(r) \/ Gate(r) \/ RelayDies(r)
    PROVE  IInv'
<1> USE LaunchAssumption
<1>1. ASSUME NEW l \in Launches, NEW k \in Keys, RelayBegin(r, l, k) PROVE IInv'
  <2> USE DEF IInv
  <2>1. PICK pc \in {"lookup", "done"}, out \in Outcomes \ (Errors \cup {"SUBMITTED"}),
             a \in Launches \cup {None} :
            /\ relay' = [relay EXCEPT ![r] = [pc |-> pc, launch |-> l, key |-> k, outcome |-> out,
                                              answer |-> a]]
            /\ out # None => pc = "done"
    BY <1>1 DEF RelayBegin, Outcomes, Errors
  <2>2. relay[r].pc = "idle" /\ UNCHANGED <<rows, prep, chain, receipt>>
    BY <1>1 DEF RelayBegin
  <2>3. relay' \in RelayTable
    BY <2>1 DEF TypeOK, RelayPc, RelayTable, Request
  <2>4. /\ relay'[r].pc \in {"lookup", "done"} /\ relay'[r].outcome # "SUBMITTED"
        /\ relay'[r].outcome # None => relay'[r].pc = "done"
        /\ relay'[r].launch = l /\ relay'[r].key = k
        /\ \A s \in Requests \ {r} : relay'[s] = relay[s]
    BY <2>1 DEF TypeOK
  <2>5. tx[r] = "none" /\ receipt[r] = "none"
    BY <2>2 DEF Begun
  <2>6. relay[r].outcome \notin Errors
    BY <2>2 DEF AnswersFinal, Errors
  <2>7. TypeOK'
    BY <2>2, <2>3 DEF TypeOK, RelayTable, Request
  <2>8. Begun' /\ HashWritten' /\ AnswersFinal'
    BY <2>2, <2>4, <2>5 DEF Begun, HashWritten, AnswersFinal
  <2>9. ReservationsNamed' /\ CompletedHasTransaction' /\ PreparesPlaced'
    BY <2>2 DEF ReservationsNamed, CompletedHasTransaction, PreparesPlaced
  <2>10. ~Holds(r)' /\ \A s \in Requests \ {r} : Holds(s)' = Holds(s) /\ Slot(s)' = Slot(s)
    BY <2>2, <2>4, <2>5 DEF Holds, Slot
  <2>11. OneHolder'
    BY <2>2, <2>4, <2>10 DEF OneHolder
  <2>12. RecordedTxIsReal'
    <3>1. \A m \in Launches : record[m].tx # None => record[m].tx \in Requests \ {r}
      BY <2>5 DEF RecordedTxIsReal, TypeOK
    <3>2. \A s \in Requests : tx[s] = "success" => s # r
      BY <2>5
    <3> QED BY <2>2, <2>4, <3>1, <3>2 DEF RecordedTxIsReal, TxLaunch
  <2>13. FailedHasCause' /\ SentUnlessReopened'
    BY <2>2, <2>4, <2>5, <2>6, CausesStay, StatesKept
  <2> QED BY <2>7, <2>8, <2>9, <2>11, <2>12, <2>13
<1>2. ASSUME NEW pc \in {"reserve", "broadcast"}, Goto(r, pc),
             relay[r].pc \notin {"idle", "done"},
             pc = "broadcast" => relay[r].pc = "gate",
             pc = "reserve" => relay[r].pc = "lookup",
             UNCHANGED <<rows, prep, chain, receipt>>
      PROVE  IInv'
  <2>1. pc \in RelayPc
    BY DEF RelayPc
  <2>2. /\ relay' \in RelayTable
        /\ \A s \in Requests \ {r} : relay'[s] = relay[s]
        /\ relay'[r].pc = pc
        /\ relay'[r].launch = relay[r].launch /\ relay'[r].key = relay[r].key
        /\ relay'[r].outcome = relay[r].outcome
    BY <1>2, <2>1, RelayMoved DEF IInv, Goto
  <2>3. relay[r].outcome = None /\ None # "SUBMITTED"
    BY <1>2 DEF IInv, AnswersFinal
  <2> QED BY <1>2, <2>1, <2>2, <2>3, MoveHolds
<1>3. ASSUME NEW out \in Outcomes \ {"SUBMITTED"}, NEW a \in Launches \cup {None}, Answer(r, out, a),
             relay[r].pc \notin {"idle", "done"},
             UNCHANGED <<rows, prep, chain, receipt>>
      PROVE  IInv'
  <2>1. /\ relay' \in RelayTable
        /\ \A s \in Requests \ {r} : relay'[s] = relay[s]
        /\ relay'[r].pc = "done"
        /\ relay'[r].launch = relay[r].launch /\ relay'[r].key = relay[r].key
        /\ relay'[r].outcome = out
    BY <1>3, RelayAnswered DEF IInv, Answer
  <2> QED BY <1>3, <2>1, MoveHolds
<1>4. ASSUME Lookup(r) PROVE IInv'
  <2>1. resv[Slot(r)].launch \in Launches \cup {None}
    BY <1>4, RequestPlaced DEF Lookup, IInv, TypeOK
  <2> QED BY <1>4, <2>1, <1>2, <1>3 DEF Lookup, Throw, Outcomes
<1>5. CASE Gate(r) BY <1>5, <1>2, <1>3 DEF Gate, Throw, Outcomes
<1>6. CASE RelayDies(r) BY <1>6, <1>3 DEF RelayDies, Throw, Outcomes
<1> QED BY <1>1, <1>4, <1>5, <1>6

\* The create of the reservation: its unique key is what makes the holder alone.
LEMMA ReserveHolds == ASSUME IInv, NEW r \in Requests, Reserve(r) PROVE IInv'
<1> USE LaunchAssumption
<1>1. /\ relay[r].launch \in Launches /\ Slot(r) \in Creators \X Keys
      /\ Slot(r)[1] = CreatorOf[relay[r].launch]
      /\ relay[r].outcome \notin Errors /\ relay[r].pc = "reserve"
  BY RequestPlaced DEF Reserve, Slot
<1>2. CASE resv[Slot(r)].state # "none"
  <2>1. Throw(r, "INTERNAL_ERROR") /\ UNCHANGED <<rows, prep, chain, receipt>>
    BY <1>2 DEF Reserve
  <2>2. RelayDies(r)
    BY <1>1, <2>1 DEF RelayDies
  <2> QED BY <2>2, QuietStepsHold
<1>3. CASE resv[Slot(r)].state = "none"
  <2> DEFINE row == [state |-> "IN_PROGRESS", launch |-> relay[r].launch]
  <2> USE DEF IInv
  <2>1. /\ resv' = [resv EXCEPT ![Slot(r)] = row] /\ Goto(r, "gate")
        /\ UNCHANGED <<record, prep, chain, receipt>>
    BY <1>3 DEF Reserve
  <2>2. /\ relay' \in RelayTable
        /\ \A s \in Requests \ {r} : relay'[s] = relay[s]
        /\ relay'[r].pc = "gate"
        /\ relay'[r].launch = relay[r].launch /\ relay'[r].key = relay[r].key
        /\ relay'[r].outcome = relay[r].outcome
    BY <2>1, RelayMoved DEF RelayPc
  <2>3. resv \in [Creators \X Keys -> [state : {"none", "IN_PROGRESS", "COMPLETED"},
                                       launch : Launches \cup {None}]]
    BY DEF TypeOK
  <2>4. /\ resv' \in [Creators \X Keys -> [state : {"none", "IN_PROGRESS", "COMPLETED"},
                                           launch : Launches \cup {None}]]
        /\ resv'[Slot(r)] = row
        /\ \A t \in Creators \X Keys : t # Slot(r) => resv'[t] = resv[t]
    BY <1>1, <2>1, <2>3
  <2>5. \A s \in Requests : /\ Slot(s)' = Slot(s)
                            /\ relay'[s].launch = relay[s].launch /\ relay'[s].key = relay[s].key
                            /\ relay'[s].outcome = relay[s].outcome
    BY <2>2 DEF Slot
  <2>6. TypeOK'
    BY <2>1, <2>2, <2>4 DEF TypeOK, RelayTable, Request
  <2>7. Begun' /\ HashWritten' /\ AnswersFinal' /\ PreparesPlaced'
    BY <1>1, <2>1, <2>2 DEF Begun, HashWritten, AnswersFinal, PreparesPlaced
  <2>8. ReservationsNamed'
    BY <1>1, <2>4 DEF ReservationsNamed
  <2>9. CompletedHasTransaction'
    BY <1>1, <2>1, <2>4 DEF CompletedHasTransaction
  <2>10. \A s \in Requests \ {r} : Holds(s)' => Holds(s) /\ Slot(s) # Slot(r)
    BY <1>3, <2>1, <2>2 DEF OneHolder, Holds
  <2>11. \A s \in Requests \ {r} : Holds(s) => Slot(s) \in Creators \X Keys
    <3> SUFFICES ASSUME NEW s \in Requests \ {r}, Holds(s) PROVE Slot(s) \in Creators \X Keys
      OBVIOUS
    <3>1. relay[s].pc # "idle"
      BY DEF Holds, Begun
    <3> QED BY <3>1, RequestPlaced
  <2>12. OneHolder'
    BY <2>2, <2>4, <2>5, <2>10, <2>11 DEF OneHolder
  <2>13. RecordedTxIsReal'
    BY <2>1, <2>5 DEF RecordedTxIsReal, TxLaunch, TypeOK
  <2>14. FailedHasCause' /\ SentUnlessReopened'
    <3>1. \A s \in Requests : relay'[s].pc = "complete" \/ relay'[s].outcome = "SUBMITTED" =>
              relay[s].pc = "complete" \/ relay[s].outcome = "SUBMITTED"
      BY <2>2, <2>5
    <3> QED BY <2>1, <2>5, <3>1, CausesStay, StatesKept
  <2> QED BY <2>6, <2>7, <2>8, <2>9, <2>12, <2>13, <2>14
<1> QED BY <1>2, <1>3

\* writeContract: the transaction is out, whether or not the answer comes back.
LEMMA BroadcastHolds ==
    ASSUME IInv, NEW r \in Requests, Broadcast(r) \/ BroadcastFails(r) PROVE IInv'
<1> USE LaunchAssumption DEF IInv
<1>1. PICK pc \in {"submitted", "failed"} :
        /\ Goto(r, pc) /\ tx' \in {tx, [tx EXCEPT ![r] = "pending"]}
        /\ pc = "submitted" => tx' = [tx EXCEPT ![r] = "pending"]
        /\ relay[r].pc = "broadcast" /\ UNCHANGED <<rows, prep, direct, reorged, receipt>>
  BY DEF Broadcast, BroadcastFails
<1>2. /\ relay' \in RelayTable
      /\ \A s \in Requests \ {r} : relay'[s] = relay[s]
      /\ relay'[r].pc = pc
      /\ relay'[r].launch = relay[r].launch /\ relay'[r].key = relay[r].key
      /\ relay'[r].outcome = relay[r].outcome
  BY <1>1, RelayMoved DEF RelayPc
<1>3. \A s \in Requests : /\ Slot(s)' = Slot(s)
                          /\ relay'[s].launch = relay[s].launch /\ relay'[s].key = relay[s].key
                          /\ relay'[s].outcome = relay[s].outcome
  BY <1>2 DEF Slot
<1>4. /\ tx' \in [Requests -> {"none", "pending", "success", "reverted"}]
      /\ \A s \in Requests \ {r} : tx'[s] = tx[s]
      /\ tx'[r] \in {tx[r], "pending"}
      /\ pc = "submitted" => tx'[r] # "none"
      /\ \A s \in Requests : tx[s] # "none" => tx'[s] # "none"
  BY <1>1 DEF TypeOK
<1>5. TypeOK'
  BY <1>1, <1>2, <1>4 DEF TypeOK, RelayTable, Request
<1>6. Begun'
  BY <1>1, <1>2, <1>4 DEF Begun
<1>7. HashWritten' /\ AnswersFinal' /\ PreparesPlaced' /\ ReservationsNamed' /\ CompletedHasTransaction'
  BY <1>1, <1>2 DEF HashWritten, AnswersFinal, PreparesPlaced, ReservationsNamed, CompletedHasTransaction
<1>8. \A s \in Requests : Holds(s)' => Holds(s)
  BY <1>1, <1>2, <1>4 DEF Holds
<1>9. OneHolder'
  BY <1>1, <1>3, <1>8 DEF OneHolder
<1>10. tx[r] = "none"
  BY <1>1 DEF Begun
<1>11. RecordedTxIsReal'
  BY <1>1, <1>3, <1>4, <1>10 DEF RecordedTxIsReal, TxLaunch, TypeOK
<1>12. FailedHasCause' /\ SentUnlessReopened'
  <2>1. \A s \in Requests : relay'[s].pc = "complete" \/ relay'[s].outcome = "SUBMITTED" =>
            relay[s].pc = "complete" \/ relay[s].outcome = "SUBMITTED"
    BY <1>2, <1>3
  <2>2. \A s \in Requests : tx[s] = "reverted" => tx'[s] = "reverted"
    BY <1>4, <1>10
  <2> QED BY <1>1, <1>3, <2>1, <2>2, CausesStay, StatesKept
<1> QED BY <1>5, <1>6, <1>7, <1>9, <1>11, <1>12

StoresHash(r) ==
    record' = [record EXCEPT ![relay[r].launch].state = "SUBMITTED", ![relay[r].launch].tx = r]

\* The update to SUBMITTED: the hash on the record is that of a transaction of the launch.
\* The request goes on, or to the catch block when the reply of the update is lost.
LEMMA RecordSubmittedHolds ==
    ASSUME IInv, NEW r \in Requests, NEW pc \in {"complete", "failed"},
           relay[r].pc = "submitted", Goto(r, pc),
           StoresHash(r),
           UNCHANGED <<resv, prep, chain, receipt>>
    PROVE  IInv'
<1> DEFINE l == relay[r].launch
<1> DEFINE row == [record[l] EXCEPT !.state = "SUBMITTED", !.tx = r]
<1> USE LaunchAssumption DEF IInv
<1>1. relay[r].pc = "submitted" /\ Goto(r, pc) /\ UNCHANGED <<resv, prep, chain, receipt>>
  OBVIOUS
<1>2. l \in Launches /\ tx[r] # "none" /\ r # None
  BY <1>1 DEF Begun
<1>3. record \in [Launches -> [state : RecordState, tx : Requests \cup {None}, mined : BOOLEAN]]
  BY DEF TypeOK
<1>4. record' = [record EXCEPT ![l] = row]
  BY <1>2, <1>3 DEF StoresHash
<1>5. /\ row \in [state : RecordState, tx : Requests \cup {None}, mined : BOOLEAN]
      /\ row.state = "SUBMITTED" /\ row.tx = r /\ row.mined = record[l].mined
  BY <1>2, <1>3 DEF RecordState
<1>6. /\ record' \in [Launches -> [state : RecordState, tx : Requests \cup {None}, mined : BOOLEAN]]
      /\ record'[l].state = "SUBMITTED" /\ record'[l].tx = r
      /\ \A m \in Launches : record'[m].mined = record[m].mined
      /\ \A m \in Launches \ {l} : record'[m] = record[m]
  <2> HIDE DEF row, l
  <2> QED BY <1>2, <1>3, <1>4, <1>5
<1>7. /\ relay' \in RelayTable
      /\ \A s \in Requests \ {r} : relay'[s] = relay[s]
      /\ relay'[r].pc = pc
      /\ relay'[r].launch = relay[r].launch /\ relay'[r].key = relay[r].key
      /\ relay'[r].outcome = relay[r].outcome
  BY <1>1, RelayMoved DEF RelayPc
<1>8. \A s \in Requests : /\ Slot(s)' = Slot(s) /\ Holds(s)' = Holds(s)
                          /\ relay'[s].launch = relay[s].launch
                          /\ relay'[s].outcome = relay[s].outcome
  BY <1>1, <1>7 DEF Slot, Holds
<1> HIDE DEF row
<1>9. TypeOK'
  BY <1>1, <1>6, <1>7 DEF TypeOK, RelayTable, Request
<1>10. Begun' /\ AnswersFinal' /\ PreparesPlaced' /\ ReservationsNamed'
  BY <1>1, <1>2, <1>7 DEF Begun, AnswersFinal, PreparesPlaced, ReservationsNamed
<1>11. OneHolder'
  BY <1>1, <1>8 DEF OneHolder
<1>12. \A m \in Launches : record[m].tx # None => record'[m].tx # None
  BY <1>2, <1>6
<1>13. HashWritten'
  <2> SUFFICES ASSUME NEW s \in Requests, relay'[s].pc = "complete"
               PROVE  record'[relay'[s].launch].tx # None
    BY DEF HashWritten
  <2>1. CASE s = r
    BY <1>2, <1>6, <1>7, <2>1
  <2>2. CASE s # r
    BY <1>7, <1>12, <2>2 DEF HashWritten, Begun
  <2> QED BY <2>1, <2>2
<1>14. CompletedHasTransaction'
  BY <1>1, <1>12 DEF CompletedHasTransaction, ReservationsNamed
<1>15. RecordedTxIsReal'
  <2> SUFFICES ASSUME NEW m \in Launches
               PROVE  /\ record'[m].tx # None =>
                            tx[record'[m].tx] # "none" /\ relay'[record'[m].tx].launch = m
                      /\ record'[m].mined =>
                            m \in reorged \/ \E s \in Requests : tx[s] = "success" /\ relay'[s].launch = m
    BY <1>1 DEF RecordedTxIsReal, TxLaunch
  <2>1. record'[m].mined =>
            m \in reorged \/ \E s \in Requests : tx[s] = "success" /\ relay'[s].launch = m
    BY <1>6, <1>8 DEF RecordedTxIsReal, TxLaunch
  <2>2. CASE m = l
    BY <1>2, <1>6, <1>7, <2>1, <2>2
  <2>3. CASE m # l
    <3>1. record'[m] = record[m] /\ record[m].tx \in Requests \cup {None}
      BY <1>3, <1>6, <2>3
    <3> QED BY <1>8, <2>1, <3>1 DEF RecordedTxIsReal, TxLaunch
  <2> QED BY <2>2, <2>3
<1>16. \A m \in Launches : /\ FailedCause(m) => FailedCause(m)'
                           /\ Reopened(m) => Reopened(m)'
  BY <1>1, <1>8, CausesStay
<1>17. FailedHasCause'
  BY <1>6, <1>16 DEF FailedHasCause
<1>18. SentUnlessReopened'
  <2> SUFFICES ASSUME NEW m \in Launches, m # l, NEW s \in Requests,
                      relay'[s].pc = "complete" \/ relay'[s].outcome = "SUBMITTED",
                      relay'[s].launch = m
               PROVE  record'[m].state \in Sent \/ Reopened(m)'
    BY <1>6 DEF SentUnlessReopened, Sent
  <2>1. relay[s].pc = "complete" \/ relay[s].outcome = "SUBMITTED"
    BY <1>7, <1>8
  <2>2. record[m].state \in Sent \/ Reopened(m)
    BY <1>8, <2>1 DEF SentUnlessReopened
  <2> QED BY <1>6, <1>16, <2>2
<1> QED BY <1>9, <1>10, <1>11, <1>13, <1>14, <1>15, <1>17, <1>18

\* The update to COMPLETED comes after the hash.
\* The request is answered, or goes to the catch block when the reply of the update is lost.
LEMMA CompleteHolds ==
    ASSUME IInv, NEW r \in Requests, relay[r].pc = "complete",
           resv' = [resv EXCEPT ![Slot(r)].state = "COMPLETED"],
           \/ Answer(r, "SUBMITTED", relay[r].launch) /\ receipt' = [receipt EXCEPT ![r] = "awaited"]
           \/ Goto(r, "failed") /\ receipt' = receipt,
           UNCHANGED <<record, prep, chain>>
    PROVE  IInv'
<1> DEFINE row == [resv[Slot(r)] EXCEPT !.state = "COMPLETED"]
<1> USE LaunchAssumption DEF IInv
<1>1. relay[r].pc = "complete" /\ UNCHANGED <<record, prep, chain>>
  OBVIOUS
<1>2. relay[r].launch \in Launches /\ Slot(r) \in Creators \X Keys
  BY <1>1, RequestPlaced
<1>3. resv \in [Creators \X Keys -> [state : {"none", "IN_PROGRESS", "COMPLETED"},
                                     launch : Launches \cup {None}]]
  BY DEF TypeOK
<1>4. /\ row \in [state : {"none", "IN_PROGRESS", "COMPLETED"}, launch : Launches \cup {None}]
      /\ row.state = "COMPLETED" /\ row.launch = resv[Slot(r)].launch
  BY <1>2, <1>3
<1>5. /\ resv' \in [Creators \X Keys -> [state : {"none", "IN_PROGRESS", "COMPLETED"},
                                         launch : Launches \cup {None}]]
      /\ resv'[Slot(r)] = row
      /\ \A t \in Creators \X Keys : t # Slot(r) => resv'[t] = resv[t]
  <2>1. resv' = [resv EXCEPT ![Slot(r)] = row]
    OBVIOUS
  <2> HIDE DEF row
  <2> QED BY <1>2, <1>3, <1>4, <2>1
<1> HIDE DEF row
<1>6. /\ relay' \in RelayTable
      /\ \A s \in Requests \ {r} : relay'[s] = relay[s]
      /\ relay'[r].pc \in {"done", "failed"}
      /\ relay'[r].launch = relay[r].launch /\ relay'[r].key = relay[r].key
      /\ relay'[r].outcome # relay[r].outcome => relay'[r].pc = "done"
  <2>1. CASE Answer(r, "SUBMITTED", relay[r].launch)
    BY <1>1, <1>2, <2>1, RelayAnswered DEF Outcomes
  <2>2. CASE Goto(r, "failed")
    BY <1>1, <2>2, RelayMoved DEF RelayPc
  <2> QED BY <2>1, <2>2
<1>7. tx[r] # "none" /\ record[relay[r].launch].tx # None /\ relay[r].outcome = None
  BY <1>1 DEF Begun, HashWritten, AnswersFinal
<1>8. resv[Slot(r)].state # "none" /\ resv[Slot(r)].launch = relay[r].launch
  BY <1>1 DEF OneHolder, Holds
<1>9. \A s \in Requests : /\ Slot(s)' = Slot(s) /\ (Holds(s)' => Holds(s))
                          /\ relay'[s].launch = relay[s].launch
                          /\ relay[s].outcome \in Errors => relay'[s].outcome \in Errors
  BY <1>1, <1>6, <1>7 DEF Slot, Holds, Errors
<1>r. /\ receipt' \in [Requests -> {"none", "awaited", "success", "reverted"}]
      /\ \A s \in Requests : receipt'[s] # receipt[s] => s = r /\ receipt'[s] = "awaited"
  BY DEF TypeOK
<1>10. \A t \in Creators \X Keys : /\ resv[t].state # "none" <=> resv'[t].state # "none"
                                   /\ resv'[t].launch = resv[t].launch
  BY <1>4, <1>5, <1>8
<1>11. TypeOK'
  BY <1>1, <1>5, <1>6, <1>r DEF TypeOK, RelayTable, Request
<1>12. Begun' /\ HashWritten' /\ AnswersFinal' /\ PreparesPlaced'
  BY <1>1, <1>6, <1>7, <1>r DEF Begun, HashWritten, AnswersFinal, PreparesPlaced
<1>13. ReservationsNamed'
  BY <1>10 DEF ReservationsNamed
<1>14. CompletedHasTransaction'
  BY <1>1, <1>2, <1>5, <1>7, <1>8, <1>10 DEF CompletedHasTransaction, ReservationsNamed
<1>15. \A s \in Requests : Holds(s) => Slot(s) \in Creators \X Keys
  <2> SUFFICES ASSUME NEW s \in Requests, Holds(s) PROVE Slot(s) \in Creators \X Keys
    OBVIOUS
  <2>1. relay[s].pc # "idle"
    BY DEF Holds, Begun
  <2> QED BY <2>1, RequestPlaced
<1>16. OneHolder'
  BY <1>9, <1>10, <1>15 DEF OneHolder
<1>17. RecordedTxIsReal'
  <2>1. \A m \in Launches : record[m].tx \in Requests \cup {None}
    BY DEF TypeOK
  <2> QED BY <1>1, <1>9, <2>1 DEF RecordedTxIsReal, TxLaunch
<1>18. FailedHasCause' /\ SentUnlessReopened'
  <2>1. \A s \in Requests : relay'[s].pc = "complete" \/ relay'[s].outcome = "SUBMITTED" =>
            relay[s].pc = "complete" \/ relay[s].outcome = "SUBMITTED"
    BY <1>1, <1>6
  <2> QED BY <1>1, <1>9, <2>1, CausesStay, StatesKept
<1> QED BY <1>11, <1>12, <1>13, <1>14, <1>16, <1>17, <1>18

\* The two updates after writeContract, with the replies that are lost.
LEMMA UpdatesHold ==
    ASSUME IInv, NEW r \in Requests, RecordSubmitted(r) \/ Complete(r) \/ UpdateFails(r)
    PROVE  IInv'
<1> USE LaunchAssumption
<1>1. CASE RecordSubmitted(r)
  BY <1>1, RecordSubmittedHolds DEF RecordSubmitted, StoresHash
<1>2. CASE Complete(r)
  BY <1>2, CompleteHolds DEF Complete
<1>3. ASSUME UpdateFails(r), UNCHANGED <<record, resv>> PROVE IInv'
  <2>1. /\ Goto(r, "failed") /\ relay[r].pc \in {"submitted", "complete"}
        /\ UNCHANGED <<prep, chain, receipt>> /\ "failed" \in RelayPc /\ TypeOK
    BY <1>3 DEF UpdateFails, RelayPc, IInv
  <2>2. /\ relay' \in RelayTable
        /\ \A s \in Requests \ {r} : relay'[s] = relay[s]
        /\ relay'[r].pc = "failed"
        /\ relay'[r].launch = relay[r].launch /\ relay'[r].key = relay[r].key
        /\ relay'[r].outcome = relay[r].outcome
    BY ONLY <2>1, r \in Requests, RelayMoved
  <2>3. relay[r].outcome = None /\ None # "SUBMITTED"
    BY <2>1 DEF IInv, AnswersFinal
  <2> QED BY <1>3, <2>1, <2>2, <2>3, MoveHolds
<1>4. ASSUME UpdateFails(r), ~UNCHANGED record PROVE IInv'
  <2>1. /\ relay[r].pc = "submitted" /\ Goto(r, "failed")
        /\ StoresHash(r) /\ UNCHANGED <<resv, prep, chain, receipt>>
    BY <1>4 DEF UpdateFails, StoresHash
  <2> QED BY <2>1, RecordSubmittedHolds
<1>5. ASSUME UpdateFails(r), ~UNCHANGED resv PROVE IInv'
  <2>1. /\ relay[r].pc = "complete" /\ Goto(r, "failed") /\ receipt' = receipt
        /\ resv' = [resv EXCEPT ![Slot(r)].state = "COMPLETED"]
        /\ UNCHANGED <<record, prep, chain>>
    BY <1>5 DEF UpdateFails
  <2> QED BY <2>1, CompleteHolds
<1> QED BY <1>1, <1>2, <1>3, <1>4, <1>5

\* A step that writes only the state of one record, and may end the watch of a receipt.
\* FAILED needs its cause, and any state from which relay sends needs one.
LEMMA StateStepHolds ==
    ASSUME IInv, NEW l \in Launches, NEW st \in RecordState,
           record' = [record EXCEPT ![l].state = st], relay' = relay,
           receipt' \in [Requests -> {"none", "awaited", "success", "reverted"}],
           \A r \in Requests : receipt'[r] \in {receipt[r], "none"},
           st = "FAILED" => FailedCause(l), st \in Sent \/ Reopened(l),
           UNCHANGED <<resv, prep, chain>>
    PROVE  IInv'
<1> USE LaunchAssumption DEF IInv
<1>1. /\ record' \in [Launches -> [state : RecordState, tx : Requests \cup {None}, mined : BOOLEAN]]
      /\ \A k \in Launches : /\ record'[k].tx = record[k].tx
                             /\ record'[k].mined = record[k].mined
                             /\ record'[k].state = IF k = l THEN st ELSE record[k].state
  <2>1. TypeOK
    OBVIOUS
  <2> QED BY ONLY <2>1, StateWritten, record' = [record EXCEPT ![l].state = st], l \in Launches,
             st \in RecordState
<1>2. TypeOK'
  BY <1>1 DEF TypeOK
<1>3. Begun' /\ AnswersFinal' /\ PreparesPlaced' /\ ReservationsNamed'
  BY DEF Begun, AnswersFinal, PreparesPlaced, ReservationsNamed
<1>4. OneHolder'
  BY DEF OneHolder, Holds, Slot
<1>5. HashWritten' /\ CompletedHasTransaction'
  BY <1>1 DEF HashWritten, Begun, CompletedHasTransaction, ReservationsNamed
<1>6. RecordedTxIsReal'
  BY <1>1 DEF RecordedTxIsReal, TxLaunch
<1>7. \A m \in Launches : /\ FailedCause(m) => FailedCause(m)'
                          /\ Reopened(m) => Reopened(m)'
  BY CausesStay
<1>8. FailedHasCause'
  BY <1>1, <1>7 DEF FailedHasCause
<1>9. SentUnlessReopened'
  BY <1>1, <1>7 DEF SentUnlessReopened
<1> QED BY <1>2, <1>3, <1>4, <1>5, <1>6, <1>8, <1>9

\* The catch block: the error it answers is the cause of FAILED.
LEMMA RecordFailedHolds == ASSUME IInv, NEW r \in Requests, RecordFailed(r) PROVE IInv'
<1> DEFINE l == relay[r].launch
<1> USE LaunchAssumption DEF IInv
<1>1. PICK out \in Errors :
        /\ relay[r].pc = "failed" /\ Answer(r, out, None)
        /\ record' = [record EXCEPT ![l].state = "FAILED"]
        /\ UNCHANGED <<resv, prep, chain, receipt>>
  BY DEF RecordFailed, Throw, Errors
<1>2. TypeOK /\ l \in Launches /\ "FAILED" \in RecordState /\ out \in Outcomes /\ out # "SUBMITTED"
  BY <1>1 DEF Begun, RecordState, Outcomes, Errors
<1>3. /\ record' \in [Launches -> [state : RecordState, tx : Requests \cup {None}, mined : BOOLEAN]]
      /\ \A k \in Launches : /\ record'[k].tx = record[k].tx
                             /\ record'[k].mined = record[k].mined
                             /\ record'[k].state = IF k = l THEN "FAILED" ELSE record[k].state
  BY ONLY <1>1, <1>2, StateWritten
<1>4. /\ relay' \in RelayTable
      /\ \A s \in Requests \ {r} : relay'[s] = relay[s]
      /\ relay'[r].pc = "done"
      /\ relay'[r].launch = relay[r].launch /\ relay'[r].key = relay[r].key
      /\ relay'[r].outcome = out
  BY ONLY <1>1, <1>2, r \in Requests, RelayAnswered
<1>5. \A s \in Requests : /\ Slot(s)' = Slot(s) /\ (Holds(s)' => Holds(s))
                          /\ relay'[s].launch = relay[s].launch
                          /\ relay[s].outcome \in Errors => relay'[s].outcome \in Errors
  BY <1>1, <1>4 DEF Slot, Holds
<1>6. TypeOK'
  BY <1>1, <1>3, <1>4 DEF TypeOK, RelayTable, Request
<1>7. Begun' /\ AnswersFinal' /\ PreparesPlaced' /\ ReservationsNamed'
  BY <1>1, <1>4 DEF Begun, AnswersFinal, PreparesPlaced, ReservationsNamed
<1>8. OneHolder'
  BY <1>1, <1>5 DEF OneHolder
<1>9. HashWritten' /\ CompletedHasTransaction'
  BY <1>1, <1>3, <1>4 DEF HashWritten, Begun, CompletedHasTransaction, ReservationsNamed
<1>10. RecordedTxIsReal'
  <2>1. \A m \in Launches : record[m].tx \in Requests \cup {None}
    BY DEF TypeOK
  <2> QED BY <1>1, <1>3, <1>5, <2>1 DEF RecordedTxIsReal, TxLaunch
<1>11. \A m \in Launches : /\ FailedCause(m) => FailedCause(m)'
                           /\ Reopened(m) => Reopened(m)'
  BY <1>1, <1>5, CausesStay
<1>12. PICK m \in Launches : m = l /\ FailedCause(m)' /\ Reopened(m)'
  <2>1. PICK m \in Launches : m = l
    BY <1>2
  <2>2. Erred(m)'
    BY <1>4, <2>1 DEF Erred, TxLaunch
  <2>3. FailedCause(m)' /\ Reopened(m)'
    BY <2>2 DEF FailedCause, Reopened
  <2> QED BY <2>1, <2>3
<1> HIDE DEF l
<1>13. FailedHasCause'
  BY <1>3, <1>11, <1>12 DEF FailedHasCause
<1>14. SentUnlessReopened'
  <2>1. \A s \in Requests : relay'[s].pc = "complete" \/ relay'[s].outcome = "SUBMITTED" =>
            relay[s].pc = "complete" \/ relay[s].outcome = "SUBMITTED"
    BY <1>2, <1>4
  <2> QED BY <1>3, <1>5, <1>11, <1>12, <2>1 DEF SentUnlessReopened
<1> QED BY <1>6, <1>7, <1>8, <1>9, <1>10, <1>13, <1>14

\* The chain takes a transaction, takes one back, or the creator launches without the backend.
LEMMA ChainHolds ==
    ASSUME IInv,
           \/ \E r \in Requests : MineSuccess(r) \/ MineRevert(r)
           \/ \E l \in Launches : DirectLaunch(l) \/ Reorg(l)
    PROVE  IInv'
<1> USE LaunchAssumption DEF IInv
<1>1. /\ UNCHANGED <<record, resv, relay, prep, receipt>>
      /\ direct' \subseteq Launches /\ reorged' \subseteq Launches /\ reorged \subseteq reorged'
      /\ tx' \in [Requests -> {"none", "pending", "success", "reverted"}]
      /\ \A s \in Requests : \/ tx'[s] = tx[s]
                             \/ tx[s] = "pending" /\ tx'[s] \in {"success", "reverted"}
                             \/ /\ tx[s] \in {"success", "reverted"} /\ tx'[s] = "pending"
                                /\ relay[s].launch \in reorged'
  <2>1. ASSUME NEW l \in Launches, Reorg(l) PROVE <1>1!:
    <3>1. PICK S \in SUBSET {r \in Requests : tx[r] \in {"success", "reverted"} /\ TxLaunch(r) = l} :
            tx' = [r \in Requests |-> IF r \in S THEN "pending" ELSE tx[r]]
      BY <2>1 DEF Reorg
    <3>2. reorged' = reorged \cup {l} /\ direct' \subseteq direct
          /\ UNCHANGED <<record, resv, relay, prep, receipt>>
      BY <2>1 DEF Reorg
    <3> QED BY <3>1, <3>2 DEF TypeOK, TxLaunch
  <2>2. ASSUME NEW r \in Requests, MineSuccess(r) \/ MineRevert(r) PROVE <1>1!:
    BY <2>2 DEF TypeOK, MineSuccess, MineRevert
  <2>3. ASSUME NEW l \in Launches, DirectLaunch(l) PROVE <1>1!:
    BY <2>3 DEF TypeOK, DirectLaunch
  <2> QED BY <2>1, <2>2, <2>3
<1>2. TypeOK'
  BY <1>1 DEF TypeOK
<1>3. Begun' /\ AnswersFinal' /\ PreparesPlaced' /\ ReservationsNamed'
  BY <1>1 DEF Begun, AnswersFinal, PreparesPlaced, ReservationsNamed
<1>4. \A s \in Requests : Holds(s)' = Holds(s) /\ Slot(s)' = Slot(s)
  BY <1>1 DEF Holds, Slot
<1>5. OneHolder'
  BY <1>1, <1>4 DEF OneHolder
<1>6. HashWritten' /\ CompletedHasTransaction'
  BY <1>1 DEF HashWritten, CompletedHasTransaction
<1>7. RecordedTxIsReal'
  <2>1. \A m \in Launches : record[m].tx \in Requests \cup {None}
    BY DEF TypeOK
  <2> QED BY <1>1, <2>1 DEF RecordedTxIsReal, TxLaunch
<1>8. FailedHasCause' /\ SentUnlessReopened'
  BY <1>1, CausesStay, StatesKept
<1> QED BY <1>2, <1>3, <1>5, <1>6, <1>7, <1>8

\* watchReceipt: what it writes is what its receipt says, which a reorganisation may have
\* undone.
LEMMA WatchHolds ==
    ASSUME IInv, NEW r \in Requests, GetReceipt(r) \/ StoreReceipt(r) \/ WatchLost(r)
    PROVE  IInv'
<1> USE LaunchAssumption
<1>1. ASSUME StoreReceipt(r), receipt[r] = "reverted" PROVE IInv'
  <2>1. relay[r].launch \in Launches /\ "FAILED" \in RecordState
    BY <1>1 DEF IInv, Begun, RecordState
  <2>2. /\ record' = [record EXCEPT ![relay[r].launch].state = "FAILED"] /\ relay' = relay
        /\ receipt' \in [Requests -> {"none", "awaited", "success", "reverted"}]
        /\ \A s \in Requests : receipt'[s] \in {receipt[s], "none"}
        /\ UNCHANGED <<resv, prep, chain>>
    BY <1>1 DEF StoreReceipt, TxLaunch, IInv, TypeOK
  <2>3. FailedCause(relay[r].launch)
    BY <1>1 DEF IInv, Begun, FailedCause
  <2> QED BY <2>1, <2>2, <2>3, FailedReopens, StateStepHolds
<1>2. ASSUME StoreReceipt(r), receipt[r] = "success" PROVE IInv'
  <2> USE DEF IInv
  <2>1. relay[r].launch \in Launches
    BY <1>2 DEF Begun
  <2>2. /\ record' = [record EXCEPT ![relay[r].launch].mined = TRUE]
        /\ receipt' = [receipt EXCEPT ![r] = "none"]
        /\ UNCHANGED <<resv, relay, prep, chain>>
    BY <1>2 DEF StoreReceipt, TxLaunch
  <2>3. /\ record' \in [Launches -> [state : RecordState, tx : Requests \cup {None}, mined : BOOLEAN]]
        /\ \A m \in Launches : record'[m].tx = record[m].tx /\ record'[m].state = record[m].state
        /\ \A m \in Launches \ {relay[r].launch} : record'[m].mined = record[m].mined
    <3> DEFINE row == [record[relay[r].launch] EXCEPT !.mined = TRUE]
    <3>1. record \in [Launches -> [state : RecordState, tx : Requests \cup {None}, mined : BOOLEAN]]
      BY DEF TypeOK
    <3>2. /\ row \in [state : RecordState, tx : Requests \cup {None}, mined : BOOLEAN]
          /\ row.state = record[relay[r].launch].state /\ row.tx = record[relay[r].launch].tx
      BY <2>1, <3>1
    <3>3. record' = [record EXCEPT ![relay[r].launch] = row]
      BY <2>2
    <3> HIDE DEF row
    <3> QED BY ONLY <2>1, <3>1, <3>2, <3>3
  <2>4. TypeOK'
    BY <2>2, <2>3 DEF TypeOK
  <2>5. Begun' /\ AnswersFinal' /\ PreparesPlaced' /\ ReservationsNamed'
    BY <2>2 DEF Begun, AnswersFinal, PreparesPlaced, ReservationsNamed, TypeOK
  <2>6. OneHolder'
    BY <2>2 DEF OneHolder, Holds, Slot
  <2>7. HashWritten' /\ CompletedHasTransaction'
    BY <2>2, <2>3 DEF HashWritten, Begun, CompletedHasTransaction, ReservationsNamed
  <2>8. RecordedTxIsReal'
    <3>1. tx[r] = "success" \/ relay[r].launch \in reorged
      BY <1>2 DEF Begun
    <3> QED BY <2>1, <2>2, <2>3, <3>1 DEF RecordedTxIsReal, TxLaunch
  <2>9. FailedHasCause' /\ SentUnlessReopened'
    BY <2>2, <2>3, CausesStay, StatesKept
  <2> QED BY <2>4, <2>5, <2>6, <2>7, <2>8, <2>9
<1>3. ASSUME GetReceipt(r) \/ WatchLost(r) PROVE IInv'
  <2> USE DEF IInv
  <2>1. /\ receipt' \in [Requests -> {"none", "awaited", "success", "reverted"}]
        /\ \A s \in Requests : receipt'[s] # receipt[s] =>
              receipt[s] # "none" /\ (receipt'[s] = "none" \/ receipt'[s] = tx[s])
        /\ UNCHANGED <<rows, relay, prep, chain>>
    BY <1>3 DEF GetReceipt, WatchLost, TypeOK
  <2>2. TypeOK' /\ Begun' /\ AnswersFinal' /\ PreparesPlaced' /\ ReservationsNamed'
    BY <2>1 DEF TypeOK, Begun, AnswersFinal, PreparesPlaced, ReservationsNamed
  <2>3. OneHolder' /\ HashWritten' /\ CompletedHasTransaction'
    BY <2>1 DEF OneHolder, Holds, Slot, HashWritten, CompletedHasTransaction
  <2>4. RecordedTxIsReal'
    BY <2>1 DEF RecordedTxIsReal, TxLaunch
  <2>5. FailedHasCause' /\ SentUnlessReopened'
    BY <2>1, CausesStay, StatesKept
  <2> QED BY <2>2, <2>3, <2>4, <2>5
<1> QED BY <1>1, <1>2, <1>3 DEF StoreReceipt

\* The indexer.
LEMMA IndexerHolds ==
    ASSUME IInv, NEW l \in Launches, IndexerConfirms(l) \/ IndexerReorgs(l) PROVE IInv'
<1>1. PICK st \in RecordState \ {"FAILED"} :
        /\ record' = [record EXCEPT ![l].state = st] /\ relay' = relay
        /\ UNCHANGED <<resv, prep, chain, receipt>>
        /\ st \in Sent \/ l \in reorged
  BY DEF IndexerConfirms, IndexerReorgs, RecordState, Sent
<1>2. st \in Sent \/ Reopened(l)
  BY <1>1 DEF Reopened
<1>3. receipt' \in [Requests -> {"none", "awaited", "success", "reverted"}]
  BY <1>1 DEF IInv, TypeOK
<1> QED BY <1>1, <1>2, <1>3, StateStepHolds

\* Every step preserves the invariant.
LEMMA StepHolds == IInv /\ [Next]_vars => IInv'
<1> SUFFICES ASSUME IInv, [Next]_vars PROVE IInv'
  OBVIOUS
<1>1. CASE UNCHANGED vars
  BY <1>1 DEF vars, IInv, TypeOK, Begun, ReservationsNamed, OneHolder, Holds, Slot, HashWritten,
       RecordedTxIsReal, TxLaunch, CompletedHasTransaction, FailedHasCause, FailedCause, Erred,
       WroteBack, SentUnlessReopened, Reopened, PreparesPlaced, AnswersFinal
<1>2. ASSUME NEW r \in Requests, RelayNext(r) PROVE IInv'
  BY <1>2, QuietStepsHold, ReserveHolds, BroadcastHolds, UpdatesHold, RecordFailedHolds
     DEF RelayNext
<1>3. CASE ChainNext
  BY <1>3, ChainHolds, WatchHolds, IndexerHolds DEF ChainNext
<1> QED BY <1>1, <1>2, <1>3, PrepareHolds DEF Next

\* The invariant holds in every reachable state.
THEOREM Invariant == Spec => []IInv
BY InitHolds, StepHolds, PTL DEF Spec

\* Every row, request and transaction keeps its type (record, reservation, relay, prepare).
THEOREM TypeCorrect == Spec => []TypeOK
<1>1. IInv => TypeOK
  BY DEF IInv
<1> QED BY <1>1, Invariant, PTL

\* One idempotency key, one transaction: the unique key of idempotency_requests lets one
\* request per creator and key reach writeContract, for any number of racing requests.
THEOREM KeyBroadcastsOnce == Spec => []OneBroadcastPerKey
<1>1. IInv => OneBroadcastPerKey
  BY DEF IInv, OneHolder, Holds, OneBroadcastPerKey
<1> QED BY <1>1, Invariant, PTL

\* What launch_records and idempotency_requests say of transactions is so: a hash is one that
\* was broadcast for the launch, a block is that of a success, COMPLETED comes after the hash.
THEOREM RowsTellTheChain == Spec => []TransactionsRecorded
<1>1. IInv => TransactionsRecorded
  BY DEF IInv, TransactionsRecorded
<1> QED BY <1>1, Invariant, PTL

\* FAILED beside a launch that is on the chain takes a second transaction, a launch by the
\* creator, a reorganisation, a relay that ended in an error, or a prepare that writes a
\* stale FAILED back: watchReceipt and the catch block never report it otherwise.
THEOREM FailedTruthful == Spec => []FailedIsTruthful
<1>1. ASSUME IInv PROVE FailedIsTruthful
  <2> SUFFICES ASSUME NEW l \in Launches, record[l].state = "FAILED", Launched(l),
                      l \notin direct \cup reorged, ~Erred(l), ~WroteBack(l, "FAILED")
               PROVE  \E r, s \in Requests :
                         r # s /\ \A q \in {r, s} : tx[q] # "none" /\ relay[q].launch = l
    BY DEF FailedIsTruthful, TxLaunch
  <2>1. PICK r \in Requests : tx[r] = "reverted" /\ relay[r].launch = l
    BY <1>1 DEF IInv, FailedHasCause, FailedCause
  <2>2. PICK s \in Requests : tx[s] = "success" /\ relay[s].launch = l
    BY DEF Launched, TxLaunch
  <2>3. r # s
    BY <2>1, <2>2
  <2> QED BY <2>1, <2>2, <2>3
<1> QED BY <1>1, Invariant, PTL

\* A launch that relay answered 202 is relayed again only after a revert, a reorganisation, an
\* error of another relay of it, or a prepare that overwrote a newer state, for any number of
\* requests and prepares: the hash and the state are written before the answer, and only
\* these take the state back.
THEOREM SubmissionFinal == Spec => SubmittedOnce
<1>1. ASSUME IInv, [Next]_vars,
             NEW r \in Requests, NEW s \in Requests,
             relay[r].pc = "idle", relay'[r].pc = "lookup",
             relay[s].outcome = "SUBMITTED", TxLaunch(s) = relay'[r].launch
      PROVE  Reopened(TxLaunch(s))
  <2>1. PICK l \in Launches, k \in Keys : RelayBegin(r, l, k)
    <3>1. relay' # relay
      BY <1>1
    <3>2. PICK q \in Requests : RelayNext(q)
      BY <1>1, <3>1 DEF Next, vars, PrepareNext, PrepareFind, PrepareRejected, PrepareSave,
         PrepareCrash, ChainNext, MineSuccess, MineRevert, GetReceipt, StoreReceipt, WatchLost,
         DirectLaunch, Reorg, IndexerConfirms, IndexerReorgs
    <3>3. q = r
      <4>1. relay'[r] # relay[r]
        BY <1>1
      <4>2. relay \in RelayTable
        BY <1>1 DEF IInv, TypeOK, RelayTable, Request
      <4>3. ASSUME q # r PROVE relay'[r] = relay[r]
        BY <3>2, <4>2, <4>3 DEF RelayTable, RelayNext, RelayBegin, Lookup, Reserve, Gate, Broadcast,
           BroadcastFails, RecordSubmitted, Complete, UpdateFails, RecordFailed, RelayDies,
           Goto, Answer, Throw
      <4> QED BY <4>1, <4>3
    <3> QED BY <1>1, <3>2, <3>3 DEF RelayNext, Lookup, Reserve, Gate, Broadcast, BroadcastFails,
           RecordSubmitted, Complete, UpdateFails, RecordFailed, RelayDies
  <2>2. relay'[r].launch = l /\ record[l].state \notin Sent
    BY <1>1, <2>1, LaunchAssumption DEF RelayBegin, IInv, TypeOK
  <2> QED BY <1>1, <2>2 DEF IInv, SentUnlessReopened, TxLaunch
<1>2. IInv /\ [Next]_vars => [\A r, s \in Requests :
          /\ relay[r].pc = "idle" /\ relay'[r].pc = "lookup"
          /\ relay[s].outcome = "SUBMITTED" /\ TxLaunch(s) = relay'[r].launch
          => Reopened(TxLaunch(s))]_vars
  BY <1>1
<1> QED BY <1>2, Invariant, PTL DEF Spec, SubmittedOnce
=============================================================================
