----------------------------- MODULE LaunchRelay -----------------------------
(***************************************************************************)
(* The launch flow: prepare writes a launch record, relay signs and        *)
(* broadcasts it under an idempotency reservation, watchReceipt follows    *)
(* the transaction.  Every await of the three is a step, so other          *)
(* requests, the chain, its reorganisations and crashes run in between.    *)
(*                                                                         *)
(* A launch stands for one (chainId, configHash, creator), the unique key  *)
(* of the record.  A relay request broadcasts at most once, so it also     *)
(* names its transaction.  Validation, metadata and quotes of prepare do   *)
(* not touch this state.                                                   *)
(***************************************************************************)

CONSTANTS
    Launches,           \* launch identities
    Creators,
    CreatorOf,          \* the creator wallet of each launch
    Keys,               \* Idempotency-Key header values
    Requests,           \* relay requests, each made once
    Prepares,           \* prepare requests, each made once
    OperatorConfigured, \* TRUSTED_OPERATOR_PRIVATE_KEY is set
    None

\* What relay answers, and the answers after which the record and the chain may disagree.
Answers == {"LAUNCH_RECORD_NOT_FOUND", "REPLAYED", "OPERATOR_NOT_CONFIGURED",
            "IDEMPOTENCY_KEY_REUSED", "REQUEST_IN_PROGRESS", "INTERNAL_ERROR",
            "PROTOCOL_NOT_DEPLOYED", "RELAY_DISABLED", "SUBMITTED", "LAUNCH_BROADCAST_FAILED"}
Errors == {"LAUNCH_BROADCAST_FAILED", "INTERNAL_ERROR"}

ASSUME LaunchAssumption ==
    /\ CreatorOf \in [Launches -> Creators]
    /\ OperatorConfigured \in BOOLEAN
    /\ None \notin Launches \cup Requests \cup Answers

VARIABLES
    record,     \* launch_records: state, transactionHash, blockNumber known
    resv,       \* idempotency_requests of the relay scope
    relay,      \* state of each relay request
    prep,       \* state of each prepare request
    tx,         \* the chain: status of the transaction of each request
    direct,     \* the chain: launches the creator made without the backend
    reorged,    \* launches of which the chain has taken transactions back
    receipt     \* watchReceipt of each request: waiting, or the status it got

rows == <<record, resv>>
chain == <<tx, direct, reorged>>
vars == <<rows, relay, prep, chain, receipt>>

RecordState == {"none", "PENDING_RELAY", "SUBMITTED", "CONFIRMED", "REORGED", "FAILED"}
Sent == {"SUBMITTED", "CONFIRMED"}

Init ==
    /\ record = [l \in Launches |-> [state |-> "none", tx |-> None, mined |-> FALSE]]
    /\ resv = [s \in Creators \X Keys |-> [state |-> "none", launch |-> None]]
    /\ relay = [r \in Requests |->
            [pc |-> "idle", launch |-> None, key |-> None, outcome |-> None, answer |-> None]]
    /\ prep = [p \in Prepares |-> [pc |-> "idle", launch |-> None, seen |-> "none", stale |-> FALSE]]
    /\ tx = [r \in Requests |-> "none"]
    /\ direct = {}
    /\ reorged = {}
    /\ receipt = [r \in Requests |-> "none"]

-----------------------------------------------------------------------------
(***************************************************************************)
(* LaunchPrepareService.prepare, from its findUnique on.                   *)
(***************************************************************************)

PrepareFind(p, l) ==
    /\ prep[p].pc = "idle"
    /\ prep' = [prep EXCEPT ![p] = 
            [pc |-> "save", launch |-> l, seen |-> record[l].state, stale |-> FALSE]]
    /\ UNCHANGED <<rows, relay, chain, receipt>>

\* Mutant: preparing a launch again puts it back to PENDING_RELAY.
PrepareResets(p) ==
    /\ prep[p].pc = "save"
    /\ LET l == prep[p].launch IN
        /\ record' = [record EXCEPT ![l].state =
                IF prep[p].seen # "none" \/ @ = "none" THEN "PENDING_RELAY" ELSE @]
        /\ prep' = [prep EXCEPT ![p].pc = "done",
                               ![p].stale = record[l].state # prep[p].seen]
    /\ UNCHANGED <<resv, relay, chain, receipt>>

\* The update writes back the state read by the findUnique, which may be stale by now
\* (a history field); the create of a record that exists by now violates its unique
\* key and answers 500.
PrepareSave(p) ==
    /\ prep[p].pc = "save"
    /\ LET l == prep[p].launch
           s == prep[p].seen IN
        /\ record' = [record EXCEPT ![l].state =
                IF s # "none" THEN s
                ELSE IF @ = "none" THEN "PENDING_RELAY"
                ELSE @]
        /\ prep' = [prep EXCEPT ![p].pc = "done", ![p].stale = record[l].state # s]
    /\ UNCHANGED <<resv, relay, chain, receipt>>

\* No manifest, a supply, dev buy or payout plan that is not allowed, a failed upload
\* or chain read: the request ends before it touches the record.
PrepareRejected(p) ==
    /\ prep[p].pc = "idle"
    /\ prep' = [prep EXCEPT ![p].pc = "done"]
    /\ UNCHANGED <<rows, relay, chain, receipt>>

PrepareCrash(p) ==
    /\ prep[p].pc = "save"
    /\ prep' = [prep EXCEPT ![p].pc = "done"]
    /\ UNCHANGED <<rows, relay, chain, receipt>>

-----------------------------------------------------------------------------
(***************************************************************************)
(* LaunchRelayService.relay.                                               *)
(***************************************************************************)

Goto(r, pc) == relay' = [relay EXCEPT ![r].pc = pc]
Answer(r, outcome, l) ==
    relay' = [relay EXCEPT ![r].pc = "done", ![r].outcome = outcome, ![r].answer = l]
Throw(r, outcome) == Answer(r, outcome, None)

\* The reservation row (scope, creator, key) of a request.
Slot(r) == <<CreatorOf[relay[r].launch], relay[r].key>>

\* launchRecord.findUnique and the early returns on it.
RelayBegin(r, l, k) ==
    /\ relay[r].pc = "idle"
    /\ LET outcome == IF record[l].state = "none" THEN "LAUNCH_RECORD_NOT_FOUND"
                      ELSE IF record[l].state \in Sent THEN "REPLAYED"
                      ELSE IF ~OperatorConfigured THEN "OPERATOR_NOT_CONFIGURED"
                      ELSE None
       IN relay' = [relay EXCEPT ![r] =
            [pc |-> IF outcome = None THEN "lookup" ELSE "done", launch |-> l, key |-> k,
             outcome |-> outcome, answer |-> IF outcome = "REPLAYED" THEN l ELSE None]]
    /\ UNCHANGED <<rows, prep, chain, receipt>>

\* idempotencyRequest.findUnique: a completed row answers before the hash of
\* the request is compared.
Lookup(r) ==
    /\ relay[r].pc = "lookup"
    /\ LET row == resv[Slot(r)] IN
        \/ row.state = "none" /\ Goto(r, "reserve")
        \/ row.state = "COMPLETED" /\ Answer(r, "REPLAYED", row.launch)
        \/ /\ row.state = "IN_PROGRESS"
           /\ Throw(r, IF row.launch # relay[r].launch THEN "IDEMPOTENCY_KEY_REUSED"
                       ELSE "REQUEST_IN_PROGRESS")
    /\ UNCHANGED <<rows, prep, chain, receipt>>

\* Mutant: the reservation is an upsert.
ReserveUpsert(r) ==
    /\ relay[r].pc = "reserve"
    /\ resv' = [resv EXCEPT ![Slot(r)] = [state |-> "IN_PROGRESS", launch |-> relay[r].launch]]
    /\ Goto(r, "gate")
    /\ UNCHANGED <<record, prep, chain, receipt>>

\* idempotencyRequest.create: the unique key lets one request through.
Reserve(r) ==
    /\ relay[r].pc = "reserve"
    /\ \/ /\ resv[Slot(r)].state = "none"
          /\ resv' = [resv EXCEPT ![Slot(r)] =
                        [state |-> "IN_PROGRESS", launch |-> relay[r].launch]]
          /\ Goto(r, "gate")
       \/ /\ resv[Slot(r)].state # "none"
          /\ Throw(r, "INTERNAL_ERROR")
          /\ UNCHANGED resv
    /\ UNCHANGED <<record, prep, chain, receipt>>

\* No manifest for the chain, or trustedOperator zero on chain: 503, and the
\* reservation stays as it is.
Gate(r) ==
    /\ relay[r].pc = "gate"
    /\ \/ Goto(r, "broadcast")
       \/ Throw(r, "PROTOCOL_NOT_DEPLOYED")
       \/ Throw(r, "RELAY_DISABLED")
    /\ UNCHANGED <<rows, prep, chain, receipt>>

\* Mutant: the reservation completes before the record has the hash.
BroadcastSkipsRecord(r) ==
    /\ relay[r].pc = "broadcast"
    /\ tx' = [tx EXCEPT ![r] = "pending"]
    /\ Goto(r, "complete")
    /\ UNCHANGED <<rows, prep, direct, reorged, receipt>>

\* signTypedData and writeContract.
Broadcast(r) ==
    /\ relay[r].pc = "broadcast"
    /\ tx' = [tx EXCEPT ![r] = "pending"]
    /\ Goto(r, "submitted")
    /\ UNCHANGED <<rows, prep, direct, reorged, receipt>>

\* Mutant: the error of writeContract is swallowed.
BroadcastErrorIgnored(r) ==
    /\ relay[r].pc = "broadcast"
    /\ tx' \in {tx, [tx EXCEPT ![r] = "pending"]}
    /\ Goto(r, "submitted")
    /\ UNCHANGED <<rows, prep, direct, reorged, receipt>>

\* writeContract throws: the node refused the transaction, or took it and the
\* answer was lost.
BroadcastFails(r) ==
    /\ relay[r].pc = "broadcast"
    /\ tx' \in {tx, [tx EXCEPT ![r] = "pending"]}
    /\ Goto(r, "failed")
    /\ UNCHANGED <<rows, prep, direct, reorged, receipt>>

\* launchRecord.update to SUBMITTED.
RecordSubmitted(r) ==
    /\ relay[r].pc = "submitted"
    /\ record' = [record EXCEPT ![relay[r].launch].state = "SUBMITTED",
                                ![relay[r].launch].tx = r]
    /\ Goto(r, "complete")
    /\ UNCHANGED <<resv, prep, chain, receipt>>

\* idempotencyRequest.update to COMPLETED, watchReceipt, 202.
Complete(r) ==
    /\ relay[r].pc = "complete"
    /\ resv' = [resv EXCEPT ![Slot(r)].state = "COMPLETED"]
    /\ receipt' = [receipt EXCEPT ![r] = "awaited"]
    /\ Answer(r, "SUBMITTED", relay[r].launch)
    /\ UNCHANGED <<record, prep, chain>>

\* One of the two updates throws, before it took effect or after (its reply is lost):
\* the catch block runs.
UpdateFails(r) ==
    /\ \/ /\ relay[r].pc = "submitted"
          /\ record' \in {record, [record EXCEPT ![relay[r].launch].state = "SUBMITTED",
                                                ![relay[r].launch].tx = r]}
          /\ UNCHANGED resv
       \/ /\ relay[r].pc = "complete"
          /\ resv' \in {resv, [resv EXCEPT ![Slot(r)].state = "COMPLETED"]}
          /\ UNCHANGED record
    /\ Goto(r, "failed")
    /\ UNCHANGED <<prep, chain, receipt>>

\* The catch block: the record is FAILED, the reservation is not touched.  The reply
\* of the update may be lost: the request ends in a 500.
RecordFailed(r) ==
    /\ relay[r].pc = "failed"
    /\ record' = [record EXCEPT ![relay[r].launch].state = "FAILED"]
    /\ \/ Throw(r, "LAUNCH_BROADCAST_FAILED")
       \/ Throw(r, "INTERNAL_ERROR")
    /\ UNCHANGED <<resv, prep, chain, receipt>>

\* A database error outside the try, or in the catch block, answers 500; a
\* crash of the process answers nothing.  Neither changes a row.
RelayDies(r) ==
    /\ relay[r].pc \notin {"idle", "done"}
    /\ Throw(r, "INTERNAL_ERROR")
    /\ UNCHANGED <<rows, prep, chain, receipt>>

-----------------------------------------------------------------------------
(***************************************************************************)
(* watchReceipt, and the chain it waits for.                               *)
(***************************************************************************)

TxLaunch(r) == relay[r].launch
Launched(l) == l \in direct \/ \E r \in Requests : tx[r] = "success" /\ TxLaunch(r) = l

\* The hook launches a configuration once (CREATE2); any transaction may
\* revert for its own reasons (deadline, signer, gas).
MineSuccess(r) ==
    /\ tx[r] = "pending"
    /\ ~Launched(TxLaunch(r))
    /\ tx' = [tx EXCEPT ![r] = "success"]
    /\ UNCHANGED <<rows, relay, prep, direct, reorged, receipt>>

MineRevert(r) ==
    /\ tx[r] = "pending"
    /\ tx' = [tx EXCEPT ![r] = "reverted"]
    /\ UNCHANGED <<rows, relay, prep, direct, reorged, receipt>>

\* The creator calls the hook without the backend.
DirectLaunch(l) ==
    /\ ~Launched(l)
    /\ direct' = direct \cup {l}
    /\ UNCHANGED <<rows, relay, prep, tx, reorged, receipt>>

\* The chain reorganises and takes back blocks with transactions of the launch, which
\* are pending again.  One reorganisation per launch is the bound.
Reorg(l) ==
    /\ l \notin reorged
    /\ \E S \in SUBSET {r \in Requests : tx[r] \in {"success", "reverted"} /\ TxLaunch(r) = l} :
        /\ tx' = [r \in Requests |-> IF r \in S THEN "pending" ELSE tx[r]]
        /\ direct' \in {direct, direct \ {l}}
        /\ S # {} \/ direct' # direct
    /\ reorged' = reorged \cup {l}
    /\ UNCHANGED <<rows, relay, prep, receipt>>

\* waitForTransactionReceipt returns.
GetReceipt(r) ==
    /\ receipt[r] = "awaited"
    /\ tx[r] \in {"success", "reverted"}
    /\ receipt' = [receipt EXCEPT ![r] = tx[r]]
    /\ UNCHANGED <<rows, relay, prep, chain>>

\* Success stores the block, a revert marks the record FAILED.
StoreReceipt(r) ==
    /\ receipt[r] \in {"success", "reverted"}
    /\ record' = IF receipt[r] = "success"
                 THEN [record EXCEPT ![TxLaunch(r)].mined = TRUE]
                 ELSE [record EXCEPT ![TxLaunch(r)].state = "FAILED"]
    /\ receipt' = [receipt EXCEPT ![r] = "none"]
    /\ UNCHANGED <<resv, relay, prep, chain>>

\* Mutant: a receipt that does not come in time counts as a failure.
TimeoutFails(r) ==
    /\ receipt[r] # "none"
    /\ record' = [record EXCEPT ![TxLaunch(r)].state = "FAILED"]
    /\ receipt' = [receipt EXCEPT ![r] = "none"]
    /\ UNCHANGED <<resv, relay, prep, chain>>

\* waitForTransactionReceipt times out, the update fails, or the API restarts.
WatchLost(r) ==
    /\ receipt[r] # "none"
    /\ receipt' = [receipt EXCEPT ![r] = "none"]
    /\ UNCHANGED <<rows, relay, prep, chain>>

\* The indexer (outside this repository) binds the Launched event.
IndexerConfirms(l) ==
    /\ Launched(l)
    /\ record[l].state \notin {"none", "CONFIRMED"}
    /\ record' = [record EXCEPT ![l].state = "CONFIRMED"]
    /\ UNCHANGED <<resv, relay, prep, chain, receipt>>

\* The indexer takes its confirmation back.
IndexerReorgs(l) ==
    /\ l \in reorged
    /\ record[l].state = "CONFIRMED"
    /\ record' = [record EXCEPT ![l].state = "REORGED"]
    /\ UNCHANGED <<resv, relay, prep, chain, receipt>>

-----------------------------------------------------------------------------

RelayNext(r) ==
    \/ \E l \in Launches, k \in Keys : RelayBegin(r, l, k)
    \/ Lookup(r)
    \/ Reserve(r)
    \/ Gate(r)
    \/ Broadcast(r)
    \/ BroadcastFails(r)
    \/ RecordSubmitted(r)
    \/ Complete(r)
    \/ UpdateFails(r)
    \/ RecordFailed(r)
    \/ RelayDies(r)

ChainNext ==
    \/ \E r \in Requests : MineSuccess(r) \/ MineRevert(r)
    \/ \E r \in Requests : GetReceipt(r) \/ StoreReceipt(r) \/ WatchLost(r)
    \/ \E l \in Launches : DirectLaunch(l) \/ Reorg(l) \/ IndexerConfirms(l) \/ IndexerReorgs(l)

PrepareNext(p) ==
    \/ \E l \in Launches : PrepareFind(p, l)
    \/ PrepareRejected(p)
    \/ PrepareSave(p)
    \/ PrepareCrash(p)

Next ==
    \/ \E p \in Prepares : PrepareNext(p)
    \/ \E r \in Requests : RelayNext(r)
    \/ ChainNext

Spec == Init /\ [][Next]_vars

-----------------------------------------------------------------------------
(***************************************************************************)
(* Properties.                                                             *)
(***************************************************************************)

Outcomes == Answers \cup {None}
RelayPc == {"idle", "lookup", "reserve", "gate", "broadcast", "submitted", "complete",
            "failed", "done"}

\* Every row, request and transaction keeps its type.
TypeOK ==
    /\ record \in [Launches -> [state : RecordState, tx : Requests \cup {None}, mined : BOOLEAN]]
    /\ resv \in [Creators \X Keys -> [state : {"none", "IN_PROGRESS", "COMPLETED"},
                                      launch : Launches \cup {None}]]
    /\ relay \in [Requests -> [pc : RelayPc, launch : Launches \cup {None},
                               key : Keys \cup {None}, outcome : Outcomes,
                               answer : Launches \cup {None}]]
    /\ prep \in [Prepares -> [pc : {"idle", "save", "done"}, launch : Launches \cup {None},
                              seen : RecordState, stale : BOOLEAN]]
    /\ tx \in [Requests -> {"none", "pending", "success", "reverted"}]
    /\ direct \subseteq Launches
    /\ reorged \subseteq Launches
    /\ receipt \in [Requests -> {"none", "awaited", "success", "reverted"}]

\* One idempotency key, one transaction: two requests with the same creator and
\* key never both reach the chain, however they interleave and fail.
OneBroadcastPerKey ==
    \A r, s \in Requests :
        r # s /\ tx[r] # "none" /\ tx[s] # "none" => Slot(r) # Slot(s)

\* The transaction hash a record shows is one that was broadcast for that very
\* launch, whatever re-prepare, retry or failure came after, and its block is known
\* only when one of the launch's transactions succeeded, or had until a reorganisation.
RecordedTxIsReal ==
    \A l \in Launches :
        /\ record[l].tx # None => tx[record[l].tx] # "none" /\ TxLaunch(record[l].tx) = l
        /\ record[l].mined =>
              l \in reorged \/ \E r \in Requests : tx[r] = "success" /\ TxLaunch(r) = l

\* A reservation is COMPLETED only after the hash of a broadcast for that launch
\* is on the record: the order of the two updates survives failures.
CompletedHasTransaction ==
    \A s \in Creators \X Keys : resv[s].state = "COMPLETED" =>
        /\ record[resv[s].launch].tx # None
        /\ CreatorOf[resv[s].launch] = s[1]

\* What records and reservations say of transactions is so, in spite of re-prepares,
\* retries and failed updates.
TransactionsRecorded == RecordedTxIsReal /\ CompletedHasTransaction

\* A prepare has written back the old state st over a newer one.
WroteBack(l, st) == \E p \in Prepares : prep[p].launch = l /\ prep[p].seen = st /\ prep[p].stale

\* A relay of the launch ended in an error after which it may be on the chain.
Erred(l) == \E r \in Requests : relay[r].outcome \in Errors /\ TxLaunch(r) = l

\* FAILED beside a launch that succeeded takes a second transaction for the same
\* launch, a launch by the creator, a reorganisation, an error after this one was
\* accepted, or a prepare that writes a stale FAILED back: a single undisturbed relay
\* never reports it.
FailedIsTruthful ==
    \A l \in Launches : record[l].state = "FAILED" /\ Launched(l) =>
        \/ l \in direct \cup reorged
        \/ \E r, s \in Requests : r # s /\ \A q \in {r, s} : tx[q] # "none" /\ TxLaunch(q) = l
        \/ Erred(l)
        \/ WroteBack(l, "FAILED")

\* What may take a launch that was sent back to a state in which relay sends it.
Reopened(l) ==
    \/ \E r \in Requests : tx[r] = "reverted" /\ TxLaunch(r) = l
    \/ l \in reorged
    \/ Erred(l)
    \/ \E st \in RecordState \ Sent : WroteBack(l, st)

\* A launch that was answered 202 is relayed again only if a transaction of it reverted,
\* a reorganisation took one back, another relay of it ended in an error, or a prepare
\* wrote a stale state over the newer one; a re-prepare in itself does not reopen it.
SubmittedOnce ==
    [][\A r, s \in Requests :
        /\ relay[r].pc = "idle" /\ relay'[r].pc = "lookup"
        /\ relay[s].outcome = "SUBMITTED" /\ TxLaunch(s) = relay'[r].launch
        => Reopened(TxLaunch(s))]_vars

\* An answer shows the launch the request named: a reused key with a different
\* body is refused, never answered with the other launch.
AnswersTheLaunchAsked ==
    \A r \in Requests : relay[r].answer # None => relay[r].answer = relay[r].launch

\* REQUEST_IN_PROGRESS means that a request with the same key is in flight.
InProgressMeansInFlight ==
    [][\A r \in Requests :
        relay'[r].outcome = "REQUEST_IN_PROGRESS" /\ relay[r].outcome = None =>
            \E s \in Requests \ {r} : /\ relay[s].pc \notin {"idle", "done"}
                                      /\ Slot(s) = Slot(r)]_vars
=============================================================================
