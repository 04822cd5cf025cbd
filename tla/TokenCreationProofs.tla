------------------------- MODULE TokenCreationProofs -------------------------
(***************************************************************************)
(* Proofs about TokenCreation, for any number of requests, keys and        *)
(* bodies.  The invariants that TLC checks say nothing of a request that   *)
(* has read a row and not yet answered, nor of what a row's resource is;   *)
(* IInv adds both.                                                         *)
(***************************************************************************)
EXTENDS TokenCreation, TLAPS

\* A request has an input once it started, and no answer until it is done.
Started ==
  \A r \in Requests :
    /\ pc[r] = "idle" <=> in[r] = NoInput
    /\ pc[r] # "done" => answer[r] = "none"
    /\ r \in tokens => pc[r] \in {"find", "done"}

\* A row has a resource exactly when it is completed: a token of its key.
RowsResolve ==
  \A k \in Keys : idem[k] # NoRow =>
    /\ idem[k].state = "COMPLETED" <=> idem[k].resource # NoResource
    /\ idem[k].resource # NoResource =>
         idem[k].resource \in tokens /\ in[idem[k].resource] = [key |-> k, body |-> idem[k].hash]

\* What a request is about to answer is a token of its own input.
FoundOwn == \A r \in Requests : pc[r] = "find" => found[r] \in tokens /\ in[found[r]] = in[r]

IInv == TypeOK /\ Started /\ OneHolder /\ OneTokenPerKey /\ RowsResolve /\ FoundOwn /\ AnswersOwnToken

\* The initial state satisfies the invariant.
LEMMA InitHolds == Init => IInv
BY CreationAssumption
DEF Init, IInv, TypeOK, Started, OneHolder, Holding, OneTokenPerKey, RowsResolve, FoundOwn,
    AnswersOwnToken, Steps

\* A free key has no holder and no token.
LEMMA FreeKeyUnused ==
  ASSUME TypeOK, Started, OneHolder, OneTokenPerKey, NEW k \in Keys, idem[k] = NoRow
  PROVE  /\ \A s \in Requests : Holding(s) => in[s].key # k
         /\ \A t \in tokens : in[t].key # k
<1> USE CreationAssumption
<1>1. ASSUME NEW s \in Requests, Holding(s), in[s].key = k PROVE FALSE
  <2>1. in[s] \in [key : Keys, body : Bodies]
    BY <1>1 DEF TypeOK, Started, Holding
  <2>2. [hash |-> in[s].body, state |-> "IN_PROGRESS", resource |-> NoResource] \in Row
    BY <2>1 DEF Row
  <2> QED BY <2>2, <1>1 DEF OneHolder
<1>2. ASSUME NEW t \in tokens, in[t].key = k PROVE FALSE
  <2>0. t \in Requests /\ pc[t] # "idle"
    BY <1>2 DEF TypeOK, Started
  <2>1. in[t] \in [key : Keys, body : Bodies]
    BY <2>0 DEF TypeOK, Started
  <2>2. [hash |-> in[t].body, state |-> "COMPLETED", resource |-> t] \in Row
    BY <2>0, <2>1 DEF Row
  <2> QED BY <2>2, <1>2 DEF OneTokenPerKey
<1> QED BY <1>1, <1>2

\* While a request holds a key, the key has no token and no other holder.
LEMMA HeldKey ==
  ASSUME TypeOK, Started, OneHolder, OneTokenPerKey, NEW r \in Requests, Holding(r)
  PROVE  /\ in[r] \in [key : Keys, body : Bodies] /\ answer[r] = "none"
         /\ idem[in[r].key] = [hash |-> in[r].body, state |-> "IN_PROGRESS", resource |-> NoResource]
         /\ idem[in[r].key] # NoRow
         /\ \A t \in tokens : in[t].key # in[r].key
         /\ \A s \in Requests : Holding(s) /\ in[s].key = in[r].key => s = r
<1> USE CreationAssumption
<1>1. in[r] \in [key : Keys, body : Bodies] /\ answer[r] = "none"
  BY DEF TypeOK, Started, Holding
<1>2. /\ idem[in[r].key] = [hash |-> in[r].body, state |-> "IN_PROGRESS", resource |-> NoResource]
      /\ \A s \in Requests : Holding(s) /\ in[s].key = in[r].key => s = r
  BY DEF OneHolder
<1>3. [hash |-> in[r].body, state |-> "IN_PROGRESS", resource |-> NoResource] \in Row
  BY <1>1 DEF Row
<1>4. ASSUME NEW t \in tokens, in[t].key = in[r].key PROVE FALSE
  <2>1. idem[in[t].key] = [hash |-> in[t].body, state |-> "COMPLETED", resource |-> t]
    BY <1>4 DEF OneTokenPerKey
  <2>2. idem[in[t].key].state = "COMPLETED" /\ idem[in[r].key].state = "IN_PROGRESS"
    BY <2>1, <1>2
  <2> QED BY <2>2, <1>4
<1> QED BY <1>1, <1>2, <1>3, <1>4

\* Every step preserves the invariant.
LEMMA StepHolds == IInv /\ [Next]_vars => IInv'
<1> SUFFICES ASSUME IInv, [Next]_vars PROVE IInv'
  OBVIOUS
<1> USE CreationAssumption DEF IInv
<1>1. ASSUME NEW r \in Requests, Begin(r) PROVE IInv'
  <2> USE <1>1 DEF Begin, Goto
  <2>0. in[r] = NoInput /\ r \notin tokens
    BY DEF TypeOK, Started
  <2>1. TypeOK'
    BY DEF TypeOK, Steps
  <2>2. Started'
    BY <2>0 DEF TypeOK, Started
  <2>3. OneHolder'
    BY DEF TypeOK, OneHolder, Holding
  <2>4. OneTokenPerKey'
    BY <2>0 DEF TypeOK, OneTokenPerKey
  <2>5. RowsResolve'
    BY <2>0 DEF TypeOK, RowsResolve
  <2>6. FoundOwn'
    BY <2>0 DEF TypeOK, FoundOwn
  <2>7. AnswersOwnToken'
    BY <2>0 DEF TypeOK, AnswersOwnToken, Started
  <2> QED BY <2>1, <2>2, <2>3, <2>4, <2>5, <2>6, <2>7
<1>2. ASSUME NEW r \in Requests, Replay(r) PROVE IInv'
  <2> USE <1>2 DEF Replay, Goto, Finish
  <2>0. in[r] \in [key : Keys, body : Bodies] /\ r \notin tokens /\ answer[r] = "none"
    BY DEF TypeOK, Started
  <2>1. TypeOK'
    BY <2>0 DEF TypeOK, Steps, Errors, Row
  <2>2. Started'
    BY <2>0 DEF TypeOK, Started
  <2>3. OneHolder'
    BY <2>0 DEF TypeOK, OneHolder, Holding
  <2>4. OneTokenPerKey'
    BY DEF OneTokenPerKey
  <2>5. RowsResolve'
    BY DEF RowsResolve
  <2>6. FoundOwn'
    BY <2>0 DEF TypeOK, FoundOwn, RowsResolve
  <2>7. AnswersOwnToken'
    BY <2>0 DEF TypeOK, AnswersOwnToken, Errors
  <2> QED BY <2>1, <2>2, <2>3, <2>4, <2>5, <2>6, <2>7
<1>3. ASSUME NEW r \in Requests, Reserve(r) PROVE IInv'
  <2> USE <1>3 DEF Reserve, Goto, Finish
  <2>0. in[r] \in [key : Keys, body : Bodies] /\ r \notin tokens /\ answer[r] = "none"
    BY DEF TypeOK, Started
  <2>a. idem[in[r].key] = NoRow =>
          /\ \A s \in Requests : Holding(s) => in[s].key # in[r].key
          /\ \A t \in tokens : in[t].key # in[r].key
    BY <2>0, FreeKeyUnused
  <2>1. TypeOK'
    BY <2>0 DEF TypeOK, Steps, Errors, Row
  <2>2. Started'
    BY <2>0 DEF TypeOK, Started
  <2>3. OneHolder'
    BY <2>0, <2>a DEF TypeOK, OneHolder, Holding, Started
  <2>4. OneTokenPerKey'
    BY <2>0, <2>a DEF TypeOK, OneTokenPerKey, Started
  <2>5. RowsResolve'
    BY <2>0 DEF TypeOK, RowsResolve, Row
  <2>6. FoundOwn'
    BY <2>0 DEF TypeOK, FoundOwn
  <2>7. AnswersOwnToken'
    BY <2>0 DEF TypeOK, AnswersOwnToken, Errors
  <2> QED BY <2>1, <2>2, <2>3, <2>4, <2>5, <2>6, <2>7
<1>4. ASSUME NEW r \in Requests, Upload(r) PROVE IInv'
  <2> USE <1>4 DEF Upload, Goto
  <2>1. TypeOK'
    BY DEF TypeOK, Steps
  <2>2. Started'
    BY DEF TypeOK, Started
  <2>3. OneHolder'
    BY DEF TypeOK, OneHolder, Holding
  <2>4. OneTokenPerKey' /\ RowsResolve' /\ AnswersOwnToken'
    BY DEF OneTokenPerKey, RowsResolve, AnswersOwnToken
  <2>5. FoundOwn'
    BY DEF TypeOK, FoundOwn
  <2> QED BY <2>1, <2>2, <2>3, <2>4, <2>5
<1>5. ASSUME NEW r \in Requests, ReleaseReservation(r) PROVE IInv'
  <2> USE <1>5 DEF ReleaseReservation, MayRelease, Finish
  <2>0. /\ in[r] \in [key : Keys, body : Bodies] /\ answer[r] = "none"
        /\ idem[in[r].key] = [hash |-> in[r].body, state |-> "IN_PROGRESS", resource |-> NoResource]
        /\ \A t \in tokens : in[t].key # in[r].key
        /\ \A s \in Requests : Holding(s) /\ in[s].key = in[r].key => s = r
    BY HeldKey DEF Holding
  <2>1. TypeOK'
    BY <2>0 DEF TypeOK, Steps, Errors
  <2>2. Started'
    BY <2>0 DEF TypeOK, Started
  <2>3. OneHolder'
    BY <2>0 DEF TypeOK, OneHolder, Holding, Started
  <2>4. OneTokenPerKey'
    BY <2>0 DEF TypeOK, OneTokenPerKey
  <2>5. RowsResolve'
    BY <2>0 DEF TypeOK, RowsResolve
  <2>6. FoundOwn'
    BY <2>0 DEF TypeOK, FoundOwn
  <2>7. AnswersOwnToken'
    BY <2>0 DEF TypeOK, AnswersOwnToken, Errors
  <2> QED BY <2>1, <2>2, <2>3, <2>4, <2>5, <2>6, <2>7
<1>6. ASSUME NEW r \in Requests, Commit(r) PROVE IInv'
  <2> USE <1>6 DEF Commit, Goto, Finish
  <2> DEFINE k == in[r].key
  <2>0. /\ in[r] \in [key : Keys, body : Bodies] /\ k \in Keys /\ answer[r] = "none"
        /\ idem[k] = [hash |-> in[r].body, state |-> "IN_PROGRESS", resource |-> NoResource]
        /\ \A t \in tokens : in[t].key # k
        /\ \A s \in Requests : Holding(s) /\ in[s].key = k => s = r
        /\ idem[k] # NoRow
    BY HeldKey DEF Holding
  <2>b. /\ tokens' = tokens \union {r}
        /\ idem' = [idem EXCEPT ![k] = [hash |-> in[r].body, state |-> "COMPLETED", resource |-> r]]
        /\ found' = [found EXCEPT ![r] = r]
        /\ pc' = [pc EXCEPT ![r] = "find"]
        /\ UNCHANGED <<answer, in, faulted>>
    BY <2>0
  <2>1. TypeOK'
    BY <2>0, <2>b DEF TypeOK, Steps, Row
  <2>2. Started'
    BY <2>0, <2>b DEF TypeOK, Started
  <2>3. OneHolder'
    BY <2>0, <2>b DEF TypeOK, OneHolder, Holding, Started
  <2>4. OneTokenPerKey'
    BY <2>0, <2>b DEF TypeOK, OneTokenPerKey
  <2>5. RowsResolve'
    BY <2>0, <2>b DEF TypeOK, RowsResolve
  <2>6. FoundOwn'
    BY <2>0, <2>b DEF TypeOK, FoundOwn
  <2>7. AnswersOwnToken'
    BY <2>0, <2>b DEF TypeOK, AnswersOwnToken
  <2> QED BY <2>1, <2>2, <2>3, <2>4, <2>5, <2>6, <2>7
<1>7. ASSUME NEW r \in Requests, CommitRaced(r) PROVE IInv'
  <2> USE <1>7 DEF CommitRaced, Goto
  <2>1. TypeOK'
    BY DEF TypeOK, Steps
  <2>2. Started'
    BY DEF TypeOK, Started
  <2>3. OneHolder'
    BY DEF TypeOK, OneHolder, Holding
  <2>4. OneTokenPerKey' /\ RowsResolve' /\ AnswersOwnToken'
    BY DEF OneTokenPerKey, RowsResolve, AnswersOwnToken
  <2>5. FoundOwn'
    BY DEF TypeOK, FoundOwn
  <2> QED BY <2>1, <2>2, <2>3, <2>4, <2>5
<1>8. ASSUME NEW r \in Requests, Find(r) PROVE IInv'
  <2> USE <1>8 DEF Find, Finish
  <2>0. found[r] \in tokens /\ in[found[r]] = in[r] /\ answer[r] = "none"
    BY DEF FoundOwn, Started
  <2>1. TypeOK'
    BY <2>0 DEF TypeOK, Steps
  <2>2. Started'
    BY <2>0 DEF TypeOK, Started
  <2>3. OneHolder'
    BY DEF TypeOK, OneHolder, Holding
  <2>4. OneTokenPerKey' /\ RowsResolve'
    BY DEF OneTokenPerKey, RowsResolve
  <2>5. FoundOwn'
    BY DEF TypeOK, FoundOwn
  <2>6. AnswersOwnToken'
    BY <2>0 DEF TypeOK, AnswersOwnToken
  <2> QED BY <2>1, <2>2, <2>3, <2>4, <2>5, <2>6
<1>9. ASSUME NEW r \in Requests, Dies(r) PROVE IInv'
  <2> USE <1>9 DEF Dies, Finish
  <2>1. TypeOK'
    BY DEF TypeOK, Steps, Errors
  <2>2. Started'
    BY DEF TypeOK, Started
  <2>3. OneHolder'
    BY DEF TypeOK, OneHolder, Holding
  <2>4. OneTokenPerKey' /\ RowsResolve'
    BY DEF OneTokenPerKey, RowsResolve
  <2>5. FoundOwn'
    BY DEF TypeOK, FoundOwn
  <2>6. AnswersOwnToken'
    BY DEF TypeOK, AnswersOwnToken, Errors
  <2> QED BY <2>1, <2>2, <2>3, <2>4, <2>5, <2>6
<1>10. CASE UNCHANGED vars
  BY <1>10 DEF vars, TypeOK, Started, OneHolder, Holding, OneTokenPerKey, RowsResolve, FoundOwn,
               AnswersOwnToken
<1> QED
  BY <1>1, <1>2, <1>3, <1>4, <1>5, <1>6, <1>7, <1>8, <1>9, <1>10 DEF Next, Work

\* The invariant holds in every behaviour.
THEOREM Invariant == Spec => []IInv
BY InitHolds, StepHolds, PTL DEF Spec

\* Locals, rows and tokens keep their types.
THEOREM TypeCorrect == Spec => []TypeOK
BY Invariant, PTL DEF IInv

\* A key has at most one token, and its reservation at most one holder.
THEOREM ExactlyOnce == Spec => [](OneTokenPerKey /\ OneHolder)
BY Invariant, PTL DEF IInv

\* A 201 shows the token of the request's own key and body.
THEOREM OwnAnswers == Spec => []AnswersOwnToken
BY Invariant, PTL DEF IInv

-----------------------------------------------------------------------------
(* A step and the rows, and the refinement.                                *)

\* Only a free key, or one in progress, changes its row.
LEMMA RowSteps ==
  ASSUME IInv, [Next]_vars, NEW k \in Keys, idem'[k] # idem[k]
  PROVE  idem[k] # NoRow => idem[k].state = "IN_PROGRESS"
<1> USE CreationAssumption DEF IInv
<1>1. CASE UNCHANGED vars
  BY <1>1 DEF vars
<1>2. ASSUME NEW r \in Requests, Begin(r) \/ Replay(r) \/ Upload(r) \/ CommitRaced(r) \/ Find(r) \/ Dies(r)
      PROVE  FALSE
  BY <1>2 DEF Begin, Replay, Upload, CommitRaced, Find, Dies
<1>3. ASSUME NEW r \in Requests, Reserve(r) PROVE idem[k] = NoRow
  BY <1>3 DEF Reserve, TypeOK
<1>4. ASSUME NEW r \in Requests, ReleaseReservation(r) PROVE idem[k].state = "IN_PROGRESS"
  <2>1. k = in[r].key
    BY <1>4 DEF ReleaseReservation, TypeOK
  <2>2. idem[k] = [hash |-> in[r].body, state |-> "IN_PROGRESS", resource |-> NoResource]
    BY <1>4, <2>1, HeldKey DEF ReleaseReservation, Holding
  <2> QED BY <2>2
<1>5. ASSUME NEW r \in Requests, Commit(r) PROVE idem[k].state = "IN_PROGRESS"
  <2>1. k = in[r].key
    BY <1>5 DEF Commit, TypeOK
  <2>2. idem[k] = [hash |-> in[r].body, state |-> "IN_PROGRESS", resource |-> NoResource]
    BY <1>5, <2>1, HeldKey DEF Commit, Holding
  <2> QED BY <2>2
<1> HIDE DEF IInv
<1> QED
  BY <1>1, <1>2, <1>3, <1>4, <1>5 DEF Next, Work

\* A completed key stays completed with its token.
THEOREM CompletionFinal == Spec => CompletedStays
<1>1. ASSUME IInv, [Next]_vars
      PROVE  [\A k \in Keys : idem[k] # NoRow /\ idem[k].state = "COMPLETED" => idem'[k] = idem[k]]_vars
  BY <1>1, RowSteps
<1> QED BY <1>1, Invariant, PTL DEF Spec, CompletedStays

Made == [k \in Keys |-> IF idem[k] = NoRow THEN NoResource ELSE idem[k].resource]
Answered == [r \in Requests |-> IF answer[r] \in Errors THEN "error" ELSE answer[r]]

\* Reserving and releasing leave the abstract resources alone.
LEMMA MadeStays ==
  ASSUME IInv, NEW r \in Requests, Reserve(r) \/ ReleaseReservation(r) \/ idem' = idem
  PROVE  Made' = Made
<1> USE CreationAssumption DEF IInv
<1>1. CASE idem' = idem
  BY <1>1 DEF Made
<1>2. CASE Reserve(r) /\ idem' # idem
  <2>1. /\ idem[in[r].key] = NoRow
        /\ idem' = [idem EXCEPT ![in[r].key] =
                      [hash |-> in[r].body, state |-> "IN_PROGRESS", resource |-> NoResource]]
    BY <1>2 DEF Reserve
  <2> QED BY <2>1 DEF Made, TypeOK
<1>3. CASE ReleaseReservation(r) /\ idem' # idem
  <2>1. /\ idem[in[r].key] = [hash |-> in[r].body, state |-> "IN_PROGRESS", resource |-> NoResource]
        /\ idem' = [idem EXCEPT ![in[r].key] = NoRow]
    BY <1>3, HeldKey DEF ReleaseReservation, Holding
  <2> QED BY <2>1 DEF Made, TypeOK
<1> QED BY <1>1, <1>2, <1>3

\* A request that ends with an error is refused.
LEMMA RefusedStep ==
  ASSUME IInv, NEW r \in Requests, NEW e \in Errors, Finish(r, e), pc[r] \notin {"idle", "done"},
         in' = in, Made' = Made
  PROVE  Abstract!Refuse(r)
<1> USE CreationAssumption DEF IInv
<1>1. in[r] # NoInput /\ answer[r] = "none"
  BY DEF Started
<1>2. Answered[r] = "none" /\ Answered' = [Answered EXCEPT ![r] = "error"]
  BY <1>1 DEF Finish, Answered, TypeOK, Errors
<1> QED BY <1>1, <1>2 DEF Abstract!Refuse, Made, Answered

\* Each step of creation is a step of the abstract specification or a stutter.
LEMMA StepRefines == IInv /\ [Next]_vars => [Abstract!Next]_(Abstract!vars)
<1> SUFFICES ASSUME IInv, [Next]_vars PROVE Abstract!Next \/ UNCHANGED Abstract!vars
  BY DEF Abstract!vars
<1> USE CreationAssumption
<1>s. in' = in /\ Made' = Made /\ answer' = answer => UNCHANGED Abstract!vars
  BY DEF Abstract!vars, Made
<1>e. ASSUME NEW r \in Requests, NEW e \in Errors, Finish(r, e), pc[r] \notin {"idle", "done"},
             in' = in, Made' = Made
      PROVE  Abstract!Next
  BY <1>e, RefusedStep DEF Abstract!Next
<1>1. ASSUME NEW r \in Requests, Begin(r) PROVE Abstract!Next
  <2>1. in[r] = NoInput
    BY <1>1 DEF IInv, Started, Begin
  <2>2. Abstract!Ask(r)
    BY <1>1, <2>1 DEF Begin, Goto, Abstract!Ask
  <2> QED BY <2>2 DEF Abstract!Next
<1>2. ASSUME NEW r \in Requests, Replay(r) PROVE Abstract!Next \/ UNCHANGED Abstract!vars
  <2>1. Made' = Made /\ in' = in
    BY <1>2, MadeStays DEF Replay
  <2>2. answer' = answer \/ \E e \in Errors : Finish(r, e)
    BY <1>2 DEF Replay, Goto, Errors
  <2> QED BY <1>2, <2>1, <2>2, <1>s, <1>e DEF Replay
<1>3. ASSUME NEW r \in Requests, Reserve(r) PROVE Abstract!Next \/ UNCHANGED Abstract!vars
  <2>1. Made' = Made /\ in' = in
    BY <1>3, MadeStays DEF Reserve
  <2>2. answer' = answer \/ \E e \in Errors : Finish(r, e)
    BY <1>3 DEF Reserve, Goto, Errors
  <2> QED BY <1>3, <2>1, <2>2, <1>s, <1>e DEF Reserve
<1>4. ASSUME NEW r \in Requests, Upload(r) \/ CommitRaced(r) PROVE UNCHANGED Abstract!vars
  <2>1. Made' = Made
    BY <1>4, MadeStays DEF Upload, CommitRaced
  <2> QED BY <1>4, <2>1, <1>s DEF Upload, CommitRaced, Goto
<1>5. ASSUME NEW r \in Requests, ReleaseReservation(r) PROVE Abstract!Next
  <2>1. Made' = Made
    BY <1>5, MadeStays
  <2> QED BY <1>5, <2>1, <1>e DEF ReleaseReservation, Errors
<1>6. ASSUME NEW r \in Requests, Dies(r) PROVE Abstract!Next
  <2>1. Made' = Made
    BY <1>6, MadeStays DEF Dies
  <2> QED BY <1>6, <2>1, <1>e DEF Dies, Errors
<1>7. ASSUME NEW r \in Requests, Commit(r) PROVE Abstract!Next
  <2>1. /\ in[r] \in [key : Keys, body : Bodies] /\ answer[r] = "none"
        /\ idem[in[r].key] = [hash |-> in[r].body, state |-> "IN_PROGRESS", resource |-> NoResource]
        /\ idem[in[r].key] # NoRow
    BY <1>7, HeldKey DEF Commit, Holding, IInv
  <2>2. idem' = [idem EXCEPT ![in[r].key] =
                   [hash |-> in[r].body, state |-> "COMPLETED", resource |-> r]]
    BY <1>7, <2>1 DEF Commit
  <2>3. [hash |-> in[r].body, state |-> "COMPLETED", resource |-> r] # NoRow
    BY <2>1 DEF Row
  <2>4. Made[in[r].key] = NoResource /\ Made' = [Made EXCEPT ![in[r].key] = r]
    <3> DEFINE k == in[r].key
               row == [hash |-> in[r].body, state |-> "COMPLETED", resource |-> r]
    <3>1. k \in Keys /\ idem[k].resource = NoResource /\ row.resource = r
      BY <2>1
    <3>2. idem'[k] = row /\ \A j \in Keys : j # k => idem'[j] = idem[j]
      BY <2>2, <3>1 DEF IInv, TypeOK
    <3> HIDE DEF row, k
    <3>3. row # NoRow
      BY <2>3 DEF row
    <3>4. Made' = [j \in Keys |-> IF j = k THEN r ELSE Made[j]]
      BY <3>1, <3>2, <3>3 DEF Made
    <3>5. Made[k] = NoResource
      BY <3>1 DEF Made
    <3> QED BY <3>1, <3>4, <3>5 DEF Made, k
  <2>5. in' = in /\ answer' = answer
    BY <1>7, <2>1 DEF Commit, Goto
  <2>6. in[r] # NoInput /\ Answered[r] = "none"
    BY <2>1 DEF Answered, Errors
  <2>7. Abstract!Make(r)
    BY <2>4, <2>5, <2>6 DEF Abstract!Make, Made, Answered
  <2> QED BY <2>7 DEF Abstract!Next
<1>8. ASSUME NEW r \in Requests, Find(r) PROVE Abstract!Next
  <2>1. found[r] \in tokens /\ in[found[r]] = in[r] /\ found[r] \in Requests
    BY <1>8 DEF Find, IInv, FoundOwn, TypeOK
  <2>2. in[r] # NoInput /\ answer[r] = "none" /\ in[r].key \in Keys
    BY <1>8 DEF Find, IInv, Started, TypeOK
  <2>3. /\ idem[in[r].key] = [hash |-> in[r].body, state |-> "COMPLETED", resource |-> found[r]]
        /\ idem[in[r].key] \in Row
    BY <2>1, <2>2 DEF IInv, OneTokenPerKey, TypeOK, Row
  <2>4. Made[in[r].key] = found[r]
    BY <2>2, <2>3 DEF Made
  <2>5. Made' = Made /\ in' = in
    BY <1>8, MadeStays DEF Find
  <2>6. Answered[r] = "none" /\ Answered' = [Answered EXCEPT ![r] = found[r]]
    BY <1>8, <2>1, <2>2 DEF Find, Finish, Answered, Errors, IInv, TypeOK
  <2>7. Abstract!Show(r)
    BY <2>1, <2>2, <2>4, <2>5, <2>6 DEF Abstract!Show, Made, Answered
  <2> QED BY <2>7 DEF Abstract!Next
<1>9. CASE UNCHANGED vars
  BY <1>9, <1>s DEF vars, Made
<1> QED
  BY <1>1, <1>2, <1>3, <1>4, <1>5, <1>6, <1>7, <1>8, <1>9 DEF Next, Work

\* Creation implements the idempotent create.
THEOREM Refinement == Spec => ImplementsCreate
<1>1. Init => Abstract!Init
  BY CreationAssumption DEF Init, Abstract!Init, Errors
<1> QED
  BY <1>1, StepRefines, Invariant, PTL DEF Spec, ImplementsCreate, Abstract!Spec
=============================================================================
