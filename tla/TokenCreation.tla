---------------------------- MODULE TokenCreation ----------------------------
(***************************************************************************)
(* POST /tokens (token-creation.service.ts): the idempotency row is looked *)
(* up, reserved IN_PROGRESS, the metadata uploaded to IPFS, and one        *)
(* transaction creates the token row and completes the reservation.  The   *)
(* requests are those of one wallet (the row's key includes it) and may    *)
(* run in several processes; each stands for one call of create, and a     *)
(* client's retry is another request.  A token is named after the request  *)
(* that created it and has that request's body.                            *)
(***************************************************************************)
EXTENDS FiniteSets

CONSTANTS
  Requests, Keys,
  Bodies,       \* canonicalized bodies: the request hash tells exactly them apart
  NoInput, NoRow, NoResource

VARIABLES
  in,       \* in[r]: the key and the body of request r
  pc,       \* pc[r]: the await that request r is at
  found,    \* found[r]: the resourceId it read or made
  answer,   \* answer[r]: "none", an error, or the token answered
  idem,     \* idem[k]: the row of idempotency_requests, or NoRow
  tokens,   \* the token rows
  faulted   \* some request died, or lost its transaction

vars == <<in, pc, found, answer, idem, tokens, faulted>>

Steps == {"idle", "replay", "reserve", "upload", "release", "commit", "replayAgain", "find", "done"}
Errors == {"IDEMPOTENCY_KEY_REUSED", "REQUEST_IN_PROGRESS", "METADATA_UPLOAD_FAILED", "INTERNAL_ERROR"}

Row == [hash : Bodies, state : {"IN_PROGRESS", "COMPLETED"}, resource : Requests \union {NoResource}]

ASSUME CreationAssumption ==
  /\ NoInput \notin [key : Keys, body : Bodies]
  /\ NoRow \notin Row /\ NoResource \notin Requests
  /\ Requests \intersect (Errors \union {"none", "error"}) = {}

Init ==
  /\ in = [r \in Requests |-> NoInput] /\ pc = [r \in Requests |-> "idle"]
  /\ found = [r \in Requests |-> NoResource] /\ answer = [r \in Requests |-> "none"]
  /\ idem = [k \in Keys |-> NoRow] /\ tokens = {} /\ faulted = FALSE

Goto(r, step) == pc' = [pc EXCEPT ![r] = step] /\ UNCHANGED answer

Finish(r, what) == pc' = [pc EXCEPT ![r] = "done"] /\ answer' = [answer EXCEPT ![r] = what]

\* The handler starts with the client's key and body.
Begin(r) ==
  /\ pc[r] = "idle"
  /\ \E k \in Keys, b \in Bodies : in' = [in EXCEPT ![r] = [key |-> k, body |-> b]]
  /\ Goto(r, "replay")
  /\ UNCHANGED <<found, idem, tokens, faulted>>

\* Mutant: the lookup does not compare the bodies.
ReplayAnyBody(r) ==
  LET row == idem[in[r].key]
  IN /\ pc[r] \in {"replay", "replayAgain"}
     /\ IF row = NoRow
        THEN /\ IF pc[r] = "replay" THEN Goto(r, "reserve") ELSE Finish(r, "INTERNAL_ERROR")
             /\ UNCHANGED found
        ELSE IF row.state # "COMPLETED"
        THEN Finish(r, "REQUEST_IN_PROGRESS") /\ UNCHANGED found
        ELSE Goto(r, "find") /\ found' = [found EXCEPT ![r] = row.resource]
     /\ UNCHANGED <<in, idem, tokens, faulted>>

\* replay: no row lets the request go on, or ends it after a lost transaction; a row
\* of another body, or one not completed, is a conflict; else its token is answered.
Replay(r) ==
  LET row == idem[in[r].key]
  IN /\ pc[r] \in {"replay", "replayAgain"}
     /\ IF row = NoRow
        THEN /\ IF pc[r] = "replay" THEN Goto(r, "reserve") ELSE Finish(r, "INTERNAL_ERROR")
             /\ UNCHANGED found
        ELSE IF row.hash # in[r].body
        THEN Finish(r, "IDEMPOTENCY_KEY_REUSED") /\ UNCHANGED found
        ELSE IF row.state # "COMPLETED" \/ row.resource = NoResource
        THEN Finish(r, "REQUEST_IN_PROGRESS") /\ UNCHANGED found
        ELSE Goto(r, "find") /\ found' = [found EXCEPT ![r] = row.resource]
     /\ UNCHANGED <<in, idem, tokens, faulted>>

\* Mutant: the reservation is an upsert.
ReserveUpsert(r) ==
  /\ pc[r] = "reserve"
  /\ idem' = [idem EXCEPT ![in[r].key] =
                [hash |-> in[r].body, state |-> "IN_PROGRESS", resource |-> NoResource]]
  /\ Goto(r, "upload")
  /\ UNCHANGED <<in, found, tokens, faulted>>

\* reserve: the unique key admits one; the other's P2002 is not caught (500).
Reserve(r) ==
  /\ pc[r] = "reserve"
  /\ \/ /\ idem[in[r].key] = NoRow
        /\ idem' = [idem EXCEPT ![in[r].key] =
                      [hash |-> in[r].body, state |-> "IN_PROGRESS", resource |-> NoResource]]
        /\ Goto(r, "upload")
     \/ /\ idem[in[r].key] # NoRow
        /\ Finish(r, "INTERNAL_ERROR")
        /\ UNCHANGED idem
  /\ UNCHANGED <<in, found, tokens, faulted>>

\* Mutant: a failed upload keeps its reservation.
UploadKeepsRow(r) ==
  /\ pc[r] = "upload"
  /\ \/ Goto(r, "commit") \/ Finish(r, "METADATA_UPLOAD_FAILED")
  /\ UNCHANGED <<in, found, idem, tokens, faulted>>

\* The upload succeeds, or fails and leads to the release.
Upload(r) ==
  /\ pc[r] = "upload"
  /\ \/ Goto(r, "commit") \/ Goto(r, "release")
  /\ UNCHANGED <<in, found, idem, tokens, faulted>>

\* The WHERE of releaseReservation.
MayRelease(row, r) == row # NoRow /\ row.hash = in[r].body /\ row.state = "IN_PROGRESS"

ReleaseReservation(r) ==
  LET k == in[r].key
  IN /\ pc[r] = "release"
     /\ idem' = IF MayRelease(idem[k], r) THEN [idem EXCEPT ![k] = NoRow] ELSE idem
     /\ Finish(r, "METADATA_UPLOAD_FAILED")
     /\ UNCHANGED <<in, found, tokens, faulted>>

\* The serializable transaction: profile, token, completed reservation.  Without a row
\* the update throws and nothing is written.
Commit(r) ==
  LET k == in[r].key
  IN /\ pc[r] = "commit"
     /\ \/ /\ idem[k] # NoRow
           /\ tokens' = tokens \union {r}
           /\ idem' = [idem EXCEPT ![k] = [hash |-> @.hash, state |-> "COMPLETED", resource |-> r]]
           /\ found' = [found EXCEPT ![r] = r]
           /\ Goto(r, "find")
        \/ /\ idem[k] = NoRow
           /\ Finish(r, "INTERNAL_ERROR")
           /\ UNCHANGED <<tokens, idem, found>>
     /\ UNCHANGED <<in, faulted>>

\* The transaction fails with P2002, for instance when two requests insert the same
\* profile: nothing is written and the row is looked up again.
CommitRaced(r) ==
  /\ pc[r] = "commit"
  /\ Goto(r, "replayAgain")
  /\ faulted' = TRUE
  /\ UNCHANGED <<in, found, idem, tokens>>

\* findCreated; token rows are never deleted.
Find(r) ==
  /\ pc[r] = "find"
  /\ IF found[r] \in tokens THEN Finish(r, found[r]) ELSE Finish(r, "INTERNAL_ERROR")
  /\ UNCHANGED <<in, found, idem, tokens, faulted>>

\* The process dies, or a database call throws, at any await; when the call had been
\* carried out, this is the step after it.  The client gets no answer or a 500.
Dies(r) ==
  /\ pc[r] \notin {"idle", "done"}
  /\ Finish(r, "INTERNAL_ERROR")
  /\ faulted' = TRUE
  /\ UNCHANGED <<in, found, idem, tokens>>

Work(r) ==
  \/ Replay(r) \/ Reserve(r) \/ Upload(r) \/ ReleaseReservation(r) \/ Commit(r) \/ Find(r)

Next == \E r \in Requests : Begin(r) \/ Work(r) \/ CommitRaced(r) \/ Dies(r)

Spec == Init /\ [][Next]_vars

\* Node runs the continuations of a request whose awaits return.
FairSpec == Spec /\ \A r \in Requests : WF_vars(Work(r))

-----------------------------------------------------------------------------

\* Locals, rows and tokens keep their types.
TypeOK ==
  /\ in \in [Requests -> [key : Keys, body : Bodies] \union {NoInput}]
  /\ pc \in [Requests -> Steps]
  /\ found \in [Requests -> Requests \union {NoResource}]
  /\ answer \in [Requests -> Requests \union Errors \union {"none"}]
  /\ idem \in [Keys -> Row \union {NoRow}]
  /\ tokens \subseteq Requests
  /\ faulted \in BOOLEAN

\* The requests between their reservation and its release or completion.
Holding(r) == pc[r] \in {"upload", "commit", "release", "replayAgain"}

\* A key's reservation is held by at most one request, is in progress with its body
\* while it is held, and so no request releases or completes another's reservation.
OneHolder ==
  \A r \in Requests : Holding(r) =>
    /\ \A s \in Requests : Holding(s) /\ in[s].key = in[r].key => s = r
    /\ idem[in[r].key] = [hash |-> in[r].body, state |-> "IN_PROGRESS", resource |-> NoResource]

\* However requests race, fail and are retried, a key has at most one token, and a
\* token is the resource of its completed key.
OneTokenPerKey ==
  \A t \in tokens :
    /\ \A u \in tokens : in[u].key = in[t].key => u = t
    /\ idem[in[t].key] = [hash |-> in[t].body, state |-> "COMPLETED", resource |-> t]

\* A 201 shows a token that exists and was made under the request's key and body.
AnswersOwnToken ==
  \A r \in Requests : answer[r] \in Requests =>
    answer[r] \in tokens /\ in[answer[r]] = in[r]

\* A completed key stays completed with its token: a late release cannot free it.
CompletedStays ==
  [][\A k \in Keys : idem[k] # NoRow /\ idem[k].state = "COMPLETED" => idem'[k] = idem[k]]_vars

\* Only a database error or a crash leaves a key in progress: when there is none,
\* every key is in the end free, also after failed uploads, or completed.
KeysSettle ==
  <>[](faulted \/ \A k \in Keys : idem[k] = NoRow \/ idem[k].state = "COMPLETED")

\* The refinement: a key's resource is that of its completed row.
Abstract == INSTANCE IdempotentCreate WITH
  asked <- in,
  made <- [k \in Keys |-> IF idem[k] = NoRow THEN NoResource ELSE idem[k].resource],
  answered <- [r \in Requests |-> IF answer[r] \in Errors THEN "error" ELSE answer[r]]

\* Creation keeps the promise of the idempotency key.
ImplementsCreate == Abstract!Spec
=============================================================================
