---------------------------- MODULE CommentThread ----------------------------
(***************************************************************************)
(* What the comment mutations write: comments, likes, their denormalised   *)
(* counters, the idempotency rows of create, and the generation of the     *)
(* token's thread.  CommentCache takes the generation from here on.        *)
(*                                                                         *)
(* Each mutation runs in one serializable transaction, so it is one        *)
(* action; what interleaves are the await points of create around it.  A   *)
(* call that throws before its first write, or finds nothing to change,    *)
(* leaves every row alone and is not an action of its own.  The text of a  *)
(* comment is abstracted to the body the request hash covers.              *)
(***************************************************************************)
EXTENDS Integers, FiniteSets

CONSTANTS
    Wallets,
    Tokens,
    Comments,       \* comment ids, each used once (randomUUID)
    Keys,           \* Idempotency-Key header values
    Texts,
    Requests,       \* concurrent create requests; a slot is used again
    MaxDepth,       \* the 3 of create's COMMENT_MAX_DEPTH check
    MaxGen,         \* bound on the generation of a thread
    None

ParentErrors == {"COMMENT_PARENT_NOT_FOUND", "COMMENT_PARENT_DELETED", "COMMENT_MAX_DEPTH"}

ASSUME ThreadAssumption ==
    /\ IsFiniteSet(Comments)
    /\ IsFiniteSet(Wallets)
    /\ MaxGen \in Nat
    /\ MaxDepth \in Nat
    /\ None \notin Comments \cup Tokens \cup Wallets \cup ParentErrors

VARIABLES
    row,        \* comments
    likes,      \* comment_likes: <<comment, wallet>>
    idem,       \* idempotency_requests of the comment scope, by <<wallet, key>>
    gen,        \* domainGeneration.generation of each token's thread
    req         \* state of each create request

vars == <<row, likes, idem, gen, req>>

\* The request hash is injective in token, text and parent.
Body == [token : Tokens, text : Texts, parent : Comments \cup {None}]
NoBody == [token |-> None, text |-> None, parent |-> None]
NoRow == [exists |-> FALSE, token |-> None, author |-> None, parent |-> None,
          depth |-> 0, deleted |-> FALSE, likeCount |-> 0, replyCount |-> 0]
NoReservation == [state |-> "none", body |-> NoBody, comment |-> None]
NoRequest == [pc |-> "idle", wallet |-> None, key |-> None, body |-> NoBody,
              outcome |-> None, answer |-> None]

Exists(c) == row[c].exists
Used == {c \in Comments : Exists(c)}

Init ==
    /\ row = [c \in Comments |-> NoRow]
    /\ likes = {}
    /\ idem = [s \in Wallets \X Keys |-> NoReservation]
    /\ gen = [t \in Tokens |-> 0]
    /\ req = [r \in Requests |-> NoRequest]

\* advanceCommentCacheGeneration, the last write of every mutation.
Advance(t) ==
    /\ gen[t] < MaxGen
    /\ gen' = [gen EXCEPT ![t] = @ + 1]

-----------------------------------------------------------------------------
(***************************************************************************)
(* CommentsService.create.                                                 *)
(***************************************************************************)

Slot(r) == <<req[r].wallet, req[r].key>>
Finish(r, outcome, c) ==
    req' = [req EXCEPT ![r] = [@ EXCEPT !.pc = "done", !.outcome = outcome, !.answer = c]]

\* The reservation row (scope, wallet, key) of a request is taken.
Reserved(r) == idem[Slot(r)].state = "COMPLETED"

\* The request is authenticated, its token resolved and its hash computed.
CreateBegin(r, w, k, b) ==
    /\ req[r].pc = "idle"
    /\ req' = [req EXCEPT ![r] = [pc |-> "find", wallet |-> w, key |-> k, body |-> b,
                                  outcome |-> None, answer |-> None]]
    /\ UNCHANGED <<row, likes, idem, gen>>

\* idempotencyRequest.findUnique: a row that exists is replayed.
CreateFind(r) ==
    /\ req[r].pc = "find"
    /\ req' = [req EXCEPT ![r].pc = IF Reserved(r) THEN "replay" ELSE "insert"]
    /\ UNCHANGED <<row, likes, idem, gen>>

\* The checks on the parent, inside the transaction.
ParentError(b) ==
    LET p == b.parent IN
    IF p = None THEN None
    ELSE IF ~Exists(p) THEN "COMMENT_PARENT_NOT_FOUND"
    ELSE IF row[p].token # b.token THEN "COMMENT_PARENT_NOT_FOUND"
    ELSE IF row[p].deleted THEN "COMMENT_PARENT_DELETED"
    ELSE IF row[p].depth >= MaxDepth THEN "COMMENT_MAX_DEPTH"
    ELSE None

\* A thread with the new comment c in it and counted on its parent.
WithComment(c, w, b) ==
    [x \in Comments |->
        IF x = c THEN [exists |-> TRUE, token |-> b.token, author |-> w, parent |-> b.parent,
                       depth |-> 0, deleted |-> FALSE, likeCount |-> 0, replyCount |-> 0]
        ELSE IF x = b.parent THEN [row[x] EXCEPT !.replyCount = @ + 1]
        ELSE row[x]]

\* Mutant: the reservation is not unique.
CommitUnreserved(r, c) ==
    /\ req[r].pc = "insert"
    /\ ParentError(req[r].body) = None
    /\ ~Exists(c)
    /\ row' = WithComment(c, req[r].wallet, req[r].body)
    /\ idem' = [idem EXCEPT ![Slot(r)] =
                [state |-> "COMPLETED", body |-> req[r].body, comment |-> c]]
    /\ Advance(req[r].body.token)
    /\ Finish(r, "CREATED", c)
    /\ UNCHANGED likes

\* The transaction commits: reservation, comment, parent's counter, COMPLETED
\* and generation together.
CreateCommit(r, c) ==
    /\ req[r].pc = "insert"
    /\ ~Reserved(r)
    /\ ParentError(req[r].body) = None
    /\ ~Exists(c)
    /\ row' = WithComment(c, req[r].wallet, req[r].body)
    /\ idem' = [idem EXCEPT ![Slot(r)] =
                [state |-> "COMPLETED", body |-> req[r].body, comment |-> c]]
    /\ Advance(req[r].body.token)
    /\ Finish(r, "CREATED", c)
    /\ UNCHANGED likes

\* A check on the parent throws: the reservation is rolled back with the rest.
CreateRejected(r) ==
    /\ req[r].pc = "insert"
    /\ ~Reserved(r)
    /\ ParentError(req[r].body) # None
    /\ Finish(r, ParentError(req[r].body), None)
    /\ UNCHANGED <<row, likes, idem, gen>>

\* The unique key of the reservation is taken by now: P2002, then a replay of
\* the row that took it.
CreateRaced(r) ==
    /\ req[r].pc = "insert"
    /\ Reserved(r)
    /\ req' = [req EXCEPT ![r].pc = "replay"]
    /\ UNCHANGED <<row, likes, idem, gen>>

\* A serialization failure, another table's unique key or a database error
\* rolls the transaction back; the process may die at any await.
CreateAborts(r) ==
    /\ req[r].pc \in {"find", "insert", "replay"}
    /\ Finish(r, "INTERNAL_ERROR", None)
    /\ UNCHANGED <<row, likes, idem, gen>>

\* replay: compare the hash, answer with the comment of the row.  A visible
\* row is always COMPLETED and its comment is never removed.
Replay(r) ==
    /\ req[r].pc = "replay"
    /\ IF idem[Slot(r)].body # req[r].body
       THEN Finish(r, "IDEMPOTENCY_KEY_REUSED", None)
       ELSE Finish(r, "REPLAYED", idem[Slot(r)].comment)
    /\ UNCHANGED <<row, likes, idem, gen>>

\* The response is sent.
CreateEnd(r) ==
    /\ req[r].pc = "done"
    /\ req' = [req EXCEPT ![r] = NoRequest]
    /\ UNCHANGED <<row, likes, idem, gen>>

-----------------------------------------------------------------------------
(***************************************************************************)
(* delete, like, unlike.                                                   *)
(***************************************************************************)

\* Mutant: the parent's counter is left alone.
TombstoneOnly(c) == [row EXCEPT ![c].deleted = TRUE]

\* The tombstone of c, no longer counted on its parent.
WithTombstone(c) ==
    [x \in Comments |->
        IF x = c THEN [row[x] EXCEPT !.deleted = TRUE]
        ELSE IF x = row[c].parent THEN [row[x] EXCEPT !.replyCount = @ - 1]
        ELSE row[x]]

Delete(c, w) ==
    /\ Exists(c)
    /\ row[c].author = w
    /\ ~row[c].deleted
    /\ row' = WithTombstone(c)
    /\ Advance(row[c].token)
    /\ UNCHANGED <<likes, idem, req>>

\* Mutant: a tombstone can be liked.
LikeTombstone(c, w) ==
    /\ Exists(c)
    /\ <<c, w>> \notin likes
    /\ likes' = likes \cup {<<c, w>>}
    /\ row' = [row EXCEPT ![c].likeCount = @ + 1]
    /\ Advance(row[c].token)
    /\ UNCHANGED <<idem, req>>

\* INSERT ... ON CONFLICT DO NOTHING; only an inserted row counts.
Like(c, w) ==
    /\ Exists(c)
    /\ ~row[c].deleted
    /\ <<c, w>> \notin likes
    /\ likes' = likes \cup {<<c, w>>}
    /\ row' = [row EXCEPT ![c].likeCount = @ + 1]
    /\ Advance(row[c].token)
    /\ UNCHANGED <<idem, req>>

\* Mutant: the generation is not advanced.
UnlikeQuietly(c, w) ==
    /\ Exists(c)
    /\ <<c, w>> \in likes
    /\ likes' = likes \ {<<c, w>>}
    /\ row' = [row EXCEPT ![c].likeCount = @ - 1]
    /\ UNCHANGED <<gen, idem, req>>

\* deleteMany; a tombstone can still be unliked.
Unlike(c, w) ==
    /\ Exists(c)
    /\ <<c, w>> \in likes
    /\ likes' = likes \ {<<c, w>>}
    /\ row' = [row EXCEPT ![c].likeCount = @ - 1]
    /\ Advance(row[c].token)
    /\ UNCHANGED <<idem, req>>

-----------------------------------------------------------------------------

CreateNext(r) ==
    \/ \E w \in Wallets, k \in Keys, b \in Body : CreateBegin(r, w, k, b)
    \/ CreateFind(r)
    \/ \E c \in Comments : CreateCommit(r, c)
    \/ CreateRejected(r)
    \/ CreateRaced(r)
    \/ CreateAborts(r)
    \/ Replay(r)
    \/ CreateEnd(r)

Next ==
    \/ \E r \in Requests : CreateNext(r)
    \/ \E c \in Comments, w \in Wallets : Delete(c, w) \/ Like(c, w) \/ Unlike(c, w)

Spec == Init /\ [][Next]_vars

-----------------------------------------------------------------------------
(***************************************************************************)
(* Properties.                                                             *)
(***************************************************************************)

RequestPc == {"idle", "find", "insert", "replay", "done"}
Outcomes == {None, "CREATED", "REPLAYED", "IDEMPOTENCY_KEY_REUSED", "INTERNAL_ERROR"}
                \cup ParentErrors
Row == [exists : BOOLEAN, token : Tokens \cup {None}, author : Wallets \cup {None},
        parent : Comments \cup {None}, depth : Nat, deleted : BOOLEAN,
        likeCount : Nat, replyCount : Nat]
Reservation == [state : {"none", "COMPLETED"}, body : Body \cup {NoBody},
                comment : Comments \cup {None}]
Request == [pc : RequestPc, wallet : Wallets \cup {None}, key : Keys \cup {None},
            body : Body \cup {NoBody}, outcome : Outcomes, answer : Comments \cup {None}]

\* Every column keeps its type; in particular no counter goes below zero.
TypeOK ==
    /\ row \in [Comments -> Row]
    /\ likes \subseteq Comments \X Wallets
    /\ idem \in [Wallets \X Keys -> Reservation]
    /\ gen \in [Tokens -> 0..MaxGen]
    /\ req \in [Requests -> Request]

Likers(c) == {w \in Wallets : <<c, w>> \in likes}
LiveReplies(c) == {x \in Comments : Exists(x) /\ row[x].parent = c /\ ~row[x].deleted}

\* likeCount, kept by increments and decrements, is the number of likes, also
\* after repeated likes and after a tombstone is unliked.
LikeCountExact == \A c \in Used : row[c].likeCount = Cardinality(Likers(c))

\* replyCount is the number of replies that are not tombstones, also after a
\* repeated delete and for a parent that is itself a tombstone.
ReplyCountExact == \A c \in Used : row[c].replyCount = Cardinality(LiveReplies(c))

\* The counters that create, delete, like and unlike keep agree with the rows.
CountsMatchRows == LikeCountExact /\ ReplyCountExact

\* Exactly once: each comment comes from one reservation, the one of its author
\* with the body that placed it; no retry or race made a second comment.
OneCommentPerKey ==
    \A c \in Used : \E s \in Wallets \X Keys :
        /\ idem[s].state = "COMPLETED" /\ idem[s].comment = c
        /\ s[1] = row[c].author
        /\ idem[s].body.token = row[c].token /\ idem[s].body.parent = row[c].parent
        /\ \A u \in (Wallets \X Keys) \ {s} : idem[u].comment # c

\* Every answer, first or replayed, shows the comment of the request's own key,
\* and that comment was made from the same body.
AnswersOwnComment ==
    \A r \in Requests : req[r].answer # None =>
        /\ idem[Slot(r)].comment = req[r].answer
        /\ idem[Slot(r)].body = req[r].body
        /\ Exists(req[r].answer)

\* The promise of an idempotency key of create.
CreatesOnce == OneCommentPerKey /\ AnswersOwnComment

\* A reply hangs under another comment of the same token's thread.
RepliesStayOnToken ==
    \A c \in Used : row[c].parent # None =>
        /\ row[c].parent # c
        /\ Exists(row[c].parent)
        /\ row[row[c].parent].token = row[c].token

Thread(t) == {<<c, row[c]>> : c \in {x \in Comments : Exists(x) /\ row[x].token = t}}

\* The generation of a thread advances with each change of what its pages show
\* and with nothing else: no change is missed by the cache, no page is dropped
\* for a call that changed nothing.
ChangeAdvancesGeneration ==
    [][\A t \in Tokens : IF Thread(t)' = Thread(t) THEN gen'[t] = gen[t]
                          ELSE gen'[t] = gen[t] + 1]_vars

\* A tombstone is final: it is never revived, and gains no like and no reply.
TombstonesFrozen ==
    [][\A c \in Used : row[c].deleted =>
        /\ row'[c].deleted
        /\ Likers(c)' \subseteq Likers(c)
        /\ LiveReplies(c)' \subseteq LiveReplies(c)]_vars

\* The documented limit on nesting: a root, and MaxDepth levels of replies under
\* it; create refuses a deeper one with COMMENT_MAX_DEPTH.
DepthBounded ==
    \A c \in Used :
        LET up[n \in 0..(MaxDepth + 1)] ==
                IF n = 0 THEN c
                ELSE IF up[n - 1] = None THEN None ELSE row[up[n - 1]].parent
        IN  up[MaxDepth + 1] = None

-----------------------------------------------------------------------------
(***************************************************************************)
(* The inductive invariant behind the safety properties: rows that refer   *)
(* to each other exist, so that a fresh id starts with nothing counted.    *)
(***************************************************************************)

\* Foreign key of comment_likes.
LikesNamed == \A l \in likes : Exists(l[1])

\* A reservation is visible with its comment or not at all.
ReservationsNamed ==
    \A s \in Wallets \X Keys :
        IF idem[s].state = "COMPLETED"
        THEN idem[s].comment \in Used /\ idem[s].body \in Body
        ELSE idem[s].comment = None

\* A request that has begun carries its inputs, and a replay has a row to show.
RequestsPlaced ==
    \A r \in Requests :
        /\ req[r].pc = "idle" => req[r].answer = None
        /\ req[r].pc # "idle" =>
            /\ Slot(r) \in Wallets \X Keys
            /\ req[r].body \in Body
            /\ req[r].pc = "replay" => Reserved(r)

IInv ==
    /\ TypeOK
    /\ LikesNamed /\ ReservationsNamed /\ RequestsPlaced
    /\ LikeCountExact /\ ReplyCountExact /\ RepliesStayOnToken
    /\ OneCommentPerKey /\ AnswersOwnComment
=============================================================================
