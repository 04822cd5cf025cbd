------------------------ MODULE CommentThreadProofs ------------------------
(***************************************************************************)
(* Proofs about CommentThread, for every finite set of comment ids and     *)
(* wallets and every number of tokens, keys and requests.                  *)
(***************************************************************************)
EXTENDS CommentThread, FiniteSetTheorems, TLAPS

\* The sets the counters stand for are finite, so their sizes are numbers.
LEMMA CountedSetsFinite ==
  ASSUME NEW c
  PROVE  /\ IsFiniteSet(Likers(c)) /\ Cardinality(Likers(c)) \in Nat
         /\ IsFiniteSet(LiveReplies(c)) /\ Cardinality(LiveReplies(c)) \in Nat
<1>1. Likers(c) \in SUBSET Wallets /\ LiveReplies(c) \in SUBSET Comments
  BY DEF Likers, LiveReplies
<1>2. IsFiniteSet(Likers(c)) /\ IsFiniteSet(LiveReplies(c))
  BY <1>1, ThreadAssumption, FS_Subset DEF ThreadAssumption
<1> QED BY <1>2, FS_CardinalityType

\* The empty system satisfies the invariant.
LEMMA InvInit == Init => IInv
<1> SUFFICES ASSUME Init PROVE IInv
  OBVIOUS
<1> USE DEF Init
<1>1. NoBody \in Body \cup {NoBody} /\ NoRow \in Row /\ NoReservation \in Reservation
      /\ NoRequest \in Request
  BY DEF NoRow, Row, NoReservation, Reservation, NoRequest, Request, RequestPc, Outcomes, ParentErrors
<1>2. TypeOK
  BY <1>1, ThreadAssumption DEF TypeOK, ThreadAssumption
<1>3. Used = {} /\ likes = {}
  BY DEF Used, Exists, NoRow
<1>4. LikesNamed /\ LikeCountExact /\ ReplyCountExact /\ RepliesStayOnToken /\ OneCommentPerKey
  BY <1>3 DEF LikesNamed, LikeCountExact, ReplyCountExact, RepliesStayOnToken, OneCommentPerKey
<1>5. ReservationsNamed /\ RequestsPlaced /\ AnswersOwnComment
  BY DEF ReservationsNamed, NoReservation, RequestsPlaced, AnswersOwnComment, NoRequest
<1> QED BY <1>2, <1>4, <1>5 DEF IInv

-----------------------------------------------------------------------------

\* A step that writes no row keeps every part of the invariant about rows.
LEMMA RowsKept ==
  ASSUME IInv, UNCHANGED <<row, likes, idem, gen>>
  PROVE  /\ LikesNamed' /\ ReservationsNamed'
         /\ LikeCountExact' /\ ReplyCountExact' /\ RepliesStayOnToken' /\ OneCommentPerKey'
<1>1. LikesNamed'
  BY DEF IInv, LikesNamed, Exists
<1>2. ReservationsNamed'
  BY DEF IInv, ReservationsNamed, Used, Exists
<1>3. \A c : Likers(c)' = Likers(c) /\ LiveReplies(c)' = LiveReplies(c) /\ Used' = Used
  BY DEF Likers, LiveReplies, Used, Exists
<1>4. LikeCountExact' /\ ReplyCountExact'
  BY <1>3 DEF IInv, LikeCountExact, ReplyCountExact
<1>5. RepliesStayOnToken' /\ OneCommentPerKey'
  BY <1>3 DEF IInv, RepliesStayOnToken, OneCommentPerKey, Exists, Used
<1> QED BY <1>1, <1>2, <1>4, <1>5

\* A request may move to any state that carries its inputs, has a row to replay
\* and answers with the comment of its own reservation.
LEMMA RequestStep ==
  ASSUME IInv, NEW r \in Requests, NEW q \in Request,
         req' = [req EXCEPT ![r] = q], UNCHANGED <<row, likes, idem, gen>>,
         q.pc = "idle" => q.answer = None,
         q.pc # "idle" =>
            /\ <<q.wallet, q.key>> \in Wallets \X Keys
            /\ q.body \in Body
            /\ q.pc = "replay" => idem[<<q.wallet, q.key>>].state = "COMPLETED",
         q.answer # None =>
            /\ idem[<<q.wallet, q.key>>].comment = q.answer
            /\ idem[<<q.wallet, q.key>>].body = q.body
            /\ Exists(q.answer)
  PROVE  IInv'
<1>1. TypeOK /\ RequestsPlaced /\ AnswersOwnComment
  BY DEF IInv
<1>2. TypeOK'
  BY <1>1 DEF TypeOK
<1>3. req'[r] = q /\ \A s \in Requests \ {r} : req'[s] = req[s]
  BY <1>1 DEF TypeOK
<1>4. RequestsPlaced'
  BY <1>1, <1>3 DEF RequestsPlaced, Slot, Reserved
<1>5. AnswersOwnComment'
  BY <1>1, <1>3 DEF AnswersOwnComment, Slot, Exists
<1> QED BY <1>2, <1>4, <1>5, RowsKept DEF IInv

\* The steps of create that write no row: looking up, giving up, replaying.
LEMMA InvRequest ==
  ASSUME IInv, NEW r \in Requests,
         \/ \E w \in Wallets, k \in Keys, b \in Body : CreateBegin(r, w, k, b)
         \/ CreateFind(r) \/ CreateRejected(r) \/ CreateRaced(r) \/ CreateAborts(r)
         \/ Replay(r) \/ CreateEnd(r)
  PROVE  IInv'
<1>1. TypeOK /\ req[r] \in Request /\ RequestsPlaced /\ AnswersOwnComment /\ ReservationsNamed
  BY DEF IInv, TypeOK
<1>2. ASSUME NEW w \in Wallets, NEW k \in Keys, NEW b \in Body, CreateBegin(r, w, k, b)
      PROVE  IInv'
  <2> DEFINE q == [pc |-> "find", wallet |-> w, key |-> k, body |-> b,
                   outcome |-> None, answer |-> None]
  <2>1. q \in Request
    BY DEF Request, RequestPc, Outcomes, ParentErrors
  <2> QED BY <1>2, <2>1, RequestStep DEF CreateBegin
<1>3. ASSUME NEW pc \in {"insert", "replay"}, req[r].pc \in {"find", "insert"},
             pc = "replay" => Reserved(r),
             req' = [req EXCEPT ![r].pc = pc], UNCHANGED <<row, likes, idem, gen>>
      PROVE  IInv'
  <2> DEFINE q == [req[r] EXCEPT !.pc = pc]
  <2>1. q \in Request /\ q.pc = pc /\ q.wallet = req[r].wallet /\ q.key = req[r].key
        /\ q.body = req[r].body /\ q.answer = req[r].answer
    BY <1>1 DEF Request, RequestPc
  <2>2. req' = [req EXCEPT ![r] = q]
    BY <1>3
  <2>3. req[r].pc # "idle"
    BY <1>3
  <2>4. /\ <<q.wallet, q.key>> \in Wallets \X Keys
        /\ q.body \in Body
        /\ q.pc = "replay" => idem[<<q.wallet, q.key>>].state = "COMPLETED"
    BY <1>1, <1>3, <2>1, <2>3 DEF RequestsPlaced, Slot, Reserved
  <2>5. q.answer # None => /\ idem[<<q.wallet, q.key>>].comment = q.answer
                           /\ idem[<<q.wallet, q.key>>].body = q.body
                           /\ Exists(q.answer)
    BY <1>1, <2>1 DEF AnswersOwnComment, Slot
  <2> HIDE DEF q
  <2> QED
    BY <1>3, <2>1, <2>2, <2>4, <2>5, RequestStep
<1>4. ASSUME NEW o \in Outcomes, NEW c \in Comments \cup {None}, req[r].pc # "idle",
             c # None => /\ idem[Slot(r)].comment = c /\ idem[Slot(r)].body = req[r].body
                         /\ Exists(c),
             Finish(r, o, c), UNCHANGED <<row, likes, idem, gen>>
      PROVE  IInv'
  <2> DEFINE q == [req[r] EXCEPT !.pc = "done", !.outcome = o, !.answer = c]
  <2>1. q \in Request /\ q.pc = "done" /\ q.wallet = req[r].wallet /\ q.key = req[r].key
        /\ q.body = req[r].body /\ q.answer = c
    BY <1>1 DEF Request, RequestPc
  <2>2. req' = [req EXCEPT ![r] = q]
    BY <1>4 DEF Finish
  <2> HIDE DEF q
  <2> QED
    BY <1>1, <1>4, <2>1, <2>2, RequestStep DEF RequestsPlaced, Slot
<1>5. CASE CreateFind(r)
  BY <1>3, <1>5 DEF CreateFind
<1>6. CASE CreateRaced(r)
  BY <1>3, <1>6 DEF CreateRaced
<1>7. CASE CreateRejected(r)
  <2>1. ParentError(req[r].body) \in Outcomes /\ req[r].pc # "idle"
    BY <1>7 DEF CreateRejected, ParentError, Outcomes, ParentErrors
  <2> QED BY <1>4, <1>7, <2>1 DEF CreateRejected
<1>8. CASE CreateAborts(r)
  <2>1. "INTERNAL_ERROR" \in Outcomes /\ req[r].pc # "idle"
    BY <1>8 DEF CreateAborts, Outcomes, ParentErrors
  <2> QED BY <1>4, <1>8, <2>1 DEF CreateAborts
<1>9. CASE Replay(r)
  <2>1. "IDEMPOTENCY_KEY_REUSED" \in Outcomes /\ "REPLAYED" \in Outcomes /\ req[r].pc # "idle"
    BY <1>9 DEF Replay, Outcomes, ParentErrors
  <2>2. Slot(r) \in Wallets \X Keys /\ idem[Slot(r)].comment \in Used
    BY <1>1, <1>9, <2>1 DEF Replay, RequestsPlaced, ReservationsNamed, Reserved
  <2>3. idem[Slot(r)].comment \in Comments /\ Exists(idem[Slot(r)].comment)
    BY <2>2 DEF Used
  <2> QED BY <1>4, <1>9, <2>1, <2>3 DEF Replay
<1>10. CASE CreateEnd(r)
  <2>1. NoRequest \in Request /\ NoRequest.pc = "idle" /\ NoRequest.answer = None
    BY DEF NoRequest, Request, RequestPc, Outcomes, ParentErrors
  <2> QED BY <1>10, <2>1, RequestStep DEF CreateEnd
<1> QED BY <1>2, <1>5, <1>6, <1>7, <1>8, <1>9, <1>10

-----------------------------------------------------------------------------

\* The transaction of create: one fresh comment, one reservation, one more on
\* the parent's counter.
LEMMA InvCommit ==
  ASSUME IInv, NEW r \in Requests, NEW c \in Comments, CreateCommit(r, c)
  PROVE  IInv'
<1> DEFINE b == req[r].body
           w == req[r].wallet
           s == Slot(r)
           fresh == [exists |-> TRUE, token |-> b.token, author |-> w, parent |-> b.parent,
                     depth |-> 0, deleted |-> FALSE, likeCount |-> 0, replyCount |-> 0]
           q == [req[r] EXCEPT !.pc = "done", !.outcome = "CREATED", !.answer = c]
<1>1. TypeOK /\ req[r] \in Request
  BY DEF IInv, TypeOK
<1>2. /\ s \in Wallets \X Keys /\ b \in Body /\ w \in Wallets
      /\ s = <<w, req[r].key>> /\ idem[s].state # "COMPLETED" /\ idem[s].comment = None
  <2>1. req[r].pc # "idle"
    BY DEF CreateCommit
  <2>2. s \in Wallets \X Keys /\ b \in Body /\ idem[s].state # "COMPLETED"
    BY <2>1 DEF IInv, RequestsPlaced, CreateCommit, Reserved
  <2>3. idem[s].comment = None
    BY <2>2 DEF IInv, ReservationsNamed
  <2> QED BY <2>2, <2>3 DEF Slot
<1>3. /\ ~Exists(c) /\ c # None
      /\ b.parent # None => b.parent \in Used /\ row[b.parent].token = b.token /\ ~row[b.parent].deleted
  <2>1. ParentError(b) = None
    BY DEF CreateCommit
  <2>2. None \notin ParentErrors /\ None \notin Comments
    BY ThreadAssumption DEF ThreadAssumption
  <2>3. b.parent \in Comments \cup {None}
    BY <1>2 DEF Body
  <2>4. b.parent # None => Exists(b.parent) /\ row[b.parent].token = b.token /\ ~row[b.parent].deleted
    BY <2>1, <2>2 DEF ParentError, ParentErrors
  <2>5. ~Exists(c)
    BY DEF CreateCommit
  <2> QED BY <2>2, <2>3, <2>4, <2>5 DEF Used
<1>4. c # b.parent
  BY <1>3 DEF Used
<1>5. /\ row'[c] = fresh
      /\ \A x \in Comments \ {c} :
            row'[x] = IF x = b.parent THEN [row[x] EXCEPT !.replyCount = @ + 1] ELSE row[x]
  BY <1>4 DEF CreateCommit, WithComment
<1>6. \A x \in Comments \ {c} :
         /\ row'[x].exists = row[x].exists /\ row'[x].token = row[x].token
         /\ row'[x].author = row[x].author /\ row'[x].parent = row[x].parent
         /\ row'[x].deleted = row[x].deleted /\ row'[x].likeCount = row[x].likeCount
         /\ row'[x].replyCount = IF x = b.parent THEN row[x].replyCount + 1 ELSE row[x].replyCount
  <2> TAKE x \in Comments \ {c}
  <2>1. row[x] \in Row
    BY <1>1 DEF TypeOK
  <2>2. CASE x = b.parent
    BY <1>5, <2>1, <2>2 DEF Row
  <2>3. CASE x # b.parent
    BY <1>5, <2>3
  <2> QED BY <2>2, <2>3
<1>7. Used' = Used \cup {c}
  BY <1>5, <1>6 DEF Used, Exists
<1>8. /\ idem'[s] = [state |-> "COMPLETED", body |-> b, comment |-> c]
      /\ \A u \in (Wallets \X Keys) \ {s} : idem'[u] = idem[u]
      /\ \A u \in Wallets \X Keys : idem[u].comment # c
  <2>1. \A u \in Wallets \X Keys : idem[u].comment # c
    BY <1>3 DEF IInv, ReservationsNamed, Used
  <2> QED BY <1>1, <1>2, <2>1 DEF CreateCommit, TypeOK
<1>9. /\ q \in Request /\ q.pc = "done" /\ q.wallet = w /\ q.key = req[r].key
      /\ q.body = b /\ q.answer = c
  BY <1>1 DEF Request, RequestPc, Outcomes, ParentErrors
<1>10. req'[r] = q /\ \A u \in Requests \ {r} : req'[u] = req[u]
  BY <1>1 DEF CreateCommit, Finish, TypeOK
<1>11. TypeOK'
  <2>1. row' \in [Comments -> Row]
    <3>1. fresh \in Row
      BY <1>2 DEF Row, Body
    <3>2. \A x \in Comments : [row[x] EXCEPT !.replyCount = @ + 1] \in Row
      BY <1>1 DEF TypeOK, Row
    <3>3. row' = WithComment(c, w, b)
      BY DEF CreateCommit
    <3> QED BY <1>1, <3>1, <3>2, <3>3 DEF TypeOK, WithComment
  <2>2. idem' \in [Wallets \X Keys -> Reservation]
    <3>1. [state |-> "COMPLETED", body |-> b, comment |-> c] \in Reservation
      BY <1>2 DEF Reservation
    <3> QED BY <1>1, <3>1 DEF TypeOK, CreateCommit
  <2>3. gen' \in [Tokens -> 0..MaxGen]
    BY <1>1, <1>2, ThreadAssumption DEF CreateCommit, Advance, TypeOK, ThreadAssumption, Body
  <2>4. req' \in [Requests -> Request]
    BY <1>1, <1>9 DEF CreateCommit, Finish, TypeOK
  <2> QED BY <1>1, <2>1, <2>2, <2>3, <2>4 DEF TypeOK, CreateCommit
<1> HIDE DEF b, w, s, q
<1>12. LikesNamed'
  BY <1>1, <1>5, <1>6 DEF IInv, LikesNamed, Exists, CreateCommit, TypeOK
<1>13. ReservationsNamed'
  BY <1>2, <1>7, <1>8 DEF IInv, ReservationsNamed
<1>14. RequestsPlaced'
  <2>1. ASSUME NEW u \in Requests PROVE Slot(u) \in Wallets \X Keys =>
              (idem[Slot(u)].state = "COMPLETED" => idem'[Slot(u)].state = "COMPLETED")
    BY <1>8
  <2>2. ASSUME NEW u \in Requests \ {r} PROVE Slot(u)' = Slot(u)
    BY <1>10 DEF Slot
  <2>3. Slot(r)' = s
    BY <1>2, <1>9, <1>10 DEF Slot
  <2> QED BY <1>2, <1>9, <1>10, <2>1, <2>2, <2>3 DEF IInv, RequestsPlaced, Reserved
<1>15. LikeCountExact'
  <2>1. Likers(c) = {}
    BY <1>3 DEF IInv, LikesNamed, Likers
  <2>2. \A x : Likers(x)' = Likers(x)
    BY DEF Likers, CreateCommit
  <2>3. row'[c].likeCount = Cardinality(Likers(c)')
    <3>1. row'[c].likeCount = 0 /\ Likers(c)' = {}
      BY <1>5, <2>1, <2>2
    <3> QED BY <3>1, FS_EmptySet
  <2>4. \A x \in Used \ {c} : row'[x].likeCount = Cardinality(Likers(x)')
    BY <1>6, <2>2 DEF IInv, LikeCountExact, Used
  <2> QED BY <1>7, <2>3, <2>4 DEF LikeCountExact
<1>16. ReplyCountExact'
  <2>0. PICK p \in Comments \cup {None} : p = b.parent
    BY <1>2 DEF Body
  <2>1. LiveReplies(c)' = {} /\ LiveReplies(c) = {}
    <3>1. \A x \in Comments : Exists(x) => row[x].parent # c
      BY <1>3 DEF IInv, RepliesStayOnToken, Used
    <3> QED BY <1>4, <1>5, <1>6, <3>1, <2>0 DEF LiveReplies, Exists
  <2>2. ASSUME p # None
        PROVE  /\ LiveReplies(p)' = LiveReplies(p) \cup {c}
               /\ c \notin LiveReplies(p)
    <3>1. c \notin LiveReplies(p) /\ row'[c].exists /\ row'[c].parent = p
          /\ ~row'[c].deleted
      BY <1>3, <1>5, <2>0 DEF LiveReplies
    <3>2. \A x \in Comments \ {c} :
            x \in LiveReplies(p)' <=> x \in LiveReplies(p)
      BY <1>6, <2>0 DEF LiveReplies, Exists
    <3>3. c \in LiveReplies(p)'
      BY <3>1 DEF LiveReplies, Exists
    <3> QED BY <3>1, <3>2, <3>3 DEF LiveReplies
  <2>3. \A x \in Comments \ {c, p} : LiveReplies(x)' = LiveReplies(x)
    BY <1>3, <1>5, <1>6, <2>0 DEF LiveReplies, Exists
  <2>4. ASSUME NEW x \in Used' PROVE row'[x].replyCount = Cardinality(LiveReplies(x)')
    <3>1. CASE x = c
      BY <1>5, <2>1, <3>1, FS_EmptySet
    <3>2. CASE x = p /\ x # c
      <4>1. p # None /\ x \in Used
        BY <1>7, <2>0, <2>4, <3>2, ThreadAssumption DEF Used, ThreadAssumption
      <4>2. Cardinality(LiveReplies(x)') = Cardinality(LiveReplies(x)) + 1
        <5>1. LiveReplies(x)' = LiveReplies(x) \cup {c} /\ c \notin LiveReplies(x)
          BY <2>2, <3>2, <4>1
        <5>2. IsFiniteSet(LiveReplies(x))
          BY CountedSetsFinite
        <5> QED BY <5>1, <5>2, FS_AddElement
      <4> QED BY <1>6, <2>0, <3>2, <4>1, <4>2 DEF IInv, ReplyCountExact, Used
    <3>3. CASE x # p /\ x # c
      BY <1>6, <1>7, <2>0, <2>3, <2>4, <3>3 DEF IInv, ReplyCountExact, Used
    <3> QED BY <3>1, <3>2, <3>3
  <2> QED BY <2>4 DEF ReplyCountExact
<1>17. RepliesStayOnToken'
  <2>1. ASSUME NEW x \in Used, row[x].parent # None
        PROVE  /\ row'[x].parent = row[x].parent /\ row'[x].token = row[x].token
               /\ row'[row[x].parent].exists
               /\ row'[row[x].parent].token = row[row[x].parent].token
    <3>1. x \in Comments /\ x # c /\ row[x].parent \in Comments
      BY <1>1, <1>3, <2>1 DEF Used, TypeOK, Row
    <3>2. row[row[x].parent].exists /\ row[x].parent # c
      BY <1>3, <2>1 DEF IInv, RepliesStayOnToken, Exists
    <3> QED BY <1>6, <3>1, <3>2
  <2>2. row'[c].parent = b.parent /\ row'[c].token = b.token /\ row'[c].parent # c
    BY <1>4, <1>5
  <2>3. b.parent # None => row'[b.parent].exists /\ row'[b.parent].token = b.token
    BY <1>3, <1>4, <1>6 DEF Used, Exists
  <2>4. \A x \in Used : row'[x].parent = row[x].parent
    BY <1>3, <1>6 DEF Used
  <2> QED BY <1>7, <2>1, <2>2, <2>3, <2>4 DEF IInv, RepliesStayOnToken, Exists
<1>18. OneCommentPerKey'
  <2>1. ASSUME NEW x \in Used' PROVE \E u \in Wallets \X Keys :
            /\ idem'[u].state = "COMPLETED" /\ idem'[u].comment = x
            /\ u[1] = row'[x].author
            /\ idem'[u].body.token = row'[x].token /\ idem'[u].body.parent = row'[x].parent
            /\ \A v \in (Wallets \X Keys) \ {u} : idem'[v].comment # x
    <3>1. CASE x = c
      BY <1>2, <1>5, <1>8, <3>1
    <3>2. CASE x # c
      <4>1. x \in Used
        BY <1>7, <2>1, <3>2
      <4>2. PICK u \in Wallets \X Keys :
              /\ idem[u].state = "COMPLETED" /\ idem[u].comment = x
              /\ u[1] = row[x].author
              /\ idem[u].body.token = row[x].token /\ idem[u].body.parent = row[x].parent
              /\ \A v \in (Wallets \X Keys) \ {u} : idem[v].comment # x
        BY <4>1 DEF IInv, OneCommentPerKey
      <4>3. u # s
        BY <1>2, <4>2
      <4> QED BY <1>6, <1>8, <3>2, <4>1, <4>2, <4>3 DEF Used
    <3> QED BY <3>1, <3>2
  <2> QED BY <2>1 DEF OneCommentPerKey
<1>19. AnswersOwnComment'
  <2>1. ASSUME NEW u \in Requests \ {r}, req'[u].answer # None
        PROVE  /\ idem'[Slot(u)'].comment = req'[u].answer
               /\ idem'[Slot(u)'].body = req'[u].body
               /\ req'[u].answer \in Used'
    <3>1. req'[u] = req[u] /\ Slot(u)' = Slot(u)
      BY <1>10 DEF Slot
    <3>2. /\ idem[Slot(u)].comment = req[u].answer /\ idem[Slot(u)].body = req[u].body
          /\ Exists(req[u].answer) /\ req[u].answer \in Comments
      BY <1>1, <2>1, <3>1 DEF IInv, AnswersOwnComment, TypeOK, Request
    <3>3. Slot(u) \in Wallets \X Keys /\ Slot(u) # s
      BY <1>2, <2>1, <3>1, <3>2 DEF IInv, RequestsPlaced
    <3>4. req[u].answer \in Used'
      BY <1>7, <3>2 DEF Used
    <3> QED BY <1>8, <3>1, <3>2, <3>3, <3>4
  <2>2. Slot(r)' = s /\ req'[r].answer = c /\ req'[r].body = b /\ c \in Used'
    BY <1>2, <1>7, <1>9, <1>10 DEF Slot
  <2> QED BY <1>8, <2>1, <2>2 DEF AnswersOwnComment, Used
<1> QED
  BY <1>11, <1>12, <1>13, <1>14, <1>15, <1>16, <1>17, <1>18, <1>19 DEF IInv

-----------------------------------------------------------------------------

\* What delete, like and unlike have in common: they create nothing, move
\* nothing, and touch neither reservations nor requests.
LEMMA MutationKeeps ==
  ASSUME IInv, UNCHANGED <<idem, req>>, row' \in [Comments -> Row],
         likes' \subseteq Comments \X Wallets, gen' \in [Tokens -> 0..MaxGen],
         \A l \in likes' : l \in likes \/ Exists(l[1]),
         \A x \in Comments :
            /\ row'[x].exists = row[x].exists /\ row'[x].token = row[x].token
            /\ row'[x].author = row[x].author /\ row'[x].parent = row[x].parent
  PROVE  /\ TypeOK' /\ LikesNamed' /\ ReservationsNamed' /\ RequestsPlaced'
         /\ RepliesStayOnToken' /\ OneCommentPerKey' /\ AnswersOwnComment' /\ Used' = Used
<1>1. TypeOK
  BY DEF IInv
<1>2. TypeOK'
  BY <1>1 DEF TypeOK
<1>3. Used' = Used
  BY DEF Used, Exists
<1>4. LikesNamed'
  BY <1>1 DEF IInv, LikesNamed, Exists, TypeOK
<1>5. ReservationsNamed' /\ RequestsPlaced'
  BY <1>3 DEF IInv, ReservationsNamed, RequestsPlaced, Slot, Reserved
<1>6. RepliesStayOnToken'
  <2>1. \A x \in Used : x \in Comments /\ row[x].parent \in Comments \cup {None}
    BY <1>1 DEF TypeOK, Row, Used
  <2> QED BY <1>3, <2>1 DEF IInv, RepliesStayOnToken, Exists
<1>7. OneCommentPerKey'
  <2>1. \A x \in Used : /\ row'[x].author = row[x].author /\ row'[x].token = row[x].token
                        /\ row'[x].parent = row[x].parent
    BY DEF Used
  <2> QED BY <1>3, <2>1 DEF IInv, OneCommentPerKey
<1>8. AnswersOwnComment'
  <2>1. \A u \in Requests : req[u].answer \in Comments \cup {None}
    BY <1>1 DEF TypeOK, Request
  <2> QED BY <2>1 DEF IInv, AnswersOwnComment, Slot, Exists
<1> QED BY <1>2, <1>3, <1>4, <1>5, <1>6, <1>7, <1>8

\* The generation row of a mutation stays in its type.
LEMMA AdvanceType ==
  ASSUME gen \in [Tokens -> 0..MaxGen], NEW t, Advance(t)
  PROVE  gen' \in [Tokens -> 0..MaxGen]
<1>1. CASE t \in Tokens
  <2>1. gen[t] + 1 \in 0..MaxGen
    BY <1>1, ThreadAssumption DEF Advance, ThreadAssumption
  <2> QED BY <2>1 DEF Advance
<1>2. CASE t \notin Tokens
  BY <1>2 DEF Advance
<1> QED BY <1>1, <1>2

\* Likes: the counter follows the set, up and down.
LEMMA InvLike ==
  ASSUME IInv, NEW c \in Comments, NEW w \in Wallets, Like(c, w) \/ Unlike(c, w)
  PROVE  IInv'
<1>1. TypeOK /\ c \in Used /\ row[c] \in Row
  BY DEF IInv, TypeOK, Like, Unlike, Used
<1>2. /\ IsFiniteSet(Likers(c)) /\ Cardinality(Likers(c)) \in Nat
      /\ row[c].likeCount = Cardinality(Likers(c))
  BY <1>1, CountedSetsFinite DEF IInv, LikeCountExact
<1>3. PICK n \in Nat : /\ row' = [row EXCEPT ![c].likeCount = n]
                       /\ n = Cardinality(Likers(c)')
  <2>1. CASE Like(c, w)
    <3>1. Likers(c)' = Likers(c) \cup {w} /\ w \notin Likers(c)
      BY <2>1 DEF Like, Likers
    <3>2. Cardinality(Likers(c)') = row[c].likeCount + 1
      BY <1>2, <3>1, FS_AddElement
    <3>3. row' = [row EXCEPT ![c].likeCount = row[c].likeCount + 1]
      BY <2>1 DEF Like
    <3>4. row[c].likeCount + 1 \in Nat
      BY <1>2
    <3> QED BY <3>2, <3>3, <3>4
  <2>2. CASE Unlike(c, w)
    <3>1. Likers(c)' = Likers(c) \ {w} /\ w \in Likers(c)
      BY <2>2 DEF Unlike, Likers
    <3>2. Cardinality(Likers(c)') = row[c].likeCount - 1 /\ IsFiniteSet(Likers(c)')
      BY <1>2, <3>1, FS_RemoveElement
    <3>3. Cardinality(Likers(c)') \in Nat
      BY <3>2, FS_CardinalityType
    <3>4. row' = [row EXCEPT ![c].likeCount = row[c].likeCount - 1]
      BY <2>2 DEF Unlike
    <3> QED BY <3>2, <3>3, <3>4
  <2> QED BY <2>1, <2>2
<1>4. \A x \in Comments :
         /\ row'[x].exists = row[x].exists /\ row'[x].token = row[x].token
         /\ row'[x].author = row[x].author /\ row'[x].parent = row[x].parent
         /\ row'[x].deleted = row[x].deleted /\ row'[x].replyCount = row[x].replyCount
         /\ row'[x].likeCount = IF x = c THEN n ELSE row[x].likeCount
  BY <1>1, <1>3 DEF TypeOK, Row
<1>5. row' \in [Comments -> Row]
  BY <1>1, <1>3 DEF TypeOK, Row
<1>6. /\ UNCHANGED <<idem, req>> /\ Advance(row[c].token)
      /\ likes' \subseteq Comments \X Wallets
      /\ \A l \in likes' : l \in likes \/ Exists(l[1])
      /\ \A x \in Comments \ {c} : Likers(x)' = Likers(x)
  BY <1>1 DEF Like, Unlike, TypeOK, Likers
<1>7. /\ TypeOK' /\ LikesNamed' /\ ReservationsNamed' /\ RequestsPlaced'
      /\ RepliesStayOnToken' /\ OneCommentPerKey' /\ AnswersOwnComment' /\ Used' = Used
  <2>1. gen' \in [Tokens -> 0..MaxGen]
    BY <1>1, <1>6, AdvanceType DEF TypeOK
  <2> QED BY <1>4, <1>5, <1>6, <2>1, MutationKeeps
<1>8. LikeCountExact'
  BY <1>3, <1>4, <1>6, <1>7 DEF IInv, LikeCountExact, Used
<1>9. ReplyCountExact'
  <2>1. \A x : LiveReplies(x)' = LiveReplies(x)
    BY <1>4 DEF LiveReplies, Exists
  <2> QED BY <1>4, <1>7, <2>1 DEF IInv, ReplyCountExact, Used
<1> QED BY <1>7, <1>8, <1>9 DEF IInv

\* Delete: the tombstone leaves its parent's counter, once.
LEMMA InvDelete ==
  ASSUME IInv, NEW c \in Comments, NEW w \in Wallets, Delete(c, w)
  PROVE  IInv'
<1>1. TypeOK /\ c \in Used /\ row[c] \in Row /\ ~row[c].deleted
  BY DEF IInv, TypeOK, Delete, Used
<1>2. PICK p \in Comments \cup {None} : p = row[c].parent
  BY <1>1 DEF Row
<1>3. p # None => p \in Used /\ p \in Comments
  <2>1. p # None => p \in Comments /\ Exists(p)
    BY <1>1, <1>2 DEF IInv, RepliesStayOnToken
  <2> QED BY <2>1 DEF Used
<1>4. /\ IsFiniteSet(LiveReplies(p)) /\ c \in LiveReplies(p)
      /\ Cardinality(LiveReplies(p) \ {c}) = Cardinality(LiveReplies(p)) - 1
      /\ Cardinality(LiveReplies(p) \ {c}) \in Nat
  <2>1. IsFiniteSet(LiveReplies(p)) /\ c \in LiveReplies(p)
    BY <1>1, <1>2, CountedSetsFinite DEF LiveReplies, Used
  <2>2. /\ Cardinality(LiveReplies(p) \ {c}) = Cardinality(LiveReplies(p)) - 1
        /\ IsFiniteSet(LiveReplies(p) \ {c})
    BY <2>1, FS_RemoveElement
  <2> QED BY <2>1, <2>2, FS_CardinalityType
<1>5. \A x \in Comments :
         row'[x] = IF x = c THEN [row[x] EXCEPT !.deleted = TRUE]
                   ELSE IF x = p THEN [row[x] EXCEPT !.replyCount = @ - 1]
                   ELSE row[x]
  BY <1>2 DEF Delete, WithTombstone
<1>6. p # c
  BY <1>1, <1>2, ThreadAssumption DEF IInv, RepliesStayOnToken, ThreadAssumption
<1>7. \A x \in Comments :
         /\ row'[x].exists = row[x].exists /\ row'[x].token = row[x].token
         /\ row'[x].author = row[x].author /\ row'[x].parent = row[x].parent
         /\ row'[x].deleted = IF x = c THEN TRUE ELSE row[x].deleted
         /\ row'[x].likeCount = row[x].likeCount
         /\ row'[x].replyCount = IF x = p THEN row[x].replyCount - 1 ELSE row[x].replyCount
  <2> TAKE x \in Comments
  <2>1. row[x] \in Row
    BY <1>1 DEF TypeOK
  <2>2. CASE x = c
    BY <1>5, <1>6, <2>1, <2>2 DEF Row
  <2>3. CASE x # c /\ x = p
    BY <1>5, <2>1, <2>3 DEF Row
  <2>4. CASE x # c /\ x # p
    BY <1>5, <2>4
  <2> QED BY <2>2, <2>3, <2>4
<1>8. p # None => row[p].replyCount = Cardinality(LiveReplies(p)) /\ row[p].replyCount - 1 \in Nat
  <2>1. p # None => row[p].replyCount = Cardinality(LiveReplies(p))
    BY <1>3 DEF IInv, ReplyCountExact
  <2> QED BY <1>4, <2>1
<1>9. row' \in [Comments -> Row]
  <2>1. ASSUME NEW x \in Comments PROVE row'[x] \in Row
    <3>1. row[x] \in Row
      BY <1>1 DEF TypeOK
    <3>2. CASE x = c
      BY <1>5, <3>1, <3>2 DEF Row
    <3>3. CASE x # c /\ x = p
      <4>1. row'[x] = [row[x] EXCEPT !.replyCount = row[x].replyCount - 1]
        BY <1>5, <3>3
      <4>2. row[x].replyCount - 1 \in Nat
        BY <1>8, <3>3, ThreadAssumption DEF ThreadAssumption
      <4> QED BY <3>1, <4>1, <4>2 DEF Row
    <3>4. CASE x # c /\ x # p
      BY <1>5, <3>1, <3>4
    <3> QED BY <3>2, <3>3, <3>4
  <2> QED BY <2>1 DEF Delete, WithTombstone
<1>10. /\ TypeOK' /\ LikesNamed' /\ ReservationsNamed' /\ RequestsPlaced'
       /\ RepliesStayOnToken' /\ OneCommentPerKey' /\ AnswersOwnComment' /\ Used' = Used
  <2>1. gen' \in [Tokens -> 0..MaxGen] /\ UNCHANGED <<likes, idem, req>>
    BY <1>1, AdvanceType DEF TypeOK, Delete
  <2> QED BY <1>1, <1>7, <1>9, <2>1, MutationKeeps DEF TypeOK
<1>11. LikeCountExact'
  <2>1. \A x : Likers(x)' = Likers(x)
    BY DEF Likers, Delete
  <2> QED BY <1>7, <1>10, <2>1 DEF IInv, LikeCountExact, Used
<1>12. ReplyCountExact'
  <2>1. LiveReplies(p)' = LiveReplies(p) \ {c}
    BY <1>7 DEF LiveReplies, Exists
  <2>2. ASSUME NEW x \in Comments \ {p} PROVE LiveReplies(x)' = LiveReplies(x)
    <3>1. row[c].parent # x /\ row'[c].parent # x
      BY <1>2, <1>7
    <3>2. \A y \in Comments : y \in LiveReplies(x)' <=> y \in LiveReplies(x)
      BY <1>7, <3>1 DEF LiveReplies, Exists
    <3> QED BY <3>2 DEF LiveReplies
  <2>3. ASSUME NEW x \in Used PROVE row'[x].replyCount = Cardinality(LiveReplies(x)')
    <3>1. x \in Comments /\ row[x].replyCount = Cardinality(LiveReplies(x))
      BY <2>3 DEF IInv, ReplyCountExact, Used
    <3>2. CASE x = p
      BY <1>4, <1>7, <2>1, <3>1, <3>2
    <3>3. CASE x # p
      BY <1>7, <2>2, <3>1, <3>3
    <3> QED BY <3>2, <3>3
  <2> QED BY <1>10, <2>3 DEF ReplyCountExact
<1> QED BY <1>10, <1>11, <1>12 DEF IInv

-----------------------------------------------------------------------------

\* Every step of the service keeps the invariant.
LEMMA InvNext == IInv /\ [Next]_vars => IInv'
<1> SUFFICES ASSUME IInv, [Next]_vars PROVE IInv'
  OBVIOUS
<1>1. CASE UNCHANGED vars
  <2>1. UNCHANGED <<row, likes, idem, gen>> /\ req' = req
    BY <1>1 DEF vars
  <2>2. TypeOK' /\ RequestsPlaced' /\ AnswersOwnComment'
    BY <2>1 DEF IInv, TypeOK, RequestsPlaced, AnswersOwnComment, Slot, Reserved, Exists
  <2> QED BY <2>1, <2>2, RowsKept DEF IInv
<1>2. ASSUME NEW r \in Requests, CreateNext(r) PROVE IInv'
  BY <1>2, InvRequest, InvCommit DEF CreateNext
<1>3. ASSUME NEW c \in Comments, NEW w \in Wallets, Delete(c, w) \/ Like(c, w) \/ Unlike(c, w)
      PROVE  IInv'
  BY <1>3, InvDelete, InvLike
<1> QED BY <1>1, <1>2, <1>3 DEF Next

\* The inductive invariant of the comment mutations.
THEOREM Invariance == Spec => []IInv
BY InvInit, InvNext, PTL DEF Spec

\* Every column keeps its type; in particular no counter ever goes below zero,
\* which is what decrement in delete and unlike could get wrong.
THEOREM TypeCorrect == Spec => []TypeOK
<1>1. IInv => TypeOK
  BY DEF IInv
<1> QED BY <1>1, Invariance, PTL

\* The denormalised counters of comments are exact after any interleaving of
\* create, delete, like and unlike.
THEOREM CountersExact == Spec => []CountsMatchRows
<1>1. IInv => CountsMatchRows
  BY DEF IInv, CountsMatchRows
<1> QED BY <1>1, Invariance, PTL

\* An idempotency key makes at most one comment, and every answer shows it.
THEOREM ExactlyOnce == Spec => []CreatesOnce
<1>1. IInv => CreatesOnce
  BY DEF IInv, CreatesOnce
<1> QED BY <1>1, Invariance, PTL

\* A reply stays under a comment of its own token.
THEOREM ThreadsClosed == Spec => []RepliesStayOnToken
<1>1. IInv => RepliesStayOnToken
  BY DEF IInv
<1> QED BY <1>1, Invariance, PTL

-----------------------------------------------------------------------------

\* What a committed mutation does to the thread of token t: the row of comment
\* c is new or different, and only rows of that token change.
LEMMA ThreadChanges ==
  ASSUME NEW t \in Tokens, NEW c \in Comments, gen \in [Tokens -> 0..MaxGen],
         Advance(t),
         row'[c].exists, row'[c].token = t, row'[c] # row[c],
         \A x \in Comments : row'[x] # row[x] =>
            /\ row'[x].exists /\ row'[x].token = t
            /\ row[x].exists => row[x].token = t
  PROVE  \A u \in Tokens : IF Thread(u)' = Thread(u) THEN gen'[u] = gen[u]
                           ELSE gen'[u] = gen[u] + 1
<1> TAKE u \in Tokens
<1>1. CASE u = t
  <2>1. <<c, row'[c]>> \in Thread(u)'
    BY <1>1 DEF Thread, Exists
  <2>2. <<c, row'[c]>> \notin Thread(u)
    BY DEF Thread
  <2>3. gen'[u] = gen[u] + 1
    BY <1>1 DEF Advance
  <2> QED BY <2>1, <2>2, <2>3
<1>2. CASE u # t
  <2>1. \A x \in Comments : Exists(x) /\ row[x].token = u => row'[x] = row[x]
    BY <1>2 DEF Exists
  <2>2. \A x \in Comments : Exists(x)' /\ row'[x].token = u => row'[x] = row[x]
    BY <1>2 DEF Exists
  <2>3. Thread(u)' = Thread(u)
    BY <2>1, <2>2 DEF Thread, Exists
  <2>4. gen'[u] = gen[u]
    BY <1>2 DEF Advance
  <2> QED BY <2>3, <2>4
<1> QED BY <1>1, <1>2

\* The generation advances with each visible change of a thread and with
\* nothing else: no mutation escapes the cache's invalidation.
THEOREM ChangesInvalidate == Spec => ChangeAdvancesGeneration
<1> DEFINE Step == \A t \in Tokens : IF Thread(t)' = Thread(t) THEN gen'[t] = gen[t]
                                     ELSE gen'[t] = gen[t] + 1
<1>1. ASSUME UNCHANGED <<row, gen>> PROVE Step
  BY <1>1 DEF Thread, Exists
<1>2. ASSUME IInv, NEW r \in Requests, NEW c \in Comments, CreateCommit(r, c) PROVE Step
  <2>1. PICK b \in Body : b = req[r].body
    BY <1>2 DEF IInv, RequestsPlaced, CreateCommit
  <2>2. ~Exists(c) /\ gen \in [Tokens -> 0..MaxGen] /\ row \in [Comments -> Row]
    BY <1>2 DEF CreateCommit, IInv, TypeOK
  <2>3. b.parent # None => Exists(b.parent) /\ row[b.parent].token = b.token
    <3>1. ParentError(b) = None /\ None \notin ParentErrors
      BY <1>2, <2>1, ThreadAssumption DEF CreateCommit, ThreadAssumption
    <3> QED BY <3>1 DEF ParentError, ParentErrors
  <2>4. row' = WithComment(c, req[r].wallet, b) /\ Advance(b.token)
    BY <1>2, <2>1 DEF CreateCommit
  <2>5. row'[c].exists /\ row'[c].token = b.token /\ row'[c] # row[c]
    BY <2>2, <2>4 DEF WithComment, Exists
  <2>6. ASSUME NEW x \in Comments, row'[x] # row[x]
        PROVE  /\ row'[x].exists /\ row'[x].token = b.token
               /\ row[x].exists => row[x].token = b.token
    <3>1. CASE x = c
      BY <2>2, <2>5, <3>1 DEF Exists
    <3>2. CASE x # c
      <4>1. x = b.parent /\ row'[x] = [row[x] EXCEPT !.replyCount = @ + 1]
        BY <2>4, <2>6, <3>2 DEF WithComment
      <4>2. row[x].exists /\ row[x].token = b.token /\ row[x] \in Row
        BY <2>2, <2>3, <4>1, ThreadAssumption DEF Exists, ThreadAssumption
      <4> QED BY <4>1, <4>2 DEF Row
    <3> QED BY <3>1, <3>2
  <2>7. b.token \in Tokens
    BY DEF Body
  <2> QED BY <2>2, <2>4, <2>5, <2>6, <2>7, ThreadChanges
<1>3. ASSUME IInv, NEW c \in Used PROVE row[c].token \in Tokens
  <2>1. PICK s \in Wallets \X Keys :
          idem[s].body.token = row[c].token /\ idem[s].state = "COMPLETED"
    BY <1>3 DEF IInv, OneCommentPerKey
  <2>2. idem[s].body \in Body
    BY <1>3, <2>1 DEF IInv, ReservationsNamed
  <2> QED BY <2>1, <2>2 DEF Body
<1>4. ASSUME IInv, NEW c \in Comments, NEW w \in Wallets, Like(c, w) \/ Unlike(c, w) PROVE Step
  <2>1. row[c] \in Row /\ Exists(c) /\ gen \in [Tokens -> 0..MaxGen] /\ row \in [Comments -> Row]
    BY <1>4 DEF IInv, TypeOK, Like, Unlike
  <2>2. PICK n \in {row[c].likeCount + 1, row[c].likeCount - 1} :
          row' = [row EXCEPT ![c].likeCount = n]
    BY <1>4 DEF Like, Unlike
  <2>3. PICK t \in Tokens : t = row[c].token
    BY <1>3, <1>4, <2>1 DEF Used
  <2>4. Advance(t)
    BY <1>4, <2>3 DEF Like, Unlike
  <2>5. row'[c].exists /\ row'[c].token = t /\ row'[c] # row[c]
    BY <2>1, <2>2, <2>3 DEF Exists, Row
  <2>6. \A x \in Comments \ {c} : row'[x] = row[x]
    BY <2>1, <2>2
  <2> QED BY <2>1, <2>3, <2>4, <2>5, <2>6, ThreadChanges DEF Exists
<1>5. ASSUME IInv, NEW c \in Comments, NEW w \in Wallets, Delete(c, w) PROVE Step
  <2>1. /\ row[c] \in Row /\ Exists(c) /\ ~row[c].deleted
        /\ gen \in [Tokens -> 0..MaxGen] /\ row \in [Comments -> Row]
    BY <1>5 DEF IInv, TypeOK, Delete
  <2>2. row' = WithTombstone(c)
    BY <1>5 DEF Delete
  <2>3. PICK t \in Tokens : t = row[c].token
    BY <1>3, <1>5, <2>1 DEF Used
  <2>4. Advance(t)
    BY <1>5, <2>3 DEF Delete
  <2>5. row'[c].exists /\ row'[c].token = t /\ row'[c] # row[c]
    BY <2>1, <2>2, <2>3 DEF WithTombstone, Exists, Row
  <2>6. ASSUME NEW x \in Comments, row'[x] # row[x]
        PROVE  row'[x].exists /\ row'[x].token = t /\ row[x].token = t
    <3>1. CASE x = c
      BY <2>3, <2>5, <3>1
    <3>2. CASE x # c
      <4>1. x = row[c].parent /\ row'[x] = [row[x] EXCEPT !.replyCount = @ - 1]
        BY <2>2, <2>6, <3>2 DEF WithTombstone
      <4>2. x # None /\ c \in Used
        BY <2>1, ThreadAssumption DEF ThreadAssumption, Used
      <4>3. row[x].exists /\ row[x].token = t /\ row[x] \in Row
        BY <1>5, <2>1, <2>3, <4>1, <4>2 DEF IInv, RepliesStayOnToken, Exists
      <4> QED BY <4>1, <4>3 DEF Row
    <3> QED BY <3>1, <3>2
  <2> QED BY <2>1, <2>3, <2>4, <2>5, <2>6, ThreadChanges
<1>6. IInv /\ [Next]_vars => Step
  <2> SUFFICES ASSUME IInv, [Next]_vars PROVE Step
    OBVIOUS
  <2>1. CASE UNCHANGED vars
    BY <1>1, <2>1 DEF vars
  <2>2. ASSUME NEW r \in Requests, CreateNext(r) PROVE Step
    <3>1. CASE UNCHANGED <<row, gen>>
      BY <1>1, <3>1
    <3>2. CASE \E c \in Comments : CreateCommit(r, c)
      BY <1>2, <3>2
    <3> QED
      BY <2>2, <3>1, <3>2 DEF CreateNext, CreateBegin, CreateFind, CreateRejected,
         CreateRaced, CreateAborts, Replay, CreateEnd
  <2>3. ASSUME NEW c \in Comments, NEW w \in Wallets,
               Delete(c, w) \/ Like(c, w) \/ Unlike(c, w)
        PROVE  Step
    BY <1>4, <1>5, <2>3
  <2> QED BY <2>1, <2>2, <2>3 DEF Next
<1>7. IInv /\ [Next]_vars => [Step]_vars
  BY <1>6
<1> QED BY <1>7, Invariance, PTL DEF Spec, ChangeAdvancesGeneration

\* A tombstone is final: no later step revives it, likes it or replies to it.
THEOREM TombstonesFinal == Spec => TombstonesFrozen
<1> DEFINE Step == \A c \in Used : row[c].deleted =>
                      /\ row'[c].deleted
                      /\ Likers(c)' \subseteq Likers(c)
                      /\ LiveReplies(c)' \subseteq LiveReplies(c)
<1>1. ASSUME UNCHANGED <<row, likes>> PROVE Step
  BY <1>1 DEF Likers, LiveReplies, Exists
<1>2. ASSUME IInv, NEW r \in Requests, NEW n \in Comments, CreateCommit(r, n) PROVE Step
  <2>1. PICK b : b = req[r].body
    OBVIOUS
  <2>2. /\ ~Exists(n) /\ row \in [Comments -> Row] /\ likes' = likes
        /\ row' = WithComment(n, req[r].wallet, b)
    BY <1>2, <2>1 DEF CreateCommit, IInv, TypeOK
  <2>3. b.parent # None => ~row[b.parent].deleted
    <3>1. ParentError(b) = None /\ None \notin ParentErrors
      BY <1>2, <2>1, ThreadAssumption DEF CreateCommit, ThreadAssumption
    <3> QED BY <3>1 DEF ParentError, ParentErrors
  <2>4. ASSUME NEW c \in Used, row[c].deleted
        PROVE  row'[c].deleted /\ c # b.parent /\ c \in Comments
    BY <2>2, <2>3, <2>4, ThreadAssumption DEF WithComment, Used, ThreadAssumption
  <2>5. \A x \in Comments \ {n} : /\ row'[x].exists = row[x].exists
                                  /\ row'[x].parent = row[x].parent
                                  /\ row'[x].deleted = row[x].deleted
    <3> TAKE x \in Comments \ {n}
    <3>1. row[x] \in Row /\ row'[x] \in {row[x], [row[x] EXCEPT !.replyCount = @ + 1]}
      BY <2>2 DEF WithComment
    <3> QED BY <3>1 DEF Row
  <2>6. row'[n].parent = b.parent
    BY <2>2 DEF WithComment
  <2>7. ASSUME NEW c \in Used, row[c].deleted
        PROVE  Likers(c)' \subseteq Likers(c) /\ LiveReplies(c)' \subseteq LiveReplies(c)
    BY <2>2, <2>4, <2>5, <2>6, <2>7 DEF Likers, LiveReplies, Exists
  <2> QED BY <2>4, <2>7
<1>3. ASSUME IInv, NEW x \in Comments, NEW w \in Wallets, Like(x, w) \/ Unlike(x, w) PROVE Step
  <2>1. row \in [Comments -> Row] /\ row[x] \in Row
    BY <1>3 DEF IInv, TypeOK
  <2>2. PICK n : row' = [row EXCEPT ![x].likeCount = n]
    BY <1>3 DEF Like, Unlike
  <2>3. \A y \in Comments : /\ row'[y].exists = row[y].exists
                            /\ row'[y].parent = row[y].parent
                            /\ row'[y].deleted = row[y].deleted
    BY <2>1, <2>2 DEF Row
  <2>4. \A c \in Used : row[c].deleted => Likers(c)' \subseteq Likers(c)
    BY <1>3 DEF Like, Unlike, Likers
  <2>5. \A c : LiveReplies(c)' = LiveReplies(c)
    BY <2>3 DEF LiveReplies, Exists
  <2> QED BY <2>3, <2>4, <2>5 DEF Used
<1>4. ASSUME IInv, NEW x \in Comments, NEW w \in Wallets, Delete(x, w) PROVE Step
  <2>1. row \in [Comments -> Row] /\ row' = WithTombstone(x) /\ likes' = likes
    BY <1>4 DEF IInv, TypeOK, Delete
  <2>2. \A y \in Comments : /\ row'[y].exists = row[y].exists
                            /\ row'[y].parent = row[y].parent
                            /\ row[y].deleted => row'[y].deleted
    <3> TAKE y \in Comments
    <3>1. row[y] \in Row /\ row'[y] \in {row[y], [row[y] EXCEPT !.replyCount = @ - 1],
                                         [row[y] EXCEPT !.deleted = TRUE]}
      BY <2>1 DEF WithTombstone
    <3> QED BY <3>1 DEF Row
  <2>3. \A c : LiveReplies(c)' \subseteq LiveReplies(c) /\ Likers(c)' = Likers(c)
    BY <2>1, <2>2 DEF LiveReplies, Exists, Likers
  <2> QED BY <2>2, <2>3 DEF Used
<1>5. IInv /\ [Next]_vars => Step
  <2> SUFFICES ASSUME IInv, [Next]_vars PROVE Step
    OBVIOUS
  <2>1. CASE UNCHANGED vars
    BY <1>1, <2>1 DEF vars
  <2>2. ASSUME NEW r \in Requests, CreateNext(r) PROVE Step
    <3>1. CASE UNCHANGED <<row, likes>>
      BY <1>1, <3>1
    <3>2. CASE \E c \in Comments : CreateCommit(r, c)
      BY <1>2, <3>2
    <3> QED
      BY <2>2, <3>1, <3>2 DEF CreateNext, CreateBegin, CreateFind, CreateRejected,
         CreateRaced, CreateAborts, Replay, CreateEnd
  <2>3. ASSUME NEW c \in Comments, NEW w \in Wallets,
               Delete(c, w) \/ Like(c, w) \/ Unlike(c, w)
        PROVE  Step
    BY <1>3, <1>4, <2>3
  <2> QED BY <2>1, <2>2, <2>3 DEF Next
<1>6. IInv /\ [Next]_vars => [Step]_vars
  BY <1>5
<1> QED BY <1>6, Invariance, PTL DEF Spec, TombstonesFrozen
=============================================================================
