----------------------------- MODULE CommentFeed -----------------------------
(***************************************************************************)
(* What the comment feed promises, with no cache, outbox or worker in it.  *)
(* Each thread has a current version and an announced one that trails it.  *)
(* A request may answer from any versions committed between the announced  *)
(* one when it was opened and the current one when it is answered; its     *)
(* parts are read one after the other (the count, the comments, their      *)
(* replies), so a later part may be newer, never older.                    *)
(***************************************************************************)
EXTENDS Integers

CONSTANTS Domains, Readers, StartGen, MaxGen

VARIABLES
    current,        \* version of each thread
    announced,      \* version that every new request is sure to see
    requests        \* open and answered requests

vars == <<current, announced, requests>>

Closed == [pc |-> "closed"]

Init ==
    /\ current = [d \in Domains |-> StartGen]
    /\ announced = [d \in Domains |-> StartGen]
    /\ requests = [r \in Readers |-> Closed]

Mutate(d) ==
    /\ current[d] < MaxGen
    /\ current' = [current EXCEPT ![d] = @ + 1]
    /\ UNCHANGED <<announced, requests>>

Announce(d) ==
    /\ \E g \in announced[d]..current[d] : announced' = [announced EXCEPT ![d] = g]
    /\ UNCHANGED <<current, requests>>

Open(r, d) ==
    /\ requests[r] = Closed
    /\ requests' = [requests EXCEPT ![r] = [pc |-> "open", dom |-> d, floor |-> announced[d]]]
    /\ UNCHANGED <<current, announced>>

Answer(r) ==
    /\ requests[r].pc = "open"
    /\ LET q == requests[r] IN
        \E total, rows, replies \in q.floor..current[q.dom] :
            /\ total <= rows /\ rows <= replies
            /\ requests' = [requests EXCEPT ![r] = [pc |-> "answered", dom |-> q.dom,
                    total |-> total, rows |-> rows, replies |-> replies]]
    /\ UNCHANGED <<current, announced>>

Close(r) ==
    /\ requests[r] # Closed
    /\ requests' = [requests EXCEPT ![r] = Closed]
    /\ UNCHANGED <<current, announced>>

Next ==
    \/ \E d \in Domains : Mutate(d) \/ Announce(d)
    \/ \E r \in Readers : (\E d \in Domains : Open(r, d)) \/ Answer(r) \/ Close(r)

Spec == Init /\ [][Next]_vars
=============================================================================
