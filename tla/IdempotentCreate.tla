-------------------------- MODULE IdempotentCreate --------------------------
(***************************************************************************)
(* What an Idempotency-Key promises: under one key at most one resource is *)
(* ever made, from one body; a request that succeeds shows that resource   *)
(* and asked for that body.  Other requests get an error.                  *)
(***************************************************************************)
CONSTANTS Requests, Keys, Bodies, NoInput, NoResource

VARIABLES
  asked,     \* asked[r]: the key and the body of request r, NoInput before it starts
  made,      \* made[k]: the request that made the resource of key k, or NoResource
  answered   \* answered[r]: "none", "error", or the maker of the resource it showed

vars == <<asked, made, answered>>

Init ==
  /\ asked = [r \in Requests |-> NoInput]
  /\ made = [k \in Keys |-> NoResource]
  /\ answered = [r \in Requests |-> "none"]

Ask(r) ==
  /\ asked[r] = NoInput
  /\ \E k \in Keys, b \in Bodies : asked' = [asked EXCEPT ![r] = [key |-> k, body |-> b]]
  /\ UNCHANGED <<made, answered>>

Make(r) ==
  /\ asked[r] # NoInput /\ answered[r] = "none"
  /\ made[asked[r].key] = NoResource
  /\ made' = [made EXCEPT ![asked[r].key] = r]
  /\ UNCHANGED <<asked, answered>>

Show(r) ==
  /\ asked[r] # NoInput /\ answered[r] = "none"
  /\ \E m \in Requests :
       /\ made[asked[r].key] = m
       /\ asked[m].body = asked[r].body
       /\ answered' = [answered EXCEPT ![r] = m]
  /\ UNCHANGED <<asked, made>>

Refuse(r) ==
  /\ asked[r] # NoInput /\ answered[r] = "none"
  /\ answered' = [answered EXCEPT ![r] = "error"]
  /\ UNCHANGED <<asked, made>>

Next == \E r \in Requests : Ask(r) \/ Make(r) \/ Show(r) \/ Refuse(r)

Spec == Init /\ [][Next]_vars
=============================================================================
