------------------------------ MODULE LiveReads ------------------------------
(***************************************************************************)
(* What the API keeps in memory of the chain: quotes and maxBuy            *)
(* (cachedQuote, trading.service.ts), whose requests share one computation *)
(* per key, and template, economicConfig, poolState and slot0              *)
(* (protocol-read.service.ts), where each request that misses makes its    *)
(* own call.  Time is a clock of ticks, and what the node answers is the   *)
(* tick at which it looked.                                                *)
(***************************************************************************)
EXTENDS Naturals, FiniteSets

CONSTANTS
  QuoteKeys, StateKeys,   \* keys of the two kinds of caches
  Asks,                   \* requests
  Ttl,                    \* ticks that an entry is served
  CallTicks,              \* ticks after which a computation has ended or timed out
  MaxNow,                 \* bound on the clock
  NoValue                 \* marks a key without an entry, and a request without an answer

ASSUME LiveAssumption ==
  /\ Ttl \in Nat \ {0} /\ CallTicks \in Nat /\ MaxNow \in Nat
  /\ QuoteKeys # {} /\ NoValue \notin Nat

VARIABLES
  now,
  live,        \* live[k]: entry of k in its map
  inFlight,    \* quoteInFlight: keys with a promise
  ask          \* ask[a]: the locals of a request

liveVars == <<now, live, inFlight, ask>>

LiveKeys == QuoteKeys \union StateKeys

\* since is when a call was made; seen what the node answered it; age how old the last
\* answer was when it was given, a history.
AskState == [pc : {"idle", "call", "read", "wait"}, key : LiveKeys,
             since : Nat, seen : Nat \union {NoValue}, age : Nat]

AnyKey == CHOOSE k \in LiveKeys : TRUE

\* A request that has ended with an answer of this age, or has not begun.
Ended(age) == [pc |-> "idle", key |-> AnyKey, since |-> 0, seen |-> NoValue, age |-> age]

LiveInit ==
  /\ now = 0
  /\ live = [k \in LiveKeys |-> NoValue]
  /\ inFlight = {}
  /\ ask = [a \in Asks |-> Ended(0)]

\* Mutant: an entry is served whatever its age.
ServedExpired(k) == live[k] # NoValue

\* hit.expires > now.
Served(k) == live[k] # NoValue /\ live[k].expires > now

AskHit(a, k) ==
  /\ ask[a].pc = "idle" /\ Served(k)
  /\ ask' = [ask EXCEPT ![a] = Ended(now - live[k].value)]
  /\ UNCHANGED <<now, live, inFlight>>

\* A second quote awaits the promise of the first.
AskJoins(a, k) ==
  /\ ask[a].pc = "idle" /\ ~Served(k)
  /\ k \in inFlight
  /\ ask' = [ask EXCEPT ![a] = [Ended(0) EXCEPT !.pc = "wait", !.key = k]]
  /\ UNCHANGED <<now, live, inFlight>>

\* Mutant: the promise is not looked up.
AskCallsAlways(a, k) ==
  /\ ask[a].pc = "idle" /\ ~Served(k)
  /\ inFlight' = inFlight \union ({k} \intersect QuoteKeys)
  /\ ask' = [ask EXCEPT ![a] = [Ended(0) EXCEPT !.pc = "call", !.key = k, !.since = now]]
  /\ UNCHANGED <<now, live>>

\* compute is called and its promise stored; the other caches have no promises.
AskCalls(a, k) ==
  /\ ask[a].pc = "idle" /\ ~Served(k)
  /\ k \notin inFlight
  /\ inFlight' = inFlight \union ({k} \intersect QuoteKeys)
  /\ ask' = [ask EXCEPT ![a] = [Ended(0) EXCEPT !.pc = "call", !.key = k, !.since = now]]
  /\ UNCHANGED <<now, live>>

\* The node evaluates the call; its answer is on the way.
NodeReads(a) ==
  /\ ask[a].pc = "call"
  /\ ask' = [ask EXCEPT ![a].pc = "read", ![a].seen = now]
  /\ UNCHANGED <<now, live, inFlight>>

\* The request that made the call and, for a quote, all that wait for it end.
EndAll(a, age) ==
  ask' = [b \in Asks |-> IF b = a \/ (ask[b].pc = "wait" /\ ask[b].key = ask[a].key)
                         THEN Ended(age) ELSE ask[b]]

\* The value is stored with a TTL that starts now, the promise removed.
CallReturns(a) ==
  /\ ask[a].pc = "read"
  /\ live' = [live EXCEPT ![ask[a].key] = [value |-> ask[a].seen, expires |-> now + Ttl]]
  /\ inFlight' = inFlight \ {ask[a].key}
  /\ EndAll(a, now - ask[a].seen)
  /\ UNCHANGED now

\* Mutant: the promise is removed in then, not in finally.
CallFailsKept(a) ==
  /\ ask[a].pc \in {"call", "read"}
  /\ EndAll(a, 0)
  /\ UNCHANGED <<now, live, inFlight>>

\* A revert, an error of the node or a timeout: everybody gets the error, nothing is
\* stored, and finally removes the promise.
CallFails(a) ==
  /\ ask[a].pc \in {"call", "read"}
  /\ EndAll(a, 0)
  /\ inFlight' = inFlight \ {ask[a].key}
  /\ UNCHANGED <<now, live>>

\* Requests that have a computation of their own under way.
Computing(k) == {a \in Asks : ask[a].key = k /\ ask[a].pc \in {"call", "read"}}

\* Time does not pass a call's timeout.
LiveTick ==
  /\ now < MaxNow
  /\ \A k \in LiveKeys : \A a \in Computing(k) : now < ask[a].since + CallTicks
  /\ now' = now + 1
  /\ UNCHANGED <<live, inFlight, ask>>

LiveNext ==
  \/ \E a \in Asks :
       \/ \E k \in LiveKeys : AskHit(a, k) \/ AskJoins(a, k) \/ AskCalls(a, k)
       \/ NodeReads(a) \/ CallReturns(a) \/ CallFails(a)
  \/ LiveTick

LiveSpec == LiveInit /\ [][LiveNext]_liveVars

-----------------------------------------------------------------------------

LiveTypeOK ==
  /\ now \in 0..MaxNow
  /\ live \in [LiveKeys -> [value : Nat, expires : Nat] \union {NoValue}]
  /\ inFlight \in SUBSET QuoteKeys
  /\ ask \in [Asks -> AskState]

\* Every answer was read from the chain within one TTL and one call before it was given,
\* also when a slow call has overwritten the entry of a later one with an older value.
ReadsFresh == \A a \in Asks : ask[a].age < Ttl + CallTicks

\* The requests for one quote share one computation; nobody waits for one that has
\* ended, also after it failed; and what is under way is never older than what is
\* cached, so that the quotes of a key do not go back in time.
QuotesShared ==
  \A k \in QuoteKeys :
    /\ Cardinality(Computing(k)) = IF k \in inFlight THEN 1 ELSE 0
    /\ (\E a \in Asks : ask[a].pc = "wait" /\ ask[a].key = k) => k \in inFlight
    /\ live[k] # NoValue => \A a \in Computing(k) : ask[a].pc = "read" => ask[a].seen >= live[k].value
=============================================================================
