--------------------------- MODULE BroadcasterProofs ---------------------------
(***************************************************************************)
(* Proofs about the broadcaster, for any pools, sockets, clients and       *)
(* calls, any ring length and any bounds on the clock and the trades.      *)
(***************************************************************************)
EXTENDS Broadcaster, InductionProofs, SequenceTheorems, TLAPS

-----------------------------------------------------------------------------
(* The LISTEN connection.                                                  *)

\* Where the one call of reconnectPg that got past the flag stands, and what is left of
\* the connection it is about.
Reconnects(k) ==
  /\ \A j \in Calls \ {k} : call[j] = Idle
  /\ \/ call[k] = [phase |-> "ending", client |-> pg] /\ pgState[pg] \in {"closing", "free"}
     \/ call[k] = [phase |-> "delay", client |-> NoClient] /\ pgState[pg] = "free"
     \/ call[k] = [phase |-> "opening", client |-> pg] /\ pgState[pg] = "opening"

\* All clients but the current one have ended.  The flag is up exactly while one call
\* runs, and only then is the current client not listening.
PgInv ==
  /\ pgState \in [Clients -> {"free", "opening", "listening", "closing"}]
  /\ pg \in Clients /\ reconnecting \in BOOLEAN
  /\ call \in [Calls -> [phase : {"idle", "ending", "delay", "opening"},
                         client : Clients \union {NoClient}]]
  /\ \A c \in Clients \ {pg} : pgState[c] = "free"
  /\ ~reconnecting => pgState[pg] = "listening" /\ \A k \in Calls : call[k] = Idle
  /\ reconnecting => \E k \in Calls : Reconnects(k)

\* The choice of a name for a new object.
LEMMA SomeMember == ASSUME NEW S, S # {} PROVE Some(S) \in S
BY DEF Some

\* The initial connection.
LEMMA PgInit == Init => PgInv
<1> SUFFICES ASSUME Init PROVE PgInv
  OBVIOUS
<1>1. pg \in Clients
  BY SomeMember, BroadcasterAssumption DEF Init
<1>2. Idle \in [phase : {"idle", "ending", "delay", "opening"}, client : Clients \union {NoClient}]
  BY DEF Idle
<1> QED BY <1>1, <1>2 DEF Init, PgInv

\* 'error' and 'end' start at most one call.
LEMMA PgBreaksHolds ==
  ASSUME PgInv, NEW c \in Clients, PgError(c) \/ PgEnd(c) PROVE PgInv'
<1> USE DEF PgInv
<1>1. PICK st \in {"closing", "free"} :
        /\ pgState' = [pgState EXCEPT ![c] = st] /\ ReconnectPg /\ pg' = pg
        /\ pgState[c] = "listening" \/ (pgState[c] = "closing" /\ st = "free")
  BY DEF PgError, PgEnd
<1>2. c = pg
  BY <1>1
<1>3. /\ pgState' \in [Clients -> {"free", "opening", "listening", "closing"}] /\ pgState'[pg] = st
      /\ \A d \in Clients \ {pg} : pgState'[d] = "free"
  BY <1>1, <1>2
<1>4. CASE reconnecting
  <2>1. UNCHANGED <<reconnecting, call>>
    BY <1>1, <1>4 DEF ReconnectPg
  <2>2. PICK k \in Calls : Reconnects(k)
    BY <1>4
  <2>3. call[k] = [phase |-> "ending", client |-> pg]
    BY <1>1, <1>2, <2>2 DEF Reconnects
  <2>4. Reconnects(k)'
    BY <1>1, <1>3, <2>1, <2>2, <2>3 DEF Reconnects
  <2> QED BY <1>1, <1>3, <1>4, <2>1, <2>4
<1>5. CASE ~reconnecting
  <2>1. PICK k \in Calls : k = Some(IdleCalls)
    <3>1. IdleCalls = Calls
      BY <1>5 DEF IdleCalls
    <3> QED BY <3>1, SomeMember, BroadcasterAssumption
  <2>2. reconnecting' = TRUE /\ call' = [call EXCEPT ![k] = [phase |-> "ending", client |-> pg]]
    BY <1>1, <1>5, <2>1 DEF ReconnectPg
  <2>3. /\ call' \in [Calls -> [phase : {"idle", "ending", "delay", "opening"}, client : Clients \union {NoClient}]]
        /\ call'[k] = [phase |-> "ending", client |-> pg] /\ \A j \in Calls \ {k} : call'[j] = Idle
    BY <1>5, <2>1, <2>2
  <2>4. Reconnects(k)'
    BY <1>1, <1>3, <2>3 DEF Reconnects
  <2> QED BY <1>1, <1>3, <2>1, <2>2, <2>3, <2>4
<1> QED BY <1>4, <1>5

\* The steps of the call.
LEMMA CallHolds ==
  ASSUME PgInv, NEW k \in Calls, EndResolves(k) \/ Connect(k) \/ Connected(k) \/ ConnectFails(k)
  PROVE  PgInv'
<1> USE DEF PgInv
<1>0. call[k].phase # "idle" /\ reconnecting /\ Reconnects(k)
  <2>1. call[k].phase # "idle"
    BY DEF EndResolves, Connect, Connected, ConnectFails
  <2>2. call[k] # Idle
    BY <2>1 DEF Idle
  <2>3. reconnecting
    BY <2>2
  <2>4. PICK j \in Calls : Reconnects(j)
    BY <2>3
  <2>5. j = k
    BY <2>2, <2>4 DEF Reconnects
  <2> QED BY <2>1, <2>3, <2>4, <2>5
<1>a. call[k].phase = "opening" => call[k].client = pg
  <2>1. CASE call[k] = [phase |-> "ending", client |-> pg] BY <2>1
  <2>2. CASE call[k] = [phase |-> "delay", client |-> NoClient] BY <2>2
  <2>3. CASE call[k] = [phase |-> "opening", client |-> pg] BY <2>3
  <2> QED BY <1>0, <2>1, <2>2, <2>3 DEF Reconnects
<1>1. CASE EndResolves(k)
  <2> DEFINE row == [phase |-> "delay", client |-> NoClient]
  <2>1. call' = [call EXCEPT ![k] = row] /\ UNCHANGED <<pgState, pg, reconnecting>> /\ pgState[pg] = "free"
    BY <1>0, <1>1 DEF EndResolves, Reconnects
  <2>2. /\ call' \in [Calls -> [phase : {"idle", "ending", "delay", "opening"}, client : Clients \union {NoClient}]]
        /\ call'[k] = row /\ \A j \in Calls \ {k} : call'[j] = call[j]
    BY <2>1
  <2>3. Reconnects(k)'
    BY <1>0, <2>1, <2>2 DEF Reconnects
  <2> QED BY <1>0, <2>1, <2>2, <2>3
<1>2. CASE Connect(k)
  <2> DEFINE row == [phase |-> "opening", client |-> pg']
  <2>1. /\ call' = [call EXCEPT ![k] = row] /\ pgState' = [pgState EXCEPT ![pg'] = "opening"]
        /\ pg' = Some(FreeClients) /\ FreeClients # {} /\ reconnecting' = reconnecting
        /\ pgState[pg] = "free"
    BY <1>0, <1>2 DEF Connect, Reconnects
  <2>2. pg' \in Clients
    BY <2>1, SomeMember DEF FreeClients
  <2>3. /\ call' \in [Calls -> [phase : {"idle", "ending", "delay", "opening"}, client : Clients \union {NoClient}]]
        /\ call'[k] = row /\ \A j \in Calls \ {k} : call'[j] = call[j]
    BY <2>1, <2>2
  <2>4. /\ pgState' \in [Clients -> {"free", "opening", "listening", "closing"}]
        /\ pgState'[pg'] = "opening" /\ \A c \in Clients \ {pg'} : pgState'[c] = "free"
    BY <2>1, <2>2
  <2>5. Reconnects(k)'
    BY <1>0, <2>3, <2>4 DEF Reconnects
  <2> QED BY <1>0, <2>1, <2>2, <2>3, <2>4, <2>5
<1>3. CASE Connected(k)
  <2>1. /\ call' = [call EXCEPT ![k] = Idle] /\ pgState' = [pgState EXCEPT ![pg] = "listening"]
        /\ pg' = pg /\ reconnecting' = FALSE
    BY <1>a, <1>3 DEF Connected
  <2>2. /\ call' \in [Calls -> [phase : {"idle", "ending", "delay", "opening"}, client : Clients \union {NoClient}]]
        /\ \A j \in Calls : call'[j] = Idle
    BY <1>0, <2>1 DEF Idle, Reconnects
  <2> QED BY <2>1, <2>2
<1>4. CASE ConnectFails(k)
  <2> DEFINE row == [phase |-> "delay", client |-> NoClient]
  <2>1. /\ call' = [call EXCEPT ![k] = row] /\ pgState' = [pgState EXCEPT ![pg] = "free"]
        /\ pg' = pg /\ reconnecting' = reconnecting
    BY <1>a, <1>4 DEF ConnectFails
  <2>2. /\ call' \in [Calls -> [phase : {"idle", "ending", "delay", "opening"}, client : Clients \union {NoClient}]]
        /\ call'[k] = row /\ \A j \in Calls \ {k} : call'[j] = call[j]
    BY <2>1
  <2>3. Reconnects(k)'
    BY <1>0, <2>1, <2>2 DEF Reconnects
  <2> QED BY <1>0, <2>1, <2>2, <2>3
<1> QED BY <1>1, <1>2, <1>3, <1>4

\* A step that does not touch the connection.
LEMMA PgStutterHolds == ASSUME PgInv, UNCHANGED pgVars PROVE PgInv'
BY DEF PgInv, pgVars, Reconnects

\* One client at most has handlers, and none while a call is making another.
LEMMA PgPromise == PgInv => OneListener
<1> SUFFICES ASSUME PgInv PROVE OneListener
  OBVIOUS
<1>1. \A c \in Listening : c = pg /\ pgState[pg] = "listening"
  BY DEF PgInv, Listening
<1>2. Listening # {} => ~reconnecting
  BY <1>1 DEF PgInv, Reconnects
<1> QED BY <1>1, <1>2 DEF PgInv, OneListener

-----------------------------------------------------------------------------
(* Runs of ticks.                                                          *)

\* The ticks after the k-th, up to the n-th.
Run(k, n) == [i \in 1..n - k |-> k + i]

\* What a run is.
LEMMA RunIs ==
  ASSUME NEW k \in Nat, NEW n \in Nat, k <= n
  PROVE  /\ Run(k, n) \in Seq(Nat) /\ Len(Run(k, n)) = n - k
         /\ \A i \in 1..n - k : Run(k, n)[i] = k + i
<1>1. n - k \in Nat
  OBVIOUS
<1> QED BY <1>1 DEF Run

\* The next tick makes a run longer, dropping the first makes it shorter.
LEMMA RunAppend ==
  ASSUME NEW k \in Nat, NEW n \in Nat, k <= n PROVE Append(Run(k, n), n + 1) = Run(k, n + 1)
<1>1. /\ Run(k, n) \in Seq(Nat) /\ Len(Run(k, n)) = n - k /\ \A i \in 1..n - k : Run(k, n)[i] = k + i
  BY RunIs
<1>2. /\ Run(k, n + 1) \in Seq(Nat) /\ Len(Run(k, n + 1)) = n + 1 - k
      /\ \A i \in 1..n + 1 - k : Run(k, n + 1)[i] = k + i
  BY RunIs
<1>3. /\ Append(Run(k, n), n + 1) \in Seq(Nat) /\ Len(Append(Run(k, n), n + 1)) = n + 1 - k
      /\ \A i \in 1..n + 1 - k : Append(Run(k, n), n + 1)[i] = k + i
  <2>1. /\ Append(Run(k, n), n + 1) \in Seq(Nat) /\ Len(Append(Run(k, n), n + 1)) = n - k + 1
        /\ \A i \in 1..n - k : Append(Run(k, n), n + 1)[i] = Run(k, n)[i]
        /\ Append(Run(k, n), n + 1)[n - k + 1] = n + 1
    BY <1>1, AppendProperties
  <2>2. ASSUME NEW i \in 1..n + 1 - k PROVE Append(Run(k, n), n + 1)[i] = k + i
    <3>0. i \in 1..n - k \/ i = n - k + 1
      OBVIOUS
    <3>1. CASE i \in 1..n - k
      BY <1>1, <2>1, <3>1
    <3>2. CASE i = n - k + 1
      BY <2>1, <3>2
    <3> QED BY <3>0, <3>1, <3>2
  <2> QED BY <2>1, <2>2
<1> QED BY <1>2, <1>3, SeqEqual

LEMMA RunTail ==
  ASSUME NEW k \in Nat, NEW n \in Nat, k < n PROVE Tail(Run(k, n)) = Run(k + 1, n)
<1>1. /\ Run(k, n) \in Seq(Nat) /\ Len(Run(k, n)) = n - k /\ \A i \in 1..n - k : Run(k, n)[i] = k + i
  BY RunIs
<1>2. /\ Run(k + 1, n) \in Seq(Nat) /\ Len(Run(k + 1, n)) = n - (k + 1)
      /\ \A i \in 1..n - (k + 1) : Run(k + 1, n)[i] = k + 1 + i
  BY RunIs
<1>3. Run(k, n) # <<>>
  BY <1>1
<1>4. /\ Tail(Run(k, n)) \in Seq(Nat) /\ Len(Tail(Run(k, n))) = n - (k + 1)
      /\ \A i \in 1..n - (k + 1) : Tail(Run(k, n))[i] = k + 1 + i
  BY <1>1, <1>3, HeadTailProperties
<1> QED BY <1>2, <1>4, SeqEqual

LEMMA RunEmpty == ASSUME NEW n \in Nat PROVE Run(n, n) = <<>>
<1>1. Run(n, n) \in Seq(Nat) /\ Len(Run(n, n)) = 0
  BY RunIs
<1> QED BY <1>1

-----------------------------------------------------------------------------
(* Bars, ticks and sockets.                                                *)

Trade == [minute : Nat, kind : TradeKinds, late : BOOLEAN]

\* The ring holds the latest ticks, as many as it has room for or fewer.
RingRecent ==
  \A p \in Pools : \E k \in 0..Handled(p) :
    Handled(p) - k <= RingMax /\ recentTicks[p] = Run(k, Handled(p))

\* The stream of trades, the open bars and the ring of every pool.
StreamInv ==
  /\ now \in 0..MaxMinute
  /\ handled \in [Pools -> Seq(Trade)] /\ \A p \in Pools : Handled(p) <= MaxTrades
  /\ bars \in [Pools -> Bar \union {NoBar}] /\ armed \in [Pools -> BOOLEAN]
  /\ \A p \in Pools : bars[p] # NoBar => bars[p].trades <= Handled(p)
  /\ members \in [Pools -> Seq(Nat)] /\ closes \in [Pools -> Seq(Bar)]
  /\ recentTicks \in [Pools -> Seq(Nat)] /\ RingRecent

\* The ticks of one pool that one socket has received.
Spliced(s, p) ==
  p \in subs[s] /\ ~missed[s] /\ sock[s] = "open" =>
     \E k \in 0..since[s][p] : got[s][p] = Run(k, Handled(p))

\* The sockets.
SockInv ==
  /\ sock \in [Sockets -> {"absent", "open", "closing"}]
  /\ clients \subseteq Sockets
  /\ subs \in [Sockets -> SUBSET Pools]
  /\ isAlive \in [Sockets -> BOOLEAN] /\ peer \in [Sockets -> {"up", "gone"}]
  /\ missed \in [Sockets -> BOOLEAN]
  /\ got \in [Sockets -> [Pools -> Seq(Nat)]]
  /\ since \in [Sockets -> [Pools -> Nat]]
  /\ \A s \in Sockets, p \in Pools : since[s][p] <= Handled(p)
  /\ \A s \in clients, p \in Pools : Spliced(s, p)

\* The initial state.
LEMMA BInitHolds == Init => PgInv /\ StreamInv /\ SockInv
<1> SUFFICES ASSUME Init PROVE PgInv /\ StreamInv /\ SockInv
  OBVIOUS
<1> USE BroadcasterAssumption
<1>1. \A p \in Pools : handled[p] = <<>> /\ Handled(p) = 0 /\ recentTicks[p] = <<>>
  BY DEF Init, Handled
<1>2. RingRecent
  BY <1>1, RunEmpty DEF RingRecent
<1>3. StreamInv
  BY <1>1, <1>2 DEF Init, StreamInv
<1>4. SockInv
  BY <1>1 DEF Init, SockInv
<1> QED BY <1>3, <1>4, PgInit

\* A step that leaves the received ticks of a socket as they are.
LEMMA SplicedStable ==
  ASSUME NEW s \in Sockets, NEW p \in Pools, Spliced(s, p),
         got'[s][p] = got[s][p], since'[s][p] = since[s][p], handled'[p] = handled[p],
         p \in subs'[s] <=> p \in subs[s], missed[s] => missed'[s],
         sock'[s] = "open" => sock[s] = "open"
  PROVE  Spliced(s, p)'
BY DEF Spliced, Handled

\* Sockets are deleted; the others keep what they have.
LEMMA DeleteHolds ==
  ASSUME SockInv, NEW gone \in SUBSET Sockets, Delete(gone),
         missed' = Missed(gone), got' = Received(gone), isAlive' \in [Sockets -> BOOLEAN],
         UNCHANGED handled, \A p \in Pools : Handled(p) \in Nat
  PROVE  SockInv'
<1> USE DEF SockInv
<1>1. ASSUME NEW s \in Sockets \ gone
      PROVE  /\ sock'[s] = sock[s] /\ peer'[s] = peer[s] /\ subs'[s] = subs[s] /\ since'[s] = since[s]
             /\ missed'[s] = missed[s] /\ got'[s] = got[s]
  BY DEF Delete, Missed, Received
<1>2. ASSUME NEW s \in gone
      PROVE  /\ sock'[s] = "absent" /\ peer'[s] = "up" /\ subs'[s] = {} /\ missed'[s] = FALSE
             /\ \A p \in Pools : since'[s][p] = 0
  BY DEF Delete, Missed, Received
<1>3. clients' \subseteq clients \ gone
  BY DEF Delete
<1>4. sock' \in [Sockets -> {"absent", "open", "closing"}] /\ peer' \in [Sockets -> {"up", "gone"}]
  BY DEF Delete
<1>5. subs' \in [Sockets -> SUBSET Pools] /\ missed' \in [Sockets -> BOOLEAN]
  BY DEF Delete, Missed
<1>6. since' \in [Sockets -> [Pools -> Nat]]
  BY DEF Delete
<1>7. got' \in [Sockets -> [Pools -> Seq(Nat)]]
  BY DEF Received
<1>8. ASSUME NEW s \in Sockets, NEW p \in Pools PROVE since'[s][p] <= Handled(p)'
  <2>1. Handled(p)' = Handled(p) /\ since[s][p] <= Handled(p) /\ Handled(p) \in Nat
    BY DEF Handled
  <2>2. CASE s \in gone
    <3>1. since'[s][p] = 0
      BY <1>2, <2>2
    <3> QED BY <2>1, <3>1
  <2>3. CASE s \notin gone
    BY <1>1, <2>1, <2>3
  <2> QED BY <2>2, <2>3
<1>9. ASSUME NEW s \in clients', NEW p \in Pools PROVE Spliced(s, p)'
  <2>1. s \in Sockets \ gone /\ Spliced(s, p)
    BY <1>3
  <2> QED BY <1>1, <2>1, SplicedStable
<1> QED BY <1>3, <1>4, <1>5, <1>6, <1>7, <1>8, <1>9

\* Steps that touch neither the stream nor the sockets.
LEMMA StreamStutterHolds == ASSUME StreamInv, UNCHANGED <<now, barVars>> PROVE StreamInv'
BY DEF StreamInv, barVars, RingRecent, Handled

LEMMA SockStutterHolds == ASSUME SockInv, UNCHANGED <<handled, sockVars>> PROVE SockInv'
BY DEF SockInv, sockVars, Spliced, Handled

LEMMA HandledIsNat == StreamInv => \A p \in Pools : Handled(p) \in Nat
BY DEF StreamInv, Handled

\* A trade makes the stream of its pool longer by one, and no other stream.
LEMMA TradeHandled ==
  ASSUME StreamInv, NEW p \in Pools, NEW m \in 0..MaxMinute, NEW t \in TradeKinds, OnTrade(p, m, t)
  PROVE  /\ handled' \in [Pools -> Seq(Trade)]
         /\ Handled(p) \in Nat /\ Handled(p)' = Handled(p) + 1
         /\ \A q \in Pools \ {p} : handled'[q] = handled[q] /\ Handled(q)' = Handled(q)
<1> DEFINE trade == [minute |-> m, kind |-> t, late |-> m < now]
<1>1. trade \in Trade
  <2>1. m \in Nat /\ (m < now) \in BOOLEAN
    BY BroadcasterAssumption
  <2> QED BY <2>1 DEF Trade
<1>2. handled' = [handled EXCEPT ![p] = Append(handled[p], trade)] /\ handled \in [Pools -> Seq(Trade)]
  BY DEF OnTrade, StreamInv
<1> HIDE DEF trade
<1>3. Append(handled[p], trade) \in Seq(Trade) /\ Len(Append(handled[p], trade)) = Len(handled[p]) + 1
  BY <1>1, <1>2
<1>4. handled' \in [Pools -> Seq(Trade)] /\ handled'[p] = Append(handled[p], trade)
  BY <1>2, <1>3
<1>5. \A q \in Pools \ {p} : handled'[q] = handled[q]
  BY <1>2
<1> QED BY <1>2, <1>3, <1>4, <1>5 DEF Handled

\* The new tick pushes the oldest out of a full ring.
LEMMA TradeRing ==
  ASSUME StreamInv, NEW p \in Pools, NEW m \in 0..MaxMinute, NEW t \in TradeKinds, OnTrade(p, m, t)
  PROVE  recentTicks' \in [Pools -> Seq(Nat)] /\ RingRecent'
<1> DEFINE n == Handled(p)
<1>1. /\ Handled(p) \in Nat /\ Handled(p)' = Handled(p) + 1
      /\ \A q \in Pools \ {p} : Handled(q)' = Handled(q)
  BY TradeHandled
<1>2. /\ recentTicks' = [recentTicks EXCEPT ![p] = PushTick(recentTicks[p], Handled(p) + 1)]
      /\ recentTicks \in [Pools -> Seq(Nat)] /\ RingRecent
  BY DEF OnTrade, StreamInv
<1>3. PICK k \in 0..n : n - k <= RingMax /\ recentTicks[p] = Run(k, n)
  BY <1>2 DEF RingRecent
<1>a. k \in Nat /\ n \in Nat /\ k <= n /\ n + 1 \in Nat
  BY <1>1, <1>3
<1> HIDE DEF n
<1>4. Len(recentTicks[p]) = n - k
  BY <1>3, <1>a, RunIs
<1>5. PICK j \in 0..n + 1 : n + 1 - j <= RingMax /\ PushTick(recentTicks[p], n + 1) = Run(j, n + 1)
  <2>1. CASE n - k = RingMax
    <3>1. k < n /\ k + 1 \in Nat /\ k + 1 <= n
      BY <1>a, <1>3, <2>1, BroadcasterAssumption
    <3>2. PushTick(recentTicks[p], n + 1) = Append(Run(k + 1, n), n + 1)
      BY <1>a, <1>3, <1>4, <2>1, <3>1, RunTail DEF PushTick
    <3>3. Append(Run(k + 1, n), n + 1) = Run(k + 1, n + 1)
      BY <1>a, <3>1, RunAppend
    <3>4. k + 1 \in 0..n + 1 /\ n + 1 - (k + 1) <= RingMax
      BY <1>a, <1>3, <3>1
    <3> QED BY <3>2, <3>3, <3>4
  <2>2. CASE n - k # RingMax
    <3>1. PushTick(recentTicks[p], n + 1) = Append(Run(k, n), n + 1)
      BY <1>3, <1>4, <2>2 DEF PushTick
    <3>2. Append(Run(k, n), n + 1) = Run(k, n + 1)
      BY <1>a, RunAppend
    <3>3. k \in 0..n + 1 /\ n + 1 - k <= RingMax
      BY <1>a, <1>3, <2>2, BroadcasterAssumption
    <3> QED BY <3>1, <3>2, <3>3
  <2> QED BY <2>1, <2>2
<1>6. Run(j, n + 1) \in Seq(Nat)
  <2>1. j \in Nat /\ j <= n + 1
    BY <1>5, <1>a
  <2> QED BY <1>a, <2>1, RunIs
<1>7. /\ recentTicks' \in [Pools -> Seq(Nat)] /\ recentTicks'[p] = Run(j, n + 1)
      /\ \A q \in Pools \ {p} : recentTicks'[q] = recentTicks[q]
  BY <1>2, <1>5, <1>6 DEF n
<1>8. ASSUME NEW q \in Pools
      PROVE  \E i \in 0..Handled(q)' : Handled(q)' - i <= RingMax /\ recentTicks'[q] = Run(i, Handled(q)')
  <2>1. CASE q = p
    BY <1>1, <1>5, <1>7, <2>1 DEF n
  <2>2. CASE q # p
    BY <1>1, <1>2, <1>7, <2>2 DEF RingRecent
  <2> QED BY <2>1, <2>2
<1> QED BY <1>7, <1>8 DEF RingRecent, Run

\* The fields of a bar before and after a trade.
LEMMA AddTradeIs ==
  ASSUME NEW b \in [start : 0..MaxMinute, open : Nat, close : Nat, highSqrt : Nat, lowSqrt : Nat,
                    buyEth : Nat, sellEth : Nat, trades : Nat],
         NEW t \in TradeKinds, b.trades < MaxTrades
  PROVE  /\ AddTrade(b, t) \in Bar /\ AddTrade(b, t) # NoBar
         /\ AddTrade(b, t).start = b.start /\ AddTrade(b, t).trades = b.trades + 1
         /\ AddTrade(b, t).open = b.open /\ AddTrade(b, t).close = t.sqrt
         /\ AddTrade(b, t).highSqrt = IF t.sqrt > b.highSqrt THEN t.sqrt ELSE b.highSqrt
         /\ AddTrade(b, t).lowSqrt = IF t.sqrt < b.lowSqrt THEN t.sqrt ELSE b.lowSqrt
<1>1. t \in [sqrt : Nat, eth : Nat, isBuy : BOOLEAN] /\ MaxTrades \in Nat /\ MaxMinute \in Nat
  BY BroadcasterAssumption
<1>2. b.trades + 1 \in 1..MaxTrades
  BY <1>1
<1>3. /\ (IF t.sqrt > b.highSqrt THEN t.sqrt ELSE b.highSqrt) \in Nat
      /\ (IF t.sqrt < b.lowSqrt THEN t.sqrt ELSE b.lowSqrt) \in Nat
      /\ (IF t.isBuy THEN b.buyEth + t.eth ELSE b.buyEth) \in Nat
      /\ (IF t.isBuy THEN b.sellEth ELSE b.sellEth + t.eth) \in Nat
  BY <1>1
<1>4. AddTrade(b, t) \in Bar
  BY <1>1, <1>2, <1>3 DEF AddTrade, Bar
<1>5. AddTrade(b, t) # NoBar
  <2>1. AddTrade(b, t) \in [start : Nat, open : Nat, close : Nat, highSqrt : Nat, lowSqrt : Nat,
                            buyEth : Nat, sellEth : Nat, trades : Nat]
    BY <1>1, <1>4 DEF Bar
  <2> QED BY <2>1, BroadcasterAssumption
<1> QED BY <1>4, <1>5 DEF AddTrade

\* The bar a trade is added to: the open one of its minute, or a new one.
LEMMA TradeBar ==
  ASSUME StreamInv, NEW p \in Pools, NEW m \in 0..MaxMinute, NEW t \in TradeKinds, OnTrade(p, m, t)
  PROVE  \E b \in [start : 0..MaxMinute, open : Nat, close : Nat, highSqrt : Nat, lowSqrt : Nat,
                   buyEth : Nat, sellEth : Nat, trades : Nat] :
           /\ b.trades <= Handled(p) /\ b.trades < MaxTrades /\ b.start = m
           /\ bars' = [bars EXCEPT ![p] = AddTrade(b, t)]
           /\ IF bars[p] = NoBar \/ bars[p].start # m
              THEN /\ members' = [members EXCEPT ![p] = <<Handled(p) + 1>>]
                   /\ b.trades = 0 /\ b.open = t.sqrt /\ b.highSqrt = t.sqrt /\ b.lowSqrt = t.sqrt
              ELSE b = bars[p] /\ members' = [members EXCEPT ![p] = Append(members[p], Handled(p) + 1)]
<1>1. Handled(p) \in Nat /\ Handled(p) < MaxTrades /\ MaxTrades \in Nat
  BY HandledIsNat, BroadcasterAssumption DEF OnTrade
<1>2. t \in [sqrt : Nat, eth : Nat, isBuy : BOOLEAN]
  BY BroadcasterAssumption
<1>3. CASE bars[p] = NoBar \/ bars[p].start # m
  <2>1. PICK b : b = OpenBar(m, t)
    OBVIOUS
  <2>2. /\ b \in [start : 0..MaxMinute, open : Nat, close : Nat, highSqrt : Nat, lowSqrt : Nat,
                  buyEth : Nat, sellEth : Nat, trades : Nat]
        /\ b.trades = 0 /\ b.start = m /\ b.open = t.sqrt /\ b.highSqrt = t.sqrt /\ b.lowSqrt = t.sqrt
    BY <1>2, <2>1 DEF OpenBar
  <2>3. /\ bars' = [bars EXCEPT ![p] = AddTrade(b, t)]
        /\ members' = [members EXCEPT ![p] = <<Handled(p) + 1>>]
    BY <1>3, <2>1 DEF OnTrade
  <2>4. b.trades <= Handled(p) /\ b.trades < MaxTrades
    BY <1>1, <2>2
  <2> QED BY <1>3, <2>2, <2>3, <2>4
<1>4. CASE ~(bars[p] = NoBar \/ bars[p].start # m)
  <2>1. bars[p] \in Bar /\ bars[p].trades <= Handled(p) /\ bars[p].start = m
    BY <1>4 DEF StreamInv
  <2>2. bars[p] \in [start : 0..MaxMinute, open : Nat, close : Nat, highSqrt : Nat, lowSqrt : Nat,
                     buyEth : Nat, sellEth : Nat, trades : Nat]
    BY <1>1, <2>1 DEF Bar
  <2>3. /\ bars' = [bars EXCEPT ![p] = AddTrade(bars[p], t)]
        /\ members' = [members EXCEPT ![p] = Append(members[p], Handled(p) + 1)]
    BY <1>4 DEF OnTrade
  <2>4. bars[p].trades < MaxTrades
    BY <1>1, <2>1, <2>2
  <2> QED BY <1>4, <2>1, <2>2, <2>3, <2>4
<1> QED BY <1>3, <1>4

LEMMA TradeStreamHolds ==
  ASSUME StreamInv, NEW p \in Pools, NEW m \in 0..MaxMinute, NEW t \in TradeKinds, OnTrade(p, m, t)
  PROVE  StreamInv'
<1>1. /\ handled' \in [Pools -> Seq(Trade)] /\ Handled(p) \in Nat /\ Handled(p)' = Handled(p) + 1
      /\ \A q \in Pools \ {p} : Handled(q)' = Handled(q)
  BY TradeHandled
<1>2. recentTicks' \in [Pools -> Seq(Nat)] /\ RingRecent'
  BY TradeRing
<1>3. PICK b \in [start : 0..MaxMinute, open : Nat, close : Nat, highSqrt : Nat, lowSqrt : Nat,
                  buyEth : Nat, sellEth : Nat, trades : Nat] :
        b.trades <= Handled(p) /\ b.trades < MaxTrades /\ bars' = [bars EXCEPT ![p] = AddTrade(b, t)]
  BY TradeBar
<1>4. PICK c \in Bar : c = AddTrade(b, t) /\ c.trades = b.trades + 1
  BY <1>3, AddTradeIs
<1>5. /\ bars' \in [Pools -> Bar \union {NoBar}] /\ bars'[p] = c
      /\ \A q \in Pools \ {p} : bars'[q] = bars[q]
  BY <1>3, <1>4 DEF StreamInv
<1>6. ASSUME NEW q \in Pools
      PROVE  Handled(q)' <= MaxTrades /\ (bars'[q] # NoBar => bars'[q].trades <= Handled(q)')
  <2>1. CASE q = p
    <3>1. Handled(p) + 1 <= MaxTrades
      BY <1>1, BroadcasterAssumption DEF OnTrade
    <3>2. c.trades <= Handled(p) + 1
      BY <1>1, <1>3, <1>4
    <3> QED BY <1>1, <1>5, <2>1, <3>1, <3>2
  <2>2. CASE q # p
    BY <1>1, <1>5, <2>2 DEF StreamInv
  <2> QED BY <2>1, <2>2
<1>7. armed' \in [Pools -> BOOLEAN] /\ now' \in 0..MaxMinute
  BY DEF StreamInv, OnTrade, Arms
<1>c. closes' \in [Pools -> Seq(Bar)]
  <2>1. CASE closes' = closes
    BY <2>1 DEF StreamInv
  <2>2. CASE bars[p] # NoBar /\ closes' = [closes EXCEPT ![p] = Append(closes[p], bars[p])]
    <3>1. Append(closes[p], bars[p]) \in Seq(Bar)
      BY <2>2 DEF StreamInv
    <3> QED BY <2>2, <3>1 DEF StreamInv
  <2> QED BY <2>1, <2>2 DEF OnTrade
<1>8. members' \in [Pools -> Seq(Nat)]
  <2>1. <<Handled(p) + 1>> \in Seq(Nat) /\ Append(members[p], Handled(p) + 1) \in Seq(Nat)
    BY <1>1, SMTT(30) DEF StreamInv
  <2>2. \E u \in {<<Handled(p) + 1>>, Append(members[p], Handled(p) + 1)} :
          members' = [members EXCEPT ![p] = u]
    BY TradeBar
  <2> QED BY <2>1, <2>2 DEF StreamInv
<1> QED BY <1>1, <1>2, <1>5, <1>6, <1>7, <1>8, <1>c DEF StreamInv

\* The tick is appended to what an addressed socket has, unless the socket is culled
\* or marked as having missed it.
LEMMA TradeSockHolds ==
  ASSUME StreamInv, SockInv, NEW p \in Pools, NEW m \in 0..MaxMinute, NEW t \in TradeKinds,
         OnTrade(p, m, t)
  PROVE  SockInv'
<1> USE DEF SockInv
<1>1. /\ Handled(p) \in Nat /\ Handled(p)' = Handled(p) + 1
      /\ \A q \in Pools \ {p} : handled'[q] = handled[q] /\ Handled(q)' = Handled(q)
  BY TradeHandled
<1>2. PICK stalled \in SUBSET Addressed(p) : \E slow \in SUBSET (Addressed(p) \ stalled) :
        Broadcast(p, Handled(p) + 1, stalled, slow)
  BY DEF OnTrade
<1>3. PICK slow \in SUBSET (Addressed(p) \ stalled) : Broadcast(p, Handled(p) + 1, stalled, slow)
  BY <1>2
<1> DEFINE n == Handled(p)
           sent == Addressed(p) \ (stalled \union slow)
<1>4. Addressed(p) \subseteq Sockets
  BY DEF Addressed
<1>5. ASSUME NEW s \in Sockets \ stalled
      PROVE  /\ sock'[s] = sock[s] /\ peer'[s] = peer[s] /\ subs'[s] = subs[s] /\ since'[s] = since[s]
             /\ missed'[s] = (missed[s] \/ s \in slow)
             /\ got'[s] = IF s \in sent THEN [got[s] EXCEPT ![p] = Append(got[s][p], n + 1)] ELSE got[s]
  BY <1>3 DEF Broadcast, Delete, Missed, Received
<1>a. ASSUME NEW s \in Sockets \ stalled
      PROVE  /\ \A q \in Pools \ {p} : got'[s][q] = got[s][q]
             /\ got'[s][p] = IF s \in sent THEN Append(got[s][p], n + 1) ELSE got[s][p]
  <2>1. got[s] \in [Pools -> Seq(Nat)]
    OBVIOUS
  <2>2. CASE s \in sent
    <3>1. got'[s] = [got[s] EXCEPT ![p] = Append(got[s][p], n + 1)]
      BY <1>5, <2>2
    <3> QED BY ONLY <2>1, <2>2, <3>1, p \in Pools
  <2>3. CASE s \notin sent
    <3>1. got'[s] = got[s]
      BY <1>5, <2>3
    <3> QED BY ONLY <2>3, <3>1
  <2> QED BY <2>2, <2>3
<1>6. ASSUME NEW s \in stalled
      PROVE  (\A q \in Pools : since'[s][q] = 0) /\ got'[s] = [q \in Pools |-> <<>>]
  BY <1>3, <1>4 DEF Broadcast, Delete, Received
<1>7. clients' = clients \ stalled
  BY <1>3 DEF Broadcast, Delete
<1>8. sock' \in [Sockets -> {"absent", "open", "closing"}] /\ peer' \in [Sockets -> {"up", "gone"}]
  BY <1>3 DEF Broadcast, Delete
<1>9. subs' \in [Sockets -> SUBSET Pools] /\ missed' \in [Sockets -> BOOLEAN] /\ isAlive' \in [Sockets -> BOOLEAN]
  BY <1>3 DEF Broadcast, Delete, Missed, Alive
<1>10. since' \in [Sockets -> [Pools -> Nat]]
  BY <1>3 DEF Broadcast, Delete
<1>11. got' \in [Sockets -> [Pools -> Seq(Nat)]]
  <2>1. ASSUME NEW s \in Sockets PROVE got'[s] \in [Pools -> Seq(Nat)]
    <3>1. CASE s \in stalled
      <4>1. [q \in Pools |-> <<>>] \in [Pools -> Seq(Nat)]
        OBVIOUS
      <4> QED BY <1>6, <3>1, <4>1
    <3>2. CASE s \notin stalled
      <4>1. Append(got[s][p], n + 1) \in Seq(Nat)
        BY <1>1
      <4>2. [got[s] EXCEPT ![p] = Append(got[s][p], n + 1)] \in [Pools -> Seq(Nat)]
        BY <4>1
      <4> QED BY <1>5, <3>2, <4>2
    <3> QED BY <3>1, <3>2
  <2>2. got' = [s \in Sockets |-> got'[s]]
    BY <1>3 DEF Broadcast
  <2> QED BY <2>1, <2>2
<1>12. ASSUME NEW s \in Sockets, NEW q \in Pools PROVE since'[s][q] <= Handled(q)'
  <2>1. Handled(q) \in Nat /\ Handled(q) <= Handled(q)' /\ Handled(q)' \in Nat
    <3>1. CASE q = p
      BY <1>1, <3>1
    <3>2. CASE q # p
      <4>1. Handled(q) \in Nat /\ Handled(q)' = Handled(q)
        BY <1>1, <3>2, HandledIsNat
      <4> QED BY <4>1
    <3> QED BY <3>1, <3>2
  <2>2. since[s][q] \in Nat /\ since[s][q] <= Handled(q)
    OBVIOUS
  <2>3. CASE s \in stalled
    <3>1. since'[s][q] = 0
      BY <1>6, <2>3
    <3> QED BY <2>1, <3>1
  <2>4. CASE s \notin stalled
    <3>1. since'[s][q] = since[s][q]
      BY <1>5, <2>4
    <3> QED BY <2>1, <2>2, <3>1
  <2> QED BY <2>3, <2>4
<1>13. ASSUME NEW s \in clients', NEW q \in Pools PROVE Spliced(s, q)'
  <2>1. s \in Sockets \ stalled /\ s \in clients /\ Spliced(s, q)
    BY <1>7
  <2>2. CASE q # p
    <3>1. got'[s][q] = got[s][q]
      BY <1>a, <2>1, <2>2
    <3> QED BY <1>1, <1>5, <2>1, <2>2, <3>1, SplicedStable
  <2>3. CASE q = p
    <3>1. ASSUME p \in subs'[s], ~missed'[s], sock'[s] = "open"
          PROVE  \E k \in 0..since'[s][p] : got'[s][p] = Run(k, Handled(p)')
      <4>1. p \in subs[s] /\ ~missed[s] /\ s \notin slow /\ sock[s] = "open"
        BY <1>5, <2>1, <3>1
      <4>2. s \in sent
        BY <2>1, <4>1 DEF Addressed
      <4>3. PICK k \in 0..since[s][p] : got[s][p] = Run(k, n)
        BY <2>1, <2>3, <4>1 DEF Spliced
      <4>4. k \in Nat /\ k <= n
        <5>1. since[s][p] \in Nat /\ since[s][p] <= n
          BY <2>1
        <5> QED BY <1>1, <4>3, <5>1
      <4>5. got'[s][p] = Append(got[s][p], n + 1)
        BY <1>a, <2>1, <4>2
      <4>6. Append(Run(k, n), n + 1) = Run(k, n + 1)
        BY <1>1, <4>4, RunAppend
      <4> QED BY <1>1, <1>5, <2>1, <4>3, <4>5, <4>6
    <3> QED BY <2>3, <3>1 DEF Spliced, Run
  <2> QED BY <2>2, <2>3
<1> QED BY <1>7, <1>8, <1>9, <1>10, <1>11, <1>12, <1>13

\* The timer and the clock.
LEMMA TimerStreamHolds == ASSUME StreamInv, NEW p \in Pools, TimerFires(p) PROVE StreamInv'
<1>1. closes' \in [Pools -> Seq(Bar)]
  <2>1. bars[p] \in Bar /\ closes[p] \in Seq(Bar)
    BY DEF StreamInv, TimerFires
  <2>2. Append(closes[p], bars[p]) \in Seq(Bar)
    BY <2>1
  <2> QED BY <2>2 DEF StreamInv, TimerFires
<1> QED BY <1>1 DEF StreamInv, TimerFires, RingRecent, Handled

LEMMA MinuteStreamHolds == ASSUME StreamInv, Minute PROVE StreamInv'
<1>1. now' \in 0..MaxMinute
  BY BroadcasterAssumption DEF StreamInv, Minute
<1> QED BY <1>1 DEF StreamInv, Minute, barVars, RingRecent, Handled

\* Actions of one socket.  A step about one pool of one socket leaves every other pair
\* as it was.
LEMMA OnConnectionHolds ==
  ASSUME StreamInv, SockInv, NEW s \in Sockets, NEW pools \in SUBSET Pools, OnConnection(s, pools)
  PROVE  SockInv'
<1> USE DEF SockInv
<1>1. \A p \in Pools : Handled(p) \in Nat /\ Handled(p)' = Handled(p) /\ handled'[p] = handled[p]
  BY HandledIsNat DEF OnConnection, barVars, Handled
<1>2. /\ clients' = clients \union {s} /\ sock' \in [Sockets -> {"absent", "open", "closing"}]
      /\ subs' \in [Sockets -> SUBSET Pools] /\ isAlive' \in [Sockets -> BOOLEAN]
      /\ peer' \in [Sockets -> {"up", "gone"}] /\ missed' \in [Sockets -> BOOLEAN]
  BY DEF OnConnection
<1>3. got' \in [Sockets -> [Pools -> Seq(Nat)]] /\ \A p \in Pools : got'[s][p] = <<>>
  BY DEF OnConnection
<1>4. since' \in [Sockets -> [Pools -> Nat]] /\ \A p \in Pools : since'[s][p] = Handled(p)
  BY <1>1 DEF OnConnection
<1>5. ASSUME NEW r \in Sockets \ {s}
      PROVE  /\ got'[r] = got[r] /\ since'[r] = since[r] /\ subs'[r] = subs[r]
             /\ missed'[r] = missed[r] /\ sock'[r] = sock[r]
  BY DEF OnConnection
<1>6. ASSUME NEW r \in Sockets, NEW p \in Pools PROVE since'[r][p] <= Handled(p)'
  <2>1. CASE r = s
    BY <1>1, <1>4, <2>1
  <2>2. CASE r # s
    BY <1>1, <1>5, <2>2
  <2> QED BY <2>1, <2>2
<1>7. ASSUME NEW r \in clients', NEW p \in Pools PROVE Spliced(r, p)'
  <2>1. CASE r = s
    <3>1. got'[s][p] = Run(Handled(p), Handled(p)') /\ Handled(p) \in 0..since'[s][p]
      BY <1>1, <1>3, <1>4, RunEmpty
    <3> QED BY <1>3, <2>1, <3>1 DEF Spliced, Run
  <2>2. CASE r # s
    <3>1. r \in Sockets \ {s} /\ Spliced(r, p)
      BY <1>2, <2>2
    <3> QED BY <1>1, <1>5, <3>1, SplicedStable
  <2> QED BY <2>1, <2>2
<1> QED BY <1>2, <1>3, <1>4, <1>6, <1>7

LEMMA PairHolds ==
  ASSUME StreamInv, SockInv, NEW s \in Sockets, NEW p \in Pools, NEW ticks \in Seq(Nat),
         NEW n \in Nat, NEW ps \in SUBSET Pools,
         UNCHANGED <<barVars, sock, clients, isAlive, peer, missed>>,
         got' = [got EXCEPT ![s][p] = ticks], since' = [since EXCEPT ![s][p] = n], n <= Handled(p),
         subs' = [subs EXCEPT ![s] = ps], ps \ {p} = subs[s] \ {p}, Spliced(s, p)'
  PROVE  SockInv'
<1> USE DEF SockInv
<1>1. \A q \in Pools : Handled(q) \in Nat /\ Handled(q)' = Handled(q) /\ handled'[q] = handled[q]
  BY HandledIsNat DEF barVars, Handled
<1>2. /\ got' \in [Sockets -> [Pools -> Seq(Nat)]]
      /\ \A r \in Sockets, q \in Pools : (r # s \/ q # p) => got'[r][q] = got[r][q]
  OBVIOUS
<1>3. /\ since' \in [Sockets -> [Pools -> Nat]] /\ since'[s][p] = n
      /\ \A r \in Sockets, q \in Pools : (r # s \/ q # p) => since'[r][q] = since[r][q]
  OBVIOUS
<1>4. /\ subs' \in [Sockets -> SUBSET Pools]
      /\ \A r \in Sockets, q \in Pools : (r # s \/ q # p) => (q \in subs'[r] <=> q \in subs[r])
  OBVIOUS
<1>5. ASSUME NEW r \in Sockets, NEW q \in Pools PROVE since'[r][q] <= Handled(q)'
  <2>1. CASE r = s /\ q = p
    BY <1>1, <1>3, <2>1
  <2>2. CASE r # s \/ q # p
    BY <1>1, <1>3, <2>2
  <2> QED BY <2>1, <2>2
<1>6. ASSUME NEW r \in clients', NEW q \in Pools PROVE Spliced(r, q)'
  <2>1. CASE r # s \/ q # p
    <3>1. r \in Sockets /\ Spliced(r, q)
      OBVIOUS
    <3> QED BY <1>1, <1>2, <1>3, <1>4, <2>1, <3>1, SplicedStable
  <2>2. CASE r = s /\ q = p
    BY <2>2
  <2> QED BY <2>1, <2>2
<1> QED BY <1>2, <1>3, <1>4, <1>5, <1>6

\* The ring sent by 'sub' ends at the latest tick.
LEMMA SubscribeHolds ==
  ASSUME StreamInv, SockInv, NEW s \in Sockets, NEW p \in Pools, Subscribe(s, p)
  PROVE  SockInv'
<1>1. /\ subs' = [subs EXCEPT ![s] = subs[s] \union {p}] /\ got' = [got EXCEPT ![s][p] = recentTicks[p]]
      /\ since' = [since EXCEPT ![s][p] = Handled(p)]
      /\ UNCHANGED <<barVars, sock, clients, isAlive, peer, missed>>
  BY DEF Subscribe
<1>2. Handled(p) \in Nat /\ Handled(p)' = Handled(p) /\ recentTicks[p] \in Seq(Nat)
  BY <1>1, HandledIsNat DEF barVars, Handled, StreamInv
<1>3. subs[s] \union {p} \in SUBSET Pools /\ (subs[s] \union {p}) \ {p} = subs[s] \ {p} /\ Handled(p) <= Handled(p)
  BY <1>2 DEF SockInv
<1>4. p \in subs'[s] /\ got'[s][p] = recentTicks[p] /\ since'[s][p] = Handled(p)
  BY <1>1 DEF SockInv
<1>5. PICK k \in 0..Handled(p) : recentTicks[p] = Run(k, Handled(p))
  BY DEF StreamInv, RingRecent
<1>6. Spliced(s, p)'
  BY <1>2, <1>4, <1>5 DEF Spliced, Run
<1> QED BY <1>1, <1>2, <1>3, <1>6, PairHolds, Zenon

LEMMA UnsubscribeHolds ==
  ASSUME StreamInv, SockInv, NEW s \in Sockets, NEW p \in Pools, Unsubscribe(s, p)
  PROVE  SockInv'
<1>1. /\ subs' = [subs EXCEPT ![s] = subs[s] \ {p}] /\ got' = [got EXCEPT ![s][p] = <<>>]
      /\ UNCHANGED <<barVars, sock, clients, isAlive, peer, missed>> /\ since' = since
  BY DEF Unsubscribe
<1>2. since' = [since EXCEPT ![s][p] = since[s][p]] /\ since[s][p] \in Nat /\ since[s][p] <= Handled(p)
  BY <1>1 DEF SockInv
<1>3. subs[s] \ {p} \in SUBSET Pools /\ (subs[s] \ {p}) \ {p} = subs[s] \ {p} /\ <<>> \in Seq(Nat)
  BY DEF SockInv
<1>4. p \notin subs'[s] /\ got'[s][p] = <<>>
  BY <1>1 DEF SockInv
<1>5. Spliced(s, p)'
  BY <1>4 DEF Spliced
<1> QED BY <1>1, <1>2, <1>3, <1>5, PairHolds, Zenon

LEMMA FlagHolds ==
  ASSUME SockInv, NEW s \in Sockets, OnPong(s) \/ BeginClose(s) \/ PeerVanishes(s)
  PROVE  SockInv'
<1> USE DEF SockInv
<1>1. UNCHANGED <<handled, clients, subs, got, since, missed>>
  BY DEF OnPong, BeginClose, PeerVanishes, barVars
<1>2. /\ sock' \in [Sockets -> {"absent", "open", "closing"}] /\ isAlive' \in [Sockets -> BOOLEAN]
      /\ peer' \in [Sockets -> {"up", "gone"}]
      /\ \A r \in Sockets : sock'[r] = "open" => sock[r] = "open"
  BY DEF OnPong, BeginClose, PeerVanishes
<1>3. ASSUME NEW r \in clients', NEW p \in Pools PROVE Spliced(r, p)'
  <2>1. r \in Sockets /\ Spliced(r, p)
    BY <1>1
  <2> QED BY <1>1, <1>2, <2>1, SplicedStable
<1>4. \A r \in Sockets, p \in Pools : since'[r][p] <= Handled(p)'
  BY <1>1 DEF Handled
<1> QED BY <1>1, <1>2, <1>3, <1>4

LEMMA CullHolds ==
  ASSUME StreamInv, SockInv, OnLifecycle \/ Heartbeat \/ \E s \in Sockets : OnClose(s)
  PROVE  SockInv'
<1>1. \A p \in Pools : Handled(p) \in Nat
  BY HandledIsNat
<1>2. UNCHANGED handled
  BY DEF OnLifecycle, Heartbeat, OnClose, barVars
<1>3. PICK gone \in SUBSET Sockets : Delete(gone) /\ missed' = Missed(gone) /\ got' = Received(gone)
  <2>1. CASE OnLifecycle
    BY <2>1 DEF OnLifecycle, SockInv
  <2>2. CASE Heartbeat
    BY <2>2 DEF Heartbeat, SockInv
  <2>3. CASE \E s \in Sockets : OnClose(s)
    BY <2>3 DEF OnClose
  <2> QED BY <2>1, <2>2, <2>3
<1>4. isAlive' \in [Sockets -> BOOLEAN]
  BY DEF OnLifecycle, Heartbeat, OnClose, Alive, SockInv
<1> QED BY <1>1, <1>2, <1>3, <1>4, DeleteHolds

-----------------------------------------------------------------------------
(* The open bar and its trades.                                            *)

\* The square-root price of the i-th trade of a pool.
Sqrt(p, i) == handled[p][i].kind.sqrt

\* The open bar of a pool is about the latest trades, those after the k-th: it counts
\* them, they are of its minute, it opens with the first of them, closes with the last,
\* and its extremes are the prices of two of them that bound the others.
Tells(p, k) ==
  /\ members[p] = Run(k, Handled(p)) /\ bars[p].trades = Handled(p) - k
  /\ bars[p].open = Sqrt(p, k + 1) /\ bars[p].close = Sqrt(p, Handled(p))
  /\ \A i \in k + 1..Handled(p) :
       /\ handled[p][i].minute = bars[p].start
       /\ bars[p].lowSqrt <= Sqrt(p, i) /\ Sqrt(p, i) <= bars[p].highSqrt
  /\ \E i \in k + 1..Handled(p) : bars[p].highSqrt = Sqrt(p, i)
  /\ \E i \in k + 1..Handled(p) : bars[p].lowSqrt = Sqrt(p, i)

\* onTrade and its timer (lines 236-281): all of the open bar but its two volumes.
OpenBarQuotes ==
  \A p \in Pools : bars[p] # NoBar => \E k \in 0..Handled(p) - 1 : Tells(p, k)

\* What a trade adds to the stream of its pool.
LEMMA TradeRecorded ==
  ASSUME StreamInv, NEW p \in Pools, NEW m \in 0..MaxMinute, NEW t \in TradeKinds, OnTrade(p, m, t)
  PROVE  /\ \A i \in 1..Handled(p) : handled'[p][i] = handled[p][i]
         /\ handled'[p][Handled(p) + 1].minute = m /\ handled'[p][Handled(p) + 1].kind = t
<1> DEFINE trade == [minute |-> m, kind |-> t, late |-> m < now]
<1>1. trade \in Trade
  <2>1. m \in Nat /\ (m < now) \in BOOLEAN
    BY BroadcasterAssumption
  <2> QED BY <2>1 DEF Trade
<1>2. trade.minute = m /\ trade.kind = t
  OBVIOUS
<1>3. handled' = [handled EXCEPT ![p] = Append(handled[p], trade)] /\ handled \in [Pools -> Seq(Trade)]
  BY DEF OnTrade, StreamInv
<1> HIDE DEF trade
<1>4. handled'[p] = Append(handled[p], trade) /\ handled[p] \in Seq(Trade)
  BY <1>3
<1> QED BY <1>1, <1>2, <1>4, AppendProperties DEF Handled

\* A trade opens a bar or is added to the one of its minute.
LEMMA TradeTells ==
  ASSUME StreamInv, OpenBarQuotes,
         NEW p \in Pools, NEW m \in 0..MaxMinute, NEW t \in TradeKinds, OnTrade(p, m, t)
  PROVE  \E k \in Nat : k < Handled(p)' /\ Tells(p, k)'
<1>1. PICK n \in Nat : n = Handled(p) /\ Handled(p)' = n + 1
  BY TradeHandled
<1>2. /\ \A i \in 1..n : handled'[p][i] = handled[p][i]
      /\ handled'[p][n + 1].minute = m /\ handled'[p][n + 1].kind = t
  BY <1>1, TradeRecorded
<1>3. \A i \in 1..n : handled[p][i].kind.sqrt \in Nat
  <2>1. ASSUME NEW i \in 1..n PROVE handled[p][i].kind.sqrt \in Nat
    <3>1. handled[p][i] \in Trade
      BY <1>1 DEF StreamInv, Handled
    <3> QED BY <3>1, BroadcasterAssumption DEF Trade
  <2> QED BY <2>1
<1>4. t.sqrt \in Nat
  BY BroadcasterAssumption
<1>5. PICK b \in [start : 0..MaxMinute, open : Nat, close : Nat, highSqrt : Nat, lowSqrt : Nat,
                  buyEth : Nat, sellEth : Nat, trades : Nat] :
           /\ b.trades <= Handled(p) /\ b.trades < MaxTrades /\ b.start = m
           /\ bars' = [bars EXCEPT ![p] = AddTrade(b, t)]
           /\ IF bars[p] = NoBar \/ bars[p].start # m
              THEN /\ members' = [members EXCEPT ![p] = <<Handled(p) + 1>>]
                   /\ b.trades = 0 /\ b.open = t.sqrt /\ b.highSqrt = t.sqrt /\ b.lowSqrt = t.sqrt
              ELSE b = bars[p] /\ members' = [members EXCEPT ![p] = Append(members[p], Handled(p) + 1)]
  BY TradeBar
<1>6. PICK c : /\ bars'[p] = c /\ c.start = m /\ c.trades = b.trades + 1
               /\ c.open = b.open /\ c.close = t.sqrt
               /\ c.highSqrt = (IF t.sqrt > b.highSqrt THEN t.sqrt ELSE b.highSqrt)
               /\ c.lowSqrt = (IF t.sqrt < b.lowSqrt THEN t.sqrt ELSE b.lowSqrt)
  <2>1. bars'[p] = AddTrade(b, t)
    BY <1>5 DEF StreamInv
  <2> QED BY <1>5, <2>1, AddTradeIs
<1>7. b.highSqrt \in Nat /\ b.lowSqrt \in Nat /\ b.trades \in Nat
  OBVIOUS
<1>8. CASE bars[p] = NoBar \/ bars[p].start # m
  <2>1. members'[p] = Run(n, n + 1)
    <3>1. members'[p] = <<n + 1>>
      BY <1>1, <1>5, <1>8 DEF StreamInv
    <3>2. <<n + 1>> = Append(<<>>, n + 1)
      OBVIOUS
    <3>3. Append(Run(n, n), n + 1) = Run(n, n + 1)
      <4>1. n <= n
        OBVIOUS
      <4> QED BY <4>1, RunAppend
    <3> QED BY <3>1, <3>2, <3>3, RunEmpty
  <2>2. Tells(p, n)'
    BY <1>1, <1>2, <1>4, <1>5, <1>6, <1>8, <2>1, SMTT(30) DEF Tells, Run, Sqrt
  <2> QED BY <1>1, <2>2
<1>9. CASE ~(bars[p] = NoBar \/ bars[p].start # m)
  <2>1. PICK k \in Nat : k < n /\ Tells(p, k)
    BY <1>1, <1>9 DEF OpenBarQuotes
  <2>2. members'[p] = Run(k, n + 1)
    <3>1. members'[p] = Append(members[p], n + 1)
      BY <1>1, <1>5, <1>9 DEF StreamInv
    <3>2. members[p] = Run(k, n)
      BY <1>1, <2>1 DEF Tells
    <3>3. k <= n
      BY <2>1
    <3> QED BY <3>1, <3>2, <3>3, RunAppend
  <2>3. c.trades = n + 1 - k /\ c.open = Sqrt(p, k + 1)'
    <3>1. b.trades = n - k /\ b.open = handled[p][k + 1].kind.sqrt
      BY <1>1, <1>5, <1>9, <2>1 DEF Tells, Sqrt
    <3>2. k + 1 \in 1..n
      BY <2>1
    <3> QED BY <1>2, <1>6, <2>1, <3>1, <3>2 DEF Sqrt
  <2>4. ASSUME NEW i \in k + 1..n
        PROVE  /\ i \in 1..n + 1 /\ handled'[p][i].minute = m /\ Sqrt(p, i)' = Sqrt(p, i) /\ Sqrt(p, i) \in Nat
               /\ b.lowSqrt <= Sqrt(p, i) /\ Sqrt(p, i) <= b.highSqrt
    <3>1. i \in 1..n
      BY <2>1
    <3>2. /\ handled[p][i].minute = bars[p].start /\ bars[p].lowSqrt <= Sqrt(p, i)
          /\ Sqrt(p, i) <= bars[p].highSqrt
      BY <1>1, <2>1 DEF Tells
    <3>3. handled'[p][i] = handled[p][i] /\ handled[p][i].kind.sqrt \in Nat /\ i \in 1..n + 1
      BY <1>2, <1>3, <3>1
    <3>4. b = bars[p] /\ bars[p].start = m
      BY <1>5, <1>9
    <3> QED BY <3>2, <3>3, <3>4 DEF Sqrt
  <2>5. Sqrt(p, n + 1)' = t.sqrt /\ handled'[p][n + 1].minute = m
    BY <1>2 DEF Sqrt
  <2>6. ASSUME NEW i \in k + 1..n + 1
        PROVE  handled'[p][i].minute = m /\ c.lowSqrt <= Sqrt(p, i)' /\ Sqrt(p, i)' <= c.highSqrt
    <3>1. CASE i = n + 1
      BY <1>4, <1>6, <1>7, <2>5, <3>1
    <3>2. CASE i \in k + 1..n
      BY <1>4, <1>6, <1>7, <2>4, <3>2
    <3>3. i = n + 1 \/ i \in k + 1..n
      BY <2>1
    <3> QED BY <3>1, <3>2, <3>3
  <2>7. (\E i \in k + 1..n : b.highSqrt = Sqrt(p, i)) /\ (\E i \in k + 1..n : b.lowSqrt = Sqrt(p, i))
    BY <1>1, <1>5, <1>9, <2>1 DEF Tells
  <2>8. \A i \in k + 1..n : i \in k + 1..n + 1
    BY <2>1
  <2>9. n + 1 \in k + 1..n + 1
    BY <2>1
  <2>10. \E i \in k + 1..n + 1 : c.highSqrt = Sqrt(p, i)'
    <3>1. PICK i \in k + 1..n : b.highSqrt = Sqrt(p, i)
      BY <2>7
    <3>2. Sqrt(p, i)' = Sqrt(p, i) /\ i \in k + 1..n + 1
      BY <2>4, <2>8
    <3> QED BY <1>6, <2>5, <2>9, <3>1, <3>2
  <2>11. \E i \in k + 1..n + 1 : c.lowSqrt = Sqrt(p, i)'
    <3>1. PICK i \in k + 1..n : b.lowSqrt = Sqrt(p, i)
      BY <2>7
    <3>2. Sqrt(p, i)' = Sqrt(p, i) /\ i \in k + 1..n + 1
      BY <2>4, <2>8
    <3> QED BY <1>6, <2>5, <2>9, <3>1, <3>2
  <2>12. Tells(p, k)'
    <3>1. (members[p] = Run(k, Handled(p)))' /\ (bars[p].trades = Handled(p) - k)'
      BY <1>1, <1>6, <2>2, <2>3 DEF Run
    <3>2. (bars[p].open = Sqrt(p, k + 1))' /\ (bars[p].close = Sqrt(p, Handled(p)))'
      BY <1>1, <1>6, <2>3, <2>5 DEF Sqrt
    <3>3. (\A i \in k + 1..Handled(p) : /\ handled[p][i].minute = bars[p].start
                                        /\ bars[p].lowSqrt <= Sqrt(p, i) /\ Sqrt(p, i) <= bars[p].highSqrt)'
      BY <1>1, <1>6, <2>6 DEF Sqrt
    <3>4. /\ (\E i \in k + 1..Handled(p) : bars[p].highSqrt = Sqrt(p, i))'
          /\ (\E i \in k + 1..Handled(p) : bars[p].lowSqrt = Sqrt(p, i))'
      BY <1>1, <1>6, <2>10, <2>11 DEF Sqrt
    <3> QED BY <3>1, <3>2, <3>3, <3>4 DEF Tells
  <2>13. k < Handled(p)'
    BY <1>1, <2>1
  <2> QED BY <2>12, <2>13
<1> QED BY <1>8, <1>9

\* No other step touches the bar of a pool and leaves it open.
LEMMA QuotesStable ==
  ASSUME OpenBarQuotes, NEW p \in Pools, bars'[p] # NoBar,
         bars'[p] = bars[p], members'[p] = members[p], handled'[p] = handled[p]
  PROVE  \E k \in 0..Handled(p)' - 1 : Tells(p, k)'
<1>1. Handled(p)' = Handled(p) /\ bars[p] # NoBar
  BY DEF Handled
<1>2. PICK k \in 0..Handled(p) - 1 : Tells(p, k)
  BY <1>1 DEF OpenBarQuotes
<1>3. Tells(p, k)'
  <2>1. (members[p] = Run(k, Handled(p)))' /\ (bars[p].trades = Handled(p) - k)'
    BY <1>1, <1>2 DEF Tells, Run
  <2>2. (bars[p].open = Sqrt(p, k + 1))' /\ (bars[p].close = Sqrt(p, Handled(p)))'
    BY <1>1, <1>2 DEF Tells, Sqrt
  <2>3. (\A i \in k + 1..Handled(p) : /\ handled[p][i].minute = bars[p].start
                                      /\ bars[p].lowSqrt <= Sqrt(p, i) /\ Sqrt(p, i) <= bars[p].highSqrt)'
    BY <1>1, <1>2 DEF Tells, Sqrt
  <2>4. /\ (\E i \in k + 1..Handled(p) : bars[p].highSqrt = Sqrt(p, i))'
        /\ (\E i \in k + 1..Handled(p) : bars[p].lowSqrt = Sqrt(p, i))'
    BY <1>1, <1>2 DEF Tells, Sqrt
  <2> QED BY <2>1, <2>2, <2>3, <2>4 DEF Tells
<1> QED BY <1>1, <1>2, <1>3

LEMMA QuotesStutterHolds == ASSUME OpenBarQuotes, UNCHANGED barVars PROVE OpenBarQuotes'
<1>1. UNCHANGED <<bars, members, handled>>
  BY DEF barVars
<1> QED BY <1>1, QuotesStable DEF OpenBarQuotes

LEMMA TimerQuotesHold ==
  ASSUME StreamInv, OpenBarQuotes, NEW p \in Pools, TimerFires(p) PROVE OpenBarQuotes'
<1>1. \A q \in Pools : bars'[q] # NoBar =>
        bars'[q] = bars[q] /\ members'[q] = members[q] /\ handled'[q] = handled[q]
  BY DEF TimerFires, StreamInv
<1> QED BY <1>1, QuotesStable DEF OpenBarQuotes

LEMMA TradeQuotesHold ==
  ASSUME StreamInv, OpenBarQuotes,
         NEW p \in Pools, NEW m \in 0..MaxMinute, NEW t \in TradeKinds, OnTrade(p, m, t)
  PROVE  OpenBarQuotes'
<1>1. PICK k \in Nat : k < Handled(p)' /\ Tells(p, k)'
  BY TradeTells
<1>2. Handled(p)' \in Nat
  BY TradeHandled
<1>3. k \in 0..Handled(p)' - 1
  BY <1>1, <1>2
<1>4. ASSUME NEW q \in Pools \ {p}
      PROVE  bars'[q] = bars[q] /\ members'[q] = members[q] /\ handled'[q] = handled[q]
  <2>1. (\E u : members' = [members EXCEPT ![p] = u]) /\ (\E c : bars' = [bars EXCEPT ![p] = c])
    BY TradeBar, ZenonT(60)
  <2> QED BY <2>1, TradeHandled DEF StreamInv
<1>5. ASSUME NEW q \in Pools, bars'[q] # NoBar PROVE \E j \in 0..Handled(q)' - 1 : Tells(q, j)'
  <2>1. CASE q = p
    BY <1>1, <1>3, <2>1
  <2>2. CASE q # p
    BY <1>4, <1>5, <2>2, QuotesStable
  <2> QED BY <2>1, <2>2
<1> QED BY <1>5 DEF OpenBarQuotes

-----------------------------------------------------------------------------
(* The invariant.                                                          *)

BInv == up \in BOOLEAN /\ PgInv /\ StreamInv /\ SockInv /\ OpenBarQuotes

LEMMA BStepHolds == BInv /\ [Next]_vars => BInv'
<1>0. ASSUME BInv, [Next]_vars PROVE up' \in BOOLEAN
  BY <1>0 DEF BInv, Next, Running, ConnectionLost, vars
<1> SUFFICES ASSUME PgInv, StreamInv, SockInv, OpenBarQuotes, [Next]_vars
             PROVE  PgInv' /\ StreamInv' /\ SockInv' /\ OpenBarQuotes'
  BY <1>0 DEF BInv
<1>1. ASSUME UNCHANGED <<now, barVars, sockVars>> PROVE StreamInv' /\ SockInv' /\ OpenBarQuotes'
  <2>1. UNCHANGED handled
    BY <1>1 DEF barVars
  <2> QED BY <1>1, <2>1, StreamStutterHolds, SockStutterHolds, QuotesStutterHolds
<1>2. ASSUME UNCHANGED <<pgVars, now, barVars>> PROVE PgInv' /\ StreamInv' /\ OpenBarQuotes'
  BY <1>2, PgStutterHolds, StreamStutterHolds, QuotesStutterHolds
<1>3. CASE \E c \in Clients : PgError(c) \/ PgEnd(c)
  <2>1. UNCHANGED <<now, barVars, sockVars>>
    BY <1>3 DEF PgError, PgEnd
  <2> QED BY <1>1, <1>3, <2>1, PgBreaksHolds
<1>4. CASE \E k \in Calls : EndResolves(k) \/ Connect(k) \/ Connected(k) \/ ConnectFails(k)
  <2>1. UNCHANGED <<now, barVars, sockVars>>
    BY <1>4 DEF EndResolves, Connect, Connected, ConnectFails
  <2> QED BY <1>1, <1>4, <2>1, CallHolds
<1>5. CASE \E p \in Pools, m \in 0..MaxMinute, t \in TradeKinds : OnTrade(p, m, t)
  <2>1. PICK p \in Pools, m \in 0..MaxMinute, t \in TradeKinds : OnTrade(p, m, t)
    BY <1>5
  <2>2. UNCHANGED pgVars
    BY <2>1 DEF OnTrade
  <2> QED BY <2>1, <2>2, PgStutterHolds, TradeStreamHolds, TradeSockHolds, TradeQuotesHold
<1>6. CASE \E p \in Pools : TimerFires(p)
  <2>1. UNCHANGED <<pgVars, handled, sockVars>>
    BY <1>6 DEF TimerFires
  <2> QED BY <1>6, <2>1, PgStutterHolds, TimerStreamHolds, SockStutterHolds, TimerQuotesHold
<1>7. CASE Minute
  <2>1. UNCHANGED <<pgVars, barVars, sockVars>> /\ UNCHANGED handled
    BY <1>7 DEF Minute, barVars
  <2> QED BY <1>7, <2>1, PgStutterHolds, MinuteStreamHolds, SockStutterHolds, QuotesStutterHolds
<1>8. CASE OnLifecycle \/ Heartbeat \/ \E s \in Sockets : OnClose(s)
  <2>1. UNCHANGED <<pgVars, now, barVars>>
    BY <1>8 DEF OnLifecycle, Heartbeat, OnClose
  <2> QED BY <1>2, <1>8, <2>1, CullHolds
<1>9. CASE \E s \in Sockets, pools \in {{}} \union {{p} : p \in Pools} : OnConnection(s, pools)
  <2>1. PICK s \in Sockets, pools \in SUBSET Pools : OnConnection(s, pools)
    BY <1>9
  <2>2. UNCHANGED <<pgVars, now, barVars>>
    BY <2>1 DEF OnConnection
  <2> QED BY <1>2, <2>1, <2>2, OnConnectionHolds
<1>10. CASE \E s \in Sockets, p \in Pools : Subscribe(s, p) \/ Unsubscribe(s, p)
  <2>1. UNCHANGED <<pgVars, now, barVars>>
    BY <1>10 DEF Subscribe, Unsubscribe
  <2> QED BY <1>2, <1>10, <2>1, SubscribeHolds, UnsubscribeHolds
<1>11. CASE \E s \in Sockets : OnPong(s) \/ BeginClose(s) \/ PeerVanishes(s)
  <2>1. UNCHANGED <<pgVars, now, barVars>>
    BY <1>11 DEF OnPong, BeginClose, PeerVanishes
  <2> QED BY <1>2, <1>11, <2>1, FlagHolds
<1>12. CASE UNCHANGED vars
  <2>1. UNCHANGED pgVars /\ UNCHANGED <<now, barVars, sockVars>>
    BY <1>12 DEF vars
  <2> QED BY <1>1, <2>1, PgStutterHolds
<1>13. CASE \E k \in Calls : ConnectionLost(k)
  <2>1. UNCHANGED <<pgVars, now, barVars, sockVars>>
    BY <1>13 DEF ConnectionLost
  <2> QED BY <1>1, <1>2, <2>1
<1> QED BY <1>3, <1>4, <1>5, <1>6, <1>7, <1>8, <1>9, <1>10, <1>11, <1>12, <1>13
        DEF Next, Running, Step

\* BInv is an invariant of the broadcaster.
THEOREM BroadcasterInvariant == Spec => []BInv
<1>1. Init => BInv
  <2>1. Init => OpenBarQuotes
    BY DEF Init, OpenBarQuotes
  <2>2. Init => up \in BOOLEAN
    BY DEF Init
  <2> QED BY <2>1, <2>2, BInitHolds DEF BInv
<1> QED BY <1>1, BStepHolds, PTL DEF Spec

\* Type correctness: in particular the ring of a pool (lines 211-216) never holds more
\* ticks than its limit, nor one that was not broadcast.
THEOREM BroadcasterTypeCorrect == Spec => []TypeOK
<1>1. BInv => TypeOK
  <2> SUFFICES ASSUME BInv PROVE TypeOK
    OBVIOUS
  <2>1. ASSUME NEW p \in Pools
        PROVE  Len(recentTicks[p]) <= RingMax /\ ToSet(recentTicks[p]) \subseteq 1..Handled(p)
    <3>1. PICK k \in 0..Handled(p) : Handled(p) - k <= RingMax /\ recentTicks[p] = Run(k, Handled(p))
      BY DEF BInv, StreamInv, RingRecent
    <3>2. Handled(p) \in Nat /\ k \in Nat /\ k <= Handled(p)
      BY <3>1, HandledIsNat DEF BInv
    <3>3. /\ Len(recentTicks[p]) = Handled(p) - k
          /\ \A i \in 1..Handled(p) - k : recentTicks[p][i] = k + i
      BY <3>1, <3>2, RunIs
    <3>4. ToSet(recentTicks[p]) = {recentTicks[p][i] : i \in 1..Handled(p) - k}
      BY <3>1, <3>2 DEF ToSet, Run
    <3> QED BY <3>1, <3>2, <3>3, <3>4
  <2> QED BY <2>1 DEF BInv, PgInv, StreamInv, SockInv, TypeOK
<1> QED BY <1>1, BroadcasterInvariant, PTL

\* reconnectPg (lines 161-171): however 'error' and 'end' events, failed attempts and
\* running calls interleave, one client at most has handlers.
THEOREM ListensOnce == Spec => []OneListener
<1>1. BInv => OneListener
  BY PgPromise DEF BInv
<1> QED BY <1>1, BroadcasterInvariant, PTL

\* The snapshot of 'sub' and broadcast (lines 85-95, 284-300): what a socket received
\* for a pool is a gapless run of ticks up to the latest.
THEOREM SplicesGapless == Spec => []TicksSpliced
<1>1. BInv => TicksSpliced
  <2> SUFFICES ASSUME BInv, NEW s \in clients, NEW p \in subs[s], ~missed[s], sock[s] = "open"
               PROVE  \E k \in 0..since[s][p] : got[s][p] = [i \in 1..Handled(p) - k |-> k + i]
    BY DEF TicksSpliced
  <2>1. p \in Pools /\ Spliced(s, p)
    BY DEF BInv, SockInv
  <2> QED BY <2>1 DEF Spliced, Run
<1> QED BY <1>1, BroadcasterInvariant, PTL

\* onTrade and its timer (lines 236-281): the open bar quotes the trades handled since
\* it was opened, which are all of its minute and of which it has lost none.
THEOREM OpenBarsQuoteTheirTrades == Spec => []OpenBarQuotes
<1>1. BInv => OpenBarQuotes
  BY DEF BInv
<1> QED BY <1>1, BroadcasterInvariant, PTL

-----------------------------------------------------------------------------
(* The account of the trades.                                              *)

\* The trades of the open bar.
Open(p) == IF bars[p] = NoBar THEN 0 ELSE bars[p].trades

\* onTrade and its timer (lines 236-281): a step announces the open bar of a pool or no
\* bar, and in both cases the announced and the open bars together gain exactly the
\* trades handled in the step: none is dropped, and none is announced twice.
TradesConserved ==
  \A p \in Pools :
    \/ closes'[p] = closes[p] /\ Handled(p)' + Open(p) = Handled(p) + Open(p)'
    \/ /\ bars[p] # NoBar /\ closes'[p] = Append(closes[p], bars[p])
       /\ Handled(p)' = Handled(p) + Open(p)'

LEMMA TradeConserves ==
  ASSUME StreamInv, NEW p \in Pools, NEW m \in 0..MaxMinute, NEW t \in TradeKinds, OnTrade(p, m, t)
  PROVE  TradesConserved
<1>1. /\ Handled(p) \in Nat /\ Handled(p)' = Handled(p) + 1
      /\ \A q \in Pools \ {p} : Handled(q)' = Handled(q)
  BY TradeHandled
<1>2. PICK b \in [start : 0..MaxMinute, open : Nat, close : Nat, highSqrt : Nat, lowSqrt : Nat,
                  buyEth : Nat, sellEth : Nat, trades : Nat] :
           /\ b.trades < MaxTrades /\ bars' = [bars EXCEPT ![p] = AddTrade(b, t)]
           /\ IF bars[p] = NoBar \/ bars[p].start # m THEN b.trades = 0 ELSE b = bars[p]
  BY TradeBar
<1>3. /\ bars'[p] # NoBar /\ bars'[p].trades = b.trades + 1
      /\ \A q \in Pools \ {p} : bars'[q] = bars[q]
  BY <1>2, AddTradeIs DEF StreamInv
<1>4. Open(p)' = b.trades + 1 /\ \A q \in Pools \ {p} : Open(q)' = Open(q)
  BY <1>3 DEF Open
<1>5. closes' = IF (bars[p] = NoBar \/ bars[p].start # m) /\ bars[p] # NoBar
                THEN [closes EXCEPT ![p] = Append(closes[p], bars[p])] ELSE closes
  BY DEF OnTrade
<1>6. \A q \in Pools \ {p} : closes'[q] = closes[q]
  BY <1>5 DEF StreamInv
<1>7. \/ closes'[p] = closes[p] /\ Handled(p)' + Open(p) = Handled(p) + Open(p)'
      \/ /\ bars[p] # NoBar /\ closes'[p] = Append(closes[p], bars[p])
         /\ Handled(p)' = Handled(p) + Open(p)'
  <2>1. CASE bars[p] = NoBar
    BY <1>1, <1>2, <1>4, <1>5, <2>1 DEF Open
  <2>2. CASE bars[p] # NoBar /\ bars[p].start # m
    <3>1. closes'[p] = Append(closes[p], bars[p])
      BY <1>5, <2>2 DEF StreamInv
    <3> QED BY <1>1, <1>2, <1>4, <2>2, <3>1
  <2>3. CASE bars[p] # NoBar /\ bars[p].start = m
    <3>1. closes' = closes /\ Open(p) = b.trades /\ b.trades \in Nat
      BY <1>2, <1>5, <2>3 DEF Open
    <3> QED BY <1>1, <1>4, <3>1
  <2> QED BY <2>1, <2>2, <2>3
<1>8. \A q \in Pools \ {p} : closes'[q] = closes[q] /\ Handled(q)' + Open(q) = Handled(q) + Open(q)'
  BY <1>1, <1>4, <1>6
<1> QED BY <1>7, <1>8 DEF TradesConserved

LEMMA TimerConserves ==
  ASSUME StreamInv, NEW p \in Pools, TimerFires(p) PROVE TradesConserved
<1>1. /\ bars[p] # NoBar /\ closes'[p] = Append(closes[p], bars[p]) /\ bars'[p] = NoBar
      /\ \A q \in Pools \ {p} : closes'[q] = closes[q] /\ bars'[q] = bars[q]
  BY DEF StreamInv, TimerFires
<1>2. \A q \in Pools : Handled(q)' = Handled(q) /\ Handled(q) \in Nat
  BY HandledIsNat DEF TimerFires, Handled
<1>3. Open(p)' = 0 /\ \A q \in Pools \ {p} : Open(q)' = Open(q)
  BY <1>1 DEF Open
<1>4. Handled(p)' = Handled(p) + Open(p)'
  BY <1>2, <1>3
<1>5. \A q \in Pools \ {p} : closes'[q] = closes[q] /\ Handled(q)' + Open(q) = Handled(q) + Open(q)'
  BY <1>1, <1>2, <1>3
<1> QED BY <1>1, <1>4, <1>5 DEF TradesConserved

-----------------------------------------------------------------------------
(* Summaries of trades.                                                    *)

\* The kinds of the trades after the k-th of a stream, up to the n-th.
Slice(h, k, n) == [i \in DOMAIN Run(k, n) |-> h[Run(k, n)[i]].kind]

LEMMA SliceIs ==
  ASSUME NEW h \in Seq(Trade), NEW k \in Nat, NEW n \in Nat, k <= n, n <= Len(h)
  PROVE  /\ Slice(h, k, n) \in Seq(TradeKinds) /\ Len(Slice(h, k, n)) = n - k
         /\ DOMAIN Slice(h, k, n) = 1..n - k
         /\ \A i \in 1..n - k : Slice(h, k, n)[i] = h[k + i].kind
<1>1. /\ Run(k, n) \in Seq(Nat) /\ Len(Run(k, n)) = n - k /\ \A i \in 1..n - k : Run(k, n)[i] = k + i
      /\ DOMAIN Run(k, n) = 1..n - k /\ n - k \in Nat
  BY RunIs DEF Run
<1>2. ASSUME NEW i \in 1..n - k PROVE h[k + i].kind \in TradeKinds
  <2>1. k + i \in 1..Len(h)
    OBVIOUS
  <2>2. h[k + i] \in Trade
    BY <2>1
  <2> QED BY <2>2 DEF Trade
<1>3. Slice(h, k, n) = [i \in 1..n - k |-> h[k + i].kind]
  BY <1>1 DEF Slice
<1>4. [i \in 1..n - k |-> h[k + i].kind] \in Seq(TradeKinds)
  BY <1>1, <1>2
<1> QED BY <1>1, <1>3, <1>4

LEMMA SliceAppend ==
  ASSUME NEW h \in Seq(Trade), NEW x \in Trade, NEW k \in Nat, k <= Len(h)
  PROVE  Slice(Append(h, x), k, Len(h) + 1) = Append(Slice(h, k, Len(h)), x.kind)
<1> DEFINE n == Len(h)
           g == Append(h, x)
           old == Slice(h, k, n)
           new == Slice(g, k, n + 1)
<1>1. /\ n \in Nat /\ g \in Seq(Trade) /\ Len(g) = n + 1 /\ g[n + 1] = x
      /\ \A i \in 1..n : g[i] = h[i]
  BY AppendProperties
<1> HIDE DEF n, g
<1>2. k <= n
  BY DEF n
<1>a. n <= Len(h) /\ n + 1 <= Len(g) /\ k <= n + 1 /\ n + 1 \in Nat /\ n + 1 - k = n - k + 1
  BY <1>1, <1>2 DEF n
<1>3. old \in Seq(TradeKinds) /\ Len(old) = n - k /\ \A i \in 1..n - k : old[i] = h[k + i].kind
  BY <1>1, <1>2, <1>a, SliceIs
<1>4. new \in Seq(TradeKinds) /\ Len(new) = n - k + 1 /\ \A i \in 1..n - k + 1 : new[i] = g[k + i].kind
  <2> DEFINE e == n + 1
  <2>0. new = Slice(g, k, e)
    OBVIOUS
  <2> HIDE DEF new
  <2>1. e \in Nat /\ k <= e /\ e <= Len(g) /\ e - k = n - k + 1
    BY <1>1, <1>a
  <2> HIDE DEF e
  <2>2. new \in Seq(TradeKinds) /\ Len(new) = e - k /\ \A i \in 1..e - k : new[i] = g[k + i].kind
    BY <1>1, <2>0, <2>1, SliceIs
  <2> QED BY <2>1, <2>2
<1>5. x.kind \in TradeKinds
  BY DEF Trade
<1> HIDE DEF old, new
<1>6. /\ Append(old, x.kind) \in Seq(TradeKinds) /\ Len(Append(old, x.kind)) = n - k + 1
      /\ \A i \in 1..n - k : Append(old, x.kind)[i] = old[i]
      /\ Append(old, x.kind)[n - k + 1] = x.kind
  BY <1>3, <1>5, AppendProperties
<1>7. ASSUME NEW i \in 1..n - k + 1 PROVE new[i] = Append(old, x.kind)[i]
  <2>1. CASE i = n - k + 1
    <3>1. k + i = n + 1
      BY <1>1, <1>2, <2>1
    <3> QED BY <1>1, <1>4, <1>6, <2>1, <3>1
  <2>2. CASE i \in 1..n - k
    <3>1. k + i \in 1..n
      BY <1>1, <1>2, <2>2
    <3> QED BY <1>1, <1>3, <1>4, <1>6, <2>2, <3>1
  <2>3. i = n - k + 1 \/ i \in 1..n - k
    BY <1>1, <1>2
  <2> QED BY <2>1, <2>2, <2>3
<1>8. new = Append(old, x.kind)
  BY <1>4, <1>6, <1>7, SeqEqual
<1> QED BY <1>8 DEF new, old, g, n

\* A further trade changes no earlier slice.
LEMMA SliceStable ==
  ASSUME NEW h \in Seq(Trade), NEW x \in Trade, NEW k \in Nat, NEW n \in Nat, k <= n, n <= Len(h)
  PROVE  Slice(Append(h, x), k, n) = Slice(h, k, n)
<1>1. \A i \in DOMAIN Run(k, n) : Run(k, n)[i] \in 1..Len(h)
  BY RunIs DEF Run
<1>2. \A i \in 1..Len(h) : Append(h, x)[i] = h[i]
  BY AppendProperties
<1> QED BY <1>1, <1>2 DEF Slice

\* What one more trade adds to the volumes.
LEMMA EthAppend ==
  ASSUME NEW ts \in Seq(TradeKinds), NEW t \in TradeKinds, NEW buy \in BOOLEAN
  PROVE  Eth(Append(ts, t), buy) = Eth(ts, buy) + IF t.isBuy = buy THEN t.eth ELSE 0
<1> DEFINE n == Len(ts)
           us == Append(ts, t)
           f == [i \in DOMAIN ts |-> IF ts[i].isBuy = buy THEN ts[i].eth ELSE 0]
           g == [i \in DOMAIN us |-> IF us[i].isBuy = buy THEN us[i].eth ELSE 0]
<1>1. /\ n \in Nat /\ us \in Seq(TradeKinds) /\ Len(us) = n + 1 /\ us[n + 1] = t
      /\ \A i \in 1..n : us[i] = ts[i]
      /\ DOMAIN ts = 1..n /\ DOMAIN us = 1..n + 1
  BY AppendProperties
<1>2. \A x \in TradeKinds : x.eth \in Int
  BY BroadcasterAssumption
<1>3. \A i \in 1..n + 1 : us[i] \in TradeKinds
  BY <1>1
<1> HIDE DEF n, us
<1>4. \A i \in 1..n + 1 : g[i] \in Int
  BY <1>1, <1>2, <1>3
<1>5. \A i \in 1..n : g[i] \in Int /\ g[i] = f[i]
  <2>1. \A i \in 1..n : i \in 1..n + 1 /\ g[i] = f[i]
    BY <1>1
  <2> QED BY <1>4, <2>1
<1>6. g[n + 1] = IF t.isBuy = buy THEN t.eth ELSE 0
  BY <1>1
<1>7. Eth(us, buy) = Total(g, n + 1) /\ Eth(ts, buy) = Total(f, n)
  BY <1>1 DEF Eth, n
<1> HIDE DEF f, g
<1>8. Total(g, n + 1) = Total(g, n) + g[n + 1]
  BY <1>1, <1>4, TotalStep
<1>9. Total(g, n) = Total(f, n)
  BY <1>1, <1>5, TotalSame
<1> QED BY <1>6, <1>7, <1>8, <1>9 DEF us

LEMMA EthEmpty == ASSUME NEW buy \in BOOLEAN PROVE Eth(<<>>, buy) = 0
BY TotalZero DEF Eth

\* The least and the greatest element of a set of integers.
LEMMA MaxIs ==
  ASSUME NEW S \in SUBSET Int, NEW x \in S, \A y \in S : y <= x PROVE Max(S) = x
<1>1. \A y \in S : x >= y
  OBVIOUS
<1>2. Max(S) \in S /\ \A y \in S : Max(S) >= y
  BY <1>1 DEF Max
<1>3. Max(S) >= x /\ x >= Max(S) /\ Max(S) \in Int
  BY <1>1, <1>2
<1> QED BY <1>3

LEMMA MinIs ==
  ASSUME NEW S \in SUBSET Int, NEW x \in S, \A y \in S : x <= y PROVE Min(S) = x
<1>2. Min(S) \in S /\ \A y \in S : Min(S) <= y
  BY DEF Min
<1>3. Min(S) <= x /\ x <= Min(S) /\ Min(S) \in Int
  BY <1>2
<1> QED BY <1>3

\* A bar whose fields are right is the summary.
LEMMA SummaryIs ==
  ASSUME NEW b \in Bar, NEW ts \in Seq(TradeKinds), Len(ts) # 0,
         b.open = ts[1].sqrt, b.close = ts[Len(ts)].sqrt, b.trades = Len(ts),
         \A i \in 1..Len(ts) : b.lowSqrt <= ts[i].sqrt /\ ts[i].sqrt <= b.highSqrt,
         \E i \in 1..Len(ts) : b.highSqrt = ts[i].sqrt,
         \E i \in 1..Len(ts) : b.lowSqrt = ts[i].sqrt,
         b.buyEth = Eth(ts, TRUE), b.sellEth = Eth(ts, FALSE)
  PROVE  b = Summary(b.start, ts)
<1> DEFINE sqrts == {ts[i].sqrt : i \in DOMAIN ts}
<1>1. DOMAIN ts = 1..Len(ts) /\ Head(ts) = ts[1] /\ Last(ts) = ts[Len(ts)]
  BY DEF Last
<1>2. sqrts \in SUBSET Int /\ b.highSqrt \in sqrts /\ b.lowSqrt \in sqrts
  <2>1. \A i \in 1..Len(ts) : ts[i].sqrt \in Int
    BY BroadcasterAssumption, SMTT(30)
  <2> QED BY <1>1, <2>1
<1>3. \A y \in sqrts : b.lowSqrt <= y /\ y <= b.highSqrt
  BY <1>1
<1> HIDE DEF sqrts
<1>4. Max(sqrts) = b.highSqrt /\ Min(sqrts) = b.lowSqrt
  BY <1>2, <1>3, MaxIs, MinIs
<1>5. b = [start |-> b.start, open |-> b.open, close |-> b.close, highSqrt |-> b.highSqrt,
           lowSqrt |-> b.lowSqrt, buyEth |-> b.buyEth, sellEth |-> b.sellEth, trades |-> b.trades]
  BY DEF Bar
<1>6. Summary(b.start, ts) =
        [start |-> b.start, open |-> Head(ts).sqrt, close |-> Last(ts).sqrt, highSqrt |-> Max(sqrts),
         lowSqrt |-> Min(sqrts), buyEth |-> Eth(ts, TRUE), sellEth |-> Eth(ts, FALSE), trades |-> Len(ts)]
  BY DEF Summary, sqrts
<1> QED BY <1>1, <1>4, <1>5, <1>6

-----------------------------------------------------------------------------
(* The volumes of the open bar.                                            *)

\* The open bar has the volumes of its trades.
VolumesExact ==
  \A p \in Pools : bars[p] # NoBar =>
    /\ bars[p].buyEth = Eth(Kinds(p, members[p]), TRUE)
    /\ bars[p].sellEth = Eth(Kinds(p, members[p]), FALSE)

\* What a trade appends to the stream of its pool.
LEMMA TradeAppends ==
  ASSUME StreamInv, NEW p \in Pools, NEW m \in 0..MaxMinute, NEW t \in TradeKinds, OnTrade(p, m, t)
  PROVE  \E x \in Trade : /\ x = [minute |-> m, kind |-> t, late |-> m < now]
                          /\ handled'[p] = Append(handled[p], x) /\ handled[p] \in Seq(Trade)
<1> DEFINE x == [minute |-> m, kind |-> t, late |-> m < now]
<1>1. x \in Trade
  <2>1. m \in Nat /\ (m < now) \in BOOLEAN
    BY BroadcasterAssumption
  <2> QED BY <2>1 DEF Trade
<1>2. handled' = [handled EXCEPT ![p] = Append(handled[p], x)] /\ handled \in [Pools -> Seq(Trade)]
  BY DEF OnTrade, StreamInv
<1> HIDE DEF x
<1>3. handled'[p] = Append(handled[p], x) /\ handled[p] \in Seq(Trade)
  BY <1>2
<1>4. x = [minute |-> m, kind |-> t, late |-> m < now]
  BY DEF x
<1> QED BY <1>1, <1>3, <1>4

\* The trades of the bar after a trade: those of the open bar, if it is of the same
\* minute, and the new one.
LEMMA TradeMembers ==
  ASSUME StreamInv, OpenBarQuotes,
         NEW p \in Pools, NEW m \in 0..MaxMinute, NEW t \in TradeKinds, OnTrade(p, m, t)
  PROVE  \E k \in 0..Handled(p) :
           /\ members'[p] = Run(k, Handled(p) + 1)
           /\ Kinds(p, members[p])' = Append(Slice(handled[p], k, Handled(p)), t)
           /\ IF bars[p] = NoBar \/ bars[p].start # m
              THEN k = Handled(p) /\ Slice(handled[p], k, Handled(p)) = <<>>
              ELSE Tells(p, k) /\ Slice(handled[p], k, Handled(p)) = Kinds(p, members[p])
<1>1. PICK n \in Nat : n = Handled(p) /\ Handled(p)' = n + 1
  BY TradeHandled
<1>2. PICK x \in Trade : x.kind = t /\ handled'[p] = Append(handled[p], x) /\ handled[p] \in Seq(Trade)
  BY TradeAppends
<1>3. Len(handled[p]) = n
  BY <1>1 DEF Handled
<1>4. ASSUME NEW k \in Nat, k <= n, members'[p] = Run(k, n + 1)
      PROVE  Kinds(p, members[p])' = Append(Slice(handled[p], k, n), t)
  <2>1. Kinds(p, members[p])' = Slice(handled'[p], k, n + 1)
    BY <1>4 DEF Kinds, Slice
  <2>2. Slice(Append(handled[p], x), k, n + 1) = Append(Slice(handled[p], k, n), t)
    BY <1>2, <1>3, <1>4, SliceAppend
  <2> QED BY <1>2, <2>1, <2>2
<1>5. PICK b : IF bars[p] = NoBar \/ bars[p].start # m
               THEN members' = [members EXCEPT ![p] = <<Handled(p) + 1>>]
               ELSE b = bars[p] /\ members' = [members EXCEPT ![p] = Append(members[p], Handled(p) + 1)]
  BY TradeBar
<1>6. CASE bars[p] = NoBar \/ bars[p].start # m
  <2>0. n <= n
    BY <1>1
  <2>1. members'[p] = Run(n, n + 1)
    <3>1. members'[p] = <<n + 1>>
      BY <1>1, <1>5, <1>6 DEF StreamInv
    <3>2. <<n + 1>> = Append(<<>>, n + 1)
      OBVIOUS
    <3> QED BY <2>0, <3>1, <3>2, RunAppend, RunEmpty
  <2>2. Slice(handled[p], n, n) = <<>>
    <3>1. n <= Len(handled[p])
      BY <1>3
    <3>2. Slice(handled[p], n, n) \in Seq(TradeKinds) /\ Len(Slice(handled[p], n, n)) = n - n
      BY <1>2, <2>0, <3>1, SliceIs
    <3>3. Len(Slice(handled[p], n, n)) = 0
      BY <3>2
    <3> QED BY <3>2, <3>3, EmptySeq
  <2>3. n \in 0..n
    OBVIOUS
  <2> QED BY <1>1, <1>4, <1>6, <2>0, <2>1, <2>2, <2>3
<1>7. CASE ~(bars[p] = NoBar \/ bars[p].start # m)
  <2>1. PICK k \in Nat : k < n /\ Tells(p, k)
    BY <1>1, <1>7 DEF OpenBarQuotes
  <2>2. members[p] = Run(k, n) /\ k <= n /\ k \in 0..n
    BY <1>1, <2>1 DEF Tells
  <2>3. members'[p] = Run(k, n + 1)
    <3>1. members'[p] = Append(members[p], n + 1)
      BY <1>1, <1>5, <1>7 DEF StreamInv
    <3> QED BY <2>2, <3>1, RunAppend
  <2>4. Slice(handled[p], k, n) = Kinds(p, members[p])
    BY <2>2 DEF Slice, Kinds
  <2> QED BY <1>1, <1>4, <1>7, <2>1, <2>2, <2>3, <2>4
<1> QED BY <1>6, <1>7

LEMMA TradeVolume ==
  ASSUME StreamInv, NEW p \in Pools, NEW m \in 0..MaxMinute, NEW t \in TradeKinds, OnTrade(p, m, t)
  PROVE  \E b : /\ b = IF bars[p] = NoBar \/ bars[p].start # m THEN OpenBar(m, t) ELSE bars[p]
                /\ bars'[p].buyEth = b.buyEth + IF t.isBuy = TRUE THEN t.eth ELSE 0
                /\ bars'[p].sellEth = b.sellEth + IF t.isBuy = FALSE THEN t.eth ELSE 0
<1>1. PICK b : b = IF bars[p] = NoBar \/ bars[p].start # m THEN OpenBar(m, t) ELSE bars[p]
  OBVIOUS
<1>2. t.isBuy \in BOOLEAN /\ t.eth \in Nat /\ t.sqrt \in Nat
  BY BroadcasterAssumption
<1>3. b \in [start : 0..MaxMinute, open : Nat, close : Nat, highSqrt : Nat, lowSqrt : Nat,
             buyEth : Nat, sellEth : Nat, trades : Nat]
  <2>1. CASE bars[p] = NoBar \/ bars[p].start # m
    BY <1>1, <1>2, <2>1 DEF OpenBar
  <2>2. CASE ~(bars[p] = NoBar \/ bars[p].start # m)
    BY <1>1, <2>2, BroadcasterAssumption, SMTT(30) DEF StreamInv, Bar
  <2> QED BY <2>1, <2>2
<1>4. bars'[p] = AddTrade(b, t)
  BY <1>1 DEF OnTrade, StreamInv
<1>5. /\ AddTrade(b, t).buyEth = IF t.isBuy THEN b.buyEth + t.eth ELSE b.buyEth
      /\ AddTrade(b, t).sellEth = IF t.isBuy THEN b.sellEth ELSE b.sellEth + t.eth
  BY <1>3 DEF AddTrade
<1> QED BY <1>1, <1>2, <1>3, <1>4, <1>5

LEMMA TradeVolumesHold ==
  ASSUME StreamInv, OpenBarQuotes, VolumesExact,
         NEW p \in Pools, NEW m \in 0..MaxMinute, NEW t \in TradeKinds, OnTrade(p, m, t)
  PROVE  VolumesExact'
<1>1. PICK k \in 0..Handled(p) :
           /\ Kinds(p, members[p])' = Append(Slice(handled[p], k, Handled(p)), t)
           /\ IF bars[p] = NoBar \/ bars[p].start # m THEN Slice(handled[p], k, Handled(p)) = <<>>
              ELSE Slice(handled[p], k, Handled(p)) = Kinds(p, members[p])
  BY TradeMembers, ZenonT(60)
<1> DEFINE ts == Slice(handled[p], k, Handled(p))
<1>2. ts \in Seq(TradeKinds)
  <2>1. Handled(p) \in Nat /\ handled[p] \in Seq(Trade) /\ k \in Nat /\ k <= Handled(p) /\ Handled(p) <= Len(handled[p])
    BY HandledIsNat DEF StreamInv, Handled
  <2> QED BY <2>1, SliceIs
<1>3. PICK b : /\ b = IF bars[p] = NoBar \/ bars[p].start # m THEN OpenBar(m, t) ELSE bars[p]
               /\ bars'[p].buyEth = b.buyEth + IF t.isBuy = TRUE THEN t.eth ELSE 0
               /\ bars'[p].sellEth = b.sellEth + IF t.isBuy = FALSE THEN t.eth ELSE 0
  BY TradeVolume
<1>4. b.buyEth = Eth(ts, TRUE) /\ b.sellEth = Eth(ts, FALSE)
  <2>1. CASE bars[p] = NoBar \/ bars[p].start # m
    <3>1. Eth(<<>>, TRUE) = 0 /\ Eth(<<>>, FALSE) = 0
      BY EthEmpty
    <3> QED BY <1>1, <1>3, <2>1, <3>1 DEF OpenBar
  <2>2. CASE ~(bars[p] = NoBar \/ bars[p].start # m)
    BY <1>1, <1>3, <2>2 DEF VolumesExact
  <2> QED BY <2>1, <2>2
<1>5. Kinds(p, members[p])' = Append(ts, t)
  BY <1>1
<1> HIDE DEF ts
<1>6. /\ Eth(Append(ts, t), TRUE) = Eth(ts, TRUE) + IF t.isBuy = TRUE THEN t.eth ELSE 0
      /\ Eth(Append(ts, t), FALSE) = Eth(ts, FALSE) + IF t.isBuy = FALSE THEN t.eth ELSE 0
  BY <1>2, EthAppend
<1>7. ASSUME NEW q \in Pools, bars'[q] # NoBar
      PROVE  (bars[q].buyEth = Eth(Kinds(q, members[q]), TRUE) /\ bars[q].sellEth = Eth(Kinds(q, members[q]), FALSE))'
  <2>1. CASE q = p
    <3>1. /\ bars'[p].buyEth = Eth(Kinds(p, members[p])', TRUE)
          /\ bars'[p].sellEth = Eth(Kinds(p, members[p])', FALSE)
      BY <1>3, <1>4, <1>5, <1>6
    <3> QED BY <2>1, <3>1 DEF Eth
  <2>2. CASE q # p
    <3>1. bars'[q] = bars[q] /\ members'[q] = members[q] /\ handled'[q] = handled[q]
      <4>1. (\E u : members' = [members EXCEPT ![p] = u]) /\ (\E c : bars' = [bars EXCEPT ![p] = c])
        BY TradeBar
      <4> QED BY <2>2, <4>1, TradeHandled DEF StreamInv
    <3>2. Kinds(q, members[q])' = Kinds(q, members[q])
      BY <3>1 DEF Kinds
    <3> QED BY <1>7, <3>1, <3>2 DEF VolumesExact, Eth
  <2> QED BY <2>1, <2>2
<1> QED BY <1>7 DEF VolumesExact

-----------------------------------------------------------------------------
(* The steps that touch the bars, and the account of the trades as a sum.  *)

\* A step handles a trade, fires a timer or leaves the bars alone; the clock never
\* goes back.
LEMMA BarStep ==
  ASSUME StreamInv, [Next]_vars
  PROVE  /\ \/ \E p \in Pools, m \in 0..MaxMinute, t \in TradeKinds : OnTrade(p, m, t)
            \/ \E p \in Pools : TimerFires(p)
            \/ UNCHANGED barVars
         /\ now' \in Nat /\ now <= now'
<1>0. now \in Nat
  BY BroadcasterAssumption DEF StreamInv
<1>1. CASE \E p \in Pools, m \in 0..MaxMinute, t \in TradeKinds : OnTrade(p, m, t)
  <2>1. now' = now
    BY <1>1 DEF OnTrade
  <2> QED BY <1>0, <1>1, <2>1
<1>2. CASE \E p \in Pools : TimerFires(p)
  <2>1. now' = now
    BY <1>2 DEF TimerFires
  <2> QED BY <1>0, <1>2, <2>1
<1>3. CASE Minute
  BY <1>0, <1>3 DEF Minute
<1>4. CASE UNCHANGED vars
  BY <1>0, <1>4 DEF vars
<1>5. CASE \/ \E c \in Clients : PgError(c) \/ PgEnd(c)
           \/ \E k \in Calls : EndResolves(k) \/ Connect(k) \/ Connected(k) \/ ConnectFails(k)
           \/ \E k \in Calls : ConnectionLost(k)
           \/ OnLifecycle \/ Heartbeat
  BY <1>0, <1>5 DEF PgError, PgEnd, EndResolves, Connect, Connected, ConnectFails, ConnectionLost,
                    OnLifecycle, Heartbeat
<1>6. CASE \/ \E s \in Sockets, pools \in {{}} \union {{p} : p \in Pools} : OnConnection(s, pools)
           \/ \E s \in Sockets, p \in Pools : Subscribe(s, p) \/ Unsubscribe(s, p)
           \/ \E s \in Sockets : OnPong(s) \/ BeginClose(s) \/ OnClose(s) \/ PeerVanishes(s)
  <2>1. UNCHANGED barVars /\ now' = now
    BY <1>6 DEF OnConnection, Subscribe, Unsubscribe, OnPong, BeginClose, OnClose, PeerVanishes
  <2> QED BY <1>0, <2>1
<1> QED BY <1>1, <1>2, <1>3, <1>4, <1>5, <1>6 DEF Next, Running, Step

\* Every step accounts for the trades it handles.
LEMMA StepConserves == ASSUME StreamInv, [Next]_vars PROVE TradesConserved
<1>1. CASE UNCHANGED barVars
  <2>1. closes' = closes /\ \A p \in Pools : Handled(p)' = Handled(p) /\ Open(p)' = Open(p)
    BY <1>1 DEF barVars, Handled, Open
  <2> QED BY <2>1 DEF TradesConserved
<1> QED BY <1>1, BarStep, TradeConserves, TimerConserves

\* EveryTradeInOneBar, a part of BarsExact, step by step.
THEOREM TradesAccounted == Spec => [][TradesConserved]_vars
<1>1. BInv /\ [Next]_vars => TradesConserved
  BY StepConserves DEF BInv
<1> QED BY <1>1, BroadcasterInvariant, PTL DEF Spec

\* The volumes of the open bars, in every step.
LEMMA VolumesHold ==
  ASSUME StreamInv, OpenBarQuotes, VolumesExact, [Next]_vars PROVE VolumesExact'
<1>1. ASSUME NEW q \in Pools, bars'[q] # NoBar,
             bars'[q] = bars[q], members'[q] = members[q], handled'[q] = handled[q]
      PROVE  (bars[q].buyEth = Eth(Kinds(q, members[q]), TRUE) /\ bars[q].sellEth = Eth(Kinds(q, members[q]), FALSE))'
  <2>1. Kinds(q, members[q])' = Kinds(q, members[q])
    BY <1>1 DEF Kinds
  <2> QED BY <1>1, <2>1 DEF VolumesExact, Eth
<1>2. CASE \E p \in Pools : TimerFires(p)
  <2>1. \A q \in Pools : bars'[q] # NoBar =>
          bars'[q] = bars[q] /\ members'[q] = members[q] /\ handled'[q] = handled[q]
    BY <1>2 DEF TimerFires, StreamInv
  <2> QED BY <1>1, <2>1 DEF VolumesExact
<1>3. CASE UNCHANGED barVars
  <2>1. UNCHANGED <<bars, members, handled>>
    BY <1>3 DEF barVars
  <2> QED BY <1>1, <2>1 DEF VolumesExact
<1> QED BY <1>2, <1>3, BarStep, TradeVolumesHold

\* One announced bar more adds its trades to the sum.
LEMMA TotalAppend ==
  ASSUME NEW cs \in Seq(Bar), NEW b \in Bar
  PROVE  Total([j \in DOMAIN Append(cs, b) |-> Append(cs, b)[j].trades], Len(Append(cs, b)))
           = Total([j \in DOMAIN cs |-> cs[j].trades], Len(cs)) + b.trades
<1> DEFINE n == Len(cs)
           ds == Append(cs, b)
           f == [j \in DOMAIN cs |-> cs[j].trades]
           g == [j \in DOMAIN ds |-> ds[j].trades]
<1>1. /\ n \in Nat /\ ds \in Seq(Bar) /\ Len(ds) = n + 1 /\ ds[n + 1] = b
      /\ \A i \in 1..n : ds[i] = cs[i]
      /\ DOMAIN cs = 1..n /\ DOMAIN ds = 1..n + 1
  BY AppendProperties
<1>2. \A x \in Bar : x.trades \in Int
  BY BroadcasterAssumption DEF Bar
<1>3. \A i \in 1..n + 1 : ds[i] \in Bar
  BY <1>1
<1> HIDE DEF n, ds
<1>4. \A i \in 1..n + 1 : g[i] \in Int
  BY <1>1, <1>2, <1>3
<1>5. \A i \in 1..n : g[i] \in Int /\ g[i] = f[i]
  <2>1. \A i \in 1..n : i \in 1..n + 1 /\ g[i] = f[i]
    BY <1>1
  <2> QED BY <1>4, <2>1
<1>6. g[n + 1] = b.trades
  BY <1>1
<1> HIDE DEF f, g
<1>7. Total(g, n + 1) = Total(g, n) + g[n + 1]
  BY <1>1, <1>4, TotalStep
<1>8. Total(g, n) = Total(f, n)
  BY <1>1, <1>5, TotalSame
<1>9. Total(g, n + 1) = Total(f, n) + b.trades
  BY <1>6, <1>7, <1>8
<1> QED BY <1>1, <1>9 DEF f, g, n, ds

\* The account of the trades, in every step.
LEMMA AccountHolds ==
  ASSUME StreamInv, EveryTradeInOneBar, TradesConserved, StreamInv' PROVE EveryTradeInOneBar'
<1> DEFINE Announced(cs) == Total([j \in DOMAIN cs |-> cs[j].trades], Len(cs))
<1>1. \A p \in Pools : Handled(p) = Announced(closes[p]) + Open(p)
  BY DEF EveryTradeInOneBar, Open
<1>2. ASSUME NEW p \in Pools PROVE Open(p) \in Nat /\ Open(p)' \in Nat /\ Handled(p) \in Nat /\ Handled(p)' \in Nat
  <2>1. bars[p] \in Bar \union {NoBar} /\ bars'[p] \in Bar \union {NoBar}
    BY DEF StreamInv
  <2>2. handled[p] \in Seq(Trade) /\ handled'[p] \in Seq(Trade)
    BY DEF StreamInv
  <2>3. \A b \in Bar : b.trades \in Nat
    BY BroadcasterAssumption DEF Bar
  <2>4. Open(p) \in Nat /\ Open(p)' \in Nat
    BY <2>1, <2>3 DEF Open
  <2> QED BY <2>2, <2>4 DEF Handled
<1>3. ASSUME NEW cs \in Seq(Bar) PROVE Announced(cs) \in Int
  <2>1. \A j \in 1..Len(cs) : [i \in DOMAIN cs |-> cs[i].trades][j] \in Int
    <3>1. \A b \in Bar : b.trades \in Int
      BY BroadcasterAssumption DEF Bar
    <3>2. \A j \in 1..Len(cs) : j \in DOMAIN cs /\ cs[j] \in Bar
      OBVIOUS
    <3> QED BY <3>1, <3>2
  <2>2. Len(cs) \in Nat
    OBVIOUS
  <2> QED BY <2>1, <2>2, TotalType
<1>4. ASSUME NEW cs \in Seq(Bar), NEW b \in Bar PROVE Announced(Append(cs, b)) = Announced(cs) + b.trades
  BY TotalAppend
<1> HIDE DEF Announced
<1>5. ASSUME NEW p \in Pools PROVE Handled(p)' = Announced(closes'[p]) + Open(p)'
  <2>0. closes[p] \in Seq(Bar) /\ Announced(closes[p]) \in Int
    BY <1>3 DEF StreamInv
  <2>1. CASE closes'[p] = closes[p] /\ Handled(p)' + Open(p) = Handled(p) + Open(p)'
    BY <1>1, <1>2, <2>0, <2>1, SMTT(30)
  <2>2. CASE bars[p] # NoBar /\ closes'[p] = Append(closes[p], bars[p]) /\ Handled(p)' = Handled(p) + Open(p)'
    <3>1. bars[p] \in Bar /\ Open(p) = bars[p].trades
      BY <2>2 DEF StreamInv, Open
    <3>2. Announced(closes'[p]) = Announced(closes[p]) + Open(p)
      BY <1>4, <2>0, <2>2, <3>1
    <3> QED BY <1>1, <1>2, <2>0, <2>2, <3>2
  <2> QED BY <2>1, <2>2 DEF TradesConserved
<1> QED BY <1>5 DEF EveryTradeInOneBar, Open, Announced, Total

-----------------------------------------------------------------------------
(* Open bars are summaries.                                                *)

\* Which trades the open bar of a pool summarises.
LEMMA OpenIsSummary ==
  ASSUME StreamInv, OpenBarQuotes, VolumesExact, NEW p \in Pools, bars[p] # NoBar
  PROVE  \E k \in Nat :
           /\ k < Handled(p) /\ members[p] = Run(k, Handled(p)) /\ bars[p].trades = Handled(p) - k
           /\ bars[p] = Summary(bars[p].start, Slice(handled[p], k, Handled(p)))
           /\ Slice(handled[p], k, Handled(p)) = Kinds(p, members[p])
           /\ \A i \in k + 1..Handled(p) : handled[p][i].minute = bars[p].start
<1>1. PICK n \in Nat : n = Handled(p) /\ handled[p] \in Seq(Trade) /\ Len(handled[p]) = n
  BY HandledIsNat DEF StreamInv, Handled
<1>2. PICK k \in Nat : k < n /\ Tells(p, k)
  BY <1>1 DEF OpenBarQuotes
<1>3. k <= n /\ n <= Len(handled[p]) /\ n - k \in Nat /\ n - k # 0
  BY <1>1, <1>2
<1> DEFINE ts == Slice(handled[p], k, n)
<1>4. /\ ts \in Seq(TradeKinds) /\ Len(ts) = n - k
      /\ \A i \in 1..n - k : ts[i] = handled[p][k + i].kind
  BY <1>1, <1>3, SliceIs
<1>5. ts = Kinds(p, members[p]) /\ members[p] = Run(k, n)
  BY <1>1, <1>2 DEF Slice, Kinds, Tells
<1> HIDE DEF ts
<1>6. /\ bars[p].trades = n - k
      /\ bars[p].open = handled[p][k + 1].kind.sqrt /\ bars[p].close = handled[p][n].kind.sqrt
      /\ \A i \in k + 1..n : /\ handled[p][i].minute = bars[p].start
                             /\ bars[p].lowSqrt <= handled[p][i].kind.sqrt
                             /\ handled[p][i].kind.sqrt <= bars[p].highSqrt
      /\ \E i \in k + 1..n : bars[p].highSqrt = handled[p][i].kind.sqrt
      /\ \E i \in k + 1..n : bars[p].lowSqrt = handled[p][i].kind.sqrt
  BY <1>1, <1>2 DEF Tells, Sqrt
<1>7. /\ \A i \in 1..n - k : k + i \in k + 1..n
      /\ \A i \in k + 1..n : i - k \in 1..n - k /\ k + (i - k) = i
      /\ 1 \in 1..n - k /\ n - k \in 1..n - k /\ k + (n - k) = n
  BY <1>3
<1>8. bars[p].open = ts[1].sqrt /\ bars[p].close = ts[Len(ts)].sqrt
  BY <1>4, <1>6, <1>7
<1>9. \A i \in 1..Len(ts) : bars[p].lowSqrt <= ts[i].sqrt /\ ts[i].sqrt <= bars[p].highSqrt
  <2> SUFFICES ASSUME NEW i \in 1..n - k
               PROVE  bars[p].lowSqrt <= ts[i].sqrt /\ ts[i].sqrt <= bars[p].highSqrt
    BY <1>4
  <2>1. PICK j \in k + 1..n : j = k + i
    BY <1>7
  <2>2. ts[i] = handled[p][j].kind
    BY <1>4, <2>1
  <2> QED BY <1>6, <2>2
<1>10. (\E i \in 1..Len(ts) : bars[p].highSqrt = ts[i].sqrt) /\ (\E i \in 1..Len(ts) : bars[p].lowSqrt = ts[i].sqrt)
  <2>1. ASSUME NEW i \in k + 1..n PROVE \E j \in 1..Len(ts) : ts[j] = handled[p][i].kind
    <3>1. PICK j \in 1..n - k : j = i - k /\ k + j = i
      BY <1>7
    <3>2. ts[j] = handled[p][i].kind
      BY <1>4, <3>1
    <3> QED BY <1>4, <3>1, <3>2
  <2>2. PICK i \in k + 1..n : bars[p].highSqrt = handled[p][i].kind.sqrt
    BY <1>6
  <2>3. PICK j \in 1..Len(ts) : ts[j] = handled[p][i].kind
    BY <2>1
  <2>4. PICK l \in k + 1..n : bars[p].lowSqrt = handled[p][l].kind.sqrt
    BY <1>6
  <2>5. PICK e \in 1..Len(ts) : ts[e] = handled[p][l].kind
    BY <2>1
  <2> QED BY <2>2, <2>3, <2>4, <2>5
<1>11. bars[p].buyEth = Eth(ts, TRUE) /\ bars[p].sellEth = Eth(ts, FALSE)
  BY <1>5 DEF VolumesExact
<1>12. bars[p] \in Bar
  BY DEF StreamInv
<1>13. bars[p] = Summary(bars[p].start, ts)
  BY <1>3, <1>4, <1>6, <1>8, <1>9, <1>10, <1>11, <1>12, SummaryIs
<1> QED BY <1>1, <1>2, <1>5, <1>6, <1>13 DEF ts

LEMMA OpenPromise == StreamInv /\ OpenBarQuotes /\ VolumesExact => BarSummarisesItsTrades
<1> SUFFICES ASSUME StreamInv, OpenBarQuotes, VolumesExact, NEW p \in Pools, bars[p] # NoBar
             PROVE  /\ bars[p] = Summary(bars[p].start, Kinds(p, members[p]))
                    /\ \A i \in ToSet(members[p]) : handled[p][i].minute = bars[p].start
  BY DEF BarSummarisesItsTrades
<1>1. PICK k \in Nat :
           /\ k < Handled(p) /\ members[p] = Run(k, Handled(p))
           /\ bars[p] = Summary(bars[p].start, Slice(handled[p], k, Handled(p)))
           /\ Slice(handled[p], k, Handled(p)) = Kinds(p, members[p])
           /\ \A i \in k + 1..Handled(p) : handled[p][i].minute = bars[p].start
  BY OpenIsSummary
<1>2. PICK n \in Nat : n = Handled(p)
  BY HandledIsNat
<1>3. ToSet(members[p]) \subseteq k + 1..n
  <2>1. ToSet(members[p]) = {Run(k, n)[i] : i \in 1..n - k}
    BY <1>1, <1>2 DEF ToSet, Run
  <2>2. \A i \in 1..n - k : Run(k, n)[i] \in k + 1..n
    BY <1>1, <1>2 DEF Run
  <2> QED BY <2>1, <2>2
<1> QED BY <1>1, <1>2, <1>3

-----------------------------------------------------------------------------
(* The bars of a pool whose trades all came in their own minute.  The      *)
(* lemmas are about any stream h of trades, any announced bars cs and any  *)
(* open bar b, at any time t.                                              *)

\* The trades of a minute.
OfMinute(h, m) == {i \in 1..Len(h) : h[i].minute = m}

\* A bar is the summary of all trades of its minute, handled one after the other.
Whole(h, b) ==
  \E k \in 0..Len(h) : \E n \in k..Len(h) :
    OfMinute(h, b.start) = k + 1..n /\ b = Summary(b.start, Slice(h, k, n))

\* Announced bars are whole, of different past minutes, none of them the open bar's;
\* the open bar has all trades of its minute; no trade of the current minute is
\* outside the open bar.
Settled(h, cs, b, t) ==
  /\ \A j \in 1..Len(cs) : cs[j].start < t /\ Whole(h, cs[j])
  /\ \A j, l \in 1..Len(cs) : cs[j].start = cs[l].start => j = l
  /\ b # NoBar => /\ b.start <= t
                  /\ \A j \in 1..Len(cs) : cs[j].start # b.start
                  /\ \A i \in 1..Len(h) - b.trades : h[i].minute # b.start
  /\ \A i \in 1..Len(h) : h[i].minute < t \/ (b # NoBar /\ h[i].minute = b.start)

\* The open bar is announced.
LEMMA SettleClose ==
  ASSUME NEW h \in Seq(Trade), NEW cs \in Seq(Bar), NEW b \in Bar, NEW t \in Nat,
         Settled(h, cs, b, t), b.start < t, Whole(h, b)
  PROVE  Settled(h, Append(cs, b), NoBar, t)
<1> DEFINE ds == Append(cs, b)
           n == Len(cs)
<1>1. /\ n \in Nat /\ ds \in Seq(Bar) /\ Len(ds) = n + 1 /\ ds[n + 1] = b /\ \A j \in 1..n : ds[j] = cs[j]
  BY AppendProperties
<1>2. b # NoBar
  <2>1. b \in [start : Nat, open : Nat, close : Nat, highSqrt : Nat, lowSqrt : Nat,
               buyEth : Nat, sellEth : Nat, trades : Nat]
    BY BroadcasterAssumption DEF Bar
  <2> QED BY <2>1, BroadcasterAssumption
<1>3. /\ \A j \in 1..n : cs[j].start < t /\ Whole(h, cs[j])
      /\ \A j, l \in 1..n : cs[j].start = cs[l].start => j = l
      /\ \A j \in 1..n : cs[j].start # b.start
      /\ \A i \in 1..Len(h) : h[i].minute < t \/ h[i].minute = b.start
  BY <1>2 DEF Settled
<1>4. \A j \in 1..n + 1 : j \in 1..n \/ j = n + 1
  BY <1>1
<1> HIDE DEF n, ds
<1>5. \A j \in 1..n + 1 : ds[j].start < t /\ Whole(h, ds[j])
  BY <1>1, <1>3, <1>4
<1>6. \A j, l \in 1..n + 1 : ds[j].start = ds[l].start => j = l
  BY <1>1, <1>3, <1>4
<1>7. \A i \in 1..Len(h) : h[i].minute < t
  BY <1>3
<1>8. Settled(h, ds, NoBar, t)
  BY <1>1, <1>5, <1>6, <1>7 DEF Settled
<1> QED BY <1>8 DEF ds

\* A trade of another minute leaves a whole bar whole.
LEMMA WholeStable ==
  ASSUME NEW h \in Seq(Trade), NEW x \in Trade, NEW b, Whole(h, b), x.minute # b.start
  PROVE  Whole(Append(h, x), b)
<1> DEFINE g == Append(h, x)
<1>1. /\ Len(h) \in Nat /\ Len(g) = Len(h) + 1 /\ g[Len(h) + 1] = x /\ \A i \in 1..Len(h) : g[i] = h[i]
  BY AppendProperties
<1>2. PICK k \in 0..Len(h) : \E n \in k..Len(h) :
        OfMinute(h, b.start) = k + 1..n /\ b = Summary(b.start, Slice(h, k, n))
  BY DEF Whole
<1>3. PICK n \in k..Len(h) : OfMinute(h, b.start) = k + 1..n /\ b = Summary(b.start, Slice(h, k, n))
  BY <1>2
<1>4. k \in Nat /\ n \in Nat /\ k <= n /\ n <= Len(h)
  BY <1>1, <1>3
<1>5. Slice(g, k, n) = Slice(h, k, n)
  BY <1>4, SliceStable
<1> HIDE DEF g
<1>6. OfMinute(g, b.start) = OfMinute(h, b.start)
  <2>1. \A i \in 1..Len(g) : i \in 1..Len(h) \/ i = Len(h) + 1
    BY <1>1
  <2>2. \A i \in 1..Len(h) : i \in 1..Len(g)
    BY <1>1
  <2> QED BY <1>1, <2>1, <2>2 DEF OfMinute
<1>7. k \in 0..Len(g) /\ n \in k..Len(g)
  BY <1>1, <1>4
<1>8. OfMinute(g, b.start) = k + 1..n /\ b = Summary(b.start, Slice(g, k, n))
  BY <1>3, <1>5, <1>6
<1>9. Whole(g, b)
  BY <1>7, <1>8 DEF Whole
<1> QED BY <1>9 DEF g

\* A trade of the current minute opens a bar or is added to the open one.
LEMMA SettleTrade ==
  ASSUME NEW h \in Seq(Trade), NEW x \in Trade, NEW cs \in Seq(Bar), NEW b, NEW c \in Bar, NEW t \in Nat,
         Settled(h, cs, b, t), x.minute = t, c.start = t, c # NoBar,
         \/ b = NoBar /\ c.trades = 1
         \/ b # NoBar /\ b.start = t /\ b.trades \in Nat /\ c.trades = b.trades + 1
  PROVE  Settled(Append(h, x), cs, c, t)
<1> DEFINE g == Append(h, x)
           n == Len(h)
<1>1. /\ n \in Nat /\ Len(g) = n + 1 /\ g[n + 1] = x /\ \A i \in 1..n : g[i] = h[i]
  BY AppendProperties
<1>2. ASSUME NEW j \in 1..Len(cs) PROVE cs[j].start < t /\ Whole(g, cs[j]) /\ cs[j].start # c.start
  <2>1. cs[j].start < t /\ Whole(h, cs[j])
    BY DEF Settled
  <2>2. cs[j].start \in Nat
    <3>1. cs[j] \in Bar
      OBVIOUS
    <3>2. cs[j].start \in 0..MaxMinute
      BY <3>1 DEF Bar
    <3> QED BY <3>2, BroadcasterAssumption
  <2>3. cs[j].start # t
    BY <2>1, <2>2
  <2> QED BY <2>1, <2>3, WholeStable
<1>3. \A j, l \in 1..Len(cs) : cs[j].start = cs[l].start => j = l
  BY DEF Settled
<1>4. ASSUME NEW i \in 1..n PROVE h[i].minute \in Nat /\ (h[i].minute < t \/ (b # NoBar /\ h[i].minute = b.start))
  <2>1. h[i] \in Trade
    BY DEF n
  <2> QED BY <2>1 DEF Settled, Trade, n
<1>5. b # NoBar => \A i \in 1..n - b.trades : h[i].minute # b.start
  BY DEF Settled, n
<1> HIDE DEF n, g
<1>6. ASSUME NEW i \in 1..Len(g) PROVE g[i].minute < t \/ g[i].minute = c.start
  <2>1. CASE i = n + 1
    BY <1>1, <2>1
  <2>2. CASE i \in 1..n
    BY <1>1, <1>4, <2>2
  <2> QED BY <1>1, <2>1, <2>2
<1>7. ASSUME NEW i \in 1..Len(g) - c.trades PROVE g[i].minute # c.start
  <2>1. CASE b = NoBar
    <3>1. i \in 1..n
      BY <1>1, <2>1
    <3> QED BY <1>1, <1>4, <2>1, <3>1
  <2>2. CASE b # NoBar
    <3>1. i \in 1..n - b.trades /\ i \in 1..n
      BY <1>1, <2>2
    <3> QED BY <1>1, <1>5, <2>2, <3>1
  <2> QED BY <2>1, <2>2
<1>8. Settled(g, cs, c, t)
  BY <1>2, <1>3, <1>6, <1>7 DEF Settled
<1> QED BY <1>8 DEF g

\* The clock moves on.
LEMMA SettleMinute ==
  ASSUME NEW h \in Seq(Trade), NEW cs \in Seq(Bar), NEW b \in Bar \union {NoBar}, NEW t \in Nat, NEW u \in Nat,
         t <= u, Settled(h, cs, b, t)
  PROVE  Settled(h, cs, b, u)
<1>1. \A j \in 1..Len(cs) : cs[j].start \in Nat
  <2>1. \A c \in Bar : c.start \in Nat
    BY BroadcasterAssumption DEF Bar
  <2>2. \A j \in 1..Len(cs) : cs[j] \in Bar
    OBVIOUS
  <2> QED BY <2>1, <2>2
<1>2. \A i \in 1..Len(h) : h[i].minute \in Nat
  <2>1. \A i \in 1..Len(h) : h[i] \in Trade
    OBVIOUS
  <2> QED BY <2>1 DEF Trade
<1>3. b # NoBar => b.start \in Nat
  BY BroadcasterAssumption DEF Bar
<1>4. \A j \in 1..Len(cs) : cs[j].start < u /\ Whole(h, cs[j])
  BY <1>1 DEF Settled
<1>5. b # NoBar => b.start <= u
  BY <1>3 DEF Settled
<1>6. \A i \in 1..Len(h) : h[i].minute < u \/ (b # NoBar /\ h[i].minute = b.start)
  BY <1>2 DEF Settled
<1> QED BY <1>4, <1>5, <1>6 DEF Settled

-----------------------------------------------------------------------------
(* The bars of a pool, in every step.                                      *)

Prompt(h) == \A i \in 1..Len(h) : ~h[i].late

\* As long as no trade of a pool came late, its bars are settled.
PromptInv == \A p \in Pools : Prompt(handled[p]) => Settled(handled[p], closes[p], bars[p], now)

\* The open bar of such a pool is whole.
LEMMA OpenIsWhole ==
  ASSUME StreamInv, OpenBarQuotes, VolumesExact, NEW p \in Pools, bars[p] # NoBar,
         Settled(handled[p], closes[p], bars[p], now)
  PROVE  Whole(handled[p], bars[p])
<1> DEFINE h == handled[p]
           b == bars[p]
<1>1. PICK n \in Nat : n = Handled(p) /\ n = Len(h)
  BY HandledIsNat DEF Handled
<1>2. PICK k \in Nat :
           /\ k < n /\ b.trades = n - k /\ b = Summary(b.start, Slice(h, k, n))
           /\ \A i \in k + 1..n : h[i].minute = b.start
  BY <1>1, OpenIsSummary
<1>3. \A i \in 1..n - b.trades : h[i].minute # b.start
  BY <1>1 DEF Settled
<1> HIDE DEF h, b
<1>4. n - b.trades = k
  BY <1>2
<1>5. OfMinute(h, b.start) = k + 1..n
  <2>1. \A i \in 1..n : i \in 1..k \/ i \in k + 1..n
    BY <1>2
  <2>2. \A i \in k + 1..n : i \in 1..n
    BY <1>2
  <2> QED BY <1>1, <1>2, <1>3, <1>4, <2>1, <2>2 DEF OfMinute
<1>6. k \in 0..Len(h) /\ n \in k..Len(h)
  BY <1>1, <1>2
<1>7. Whole(h, b)
  BY <1>1, <1>2, <1>5, <1>6 DEF Whole
<1> QED BY <1>7 DEF h, b

\* A step that leaves the stream, the announced bars and the open bar of a pool alone.
LEMMA PromptStable ==
  ASSUME StreamInv, PromptInv, NEW q \in Pools, now' \in Nat, now <= now',
         handled'[q] = handled[q], closes'[q] = closes[q], bars'[q] = bars[q], Prompt(handled'[q])
  PROVE  Settled(handled'[q], closes'[q], bars'[q], now')
<1>1. Settled(handled[q], closes[q], bars[q], now)
  BY DEF PromptInv
<1>2. handled[q] \in Seq(Trade) /\ closes[q] \in Seq(Bar) /\ bars[q] \in Bar \union {NoBar} /\ now \in Nat
  BY BroadcasterAssumption DEF StreamInv
<1>3. Settled(handled[q], closes[q], bars[q], now')
  BY <1>1, <1>2, SettleMinute
<1> QED BY <1>3

LEMMA PromptTradeHolds ==
  ASSUME StreamInv, OpenBarQuotes, VolumesExact, PromptInv,
         NEW p \in Pools, NEW m \in 0..MaxMinute, NEW t \in TradeKinds, OnTrade(p, m, t)
  PROVE  PromptInv'
<1>1. PICK x \in Trade : /\ x = [minute |-> m, kind |-> t, late |-> m < now]
                         /\ handled'[p] = Append(handled[p], x) /\ handled[p] \in Seq(Trade)
  BY TradeAppends
<1>2. /\ x.minute = m /\ (x.late <=> m < now) /\ m \in Nat /\ now \in Nat /\ m <= now /\ now' = now
  <2>1. m \in 0..now /\ now' = now /\ now \in 0..MaxMinute
    BY DEF OnTrade, StreamInv
  <2>2. x.minute = m /\ (x.late <=> m < now)
    BY <1>1
  <2> QED BY <2>1, <2>2, BroadcasterAssumption
<1>3. PICK b \in [start : 0..MaxMinute, open : Nat, close : Nat, highSqrt : Nat, lowSqrt : Nat,
                  buyEth : Nat, sellEth : Nat, trades : Nat] :
           /\ b.trades < MaxTrades /\ b.start = m /\ bars' = [bars EXCEPT ![p] = AddTrade(b, t)]
           /\ IF bars[p] = NoBar \/ bars[p].start # m THEN b.trades = 0 ELSE b = bars[p]
  BY TradeBar
<1>4. /\ bars'[p] \in Bar /\ bars'[p] # NoBar /\ bars'[p].start = m /\ bars'[p].trades = b.trades + 1
      /\ \A q \in Pools \ {p} : bars'[q] = bars[q]
  BY <1>3, AddTradeIs DEF StreamInv
<1>5. closes' = IF (bars[p] = NoBar \/ bars[p].start # m) /\ bars[p] # NoBar
                THEN [closes EXCEPT ![p] = Append(closes[p], bars[p])] ELSE closes
  BY DEF OnTrade
<1>6. /\ closes[p] \in Seq(Bar) /\ bars[p] \in Bar \union {NoBar}
      /\ \A q \in Pools \ {p} : closes'[q] = closes[q] /\ handled'[q] = handled[q]
  BY <1>5, TradeHandled DEF StreamInv
<1>7. ASSUME Prompt(handled'[p]) PROVE Settled(handled'[p], closes'[p], bars'[p], now)
  <2>1. /\ Len(handled[p]) \in Nat /\ Len(handled'[p]) = Len(handled[p]) + 1
        /\ handled'[p][Len(handled[p]) + 1] = x /\ \A i \in 1..Len(handled[p]) : handled'[p][i] = handled[p][i]
    BY <1>1, AppendProperties
  <2>2. ~x.late /\ Prompt(handled[p])
    <3>1. \A i \in 1..Len(handled[p]) + 1 : ~handled'[p][i].late
      BY <1>7, <2>1 DEF Prompt
    <3>2. Len(handled[p]) + 1 \in 1..Len(handled[p]) + 1 /\ \A i \in 1..Len(handled[p]) : i \in 1..Len(handled[p]) + 1
      BY <2>1, SMTT(30)
    <3>3. ~handled'[p][Len(handled[p]) + 1].late
      BY <3>1, <3>2
    <3>4. \A i \in 1..Len(handled[p]) : ~handled[p][i].late
      BY <2>1, <3>1, <3>2
    <3> QED BY <2>1, <3>3, <3>4 DEF Prompt
  <2>3. m = now
    BY <1>2, <2>2
  <2>4. Settled(handled[p], closes[p], bars[p], now)
    BY <2>2 DEF PromptInv
  <2>5. CASE bars[p] = NoBar
    <3>1. closes' = closes /\ bars'[p].trades = 1
      BY <1>3, <1>4, <1>5, <2>5
    <3>2. Settled(Append(handled[p], x), closes[p], bars'[p], now)
      BY <1>1, <1>2, <1>4, <1>6, <2>3, <2>4, <2>5, <3>1, SettleTrade
    <3> QED BY <1>1, <3>1, <3>2
  <2>6. CASE bars[p] # NoBar /\ bars[p].start = m
    <3>1. closes' = closes /\ bars'[p].trades = bars[p].trades + 1 /\ bars[p].trades \in Nat
      BY <1>3, <1>4, <1>5, <2>6
    <3>2. Settled(Append(handled[p], x), closes[p], bars'[p], now)
      BY <1>1, <1>2, <1>4, <1>6, <2>3, <2>4, <2>6, <3>1, SettleTrade
    <3> QED BY <1>1, <3>1, <3>2
  <2>7. CASE bars[p] # NoBar /\ bars[p].start # m
    <3>1. closes'[p] = Append(closes[p], bars[p]) /\ bars'[p].trades = 1
      BY <1>3, <1>4, <1>5, <2>7 DEF StreamInv
    <3>2. bars[p] \in Bar /\ bars[p].start \in Nat /\ bars[p].start <= now
      BY <1>6, <2>4, <2>7, BroadcasterAssumption DEF Settled, Bar
    <3>3. bars[p].start < now
      BY <1>2, <2>3, <2>7, <3>2
    <3>4. Whole(handled[p], bars[p])
      BY <2>4, <2>7, OpenIsWhole
    <3>5. Settled(handled[p], Append(closes[p], bars[p]), NoBar, now)
      BY <1>1, <1>2, <1>6, <2>4, <3>2, <3>3, <3>4, SettleClose
    <3>6. Append(closes[p], bars[p]) \in Seq(Bar)
      BY <1>6, <3>2
    <3>7. Settled(Append(handled[p], x), Append(closes[p], bars[p]), bars'[p], now)
      BY <1>1, <1>2, <1>4, <2>3, <3>1, <3>5, <3>6, SettleTrade
    <3> QED BY <1>1, <3>1, <3>7
  <2> QED BY <2>5, <2>6, <2>7
<1>8. ASSUME NEW q \in Pools, Prompt(handled'[q]) PROVE Settled(handled'[q], closes'[q], bars'[q], now')
  <2>1. CASE q = p
    BY <1>2, <1>7, <1>8, <2>1
  <2>2. CASE q # p
    BY <1>2, <1>4, <1>6, <1>8, <2>2, PromptStable, SMTT(30)
  <2> QED BY <2>1, <2>2
<1> QED BY <1>8 DEF PromptInv, Prompt, Settled, Whole, OfMinute, Summary, Slice, Eth, Run, Total

LEMMA PromptTimerHolds ==
  ASSUME StreamInv, OpenBarQuotes, VolumesExact, PromptInv, NEW p \in Pools, TimerFires(p)
  PROVE  PromptInv'
<1>1. /\ bars[p] # NoBar /\ closes'[p] = Append(closes[p], bars[p]) /\ bars'[p] = NoBar
      /\ now > bars[p].start /\ now' = now /\ handled' = handled
      /\ \A q \in Pools \ {p} : closes'[q] = closes[q] /\ bars'[q] = bars[q]
  BY DEF StreamInv, TimerFires
<1>2. handled[p] \in Seq(Trade) /\ closes[p] \in Seq(Bar) /\ bars[p] \in Bar /\ now \in Nat
  BY <1>1, BroadcasterAssumption DEF StreamInv
<1>3. bars[p].start \in Nat
  BY <1>2, BroadcasterAssumption DEF Bar
<1>4. ASSUME NEW q \in Pools, Prompt(handled'[q]) PROVE Settled(handled'[q], closes'[q], bars'[q], now')
  <2>1. CASE q = p
    <3>1. Settled(handled[p], closes[p], bars[p], now)
      BY <1>1, <1>4, <2>1 DEF PromptInv
    <3>2. Whole(handled[p], bars[p])
      BY <1>1, <3>1, OpenIsWhole
    <3>3. bars[p].start < now
      BY <1>1, <1>2, <1>3
    <3>4. Settled(handled[p], Append(closes[p], bars[p]), NoBar, now)
      BY <1>2, <3>1, <3>2, <3>3, SettleClose
    <3> QED BY <1>1, <2>1, <3>4
  <2>2. CASE q # p
    <3>1. now' \in Nat /\ now <= now'
      BY <1>1, <1>2
    <3> QED BY <1>1, <1>4, <2>2, <3>1, PromptStable
  <2> QED BY <2>1, <2>2
<1> QED BY <1>4 DEF PromptInv, Prompt, Settled, Whole, OfMinute, Summary, Slice, Eth, Run, Total

LEMMA PromptHolds ==
  ASSUME StreamInv, OpenBarQuotes, VolumesExact, PromptInv, [Next]_vars PROVE PromptInv'
<1>1. CASE UNCHANGED barVars
  <2>1. now' \in Nat /\ now <= now' /\ UNCHANGED <<handled, closes, bars>>
    BY <1>1, BarStep DEF barVars
  <2>2. ASSUME NEW q \in Pools, Prompt(handled'[q]) PROVE Settled(handled'[q], closes'[q], bars'[q], now')
    BY <2>1, <2>2, PromptStable
  <2> QED BY <2>2 DEF PromptInv, Prompt, Settled, Whole, OfMinute, Summary, Slice, Eth, Run, Total
<1> QED BY <1>1, BarStep, PromptTradeHolds, PromptTimerHolds, SMTT(30)

\* Settled bars are announced once and whole.
LEMMA PromptPromise == StreamInv /\ PromptInv => PromptMinutesCloseOnce
<1> SUFFICES ASSUME StreamInv, PromptInv, NEW p \in Pools, \A i \in 1..Handled(p) : ~handled[p][i].late,
                    NEW j \in DOMAIN closes[p]
             PROVE  /\ \E k \in 0..Handled(p) : \E n \in k..Handled(p) :
                         /\ {i \in 1..Handled(p) : handled[p][i].minute = closes[p][j].start} = k + 1..n
                         /\ closes[p][j] = Summary(closes[p][j].start, Kinds(p, [i \in 1..n - k |-> k + i]))
                    /\ \A l \in DOMAIN closes[p] : closes[p][l].start = closes[p][j].start => l = j
  BY DEF PromptMinutesCloseOnce
<1>1. DOMAIN closes[p] = 1..Len(closes[p])
  BY DEF StreamInv
<1>2. Settled(handled[p], closes[p], bars[p], now)
  BY DEF PromptInv, Prompt, Handled
<1>3. Whole(handled[p], closes[p][j]) /\ \A l \in DOMAIN closes[p] : closes[p][l].start = closes[p][j].start => l = j
  BY <1>1, <1>2 DEF Settled
<1>4. \A k, n : Slice(handled[p], k, n) = Kinds(p, [i \in 1..n - k |-> k + i])
  BY DEF Slice, Kinds, Run
<1> QED BY <1>3, <1>4 DEF Whole, OfMinute, Handled

\* The bars of every pool, open and announced.
BarsInv == VolumesExact /\ EveryTradeInOneBar /\ PromptInv

LEMMA BarsInitHold == Init => BarsInv
<1> SUFFICES ASSUME Init PROVE BarsInv
  OBVIOUS
<1>1. \A p \in Pools : bars[p] = NoBar /\ handled[p] = <<>> /\ closes[p] = <<>>
  BY DEF Init
<1>2. VolumesExact
  BY <1>1 DEF VolumesExact
<1>3. EveryTradeInOneBar
  <2>1. \A f : Total(f, 0) = 0
    BY TotalZero
  <2> QED BY <1>1, <2>1 DEF EveryTradeInOneBar, Handled
<1>4. PromptInv
  BY <1>1 DEF PromptInv, Settled
<1> QED BY <1>2, <1>3, <1>4 DEF BarsInv

\* onTrade, its rollover and its timer (lines 236-281), for any number of trades, late
\* ones included: the open bar is the summary of its trades, the sum of the announced
\* bars and the open one is all trades, and without late trades every minute is
\* announced once and whole.
THEOREM BarsAlwaysExact == Spec => []BarsExact
<1>1. BInv /\ BInv' /\ BarsInv /\ [Next]_vars => BarsInv'
  <2> SUFFICES ASSUME BInv, BInv', BarsInv, [Next]_vars PROVE BarsInv'
    OBVIOUS
  <2>1. StreamInv /\ OpenBarQuotes /\ StreamInv' /\ VolumesExact /\ EveryTradeInOneBar /\ PromptInv
    BY DEF BInv, BarsInv
  <2>2. TradesConserved
    BY <2>1, StepConserves
  <2> QED BY <2>1, <2>2, VolumesHold, AccountHolds, PromptHolds DEF BarsInv
<1>2. BInv /\ BarsInv => BarsExact
  BY OpenPromise, PromptPromise DEF BInv, BarsInv, BarsExact
<1> QED BY <1>1, <1>2, BarsInitHold, BroadcasterInvariant, PTL DEF Spec
=============================================================================
