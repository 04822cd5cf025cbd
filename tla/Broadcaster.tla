---------------------------- MODULE Broadcaster ----------------------------
(***************************************************************************)
(* The websocket broadcaster (modules/trading/broadcaster.ts).  It LISTENs *)
(* on one PostgreSQL connection, keeps the open one-minute bar and the     *)
(* recent ticks of every pool in memory and sends them to subscribed       *)
(* sockets.  Every handler runs to its end without an await and is one     *)
(* action; only reconnectPg and connectPg have awaits, and they interleave *)
(* with everything else.  The clock is counted in minutes.  Init is the    *)
(* state after start(): its connectPg is the loop modelled here, and no    *)
(* socket is accepted before it returns.                                   *)
(***************************************************************************)
EXTENDS Integers, Sequences, FiniteSets, SequencesExt, FiniteSetsExt, Totals

CONSTANTS
  Pools,       \* pool ids
  Sockets,     \* websocket connections
  Clients,     \* pg Client objects; an id is free again once its 'end' was emitted
  Calls,       \* running calls of reconnectPg
  TradeKinds,  \* what a trade carries besides its minute: [sqrt, eth, isBuy]
  RingMax,     \* ticks kept per pool (30 in the code)
  MaxMinute,   \* bound: trades happen in minutes 0 .. MaxMinute - 1
  MaxTrades,   \* bound: notifications handled per pool
  NoBar, NoClient

ASSUME BroadcasterAssumption ==
  /\ Clients # {} /\ Calls # {}
  /\ RingMax \in Nat \ {0} /\ MaxMinute \in Nat /\ MaxTrades \in Nat
  /\ TradeKinds \subseteq [sqrt : Nat, eth : Nat, isBuy : BOOLEAN]
  /\ NoClient \notin Clients
  /\ NoBar \notin [start : Nat, open : Nat, close : Nat, highSqrt : Nat, lowSqrt : Nat,
                   buyEth : Nat, sellEth : Nat, trades : Nat]

VARIABLES
  up,            \* the process runs
  pgState,       \* per Client: free, opening, listening (handlers registered), closing
  pg,            \* this.pg
  reconnecting,  \* this.reconnecting
  call,          \* per running reconnectPg: its await and the client it is about
  now,           \* the clock, in minutes
  bars, armed,   \* this.bars, and which of them have a timer
  recentTicks,   \* this.recentTicks; a tick is named by its position in handled
  sock,          \* per socket: absent, open, closing (readyState)
  clients,       \* the keys of this.clients
  subs,          \* their subscriptions
  isAlive,       \* the heartbeat's flag (undefined counts as TRUE)
  peer,          \* whether the other end of a socket still answers
  handled,       \* history: trades handled, in order, and whether they came late
  members,       \* history: positions of the trades of the open bar
  closes,        \* history: the bars announced by bar_close
  got, since, missed  \* history: per socket, ticks received since its subscription,
                      \* ticks handled before it, whether backpressure skipped one

pgVars == <<pgState, pg, reconnecting, call>>
barVars == <<bars, armed, recentTicks, handled, members, closes>>
sockVars == <<sock, clients, subs, isAlive, peer, got, since, missed>>
vars == <<up, pgVars, now, barVars, sockVars>>

Bar == [start : 0..MaxMinute, open : Nat, close : Nat, highSqrt : Nat, lowSqrt : Nat,
        buyEth : Nat, sellEth : Nat, trades : 1..MaxTrades]
Idle == [phase |-> "idle", client |-> NoClient]
\* The name given to a new object is immaterial: any unused one serves.
Some(S) == CHOOSE x \in S : TRUE
IdleCalls == {k \in Calls : call[k] = Idle}
FreeClients == {c \in Clients : pgState[c] = "free"}
Listening == {c \in Clients : pgState[c] = "listening"}
Handled(p) == Len(handled[p])

Init ==
  /\ up = TRUE
  /\ pg = Some(Clients)
  /\ pgState = [c \in Clients |-> IF c = pg THEN "listening" ELSE "free"]
  /\ reconnecting = FALSE
  /\ call = [k \in Calls |-> Idle]
  /\ now = 0
  /\ bars = [p \in Pools |-> NoBar]
  /\ armed = [p \in Pools |-> FALSE]
  /\ recentTicks = [p \in Pools |-> <<>>]
  /\ sock = [s \in Sockets |-> "absent"]
  /\ clients = {}
  /\ subs = [s \in Sockets |-> {}]
  /\ isAlive = [s \in Sockets |-> TRUE]
  /\ peer = [s \in Sockets |-> "up"]
  /\ handled = [p \in Pools |-> <<>>]
  /\ members = [p \in Pools |-> <<>>]
  /\ closes = [p \in Pools |-> <<>>]
  /\ got = [s \in Sockets |-> [p \in Pools |-> <<>>]]
  /\ since = [s \in Sockets |-> [p \in Pools |-> 0]]
  /\ missed = [s \in Sockets |-> FALSE]

-----------------------------------------------------------------------------
(* The LISTEN connection.                                                  *)

\* Mutant: the flag is not consulted, so 'error' and 'end' each start a call.
ReconnectAlways ==
  /\ reconnecting' = TRUE
  /\ IdleCalls # {}
  /\ call' = [call EXCEPT ![Some(IdleCalls)] = [phase |-> "ending", client |-> pg]]

\* reconnectPg: at most one call gets past the flag; it first awaits this.pg.end().
ReconnectPg ==
  IF reconnecting THEN UNCHANGED <<reconnecting, call>>
  ELSE /\ reconnecting' = TRUE
       /\ call' = [call EXCEPT ![Some(IdleCalls)] = [phase |-> "ending", client |-> pg]]

\* The connection breaks and its client emits 'error'; 'end' is still to come.
PgError(c) ==
  /\ pgState[c] = "listening"
  /\ pgState' = [pgState EXCEPT ![c] = "closing"]
  /\ ReconnectPg
  /\ UNCHANGED <<pg, now, barVars, sockVars>>

\* The client emits 'end', after an 'error' or on a connection closed cleanly.
PgEnd(c) ==
  /\ pgState[c] \in {"listening", "closing"}
  /\ pgState' = [pgState EXCEPT ![c] = "free"]
  /\ ReconnectPg
  /\ UNCHANGED <<pg, now, barVars, sockVars>>

\* this.pg.end() resolves once the old connection has ended; connectPg begins.
EndResolves(k) ==
  /\ call[k].phase = "ending"
  /\ pgState[call[k].client] = "free"
  /\ call' = [call EXCEPT ![k] = [phase |-> "delay", client |-> NoClient]]
  /\ UNCHANGED <<pgState, pg, reconnecting, now, barVars, sockVars>>

\* connectPg: an attempt makes a new client and awaits connect and the LISTENs.
Connect(k) ==
  /\ call[k].phase = "delay"
  /\ FreeClients # {}
  /\ pg' = Some(FreeClients)
  /\ pgState' = [pgState EXCEPT ![pg'] = "opening"]
  /\ call' = [call EXCEPT ![k] = [phase |-> "opening", client |-> pg']]
  /\ UNCHANGED <<reconnecting, now, barVars, sockVars>>

\* Mutant: the flag stays set.
ConnectedKeepsFlag(k) ==
  /\ call[k].phase = "opening"
  /\ pgState' = [pgState EXCEPT ![call[k].client] = "listening"]
  /\ call' = [call EXCEPT ![k] = Idle]
  /\ UNCHANGED <<pg, reconnecting, now, barVars, sockVars>>

\* The LISTENs worked: the handlers are registered and reconnectPg resumes in the
\* same turn of the event loop.
Connected(k) ==
  /\ call[k].phase = "opening"
  /\ pgState' = [pgState EXCEPT ![call[k].client] = "listening"]
  /\ call' = [call EXCEPT ![k] = Idle]
  /\ reconnecting' = FALSE
  /\ UNCHANGED <<pg, now, barVars, sockVars>>

\* connect rejects, or PostgreSQL refuses a LISTEN: the client is dropped without handlers, and the loop
\* sleeps before its next attempt.
ConnectFails(k) ==
  /\ call[k].phase = "opening"
  /\ pgState' = [pgState EXCEPT ![call[k].client] = "free"]
  /\ call' = [call EXCEPT ![k] = [phase |-> "delay", client |-> NoClient]]
  /\ UNCHANGED <<pg, reconnecting, now, barVars, sockVars>>

\* The connection is lost while a LISTEN is awaited: the client emits an 'error' that
\* has no handler yet, and the process ends.
ConnectionLost(k) ==
  /\ call[k].phase = "opening"
  /\ up' = FALSE
  /\ UNCHANGED <<pgVars, now, barVars, sockVars>>

-----------------------------------------------------------------------------
(* Bars and ticks.                                                         *)

OpenBar(start, t) ==
  [start |-> start, open |-> t.sqrt, close |-> t.sqrt, highSqrt |-> t.sqrt,
   lowSqrt |-> t.sqrt, buyEth |-> 0, sellEth |-> 0, trades |-> 0]

\* Mutant: the close is written only by the first trade.
AddTradeKeepsClose(bar, t) ==
  [bar EXCEPT !.highSqrt = IF t.sqrt > @ THEN t.sqrt ELSE @,
              !.lowSqrt = IF t.sqrt < @ THEN t.sqrt ELSE @,
              !.buyEth = IF t.isBuy THEN @ + t.eth ELSE @,
              !.sellEth = IF t.isBuy THEN @ ELSE @ + t.eth,
              !.trades = @ + 1]

\* The delta algebra of a trade on its bar.
AddTrade(bar, t) ==
  [bar EXCEPT !.close = t.sqrt,
              !.highSqrt = IF t.sqrt > @ THEN t.sqrt ELSE @,
              !.lowSqrt = IF t.sqrt < @ THEN t.sqrt ELSE @,
              !.buyEth = IF t.isBuy THEN @ + t.eth ELSE @,
              !.sellEth = IF t.isBuy THEN @ ELSE @ + t.eth,
              !.trades = @ + 1]

\* Mutant: the ring is never shifted.
PushUnbounded(ring, tick) == Append(ring, tick)

\* Mutant: a full ring loses the new tick, not its oldest one.
PushPops(ring, tick) == IF Len(ring) = RingMax THEN ring ELSE Append(ring, tick)

PushTick(ring, tick) ==
  IF Len(ring) = RingMax THEN Append(Tail(ring), tick) ELSE Append(ring, tick)

\* this.clients.delete(socket): with the entry goes all that is kept about the socket.
Delete(gone) ==
  /\ clients' = clients \ gone
  /\ sock' = [s \in Sockets |-> IF s \in gone THEN "absent" ELSE sock[s]]
  /\ peer' = [s \in Sockets |-> IF s \in gone THEN "up" ELSE peer[s]]
  /\ subs' = [s \in Sockets |-> IF s \in gone THEN {} ELSE subs[s]]
  /\ since' = [s \in Sockets |-> IF s \in gone THEN [p \in Pools |-> 0] ELSE since[s]]

Received(gone) == [s \in Sockets |-> IF s \in gone THEN [p \in Pools |-> <<>>] ELSE got[s]]
Missed(gone) == [s \in Sockets |-> s \notin gone /\ missed[s]]
Alive(gone) == [s \in Sockets |-> s \in gone \/ isAlive[s]]

\* broadcast: the open sockets a message about a pool is sent to.
Addressed(p) == {s \in clients : p \in subs[s] /\ sock[s] = "open"}

\* The message's effect on the sockets: stalled ones are terminated and deleted,
\* slow ones are skipped, the others receive the tick.
Broadcast(p, tick, stalled, slow) ==
  /\ Delete(stalled)
  /\ isAlive' = Alive(stalled)
  /\ missed' = [s \in Sockets |-> Missed(stalled)[s] \/ s \in slow]
  /\ got' = [s \in Sockets |->
               IF s \in Addressed(p) \ (stalled \union slow)
               THEN [got[s] EXCEPT ![p] = Append(@, tick)] ELSE Received(stalled)[s]]

\* Mutant: a bar that replaces another gets no timer.
ArmsFreshOnly(p) == bars[p] = NoBar

\* A new bar has no timer yet, so the trade that opens it sets one.
Arms(p) == TRUE

\* onTrade, for a notification of a trade of minute m, in the order of the code: the
\* tick is kept and broadcast, a bar of another minute is closed and its timer
\* cleared, a new bar is opened if needed, the trade is added and the timer set.
\* The bar pushes in between are left to their throttle and not recorded.
OnTrade(p, m, t) ==
  /\ Listening # {}
  /\ Handled(p) < MaxTrades
  /\ m \in 0..now /\ m < MaxMinute
  /\ handled' = [handled EXCEPT ![p] = Append(@, [minute |-> m, kind |-> t, late |-> m < now])]
  /\ recentTicks' = [recentTicks EXCEPT ![p] = PushTick(@, Handled(p) + 1)]
  /\ \E stalled \in SUBSET Addressed(p) : \E slow \in SUBSET (Addressed(p) \ stalled) :
       Broadcast(p, Handled(p) + 1, stalled, slow)
  /\ LET fresh == bars[p] = NoBar \/ bars[p].start # m
         bar == IF fresh THEN OpenBar(m, t) ELSE bars[p]
     IN /\ bars' = [bars EXCEPT ![p] = AddTrade(bar, t)]
        /\ members' = [members EXCEPT ![p] = IF fresh THEN <<Handled(p) + 1>>
                                             ELSE Append(@, Handled(p) + 1)]
        /\ closes' = IF fresh /\ bars[p] # NoBar
                     THEN [closes EXCEPT ![p] = Append(@, bars[p])] ELSE closes
        /\ armed' = [armed EXCEPT ![p] = IF fresh THEN Arms(p) ELSE @]
  /\ UNCHANGED <<pgVars, now>>

\* Mutant: the timer announces the bar and leaves it in the map.
TimerKeepsBar(p) ==
  /\ armed[p] /\ bars[p] # NoBar
  /\ now > bars[p].start
  /\ closes' = [closes EXCEPT ![p] = Append(@, bars[p])]
  /\ armed' = [armed EXCEPT ![p] = FALSE]
  /\ UNCHANGED <<pgVars, now, bars, recentTicks, handled, members, sockVars>>

\* The timer of the open bar: it is set for the end of the bar's minute, and for
\* 100 ms later when that has passed already.
TimerFires(p) ==
  /\ armed[p] /\ bars[p] # NoBar
  /\ now > bars[p].start
  /\ closes' = [closes EXCEPT ![p] = Append(@, bars[p])]
  /\ bars' = [bars EXCEPT ![p] = NoBar]
  /\ members' = [members EXCEPT ![p] = <<>>]
  /\ armed' = [armed EXCEPT ![p] = FALSE]
  /\ UNCHANGED <<pgVars, now, recentTicks, handled, sockVars>>

\* The clock, which runs to the minute after the last trades.
Minute ==
  /\ now < MaxMinute
  /\ now' = now + 1
  /\ UNCHANGED <<pgVars, barVars, sockVars>>

\* A pool, comment or harvest notification goes to every socket; of the sockets'
\* state it can only change that stalled ones are culled.
OnLifecycle ==
  /\ Listening # {}
  /\ \E stalled \in SUBSET {s \in clients : sock[s] = "open"} :
       /\ Delete(stalled)
       /\ isAlive' = Alive(stalled) /\ missed' = Missed(stalled) /\ got' = Received(stalled)
  /\ UNCHANGED <<pgVars, now, barVars>>

-----------------------------------------------------------------------------
(* Sockets.                                                                *)

\* A connection, with ?pool= (pools = {pool}) or without: the bar of the pool is
\* sent, the recent ticks are not.
OnConnection(s, pools) ==
  /\ s \notin clients /\ sock[s] = "absent"
  /\ sock' = [sock EXCEPT ![s] = "open"]
  /\ clients' = clients \union {s}
  /\ subs' = [subs EXCEPT ![s] = pools]
  /\ isAlive' = [isAlive EXCEPT ![s] = TRUE]
  /\ peer' = [peer EXCEPT ![s] = "up"]
  /\ got' = [got EXCEPT ![s] = [p \in Pools |-> <<>>]]
  /\ since' = [since EXCEPT ![s] = [p \in Pools |-> Handled(p)]]
  /\ missed' = [missed EXCEPT ![s] = FALSE]
  /\ UNCHANGED <<pgVars, now, barVars>>

\* op 'sub': the pool is added and its bar and recent ticks are sent.
Subscribe(s, p) ==
  /\ s \in clients /\ sock[s] = "open" /\ peer[s] = "up"
  /\ subs' = [subs EXCEPT ![s] = @ \union {p}]
  /\ got' = [got EXCEPT ![s][p] = recentTicks[p]]
  /\ since' = [since EXCEPT ![s][p] = Handled(p)]
  /\ UNCHANGED <<pgVars, now, barVars, sock, clients, isAlive, peer, missed>>

\* op 'unsub'.
Unsubscribe(s, p) ==
  /\ s \in clients /\ sock[s] = "open" /\ peer[s] = "up"
  /\ subs' = [subs EXCEPT ![s] = @ \ {p}]
  /\ got' = [got EXCEPT ![s][p] = <<>>]
  /\ UNCHANGED <<pgVars, now, barVars, sock, clients, isAlive, peer, since, missed>>

\* The pong to the last ping.
OnPong(s) ==
  /\ s \in clients /\ peer[s] = "up" /\ ~isAlive[s]
  /\ isAlive' = [isAlive EXCEPT ![s] = TRUE]
  /\ UNCHANGED <<pgVars, now, barVars, sock, clients, subs, peer, got, since, missed>>

\* A closing handshake has begun: readyState is no longer OPEN.
BeginClose(s) ==
  /\ s \in clients /\ sock[s] = "open" /\ peer[s] = "up"
  /\ sock' = [sock EXCEPT ![s] = "closing"]
  /\ UNCHANGED <<pgVars, now, barVars, clients, subs, isAlive, peer, got, since, missed>>

\* The 'close' or 'error' event.
OnClose(s) ==
  /\ s \in clients /\ peer[s] = "up"
  /\ Delete({s})
  /\ isAlive' = Alive({s}) /\ missed' = Missed({s}) /\ got' = Received({s})
  /\ UNCHANGED <<pgVars, now, barVars>>

\* The other end vanishes without a FIN (a laptop asleep, a dropped NAT entry).
PeerVanishes(s) ==
  /\ s \in clients /\ peer[s] = "up"
  /\ peer' = [peer EXCEPT ![s] = "gone"]
  /\ UNCHANGED <<pgVars, now, barVars, sock, clients, subs, isAlive, got, since, missed>>

\* Mutant: the ping does not reset the flag.
HeartbeatKeepsFlag ==
  /\ clients # {}
  /\ LET dead == {s \in clients : ~isAlive[s]}
     IN Delete(dead) /\ missed' = Missed(dead) /\ got' = Received(dead) /\ isAlive' = Alive(dead)
  /\ UNCHANGED <<pgVars, now, barVars>>

\* The heartbeat: sockets whose flag is still down are terminated and deleted, the
\* flags of the others go down and a ping is sent.
Heartbeat ==
  /\ clients # {}
  /\ LET dead == {s \in clients : ~isAlive[s]}
     IN /\ Delete(dead) /\ missed' = Missed(dead) /\ got' = Received(dead)
        /\ isAlive' = [s \in Sockets |-> s \notin clients \ dead]
  /\ UNCHANGED <<pgVars, now, barVars>>

-----------------------------------------------------------------------------
\* The steps of the running process and of its surroundings.
Step ==
  \/ \E c \in Clients : PgError(c) \/ PgEnd(c)
  \/ \E k \in Calls : EndResolves(k) \/ Connect(k) \/ Connected(k) \/ ConnectFails(k)
  \/ \E p \in Pools, m \in 0..MaxMinute, t \in TradeKinds : OnTrade(p, m, t)
  \/ \E p \in Pools : TimerFires(p)
  \/ Minute
  \/ OnLifecycle
  \/ \E s \in Sockets, pools \in {{}} \union {{p} : p \in Pools} : OnConnection(s, pools)
  \/ \E s \in Sockets, p \in Pools : Subscribe(s, p) \/ Unsubscribe(s, p)
  \/ \E s \in Sockets : OnPong(s) \/ BeginClose(s) \/ OnClose(s) \/ PeerVanishes(s)
  \/ Heartbeat

Running(A) == up /\ A /\ UNCHANGED up

Next ==
  \/ Running(Step)
  \/ up /\ \E k \in Calls : ConnectionLost(k)

Spec == Init /\ [][Next]_vars

\* Timers, the clock and the heartbeat run; awaited calls return; a connection that
\* broke emits its 'end'; connecting, which may fail any number of times, works in
\* the end, unless the process ends.  Nothing is assumed of trades, clients or peers.
FairSpec ==
  /\ Spec
  /\ WF_vars(Running(Minute)) /\ WF_vars(Running(Heartbeat))
  /\ \A p \in Pools : WF_vars(Running(TimerFires(p)))
  /\ \A c \in Clients : WF_vars(Running(pgState[c] = "closing" /\ PgEnd(c)))
  /\ \A k \in Calls : /\ WF_vars(Running(EndResolves(k))) /\ WF_vars(Running(Connect(k)))
                      /\ SF_vars(Running(Connected(k)))

-----------------------------------------------------------------------------
(* Properties.                                                             *)

\* The type of every variable; the ring never exceeds its limit.
TypeOK ==
  /\ up \in BOOLEAN
  /\ pgState \in [Clients -> {"free", "opening", "listening", "closing"}]
  /\ pg \in Clients /\ reconnecting \in BOOLEAN
  /\ call \in [Calls -> [phase : {"idle", "ending", "delay", "opening"},
                         client : Clients \union {NoClient}]]
  /\ now \in 0..MaxMinute
  /\ bars \in [Pools -> Bar \union {NoBar}] /\ armed \in [Pools -> BOOLEAN]
  /\ \A p \in Pools : Len(recentTicks[p]) <= RingMax /\ ToSet(recentTicks[p]) \subseteq 1..Handled(p)
  /\ sock \in [Sockets -> {"absent", "open", "closing"}]
  /\ clients \subseteq Sockets
  /\ subs \in [Sockets -> SUBSET Pools]
  /\ isAlive \in [Sockets -> BOOLEAN] /\ peer \in [Sockets -> {"up", "gone"}]
  /\ missed \in [Sockets -> BOOLEAN]

\* reconnectPg (lines 161-171): whatever the order of 'error' and 'end' events, at
\* most one client has notification handlers, and while one has, no call is making
\* another.  Two would count every trade twice.
OneListener ==
  /\ \A c, d \in Listening : c = d
  /\ Listening # {} => \A k \in Calls : call[k] = Idle

\* What the buys, or the sells, of a sequence of trades paid.
Eth(ts, buy) == Total([i \in DOMAIN ts |-> IF ts[i].isBuy = buy THEN ts[i].eth ELSE 0], Len(ts))

\* The reference value of a bar over a sequence of trades.
Summary(start, ts) ==
  LET sqrts == {ts[i].sqrt : i \in DOMAIN ts}
  IN [start |-> start, open |-> Head(ts).sqrt, close |-> Last(ts).sqrt, highSqrt |-> Max(sqrts),
      lowSqrt |-> Min(sqrts), buyEth |-> Eth(ts, TRUE), sellEth |-> Eth(ts, FALSE), trades |-> Len(ts)]

Kinds(p, positions) == [i \in DOMAIN positions |-> handled[p][positions[i]].kind]

\* onTrade (lines 236-261): the open bar is the summary of the trades handled since
\* it was opened, all of them trades of its own minute.
BarSummarisesItsTrades ==
  \A p \in Pools : bars[p] # NoBar =>
    /\ bars[p] = Summary(bars[p].start, Kinds(p, members[p]))
    /\ \A i \in ToSet(members[p]) : handled[p][i].minute = bars[p].start

\* onTrade and its timer (lines 238-281): every trade is announced in exactly one
\* bar_close or is in the open bar, late trades and rollovers included; so a rollover
\* and the timer never both close a bar, and none is dropped unannounced.
EveryTradeInOneBar ==
  \A p \in Pools :
    Handled(p) = Total([j \in DOMAIN closes[p] |-> closes[p][j].trades], Len(closes[p]))
                   + IF bars[p] = NoBar THEN 0 ELSE bars[p].trades

\* The same code: as long as no trade of a pool came late, each of its minutes gets
\* at most one bar_close, and that bar is the summary of all trades of the minute,
\* which were handled one after the other.
PromptMinutesCloseOnce ==
  \A p \in Pools : (\A i \in 1..Handled(p) : ~handled[p][i].late) =>
    \A j \in DOMAIN closes[p] :
      LET m == closes[p][j].start
      IN /\ \E k \in 0..Handled(p) : \E n \in k..Handled(p) :
              /\ {i \in 1..Handled(p) : handled[p][i].minute = m} = k + 1..n
              /\ closes[p][j] = Summary(m, Kinds(p, [i \in 1..n - k |-> k + i]))
         /\ \A l \in DOMAIN closes[p] : closes[p][l].start = m => l = j

\* Open and announced bars account for every trade, each of them once, and a minute
\* without late trades is announced once.
BarsExact == BarSummarisesItsTrades /\ EveryTradeInOneBar /\ PromptMinutesCloseOnce

\* The snapshot of 'sub' (lines 85-95) and broadcast (lines 284-300): the ticks a
\* socket has received for a pool are a gapless run of the stream up to its latest
\* tick that begins no later than the subscription, as long as backpressure skipped
\* none.  Of pools a socket does not subscribe to it says nothing.
TicksSpliced ==
  \A s \in clients : \A p \in subs[s] :
    ~missed[s] /\ sock[s] = "open" =>
      \E k \in 0..since[s][p] : got[s][p] = [i \in 1..Handled(p) - k |-> k + i]

\* The timer (lines 268-281): every opened bar is announced by a bar_close, even if
\* no further trade ever arrives, unless the process ends first.
BarsClose ==
  \A p \in Pools : \A n \in 0..MaxTrades :
    (bars[p] # NoBar /\ Len(closes[p]) = n) ~> (Len(closes[p]) > n \/ ~up)

\* connectPg and reconnectPg (lines 128-171): after any failure the broadcaster
\* listens again, unless the connection it is opening is lost under a LISTEN.
ListensAgain == (Listening = {}) ~> (Listening # {} \/ ~up)

\* The heartbeat (lines 107-120): a socket whose peer vanished is removed, or
\* the process ends.
DeadPeersCulled == \A s \in Sockets : (s \in clients /\ peer[s] = "gone") ~> (s \notin clients \/ ~up)
=============================================================================
