----------------------------- MODULE ReadCaches -----------------------------
(***************************************************************************)
(* The entries that the API keeps in Redis beside the database: profiles   *)
(* (profiles.service.ts), the like status of a wallet for one comment      *)
(* (comment-likes.service.ts) and the featured tokens                      *)
(* (featured-tokens.service.ts).  A reader gets, queries and sets with an  *)
(* await between each two; a writer commits and then deletes.  Redis       *)
(* errors are swallowed: a get misses, a set or a delete has no effect.    *)
(*                                                                         *)
(* A value has two numbers.  own is what the key's writers change: the     *)
(* version of the profile, 1 or 0 for liked or not.  rest is what changes  *)
(* without them: the comment's likeCount, the version of the leaderboard.  *)
(***************************************************************************)
EXTENDS Naturals, FiniteSets

CONSTANTS
  Wallets,
  Readers, Writers,   \* requests that read and that change something
  MaxWrites,          \* bound on the changes of a behaviour
  NoEntry             \* marks a key that Redis does not hold

ASSUME CachesAssumption == MaxWrites \in Nat

VARIABLES
  profile,            \* profile[w]: version of the row, 0 when there is none
  likers,             \* wallets that like the comment; likeCount is their number
  board, fresh,       \* version of leaderboard_daily; whether the watermark is recent
  entries,            \* Redis
  reader, writer,     \* locals of the requests
  writes              \* changes made so far

cacheVars == <<profile, likers, board, fresh, entries, reader, writer, writes>>

Featured == <<"featured">>
Key == ({"profile", "like"} \X Wallets) \union {Featured}
Value == [own : Nat, rest : Nat]

\* What a reader that starts now would store.
Source(k) ==
  CASE k[1] = "profile" -> [own |-> profile[k[2]], rest |-> 0]
    [] k[1] = "like" -> [own |-> IF k[2] \in likers THEN 1 ELSE 0, rest |-> Cardinality(likers)]
    [] OTHER -> [own |-> 0, rest |-> board]

Nothing == [own |-> 0, rest |-> 0]

CachesInit ==
  /\ profile = [w \in Wallets |-> 0]
  /\ likers = {} /\ board = 0 /\ fresh = TRUE
  /\ entries = [k \in Key |-> NoEntry]
  /\ reader = [r \in Readers |-> [pc |-> "idle", key |-> Featured, got |-> Nothing, todo |-> {}, raced |-> FALSE]]
  /\ writer = [u \in Writers |-> [pc |-> "idle", key |-> Featured]]
  /\ writes = 0

-----------------------------------------------------------------------------
(* Readers: find of profiles, status of likes, find of featured tokens.    *)
(* todo is what a reader has still to query.                               *)

ReaderStep(r, next) ==
  reader' = [reader EXCEPT ![r] = next] /\ UNCHANGED <<profile, likers, board, fresh, entries, writer, writes>>

Done(r) == ReaderStep(r, [reader[r] EXCEPT !.pc = "idle", !.key = Featured, !.got = Nothing, !.todo = {}, !.raced = FALSE])

ReadBegin(r, k) == reader[r].pc = "idle" /\ ReaderStep(r, [reader[r] EXCEPT !.pc = "get", !.key = k])

\* A hit ends the request with what Redis has.
EntryHit(r) == reader[r].pc = "get" /\ entries[reader[r].key] # NoEntry /\ Done(r)

\* status reads comment and like in two queries that run side by side.
Queries(k) ==
  CASE k[1] = "profile" -> {"profile"} [] k[1] = "like" -> {"like", "comment"} [] OTHER -> {"watermark"}

\* The key is not there, or Redis failed.
EntryMiss(r) ==
  /\ reader[r].pc = "get"
  /\ ReaderStep(r, [reader[r] EXCEPT !.pc = "query", !.todo = Queries(reader[r].key)])

\* The query q has answered; the entry can be set once all have.
Answered(r, q, got) ==
  LET left == reader[r].todo \ {q}
  IN ReaderStep(r, [reader[r] EXCEPT !.todo = left, !.got = got, !.pc = IF left = {} THEN "set" ELSE "query"])

\* A wallet without a profile is a 404, which is not cached.
QueryProfile(r) ==
  /\ "profile" \in reader[r].todo
  /\ LET v == Source(reader[r].key) IN IF v.own = 0 THEN Done(r) ELSE Answered(r, "profile", v)

QueryLike(r) ==
  /\ "like" \in reader[r].todo
  /\ Answered(r, "like", [reader[r].got EXCEPT !.own = Source(reader[r].key).own])

QueryComment(r) ==
  /\ "comment" \in reader[r].todo
  /\ Answered(r, "comment", [reader[r].got EXCEPT !.rest = Source(reader[r].key).rest])

\* A watermark that is missing or old ends the request with an empty list, not cached.
QueryWatermark(r) ==
  /\ "watermark" \in reader[r].todo
  /\ IF fresh THEN ReaderStep(r, [reader[r] EXCEPT !.todo = {"board"}]) ELSE Done(r)

QueryBoard(r) == "board" \in reader[r].todo /\ Answered(r, "board", Source(reader[r].key))

\* The set with its TTL.  excused is a history: the entry may be outdated because a
\* change was committed after it was read, or because a delete failed.
EntrySet(r) ==
  /\ reader[r].pc = "set"
  /\ entries' = [entries EXCEPT ![reader[r].key] = [value |-> reader[r].got, excused |-> reader[r].raced]]
  /\ reader' = [reader EXCEPT ![r] = [pc |-> "idle", key |-> Featured, got |-> Nothing, todo |-> {}, raced |-> FALSE]]
  /\ UNCHANGED <<profile, likers, board, fresh, writer, writes>>

EntrySetFails(r) == reader[r].pc = "set" /\ Done(r)

-----------------------------------------------------------------------------
(* Writers: update, like and unlike commit and then delete their key.      *)

\* Readers that have read the own part of k before the commit.
Racing(k) == {r \in Readers : reader[r].key = k /\ (reader[r].pc = "set" \/ (k[1] = "like" /\ reader[r].todo = {"comment"}))}

Commit(u, k) ==
  /\ writer[u].pc = "idle" /\ writes < MaxWrites
  /\ writes' = writes + 1
  /\ writer' = [writer EXCEPT ![u] = [pc |-> "delete", key |-> k]]
  /\ reader' = [r \in Readers |-> IF r \in Racing(k) THEN [reader[r] EXCEPT !.raced = TRUE] ELSE reader[r]]
  /\ UNCHANGED <<board, fresh, entries>>

\* update: the upsert makes or changes the row.  A username that is taken is a 409 and
\* changes nothing.
Update(u, w) ==
  /\ Commit(u, <<"profile", w>>)
  /\ profile' = [profile EXCEPT ![w] = @ + 1]
  /\ UNCHANGED likers

\* like: makes the wallet's profile when it has none, and the like row when there is
\* none.  The entry is deleted in either case.
LikeComment(u, w) ==
  /\ Commit(u, <<"like", w>>)
  /\ likers' = likers \union {w}
  /\ profile' = [profile EXCEPT ![w] = IF @ = 0 THEN 1 ELSE @]

UnlikeComment(u, w) ==
  /\ Commit(u, <<"like", w>>)
  /\ likers' = likers \ {w}
  /\ UNCHANGED profile

\* Mutant: like and unlike leave the entry to its TTL.
DeleteProfilesOnly(u) ==
  /\ writer[u].pc = "delete"
  /\ entries' = [entries EXCEPT ![writer[u].key] = IF writer[u].key[1] = "profile" THEN NoEntry ELSE @]
  /\ writer' = [writer EXCEPT ![u].pc = "idle"]
  /\ UNCHANGED <<profile, likers, board, fresh, reader, writes>>

\* The delete.
DeleteEntry(u) ==
  /\ writer[u].pc = "delete"
  /\ entries' = [entries EXCEPT ![writer[u].key] = NoEntry]
  /\ writer' = [writer EXCEPT ![u].pc = "idle"]
  /\ UNCHANGED <<profile, likers, board, fresh, reader, writes>>

\* Redis fails, or the process dies first: the request has done what it could.
DeleteFails(u) ==
  /\ writer[u].pc = "delete"
  /\ entries' = [entries EXCEPT ![writer[u].key] = IF @ = NoEntry THEN @ ELSE [@ EXCEPT !.excused = TRUE]]
  /\ writer' = [writer EXCEPT ![u].pc = "idle"]
  /\ UNCHANGED <<profile, likers, board, fresh, reader, writes>>

\* The worker refreshes the view; the indexer falls behind or catches up.
Refresh ==
  /\ writes < MaxWrites /\ writes' = writes + 1
  /\ \/ board' = board + 1 /\ UNCHANGED fresh
     \/ fresh' = ~fresh /\ UNCHANGED board
  /\ UNCHANGED <<profile, likers, entries, reader, writer>>

\* Mutant: entries are stored without EX.
EntryStays(k) == FALSE /\ UNCHANGED cacheVars

\* Every entry is stored with EX; Redis may also evict it.
EntryExpires(k) ==
  /\ entries[k] # NoEntry
  /\ entries' = [entries EXCEPT ![k] = NoEntry]
  /\ UNCHANGED <<profile, likers, board, fresh, reader, writer, writes>>

\* One step of a request that has begun.
ReaderRuns(r) ==
  \/ EntryHit(r) \/ EntryMiss(r)
  \/ QueryProfile(r) \/ QueryLike(r) \/ QueryComment(r) \/ QueryWatermark(r) \/ QueryBoard(r)
  \/ EntrySet(r) \/ EntrySetFails(r)

CachesNext ==
  \/ \E r \in Readers : ReaderRuns(r) \/ \E k \in Key : ReadBegin(r, k)
  \/ \E u \in Writers :
       \/ \E w \in Wallets : Update(u, w) \/ LikeComment(u, w) \/ UnlikeComment(u, w)
       \/ DeleteEntry(u) \/ DeleteFails(u)
  \/ Refresh
  \/ \E k \in Key : EntryExpires(k)

\* Requests run to their end and entries reach their TTL; changes may cease.
CachesFairness ==
  /\ \A r \in Readers : WF_cacheVars(ReaderRuns(r))
  /\ \A k \in Key : WF_cacheVars(EntryExpires(k))

CachesSpec == CachesInit /\ [][CachesNext]_cacheVars /\ CachesFairness

-----------------------------------------------------------------------------

CachesTypeOK ==
  /\ profile \in [Wallets -> Nat] /\ likers \in SUBSET Wallets
  /\ board \in Nat /\ fresh \in BOOLEAN /\ writes \in 0..MaxWrites
  /\ entries \in [Key -> [value : Value, excused : BOOLEAN] \union {NoEntry}]
  /\ reader \in [Readers -> [pc : {"idle", "get", "query", "set"}, key : Key, got : Value, raced : BOOLEAN,
                             todo : SUBSET {"profile", "like", "comment", "watermark", "board"}]]
  /\ writer \in [Writers -> [pc : {"idle", "delete"}, key : Key]]

\* A profile or like status in Redis shows the wallet's latest change, unless the writer
\* is about to delete it, its delete failed, or the entry was read before the change
\* was committed and set after it.  In particular a profile that a like or a comment
\* creates needs no delete, because a 404 is not cached.
StaleEntriesExplained ==
  \A k \in Key :
    (entries[k] # NoEntry /\ entries[k].value.own # Source(k).own) =>
      entries[k].excused \/ \E u \in Writers : writer[u] = [pc |-> "delete", key |-> k]

\* Once nothing changes any more, no entry stays outdated: profiles and like statuses
\* with their counts are current, and featured tokens are gone while the indexer is
\* behind.  This holds in spite of the races above, because of the TTL.
CachesCatchUp ==
  <>[](\A k \in Key : \/ entries[k] = NoEntry
                      \/ entries[k].value = Source(k) /\ (k = Featured => fresh))
=============================================================================
