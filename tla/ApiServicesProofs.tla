--------------------------- MODULE ApiServicesProofs ---------------------------
(***************************************************************************)
(* Proofs about the services of ApiServices, for any number of requests,   *)
(* readers, writers, wallets, nonces, tokens and keys.  Each service has   *)
(* an inductive invariant of its own; the composition adds nothing but     *)
(* that the steps of one leave the state of the others alone.              *)
(***************************************************************************)
EXTENDS ApiServices, FiniteSetTheorems, TLAPS

-----------------------------------------------------------------------------
(* Entries in Redis.  The promise speaks of entries; the invariant adds    *)
(* what a reader carries from its query to its set, which a writer may     *)
(* have overtaken.                                                         *)

\* The part of a value that the writers of its key change.
Own(k) == Source(k).own

\* What the locals c of a reader may still have to query.
Pending(k) ==
  IF k[1] = "profile" THEN {{"profile"}}
  ELSE IF k[1] = "like" THEN {{"like", "comment"}, {"like"}, {"comment"}}
  ELSE {{"watermark"}, {"board"}}

\* The reader has the own part of its value.
HasRead(c) == c.pc = "set" \/ (c.key[1] = "like" /\ c.todo = {"comment"})

\* What a reader has read is current, or it knows of the commit that overtook it; and it
\* sets a profile only when there is one.
ReaderSound(c) ==
  /\ c.pc \in {"idle", "get", "set"} => c.todo = {}
  /\ c.pc = "query" => c.todo \in Pending(c.key)
  /\ HasRead(c) /\ c.got.own # Own(c.key) => c.raced
  /\ c.pc = "set" /\ c.key[1] = "profile" => Own(c.key) # 0

\* A profile is cached only when there is one: no 404 is.
ProfilesExist == \A k \in Key : k[1] = "profile" /\ entries[k] # NoEntry => Own(k) # 0

CachesInv ==
  /\ CachesTypeOK /\ IsFiniteSet(likers)
  /\ ProfilesExist /\ StaleEntriesExplained
  /\ \A r \in Readers : ReaderSound(reader[r])

Reader == [pc : {"idle", "get", "query", "set"}, key : Key, got : Value, raced : BOOLEAN,
           todo : SUBSET {"profile", "like", "comment", "watermark", "board"}]

\* The kinds of keys.
LEMMA KeyCases ==
  ASSUME NEW k \in Key
  PROVE  \/ k[1] = "profile" /\ k[2] \in Wallets /\ k = <<"profile", k[2]>>
         \/ k[1] = "like" /\ k[2] \in Wallets /\ k = <<"like", k[2]>>
         \/ k = Featured /\ k[1] \notin {"profile", "like"}
<1>1. CASE k = Featured
  BY <1>1 DEF Featured
<1>2. CASE k \in {"profile", "like"} \X Wallets
  BY <1>2
<1> QED BY <1>1, <1>2 DEF Key

\* The own part of each kind of value.
LEMMA OwnIs ==
  ASSUME NEW k \in Key
  PROVE  /\ k[1] = "profile" => Own(k) = profile[k[2]]
         /\ k[1] = "like" => Own(k) = IF k[2] \in likers THEN 1 ELSE 0
         /\ k[1] \notin {"profile", "like"} => Own(k) = 0
BY DEF Own, Source

\* What the source of a key returns is a value.
LEMMA SourceTyped ==
  ASSUME CachesTypeOK, IsFiniteSet(likers), NEW k \in Key
  PROVE  Source(k) \in Value /\ Source(k).own = Own(k)
<1>1. Cardinality(likers) \in Nat
  BY FS_CardinalityType
<1> QED BY <1>1, KeyCases DEF Own, Source, Value, CachesTypeOK

\* The initial state.
LEMMA CachesInitHolds == CachesInit => CachesInv
<1> SUFFICES ASSUME CachesInit PROVE CachesInv
  OBVIOUS
<1>1. Featured \in Key /\ Nothing \in Value
  BY DEF Key, Nothing, Value
<1>2. ASSUME NEW r \in Readers PROVE reader[r] \in Reader /\ ReaderSound(reader[r])
  <2>1. reader[r] = [pc |-> "idle", key |-> Featured, got |-> Nothing, todo |-> {}, raced |-> FALSE]
    BY DEF CachesInit
  <2> QED BY <1>1, <2>1 DEF Reader, ReaderSound, HasRead
<1>3. \A u \in Writers : writer[u] \in [pc : {"idle", "delete"}, key : Key]
  BY <1>1 DEF CachesInit
<1>4. CachesTypeOK
  BY <1>2, <1>3, CachesAssumption DEF CachesInit, CachesTypeOK, Reader
<1>5. IsFiniteSet(likers)
  BY FS_EmptySet DEF CachesInit
<1>6. ProfilesExist /\ StaleEntriesExplained
  BY DEF CachesInit, ProfilesExist, StaleEntriesExplained
<1> QED BY <1>2, <1>4, <1>5, <1>6 DEF CachesInv

\* A step of one reader on its locals.
LEMMA ReaderStepHolds ==
  ASSUME CachesInv, NEW r \in Readers, NEW row \in Reader, ReaderStep(r, row), ReaderSound(row)
  PROVE  CachesInv'
<1> USE DEF CachesInv
<1>1. reader \in [Readers -> Reader]
  BY DEF CachesTypeOK, Reader
<1>2. /\ reader' \in [Readers -> Reader] /\ reader'[r] = row /\ \A q \in Readers \ {r} : reader'[q] = reader[q]
      /\ UNCHANGED <<profile, likers, board, fresh, entries, writer, writes>>
  BY <1>1 DEF ReaderStep
<1>3. \A k : Own(k)' = Own(k)
  BY <1>2 DEF Own, Source
<1>4. CachesTypeOK'
  BY <1>2 DEF CachesTypeOK, Reader
<1>5. ProfilesExist' /\ StaleEntriesExplained' /\ IsFiniteSet(likers)'
  BY <1>2 DEF ProfilesExist, StaleEntriesExplained, Own, Source
<1>6. \A q \in Readers : ReaderSound(reader'[q])
  BY <1>2
<1>7. \A q \in Readers : ReaderSound(reader[q])'
  BY <1>2, <1>3, <1>6 DEF ReaderSound, HasRead, Pending
<1> QED BY <1>4, <1>5, <1>7

\* A request that ends without an entry.
LEMMA DoneHolds == ASSUME CachesInv, NEW r \in Readers, Done(r) PROVE CachesInv'
<1> DEFINE row == [reader[r] EXCEPT !.pc = "idle", !.key = Featured, !.got = Nothing, !.todo = {}, !.raced = FALSE]
<1>1. reader[r] \in Reader /\ Featured \in Key /\ Nothing \in Value
  BY DEF CachesInv, CachesTypeOK, Reader, Key, Nothing, Value
<1>2. row \in Reader /\ row.pc = "idle" /\ row.todo = {}
  BY <1>1 DEF Reader
<1>3. ReaderStep(r, row)
  BY DEF Done
<1> HIDE DEF row
<1>4. ReaderSound(row)
  BY <1>2 DEF ReaderSound, HasRead
<1> QED BY <1>2, <1>3, <1>4, ReaderStepHolds

\* A query that has answered: the own part of the value is current now, or was read
\* before and is still accounted for.
LEMMA AnsweredHolds ==
  ASSUME CachesInv, NEW r \in Readers, NEW q, NEW got \in Value, Answered(r, q, got),
         reader[r].pc = "query", q \in reader[r].todo, q # "watermark",
         got.own = Own(reader[r].key) \/ (q = "comment" /\ got.own = reader[r].got.own),
         reader[r].key[1] = "profile" => got.own # 0
  PROVE  CachesInv'
<1> DEFINE c == reader[r]
<1> DEFINE left == c.todo \ {q}
<1> DEFINE pc == IF left = {} THEN "set" ELSE "query"
<1> DEFINE row == [c EXCEPT !.todo = left, !.got = got, !.pc = pc]
<1>1. c \in Reader /\ ReaderSound(c)
  BY DEF CachesInv, CachesTypeOK, Reader
<1>2. left \in SUBSET {"profile", "like", "comment", "watermark", "board"} /\ pc \in {"set", "query"}
  BY <1>1 DEF Reader
<1>3. ReaderStep(r, row)
  BY DEF Answered
<1>4. c.key \in Key /\ c.todo \in Pending(c.key)
  BY <1>1 DEF Reader, ReaderSound
<1>5. (pc = "set" => left = {}) /\ (pc = "query" => left # {})
  OBVIOUS
<1> HIDE DEF pc
<1>6. pc = "query" => c.key[1] = "like" /\ left \in {{"like"}, {"comment"}} /\ (q = "comment" => left = {"like"})
  BY <1>4, <1>5 DEF Pending
<1>7. q = "comment" => c.key[1] = "like" /\ (left = {} => c.todo = {"comment"})
  BY <1>4 DEF Pending
<1> HIDE DEF left
<1>8. /\ row \in Reader /\ row.pc = pc /\ row.key = c.key /\ row.got = got /\ row.todo = left /\ row.raced = c.raced
  BY <1>1, <1>2 DEF Reader
<1> HIDE DEF row
<1>9. HasRead(row) /\ got.own # Own(c.key) => c.raced
  <2> SUFFICES ASSUME HasRead(row), got.own # Own(c.key) PROVE c.raced
    OBVIOUS
  <2>1. q = "comment" /\ got.own = c.got.own
    OBVIOUS
  <2>2. pc = "set"
    BY <1>2, <1>6, <1>8, <2>1 DEF HasRead
  <2>3. HasRead(c)
    BY <1>5, <1>7, <2>1, <2>2 DEF HasRead
  <2> QED BY <1>1, <2>1, <2>3 DEF ReaderSound
<1>10. pc = "set" /\ c.key[1] = "profile" => Own(c.key) # 0
  BY <1>7
<1>11. pc = "query" => left \in Pending(c.key)
  BY <1>6 DEF Pending
<1>12. ReaderSound(row)
  BY <1>2, <1>5, <1>8, <1>9, <1>10, <1>11 DEF ReaderSound
<1> QED BY <1>3, <1>8, <1>12, ReaderStepHolds

\* Every step of a reader.
LEMMA ReaderRunsHolds ==
  ASSUME CachesInv, NEW r \in Readers, ReaderRuns(r) \/ \E k \in Key : ReadBegin(r, k)
  PROVE  CachesInv'
<1> DEFINE c == reader[r]
<1>0. /\ c \in Reader /\ ReaderSound(c) /\ c.key \in Key /\ c.got \in Value /\ CachesTypeOK /\ IsFiniteSet(likers)
      /\ c.pc \in {"idle", "get", "query", "set"} /\ c.todo \subseteq {"profile", "like", "comment", "watermark", "board"}
  BY DEF CachesInv, CachesTypeOK, Reader
<1>1. Source(c.key) \in Value /\ Source(c.key).own = Own(c.key)
  BY <1>0, SourceTyped
<1>2. c.todo # {} => c.pc = "query" /\ c.todo \in Pending(c.key)
  BY <1>0 DEF ReaderSound
<1>3. ASSUME NEW k \in Key, ReadBegin(r, k) PROVE CachesInv'
  <2> DEFINE row == [c EXCEPT !.pc = "get", !.key = k]
  <2>1. row \in Reader /\ row.pc = "get" /\ row.todo = c.todo
    BY <1>0 DEF Reader
  <2>2. ReaderStep(r, row) /\ c.todo = {}
    BY <1>0, <1>3 DEF ReadBegin, ReaderSound
  <2> HIDE DEF row
  <2>3. ReaderSound(row)
    BY <2>1, <2>2 DEF ReaderSound, HasRead
  <2> QED BY <2>1, <2>2, <2>3, ReaderStepHolds
<1>4. CASE EntryHit(r) BY <1>4, DoneHolds DEF EntryHit
<1>5. CASE EntryMiss(r)
  <2> DEFINE todo == Queries(c.key)
  <2> DEFINE row == [c EXCEPT !.pc = "query", !.todo = todo]
  <2>1. ReaderStep(r, row)
    BY <1>5 DEF EntryMiss
  <2>2. /\ todo \in SUBSET {"profile", "like", "comment", "watermark", "board"}
        /\ todo \in Pending(c.key) /\ todo # {"comment"}
    <3>1. CASE c.key[1] = "profile" BY <3>1 DEF Queries, Pending
    <3>2. CASE c.key[1] = "like" BY <3>2 DEF Queries, Pending
    <3>3. CASE c.key[1] \notin {"profile", "like"} BY <3>3 DEF Queries, Pending
    <3> QED BY <3>1, <3>2, <3>3
  <2> HIDE DEF todo
  <2>3. row \in Reader /\ row.pc = "query" /\ row.todo = todo /\ row.key = c.key
    BY <1>0, <2>2 DEF Reader
  <2> HIDE DEF row
  <2>4. ReaderSound(row)
    BY <2>2, <2>3 DEF ReaderSound, HasRead
  <2> QED BY <2>1, <2>3, <2>4, ReaderStepHolds
<1>6. CASE QueryProfile(r)
  <2>1. "profile" \in c.todo /\ c.pc = "query" /\ c.key[1] = "profile"
    BY <1>2, <1>6 DEF QueryProfile, Pending
  <2>2. CASE Source(c.key).own = 0
    BY <1>6, <2>2, DoneHolds DEF QueryProfile
  <2>3. CASE Source(c.key).own # 0
    <3>1. Answered(r, "profile", Source(c.key))
      BY <1>6, <2>3 DEF QueryProfile
    <3> QED BY <1>1, <2>1, <2>3, <3>1, AnsweredHolds
  <2> QED BY <2>2, <2>3
<1>7. CASE QueryLike(r)
  <2> DEFINE got == [c.got EXCEPT !.own = Source(c.key).own]
  <2>1. Answered(r, "like", got) /\ "like" \in c.todo /\ c.pc = "query" /\ c.key[1] = "like"
    BY <1>2, <1>7 DEF QueryLike, Pending
  <2>2. got \in Value /\ got.own = Own(c.key)
    BY <1>0, <1>1 DEF Value
  <2> HIDE DEF got
  <2> QED BY <2>1, <2>2, AnsweredHolds
<1>8. CASE QueryComment(r)
  <2> DEFINE got == [c.got EXCEPT !.rest = Source(c.key).rest]
  <2>1. Answered(r, "comment", got) /\ "comment" \in c.todo /\ c.pc = "query" /\ c.key[1] = "like"
    BY <1>2, <1>8 DEF QueryComment, Pending
  <2>2. got \in Value /\ got.own = c.got.own
    BY <1>0, <1>1 DEF Value
  <2> HIDE DEF got
  <2> QED BY <2>1, <2>2, AnsweredHolds
<1>9. CASE QueryWatermark(r)
  <2>1. "watermark" \in c.todo /\ c.pc = "query" /\ c.key[1] \notin {"profile", "like"}
    BY <1>2, <1>9 DEF QueryWatermark, Pending
  <2>2. CASE ~fresh BY <1>9, <2>2, DoneHolds DEF QueryWatermark
  <2>3. CASE fresh
    <3> DEFINE row == [c EXCEPT !.todo = {"board"}]
    <3>1. ReaderStep(r, row)
      BY <1>9, <2>3 DEF QueryWatermark
    <3>2. row \in Reader /\ row.pc = "query" /\ row.todo = {"board"} /\ row.key = c.key
      BY <1>0, <2>1 DEF Reader
    <3> HIDE DEF row
    <3>3. ReaderSound(row)
      BY <2>1, <3>2 DEF ReaderSound, HasRead, Pending
    <3> QED BY <3>1, <3>2, <3>3, ReaderStepHolds
  <2> QED BY <2>2, <2>3
<1>10. CASE QueryBoard(r)
  <2>1. Answered(r, "board", Source(c.key)) /\ "board" \in c.todo /\ c.pc = "query" /\ c.key[1] # "profile"
    BY <1>2, <1>10 DEF QueryBoard, Pending
  <2> QED BY <1>1, <2>1, AnsweredHolds
<1>11. CASE EntrySetFails(r) BY <1>11, DoneHolds DEF EntrySetFails
<1>12. CASE EntrySet(r)
  <2> USE DEF CachesInv
  <2> DEFINE entry == [value |-> c.got, excused |-> c.raced]
  <2> DEFINE row == [pc |-> "idle", key |-> Featured, got |-> Nothing, todo |-> {}, raced |-> FALSE]
  <2>1. /\ c.pc = "set" /\ entries' = [entries EXCEPT ![c.key] = entry] /\ reader' = [reader EXCEPT ![r] = row]
        /\ UNCHANGED <<profile, likers, board, fresh, writer, writes>>
    BY <1>12 DEF EntrySet
  <2>2. row \in Reader /\ row.pc = "idle" /\ row.todo = {}
    BY DEF Reader, Key, Nothing, Value
  <2>3. entry \in [value : Value, excused : BOOLEAN] /\ entry.value = c.got /\ entry.excused = c.raced
    BY <1>0 DEF Reader
  <2> HIDE DEF row, entry
  <2>4. /\ reader' \in [Readers -> Reader] /\ reader'[r] = row /\ \A q \in Readers \ {r} : reader'[q] = reader[q]
    BY <2>1, <2>2 DEF CachesTypeOK, Reader
  <2>5. /\ entries' \in [Key -> [value : Value, excused : BOOLEAN] \union {NoEntry}]
        /\ entries'[c.key] = entry /\ \A k \in Key \ {c.key} : entries'[k] = entries[k]
    BY <1>0, <2>1, <2>3 DEF CachesTypeOK
  <2>6. \A k : Own(k)' = Own(k)
    BY <2>1 DEF Own, Source
  <2>7. CachesTypeOK' /\ IsFiniteSet(likers)'
    BY <2>1, <2>4, <2>5 DEF CachesTypeOK, Reader
  <2>8. c.got.own # Own(c.key) => c.raced
    BY <1>0, <2>1 DEF ReaderSound, HasRead
  <2>9. ProfilesExist'
    BY <1>0, <2>1, <2>5, <2>6 DEF ProfilesExist, ReaderSound
  <2>10. StaleEntriesExplained'
    BY <2>1, <2>3, <2>5, <2>6, <2>8 DEF StaleEntriesExplained, Own
  <2>11. \A q \in Readers : ReaderSound(reader[q])'
    BY <2>2, <2>4, <2>6 DEF ReaderSound, HasRead, Pending
  <2> QED BY <2>7, <2>9, <2>10, <2>11
<1> QED BY <1>3, <1>4, <1>5, <1>6, <1>7, <1>8, <1>9, <1>10, <1>11, <1>12 DEF ReaderRuns

\* A commit: its key may become outdated, the readers that it overtakes learn of it, and
\* no other value that is cached or about to be changes.
LEMMA CommitHolds ==
  ASSUME CachesInv, NEW u \in Writers, NEW k \in Key, Commit(u, k),
         profile' \in [Wallets -> Nat], likers' \in SUBSET Wallets, IsFiniteSet(likers'),
         \A j \in Key : j # k => Own(j)' = Own(j) \/ (j[1] = "profile" /\ Own(j) = 0 /\ Own(j)' # 0),
         k[1] = "profile" => Own(k)' # 0
  PROVE  CachesInv'
<1> USE DEF CachesInv
<1>1. /\ writer[u].pc = "idle" /\ writer' = [writer EXCEPT ![u] = [pc |-> "delete", key |-> k]]
      /\ writes < MaxWrites /\ writes' = writes + 1 /\ UNCHANGED <<board, fresh, entries>>
      /\ reader' = [r \in Readers |-> IF r \in Racing(k) THEN [reader[r] EXCEPT !.raced = TRUE] ELSE reader[r]]
  BY DEF Commit
<1>2. /\ writer' \in [Writers -> [pc : {"idle", "delete"}, key : Key]]
      /\ writer'[u] = [pc |-> "delete", key |-> k] /\ \A v \in Writers \ {u} : writer'[v] = writer[v]
  BY <1>1 DEF CachesTypeOK
<1>3. ASSUME NEW r \in Readers
      PROVE  /\ reader[r] \in Reader /\ reader'[r] \in Reader /\ reader'[r].pc = reader[r].pc
             /\ reader'[r].key = reader[r].key /\ reader'[r].got = reader[r].got
             /\ reader'[r].todo = reader[r].todo
             /\ reader'[r].raced = (IF r \in Racing(k) THEN TRUE ELSE reader[r].raced)
  <2>1. reader[r] \in Reader
    BY DEF CachesTypeOK, Reader
  <2>2. reader'[r] = IF r \in Racing(k) THEN [reader[r] EXCEPT !.raced = TRUE] ELSE reader[r]
    BY <1>1
  <2>3. CASE r \in Racing(k)
    BY <2>1, <2>2, <2>3 DEF Reader
  <2>4. CASE r \notin Racing(k)
    BY <2>1, <2>2, <2>4
  <2> QED BY <2>3, <2>4
<1>4. reader' \in [Readers -> Reader]
  <2>1. reader' = [r \in Readers |-> reader'[r]]
    BY <1>1
  <2> QED BY <1>3, <2>1
<1>5. CachesTypeOK'
  <2>1. writes' \in 0..MaxWrites /\ board' \in Nat /\ fresh' \in BOOLEAN
    BY <1>1, CachesAssumption DEF CachesTypeOK
  <2>2. entries' \in [Key -> [value : Value, excused : BOOLEAN] \union {NoEntry}]
    BY <1>1 DEF CachesTypeOK
  <2> QED BY <1>2, <1>4, <2>1, <2>2 DEF CachesTypeOK, Reader
<1>6. ProfilesExist'
  BY <1>1 DEF ProfilesExist
<1>7. StaleEntriesExplained'
  <2> SUFFICES ASSUME NEW j \in Key, entries[j] # NoEntry, entries[j].value.own # Own(j)', ~entries[j].excused
               PROVE  \E v \in Writers : writer'[v] = [pc |-> "delete", key |-> j]
    BY <1>1 DEF StaleEntriesExplained, Own
  <2>1. CASE j = k
    BY <1>2, <2>1
  <2>2. CASE j # k
    <3>1. Own(j)' = Own(j)
      BY <2>2 DEF ProfilesExist
    <3>2. PICK v \in Writers : writer[v] = [pc |-> "delete", key |-> j]
      BY <3>1 DEF StaleEntriesExplained, Own
    <3>3. v # u
      BY <1>1, <3>2
    <3> QED BY <1>2, <3>2, <3>3
  <2> QED BY <2>1, <2>2
<1>8. ASSUME NEW r \in Readers PROVE ReaderSound(reader[r])'
  <2> DEFINE c == reader[r]
  <2>0. ReaderSound(c) /\ c.key \in Key /\ c.todo \in SUBSET {"profile", "like", "comment", "watermark", "board"}
    BY <1>3 DEF Reader
  <2>1. c'.pc = "set" /\ c'.key[1] = "profile" => Own(c.key)' # 0
    BY <1>3, <2>0 DEF ReaderSound
  <2>2. HasRead(c)' /\ c'.got.own # Own(c.key)' => c'.raced
    <3> SUFFICES ASSUME HasRead(c)', c'.got.own # Own(c.key)' PROVE c'.raced
      OBVIOUS
    <3>1. HasRead(c)
      BY <1>3 DEF HasRead
    <3>2. CASE c.key = k
      <4>1. r \in Racing(k)
        BY <3>1, <3>2 DEF HasRead, Racing
      <4> QED BY <1>3, <4>1
    <3>3. CASE c.key # k
      <4>1. Own(c.key)' = Own(c.key) \/ (c.key[1] = "profile" /\ Own(c.key) = 0)
        BY <1>3, <2>0, <3>3
      <4>2. c.key[1] = "profile" => Own(c.key) # 0
        BY <2>0, <3>1 DEF ReaderSound, HasRead
      <4>3. c.raced
        BY <1>3, <2>0, <3>1, <4>1, <4>2 DEF ReaderSound
      <4> QED BY <1>3, <4>3
    <3> QED BY <3>2, <3>3
  <2> QED BY <1>3, <2>0, <2>1, <2>2 DEF ReaderSound, Pending
<1> QED BY <1>5, <1>6, <1>7, <1>8

\* Every step of a writer.
LEMMA WriterHolds ==
  ASSUME CachesInv, NEW u \in Writers,
         \/ \E w \in Wallets : Update(u, w) \/ LikeComment(u, w) \/ UnlikeComment(u, w)
         \/ DeleteEntry(u) \/ DeleteFails(u)
  PROVE  CachesInv'
<1>0. profile \in [Wallets -> Nat] /\ likers \in SUBSET Wallets /\ IsFiniteSet(likers)
  BY DEF CachesInv, CachesTypeOK
<1>1. ASSUME NEW w \in Wallets, Update(u, w) PROVE CachesInv'
  <2> DEFINE k == <<"profile", w>>
  <2>1. k \in Key /\ k[1] = "profile" /\ k[2] = w
    BY DEF Key
  <2>2. Commit(u, k) /\ profile' = [profile EXCEPT ![w] = @ + 1] /\ likers' = likers
    BY <1>1 DEF Update
  <2>3. \A j \in Key : /\ j[1] = "profile" => Own(j)' = profile'[j[2]]
                       /\ j[1] = "like" => Own(j)' = IF j[2] \in likers' THEN 1 ELSE 0
                       /\ j[1] \notin {"profile", "like"} => Own(j)' = 0
    BY DEF Own, Source
  <2>4. /\ profile' \in [Wallets -> Nat] /\ profile'[w] # 0
        /\ \A x \in Wallets \ {w} : profile'[x] = profile[x]
    BY <1>0, <2>2
  <2>5. ASSUME NEW j \in Key, j # k PROVE Own(j)' = Own(j)
    BY <2>2, <2>3, <2>4, <2>5, KeyCases, OwnIs
  <2>6. Own(k)' # 0
    BY <2>1, <2>3, <2>4
  <2> HIDE DEF k
  <2> QED BY <1>0, <2>1, <2>2, <2>4, <2>5, <2>6, CommitHolds
<1>2. ASSUME NEW w \in Wallets, LikeComment(u, w) \/ UnlikeComment(u, w) PROVE CachesInv'
  <2> DEFINE k == <<"like", w>>
  <2>1. k \in Key /\ k[1] = "like" /\ k[2] = w
    BY DEF Key
  <2>2. /\ Commit(u, k)
        /\ profile' = profile \/ profile' = [profile EXCEPT ![w] = IF @ = 0 THEN 1 ELSE @]
        /\ likers' = likers \union {w} \/ likers' = likers \ {w}
    BY <1>2 DEF LikeComment, UnlikeComment
  <2>3. \A j \in Key : /\ j[1] = "profile" => Own(j)' = profile'[j[2]]
                       /\ j[1] = "like" => Own(j)' = IF j[2] \in likers' THEN 1 ELSE 0
                       /\ j[1] \notin {"profile", "like"} => Own(j)' = 0
    BY DEF Own, Source
  <2>4. /\ profile' \in [Wallets -> Nat]
        /\ \A x \in Wallets : profile'[x] = profile[x] \/ (profile[x] = 0 /\ profile'[x] # 0)
    BY <1>0, <2>2
  <2>5. likers' \in SUBSET Wallets /\ \A x \in Wallets \ {w} : x \in likers' <=> x \in likers
    BY <1>0, <2>2
  <2>6. IsFiniteSet(likers')
    <3>1. IsFiniteSet(likers \union {w})
      BY <1>0, FS_AddElement
    <3>2. IsFiniteSet(likers \ {w})
      BY <1>0, FS_RemoveElement
    <3> QED BY <2>2, <3>1, <3>2
  <2>7. ASSUME NEW j \in Key, j # k
        PROVE  Own(j)' = Own(j) \/ (j[1] = "profile" /\ Own(j) = 0 /\ Own(j)' # 0)
    BY <2>3, <2>4, <2>5, <2>7, KeyCases, OwnIs
  <2> HIDE DEF k
  <2> QED BY <2>1, <2>2, <2>4, <2>5, <2>6, <2>7, CommitHolds
<1>3. CASE DeleteEntry(u) \/ DeleteFails(u)
  <2> USE DEF CachesInv
  <2> DEFINE k == writer[u].key
  <2>1. /\ writer[u].pc = "delete" /\ writer' = [writer EXCEPT ![u].pc = "idle"]
        /\ UNCHANGED <<profile, likers, board, fresh, reader, writes>>
        /\ \/ entries' = [entries EXCEPT ![k] = NoEntry]
           \/ entries' = [entries EXCEPT ![k] = IF @ = NoEntry THEN @ ELSE [@ EXCEPT !.excused = TRUE]]
    BY <1>3 DEF DeleteEntry, DeleteFails
  <2>2. k \in Key /\ writer' \in [Writers -> [pc : {"idle", "delete"}, key : Key]]
        /\ \A v \in Writers \ {u} : writer'[v] = writer[v]
    BY <2>1 DEF CachesTypeOK
  <2>3. /\ entries' \in [Key -> [value : Value, excused : BOOLEAN] \union {NoEntry}]
        /\ \A j \in Key \ {k} : entries'[j] = entries[j]
        /\ \/ entries'[k] = NoEntry
           \/ entries[k] # NoEntry /\ entries'[k].excused = TRUE
    <3>1. entries \in [Key -> [value : Value, excused : BOOLEAN] \union {NoEntry}]
      BY DEF CachesTypeOK
    <3>2. CASE entries' = [entries EXCEPT ![k] = NoEntry] \/ entries[k] = NoEntry
      BY <2>1, <2>2, <3>1, <3>2
    <3>3. CASE entries[k] # NoEntry /\ entries' = [entries EXCEPT ![k] = [entries[k] EXCEPT !.excused = TRUE]]
      <4> DEFINE e == [entries[k] EXCEPT !.excused = TRUE]
      <4>1. e \in [value : Value, excused : BOOLEAN] /\ e.excused = TRUE
        BY <2>2, <3>1, <3>3
      <4>2. entries' = [entries EXCEPT ![k] = e]
        BY <3>3
      <4> HIDE DEF e
      <4> QED BY <2>2, <3>1, <3>3, <4>1, <4>2
    <3> QED BY <2>1, <2>2, <3>1, <3>2, <3>3
  <2>4. \A j : Own(j)' = Own(j)
    BY <2>1 DEF Own, Source
  <2>5. CachesTypeOK' /\ IsFiniteSet(likers)'
    BY <2>1, <2>2, <2>3 DEF CachesTypeOK
  <2>6. ProfilesExist'
    BY <2>2, <2>3, <2>4 DEF ProfilesExist
  <2>7. StaleEntriesExplained'
    <3> SUFFICES ASSUME NEW j \in Key, entries'[j] # NoEntry, entries'[j].value.own # Own(j), ~entries'[j].excused
                 PROVE  \E v \in Writers : writer'[v] = [pc |-> "delete", key |-> j]
      BY <2>4 DEF StaleEntriesExplained, Own
    <3>1. j # k
      BY <2>3
    <3>2. PICK v \in Writers : writer[v] = [pc |-> "delete", key |-> j]
      BY <2>3, <3>1 DEF StaleEntriesExplained, Own
    <3>3. v # u
      BY <3>1, <3>2
    <3> QED BY <2>2, <3>2, <3>3
  <2>8. \A r \in Readers : ReaderSound(reader[r])'
    BY <2>1, <2>4 DEF ReaderSound, HasRead, Pending
  <2> QED BY <2>5, <2>6, <2>7, <2>8
<1> QED BY <1>1, <1>2, <1>3

\* Every step of the caches.
LEMMA CachesStepHolds == ASSUME CachesInv, CachesNext PROVE CachesInv'
<1>1. CASE Refresh
  <2> USE DEF CachesInv
  <2>1. /\ writes < MaxWrites /\ writes' = writes + 1 /\ board' \in Nat /\ fresh' \in BOOLEAN
        /\ UNCHANGED <<profile, likers, entries, reader, writer>>
    <3>1. board \in Nat /\ fresh \in BOOLEAN
      BY DEF CachesTypeOK
    <3>2. CASE board' = board + 1 /\ fresh' = fresh
      BY <1>1, <3>1, <3>2 DEF Refresh
    <3>3. CASE fresh' = ~fresh /\ board' = board
      <4>1. fresh' \in BOOLEAN
        BY <3>3
      <4> QED BY <1>1, <3>1, <3>3, <4>1 DEF Refresh
    <3> QED BY <1>1, <3>2, <3>3 DEF Refresh
  <2>2. \A j \in Key : Own(j)' = Own(j)
    BY <2>1 DEF Own, Source
  <2>3. CachesTypeOK' /\ IsFiniteSet(likers)'
    BY <2>1, CachesAssumption DEF CachesTypeOK
  <2>4. ProfilesExist' /\ StaleEntriesExplained'
    BY <2>1, <2>2 DEF ProfilesExist, StaleEntriesExplained, Own
  <2>5. \A r \in Readers : reader[r].key \in Key
    BY DEF CachesTypeOK
  <2>6. \A r \in Readers : ReaderSound(reader[r])'
    BY <2>1, <2>2, <2>5 DEF ReaderSound, HasRead, Pending
  <2> QED BY <2>3, <2>4, <2>6
<1>2. ASSUME NEW k \in Key, EntryExpires(k) PROVE CachesInv'
  <2> USE DEF CachesInv
  <2>1. /\ entries' = [entries EXCEPT ![k] = NoEntry]
        /\ UNCHANGED <<profile, likers, board, fresh, reader, writer, writes>>
    BY <1>2 DEF EntryExpires
  <2>2. /\ entries' \in [Key -> [value : Value, excused : BOOLEAN] \union {NoEntry}]
        /\ \A j \in Key : entries'[j] = entries[j] \/ entries'[j] = NoEntry
    BY <2>1 DEF CachesTypeOK
  <2>3. \A j : Own(j)' = Own(j)
    BY <2>1 DEF Own, Source
  <2>4. CachesTypeOK' /\ IsFiniteSet(likers)'
    BY <2>1, <2>2 DEF CachesTypeOK
  <2>5. ProfilesExist' /\ StaleEntriesExplained'
    BY <2>1, <2>2, <2>3 DEF ProfilesExist, StaleEntriesExplained, Own
  <2>6. \A r \in Readers : ReaderSound(reader[r])'
    BY <2>1, <2>3 DEF ReaderSound, HasRead, Pending
  <2> QED BY <2>4, <2>5, <2>6
<1> QED BY <1>1, <1>2, ReaderRunsHolds, WriterHolds DEF CachesNext

\* A step that changes nothing of the caches.
LEMMA CachesStutterHolds == ASSUME CachesInv, UNCHANGED cacheVars PROVE CachesInv'
<1>1. \A j : Own(j)' = Own(j)
  BY DEF cacheVars, Own, Source
<1>2. \A r \in Readers : ReaderSound(reader[r])'
  BY <1>1 DEF cacheVars, CachesInv, ReaderSound, HasRead, Pending
<1>3. CachesTypeOK' /\ IsFiniteSet(likers)' /\ ProfilesExist' /\ StaleEntriesExplained'
  BY <1>1 DEF cacheVars, CachesInv, CachesTypeOK, ProfilesExist, StaleEntriesExplained, Own, Source
<1> QED BY <1>2, <1>3 DEF CachesInv

\* A profile or like status in Redis is current, about to be deleted, or its delete failed
\* or was overtaken by a reader: for find of profiles, status of likes and their writers.
THEOREM EntriesExplained == CachesSpec => []StaleEntriesExplained
<1>1. CachesInv /\ [CachesNext]_cacheVars => CachesInv'
  BY CachesStepHolds, CachesStutterHolds
<1>2. CachesInv => StaleEntriesExplained
  BY DEF CachesInv
<1> QED BY <1>1, <1>2, CachesInitHolds, PTL DEF CachesSpec

-----------------------------------------------------------------------------
(* Sign-in.                                                                *)

\* A call that has found its nonce, from its get on.
Found(v) == verify[v].pc \in {"delete", "check", "session", "refused"}

\* The nonce that a call found is the one of its wallet.
FoundOwn == \A v \in Verifies : Found(v) => issuedTo[verify[v].nonce] = verify[v].wallet

\* A nonce whose delete took effect is gone for good, because no nonce is issued twice.
DeletedGone ==
  \A v \in Verifies : Found(v) /\ verify[v].pc # "delete" /\ ~verify[v].lost =>
    verify[v].nonce \notin stored

\* The calls that a call comes after have ended, and if one of them had the same nonce
\* and that could be found again, its delete failed.
AfterEnded ==
  \A v \in Verifies : \A u \in verify[v].after :
    /\ Took(u)
    /\ Found(v) /\ verify[u].nonce = verify[v].nonce => verify[u].lost

\* A session needs the message of the nonce, signed by the wallet.
SessionsSigned ==
  \A v \in Verifies : verify[v].pc = "session" =>
    verify[v].signer = verify[v].wallet /\ verify[v].message = verify[v].nonce

AuthInv == AuthTypeOK /\ FoundOwn /\ DeletedGone /\ AfterEnded /\ SessionsSigned

\* The initial state of sign-in.
LEMMA AuthInitHolds == AuthInit => AuthInv
<1> SUFFICES ASSUME AuthInit PROVE AuthInv
  OBVIOUS
<1>1. Unused \in Call /\ Unused.pc = "idle" /\ Unused.after = {}
  BY AuthAssumption DEF Unused, Call
<1>2. AuthTypeOK
  BY <1>1 DEF AuthInit, AuthTypeOK
<1>3. FoundOwn /\ DeletedGone /\ AfterEnded /\ SessionsSigned
  BY <1>1 DEF AuthInit, FoundOwn, DeletedGone, AfterEnded, SessionsSigned, Found
<1> QED BY <1>2, <1>3 DEF AuthInv

\* What one step of a call of verify must do to keep the invariant.
LEMMA CallStepHolds ==
  ASSUME AuthInv, NEW v \in Verifies, ~Took(v),
         verify' \in [Verifies -> Call], \A u \in Verifies \ {v} : verify'[u] = verify[u],
         issuedTo' = issuedTo, stored' \subseteq stored,
         Found(v)' => issuedTo[verify'[v].nonce] = verify'[v].wallet,
         Found(v)' /\ verify'[v].pc # "delete" /\ ~verify'[v].lost => verify'[v].nonce \notin stored',
         verify'[v].after = verify[v].after \/ verify'[v].after = {u \in Verifies : Took(u)},
         Found(v)' => \A u \in verify'[v].after : verify[u].nonce = verify'[v].nonce => verify[u].lost,
         verify'[v].pc = "session" =>
           verify'[v].signer = verify'[v].wallet /\ verify'[v].message = verify'[v].nonce
  PROVE  AuthInv'
<1> USE DEF AuthInv
<1>1. verify \in [Verifies -> Call] /\ \A u \in Verifies : verify[u].after \subseteq Verifies
  BY DEF AuthTypeOK, Call
<1>2. AuthTypeOK'
  BY DEF AuthTypeOK
<1>3. FoundOwn'
  BY DEF FoundOwn, Found
<1>4. DeletedGone'
  BY DEF DeletedGone, Found
<1>5. \A u \in Verifies : Took(u) => u # v /\ Took(u)'
  BY DEF Took
<1>6. AfterEnded'
  <2> SUFFICES ASSUME NEW w \in Verifies, NEW u \in verify'[w].after
               PROVE  Took(u)' /\ (Found(w)' /\ verify'[u].nonce = verify'[w].nonce => verify'[u].lost)
    BY DEF AfterEnded
  <2>1. u \in Verifies /\ Took(u)
    BY <1>1 DEF AfterEnded
  <2>2. verify'[u] = verify[u] /\ Took(u)'
    BY <1>5, <2>1
  <2>3. CASE w = v
    BY <2>2, <2>3
  <2>4. CASE w # v
    BY <2>2, <2>4 DEF Found, AfterEnded
  <2> QED BY <2>2, <2>3, <2>4
<1>7. SessionsSigned'
  BY DEF SessionsSigned
<1> QED BY <1>2, <1>3, <1>4, <1>6, <1>7

\* Every step of sign-in.
LEMMA AuthStepHolds == ASSUME AuthInv, AuthNext PROVE AuthInv'
<1> USE AuthAssumption
<1>0. verify \in [Verifies -> Call]
  BY DEF AuthInv, AuthTypeOK
<1>1. ASSUME NEW w \in Signers, NEW n \in Nonces, IssueNonce(w, n) PROVE AuthInv'
  <2> USE DEF AuthInv
  <2>1. /\ issuedTo[n] = NoOne /\ issuedTo' = [issuedTo EXCEPT ![n] = w]
        /\ stored' \subseteq stored \union {n} /\ verify' = verify
    BY <1>1 DEF IssueNonce
  <2>2. AuthTypeOK'
    BY <2>1 DEF AuthTypeOK
  <2>3. \A v \in Verifies : Found(v) => verify[v].nonce # n
    BY <1>0, <2>1 DEF FoundOwn, Call
  <2>4. FoundOwn'
    BY <1>0, <2>1, <2>3 DEF FoundOwn, Found, AuthTypeOK, Call
  <2>5. DeletedGone'
    BY <2>1, <2>3 DEF DeletedGone, Found
  <2>6. AfterEnded' /\ SessionsSigned'
    BY <2>1 DEF AfterEnded, Took, Found, SessionsSigned
  <2> QED BY <2>2, <2>4, <2>5, <2>6
<1>2. ASSUME NEW v \in Verifies, NEW w \in Signers, NEW g \in Signers, NEW n \in Nonces, NEW m \in Nonces,
             VerifyBegin(v, w, n, m, g)
      PROVE  AuthInv'
  <2> DEFINE row == [verify[v] EXCEPT !.pc = "get", !.wallet = w, !.nonce = n, !.message = m, !.signer = g]
  <2>1. verify[v] \in Call
    BY <1>0
  <2>2. row \in Call /\ row.pc = "get" /\ row.after = verify[v].after
    BY <2>1 DEF Call
  <2>3. verify' = [verify EXCEPT ![v] = row]
    BY <1>0, <1>2 DEF VerifyBegin
  <2> HIDE DEF row
  <2>4. /\ verify' \in [Verifies -> Call] /\ verify'[v] = row
        /\ \A u \in Verifies \ {v} : verify'[u] = verify[u]
    BY <1>0, <2>2, <2>3
  <2>5. issuedTo' = issuedTo /\ stored' \subseteq stored /\ ~Took(v)
    BY <1>2 DEF VerifyBegin, Took
  <2>6. ~Found(v)' /\ verify'[v].pc # "session"
    BY <2>2, <2>4 DEF Found
  <2> QED BY <2>2, <2>4, <2>5, <2>6, CallStepHolds
<1>3. ASSUME NEW v \in Verifies, VerifyGet(v) PROVE AuthInv'
  <2>0. verify[v] \in Call
    BY <1>0
  <2>1. /\ verify[v].pc = "get" /\ issuedTo' = issuedTo /\ stored' \subseteq stored /\ ~Took(v)
    BY <1>3 DEF VerifyGet, Took
  <2>2. CASE Held(v) /\ verify' = [verify EXCEPT ![v].pc = "delete", ![v].after = {u \in Verifies : Took(u)}]
    <3> DEFINE ended == {u \in Verifies : Took(u)}
    <3> DEFINE row == [verify[v] EXCEPT !.pc = "delete", !.after = ended]
    <3>1. ended \in SUBSET Verifies
      OBVIOUS
    <3>2. verify' = [verify EXCEPT ![v] = row]
      <4> HIDE DEF ended
      <4>1. verify' = [verify EXCEPT ![v].pc = "delete", ![v].after = ended]
        BY <2>2 DEF ended
      <4> QED BY <1>0, <4>1
    <3>3. \A u \in ended : u \in Verifies /\ Took(u)
      OBVIOUS
    <3> HIDE DEF ended
    <3>4. /\ row \in Call /\ row.pc = "delete" /\ row.after = ended
          /\ row.nonce = verify[v].nonce /\ row.wallet = verify[v].wallet
      BY <2>0, <3>1 DEF Call
    <3> HIDE DEF row
    <3>5. /\ verify' \in [Verifies -> Call] /\ verify'[v] = row
          /\ \A u \in Verifies \ {v} : verify'[u] = verify[u]
      BY <1>0, <3>2, <3>4
    <3>6. verify[v].nonce \in stored /\ issuedTo[verify[v].nonce] = verify[v].wallet
      BY <2>2 DEF Held
    <3>7. \A u \in ended : verify[u].nonce = verify[v].nonce => verify[u].lost
      BY <3>3, <3>6 DEF AuthInv, DeletedGone, Found, Took
    <3>8. verify'[v].after = {u \in Verifies : Took(u)}
      BY <3>4, <3>5 DEF ended
    <3> QED BY <2>1, <3>4, <3>5, <3>6, <3>7, <3>8, CallStepHolds
  <2>3. CASE verify' = [verify EXCEPT ![v].pc = "unknown"]
    <3> DEFINE row == [verify[v] EXCEPT !.pc = "unknown"]
    <3>1. row \in Call /\ row.pc = "unknown" /\ row.after = verify[v].after
      BY <2>0 DEF Call
    <3>2. verify' = [verify EXCEPT ![v] = row]
      BY <2>3
    <3> HIDE DEF row
    <3>3. /\ verify' \in [Verifies -> Call] /\ verify'[v] = row
          /\ \A u \in Verifies \ {v} : verify'[u] = verify[u]
      BY <1>0, <3>1, <3>2
    <3>4. ~Found(v)' /\ verify'[v].pc # "session"
      BY <3>1, <3>3 DEF Found
    <3> QED BY <2>1, <3>1, <3>3, <3>4, CallStepHolds
  <2> QED BY <1>3, <2>2, <2>3 DEF VerifyGet
<1>4. ASSUME NEW v \in Verifies, VerifyDelete(v) PROVE AuthInv'
  <2>0. verify[v] \in Call
    BY <1>0
  <2>1. /\ verify[v].pc = "delete" /\ issuedTo' = issuedTo /\ ~Took(v) /\ Found(v)
    BY <1>4 DEF VerifyDelete, Took, Found
  <2>2. PICK effect \in BOOLEAN :
          /\ stored' = IF effect THEN stored \ {verify[v].nonce} ELSE stored
          /\ verify' = [verify EXCEPT ![v].pc = "check", ![v].lost = ~effect]
    BY <1>4 DEF VerifyDelete
  <2> DEFINE lost == ~effect
  <2> DEFINE row == [verify[v] EXCEPT !.pc = "check", !.lost = lost]
  <2>3. lost \in BOOLEAN /\ (lost <=> ~effect) /\ stored' \subseteq stored
    BY <2>2
  <2>4. verify' = [verify EXCEPT ![v] = row]
    <3>1. verify' = [verify EXCEPT ![v].pc = "check", ![v].lost = lost]
      BY <2>2
    <3> HIDE DEF lost
    <3> QED BY <1>0, <3>1
  <2> HIDE DEF lost
  <2>5. /\ row \in Call /\ row.pc = "check" /\ row.after = verify[v].after /\ row.lost = lost
        /\ row.nonce = verify[v].nonce /\ row.wallet = verify[v].wallet
    BY <2>0, <2>3 DEF Call
  <2> HIDE DEF row
  <2>6. /\ verify' \in [Verifies -> Call] /\ verify'[v] = row
        /\ \A u \in Verifies \ {v} : verify'[u] = verify[u]
    BY <1>0, <2>4, <2>5
  <2>7. ~lost => verify[v].nonce \notin stored'
    BY <2>2, <2>3
  <2>8. \A u \in verify[v].after : verify[u].nonce = verify[v].nonce => verify[u].lost
    BY <2>1 DEF AuthInv, AfterEnded
  <2>9. issuedTo[verify[v].nonce] = verify[v].wallet
    BY <2>1 DEF AuthInv, FoundOwn
  <2> QED BY <2>1, <2>3, <2>5, <2>6, <2>7, <2>8, <2>9, CallStepHolds
<1>5. ASSUME NEW v \in Verifies, VerifyCheck(v) PROVE AuthInv'
  <2> DEFINE c == verify[v]
  <2> DEFINE pc == IF c.message = c.nonce /\ c.signer = c.wallet THEN "session" ELSE "refused"
  <2> DEFINE row == [c EXCEPT !.pc = pc]
  <2>0. verify[v] \in Call
    BY <1>0
  <2>1. /\ c.pc = "check" /\ issuedTo' = issuedTo /\ stored' = stored /\ ~Took(v) /\ Found(v)
        /\ verify' = [verify EXCEPT ![v] = row]
    BY <1>5 DEF VerifyCheck, Took, Found
  <2>2. pc \in {"session", "refused"} /\ (pc = "session" => c.message = c.nonce /\ c.signer = c.wallet)
    OBVIOUS
  <2> HIDE DEF pc
  <2>3. /\ row \in Call /\ row.pc = pc /\ row.after = c.after /\ row.lost = c.lost
        /\ row.nonce = c.nonce /\ row.wallet = c.wallet /\ row.message = c.message /\ row.signer = c.signer
    BY <2>0, <2>2 DEF Call
  <2> HIDE DEF row
  <2>4. /\ verify' \in [Verifies -> Call] /\ verify'[v] = row
        /\ \A u \in Verifies \ {v} : verify'[u] = verify[u]
    BY <1>0, <2>1, <2>3
  <2>5. ~c.lost => c.nonce \notin stored
    BY <2>1 DEF AuthInv, DeletedGone
  <2>6. \A u \in c.after : verify[u].nonce = c.nonce => verify[u].lost
    BY <2>1 DEF AuthInv, AfterEnded
  <2>7. issuedTo[c.nonce] = c.wallet
    BY <2>1 DEF AuthInv, FoundOwn
  <2> QED BY <2>1, <2>2, <2>3, <2>4, <2>5, <2>6, <2>7, CallStepHolds
<1>6. ASSUME NEW n \in Nonces, NonceExpires(n) PROVE AuthInv'
  BY <1>6 DEF NonceExpires, AuthInv, AuthTypeOK, FoundOwn, DeletedGone, AfterEnded, SessionsSigned, Took, Found
<1> QED BY <1>1, <1>2, <1>3, <1>4, <1>5, <1>6 DEF AuthNext

\* The invariant of sign-in implies what it promises.
LEMMA AuthPromise == AuthInv => NoncesSpent
<1> SUFFICES ASSUME AuthInv, NEW v \in Verifies, verify[v].pc = "session"
             PROVE  /\ issuedTo[verify[v].nonce] = verify[v].wallet
                    /\ verify[v].signer = verify[v].wallet /\ verify[v].message = verify[v].nonce
                    /\ \A u \in verify[v].after : verify[u].nonce = verify[v].nonce => verify[u].lost
  BY DEF NoncesSpent
<1> QED BY DEF AuthInv, FoundOwn, AfterEnded, SessionsSigned, Found

-----------------------------------------------------------------------------
(* The token resolver.                                                     *)

\* What the locals c of a call say of the tables.  All of it stays true while rows are
\* added and none is changed.
CallSound(c) ==
  /\ c.ref \in IF c.kind = "id" THEN Resolves ELSE Tokens
  /\ c.pc = "byId" => c.kind = "id"
  /\ c.pc = "pool" => c.kind = "pool"
  /\ c.pc \in {"find", "sink", "insert", "commit", "reread", "raced"} => c.kind # "id"
  /\ c.known => Known(c.kind, c.ref)
  /\ c.pc = "sink" /\ c.known => c.ref \in sinkTokens
  /\ c.pc \in {"reread", "raced"} => rows[c.ref] # NoRow
  /\ c.pc = "answered" => IF c.kind = "id" THEN c.answer = c.ref /\ \E t \in Tokens : rows[t] = c.ref
                                          ELSE c.answer # NoRow /\ rows[c.ref] = c.answer
  /\ c.pc = "notFound" => ~c.known

\* At most one open transaction has inserted a row for a token, and only while the token
\* has none: the unique index.
OneInserter ==
  \A r \in Resolves : resolve[r].pc = "commit" =>
    /\ rows[resolve[r].ref] = NoRow
    /\ \A q \in Resolves : resolve[q].pc = "commit" /\ resolve[q].ref = resolve[r].ref => q = r

ResolverInv == ResolverTypeOK /\ OneInserter /\ \A r \in Resolves : CallSound(resolve[r])

\* The initial state of the resolver.
LEMMA ResolverInitHolds == ResolverInit => ResolverInv
<1> SUFFICES ASSUME ResolverInit PROVE ResolverInv
  OBVIOUS
<1>1. ASSUME NEW r \in Resolves
      PROVE  resolve[r] \in Lookup /\ CallSound(resolve[r]) /\ resolve[r].pc = "idle" /\ resolve[r].kind = "id"
  <2>1. resolve[r] = [pc |-> "idle", kind |-> "id", ref |-> r, answer |-> NoRow, known |-> FALSE]
    BY DEF ResolverInit
  <2>2. resolve[r] \in Lookup
    BY <2>1 DEF Lookup
  <2> QED BY <2>1, <2>2 DEF CallSound
<1>2. ResolverTypeOK
  BY <1>1 DEF ResolverInit, ResolverTypeOK
<1>3. OneInserter
  BY <1>1 DEF OneInserter
<1> QED BY <1>1, <1>2, <1>3 DEF ResolverInv

\* The tables of the backend and of the indexer only grow.
TablesGrow ==
  /\ \A t \in Tokens : rows[t] # NoRow => rows'[t] = rows[t]
  /\ sinkTokens \subseteq sinkTokens' /\ sinkPools \subseteq sinkPools'

\* Growing tables take nothing back from what a call has learnt.
LEMMA SoundStable ==
  ASSUME NEW r \in Resolves, CallSound(resolve[r]), resolve'[r] = resolve[r], TablesGrow
  PROVE  CallSound(resolve[r])'
<1> DEFINE c == resolve[r]
<1>1. CASE c.kind = "id"
  <2>1. c.ref \in Resolves /\ c.ref # NoRow
    BY <1>1, ResolverAssumption DEF CallSound
  <2>2. (\E t \in Tokens : rows[t] = c.ref) => \E t \in Tokens : rows'[t] = c.ref
    BY <2>1 DEF TablesGrow
  <2>3. c.known => \E t \in Tokens : rows[t] = c.ref
    BY <1>1 DEF CallSound, Known
  <2> QED BY <1>1, <2>2, <2>3 DEF CallSound, Known
<1>2. CASE c.kind # "id"
  <2>1. c.ref \in Tokens /\ (rows[c.ref] # NoRow => rows'[c.ref] = rows[c.ref])
    BY <1>2 DEF CallSound, TablesGrow
  <2>2. Known(c.kind, c.ref) => Known(c.kind, c.ref)'
    BY <1>2, <2>1 DEF Known, TablesGrow
  <2> QED BY <1>2, <2>1, <2>2 DEF CallSound, TablesGrow
<1> QED BY <1>1, <1>2

\* What one step of a call, alone on its locals, must do to keep the invariant.
LEMMA LookupStepHolds ==
  ASSUME ResolverInv, NEW r \in Resolves,
         resolve' \in [Resolves -> Lookup], \A q \in Resolves \ {r} : resolve'[q] = resolve[q],
         UNCHANGED <<rows, sinkTokens, sinkPools>>,
         CallSound(resolve'[r]),
         resolve'[r].pc = "commit" =>
           rows[resolve'[r].ref] = NoRow /\ Inserting(resolve'[r].ref) = {}
  PROVE  ResolverInv'
<1> USE DEF ResolverInv
<1>1. \A q \in Resolves : CallSound(resolve[q])'
  <2>1. CallSound(resolve[r])'
    BY DEF CallSound, Known
  <2>2. TablesGrow
    BY DEF TablesGrow
  <2> QED BY <2>1, <2>2, SoundStable
<1>2. ResolverTypeOK'
  <2>1. \A q \in Resolves : resolve'[q].kind # "id" => resolve'[q].ref \in Tokens
    BY <1>1 DEF CallSound
  <2> QED BY <2>1 DEF ResolverTypeOK
<1>3. OneInserter'
  BY DEF OneInserter, Inserting
<1> QED BY <1>1, <1>2, <1>3

\* A step that moves a call to another statement and leaves the rest of its locals.
LEMMA LookupMoves ==
  ASSUME ResolverInv, NEW r \in Resolves, NEW pc,
         pc \in {"find", "sink", "insert", "commit", "reread", "notFound", "raced", "failed"},
         resolve' = [resolve EXCEPT ![r] = [resolve[r] EXCEPT !.pc = pc]],
         UNCHANGED <<rows, sinkTokens, sinkPools>>,
         pc \in {"find", "sink", "insert", "commit", "reread", "raced"} => resolve[r].kind # "id",
         pc = "sink" /\ resolve[r].known => resolve[r].ref \in sinkTokens,
         pc \in {"reread", "raced"} => rows[resolve[r].ref] # NoRow,
         pc = "notFound" => ~resolve[r].known,
         pc = "commit" => rows[resolve[r].ref] = NoRow /\ Inserting(resolve[r].ref) = {}
  PROVE  ResolverInv'
<1> DEFINE row == [resolve[r] EXCEPT !.pc = pc]
<1>1. resolve \in [Resolves -> Lookup] /\ resolve[r] \in Lookup /\ CallSound(resolve[r])
  BY DEF ResolverInv, ResolverTypeOK
<1>2. /\ row \in Lookup /\ row.pc = pc /\ row.kind = resolve[r].kind /\ row.ref = resolve[r].ref
      /\ row.answer = resolve[r].answer /\ row.known = resolve[r].known
  BY <1>1 DEF Lookup
<1> HIDE DEF row
<1>3. /\ resolve' \in [Resolves -> Lookup] /\ resolve'[r] = row
      /\ \A q \in Resolves \ {r} : resolve'[q] = resolve[q]
  BY <1>1, <1>2 DEF row
<1>4. CallSound(row)
  BY <1>1, <1>2 DEF CallSound
<1> QED BY <1>2, <1>3, <1>4, LookupStepHolds

\* Every step of the resolver.
LEMMA ResolverStepHolds == ASSUME ResolverInv, ResolverNext PROVE ResolverInv'
<1> USE ResolverAssumption
<1>0. resolve \in [Resolves -> Lookup] /\ \A r \in Resolves : resolve[r] \in Lookup /\ CallSound(resolve[r])
  BY DEF ResolverInv, ResolverTypeOK
<1>1. ASSUME NEW r \in Resolves, NEW kind \in {"id", "address", "pool"}, NEW ref \in Tokens \union Resolves,
             Resolve(r, kind, ref)
      PROVE  ResolverInv'
  <2> DEFINE row == [pc |-> First(kind), kind |-> kind, ref |-> ref, answer |-> NoRow,
                     known |-> Known(kind, ref)]
  <2>1. /\ resolve' = [resolve EXCEPT ![r] = row] /\ UNCHANGED <<rows, sinkTokens, sinkPools>>
        /\ ref \in IF kind = "id" THEN Resolves ELSE Tokens
    BY <1>1 DEF Resolve, Step
  <2>2. First(kind) = IF kind = "id" THEN "byId" ELSE IF kind = "address" THEN "find" ELSE "pool"
    BY DEF First
  <2>3. Known(kind, ref) \in BOOLEAN
    BY DEF Known
  <2>4. row \in Lookup
    BY <2>2, <2>3 DEF Lookup
  <2>5. CallSound(row)
    BY <2>1, <2>2 DEF CallSound
  <2>6. row.pc # "commit"
    BY <2>2
  <2> HIDE DEF row
  <2>7. /\ resolve' \in [Resolves -> Lookup] /\ resolve'[r] = row
        /\ \A q \in Resolves \ {r} : resolve'[q] = resolve[q]
    BY <1>0, <2>1, <2>4
  <2> QED BY <2>1, <2>5, <2>6, <2>7, LookupStepHolds
<1>2. ASSUME NEW r \in Resolves, NEW a \in Resolves,
             resolve' = [resolve EXCEPT ![r] = [resolve[r] EXCEPT !.pc = "answered", !.answer = a]],
             UNCHANGED <<rows, sinkTokens, sinkPools>>,
             IF resolve[r].kind = "id" THEN a = resolve[r].ref /\ \E t \in Tokens : rows[t] = a
                                       ELSE rows[resolve[r].ref] = a
      PROVE  ResolverInv'
  <2> DEFINE row == [resolve[r] EXCEPT !.pc = "answered", !.answer = a]
  <2>1. /\ row \in Lookup /\ row.pc = "answered" /\ row.kind = resolve[r].kind /\ row.ref = resolve[r].ref
        /\ row.answer = a /\ row.known = resolve[r].known
    BY <1>0 DEF Lookup
  <2>2. resolve' = [resolve EXCEPT ![r] = row]
    BY <1>2
  <2> HIDE DEF row
  <2>3. /\ resolve' \in [Resolves -> Lookup] /\ resolve'[r] = row
        /\ \A q \in Resolves \ {r} : resolve'[q] = resolve[q]
    BY <1>0, <2>1, <2>2
  <2>4. CallSound(row)
    BY <1>0, <1>2, <2>1 DEF CallSound
  <2> QED BY <1>2, <2>1, <2>3, <2>4, LookupStepHolds
<1>3. ASSUME NEW r \in Resolves, ResolveById(r) PROVE ResolverInv'
  <2>1. resolve[r].kind = "id" /\ resolve[r].ref \in Resolves /\ UNCHANGED <<rows, sinkTokens, sinkPools>>
    BY <1>0, <1>3 DEF ResolveById, CallSound, Step
  <2>2. CASE \E t \in Tokens : rows[t] = resolve[r].ref
    BY <1>2, <1>3, <2>1, <2>2 DEF ResolveById, Step
  <2>3. CASE ~ \E t \in Tokens : rows[t] = resolve[r].ref
    <3>1. ~resolve[r].known
      BY <1>0, <2>1, <2>3 DEF CallSound, Known
    <3>2. resolve' = [resolve EXCEPT ![r] = [resolve[r] EXCEPT !.pc = "notFound"]]
      BY <1>3, <2>3 DEF ResolveById, Step
    <3> QED BY <2>1, <3>1, <3>2, LookupMoves
  <2> QED BY <2>2, <2>3
<1>4. ASSUME NEW r \in Resolves, ResolvePool(r) PROVE ResolverInv'
  <2> DEFINE pc == IF resolve[r].ref \in sinkPools THEN "find" ELSE "notFound"
  <2>1. /\ resolve[r].kind = "pool" /\ UNCHANGED <<rows, sinkTokens, sinkPools>>
        /\ resolve' = [resolve EXCEPT ![r] = [resolve[r] EXCEPT !.pc = pc]]
    BY <1>0, <1>4 DEF ResolvePool, CallSound, Step
  <2>2. resolve[r].known => pc = "find"
    BY <1>0, <2>1 DEF CallSound, Known
  <2>3. pc \in {"find", "notFound"}
    OBVIOUS
  <2> HIDE DEF pc
  <2> QED BY <2>1, <2>2, <2>3, LookupMoves
<1>5. ASSUME NEW r \in Resolves, FindToken(r) PROVE ResolverInv'
  <2>1. /\ resolve[r].kind # "id" /\ resolve[r].ref \in Tokens /\ UNCHANGED <<rows, sinkTokens, sinkPools>>
    BY <1>0, <1>5 DEF FindToken, CallSound, Step
  <2>2. CASE rows[resolve[r].ref] # NoRow
    <3>1. rows[resolve[r].ref] \in Resolves
      BY <2>1, <2>2 DEF ResolverInv, ResolverTypeOK
    <3> QED BY <1>2, <1>5, <2>1, <2>2, <3>1 DEF FindToken, Step
  <2>3. CASE rows[resolve[r].ref] = NoRow
    <3>1. resolve[r].known => resolve[r].ref \in sinkTokens
      BY <1>0, <2>1, <2>3 DEF CallSound, Known
    <3>2. resolve' = [resolve EXCEPT ![r] = [resolve[r] EXCEPT !.pc = "sink"]]
      BY <1>5, <2>3 DEF FindToken, Step
    <3> QED BY <2>1, <3>1, <3>2, LookupMoves
  <2> QED BY <2>2, <2>3
<1>6. ASSUME NEW r \in Resolves, ReadSink(r) PROVE ResolverInv'
  <2> DEFINE pc == IF resolve[r].ref \in sinkTokens THEN "insert" ELSE "notFound"
  <2>1. /\ resolve[r].kind # "id" /\ UNCHANGED <<rows, sinkTokens, sinkPools>>
        /\ resolve' = [resolve EXCEPT ![r] = [resolve[r] EXCEPT !.pc = pc]]
        /\ resolve[r].known => resolve[r].ref \in sinkTokens
    BY <1>0, <1>6 DEF ReadSink, CallSound, Step
  <2>2. pc \in {"insert", "notFound"} /\ (resolve[r].known => pc = "insert")
    BY <2>1
  <2> HIDE DEF pc
  <2> QED BY <2>1, <2>2, LookupMoves
<1>7. ASSUME NEW r \in Resolves, Insert(r) PROVE ResolverInv'
  <2> DEFINE pc == IF rows[resolve[r].ref] = NoRow THEN "commit" ELSE "reread"
  <2>1. /\ resolve[r].kind # "id" /\ UNCHANGED <<rows, sinkTokens, sinkPools>>
        /\ resolve' = [resolve EXCEPT ![r] = [resolve[r] EXCEPT !.pc = pc]]
        /\ Inserting(resolve[r].ref) = {}
    BY <1>0, <1>7 DEF Insert, CallSound, Step
  <2>2. /\ pc \in {"commit", "reread"} /\ (pc = "commit" => rows[resolve[r].ref] = NoRow)
        /\ pc = "reread" => rows[resolve[r].ref] # NoRow
    OBVIOUS
  <2> HIDE DEF pc
  <2> QED BY <2>1, <2>2, LookupMoves
<1>8. ASSUME NEW r \in Resolves, Reread(r) PROVE ResolverInv'
  <2>1. /\ resolve[r].kind # "id" /\ UNCHANGED <<rows, sinkTokens, sinkPools>>
        /\ resolve' = [resolve EXCEPT ![r] = [resolve[r] EXCEPT !.pc = "raced"]]
        /\ rows[resolve[r].ref] # NoRow
    BY <1>0, <1>8 DEF Reread, CallSound, Step
  <2> QED BY <2>1, LookupMoves
<1>9. ASSUME NEW r \in Resolves, ResolveFails(r) PROVE ResolverInv'
  BY <1>9, LookupMoves DEF ResolveFails, Step
<1>10. ASSUME NEW r \in Resolves, CommitRow(r) PROVE ResolverInv'
  <2> DEFINE ref == resolve[r].ref
  <2> DEFINE row == [resolve[r] EXCEPT !.pc = "answered", !.answer = r]
  <2>1. /\ resolve[r].pc = "commit" /\ rows' = [rows EXCEPT ![ref] = r]
        /\ UNCHANGED <<sinkTokens, sinkPools>> /\ resolve' = [resolve EXCEPT ![r] = row]
    BY <1>0, <1>10 DEF CommitRow
  <2>2. resolve[r].kind # "id" /\ ref \in Tokens /\ rows[ref] = NoRow /\ rows \in [Tokens -> Resolves \union {NoRow}]
    BY <1>0, <2>1 DEF CallSound, ResolverInv, OneInserter, ResolverTypeOK
  <2>3. /\ row \in Lookup /\ row.pc = "answered" /\ row.kind = resolve[r].kind /\ row.ref = ref
        /\ row.answer = r /\ row.known = resolve[r].known
    BY <1>0 DEF Lookup
  <2> HIDE DEF row
  <2>4. /\ resolve' \in [Resolves -> Lookup] /\ resolve'[r] = row
        /\ \A q \in Resolves \ {r} : resolve'[q] = resolve[q]
    BY <1>0, <2>1, <2>3
  <2>5. /\ rows' \in [Tokens -> Resolves \union {NoRow}] /\ rows'[ref] = r
        /\ \A t \in Tokens \ {ref} : rows'[t] = rows[t]
    BY <2>1, <2>2
  <2>6. TablesGrow
    BY <2>1, <2>2, <2>5 DEF TablesGrow
  <2>7. CallSound(resolve[r])'
    <3>1. (resolve[r].known => Known(resolve[r].kind, ref))'
      BY <1>0, <2>1, <2>2, <2>3, <2>4, <2>5 DEF CallSound, Known
    <3> QED BY <2>2, <2>3, <2>4, <2>5, <3>1 DEF CallSound
  <2>8. \A q \in Resolves : CallSound(resolve[q])'
    BY <1>0, <2>4, <2>6, <2>7, SoundStable
  <2>9. ResolverTypeOK'
    <3>1. \A q \in Resolves : resolve'[q].kind # "id" => resolve'[q].ref \in Tokens
      BY <2>8 DEF CallSound
    <3> QED BY <2>1, <2>4, <2>5, <3>1 DEF ResolverInv, ResolverTypeOK
  <2>10. OneInserter'
    <3>1. \A q \in Resolves \ {r} : resolve[q].pc = "commit" => resolve[q].ref \in Tokens \ {ref}
      BY <1>0, <2>1 DEF ResolverInv, OneInserter, CallSound
    <3> QED BY <2>3, <2>4, <2>5, <3>1 DEF ResolverInv, OneInserter
  <2> QED BY <2>8, <2>9, <2>10 DEF ResolverInv
<1>11. ASSUME NEW t \in Tokens, IndexToken(t) \/ IndexPool(t) PROVE ResolverInv'
  <2>1. /\ rows' = rows /\ resolve' = resolve /\ sinkTokens \subseteq sinkTokens' /\ sinkPools \subseteq sinkPools'
        /\ sinkTokens' \in SUBSET Tokens /\ sinkPools' \in SUBSET Tokens
    BY <1>11 DEF IndexToken, IndexPool, ResolverInv, ResolverTypeOK
  <2>2. \A q \in Resolves : CallSound(resolve[q])'
    BY <1>0, <2>1, SoundStable DEF TablesGrow
  <2>3. ResolverTypeOK' /\ OneInserter'
    BY <2>1 DEF ResolverInv, ResolverTypeOK, OneInserter
  <2> QED BY <2>2, <2>3 DEF ResolverInv
<1> QED BY <1>1, <1>3, <1>4, <1>5, <1>6, <1>7, <1>8, <1>9, <1>10, <1>11 DEF ResolverNext

\* The invariant of the resolver implies what it promises.
LEMMA ResolverPromise == ResolverInv => ResolversAgree
BY DEF ResolverInv, CallSound, ResolversAgree

-----------------------------------------------------------------------------
(* The chain reads in memory.                                              *)

\* A request that has a computation of its own under way.
Calling(a) == ask[a].pc \in {"call", "read"}

\* A computation ends within its timeout, and the node looked in between.
CallsTimely ==
  \A a \in Asks :
    /\ Calling(a) => ask[a].since <= now /\ now <= ask[a].since + CallTicks
    /\ ask[a].pc = "read" => ask[a].seen \in Nat /\ ask[a].since <= ask[a].seen /\ ask[a].seen <= now

\* An entry was read before now, and is served no longer than one TTL after the call.
EntriesTimely ==
  \A k \in LiveKeys : live[k] # NoValue =>
    live[k].value <= now /\ live[k].expires <= live[k].value + CallTicks + Ttl

\* A promise is there exactly while its one computation is, and whoever waits has one.
PromisesKept ==
  /\ \A k \in QuoteKeys : k \in inFlight <=> \E a \in Asks : Calling(a) /\ ask[a].key = k
  /\ \A a, b \in Asks : Calling(a) /\ Calling(b) /\ ask[a].key = ask[b].key /\ ask[a].key \in QuoteKeys => a = b
  /\ \A a \in Asks : ask[a].pc = "wait" => ask[a].key \in inFlight

\* What was read for a quote is not older than the entry it will replace.
NeverBack ==
  \A a \in Asks : ask[a].pc = "read" /\ ask[a].key \in QuoteKeys /\ live[ask[a].key] # NoValue =>
    ask[a].seen >= live[ask[a].key].value

LiveInv == LiveTypeOK /\ CallsTimely /\ EntriesTimely /\ PromisesKept /\ NeverBack /\ ReadsFresh

\* The locals of a request that has ended.
LEMMA EndedTyped ==
  ASSUME NEW age \in Nat
  PROVE  /\ Ended(age) \in AskState /\ Ended(age).pc = "idle" /\ Ended(age).age = age
         /\ Ended(age).key \in LiveKeys /\ Ended(age).since = 0 /\ Ended(age).seen = NoValue
<1>1. AnyKey \in LiveKeys
  BY LiveAssumption DEF AnyKey, LiveKeys
<1> QED BY <1>1 DEF Ended, AskState

\* The initial state of the chain reads.
LEMMA LiveInitHolds == LiveInit => LiveInv
<1> SUFFICES ASSUME LiveInit PROVE LiveInv
  OBVIOUS
<1> USE LiveAssumption
<1>1. /\ ask = [a \in Asks |-> Ended(0)] /\ now = 0 /\ inFlight = {}
      /\ live = [k \in LiveKeys |-> NoValue]
  BY DEF LiveInit
<1>2. \A a \in Asks : ask[a] \in AskState /\ ask[a].pc = "idle" /\ ask[a].age = 0
  BY <1>1, EndedTyped
<1>3. LiveTypeOK
  BY <1>1, <1>2 DEF LiveTypeOK
<1>4. CallsTimely /\ EntriesTimely /\ PromisesKept /\ NeverBack /\ ReadsFresh
  BY <1>1, <1>2 DEF CallsTimely, EntriesTimely, PromisesKept, NeverBack, ReadsFresh, Calling
<1> QED BY <1>3, <1>4 DEF LiveInv

\* A step of a request that makes no entry and does not end a computation.
LEMMA AskStepHolds ==
  ASSUME LiveInv, NEW a \in Asks,
         ask' \in [Asks -> AskState], \A b \in Asks \ {a} : ask'[b] = ask[b],
         UNCHANGED <<now, live>>,
         ask'[a].age < Ttl + CallTicks,
         ask'[a].pc = "read" => ask'[a].seen = now,
         \/ ask[a].pc = "idle" /\ ask'[a].pc = "idle" /\ inFlight' = inFlight
         \/ ask[a].pc = "idle" /\ ask'[a].pc = "wait" /\ ask'[a].key \in inFlight /\ inFlight' = inFlight
         \/ /\ ask[a].pc = "idle" /\ ask'[a].pc = "call" /\ ask'[a].since = now
            /\ ask'[a].key \notin inFlight
            /\ inFlight' = inFlight \union ({ask'[a].key} \intersect QuoteKeys)
         \/ /\ ask[a].pc = "call" /\ ask'[a].pc = "read" /\ inFlight' = inFlight
            /\ ask'[a].key = ask[a].key /\ ask'[a].since = ask[a].since
  PROVE  LiveInv'
<1> USE LiveAssumption DEF LiveInv
<1>1. now \in Nat /\ ask \in [Asks -> AskState] /\ \A b \in Asks : ask[b].key \in LiveKeys /\ ask[b].since \in Nat
  BY DEF LiveTypeOK, AskState
<1>2. LiveTypeOK'
  BY DEF LiveTypeOK
<1>3. CallsTimely'
  BY <1>1 DEF CallsTimely, Calling
<1>4. EntriesTimely' /\ ReadsFresh'
  BY DEF EntriesTimely, ReadsFresh
<1>5. PromisesKept'
  <2>1. \A k \in QuoteKeys : k \in inFlight' <=> \E b \in Asks : Calling(b)' /\ ask'[b].key = k
    BY DEF PromisesKept, Calling
  <2>2. \A b, c \in Asks : Calling(b)' /\ Calling(c)' /\ ask'[b].key = ask'[c].key /\ ask'[b].key \in QuoteKeys => b = c
    BY DEF PromisesKept, Calling
  <2>3. \A b \in Asks : ask'[b].pc = "wait" => ask'[b].key \in inFlight'
    BY DEF PromisesKept
  <2> QED BY <2>1, <2>2, <2>3 DEF PromisesKept
<1>6. NeverBack'
  <2>1. ask'[a].key \in LiveKeys
    BY DEF AskState
  <2>2. live[ask'[a].key] # NoValue => live[ask'[a].key].value \in Nat /\ live[ask'[a].key].value <= now
    BY <2>1 DEF LiveTypeOK, EntriesTimely
  <2> QED BY <1>1, <2>2 DEF NeverBack
<1> QED BY <1>2, <1>3, <1>4, <1>5, <1>6

\* The end of a computation, with or without an entry.
LEMMA CallEndHolds ==
  ASSUME LiveInv, NEW a \in Asks, Calling(a), NEW age \in Nat, EndAll(a, age), age < Ttl + CallTicks,
         inFlight' = inFlight \ {ask[a].key}, now' = now,
         \/ live' = live
         \/ /\ ask[a].pc = "read"
            /\ live' = [live EXCEPT ![ask[a].key] = [value |-> ask[a].seen, expires |-> now + Ttl]]
  PROVE  LiveInv'
<1> USE LiveAssumption DEF LiveInv
<1> DEFINE k == ask[a].key
<1>1. now \in 0..MaxNow /\ now \in Nat /\ ask \in [Asks -> AskState] /\ k \in LiveKeys /\ ask[a].since \in Nat
  BY DEF LiveTypeOK, AskState
<1>2. \A b \in Asks : \/ /\ b = a \/ (ask[b].pc = "wait" /\ ask[b].key = k)
                         /\ ask'[b] = Ended(age)
                      \/ /\ b # a /\ ~(ask[b].pc = "wait" /\ ask[b].key = k)
                         /\ ask'[b] = ask[b]
  BY DEF EndAll
<1>3. /\ ask' \in [Asks -> AskState]
      /\ \A b \in Asks : ask'[b] = ask[b] \/ (ask'[b].pc = "idle" /\ ask'[b].age = age)
      /\ ask'[a].pc = "idle"
      /\ \A b \in Asks : ask'[b].pc = "wait" => ask'[b] = ask[b] /\ ask[b].key # k
      /\ \A b \in Asks \ {a} : ask[b].pc # "wait" => ask'[b] = ask[b]
  <2>1. /\ Ended(age) \in AskState /\ Ended(age).pc = "idle" /\ Ended(age).age = age
    BY EndedTyped
  <2>2. \A b \in Asks : ask'[b] \in AskState
    BY <1>1, <1>2, <2>1
  <2>3. ask' = [b \in Asks |-> ask'[b]]
    BY DEF EndAll
  <2>4. ask' \in [Asks -> AskState]
    BY <2>2, <2>3
  <2> QED BY <1>2, <2>1, <2>4
<1>4. /\ live' \in [LiveKeys -> [value : Nat, expires : Nat] \union {NoValue}]
      /\ \A j \in LiveKeys \ {k} : live'[j] = live[j]
      /\ \/ live'[k] = live[k]
         \/ ask[a].pc = "read" /\ live'[k] = [value |-> ask[a].seen, expires |-> now + Ttl]
  <2>1. live \in [LiveKeys -> [value : Nat, expires : Nat] \union {NoValue}]
    BY DEF LiveTypeOK
  <2>2. CASE live' = live
    BY <2>1, <2>2
  <2>3. CASE /\ ask[a].pc = "read"
             /\ live' = [live EXCEPT ![k] = [value |-> ask[a].seen, expires |-> now + Ttl]]
    <3>1. [value |-> ask[a].seen, expires |-> now + Ttl] \in [value : Nat, expires : Nat]
      BY <1>1, <2>3 DEF CallsTimely
    <3> QED BY <1>1, <2>1, <2>3, <3>1
  <2> QED BY <2>2, <2>3
<1>5. LiveTypeOK'
  BY <1>1, <1>3, <1>4 DEF LiveTypeOK
<1>6. CallsTimely' /\ ReadsFresh'
  BY <1>3 DEF CallsTimely, ReadsFresh, Calling
<1>7. EntriesTimely'
  <2>1. ask[a].pc = "read" => /\ ask[a].seen \in Nat /\ ask[a].seen <= now
                              /\ now + Ttl <= ask[a].seen + CallTicks + Ttl
    BY <1>1 DEF CallsTimely, Calling
  <2> QED BY <1>1, <1>4, <2>1 DEF EntriesTimely
<1>8. PromisesKept'
  <2>1. ASSUME NEW j \in QuoteKeys PROVE j \in inFlight' <=> \E b \in Asks : Calling(b)' /\ ask'[b].key = j
    <3>1. CASE j = k
      <4>1. \A b \in Asks \ {a} : Calling(b) => ask[b].key # k
        BY <2>1, <3>1 DEF PromisesKept
      <4> QED BY <1>3, <3>1, <4>1 DEF Calling
    <3>2. CASE j # k
      <4>1. \A b \in Asks : Calling(b) /\ ask[b].key = j => Calling(b)' /\ ask'[b].key = j
        BY <1>3, <3>2 DEF Calling
      <4>2. \A b \in Asks : Calling(b)' /\ ask'[b].key = j => Calling(b) /\ ask[b].key = j
        BY <1>3 DEF Calling
      <4> QED BY <3>2, <4>1, <4>2 DEF PromisesKept
    <3> QED BY <3>1, <3>2
  <2>2. \A b, c \in Asks : Calling(b)' /\ Calling(c)' /\ ask'[b].key = ask'[c].key /\ ask'[b].key \in QuoteKeys => b = c
    BY <1>3 DEF PromisesKept, Calling
  <2>3. \A b \in Asks : ask'[b].pc = "wait" => ask'[b].key \in inFlight'
    BY <1>3 DEF PromisesKept
  <2> QED BY <2>1, <2>2, <2>3 DEF PromisesKept
<1>9. NeverBack'
  <2> SUFFICES ASSUME NEW b \in Asks, ask'[b].pc = "read", ask'[b].key \in QuoteKeys, live'[ask'[b].key] # NoValue
               PROVE  ask'[b].seen >= live'[ask'[b].key].value
    BY DEF NeverBack
  <2>1. ask'[b] = ask[b] /\ b # a
    BY <1>3
  <2>2. ask[b].key # k
    BY <2>1 DEF PromisesKept, Calling
  <2>3. live'[ask[b].key] = live[ask[b].key]
    BY <1>1, <1>4, <2>2 DEF AskState
  <2> QED BY <2>1, <2>3 DEF NeverBack
<1> QED BY <1>5, <1>6, <1>7, <1>8, <1>9

\* Every step of the chain reads.
LEMMA LiveStepHolds == ASSUME LiveInv, LiveNext PROVE LiveInv'
<1> USE LiveAssumption
<1>0. ask \in [Asks -> AskState] /\ now \in Nat /\ now \in 0..MaxNow /\ inFlight \subseteq QuoteKeys
  BY DEF LiveInv, LiveTypeOK
<1>1. ASSUME NEW a \in Asks, NEW k \in LiveKeys, AskHit(a, k) PROVE LiveInv'
  <2> DEFINE age == now - live[k].value
  <2>1. /\ ask[a].pc = "idle" /\ Served(k) /\ UNCHANGED <<now, live, inFlight>>
        /\ ask' = [ask EXCEPT ![a] = Ended(age)]
    BY <1>1 DEF AskHit
  <2>2. live[k].value \in Nat /\ live[k].expires \in Nat /\ live[k].value <= now /\ now < live[k].value + CallTicks + Ttl
    <3>1. live[k] \in [value : Nat, expires : Nat] /\ live[k].expires > now
      BY <2>1 DEF Served, LiveInv, LiveTypeOK
    <3>2. live[k].value <= now /\ live[k].expires <= live[k].value + CallTicks + Ttl
      BY <2>1 DEF Served, LiveInv, EntriesTimely
    <3> QED BY <1>0, <3>1, <3>2
  <2>3. age \in Nat /\ age < Ttl + CallTicks
    BY <1>0, <2>2
  <2> HIDE DEF age
  <2>4. Ended(age) \in AskState /\ Ended(age).pc = "idle" /\ Ended(age).age = age
    BY <2>3, EndedTyped
  <2>5. /\ ask' \in [Asks -> AskState] /\ ask'[a].pc = "idle" /\ ask'[a].age = age
        /\ \A b \in Asks \ {a} : ask'[b] = ask[b]
    BY <1>0, <2>1, <2>4
  <2> QED BY <2>1, <2>3, <2>5, AskStepHolds
<1>2. ASSUME NEW a \in Asks, NEW k \in LiveKeys, AskJoins(a, k) PROVE LiveInv'
  <2> DEFINE row == [Ended(0) EXCEPT !.pc = "wait", !.key = k]
  <2>1. /\ ask[a].pc = "idle" /\ k \in inFlight /\ UNCHANGED <<now, live, inFlight>>
        /\ ask' = [ask EXCEPT ![a] = row]
    BY <1>2 DEF AskJoins
  <2>2. row \in AskState /\ row.pc = "wait" /\ row.key = k /\ row.age = 0
    <3>1. Ended(0) \in AskState /\ Ended(0).age = 0
      BY EndedTyped
    <3> QED BY <3>1 DEF AskState
  <2> HIDE DEF row
  <2>3. /\ ask' \in [Asks -> AskState] /\ ask'[a] = row /\ \A b \in Asks \ {a} : ask'[b] = ask[b]
    BY <1>0, <2>1, <2>2
  <2> QED BY <2>1, <2>2, <2>3, AskStepHolds
<1>3. ASSUME NEW a \in Asks, NEW k \in LiveKeys, AskCalls(a, k) PROVE LiveInv'
  <2> DEFINE row == [Ended(0) EXCEPT !.pc = "call", !.key = k, !.since = now]
  <2>1. /\ ask[a].pc = "idle" /\ k \notin inFlight /\ UNCHANGED <<now, live>>
        /\ inFlight' = inFlight \union ({k} \intersect QuoteKeys)
        /\ ask' = [ask EXCEPT ![a] = row]
    BY <1>3 DEF AskCalls
  <2>2. row \in AskState /\ row.pc = "call" /\ row.key = k /\ row.age = 0 /\ row.since = now
    <3>1. Ended(0) \in AskState /\ Ended(0).age = 0
      BY EndedTyped
    <3> QED BY <1>0, <3>1 DEF AskState
  <2> HIDE DEF row
  <2>3. /\ ask' \in [Asks -> AskState] /\ ask'[a] = row /\ \A b \in Asks \ {a} : ask'[b] = ask[b]
    BY <1>0, <2>1, <2>2
  <2> QED BY <2>1, <2>2, <2>3, AskStepHolds
<1>4. ASSUME NEW a \in Asks, NodeReads(a) PROVE LiveInv'
  <2> DEFINE row == [ask[a] EXCEPT !.pc = "read", !.seen = now]
  <2>1. /\ ask[a].pc = "call" /\ UNCHANGED <<now, live, inFlight>> /\ ask' = [ask EXCEPT ![a] = row]
    BY <1>0, <1>4 DEF NodeReads
  <2>2. /\ row \in AskState /\ row.pc = "read" /\ row.key = ask[a].key /\ row.age = ask[a].age
        /\ row.since = ask[a].since /\ row.seen = now
    BY <1>0 DEF AskState
  <2>3. ask[a].age < Ttl + CallTicks
    BY DEF LiveInv, ReadsFresh
  <2> HIDE DEF row
  <2>4. /\ ask' \in [Asks -> AskState] /\ ask'[a] = row /\ \A b \in Asks \ {a} : ask'[b] = ask[b]
    BY <1>0, <2>1, <2>2
  <2> QED BY <2>1, <2>2, <2>3, <2>4, AskStepHolds
<1>5. ASSUME NEW a \in Asks, CallReturns(a) PROVE LiveInv'
  <2>1. /\ ask[a].seen \in Nat /\ ask[a].seen <= now /\ now <= ask[a].seen + CallTicks /\ Calling(a)
    BY <1>0, <1>5 DEF CallReturns, LiveInv, CallsTimely, Calling, AskState
  <2>2. now - ask[a].seen \in Nat /\ now - ask[a].seen < Ttl + CallTicks
    BY <1>0, <2>1
  <2> QED BY <1>5, <2>1, <2>2, CallEndHolds DEF CallReturns
<1>6. ASSUME NEW a \in Asks, CallFails(a) PROVE LiveInv'
  BY <1>6, CallEndHolds DEF CallFails, Calling
<1>7. ASSUME LiveTick PROVE LiveInv'
  <2> USE DEF LiveInv
  <2>1. /\ now < MaxNow /\ now' = now + 1 /\ UNCHANGED <<live, inFlight, ask>>
        /\ \A a \in Asks : Calling(a) => now < ask[a].since + CallTicks
    BY <1>0, <1>7 DEF LiveTick, Computing, Calling, AskState
  <2>2. \A a \in Asks : ask[a].since \in Nat
    BY <1>0 DEF AskState
  <2>3. CallsTimely'
    BY <1>0, <2>1, <2>2 DEF CallsTimely, Calling
  <2>4. EntriesTimely'
    <3> SUFFICES ASSUME NEW k \in LiveKeys, live[k] # NoValue
                 PROVE  live[k].value <= now + 1 /\ live[k].expires <= live[k].value + CallTicks + Ttl
      BY <2>1 DEF EntriesTimely
    <3>1. live[k] \in [value : Nat, expires : Nat]
      BY DEF LiveTypeOK
    <3>2. live[k].value <= now /\ live[k].expires <= live[k].value + CallTicks + Ttl
      BY DEF EntriesTimely
    <3> QED BY <1>0, <3>1, <3>2
  <2>5. PromisesKept' /\ NeverBack' /\ ReadsFresh' /\ LiveTypeOK'
    BY <1>0, <2>1 DEF PromisesKept, Calling, NeverBack, ReadsFresh, LiveTypeOK
  <2> QED BY <2>3, <2>4, <2>5
<1> QED BY <1>1, <1>2, <1>3, <1>4, <1>5, <1>6, <1>7 DEF LiveNext

\* The invariant of the chain reads implies what they promise.
LEMMA LivePromise == LiveInv => ReadsFresh /\ QuotesShared
<1> SUFFICES ASSUME LiveInv, NEW k \in QuoteKeys
             PROVE  /\ Cardinality(Computing(k)) = IF k \in inFlight THEN 1 ELSE 0
                    /\ (\E a \in Asks : ask[a].pc = "wait" /\ ask[a].key = k) => k \in inFlight
                    /\ live[k] # NoValue => \A a \in Computing(k) : ask[a].pc = "read" => ask[a].seen >= live[k].value
  BY DEF LiveInv, QuotesShared
<1>1. CASE k \in inFlight
  <2>1. PICK a \in Asks : Calling(a) /\ ask[a].key = k
    BY <1>1 DEF LiveInv, PromisesKept
  <2>2. Computing(k) = {a}
    BY <2>1 DEF LiveInv, PromisesKept, Computing, Calling
  <2> QED BY <1>1, <2>2, FS_Singleton DEF LiveInv, NeverBack, Computing
<1>2. CASE k \notin inFlight
  <2>1. Computing(k) = {}
    BY <1>2 DEF LiveInv, PromisesKept, Computing, Calling
  <2> QED BY <1>2, <2>1, FS_EmptySet DEF LiveInv, PromisesKept
<1> QED BY <1>1, <1>2

-----------------------------------------------------------------------------
(* The services together.                                                  *)

ApiInv == AuthInv /\ ResolverInv /\ CachesInv /\ LiveInv

\* Steps of the other services.
LEMMA AuthStutterHolds == ASSUME AuthInv, UNCHANGED authVars PROVE AuthInv'
BY DEF authVars, AuthInv, AuthTypeOK, FoundOwn, DeletedGone, AfterEnded, SessionsSigned, Took, Found

LEMMA ResolverStutterHolds == ASSUME ResolverInv, UNCHANGED resolverVars PROVE ResolverInv'
<1>1. \A r \in Resolves : CallSound(resolve[r])'
  BY SoundStable DEF resolverVars, ResolverInv, TablesGrow
<1>2. ResolverTypeOK' /\ OneInserter'
  BY DEF resolverVars, ResolverInv, ResolverTypeOK, OneInserter
<1> QED BY <1>1, <1>2 DEF ResolverInv

LEMMA LiveStutterHolds == ASSUME LiveInv, UNCHANGED liveVars PROVE LiveInv'
BY DEF liveVars, LiveInv, LiveTypeOK, CallsTimely, EntriesTimely, PromisesKept, NeverBack, ReadsFresh, Calling

\* Every step of the API preserves the four invariants.
LEMMA ApiStepHolds == ApiInv /\ [Next]_vars => ApiInv'
<1> SUFFICES ASSUME ApiInv, [Next]_vars PROVE ApiInv'
  OBVIOUS
<1>1. AuthInv /\ ResolverInv /\ CachesInv /\ LiveInv
  BY DEF ApiInv
<1>2. AuthNext \/ UNCHANGED authVars
  BY DEF Next, vars
<1>3. ResolverNext \/ UNCHANGED resolverVars
  BY DEF Next, vars
<1>4. CachesNext \/ UNCHANGED cacheVars
  BY DEF Next, vars
<1>5. LiveNext \/ UNCHANGED liveVars
  BY DEF Next, vars
<1>6. AuthInv' /\ ResolverInv'
  BY <1>1, <1>2, <1>3, AuthStepHolds, AuthStutterHolds, ResolverStepHolds, ResolverStutterHolds
<1>7. CachesInv' /\ LiveInv'
  BY <1>1, <1>4, <1>5, CachesStepHolds, CachesStutterHolds, LiveStepHolds, LiveStutterHolds
<1> QED BY <1>6, <1>7 DEF ApiInv

\* The four invariants hold in every reachable state.
THEOREM ApiInvariant == Spec => []ApiInv
<1>1. Init => ApiInv
  BY AuthInitHolds, ResolverInitHolds, CachesInitHolds, LiveInitHolds DEF Init, ApiInv
<1> QED BY <1>1, ApiStepHolds, PTL DEF Spec

\* The state of every service keeps its type.
THEOREM ApiTypeCorrect == Spec => []TypeOK
<1>1. ApiInv => TypeOK
  BY DEF ApiInv, AuthInv, ResolverInv, CachesInv, LiveInv, TypeOK
<1> QED BY <1>1, ApiInvariant, PTL

\* verify of wallet-auth.service.ts: a session is the signer's and the nonce's owner's, and
\* a nonce that a finished call has deleted opens no further session.
THEOREM NonceSpent == Spec => []NoncesSpent
<1>1. ApiInv => NoncesSpent
  BY AuthPromise DEF ApiInv
<1> QED BY <1>1, ApiInvariant, PTL

\* resolve of comment-token-resolver.ts: racing calls for one token agree on one row, a
\* loser fails only beside a committed winner, and what could be resolved is found.
THEOREM OneRowPerToken == Spec => []ResolversAgree
<1>1. ApiInv => ResolversAgree
  BY ResolverPromise DEF ApiInv
<1> QED BY <1>1, ApiInvariant, PTL

\* The entries in Redis of profiles, likes and featured tokens: outdated ones have a reason.
THEOREM OutdatedEntriesExplained == Spec => []StaleEntriesExplained
<1>1. ApiInv => StaleEntriesExplained
  BY DEF ApiInv, CachesInv
<1> QED BY <1>1, ApiInvariant, PTL

\* The chain reads in memory: no answer is older than one TTL and one call, for any TTL and
\* timeout.
THEOREM AnswersFresh == Spec => []ReadsFresh
<1>1. ApiInv => ReadsFresh
  BY DEF ApiInv, LiveInv
<1> QED BY <1>1, ApiInvariant, PTL

\* cachedQuote: one computation per key, nobody waits for one that ended, and what is under
\* way is not older than what is cached.
THEOREM QuoteShared == Spec => []QuotesShared
<1>1. ApiInv => QuotesShared
  BY LivePromise DEF ApiInv
<1> QED BY <1>1, ApiInvariant, PTL
================================================================================
