---------------------------- MODULE TokenResolver ----------------------------
(***************************************************************************)
(* How a comment finds its token (comment-token-resolver.ts): by row id,   *)
(* by address or by pool id.  A token that only the indexer knows gets a   *)
(* row of its own.  Each call is one interactive transaction at read       *)
(* committed, made by create and list (comments.service.ts).               *)
(*                                                                         *)
(* PostgreSQL, from how the code uses it: a query sees the latest commit;  *)
(* an insert of a key that another open transaction has inserted waits for *)
(* that transaction; after a unique violation every further statement of   *)
(* the transaction fails.  A row's id is the call that made it.            *)
(***************************************************************************)
CONSTANTS
  Tokens,     \* token addresses; a token has at most one pool
  Resolves,   \* calls of resolve
  NoRow       \* marks a token without a row

ASSUME ResolverAssumption == NoRow \notin Resolves

VARIABLES
  rows,       \* rows[t]: id of the row of t in backend.tokens
  sinkTokens, sinkPools,   \* tokens in public.tokens and with a pool in public.pools
  resolve     \* resolve[r]: the locals of a call

resolverVars == <<rows, sinkTokens, sinkPools, resolve>>

\* ref is an id for kind "id" and a token otherwise.  known is a history: the call could
\* be answered when it began.
Lookup == [pc : {"idle", "byId", "pool", "find", "sink", "insert", "commit", "reread",
                 "answered", "notFound", "raced", "failed"},
           kind : {"id", "address", "pool"}, ref : Tokens \union Resolves,
           answer : Resolves \union {NoRow}, known : BOOLEAN]

ResolverInit ==
  /\ rows = [t \in Tokens |-> NoRow]
  /\ sinkTokens = {} /\ sinkPools = {}
  /\ resolve = [r \in Resolves |->
                  [pc |-> "idle", kind |-> "id", ref |-> r, answer |-> NoRow, known |-> FALSE]]

\* Only the locals of r change.
Step(r, next) == resolve' = [resolve EXCEPT ![r] = next] /\ UNCHANGED <<rows, sinkTokens, sinkPools>>

\* A row for this reference exists, or the indexer's tables lead to its token.
Known(kind, ref) ==
  \/ kind = "id" /\ \E t \in Tokens : rows[t] = ref
  \/ kind = "address" /\ (rows[ref] # NoRow \/ ref \in sinkTokens)
  \/ kind = "pool" /\ ref \in sinkPools /\ (rows[ref] # NoRow \/ ref \in sinkTokens)

First(kind) == CASE kind = "id" -> "byId" [] kind = "address" -> "find" [] OTHER -> "pool"

Resolve(r, kind, ref) ==
  /\ resolve[r].pc = "idle"
  /\ ref \in IF kind = "id" THEN Resolves ELSE Tokens
  /\ Step(r, [pc |-> First(kind), kind |-> kind, ref |-> ref, answer |-> NoRow, known |-> Known(kind, ref)])

\* A reference that looks like a uuid is never provisioned.
ResolveById(r) ==
  /\ resolve[r].pc = "byId"
  /\ Step(r, IF \E t \in Tokens : rows[t] = resolve[r].ref
             THEN [resolve[r] EXCEPT !.pc = "answered", !.answer = resolve[r].ref]
             ELSE [resolve[r] EXCEPT !.pc = "notFound"])

\* A pool id leads to its token in public.pools.
ResolvePool(r) ==
  /\ resolve[r].pc = "pool"
  /\ Step(r, [resolve[r] EXCEPT !.pc = IF resolve[r].ref \in sinkPools THEN "find" ELSE "notFound"])

FindToken(r) ==
  /\ resolve[r].pc = "find"
  /\ LET row == rows[resolve[r].ref]
     IN Step(r, IF row # NoRow THEN [resolve[r] EXCEPT !.pc = "answered", !.answer = row]
                               ELSE [resolve[r] EXCEPT !.pc = "sink"])

\* provisionFromSink reads the indexer's row; without one the token is not found.
ReadSink(r) ==
  /\ resolve[r].pc = "sink"
  /\ Step(r, [resolve[r] EXCEPT !.pc = IF resolve[r].ref \in sinkTokens THEN "insert" ELSE "notFound"])

\* Open transactions that have inserted a row for t.
Inserting(t) == {q \in Resolves : resolve[q].pc = "commit" /\ resolve[q].ref = t}

\* Mutant: no unique index on chain and token.
InsertAnyway(r) ==
  /\ resolve[r].pc = "insert"
  /\ Step(r, [resolve[r] EXCEPT !.pc = "commit"])

\* token.create: waits for a transaction that inserted the same token, and fails when
\* it committed.
Insert(r) ==
  /\ resolve[r].pc = "insert"
  /\ Inserting(resolve[r].ref) = {}
  /\ Step(r, [resolve[r] EXCEPT !.pc = IF rows[resolve[r].ref] = NoRow THEN "commit" ELSE "reread"])

\* Mutant: the loser answers that there is no such token.
RereadNothing(r) ==
  /\ resolve[r].pc = "reread"
  /\ Step(r, [resolve[r] EXCEPT !.pc = "notFound"])

\* The catch reads the winner's row in the transaction that the violation has aborted:
\* the query fails, and so does the request.
Reread(r) ==
  /\ resolve[r].pc = "reread"
  /\ Step(r, [resolve[r] EXCEPT !.pc = "raced"])

CommitRow(r) ==
  /\ resolve[r].pc = "commit"
  /\ rows' = [rows EXCEPT ![resolve[r].ref] = r]
  /\ resolve' = [resolve EXCEPT ![r].pc = "answered", ![r].answer = r]
  /\ UNCHANGED <<sinkTokens, sinkPools>>

\* The transaction times out, or the database or the process goes away; what it had
\* inserted is rolled back.
ResolveFails(r) ==
  /\ resolve[r].pc \in {"byId", "pool", "find", "sink", "insert", "reread", "commit"}
  /\ Step(r, [resolve[r] EXCEPT !.pc = "failed"])

\* The indexer writes a token and, later or never, its pool.
IndexToken(t) ==
  /\ t \notin sinkTokens
  /\ sinkTokens' = sinkTokens \union {t}
  /\ UNCHANGED <<rows, sinkPools, resolve>>

IndexPool(t) ==
  /\ t \in sinkTokens \ sinkPools
  /\ sinkPools' = sinkPools \union {t}
  /\ UNCHANGED <<rows, sinkTokens, resolve>>

ResolverNext ==
  \/ \E r \in Resolves :
       \/ \E kind \in {"id", "address", "pool"}, ref \in Tokens \union Resolves : Resolve(r, kind, ref)
       \/ ResolveById(r) \/ ResolvePool(r) \/ FindToken(r) \/ ReadSink(r)
       \/ Insert(r) \/ Reread(r) \/ CommitRow(r) \/ ResolveFails(r)
  \/ \E t \in Tokens : IndexToken(t) \/ IndexPool(t)

ResolverSpec == ResolverInit /\ [][ResolverNext]_resolverVars

-----------------------------------------------------------------------------

ResolverTypeOK ==
  /\ rows \in [Tokens -> Resolves \union {NoRow}]
  /\ sinkTokens \in SUBSET Tokens /\ sinkPools \in SUBSET Tokens
  /\ resolve \in [Resolves -> Lookup]
  /\ \A r \in Resolves : resolve[r].kind # "id" => resolve[r].ref \in Tokens

\* All calls for one token are answered with one and the same row, which stays.  The
\* loser of a race fails only when the winner's row is committed, so that a retry finds
\* it.  A reference that could be resolved when the call began is never not found.
ResolversAgree ==
  \A r \in Resolves :
    LET c == resolve[r]
    IN /\ c.pc = "answered" =>
            IF c.kind = "id" THEN c.answer = c.ref /\ \E t \in Tokens : rows[t] = c.ref
                             ELSE rows[c.ref] = c.answer
       /\ c.pc = "raced" => rows[c.ref] # NoRow
       /\ c.pc = "notFound" => ~c.known
=============================================================================
