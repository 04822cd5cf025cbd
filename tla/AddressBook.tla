----------------------------- MODULE AddressBook -----------------------------
(***************************************************************************)
(* Where contract addresses come from (address-book.ts): environment       *)
(* variables over the deployment manifest over well-known deployments.     *)
(* manifest:sync (scripts/manifest-sync.ts) stores the resolved book of a  *)
(* chain as its manifest; the registry (blockchain-registry.service.ts)    *)
(* builds its books from the stored manifests.                             *)
(*                                                                         *)
(* Fields stand for the ones treated alike: hook and controller for the    *)
(* five protocol contracts, poolManager for multicall3 too, stateView for  *)
(* v4Quoter, payoutPlan for hookSalt.  An address is a string.             *)
(***************************************************************************)

Absent == ""         \* undefined, or an empty variable
Null == "null"
Malformed == "0x"    \* what the schema does not accept
BookError == [out |-> "AddressBookError"]
NotFound == [out |-> "MANIFEST_NOT_SYNCED"]

Required == {"hook", "controller"}
Infra == {"poolManager", "stateView"}
Nullable == {"stateView", "buybackAndBurnPlugin", "buybackPlugin", "payoutPlan"}

\* a ?? b.
Or(a, b) == IF a \in {Absent, Null} THEN b ELSE a

\* readEnvOverrides and readInfraOverrides throw for a variable that is no address.
EnvError(env) == \E f \in Required \union Infra : env[f] = Malformed

\* deploymentManifestSchema: the protocol contracts must be there even where a variable
\* overrides them; poolManager may be missing but not null.
ValidManifest(doc) ==
  /\ \A f \in Required : doc[f] \notin {Absent, Null}
  /\ doc.poolManager # Null
  /\ \A f \in Required \union Nullable \union {"poolManager"} : doc[f] # Malformed

DocFields == Required \union Nullable \union {"poolManager", "chainId"}

NoManifest(chain) == [f \in DocFields |-> IF f = "chainId" THEN chain ELSE Absent]

\* KNOWN_ADDRESSES has a chain's infrastructure that must be there, and nothing else.
Known(f, known) == IF f = "poolManager" THEN known ELSE Absent

\* Mutant: the manifest wins over the environment.
ResolveManifestFirst(env, doc, known) ==
  [f \in Required \union Infra |-> Or(Or(doc[f], env[f]), Known(f, known))]

\* The precedence; known is the chain's entry of KNOWN_ADDRESSES.
Resolve(env, doc, known) ==
  [f \in Required \union Infra |-> Or(Or(env[f], doc[f]), Known(f, known))]

\* buildAddressBook; doc is NoManifest where the caller passes undefined.
BuildAddressBook(chain, env, doc, known) ==
  LET book == Resolve(env, doc, known)
  IN IF \/ EnvError(env)
        \/ doc # NoManifest(chain) /\ (~ValidManifest(doc) \/ doc.chainId # chain)
        \/ \E f \in Required \union {"poolManager"} : book[f] = Absent
     THEN BookError
     ELSE [chainId |-> chain, hook |-> book.hook, controller |-> book.controller,
           buybackAndBurnPlugin |-> Or(Or(doc.buybackAndBurnPlugin, doc.buybackPlugin), Absent),
           poolManager |-> book.poolManager, stateView |-> book.stateView,
           payoutPlan |-> Or(doc.payoutPlan, Absent)]

\* The document that manifest:sync stores: what is undefined is left out.
Canonical(book) == [f \in DocFields |-> IF f = "buybackPlugin" THEN Absent ELSE book[f]]

\* manifest:sync upserts the row, or fails and leaves it.
ManifestSync(chain, env, file, known, table) ==
  LET book == BuildAddressBook(chain, env, file, known)
  IN IF book = BookError THEN table
     ELSE [c \in DOMAIN table \union {chain} |-> IF c = chain THEN Canonical(book) ELSE table[c]]

\* Mutant: the map is emptied first.
LoadAllAnew(env, table, known, books) ==
  LET Built(c) == BuildAddressBook(c, env, table[c], known)
  IN [c \in {d \in DOMAIN table : Built(d) # BookError} |-> Built(c)]

\* loadAll, at the start and by reload: rows that are not valid are skipped.
LoadAll(env, table, known, books) ==
  LET Built(c) == BuildAddressBook(c, env, table[c], known)
      valid == {c \in DOMAIN table : Built(c) # BookError}
  IN [c \in valid \union DOMAIN books |-> IF c \in valid THEN Built(c) ELSE books[c]]

\* book throws, and addresses answers 404, where there is none.
Addresses(chain, books) == IF chain \in DOMAIN books THEN books[chain] ELSE NotFound

-----------------------------------------------------------------------------
(* What a sync and a later load promise.                                   *)

\* A sync succeeds: nothing is malformed and every address that must be there is.
Syncs(chain, env, file, known) ==
  /\ ~EnvError(env)
  /\ file = NoManifest(chain) \/ (ValidManifest(file) /\ file.chainId = chain)
  /\ \A f \in Required \union {"poolManager"} : Or(Or(env[f], file[f]), Known(f, known)) # Absent

\* The book b holds what the highest authority says: the environment of the load, that
\* of the sync, the file, the well-known addresses; of two buyback keys the long one.
HoldsAddresses(b, later, env, file, known) ==
  /\ \A f \in Required \union Infra :
       b[f] = Or(Or(Or(later[f], env[f]), file[f]), Known(f, known))
  /\ \A f \in Required \union {"poolManager"} : b[f] # Absent
  /\ b.buybackAndBurnPlugin = Or(Or(file.buybackAndBurnPlugin, file.buybackPlugin), Absent)
  /\ b.payoutPlan = Or(file.payoutPlan, Absent)
=============================================================================
