----------------------------- MODULE ApiServices -----------------------------
(***************************************************************************)
(* Four services of the API that share no state: sign-in, the token        *)
(* resolver, the entries in Redis and the chain reads in memory.  A step   *)
(* of one changes nothing that another reads, so to interleave them adds   *)
(* no behaviour: one of them, service, runs, and the others stay as they   *)
(* begin.                                                                  *)
(***************************************************************************)
EXTENDS WalletAuth, TokenResolver, ReadCaches, LiveReads

VARIABLE service

vars == <<service, authVars, resolverVars, cacheVars, liveVars>>

Init ==
  /\ service \in {"auth", "resolver", "caches", "live"}
  /\ AuthInit /\ ResolverInit /\ CachesInit /\ LiveInit

Next ==
  /\ UNCHANGED service
  /\ \/ service = "auth" /\ AuthNext /\ UNCHANGED <<resolverVars, cacheVars, liveVars>>
     \/ service = "resolver" /\ ResolverNext /\ UNCHANGED <<authVars, cacheVars, liveVars>>
     \/ service = "caches" /\ CachesNext /\ UNCHANGED <<authVars, resolverVars, liveVars>>
     \/ service = "live" /\ LiveNext /\ UNCHANGED <<authVars, resolverVars, cacheVars>>

\* Only the services that promise progress need fairness: the others' fair actions are
\* never enabled while another service runs.
Spec == Init /\ [][Next]_vars /\ CachesFairness

-----------------------------------------------------------------------------

TypeOK == AuthTypeOK /\ ResolverTypeOK /\ CachesTypeOK /\ LiveTypeOK
=============================================================================
