----------------------------- MODULE WalletAuth -----------------------------
(***************************************************************************)
(* Sign-in with a wallet (wallet-auth.service.ts): a nonce is stored in    *)
(* Redis, the client signs the message that names it, verify looks the     *)
(* nonce up, deletes it and opens a session.  Errors of Redis are          *)
(* swallowed by redis-domain-cache.ts: a failed get is a miss, a failed    *)
(* set or delete goes unnoticed and may have taken effect or not.          *)
(*                                                                         *)
(* The message of a nonce is named by the nonce, and a signature is the    *)
(* wallet that it recovers to for the message presented.                   *)
(***************************************************************************)
CONSTANTS
  Signers,    \* wallets
  Nonces,     \* nonces; randomBytes never returns one of them twice
  Verifies,   \* calls of verify
  NoOne       \* marks a nonce that was not issued

ASSUME AuthAssumption == NoOne \notin Signers /\ Signers # {} /\ Nonces # {}

VARIABLES
  issuedTo,   \* issuedTo[n]: the wallet that n was issued to
  stored,     \* nonces that Redis holds; a key also names the wallet
  verify      \* verify[v]: the locals of a call

authVars == <<issuedTo, stored, verify>>

\* The locals of a call: its inputs, whether its delete had no effect (lost), and which
\* calls had taken a nonce and ended before this one looked (after, a history).
Call == [pc : {"idle", "get", "delete", "check", "session", "refused", "unknown"},
         wallet : Signers, nonce : Nonces, message : Nonces, signer : Signers,
         lost : BOOLEAN, after : SUBSET Verifies]

\* A call that has not begun; its inputs do not matter.
Unused ==
  LET w == CHOOSE x \in Signers : TRUE
      n == CHOOSE x \in Nonces : TRUE
  IN [pc |-> "idle", wallet |-> w, nonce |-> n, message |-> n, signer |-> w,
      lost |-> FALSE, after |-> {}]

AuthInit ==
  /\ issuedTo = [n \in Nonces |-> NoOne]
  /\ stored = {}
  /\ verify = [v \in Verifies |-> Unused]

\* issueNonce: set may fail, and the nonce is handed out nevertheless.
IssueNonce(w, n) ==
  /\ issuedTo[n] = NoOne
  /\ issuedTo' = [issuedTo EXCEPT ![n] = w]
  /\ \/ stored' = stored \union {n}
     \/ UNCHANGED stored
  /\ UNCHANGED verify

\* verify is called with any wallet, nonce, message and signature that are well formed.
VerifyBegin(v, w, n, m, signer) ==
  /\ verify[v].pc = "idle"
  /\ verify' = [verify EXCEPT ![v].pc = "get", ![v].wallet = w, ![v].nonce = n, ![v].message = m,
                              ![v].signer = signer]
  /\ UNCHANGED <<issuedTo, stored>>

Took(u) == verify[u].pc \in {"session", "refused"}

\* The key holds the nonce that was issued to this wallet.
Held(v) == verify[v].nonce \in stored /\ issuedTo[verify[v].nonce] = verify[v].wallet

\* Mutant: the key does not name the wallet.
VerifyGetAnyWallet(v) ==
  /\ verify[v].pc = "get"
  /\ verify' = [verify EXCEPT ![v].pc = IF verify[v].nonce \in stored THEN "delete" ELSE "unknown",
                              ![v].after = {u \in Verifies : Took(u)}]
  /\ UNCHANGED <<issuedTo, stored>>

\* The get: a nonce that is missing, or a failing Redis, is 401 NONCE_EXPIRED.
VerifyGet(v) ==
  /\ verify[v].pc = "get"
  /\ \/ Held(v) /\ verify' = [verify EXCEPT ![v].pc = "delete", ![v].after = {u \in Verifies : Took(u)}]
     \/ verify' = [verify EXCEPT ![v].pc = "unknown"]
  /\ UNCHANGED <<issuedTo, stored>>

\* Mutant: the nonce is deleted only for a good signature.
VerifyDeleteSigned(v) ==
  /\ verify[v].pc = "delete"
  /\ LET effect == verify[v].signer = verify[v].wallet
     IN stored' = IF effect THEN stored \ {verify[v].nonce} ELSE stored
  /\ verify' = [verify EXCEPT ![v].pc = "check"]
  /\ UNCHANGED issuedTo

\* The delete; when it fails, the nonce may stay.
VerifyDelete(v) ==
  /\ verify[v].pc = "delete"
  /\ \E effect \in BOOLEAN :
       /\ stored' = IF effect THEN stored \ {verify[v].nonce} ELSE stored
       /\ verify' = [verify EXCEPT ![v].pc = "check", ![v].lost = ~effect]
  /\ UNCHANGED issuedTo

\* Mutant: the message is not compared with the stored one.
VerifyCheckUnmatched(v) ==
  /\ verify[v].pc = "check"
  /\ LET good == verify[v].signer = verify[v].wallet
     IN verify' = [verify EXCEPT ![v].pc = IF good THEN "session" ELSE "refused"]
  /\ UNCHANGED <<issuedTo, stored>>

\* The message must be the stored one, 401 MESSAGE_MISMATCH, and the signature must
\* recover to the wallet, 401 SIGNATURE_INVALID; then the session is signed.
VerifyCheck(v) ==
  /\ verify[v].pc = "check"
  /\ LET c == verify[v]
         good == c.message = c.nonce /\ c.signer = c.wallet
     IN verify' = [verify EXCEPT ![v].pc = IF good THEN "session" ELSE "refused"]
  /\ UNCHANGED <<issuedTo, stored>>

\* The nonce reaches its TTL, or Redis loses it.
NonceExpires(n) ==
  /\ n \in stored
  /\ stored' = stored \ {n}
  /\ UNCHANGED <<issuedTo, verify>>

AuthNext ==
  \/ \E w \in Signers, n \in Nonces : IssueNonce(w, n)
  \/ \E v \in Verifies, w, signer \in Signers, n, m \in Nonces :
       VerifyBegin(v, w, n, m, signer)
  \/ \E v \in Verifies : VerifyGet(v) \/ VerifyDelete(v) \/ VerifyCheck(v)
  \/ \E n \in Nonces : NonceExpires(n)

AuthSpec == AuthInit /\ [][AuthNext]_authVars

-----------------------------------------------------------------------------

AuthTypeOK ==
  /\ issuedTo \in [Nonces -> Signers \union {NoOne}]
  /\ stored \in SUBSET Nonces
  /\ verify \in [Verifies -> Call]

\* A session belongs to the wallet that the nonce was issued to and that signed its
\* message.  Once a call that had found the nonce has ended, whatever its answer, no
\* call that looks the nonce up later opens a session with it, unless that call's
\* delete failed.  Two calls that both look before either deletes can both succeed.
NoncesSpent ==
  \A v \in Verifies : verify[v].pc = "session" =>
    LET c == verify[v]
    IN /\ issuedTo[c.nonce] = c.wallet
       /\ c.signer = c.wallet /\ c.message = c.nonce
       /\ \A u \in c.after : verify[u].nonce = c.nonce => verify[u].lost
=============================================================================
