----------------------------- MODULE JwksCache -----------------------------
(***************************************************************************)
(* How a request proves who its operator is (api/deps.py, production mode) *)
(* and where the key of its token comes from (security/jwks_client.py).    *)
(*                                                                         *)
(* The key set published by the SSO is cached in redis under one key that  *)
(* every request and every instance shares.  Between the await on redis,   *)
(* the one on the SSO and the one on redis again, other requests run and   *)
(* the SSO may rotate its keys; nothing orders their writes.               *)
(***************************************************************************)
EXTENDS RedisEntry

CONSTANTS
    Kids,      \* key ids
    NoKid      \* no token, or a token whose header carries no kid

ASSUME JwksConstants ==
    /\ NoKid \notin Kids
    /\ \A K \in SUBSET Kids : K # NoEntry

VARIABLES
    published,  \* the key set at the SSO's JWKS endpoint
    jwks,       \* the cached key set
    auth,       \* where the dependency of a request stands, or its outcome
    kid,        \* the key id of a request's token
    keys,       \* the key set a request has in hand
    forced,     \* the request is in its forced refresh
    missed      \* history: kid was not published at some time of the request

keyVars == <<published, jwks, auth, kid, keys, forced, missed>>

(***************************************************************************)
(* accepted      get_current_operator returned an operator                 *)
(* unknown_key   401, no such key in the key set                           *)
(* unauthorized  401: no token, no kid; signature, expiry or claims wrong; *)
(*               the key set could not be fetched                          *)
(* error         500, an error of redis                                    *)
(***************************************************************************)
AuthOutcomes == {"accepted", "unknown_key", "unauthorized", "error"}
AuthPlaces == {"absent", "get", "fetch", "store", "find"} \cup AuthOutcomes

Authenticating(r) == auth[r] \notin {"absent"} \cup AuthOutcomes

KeysTypeOK ==
    /\ published \in SUBSET Kids
    /\ jwks = NoEntry \/ jwks \in SUBSET Kids
    /\ auth \in [Requests -> AuthPlaces]
    /\ kid \in [Requests -> Kids \cup {NoKid}]
    /\ keys \in [Requests -> SUBSET Kids]
    /\ forced \in [Requests -> BOOLEAN]
    /\ missed \in [Requests -> BOOLEAN]

KeysInit ==
    /\ published \in SUBSET Kids
    /\ jwks = NoEntry
    /\ auth = [r \in Requests |-> "absent"]
    /\ kid = [r \in Requests |-> NoKid]
    /\ keys = [r \in Requests |-> {}]
    /\ forced = [r \in Requests |-> FALSE]
    /\ missed = [r \in Requests |-> FALSE]

AuthGoto(r, place) == auth' = [auth EXCEPT ![r] = place]

\* The dependency returns or raises; what it had in hand is gone.
AuthReturn(r, outcome) ==
    /\ AuthGoto(r, outcome)
    /\ kid' = [kid EXCEPT ![r] = NoKid]
    /\ keys' = [keys EXCEPT ![r] = {}]
    /\ forced' = [forced EXCEPT ![r] = FALSE]
    /\ missed' = [missed EXCEPT ![r] = @ /\ outcome = "unknown_key"]

-----------------------------------------------------------------------------
\* The request arrives; without a kid it is refused before any key is looked
\* for.
Present(r) ==
    /\ auth[r] = "absent"
    /\ \/ \E k \in Kids :
            /\ kid' = [kid EXCEPT ![r] = k]
            /\ missed' = [missed EXCEPT ![r] = k \notin published]
            /\ AuthGoto(r, "get")
            /\ UNCHANGED <<keys, forced>>
       \/ AuthReturn(r, "unauthorized")
    /\ UNCHANGED <<published, jwks>>

\* _load_jwks: the cached key set, if there is one.
GetKeys(r) ==
    /\ auth[r] = "get"
    /\ IF jwks # NoEntry
       THEN keys' = [keys EXCEPT ![r] = jwks] /\ AuthGoto(r, "find")
       ELSE AuthGoto(r, "fetch") /\ UNCHANGED keys
    /\ UNCHANGED <<published, jwks, kid, forced, missed>>

\* The SSO answers with the key set of that moment.
FetchKeys(r) ==
    /\ auth[r] = "fetch"
    /\ keys' = [keys EXCEPT ![r] = published]
    /\ AuthGoto(r, "store")
    /\ UNCHANGED <<published, jwks, kid, forced, missed>>

\* redis.set: whichever fetch is written last stays.
StoreKeys(r) ==
    /\ auth[r] = "store"
    /\ jwks' = keys[r]
    /\ AuthGoto(r, "find")
    /\ UNCHANGED <<published, kid, keys, forced, missed>>

\* _find_key in the key set in hand, and jwt.decode with the key found.
FindIn(r, hand, refresh) ==
    /\ auth[r] = "find"
    /\ \/ /\ kid[r] \in hand
          /\ \E outcome \in {"accepted", "unauthorized"} : AuthReturn(r, outcome)
       \/ kid[r] \notin hand /\ ~refresh /\ AuthReturn(r, "unknown_key")
       \/ /\ kid[r] \notin hand /\ refresh
          /\ AuthGoto(r, "fetch")
          /\ forced' = [forced EXCEPT ![r] = TRUE]
          /\ UNCHANGED <<kid, keys, missed>>
    /\ UNCHANGED <<published, jwks>>

\* Mutant: what others have stored meanwhile is preferred to what was fetched.
FindAfterRereading(r) ==
    FindIn(r, IF forced[r] /\ jwks # NoEntry THEN jwks ELSE keys[r], ~forced[r])

\* Mutant: it refreshes until the key is there.
FindInsisting(r) == FindIn(r, keys[r], TRUE)

\* A key that is not found is worth one forced refresh.
FindKey(r) == FindIn(r, keys[r], ~forced[r])

\* The SSO does not answer, or not with JSON; redis does not answer.
AuthFails(r) ==
    /\ \/ auth[r] = "fetch" /\ AuthReturn(r, "unauthorized")
       \/ auth[r] \in {"get", "store"} /\ AuthReturn(r, "error")
    /\ UNCHANGED <<published, jwks>>

\* The SSO publishes a key or withdraws one.
Rotate ==
    /\ \E k \in Kids :
        published' = IF k \in published THEN published \ {k} ELSE published \cup {k}
    /\ missed' = [r \in Requests |->
                    missed[r] \/ (Authenticating(r) /\ kid[r] \notin published')]
    /\ UNCHANGED <<jwks, auth, kid, keys, forced>>

\* Mutant: the entry is written without a time to live.
KeysStay == FALSE /\ UNCHANGED keyVars

\* sso_jwks_cache_ttl has passed since the entry was written.
KeysExpire ==
    /\ jwks # NoEntry
    /\ jwks' = NoEntry
    /\ UNCHANGED <<published, auth, kid, keys, forced, missed>>

-----------------------------------------------------------------------------
AuthStep(r) == GetKeys(r) \/ FetchKeys(r) \/ StoreKeys(r) \/ FindKey(r)
-----------------------------------------------------------------------------
(***************************************************************************)
(* Properties.                                                             *)
(***************************************************************************)

\* A key that is published all the while is never "unknown": however stale the
\* cached set, whichever concurrent refresh was written last, the forced
\* refresh sees it.
PublishedKeyPasses ==
    \A r \in Requests : auth[r] = "unknown_key" => missed[r]

\* The key set in the cache is what the SSO published in the end: once the
\* keys are left alone, a withdrawn key goes with the entry, although a late
\* write may bring it back once more.
WithdrawnKeyGoes ==
    \A k \in Kids :
        <>[](k \notin published) => <>[](jwks = NoEntry \/ k \notin jwks)
=============================================================================
