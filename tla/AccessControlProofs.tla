------------------------ MODULE AccessControlProofs ------------------------
(***************************************************************************)
(* The two gates, proved for any number of requests, keys and roles.  One  *)
(* invariant for each history: what missed says of the keys a request has  *)
(* in hand, and what since and recent say of the roles it has selected or  *)
(* may find in the cache.                                                  *)
(***************************************************************************)
EXTENDS AccessControl, TLAPS

\* A request that does not find its key after the forced refresh has missed it.
MissedInv ==
    \A r \in Requests :
        /\ Authenticating(r) /\ kid[r] \notin published => missed[r]
        /\ forced[r] /\ auth[r] \in {"store", "find"} /\ kid[r] \notin keys[r] => missed[r]
        /\ auth[r] \notin {"fetch", "store", "find"} => ~forced[r]

\* A check may go by every policy since the last invalidate; what it has selected
\* is one of them, unless an invalidate came after.
RecentInv ==
    /\ policy \in recent
    /\ roles # NoEntry /\ ~suspect => roles \in recent
    /\ \A r \in Requests :
        /\ Checking(r) => recent \subseteq since[r]
        /\ check[r] = "fill" => seen[r] \in since[r]
        /\ check[r] = "fill" /\ r \notin behind => seen[r] \in recent

Inv == TypeOK /\ MissedInv /\ PublishedKeyPasses /\ RecentInv /\ AnswerIsRecent

-----------------------------------------------------------------------------
(***************************************************************************)
(* The gate of the keys.                                                   *)
(***************************************************************************)

\* A request that returns leaves the key variables well typed.
LEMMA AuthReturns ==
    ASSUME KeysTypeOK, NEW r \in Requests, NEW outcome \in AuthPlaces,
           AuthReturn(r, outcome)
    PROVE  /\ auth' \in [Requests -> AuthPlaces]
           /\ kid' \in [Requests -> Kids \cup {NoKid}]
           /\ keys' \in [Requests -> SUBSET Kids]
           /\ forced' \in [Requests -> BOOLEAN] /\ missed' \in [Requests -> BOOLEAN]
           /\ auth'[r] = outcome /\ missed'[r] = (missed[r] /\ outcome = "unknown_key")
           /\ ~forced'[r]
           /\ \A q \in Requests \ {r} :
                  /\ auth'[q] = auth[q] /\ kid'[q] = kid[q] /\ keys'[q] = keys[q]
                  /\ forced'[q] = forced[q] /\ missed'[q] = missed[q]
  BY DEF KeysTypeOK, AuthReturn, AuthGoto

\* Every step of a request at the gate of the keys keeps its types.
LEMMA AuthTypes ==
    ASSUME KeysTypeOK, NEW r \in Requests,
           AuthStep(r) \/ Present(r) \/ AuthFails(r)
    PROVE  KeysTypeOK'
<1>. USE DEF KeysTypeOK, AuthPlaces, AuthOutcomes
<1>1. CASE Present(r)
  <2>1. ASSUME NEW k \in Kids, kid' = [kid EXCEPT ![r] = k],
               missed' = [missed EXCEPT ![r] = k \notin published],
               AuthGoto(r, "get"), UNCHANGED <<keys, forced, published, jwks>>
        PROVE  KeysTypeOK'
    BY <2>1 DEF AuthGoto
  <2>2. CASE AuthReturn(r, "unauthorized") /\ UNCHANGED <<published, jwks>>
    BY <2>2, AuthReturns
  <2>. QED  BY <1>1, <2>1, <2>2 DEF Present
<1>2. CASE GetKeys(r)
  BY <1>2 DEF GetKeys, AuthGoto
<1>3. CASE FetchKeys(r)
  BY <1>3 DEF FetchKeys, AuthGoto
<1>4. CASE StoreKeys(r)
  BY <1>4 DEF StoreKeys, AuthGoto
<1>5. CASE FindKey(r)
  <2>1. ASSUME NEW outcome \in AuthOutcomes, AuthReturn(r, outcome),
               UNCHANGED <<published, jwks>>
        PROVE  KeysTypeOK'
    BY <2>1, AuthReturns
  <2>. QED  BY <1>5, <2>1 DEF FindKey, FindIn, AuthGoto
<1>6. CASE AuthFails(r)
  BY <1>6, AuthReturns DEF AuthFails
<1>. QED  BY <1>1, <1>2, <1>3, <1>4, <1>5, <1>6 DEF AuthStep

\* Every step of a request at the gate of the keys keeps what missed says.
LEMMA AuthKeepsMissed ==
    ASSUME KeysTypeOK, MissedInv, PublishedKeyPasses, NEW r \in Requests,
           AuthStep(r) \/ Present(r) \/ AuthFails(r)
    PROVE  MissedInv' /\ PublishedKeyPasses'
<1>. USE DEF MissedInv, PublishedKeyPasses, Authenticating, AuthOutcomes
<1>1. ASSUME NEW outcome \in AuthOutcomes, AuthReturn(r, outcome),
             UNCHANGED <<published, jwks>>,
             outcome = "unknown_key" => missed[r]
      PROVE  MissedInv' /\ PublishedKeyPasses'
  <2>1. /\ auth'[r] = outcome /\ missed'[r] = (missed[r] /\ outcome = "unknown_key")
        /\ ~forced'[r]
        /\ \A q \in Requests \ {r} :
               /\ auth'[q] = auth[q] /\ kid'[q] = kid[q] /\ keys'[q] = keys[q]
               /\ forced'[q] = forced[q] /\ missed'[q] = missed[q]
    BY <1>1, AuthReturns DEF AuthPlaces
  <2>2. outcome = "unknown_key" => missed'[r]
    BY <1>1, <2>1
  <2>. QED  BY <1>1, <2>1, <2>2
<1>2. CASE Present(r)
  <2>1. ASSUME NEW k \in Kids, kid' = [kid EXCEPT ![r] = k],
               missed' = [missed EXCEPT ![r] = k \notin published],
               AuthGoto(r, "get"), UNCHANGED <<keys, forced, published, jwks>>
        PROVE  MissedInv' /\ PublishedKeyPasses'
    <3>1. /\ auth'[r] = "get" /\ kid'[r] = k /\ (k \notin published' => missed'[r])
          /\ \A q \in Requests \ {r} :
                 auth'[q] = auth[q] /\ kid'[q] = kid[q] /\ missed'[q] = missed[q]
      BY <2>1 DEF AuthGoto, KeysTypeOK
    <3>2. auth[r] = "absent" => ~forced'[r]
      BY <2>1
    <3>3. auth[r] = "absent"
      BY <1>2 DEF Present
    <3>4. forced' = forced /\ keys' = keys /\ published' = published
      BY <2>1
    <3>. QED  BY <3>1, <3>2, <3>3, <3>4
  <2>2. CASE AuthReturn(r, "unauthorized") /\ UNCHANGED <<published, jwks>>
    BY <1>1, <2>2
  <2>3. CASE ~AuthReturn(r, "unauthorized")
    <3>1. PICK k \in Kids : /\ kid' = [kid EXCEPT ![r] = k]
                            /\ missed' = [missed EXCEPT ![r] = k \notin published]
                            /\ AuthGoto(r, "get")
                            /\ UNCHANGED <<keys, forced, published, jwks>>
      BY <1>2, <2>3 DEF Present
    <3>. QED  BY <2>1, <3>1
  <2>. QED  BY <1>2, <2>2, <2>3 DEF Present
<1>3. CASE GetKeys(r)
  BY <1>3 DEF GetKeys, AuthGoto, KeysTypeOK
<1>4. CASE FetchKeys(r)
  BY <1>4 DEF FetchKeys, AuthGoto, KeysTypeOK
<1>5. CASE StoreKeys(r)
  BY <1>5 DEF StoreKeys, AuthGoto, KeysTypeOK
<1>6. CASE FindKey(r)
  <2>1. CASE /\ kid[r] \in keys[r]
             /\ \E outcome \in {"accepted", "unauthorized"} : AuthReturn(r, outcome)
    BY <1>1, <1>6, <2>1 DEF FindKey, FindIn
  <2>2. CASE kid[r] \notin keys[r] /\ forced[r] /\ AuthReturn(r, "unknown_key")
    BY <1>1, <1>6, <2>2 DEF FindKey, FindIn
  <2>3. CASE /\ AuthGoto(r, "fetch") /\ forced' = [forced EXCEPT ![r] = TRUE]
             /\ UNCHANGED <<kid, keys, missed>>
    BY <1>6, <2>3 DEF FindKey, FindIn, AuthGoto, KeysTypeOK
  <2>. QED  BY <1>6, <2>1, <2>2, <2>3 DEF FindKey, FindIn
<1>7. CASE AuthFails(r)
  BY <1>1, <1>7 DEF AuthFails
<1>. QED  BY <1>2, <1>3, <1>4, <1>5, <1>6, <1>7 DEF AuthStep

\* The SSO and redis keep it too.
LEMMA RotateKeeps ==
    ASSUME KeysTypeOK, MissedInv, PublishedKeyPasses, Rotate \/ KeysExpire
    PROVE  KeysTypeOK' /\ MissedInv' /\ PublishedKeyPasses'
<1>1. CASE Rotate
  <2>1. /\ published' \in SUBSET Kids
        /\ missed' = [r \in Requests |->
                        missed[r] \/ (Authenticating(r) /\ kid[r] \notin published')]
        /\ UNCHANGED <<jwks, auth, kid, keys, forced>>
    BY <1>1 DEF Rotate, KeysTypeOK
  <2>2. missed' \in [Requests -> BOOLEAN]
    BY <2>1 DEF KeysTypeOK
  <2>3. KeysTypeOK'
    BY <2>1, <2>2 DEF KeysTypeOK
  <2>. QED
    BY <2>1, <2>3 DEF MissedInv, PublishedKeyPasses, Authenticating
<1>2. CASE KeysExpire
  BY <1>2 DEF KeysExpire, KeysTypeOK, MissedInv, PublishedKeyPasses, Authenticating
<1>. QED  BY <1>1, <1>2

-----------------------------------------------------------------------------
(***************************************************************************)
(* The gate of the roles.                                                  *)
(***************************************************************************)

\* Every step at the gate of the roles keeps its types.
LEMMA RoleTypes ==
    ASSUME RolesTypeOK,
           \/ EditPolicy \/ Invalidate \/ RolesExpire
           \/ \E r \in Requests : CheckStep(r) \/ Ask(r) \/ CheckFails(r)
    PROVE  RolesTypeOK'
<1>. USE DEF RolesTypeOK, rolePolicy, CheckPlaces, CheckOutcomes
<1>1. CASE EditPolicy
  <2>1. policy' \in SUBSET Roles /\ recent' \in SUBSET SUBSET Roles
    BY <1>1 DEF EditPolicy
  <2>2. since' \in [Requests -> SUBSET SUBSET Roles]
    BY <1>1, <2>1 DEF EditPolicy
  <2>. QED  BY <1>1, <2>1, <2>2 DEF EditPolicy
<1>2. CASE Invalidate
  BY <1>2 DEF Invalidate
<1>3. CASE RolesExpire
  BY <1>3 DEF RolesExpire
<1>4. ASSUME NEW r \in Requests, CheckStep(r) \/ Ask(r) \/ CheckFails(r)
      PROVE  RolesTypeOK'
  <2>1. ASSUME NEW outcome \in CheckOutcomes, CheckReturn(r, outcome)
        PROVE  check' \in [Requests -> CheckPlaces] /\ seen' \in [Requests -> SUBSET Roles]
    BY <2>1 DEF CheckReturn
  <2>2. \A allowed : Answer(r, allowed) \in CheckOutcomes
    BY DEF Answer
  <2>3. CASE GetRoles(r)
    BY <2>1, <2>2, <2>3 DEF GetRoles
  <2>4. CASE SelectRoles(r)
    BY <2>4 DEF SelectRoles
  <2>5. CASE FillRoles(r)
    BY <2>1, <2>2, <2>5 DEF FillRoles
  <2>6. CASE Ask(r)
    BY <2>6 DEF Ask
  <2>7. CASE CheckFails(r)
    BY <2>1, <2>7 DEF CheckFails
  <2>. QED  BY <1>4, <2>3, <2>4, <2>5, <2>6, <2>7 DEF CheckStep
<1>. QED  BY <1>1, <1>2, <1>3, <1>4

\* Every step at the gate of the roles keeps what recent and since say, and with
\* it every answer.
LEMMA RolesKeepRecent ==
    ASSUME RolesTypeOK, RolesTypeOK', RecentInv, AnswerIsRecent,
           \/ EditPolicy \/ Invalidate \/ RolesExpire
           \/ \E r \in Requests : CheckStep(r) \/ Ask(r) \/ CheckFails(r)
    PROVE  RecentInv' /\ AnswerIsRecent'
<1>. USE DEF RecentInv, AnswerIsRecent, Answered, Checking, rolePolicy
<1>1. CASE EditPolicy
  <2>1. /\ recent' = recent \cup {policy'}
        /\ \A r \in Requests :
             since'[r] = IF Checking(r) THEN since[r] \cup {policy'} ELSE since[r]
        /\ UNCHANGED <<roles, check, seen, behind, suspect>>
    BY <1>1 DEF EditPolicy
  <2>. QED  BY <2>1
<1>2. CASE Invalidate
  BY <1>2 DEF Invalidate
<1>3. CASE RolesExpire
  BY <1>3 DEF RolesExpire
<1>4. ASSUME NEW r \in Requests, CheckStep(r) \/ Ask(r) \/ CheckFails(r)
      PROVE  RecentInv' /\ AnswerIsRecent'
  <2>1. /\ check \in [Requests -> CheckPlaces] /\ seen \in [Requests -> SUBSET Roles]
        /\ since \in [Requests -> SUBSET SUBSET Roles]
    BY DEF RolesTypeOK
  <2>2. \A allowed : /\ Answer(r, allowed) \in {"allowed", "denied"}
                     /\ Answer(r, allowed) = "allowed" <=> Admits(r, allowed)
    BY DEF Answer
  <2>9. ASSUME NEW allowed, check' = [check EXCEPT ![r] = Answer(r, allowed)],
               seen' = [seen EXCEPT ![r] = {}], since' = since,
               allowed \in since[r] \/ r \in behind',
               \A q \in Requests \ {r} : q \in behind' <=> q \in behind
        PROVE  /\ \A q \in Requests : q \notin behind' => Answered(q)'
               /\ ~Checking(r)'
               /\ \A q \in Requests \ {r} : check'[q] = check[q] /\ seen'[q] = seen[q]
    <3>1. check'[r] = Answer(r, allowed)
      BY <2>1, <2>9
    <3>2. \A q \in Requests \ {r} : check'[q] = check[q] /\ seen'[q] = seen[q]
      BY <2>1, <2>9
    <3>3. ASSUME NEW q \in Requests \ {r}, q \notin behind' PROVE Answered(q)'
      BY <2>9, <3>2, <3>3 DEF Admits
    <3>4. r \notin behind' => Answered(r)'
      BY <2>2, <2>9, <3>1 DEF Admits
    <3>. QED  BY <2>2, <3>1, <3>2, <3>3, <3>4
  <2>3. CASE GetRoles(r)
    <3>1. CASE roles # NoEntry /\ CheckReturn(r, Answer(r, roles))
      <4>1. /\ check' = [check EXCEPT ![r] = Answer(r, roles)]
            /\ seen' = [seen EXCEPT ![r] = {}]
        BY <3>1 DEF CheckReturn
      <4>2. ~suspect => roles \in since[r]
        BY <2>3, <3>1 DEF GetRoles
      <4>3. /\ UNCHANGED <<policy, recent, roles, since, suspect>>
            /\ behind' = IF suspect THEN behind \cup {r} ELSE behind
        BY <2>3, <3>1 DEF GetRoles
      <4>4. /\ AnswerIsRecent' /\ ~Checking(r)'
            /\ \A q \in Requests \ {r} : check'[q] = check[q] /\ seen'[q] = seen[q]
        BY <2>9, <4>1, <4>2, <4>3
      <4>. QED  BY <4>3, <4>4
    <3>2. CASE check' = [check EXCEPT ![r] = "select"] /\ UNCHANGED <<seen, behind>>
      BY <2>1, <2>3, <3>2 DEF GetRoles, Admits
    <3>. QED  BY <2>3, <3>1, <3>2 DEF GetRoles
  <2>4. CASE SelectRoles(r)
    BY <2>1, <2>4 DEF SelectRoles, Admits
  <2>5. CASE FillRoles(r)
    <3>1. /\ check' = [check EXCEPT ![r] = Answer(r, seen[r])]
          /\ seen' = [seen EXCEPT ![r] = {}]
      BY <2>5 DEF FillRoles, CheckReturn
    <3>2. seen[r] \in since[r] /\ (r \notin behind => seen[r] \in recent)
      BY <2>5 DEF FillRoles
    <3>3. /\ UNCHANGED <<policy, recent, since>> /\ roles' = seen[r]
          /\ suspect' = (r \in behind) /\ behind' = behind \ {r}
      BY <2>5 DEF FillRoles
    <3>4. /\ AnswerIsRecent' /\ ~Checking(r)'
          /\ \A q \in Requests \ {r} : check'[q] = check[q] /\ seen'[q] = seen[q]
      BY <2>9, <3>1, <3>2, <3>3
    <3>. QED  BY <3>2, <3>3, <3>4
  <2>6. CASE Ask(r)
    BY <2>1, <2>6 DEF Ask, Admits
  <2>7. CASE CheckFails(r)
    BY <2>1, <2>7 DEF CheckFails, CheckReturn, Admits
  <2>. QED  BY <1>4, <2>3, <2>4, <2>5, <2>6, <2>7 DEF CheckStep
<1>. QED  BY <1>1, <1>2, <1>3, <1>4

-----------------------------------------------------------------------------
(***************************************************************************)
(* The two gates.                                                          *)
(***************************************************************************)

\* The initial states satisfy the invariant.
LEMMA InitInv == Init => Inv
<1>. SUFFICES ASSUME Init PROVE Inv
  OBVIOUS
<1>1. TypeOK
  BY DEF Init, KeysInit, RolesInit, TypeOK, KeysTypeOK, RolesTypeOK, AuthPlaces,
         CheckPlaces
<1>2. MissedInv /\ PublishedKeyPasses
  BY DEF Init, KeysInit, MissedInv, PublishedKeyPasses, Authenticating
<1>3. RecentInv /\ AnswerIsRecent
  BY DEF Init, RolesInit, RecentInv, AnswerIsRecent, Answered, Checking
<1>. QED  BY <1>1, <1>2, <1>3 DEF Inv

\* Every step of either gate keeps the invariant.
LEMMA NextInv == Inv /\ [Next]_vars => Inv'
<1>. SUFFICES ASSUME Inv, [Next]_vars PROVE Inv'
  OBVIOUS
<1>1. KeysTypeOK /\ RolesTypeOK /\ MissedInv /\ PublishedKeyPasses /\ RecentInv
      /\ AnswerIsRecent
  BY DEF Inv, TypeOK
<1>2. ASSUME UNCHANGED keyVars
      PROVE  KeysTypeOK' /\ MissedInv' /\ PublishedKeyPasses'
  BY <1>1, <1>2 DEF keyVars, KeysTypeOK, MissedInv, PublishedKeyPasses, Authenticating
<1>3. ASSUME UNCHANGED roleVars
      PROVE  RolesTypeOK' /\ RecentInv' /\ AnswerIsRecent'
  BY <1>1, <1>3
  DEF roleVars, rolePolicy, RolesTypeOK, RecentInv, AnswerIsRecent, Answered, Checking
<1>4. ASSUME NEW r \in Requests, RequestStep(r) PROVE Inv'
  BY <1>1, <1>2, <1>3, <1>4, AuthTypes, AuthKeepsMissed, RoleTypes, RolesKeepRecent
  DEF RequestStep, Inv, TypeOK
<1>5. CASE KeysStep \/ KeysTimeToLive
  BY <1>1, <1>3, <1>5, AuthTypes, AuthKeepsMissed, RotateKeeps
  DEF KeysStep, KeysTimeToLive, Inv, TypeOK
<1>6. CASE RolesStep \/ RolesTimeToLive
  BY <1>1, <1>2, <1>6, RoleTypes, RolesKeepRecent
  DEF RolesStep, Dispatch, RolesTimeToLive, Inv, TypeOK
<1>7. ASSUME NEW r \in Requests, Respond(r) PROVE Inv'
  <2>1. /\ AuthReturn(r, "absent") /\ CheckReturn(r, "absent")
        /\ since' = [since EXCEPT ![r] = {}] /\ behind' = behind \ {r}
        /\ UNCHANGED <<published, jwks, rolePolicy, roles, suspect>>
    BY <1>7 DEF Respond
  <2>2. KeysTypeOK' /\ MissedInv' /\ PublishedKeyPasses'
    <3>1. "absent" \in AuthPlaces
      BY DEF AuthPlaces
    <3>2. KeysTypeOK'
      BY <1>1, <2>1, <3>1, AuthReturns DEF KeysTypeOK
    <3>3. /\ auth'[r] = "absent" /\ ~forced'[r]
          /\ \A q \in Requests \ {r} :
                 /\ auth'[q] = auth[q] /\ kid'[q] = kid[q] /\ keys'[q] = keys[q]
                 /\ forced'[q] = forced[q] /\ missed'[q] = missed[q]
      BY <1>1, <2>1, <3>1, AuthReturns
    <3>. QED
      BY <1>1, <2>1, <3>2, <3>3 DEF MissedInv, PublishedKeyPasses, Authenticating
  <2>3. /\ check' = [check EXCEPT ![r] = "absent"] /\ seen' = [seen EXCEPT ![r] = {}]
    BY <2>1 DEF CheckReturn
  <2>4. RolesTypeOK'
    BY <1>1, <2>1, <2>3 DEF RolesTypeOK, rolePolicy, CheckPlaces
  <2>5. RecentInv' /\ AnswerIsRecent'
    BY <1>1, <2>1, <2>3
    DEF RolesTypeOK, rolePolicy, RecentInv, AnswerIsRecent, Answered, Checking, Admits
  <2>. QED  BY <2>2, <2>4, <2>5 DEF Inv, TypeOK
<1>8. CASE UNCHANGED vars
  BY <1>2, <1>3, <1>8 DEF vars, Inv, TypeOK
<1>. QED  BY <1>4, <1>5, <1>6, <1>7, <1>8 DEF Next

\* The invariant holds in every reachable state.
LEMMA Invariant == Spec => []Inv
BY InitInv, NextInv, PTL DEF Spec

-----------------------------------------------------------------------------
(***************************************************************************)
(* Theorems.                                                               *)
(***************************************************************************)

\* Both gates, their caches and the requests in them are well typed; a cache
\* holds a set of keys or of roles, or nothing.
THEOREM AccessTypeCorrect == Spec => []TypeOK
<1>1. Inv => TypeOK
  BY DEF Inv
<1>. QED  BY <1>1, Invariant, PTL

\* No token is refused for an unknown key (get_sign_key) if the SSO published
\* that key all through the request, for any number of concurrent refreshes.
THEOREM PublishedKeysPass == Spec => []PublishedKeyPasses
<1>1. Inv => PublishedKeyPasses
  BY DEF Inv
<1>. QED  BY <1>1, Invariant, PTL

\* is_allowed answers by a policy in force since the last invalidate, except
\* where a fill that had selected before an invalidate wrote after it.
THEOREM AnswersAreRecent == Spec => []AnswerIsRecent
<1>1. Inv => AnswerIsRecent
  BY DEF Inv
<1>. QED  BY <1>1, Invariant, PTL

=============================================================================
