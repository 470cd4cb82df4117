------------------------- MODULE CredentialsProofs -------------------------
(***************************************************************************)
(* For any number of connections, any times and any sequence of rotations: *)
(* the type invariant of Credentials, that a refused login has a cause     *)
(* outside of the caches, and that the caches never go back.               *)
(***************************************************************************)
EXTENDS Credentials, TLAPS

\* Labels and functions are changed at one connection only.
LEMMA TypeInit == Init => TypeOK
  BY DEF Init, TypeOK, Credential

\* A token or a secret that is obtained is a credential.
LEMMA Obtained ==
  ASSUME TypeOK, NEW c \in Conns
  PROVE  Sign(c) \in Credential /\ Latest \in Credential
  BY DEF TypeOK, Sign, Latest, Credential

\* The two look-ups leave cache, held and fresh with their types.
LEMMA LookUpTypes ==
  ASSUME TypeOK, NEW c \in Conns, NEW force \in BOOLEAN,
         GetToken(c, force) \/ UpdateSecret(c, force)
  PROVE  /\ cache' \in Credential \union {NULL}
         /\ held' \in [Conns -> Credential \union {NULL}]
         /\ fresh' \in [Conns -> BOOLEAN]
         /\ \A d \in Conns \ {c} : held'[d] = held[d] /\ fresh'[d] = fresh[d]
  <1>1. Sign(c) \in Credential /\ Latest \in Credential
    BY Obtained
  <1>2. CASE GetToken(c, force)
    BY <1>1, <1>2 DEF GetToken, TypeOK
  <1>3. CASE UpdateSecret(c, force)
    <2>1. CASE held' = [held EXCEPT ![c] = cache] /\ UNCHANGED cache
               /\ fresh' = [fresh EXCEPT ![c] = FALSE]
      BY <2>1 DEF TypeOK
    <2>2. CASE held' = [held EXCEPT ![c] = Latest] /\ cache' = Latest
               /\ fresh' = [fresh EXCEPT ![c] = TRUE]
      BY <1>1, <2>2 DEF TypeOK
    <2>3. CASE UNCHANGED <<cache, held>> /\ fresh' = [fresh EXCEPT ![c] = FALSE]
      BY <2>3 DEF TypeOK
    <2>4. QED
      BY <1>3, <2>1, <2>2, <2>3 DEF UpdateSecret
  <1>4. QED
    BY <1>2, <1>3

\* Every step keeps the types, and gives a login its credential first.
LEMMA TypeStep == TypeOK /\ [Next]_vars => TypeOK'
  <1> SUFFICES ASSUME TypeOK, [Next]_vars PROVE TypeOK'
    OBVIOUS
  <1> USE NullAssumption
  <1>1. CASE UNCHANGED vars
    BY <1>1 DEF TypeOK, vars, environment, connection
  <1>2. CASE Tick
    BY <1>2 DEF TypeOK, Tick, connection
  <1>3. CASE ExpireAws
    BY <1>3 DEF TypeOK, ExpireAws
  <1>4. CASE RenewAws
    BY <1>4 DEF TypeOK, RenewAws, connection
  <1>5. CASE RotatePassword
    BY <1>5 DEF TypeOK, RotatePassword, connection
  <1>6. CASE RotateSecret
    BY <1>6 DEF TypeOK, RotateSecret, connection
  <1>7. ASSUME NEW c \in Conns, Connect(c) PROVE TypeOK'
    <2>1. Stable(aws) \in BOOLEAN
      BY DEF Stable
    <2>2. QED
      BY <1>7, <2>1 DEF TypeOK, Connect, Goto, environment
  <1>8. ASSUME NEW c \in Conns, ChangeUser(c) PROVE TypeOK'
    <2>1. Stable(signer[c]) \in BOOLEAN
      BY DEF Stable
    <2>2. QED
      BY <1>8, <2>1 DEF TypeOK, ChangeUser, Goto, environment
  <1>9. ASSUME NEW c \in Conns, Assert(c) PROVE TypeOK'
    BY <1>9 DEF TypeOK, Assert, Goto, Fail, environment
  <1>10. ASSUME NEW c \in Conns, Get(c) PROVE TypeOK'
    <2>1. GetToken(c, FALSE) \/ UpdateSecret(c, FALSE)
      BY <1>10 DEF Get
    <2>2. /\ cache' \in Credential \union {NULL}
          /\ held' \in [Conns -> Credential \union {NULL}]
          /\ fresh' \in [Conns -> BOOLEAN]
          /\ \A d \in Conns \ {c} : held'[d] = held[d] /\ fresh'[d] = fresh[d]
      BY <2>1, LookUpTypes
    <2>3. CASE GetToken(c, FALSE) /\ Goto(c, "login") /\ UNCHANGED why
      <3>1. held'[c] # NULL
        BY <2>3, Obtained DEF GetToken, TypeOK
      <3>2. QED
        BY <1>10, <2>2, <2>3, <3>1 DEF Get, TypeOK, Goto, environment
    <2>4. CASE UpdateSecret(c, FALSE) /\ ~GetToken(c, FALSE)
      BY <1>10, <2>2, <2>4 DEF Get, TypeOK, Goto, Fail, environment
    <2>5. QED
      BY <1>10, <2>3, <2>4, <2>1 DEF Get, GetToken, UpdateSecret
  <1>11. ASSUME NEW c \in Conns, Login(c) PROVE TypeOK'
    BY <1>11 DEF TypeOK, Login, Succeeds, Goto, Fail, environment
  <1>12. ASSUME NEW c \in Conns, Renew(c) PROVE TypeOK'
    <2>1. GetToken(c, TRUE) \/ UpdateSecret(c, TRUE)
      BY <1>12 DEF Renew
    <2>2. /\ cache' \in Credential \union {NULL}
          /\ held' \in [Conns -> Credential \union {NULL}]
          /\ fresh' \in [Conns -> BOOLEAN]
          /\ \A d \in Conns \ {c} : held'[d] = held[d] /\ fresh'[d] = fresh[d]
      BY <2>1, LookUpTypes
    <2>3. CASE GetToken(c, TRUE) /\ Goto(c, "again") /\ UNCHANGED why
      <3>1. held'[c] # NULL
        BY <2>3, Obtained DEF GetToken, TypeOK
      <3>2. QED
        BY <1>12, <2>2, <2>3, <3>1 DEF Renew, TypeOK, Goto, environment
    <2>4. CASE UpdateSecret(c, TRUE) /\ fresh'[c] /\ Goto(c, "again") /\ UNCHANGED why
      <3>1. held'[c] # NULL
        BY <2>4, Obtained DEF UpdateSecret, TypeOK
      <3>2. QED
        BY <1>12, <2>2, <2>4, <3>1 DEF Renew, TypeOK, Goto, environment
    <2>5. CASE UpdateSecret(c, TRUE) /\ Fail(c, "service")
      BY <1>12, <2>2, <2>5 DEF Renew, TypeOK, Goto, Fail, environment
    <2>6. QED
      BY <1>12, <2>3, <2>4, <2>5 DEF Renew
  <1>13. ASSUME NEW c \in Conns, Again(c) PROVE TypeOK'
    BY <1>13 DEF TypeOK, Again, Succeeds, Goto, Fail, environment
  <1>14. QED
    BY <1>1, <1>2, <1>3, <1>4, <1>5, <1>6, <1>7, <1>8, <1>9, <1>10, <1>11, <1>12, <1>13
       DEF Next, Environment, Step

\* The types hold for any number of connections, any expiration and any sequence
\* of rotations, and a connection never logs in without a credential.
THEOREM TypeCorrect == Spec => []TypeOK
  BY TypeInit, TypeStep, PTL DEF Spec

-----------------------------------------------------------------------------
\* What a look-up leaves with the connection while all is well around it: a
\* credential it did not find in the cache is valid.
LEMMA FreshIsValid ==
  ASSUME TypeOK, FreshInv, NEW c \in Conns, NEW force \in BOOLEAN, calm[c],
         pc[c] \in {"get", "renew"}, UNCHANGED environment,
         GetToken(c, force) \/ UpdateSecret(c, force)
  PROVE  /\ fresh'[c] => Valid(held[c])'
         /\ force /\ Tokens => fresh'[c]
  <1> USE TimesAssumption
  <1>1. CASE GetToken(c, force)
    <2>1. signer[c] /\ Tokens
      BY <1>1 DEF FreshInv, GetToken
    <2>2. Sign(c) = [born |-> now, good |-> TRUE]
      BY <2>1 DEF Sign, TypeOK
    <2>3. now < now + TokenLife
      BY DEF TypeOK
    <2>4. CASE held' = [held EXCEPT ![c] = Sign(c)] /\ fresh' = [fresh EXCEPT ![c] = TRUE]
      BY <2>1, <2>2, <2>3, <2>4 DEF Valid, Tokens, environment, TypeOK
    <2>5. CASE fresh' = [fresh EXCEPT ![c] = FALSE] /\ ~force
      BY <2>5 DEF TypeOK
    <2>6. QED
      BY <1>1, <2>4, <2>5 DEF GetToken
  <1>2. CASE UpdateSecret(c, force)
    <2>1. ~Tokens /\ secret \notin Incomplete
      BY <1>2 DEF FreshInv, UpdateSecret
    <2>2. CASE held' = [held EXCEPT ![c] = Latest]
      BY <2>1, <2>2 DEF Latest, Valid, Tokens, environment, TypeOK
    <2>3. CASE fresh' = [fresh EXCEPT ![c] = FALSE]
      BY <2>1, <2>3 DEF TypeOK
    <2>4. QED
      BY <1>2, <2>1, <2>2, <2>3 DEF UpdateSecret
  <1>3. QED
    BY <1>1, <1>2

\* The part of FreshInv about one connection.
FreshAt(c) ==
    calm[c] =>
        /\ Tokens => (signer[c] \/ pc[c] \in {"assert", "failed"})
        /\ ~Tokens => password = secret /\ secret \notin Incomplete
        /\ pc[c] = "again" => fresh[c]
        /\ pc[c] \in {"login", "again"} /\ fresh[c] => Valid(held[c])

\* A step of another connection does not concern it.
LEMMA OtherConnection ==
  ASSUME TypeOK, NEW d \in Conns, FreshAt(d), UNCHANGED environment,
         pc'[d] = pc[d], signer'[d] = signer[d], held'[d] = held[d],
         fresh'[d] = fresh[d], calm'[d] = calm[d]
  PROVE  FreshAt(d)'
  BY DEF FreshAt, Tokens, Valid, environment

\* A credential that is fresh stays good as long as nothing goes wrong.
LEMMA FreshStep == TypeOK /\ FreshInv /\ [Next]_vars => FreshInv'
  <1> SUFFICES ASSUME TypeOK, FreshInv, [Next]_vars, NEW d \in Conns
               PROVE  FreshAt(d)'
    BY DEF FreshInv, FreshAt
  <1> USE TimesAssumption
  <1>0. FreshAt(d)
    BY DEF FreshInv, FreshAt
  <1>1. CASE UNCHANGED vars
    BY <1>0, <1>1 DEF FreshAt, vars, environment, connection, Tokens, Valid
  <1>2. CASE Tick
    BY <1>0, <1>2 DEF FreshAt, Tick, connection, Tokens, Valid, TypeOK
  <1>3. CASE ExpireAws
    BY <1>3 DEF FreshAt, ExpireAws
  <1>4. CASE RenewAws
    BY <1>0, <1>4 DEF FreshAt, RenewAws, connection, Tokens, Valid
  <1>5. CASE RotatePassword
    BY <1>5 DEF FreshAt, RotatePassword
  <1>6. CASE RotateSecret
    BY <1>6 DEF FreshAt, RotateSecret
  <1>7. ASSUME NEW c \in Conns, Connect(c) PROVE FreshAt(d)'
    <2>1. CASE c = d
      BY <1>7, <2>1, MethodsAssumption DEF FreshAt, Connect, Goto, Stable, Tokens, environment, TypeOK, Method
    <2>2. CASE c # d
      BY <1>0, <1>7, <2>2, OtherConnection DEF Connect, Goto, TypeOK
    <2>3. QED
      BY <2>1, <2>2
  <1>8. ASSUME NEW c \in Conns, ChangeUser(c) PROVE FreshAt(d)'
    <2>1. CASE c = d
      BY <1>8, <2>1, MethodsAssumption DEF FreshAt, ChangeUser, Goto, Stable, Tokens, environment, TypeOK, Method
    <2>2. CASE c # d
      BY <1>0, <1>8, <2>2, OtherConnection DEF ChangeUser, Goto, TypeOK
    <2>3. QED
      BY <2>1, <2>2
  <1>9. ASSUME NEW c \in Conns, Assert(c) PROVE FreshAt(d)'
    <2>1. CASE c = d
      <3>1. calm'[d] => signer'[d] \/ pc'[d] = "failed"
        BY <1>9, <2>1 DEF Assert, Goto, Fail, TypeOK
      <3>2. pc'[d] \in {"failed", "get"}
        BY <1>9, <2>1 DEF Assert, Goto, Fail, TypeOK
      <3>3. QED
        BY <1>0, <1>9, <2>1, <3>1, <3>2 DEF FreshAt, Assert, At, Tokens, environment
    <2>2. CASE c # d
      BY <1>0, <1>9, <2>2, OtherConnection DEF Assert, Goto, Fail, TypeOK
    <2>3. QED
      BY <2>1, <2>2
  <1>10. ASSUME NEW c \in Conns, Get(c) PROVE FreshAt(d)'
    <2>0. UNCHANGED <<environment, signer, calm>> /\ pc[c] = "get"
          /\ (GetToken(c, FALSE) \/ UpdateSecret(c, FALSE))
      BY <1>10 DEF Get, At
    <2>1. CASE c = d
      <3>1. pc'[d] \in {"login", "failed"}
        BY <1>10, <2>1 DEF Get, Goto, Fail, TypeOK
      <3>2. calm[d] => (fresh'[d] => Valid(held[d])')
        BY <2>0, <2>1, FreshIsValid
      <3>3. QED
        BY <1>0, <2>0, <2>1, <3>1, <3>2 DEF FreshAt, Tokens, environment
    <2>2. CASE c # d
      <3>1. held'[d] = held[d] /\ fresh'[d] = fresh[d]
        BY <2>0, <2>2, LookUpTypes
      <3>2. pc'[d] = pc[d]
        BY <1>10, <2>2 DEF Get, Goto, Fail, TypeOK
      <3>3. QED
        BY <1>0, <2>0, <3>1, <3>2, OtherConnection
    <2>3. QED
      BY <2>1, <2>2
  <1>11. ASSUME NEW c \in Conns, Login(c) PROVE FreshAt(d)'
    <2>1. CASE c = d
      <3>1. pc'[d] \in {"connected", "failed", "renew"} /\ pc[d] = "login"
        BY <1>11, <2>1 DEF Login, At, Succeeds, Goto, Fail, TypeOK
      <3>2. QED
        BY <1>0, <1>11, <3>1 DEF FreshAt, Login, Tokens, environment
    <2>2. CASE c # d
      <3>1. pc'[d] = pc[d]
        BY <1>11, <2>2 DEF Login, Succeeds, Goto, Fail, TypeOK
      <3>2. QED
        BY <1>0, <1>11, <3>1, OtherConnection DEF Login
    <2>3. QED
      BY <2>1, <2>2
  <1>12. ASSUME NEW c \in Conns, Renew(c) PROVE FreshAt(d)'
    <2>0. UNCHANGED <<environment, signer, calm>> /\ pc[c] = "renew"
          /\ (GetToken(c, TRUE) \/ UpdateSecret(c, TRUE))
      BY <1>12 DEF Renew, At
    <2>1. CASE c = d
      <3>1. pc'[d] = "failed" \/ (pc'[d] = "again" /\ (GetToken(c, TRUE) \/ fresh'[d]))
        BY <1>12, <2>1 DEF Renew, Goto, Fail, TypeOK
      <3>2. calm[d] => /\ fresh'[d] => Valid(held[d])'
                       /\ Tokens => fresh'[d]
        BY <2>0, <2>1, FreshIsValid
      <3>3. GetToken(c, TRUE) => Tokens
        BY DEF GetToken
      <3>4. QED
        BY <1>0, <2>0, <2>1, <3>1, <3>2, <3>3 DEF FreshAt, Tokens, environment
    <2>2. CASE c # d
      <3>1. held'[d] = held[d] /\ fresh'[d] = fresh[d]
        BY <2>0, <2>2, LookUpTypes
      <3>2. pc'[d] = pc[d]
        BY <1>12, <2>2 DEF Renew, Goto, Fail, TypeOK
      <3>3. QED
        BY <1>0, <2>0, <3>1, <3>2, OtherConnection
    <2>3. QED
      BY <2>1, <2>2
  <1>13. ASSUME NEW c \in Conns, Again(c) PROVE FreshAt(d)'
    <2>1. CASE c = d
      <3>1. pc'[d] \in {"connected", "failed"} /\ pc[d] = "again"
        BY <1>13, <2>1 DEF Again, At, Succeeds, Goto, Fail, TypeOK
      <3>2. QED
        BY <1>0, <1>13, <3>1 DEF FreshAt, Again, Tokens, environment
    <2>2. CASE c # d
      <3>1. pc'[d] = pc[d]
        BY <1>13, <2>2 DEF Again, Succeeds, Goto, Fail, TypeOK
      <3>2. QED
        BY <1>0, <1>13, <3>1, OtherConnection DEF Again
    <2>3. QED
      BY <2>1, <2>2
  <1>14. QED
    BY <1>1, <1>2, <1>3, <1>4, <1>5, <1>6, <1>7, <1>8, <1>9, <1>10, <1>11, <1>12, <1>13
       DEF Next, Environment, Step

\* A login around which all is well is refused only with a cached credential,
\* and then it is tried again.
LEMMA RefusedStep == TypeOK /\ FreshInv /\ RefusedOnlyForCause /\ [Next]_vars => RefusedOnlyForCause'
  <1> SUFFICES ASSUME TypeOK, FreshInv, RefusedOnlyForCause, [Next]_vars, NEW d \in Conns,
                      pc'[d] = "failed", why'[d] = "denied", calm'[d]
               PROVE  FALSE
    BY DEF RefusedOnlyForCause
  <1>0. calm[d] => ~(pc[d] = "failed" /\ why[d] = "denied")
    BY DEF RefusedOnlyForCause
  <1>1. calm[d] /\ fresh[d] /\ pc[d] \in {"login", "again"} => Accepted(held[d])
    BY DEF FreshInv, Valid, Accepted
  <1>2. calm[d] /\ pc[d] = "again" => fresh[d]
    BY DEF FreshInv
  <1>3. CASE UNCHANGED vars
    BY <1>0, <1>3 DEF vars, connection
  <1>4. CASE Environment
    BY <1>0, <1>4 DEF Environment, Tick, ExpireAws, RenewAws, RotatePassword, RotateSecret, connection
  <1>5. ASSUME NEW c \in Conns, Connect(c) \/ ChangeUser(c) \/ Assert(c) PROVE FALSE
    BY <1>0, <1>5 DEF Connect, ChangeUser, Assert, Goto, Fail, TypeOK
  <1>6. ASSUME NEW c \in Conns, Get(c) \/ Renew(c) PROVE FALSE
    BY <1>0, <1>6 DEF Get, Renew, Goto, Fail, TypeOK
  <1>7. ASSUME NEW c \in Conns, Login(c) PROVE FALSE
    BY <1>0, <1>1, <1>7 DEF Login, At, Succeeds, Goto, Fail, TypeOK
  <1>8. ASSUME NEW c \in Conns, Again(c) PROVE FALSE
    BY <1>0, <1>1, <1>2, <1>8 DEF Again, At, Succeeds, Goto, Fail, TypeOK
  <1>9. QED
    BY <1>3, <1>4, <1>5, <1>6, <1>7, <1>8 DEF Next, Step

\* A login is refused for good only if the secret was being rotated or the AWS
\* credentials were invalid while it was tried.
THEOREM CacheNeverAtFault == Spec => []RefusedOnlyForCause
  <1>1. Init => FreshInv /\ RefusedOnlyForCause
    BY DEF Init, FreshInv, RefusedOnlyForCause
  <1>2. QED
    BY <1>1, TypeInit, TypeStep, FreshStep, RefusedStep, PTL DEF Spec

-----------------------------------------------------------------------------
\* Nothing in the cache is from the future.
Past(x) == x.born <= (IF Tokens THEN now ELSE secret)
CachePast == /\ cache # NULL => Past(cache)
             /\ secret <= password

LEMMA PastStep == TypeOK /\ CachePast /\ [Next]_vars => CachePast'
  <1> SUFFICES ASSUME TypeOK, CachePast, [Next]_vars PROVE CachePast'
    OBVIOUS
  <1> USE DEF CachePast, Past, Tokens, Credential
  <1>1. CASE UNCHANGED vars
    BY <1>1 DEF vars, environment
  <1>2. CASE Environment
    BY <1>2, NullAssumption DEF Environment, Tick, ExpireAws, RenewAws, RotatePassword, RotateSecret, TypeOK
  <1>3. ASSUME NEW c \in Conns, UNCHANGED <<environment, cache>> PROVE CachePast'
    BY <1>3 DEF environment
  <1>4. ASSUME NEW c \in Conns, Get(c) \/ Renew(c) PROVE CachePast'
    BY <1>4 DEF Get, Renew, GetToken, UpdateSecret, Sign, Latest, environment, TypeOK
  <1>5. QED
    BY <1>1, <1>2, <1>3, <1>4 DEF Next, Step, Connect, ChangeUser, Assert, Login, Again

\* The caches never go back to an older credential.
THEOREM CachesMoveForward == Spec => CacheNeverOlder
  <1>1. Init => CachePast
    BY DEF Init, CachePast
  <1>2. TypeOK /\ CachePast /\ [Next]_vars => [cache # NULL => cache' # NULL /\ cache'.born >= cache.born]_vars
    <2> SUFFICES ASSUME TypeOK, CachePast, Next, cache # NULL
                 PROVE  cache' # NULL /\ cache'.born >= cache.born
      OBVIOUS
    <2>0. cache \in Credential
      BY DEF TypeOK
    <2>1. CASE UNCHANGED cache
      BY <2>0, <2>1 DEF Credential
    <2>2. ASSUME NEW c \in Conns, GetToken(c, TRUE) \/ GetToken(c, FALSE)
          PROVE  cache' # NULL /\ cache'.born >= cache.born
      BY <2>0, <2>2, Obtained, NullAssumption DEF GetToken, Sign, CachePast, Past, Credential, TypeOK
    <2>3. ASSUME NEW c \in Conns, UpdateSecret(c, TRUE) \/ UpdateSecret(c, FALSE)
          PROVE  cache' # NULL /\ cache'.born >= cache.born
      <3>1. CASE UNCHANGED cache
        BY <2>1, <3>1
      <3>2. CASE cache' = Latest /\ ~Tokens
        BY <2>0, <2>3, <3>2, Obtained, NullAssumption DEF Latest, CachePast, Past, Credential, TypeOK
      <3>3. QED
        BY <2>3, <3>1, <3>2 DEF UpdateSecret
    <2>4. QED
      BY <2>1, <2>2, <2>3 DEF Next, Environment, Step, Tick, ExpireAws, RenewAws, RotatePassword,
         RotateSecret, Connect, ChangeUser, Assert, Get, Login, Renew, Again
  <1>3. QED
    BY <1>1, <1>2, TypeInit, TypeStep, PastStep, PTL DEF Spec, CacheNeverOlder
=============================================================================
