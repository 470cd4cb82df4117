---------------------------- MODULE Credentials ----------------------------
(***************************************************************************)
(* The login of a connection with credentials the driver obtains itself:   *)
(* IAM_PROXY ("iam"), OKTA_PROXY and ADFS_PROXY ("federated"), and         *)
(* SECRETS_MANAGER_PROXY ("secret").                                       *)
(*                                                                         *)
(* Each keeps a cache that all connections of the process share, uses what *)
(* it finds there, and tries a second time with a fresh credential when    *)
(* the first login fails.  Meanwhile the clock runs, the AWS credentials   *)
(* tokens are signed with expire and are renewed, and the secret is        *)
(* rotated: first the password in the server, then the secret.  A cache is *)
(* read and filled under its mutex, the request to the service included,   *)
(* so each such step is one action; a login is a step of its own.          *)
(***************************************************************************)
EXTENDS Naturals

CONSTANTS
    Conns,          \* connections with the same cache key
    Methods,        \* which of the proxies are used
    Expiration,     \* AUTH_EXPIRATION: how long a token stays in the cache
    TokenLife,      \* how long the server accepts a token
    Incomplete,     \* versions of the secret that lack a user name or a password
    MaxTime, MaxVersion,    \* bounds of the clock and of the rotations
    NULL

Method == {"iam", "federated", "secret"}

\* A credential: a token (when it was signed, and whether with valid AWS
\* credentials) or a secret (its version, and whether it is complete).
Credential == [born : Nat, good : BOOLEAN]

ASSUME MethodsAssumption == Methods \subseteq Method
ASSUME TimesAssumption == Expiration \in Nat /\ TokenLife \in Nat \ {0}
ASSUME BoundsAssumption == MaxTime \in Nat /\ MaxVersion \in Nat
ASSUME NullAssumption == NULL \notin Credential

VARIABLES
    method,         \* the proxy in use
    now,            \* system_clock
    aws,            \* the AWS credentials of the environment are valid
    secret,         \* version in Secrets Manager
    password,       \* version the server accepts
    cache,          \* token_cache or secrets_cache: the entry of the key, or NULL
    pc,             \* per connection: where its login is
    signer,         \* the credentials its AUTH_UTIL was made with are (still) valid
    held,           \* auth_token or secret_json_value
    fresh,          \* ~using_cached_token, or fetched
    why,            \* why its login failed
    calm            \* history: nothing has gone wrong around it since it began

environment == <<method, now, aws, secret, password>>
connection == <<pc, signer, held, fresh, why>>
vars == <<environment, cache, connection, calm>>

Tokens == method # "secret"

-----------------------------------------------------------------------------
(* What the server and the services do                                     *)

\* The server accepts a credential.
Accepted(x) ==
    /\ x.good
    /\ IF Tokens THEN now < x.born + TokenLife ELSE x.born = password

\* A login is over long before a token signed for it is.
Tick ==
    /\ now < MaxTime
    /\ \A c \in Conns : pc[c] \in {"login", "again"} /\ fresh[c] /\ Tokens =>
           now + 1 < held[c].born + TokenLife
    /\ now' = now + 1
    /\ UNCHANGED <<method, aws, secret, password, cache, connection, calm>>

\* The AWS credentials expire, for every client made with them, or are renewed,
\* for the clients that are made from now on.
ExpireAws ==
    /\ aws /\ aws' = FALSE
    /\ signer' = [c \in Conns |-> FALSE]
    /\ calm' = [c \in Conns |-> FALSE]
    /\ UNCHANGED <<method, now, secret, password, cache, pc, held, fresh, why>>
RenewAws ==
    /\ ~aws /\ aws' = TRUE
    /\ UNCHANGED <<method, now, secret, password, cache, connection, calm>>

\* Rotation: the new password is set, then the secret names it.
RotatePassword ==
    /\ password = secret /\ password < MaxVersion
    /\ password' = password + 1
    /\ calm' = [c \in Conns |-> FALSE]
    /\ UNCHANGED <<method, now, aws, secret, cache, connection>>
RotateSecret ==
    /\ secret # password
    /\ secret' = password
    /\ calm' = [c \in Conns |-> FALSE]
    /\ UNCHANGED <<method, now, aws, password, cache, connection>>

-----------------------------------------------------------------------------
(* A connection                                                            *)

At(c, label) == pc[c] = label
Goto(c, label) == pc' = [pc EXCEPT ![c] = label]
Fail(c, reason) == Goto(c, "failed") /\ why' = [why EXCEPT ![c] = reason]

\* All is well around a login that begins now.  A federated login gets its AWS
\* credentials on the way (Assert).
Stable(valid) ==
    /\ method = "iam" => valid
    /\ method = "secret" => password = secret /\ secret \notin Incomplete

\* connect(): a new chain of proxies; AUTH_UTIL takes the AWS credentials as they
\* are now and keeps them.
Connect(c) ==
    /\ pc[c] \in {"idle", "connected", "failed"}
    /\ Goto(c, IF method = "federated" THEN "assert" ELSE "get")
    /\ signer' = [signer EXCEPT ![c] = aws]
    /\ held' = [held EXCEPT ![c] = NULL]
    /\ fresh' = [fresh EXCEPT ![c] = FALSE]
    /\ why' = [why EXCEPT ![c] = "none"]
    /\ calm' = [calm EXCEPT ![c] = Stable(aws)]
    /\ UNCHANGED <<environment, cache>>

\* change_user() goes through the proxies that are there; OKTA_PROXY and
\* ADFS_PROXY do not take part in it.
ChangeUser(c) ==
    /\ At(c, "connected") /\ method # "federated"
    /\ Goto(c, "get")
    /\ fresh' = [fresh EXCEPT ![c] = FALSE]
    /\ why' = [why EXCEPT ![c] = "none"]
    /\ calm' = [calm EXCEPT ![c] = Stable(signer[c])]
    /\ UNCHANGED <<environment, cache, signer, held>>

\* get_saml_assertion, which may fail, then get_aws_credentials, which may
\* return empty ones.
Assert(c) ==
    /\ At(c, "assert") /\ method = "federated"
    /\ \/ Fail(c, "assertion") /\ UNCHANGED <<signer, calm>>
       \/ \E valid \in BOOLEAN :
            /\ signer' = [signer EXCEPT ![c] = valid]
            /\ calm' = [calm EXCEPT ![c] = valid]
            /\ Goto(c, "get") /\ UNCHANGED why
    /\ UNCHANGED <<environment, cache, held, fresh>>

Sign(c) == [born |-> now, good |-> signer[c]]
Expired(x) == now > x.born + Expiration

\* AUTH_UTIL::get_auth_token.
GetToken(c, force) ==
    /\ Tokens
    /\ IF ~force /\ cache # NULL /\ ~Expired(cache)
       THEN held' = [held EXCEPT ![c] = cache] /\ fresh' = [fresh EXCEPT ![c] = FALSE]
            /\ UNCHANGED cache
       ELSE /\ cache' = Sign(c) /\ held' = [held EXCEPT ![c] = Sign(c)]
            /\ fresh' = [fresh EXCEPT ![c] = TRUE]

Latest == [born |-> secret, good |-> secret \notin Incomplete]

\* Mutant: what the connection has is cached even if the request failed.
UpdateSecretAlways(c, force) ==
    /\ ~Tokens
    /\ \/ /\ ~force /\ cache # NULL
          /\ held' = [held EXCEPT ![c] = cache] /\ UNCHANGED cache
          /\ fresh' = [fresh EXCEPT ![c] = FALSE]
       \/ /\ force \/ cache = NULL
          /\ held' = [held EXCEPT ![c] = Latest] /\ cache' = Latest
          /\ fresh' = [fresh EXCEPT ![c] = TRUE]
       \/ /\ force \/ cache = NULL
          /\ cache' = held[c] /\ UNCHANGED held
          /\ fresh' = [fresh EXCEPT ![c] = FALSE]

\* SECRETS_MANAGER_PROXY::update_secret: the cache, or Secrets Manager, whose
\* answer may be an error or no JSON.
UpdateSecret(c, force) ==
    /\ ~Tokens
    /\ \/ /\ ~force /\ cache # NULL
          /\ held' = [held EXCEPT ![c] = cache] /\ UNCHANGED cache
          /\ fresh' = [fresh EXCEPT ![c] = FALSE]
       \/ /\ force \/ cache = NULL
          /\ held' = [held EXCEPT ![c] = Latest] /\ cache' = Latest
          /\ fresh' = [fresh EXCEPT ![c] = TRUE]
       \/ /\ force \/ cache = NULL
          /\ UNCHANGED <<cache, held>>
          /\ fresh' = [fresh EXCEPT ![c] = FALSE]

\* The first credential.  A secret without a user name or a password, cached or
\* not, ends the login here.
Get(c) ==
    /\ At(c, "get")
    /\ \/ GetToken(c, FALSE) /\ Goto(c, "login") /\ UNCHANGED why
       \/ /\ UpdateSecret(c, FALSE)
          /\ \/ held'[c] = NULL /\ Fail(c, "service")
             \/ held'[c] # NULL /\ ~held'[c].good /\ Fail(c, "incomplete")
             \/ held'[c] # NULL /\ held'[c].good /\ Goto(c, "login") /\ UNCHANGED why
    /\ UNCHANGED <<environment, signer, calm>>

\* The server answers, or is not reached.
Succeeds(c) == Accepted(held[c]) /\ Goto(c, "connected") /\ UNCHANGED why

\* Mutant: a refused login with a cached credential is final.
LoginOnce(c) ==
    /\ At(c, "login")
    /\ \/ Succeeds(c)
       \/ ~Accepted(held[c]) /\ Fail(c, "denied")
       \/ Fail(c, "lost")
    /\ UNCHANGED <<environment, cache, signer, held, fresh, calm>>

\* A login with a cached token is tried again after any error, one with a cached
\* secret only if access was denied.
Login(c) ==
    /\ At(c, "login")
    /\ \/ Succeeds(c)
       \/ /\ ~Accepted(held[c])
          /\ IF fresh[c] THEN Fail(c, "denied") ELSE Goto(c, "renew") /\ UNCHANGED why
       \/ IF Tokens /\ ~fresh[c] THEN Goto(c, "renew") /\ UNCHANGED why ELSE Fail(c, "lost")
    /\ UNCHANGED <<environment, cache, signer, held, fresh, calm>>

\* The second credential, which must be a new one; if the secret cannot be
\* fetched, the refusal stands.
Renew(c) ==
    /\ At(c, "renew")
    /\ \/ GetToken(c, TRUE) /\ Goto(c, "again") /\ UNCHANGED why
       \/ UpdateSecret(c, TRUE) /\ IF fresh'[c] THEN Goto(c, "again") /\ UNCHANGED why
                                   ELSE Fail(c, "service")
    /\ UNCHANGED <<environment, signer, calm>>

Again(c) ==
    /\ At(c, "again")
    /\ \/ Succeeds(c)
       \/ ~Accepted(held[c]) /\ Fail(c, "denied")
       \/ Fail(c, "lost")
    /\ UNCHANGED <<environment, cache, signer, held, fresh, calm>>

-----------------------------------------------------------------------------
Init ==
    /\ method \in Methods
    /\ now = 0 /\ aws \in BOOLEAN
    /\ secret = 0 /\ password = 0
    /\ cache = NULL
    /\ pc = [c \in Conns |-> "idle"]
    /\ signer = [c \in Conns |-> FALSE]
    /\ held = [c \in Conns |-> NULL]
    /\ fresh = [c \in Conns |-> FALSE]
    /\ why = [c \in Conns |-> "none"]
    /\ calm = [c \in Conns |-> FALSE]

Step(c) == Connect(c) \/ ChangeUser(c) \/ Assert(c) \/ Get(c) \/ Login(c) \/ Renew(c) \/ Again(c)
Environment == Tick \/ ExpireAws \/ RenewAws \/ RotatePassword \/ RotateSecret

Next == Environment \/ \E c \in Conns : Step(c)

Spec == Init /\ [][Next]_vars

-----------------------------------------------------------------------------
(* Properties                                                              *)

\* The variables have their types; a connection that logs in has a credential.
TypeOK ==
    /\ method \in Methods
    /\ now \in Nat /\ aws \in BOOLEAN
    /\ secret \in Nat /\ password \in Nat
    /\ cache \in Credential \union {NULL}
    /\ pc \in [Conns -> {"idle", "assert", "get", "login", "renew", "again", "connected", "failed"}]
    /\ signer \in [Conns -> BOOLEAN]
    /\ held \in [Conns -> Credential \union {NULL}]
    /\ fresh \in [Conns -> BOOLEAN]
    /\ why \in [Conns -> {"none", "assertion", "service", "incomplete", "denied", "lost"}]
    /\ calm \in [Conns -> BOOLEAN]
    /\ \A c \in Conns : pc[c] \in {"login", "again"} => held[c] # NULL

\* An old credential in the cache never makes a login be refused: the application is
\* told that its credentials were refused only if the secret was being rotated or the
\* AWS credentials were not valid while it tried, however old the cached credential
\* was, and whatever other connections did to the cache meanwhile.  (A cached secret
\* without user name or password does end connections, before any login: "incomplete".)
RefusedOnlyForCause ==
    \A c \in Conns : pc[c] = "failed" /\ why[c] = "denied" => ~calm[c]

\* Why: while all is well around a login, a credential that is fresh is good.
Valid(x) ==
    /\ x.good
    /\ IF Tokens THEN now < x.born + TokenLife ELSE x.born = secret
FreshInv ==
    \A c \in Conns : calm[c] =>
        /\ Tokens => (signer[c] \/ pc[c] \in {"assert", "failed"})
        /\ ~Tokens => password = secret /\ secret \notin Incomplete
        /\ pc[c] = "again" => fresh[c]
        /\ pc[c] \in {"login", "again"} /\ fresh[c] => Valid(held[c])

\* A credential in the cache is never replaced by an older one, although several
\* connections fetch and store at the same time and a request may fail.
CacheNeverOlder ==
    [][cache # NULL => cache' # NULL /\ cache'.born >= cache.born]_vars
=============================================================================
