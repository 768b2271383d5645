-------------------------------- MODULE Startup --------------------------------
(***************************************************************************)
(* How an engine comes up and what /readyz then says of it: Config of      *)
(* config.rs, main.rs, create_claim_store, create_nonce_store, readyz.     *)
(* Redis can fail and recover between any two steps, and the process can   *)
(* die and be launched again with other settings.  A setting is abstracted *)
(* to the classes of values that the code tells apart.                     *)
(***************************************************************************)
CONSTANT None

Networks == {"mainnet", "testnet"}

\* What the operator wrote, and for which network: "other" is any unknown
\* value, or none; "malformed" makes parsing panic.  The lag that is written is
\* within or beyond the maximum, and never beyond "largest", which is u64::MAX.
Assignments ==
    [intended : Networks,
     network : Networks \cup {"other"}, expected : Networks \cup {"other"},
     keys : {"none", "valid", "malformed"}, auth_disabled : BOOLEAN,
     redis : {"unset", "set", "malformed"},
     transport : {"tls", "insecure", "undeclared"},
     manifest : {"empty", "same", "different"}, spec : {"empty", "same", "different"},
     pool : {"incomplete", "set", "malformed"},
     lag : {"unset", "within", "beyond"}, lag_max : {"bounded", "largest"}]

Environment == {e \in Assignments : e.lag = "beyond" => e.lag_max = "bounded"}

VARIABLES phase,    \* how far start-up has come
          env,      \* the settings of this launch, None while down
          redisUp,
          claims,   \* the claim store in use: "none", "redis" or "memory"
          nonces,   \* the nonce store in use
          outage,   \* history: Redis failed since the claim store was verified
          probe,    \* a /readyz request that has asked the providers
          verdict   \* its answer

startVars == <<phase, env, redisUp, claims, nonces, outage, probe, verdict>>

StartInit ==
    /\ phase = "down" /\ env = None
    /\ redisUp \in BOOLEAN
    /\ claims = "none" /\ nonces = "none"
    /\ outage = FALSE /\ probe = "none" /\ verdict = "none"

Down ==
    /\ phase' = "down" /\ env' = None
    /\ claims' = "none" /\ nonces' = "none"
    /\ outage' = FALSE /\ probe' = "none" /\ verdict' = "none"
    /\ UNCHANGED redisUp

Launch ==
    /\ phase = "down"
    /\ phase' = "launched" /\ env' \in Environment
    /\ UNCHANGED <<redisUp, claims, nonces, outage, probe, verdict>>

Continue(next) ==
    /\ phase' = next
    /\ UNCHANGED <<env, redisUp, nonces, outage, probe, verdict>>
-----------------------------------------------------------------------------
\* from_env: an unknown network is the test network.
ParseNetwork(name) == IF name = "mainnet" THEN "mainnet" ELSE "testnet"
Network == ParseNetwork(env.network)
Mainnet == Network = "mainnet"
HasKeys == env.keys = "valid"

\* A key or a pool token that does not parse.
Malformed == "malformed" \in {env.keys, env.pool}

FromEnv ==
    /\ phase = "launched"
    /\ IF Malformed THEN Down
       ELSE Continue("parsed") /\ UNCHANGED claims

PanicsWithoutKeys ==
    Mainnet /\ (~HasKeys \/ env.redis = "unset" \/ env.transport = "undeclared")

\* The panics of validate.
ValidatePanics ==
    /\ Mainnet
    /\ \/ env.auth_disabled
       \/ ~HasKeys
       \/ env.redis = "unset"
       \/ env.transport = "undeclared"

Validate ==
    /\ phase = "parsed"
    /\ IF ValidatePanics THEN Down ELSE Continue("validated") /\ UNCHANGED claims
-----------------------------------------------------------------------------
Reachable == env.redis = "set" /\ redisUp

\* create_claim_store: connect to a configured Redis or give up ...
ConnectClaims ==
    /\ phase = "validated"
    /\ IF env.redis = "unset"
       THEN IF Mainnet THEN Down ELSE Continue("wired") /\ claims' = "memory"
       ELSE IF Reachable THEN Continue("connected") /\ claims' = "redis" ELSE Down

\* ... and ping it.
PingClaims ==
    /\ phase = "connected"
    /\ IF Reachable
       THEN /\ phase' = "wired" /\ outage' = FALSE
            /\ UNCHANGED <<env, redisUp, claims, nonces, probe, verdict>>
       ELSE Down

PerNetwork == IF Mainnet /\ Reachable THEN "redis" ELSE "memory"

\* create_nonce_store falls back to memory when Redis does not answer.
NonceStore == IF Reachable THEN "redis" ELSE "memory"

ConnectNonces ==
    /\ phase = "wired"
    /\ nonces' = NonceStore
    /\ phase' = "bound"
    /\ UNCHANGED <<env, redisUp, claims, outage, probe, verdict>>

\* The port is taken, or the server runs.
Bind ==
    /\ phase = "bound"
    /\ Down \/ (Continue("serving") /\ UNCHANGED claims)
-----------------------------------------------------------------------------
ChecksMainnetOnly == Mainnet /\ ParseNetwork(env.expected) # "mainnet"
WrongNetwork == Network # ParseNetwork(env.expected)

Pinned(value) == value = "same"

\* An unset lag is u64::MAX: more than any maximum but that.
Backlog == env.lag = "beyond" \/ (env.lag = "unset" /\ env.lag_max # "largest")

\* static_readiness: the names of what is wrong.
StaticFailures ==
    LET wrong == [wrong_network |-> WrongNetwork,
                  wrong_manifest |-> ~Pinned(env.manifest),
                  unsupported_contract_spec |-> ~Pinned(env.spec),
                  contract_not_configured |-> env.pool = "incomplete",
                  reconciliation_backlog |-> Backlog]
    IN {f \in DOMAIN wrong : wrong[f]}

\* readyz: the health check asks the providers first ...
Readyz ==
    /\ phase = "serving" /\ probe = "none"
    /\ probe' \in {"up", "down"}
    /\ verdict' = "none"
    /\ UNCHANGED <<phase, env, redisUp, claims, nonces, outage>>

\* ... then the claim store, which is never ready when it is in memory.
Answer ==
    /\ phase = "serving" /\ probe # "none"
    /\ verdict' = IF probe = "up" /\ claims = "redis" /\ redisUp /\ StaticFailures = {}
                  THEN "ready" ELSE "not_ready"
    /\ probe' = "none"
    /\ UNCHANGED <<phase, env, redisUp, claims, nonces, outage>>
-----------------------------------------------------------------------------
RedisFails ==
    /\ redisUp /\ redisUp' = FALSE
    /\ outage' = (phase # "down")
    /\ UNCHANGED <<phase, env, claims, nonces, probe, verdict>>

RedisRecovers ==
    /\ ~redisUp /\ redisUp' = TRUE
    /\ UNCHANGED <<phase, env, claims, nonces, outage, probe, verdict>>

Crash == phase = "serving" /\ Down

StartNext ==
    \/ Launch \/ FromEnv \/ Validate \/ ConnectClaims \/ PingClaims
    \/ ConnectNonces \/ Bind \/ Readyz \/ Answer
    \/ RedisFails \/ RedisRecovers \/ Crash

StartSpec == StartInit /\ [][StartNext]_startVars
-----------------------------------------------------------------------------
\* Whatever the other settings and however Redis behaves, an engine that serves
\* mainnet verifies signatures against at least one key, keeps its claims in
\* Redis, and its operator either attested TLS or accepted plaintext: the override
\* of the attestation is honoured there too (config.rs:284-320, MainnetNeedsTls).
MainnetGuarded ==
    phase = "serving" /\ Mainnet =>
        /\ ~env.auth_disabled /\ HasKeys
        /\ claims = "redis"
        /\ env.transport \in {"tls", "insecure"}

\* What the comments of Config say (config.rs:37-43): on mainnet the engine refuses
\* to start unless TLS is attested, and the override does not change that.
MainnetNeedsTls == phase = "serving" /\ Mainnet => env.transport = "tls"

\* /readyz says ready only of an engine whose claims survive a restart, with
\* the release and the contract that were expected, and a pool; and whose setting
\* RECONCILIATION_LAG_SECONDS is within the maximum, or was left out where the
\* maximum is u64::MAX and admits the default (health.rs:8-20, config.rs:322-340).
\* And although an unknown NETWORK silently means the test network, an engine on
\* the wrong network is never ready as long as one of NETWORK and
\* EXPECTED_NETWORK was written right (config.rs:162-165, 232-235, 324).
ReadyIsSafe ==
    verdict = "ready" =>
        /\ claims = "redis" /\ env.redis = "set"
        /\ env.manifest = "same" /\ env.spec = "same"
        /\ env.pool = "set"
        /\ env.lag = "within" \/ (env.lag = "unset" /\ env.lag_max = "largest")
        /\ env.intended \in {env.network, env.expected} => Network = env.intended

\* With REDIS_URL set, an engine keeps its nonces to itself only if Redis failed
\* in the short time after the claim store was verified (nonce_store.rs:114-131).
PrivateNoncesOnlyByOutage ==
    env # None /\ env.redis = "set" /\ nonces = "memory" => outage
=============================================================================
