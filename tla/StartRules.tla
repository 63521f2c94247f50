------------------------------ MODULE StartRules ------------------------------
(***************************************************************************)
(* How a process is configured before it takes a data root: the server     *)
(* from environment variables (bin/src/server/mod.rs, config.rs), an       *)
(* embedded engine from a record (ffi/src/lib.rs, types.rs), both through   *)
(* EngineBuilder (core/src/engine.rs).  No state; EmbeddedHandle drives it. *)
(*                                                                         *)
(* An option is the set of its values: empty for None.  So is the result of *)
(* a parse: empty when the text is refused.  An environment variable is     *)
(* unset, not Unicode, blank, a number or some other text.                  *)
(***************************************************************************)
EXTENDS FfiRules

CONSTANTS Defaults,  \* [world, memory, listen, replay, cache]: the DEFAULT_ constants
          MaxUsize   \* the largest usize

ASSUME StartAssumption ==
    \A f \in {"world", "memory", "listen", "replay", "cache"} : Defaults[f] \in 1..MaxUsize

OrDefault(option, default) == IF option = {} THEN default ELSE CHOOSE n \in option : TRUE

(* ---- EngineBuilder ------------------------------------------------------ *)
NonEmptyBytes(bytes) == IF bytes = "blank" THEN NoToken ELSE bytes

\* Mutant of NonzeroOrDefault: zero is taken literally.
NonzeroOrDefaultKeepsZero(n, default) == n
NonzeroOrDefault(n, default) == IF n = 0 THEN default ELSE n

\* What the setters make of the values they are called with.
BuilderSettings(tokens, world, memory, storage, listen, replay, cache) ==
    [tokens |-> tokens, world |-> world, memory |-> memory,
     storage |-> {n \in storage : n > 0},
     listen |-> NonzeroOrDefault(listen, Defaults.listen),
     replay |-> NonzeroOrDefault(replay, Defaults.replay),
     cache |-> NonzeroOrDefault(cache, Defaults.cache)]

NoTokens == [read |-> NoToken, write |-> NoToken, approve |-> NoToken]
BuilderDefault ==
    BuilderSettings(NoTokens, Defaults.world, Defaults.memory, {}, Defaults.listen,
                    Defaults.replay, Defaults.cache)

\* AuditHmacKey::new: neither blank nor shorter than MIN_HMAC_KEY_BYTES.
AuditHmacKey(bytes) == {bytes} \ {"blank", "short"}

(* ---- from the environment ----------------------------------------------- *)
ParseUsizeEnvValue(v) == IF v.is = "number" /\ v.n <= MaxUsize THEN {v.n} ELSE {}

EnvUsize(v, default) == IF v.is = "unset" THEN {default} ELSE ParseUsizeEnvValue(v)

\* Unset and blank mean no limit, and so does zero.
EnvOptionalUsize(v) ==
    IF v.is \in {"unset", "blank"} THEN {{}}
    ELSE {{m \in {n} : m > 0} : n \in ParseUsizeEnvValue(v)}

EnvNonzeroUsize(v, default) == {IF n = 0 THEN default ELSE n : n \in EnvUsize(v, default)}

\* AUDITEDB_PORT is not trimmed; zero is a port.
EnvPort(v) ==
    CASE v.is = "unset" -> {3105}
      [] v.is = "number" -> {v.n} \cap 0..(2^16 - 1)
      [] OTHER -> {}

\* hmac_key_from_env_value; a key that is absent or not Unicode is refused first.
EnvKey(v) == IF v.is = "text" THEN AuditHmacKey(v.value) ELSE {}

\* A token that is not Unicode counts as unset, like one that is blank.
NonemptyEnv(v) == IF v.is = "text" THEN v.value ELSE NoToken
ServerTokens(env) ==
    [read |-> NonemptyEnv(env.read), write |-> NonemptyEnv(env.write),
     approve |-> NonemptyEnv(env.approve)]
ConfigureTokens(t) ==
    [read |-> NonEmptyBytes(t.read), write |-> NonEmptyBytes(t.write),
     approve |-> NonEmptyBytes(t.approve)]

\* run_from_env up to the builder: every variable is parsed before the data root
\* is touched, and one bad value stops the start.
RunFromEnv(env) ==
    {BuilderSettings(ConfigureTokens(ServerTokens(env)), world, memory, storage, listen, replay, cache) :
        port \in EnvPort(env.port),
        world \in EnvUsize(env.world, Defaults.world),
        memory \in EnvUsize(env.memory, Defaults.memory),
        storage \in EnvOptionalUsize(env.storage),
        listen \in EnvNonzeroUsize(env.listen, Defaults.listen),
        replay \in EnvNonzeroUsize(env.replay, Defaults.replay),
        cache \in EnvNonzeroUsize(env.cache, Defaults.cache),
        key \in EnvKey(env.key)}

\* print_auth_summary: the three gates as the server announces them.
AuthSummary(t) ==
    [read |-> IF t.read # NoToken THEN "token required" ELSE "public",
     write |-> IF t.write # NoToken THEN "token required" ELSE "disabled",
     approve |-> IF t.approve # NoToken THEN "token required" ELSE "disabled"]

(* ---- from a record ------------------------------------------------------- *)
OptionalUsize(option) == {o \in {option} : \A n \in o : n <= MaxUsize}
FfiToken(option) == NonEmptyBytes(OrDefault(option, "blank"))

\* FfiEngine::open up to the builder.  The key is converted first.
FfiOpenError(config) ==
    IF AuditHmacKey(config.key) = {} THEN "InvalidSecret" ELSE "InvalidConfig"
FfiOpen(config) ==
    {BuilderSettings([read |-> FfiToken(config.read), write |-> FfiToken(config.write),
                      approve |-> FfiToken(config.approve)],
                     OrDefault(world, Defaults.world), OrDefault(memory, Defaults.memory), storage,
                     OrDefault(listen, Defaults.listen), OrDefault(replay, Defaults.replay),
                     OrDefault(cache, Defaults.cache)) :
        key \in AuditHmacKey(config.key),
        world \in OptionalUsize(config.world), memory \in OptionalUsize(config.memory),
        storage \in OptionalUsize(config.storage), listen \in OptionalUsize(config.listen),
        replay \in OptionalUsize(config.replay), cache \in OptionalUsize(config.cache)}

\* FfiEngineConfig::summary, made before anything is converted.
TokenConfigured(option) == option \ {"blank"} # {}
NonzeroOverride(option) == option \ {0}
ConfigSummary(config) ==
    [hasRead |-> TokenConfigured(config.read), hasWrite |-> TokenConfigured(config.write),
     hasApprove |-> TokenConfigured(config.approve),
     world |-> config.world, memory |-> config.memory,
     storage |-> NonzeroOverride(config.storage), listen |-> NonzeroOverride(config.listen),
     replay |-> NonzeroOverride(config.replay), cache |-> NonzeroOverride(config.cache)]

\* Engine.__init__ of the SDK sets the key and nothing else.
SdkConfig(key) ==
    [key |-> key, read |-> {}, write |-> {}, approve |-> {}, world |-> {}, memory |-> {},
     storage |-> {}, listen |-> {}, replay |-> {}, cache |-> {}]
===============================================================================
