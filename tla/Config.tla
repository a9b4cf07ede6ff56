-------------------------------- MODULE Config --------------------------------
(***************************************************************************)
(* What the gateway makes of its environment variables: Validate of        *)
(* internal/gateway/config.go, the choice of a client for the tokens in    *)
(* InitTokenStores of token_store.go and the chain of AI providers of      *)
(* ai_engine.go.  A setting that is only tested for being there is a       *)
(* Boolean here.                                                           *)
(***************************************************************************)
EXTENDS Sequences, Naturals

Providers  == {"openclaw", "iflyelf"}
Strategies == {"openclaw_first", "iflyelf_first", "openclaw_only", "iflyelf_only", "unknown"}
StoreTypes == {"file", "redis", "unknown"}
RedisModes == {"standalone", "cluster", "sentinel", "Sentinel", "unknown"}

Configs ==
  [n9e: BOOLEAN,                                  \* N9E_API_URL and N9E_API_TOKEN
   enabled: SUBSET Providers,                     \* OPENCLAW_ENABLED, IFLYELF_ENABLED
   url: SUBSET Providers, token: SUBSET Providers,
   strategy: Strategies,                          \* AI_PROVIDER_STRATEGY
   store: StoreTypes,                             \* TOKEN_STORE_TYPE
   addr: BOOLEAN, mode: RedisModes, master: BOOLEAN]  \* REDIS_ADDR, REDIS_MODE, REDIS_MASTER_NAME

\* Fault: a provider that has one of the two settings passes.
ValidateLoosely(c) ==
  /\ c.n9e
  /\ c.enabled \subseteq c.url \cup c.token
  /\ c.store = "redis" => c.addr /\ (c.mode = "sentinel" => c.master)

Validate(c) ==
  /\ c.n9e
  /\ c.enabled \subseteq c.url \cap c.token
  /\ c.store = "redis" => c.addr /\ (c.mode = "sentinel" => c.master)

\* The mode is compared in lower case here, and as it is in Validate.
LowerCase(mode) == IF mode = "Sentinel" THEN "sentinel" ELSE mode

\* What the tokens are kept in: files, or Redis by one of three clients.
StoreClient(c) ==
  CASE c.store # "redis" \/ ~c.addr                    -> "file"
    [] c.store = "redis" /\ c.addr
       /\ LowerCase(c.mode) \in {"cluster", "sentinel"} -> LowerCase(c.mode)
    [] OTHER                                            -> "standalone"

\* What the guide says of the strategies: who may be asked, and who comes first.
Permitted(strategy) ==
  CASE strategy = "openclaw_only" -> {"openclaw"}
    [] strategy = "iflyelf_only"  -> {"iflyelf"}
    [] OTHER                      -> Providers

First(strategy) == IF strategy \in {"iflyelf_first", "iflyelf_only"} THEN "iflyelf" ELSE "openclaw"

\* A provider in the chain, unless it is nil, when filterNil drops it.
Link(c, p) == IF p \in c.enabled THEN <<p>> ELSE <<>>

\* Fault: the strategy names one provider.
ProviderChainOfFirst(c) == Link(c, First(c.strategy))

\* resolveProviderChain.
ProviderChain(c) ==
  CASE c.strategy = "iflyelf_first" -> Link(c, "iflyelf") \o Link(c, "openclaw")
    [] c.strategy = "openclaw_only" -> Link(c, "openclaw")
    [] c.strategy = "iflyelf_only"  -> Link(c, "iflyelf")
    [] OTHER                        -> Link(c, "openclaw") \o Link(c, "iflyelf")

\* What a configuration should lead to.
Sound(c) ==
  LET chain == ProviderChain(c)
      asked == {chain[i] : i \in DOMAIN chain} IN
  /\ asked = c.enabled \cap Permitted(c.strategy)
  /\ asked \subseteq c.url /\ asked \subseteq c.token
  /\ \A i, j \in DOMAIN chain : chain[i] = chain[j] => i = j
  /\ First(c.strategy) \in asked => chain[1] = First(c.strategy)
  /\ c.store = "redis" => StoreClient(c) # "file"

ValidOnesSound == \A c \in Configs : Validate(c) => Sound(c)
===============================================================================
