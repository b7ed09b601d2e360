-------------------------- MODULE ProviderCatalog --------------------------
(***************************************************************************)
(* What a ProviderStore promises, for one provider, as                     *)
(* InMemoryProviderStore keeps it: every operation takes effect at once.   *)
(***************************************************************************)
CONSTANTS
  Key,   \* the ids of keys
  Model, \* the ids of models
  Url,   \* base URLs
  None   \* what a config does not say

VARIABLES
  keys,    \* the keys that are stored
  models,  \* the cached models of every key id
  config   \* base_url and default_key_id; a base_url of None: no config

catalogVars == <<keys, models, config>>

Config == [url : Url \cup {None}, default : Key \cup {None}]

CatalogInit ==
  /\ keys = {}
  /\ models = [k \in Key |-> {}]
  /\ config = [url |-> None, default |-> None]

\* upsert_config: what is given replaces what is there.
Merge(cfg, url, default) ==
  [url     |-> IF url # None THEN url ELSE cfg.url,
   default |-> IF default # None THEN default ELSE cfg.default]

UpsertConfig(url, default) ==
  /\ config.url # None \/ url # None
  /\ config' = Merge(config, url, default)
  /\ UNCHANGED <<keys, models>>

AddKey(k) == keys' = keys \cup {k} /\ UNCHANGED <<models, config>>

WithoutDefault(cfg, k) ==
  [cfg EXCEPT !.default = IF @ = k THEN None ELSE @]

DeleteKey(k) ==
  /\ keys' = keys \ {k}
  /\ models' = [models EXCEPT ![k] = {}]
  /\ config' = WithoutDefault(config, k)

ReplaceModels(k, ms) ==
  /\ models' = [models EXCEPT ![k] = ms]
  /\ UNCHANGED <<keys, config>>

CatalogNext ==
  \/ \E url \in Url \cup {None}, default \in Key \cup {None} :
       UpsertConfig(url, default)
  \/ \E k \in Key : AddKey(k) \/ DeleteKey(k)
  \/ \E k \in Key, ms \in SUBSET Model : ReplaceModels(k, ms)

CatalogSpec == CatalogInit /\ [][CatalogNext]_catalogVars
=============================================================================
