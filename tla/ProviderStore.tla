--------------------------- MODULE ProviderStore ---------------------------
(***************************************************************************)
(* The keys, cached models and configuration of one provider:              *)
(* SqliteProviderStore of core/provider_store.py with the request handlers *)
(* of api/providers.py.                                                    *)
(*                                                                         *)
(* An action is one statement of sqlite, which the connection commits at   *)
(* once (isolation_level=None), or the upstream call of a refresh.  The    *)
(* store's lock keeps requests from coming between the statements of an    *)
(* operation, but no error and no end of the process.  Providers share     *)
(* nothing: every statement names its provider.                            *)
(***************************************************************************)
EXTENDS Integers, Sequences

CONSTANTS
  Key,         \* the ids uuid4() can return; never reused
  Model,       \* model ids
  Url,         \* base URLs
  DefaultUrl,  \* the provider's default_base_url
  None,        \* what a config or a request does not say
  Request,     \* request threads
  Answer,      \* the model lists the upstream answers with
  MaxFaults    \* bound: errors raised by sqlite and ends of the process

ASSUME NamesAssumption ==
  /\ None \notin Key \cup Url \cup Request
  /\ DefaultUrl \in Url
ASSUME AnswerAssumption == Answer \subseteq Seq(Model)
ASSUME LimitAssumption == MaxFaults \in Nat

VARIABLES
  keys,      \* the rows of provider_keys
  models,    \* the rows of provider_models, by key id
  config,    \* the row of provider_configs; a url of None: no row
  lock,      \* the request that holds the store's lock, or None
  at,        \* where a request's handler is, see Point
  arg,       \* what it has in hand, see Arg
  issued,    \* the ids that add_key has given out
  faults,    \* counts errors and ends of the process, up to MaxFaults
  excused,   \* history: leftovers of a key that something explains
  before     \* history: the rows before the operation that holds the lock; from
             \* the first error on, the rows before that

rowVars == <<keys, models, config>>
handlerVars == <<lock, at, arg>>
historyVars == <<excused, before>>
vars == <<rowVars, handlerVars, issued, faults, historyVars>>

----------------------------------------------------------------------------
ModelsOf(answer) == {answer[i] : i \in DOMAIN answer}

Config == [url : Url \cup {None}, default : Key \cup {None}]
NoConfig == [url |-> None, default |-> None]

NoRows == [keys |-> {}, models |-> [k \in Key |-> {}], config |-> NoConfig]
Rows == [keys |-> keys, models |-> models, config |-> config]

\* The statement a handler executes next ("fetch": the upstream call).
Unlocked == {"idle", "lookup", "select", "check", "creds", "baseurl", "fetch",
             "purge", "delete"}
Locked == {"write", "insert", "cascade", "undefault"}
Point == Unlocked \cup Locked

\* The key and the config a request is about (`given`: the base_url it came
\* with), the rest of an upstream answer, and the row upsert_config has read.
Arg == [key : Key \cup {None}, default : Key \cup {None},
        given : Url \cup {None}, url : Url \cup {None},
        answer : Seq(Model), row : Config]
NoArg == [key |-> None, default |-> None, given |-> None, url |-> None,
          answer |-> <<>>, row |-> NoConfig]

TypeOK ==
  /\ keys \subseteq issued
  /\ issued \subseteq Key
  /\ models \in [Key -> SUBSET Model]
  /\ config \in Config
  /\ lock \in Request \cup {None}
  /\ at \in [Request -> Point]
  /\ arg \in [Request -> Arg]
  /\ faults \in 0..MaxFaults
  /\ excused \subseteq {"models", "default"} \X Key
  /\ before \in [keys : SUBSET Key, models : [Key -> SUBSET Model], config : Config]

Init ==
  /\ keys = {}
  /\ models = [k \in Key |-> {}]
  /\ config = NoConfig
  /\ lock = None
  /\ at = [r \in Request |-> "idle"]
  /\ arg = [r \in Request |-> NoArg]
  /\ issued = {}
  /\ faults = 0
  /\ excused = {}
  /\ before = NoRows

----------------------------------------------------------------------------
Goto(r, p) == at' = [at EXCEPT ![r] = p]
Finish(r) == Goto(r, "idle") /\ arg' = [arg EXCEPT ![r] = NoArg]

\* A request that does not hold the lock can execute only when nobody does.
MayRead == lock = None

Intact == faults = 0

\* `with self._lock`, first statement: r holds it from here on.
Acquire(r) ==
  /\ lock = None
  /\ lock' = r
  /\ before' = IF Intact THEN Rows ELSE before

Release(r) ==
  /\ lock' = None
  /\ before' = IF Intact THEN NoRows ELSE before

----------------------------------------------------------------------------
\* PUT config

\* Without a base_url, put_config looks whether there is a config.
PutConfig(r, url, default) ==
  /\ at[r] = "idle"
  /\ arg' = [arg EXCEPT ![r].default = default, ![r].given = url, ![r].url = url]
  /\ Goto(r, IF url = None THEN "lookup" ELSE "select")
  /\ UNCHANGED <<rowVars, lock, issued, faults, historyVars>>

\* If not, the request goes on with the default base URL.
Lookup(r) ==
  /\ at[r] = "lookup"
  /\ MayRead
  /\ arg' = [arg EXCEPT ![r].url = IF config.url = None THEN DefaultUrl ELSE None]
  /\ Goto(r, "select")
  /\ UNCHANGED <<rowVars, lock, issued, faults, historyVars>>

\* Slip: the row is read outside the lock.
UpsertSelectUnlocked(r) ==
  /\ at[r] = "select"
  /\ arg' = [arg EXCEPT ![r].row = config]
  /\ Goto(r, "write")
  /\ UNCHANGED <<rowVars, lock, issued, faults, historyVars>>

\* upsert_config reads the row.  The row is never deleted, so a request
\* without a base_url finds it.
UpsertSelect(r) ==
  /\ at[r] = "select"
  /\ Acquire(r)
  /\ arg' = [arg EXCEPT ![r].row = config]
  /\ Goto(r, "write")
  /\ UNCHANGED <<rowVars, issued, faults, excused>>

\* What is given replaces what is there.
Merge(row, url, default) ==
  [url     |-> IF url # None THEN url ELSE row.url,
   default |-> IF default # None THEN default ELSE row.default]

\* It writes every column.  Nobody asks whether the default key exists.
UpsertWrite(r) ==
  /\ at[r] = "write"
  /\ config' = Merge(arg[r].row, arg[r].url, arg[r].default)
  /\ Release(r)
  /\ Finish(r)
  /\ excused' = IF arg[r].default \in issued \ keys
                THEN excused \cup {<<"default", arg[r].default>>} ELSE excused
  /\ UNCHANGED <<keys, models, issued, faults>>

----------------------------------------------------------------------------
\* POST keys and POST models/refresh

\* add_key inserts the key; the handler goes on with a refresh.
AddKey(r, k) ==
  /\ at[r] = "idle"
  /\ MayRead
  /\ k \notin issued
  /\ issued' = issued \cup {k}
  /\ keys' = keys \cup {k}
  /\ arg' = [arg EXCEPT ![r].key = k]
  /\ Goto(r, "creds")
  /\ UNCHANGED <<models, config, lock, faults, historyVars>>

RefreshModels(r, k) ==
  /\ at[r] = "idle"
  /\ arg' = [arg EXCEPT ![r].key = k]
  /\ Goto(r, "check")
  /\ UNCHANGED <<rowVars, lock, issued, faults, historyVars>>

OnlyHandler == UNCHANGED <<rowVars, lock, issued, faults, historyVars>>

\* list_keys: an unknown key is refused.
CheckKey(r) ==
  /\ at[r] = "check"
  /\ MayRead
  /\ \/ arg[r].key \in keys /\ Goto(r, "creds") /\ UNCHANGED arg
     \/ arg[r].key \notin keys /\ Finish(r)
  /\ OnlyHandler

\* Slip: the credentials are not looked up again.
GetCredentialsBlindly(r) ==
  at[r] = "creds" /\ MayRead /\ Goto(r, "baseurl") /\ UNCHANGED arg /\ OnlyHandler

\* get_key_credentials: a key that has gone ends the request.
GetCredentials(r) ==
  /\ at[r] = "creds"
  /\ MayRead
  /\ \/ arg[r].key \in keys /\ Goto(r, "baseurl") /\ UNCHANGED arg
     \/ arg[r].key \notin keys /\ Finish(r)
  /\ OnlyHandler

\* _resolve_base_url; which URL it is makes no difference here.
ResolveBaseUrl(r) ==
  at[r] = "baseurl" /\ MayRead /\ Goto(r, "fetch") /\ UNCHANGED arg /\ OnlyHandler

\* The upstream lists its models, or fails.
Fetch(r) ==
  /\ at[r] = "fetch"
  /\ \/ /\ \E answer \in Answer : arg' = [arg EXCEPT ![r].answer = answer]
        /\ Goto(r, "purge")
     \/ Finish(r)
  /\ OnlyHandler

\* Slip: the old models are kept.
PurgeNothing(r) ==
  /\ at[r] = "purge"
  /\ Acquire(r)
  /\ Goto(r, "insert")
  /\ UNCHANGED <<rowVars, arg, issued, faults, excused>>

\* replace_models deletes the old rows ...
Purge(r) ==
  /\ at[r] = "purge"
  /\ Acquire(r)
  /\ models' = [models EXCEPT ![arg[r].key] = {}]
  /\ Goto(r, "insert")
  /\ UNCHANGED <<keys, config, arg, issued, faults, excused>>

\* ... and inserts the new ones, as long as the primary key allows it: a model
\* that is listed twice raises, and what has been inserted stays.
CanInsert(answer, ms) == answer # <<>> /\ Head(answer) \notin ms

InsertModel(r) ==
  /\ at[r] = "insert"
  /\ LET k == arg[r].key
         answer == arg[r].answer
     IN  \/ /\ CanInsert(answer, models[k])
            /\ models' = [models EXCEPT ![k] = @ \cup {Head(answer)}]
            /\ arg' = [arg EXCEPT ![r].answer = Tail(answer)]
            /\ UNCHANGED <<lock, at, before>>
         \/ /\ ~CanInsert(answer, models[k])
            /\ Release(r)
            /\ Finish(r)
            /\ UNCHANGED models
  /\ UNCHANGED <<keys, config, issued, faults, excused>>

----------------------------------------------------------------------------
\* DELETE keys/{key_id}

DeleteKey(r, k) ==
  /\ at[r] = "idle"
  /\ arg' = [arg EXCEPT ![r].key = k]
  /\ Goto(r, "delete")
  /\ UNCHANGED <<rowVars, lock, issued, faults, historyVars>>

\* Requests that have read k's credentials and will store its models.
Refreshing(k) ==
  {r \in Request : arg[r].key = k /\ at[r] \in {"baseurl", "fetch", "purge", "insert"}}

\* delete_key drops the key, ...
DeleteRow(r) ==
  /\ at[r] = "delete"
  /\ Acquire(r)
  /\ keys' = keys \ {arg[r].key}
  /\ excused' = IF Refreshing(arg[r].key) # {}
                THEN excused \cup {<<"models", arg[r].key>>} ELSE excused
  /\ Goto(r, "cascade")
  /\ UNCHANGED <<models, config, arg, issued, faults>>

\* Slip: the models are left to themselves.
CascadeNothing(r) ==
  at[r] = "cascade" /\ Goto(r, "undefault") /\ UNCHANGED arg /\ OnlyHandler

\* ... its models ...
Cascade(r) ==
  /\ at[r] = "cascade"
  /\ models' = [models EXCEPT ![arg[r].key] = {}]
  /\ Goto(r, "undefault")
  /\ UNCHANGED <<keys, config, lock, arg, issued, faults, historyVars>>

\* ... and its mark as the default key.
ClearDefault(r) ==
  /\ at[r] = "undefault"
  /\ config' = [config EXCEPT !.default = IF @ = arg[r].key THEN None ELSE @]
  /\ Release(r)
  /\ Finish(r)
  /\ UNCHANGED <<keys, models, issued, faults, excused>>

----------------------------------------------------------------------------
\* Errors and the end of the process.  From the first one on every leftover
\* is explained, and `before` keeps the rows as they were shown before it.

Blame ==
  /\ excused' = {"models", "default"} \X Key
  /\ before' = IF Intact /\ lock = None THEN Rows ELSE before

\* Slip: acquire() and release() instead of `with`, and no finally.
RaiseHolding(r) ==
  /\ at[r] \notin {"idle", "fetch"}
  /\ lock \in {None, r}
  /\ faults < MaxFaults
  /\ faults' = faults + 1
  /\ Finish(r)
  /\ Blame
  /\ UNCHANGED <<rowVars, lock, issued>>

\* A statement raises; `with` gives the lock back.
Raise(r) ==
  /\ at[r] \notin {"idle", "fetch"}
  /\ lock \in {None, r}
  /\ faults < MaxFaults
  /\ faults' = faults + 1
  /\ lock' = None
  /\ Finish(r)
  /\ Blame
  /\ UNCHANGED <<rowVars, issued>>

Restart ==
  /\ faults < MaxFaults
  /\ faults' = faults + 1
  /\ lock' = None
  /\ at' = [r \in Request |-> "idle"]
  /\ arg' = [r \in Request |-> NoArg]
  /\ Blame
  /\ UNCHANGED <<rowVars, issued>>

----------------------------------------------------------------------------
\* A client names keys it was told of.
Arrive(r) ==
  \/ \E url \in Url \cup {None}, default \in issued \cup {None} :
       PutConfig(r, url, default)
  \/ \E k \in Key : AddKey(r, k)
  \/ \E k \in issued : RefreshModels(r, k) \/ DeleteKey(r, k)

Step(r) ==
  \/ Lookup(r) \/ UpsertSelect(r) \/ UpsertWrite(r)
  \/ CheckKey(r) \/ GetCredentials(r) \/ ResolveBaseUrl(r) \/ Fetch(r)
  \/ Purge(r) \/ InsertModel(r)
  \/ DeleteRow(r) \/ Cascade(r) \/ ClearDefault(r)
  \/ Raise(r)

Next == (\E r \in Request : Arrive(r) \/ Step(r)) \/ Restart

Spec == Init /\ [][Next]_vars
=============================================================================
