------------------------------- MODULE Startup -------------------------------
(***************************************************************************)
(* How the backend comes up: the layered configuration (config.py,         *)
(* config_layers.py), Storage.init_db with its column migrations, backfill *)
(* and seed import (core/storage.py), the master key of core/secret_box.py *)
(* and the demo token of main.py; with scripts/init_db.py run beside the   *)
(* server, the template requests of api/prompts.py, crashes at any point   *)
(* and an operator who changes the environment between two starts.         *)
(*                                                                         *)
(* The connections are in autocommit mode: an action is one statement on   *)
(* the database, or one open or write of a file.                           *)
(***************************************************************************)
EXTENDS Naturals, Sequences

CONSTANTS
  Legacy,        \* task rows with input_image_path and no input_image_paths
  OldSchemas,    \* the columns a database may have before the first start
  Base,          \* slugs of template titles
  MaxSuffix,     \* bound, by base: the last of the ids base, base-2, ...
  Seeds,         \* the bases of the well-formed seed files, by file name
  Sample,        \* the base of the bundled template
  Environments,  \* [mode, key]: VIBE_MODE, VIBE_SECRET_KEY
  Yaml,          \* [mode, key]: the same settings of config.yaml
  None,          \* no box, no token, no template in the making
  Random,        \* bound: keys and tokens that are generated
  MaxCrashes     \* bound: crashes of the server and of the script

Setting == {"unset", "normal", "demo", "valid", "odd"}

ASSUME BoundAssumption ==
  /\ MaxSuffix \in [Base -> Nat \ {0}] /\ MaxCrashes \in Nat
ASSUME RandomAssumption == Random \cap {None, "none", "torn", "env"} = {}
ASSUME TemplateAssumption == Seeds \in Seq(Base) /\ Sample \in Base
ASSUME SettingAssumption ==
  /\ Environments \subseteq [mode : Setting, key : Setting]
  /\ Environments # {}
  /\ Yaml \in [mode : Setting, key : Setting]

VARIABLES
  schema,     \* the columns that matter; {}: no tables yet
  unfilled,   \* the rows of Legacy without input_image_paths
  templates,  \* prompt_templates by id: "none", the text of a "seed" or of a "user"
  phase,      \* the server: what it does next
  env,        \* the environment of the server and the script
  at,         \* how far an initialiser is in Plan; 0: it does not run
  cols,       \* the columns it has probed
  seed,       \* the seed file it is at
  absent,     \* it has found the id of that seed absent, and inserts it next
  again,      \* the script: init_db runs for the second time
  saving,     \* save_prompt: the id that was found free
  keyFile,    \* data/master.key: "none", "torn", or the key
  box,        \* the master key of the server: "env", or the key
  sealed,     \* the keys that stored credentials are encrypted with
  tokenFile,  \* data/demo_token.txt: "none", "torn", or the token
  token,      \* app.state.demo_token: "env", "torn", or the token
  invited,    \* history: the generated tokens that have been valid
  used,       \* the generated keys and tokens
  crashes     \* counts crashes, up to MaxCrashes

dbVars == <<schema, unfilled, templates>>
initVars == <<at, cols, seed, absent, again>>
keyVars == <<keyFile, box, sealed>>
tokenVars == <<tokenFile, token, invited>>
vars == <<dbVars, phase, env, initVars, saving, keyVars, tokenVars, used, crashes>>

----------------------------------------------------------------------------
\* Configuration

\* apply_env_overrides: an empty variable does not override.
Effective(field) == IF env[field] # "unset" THEN env[field] ELSE Yaml[field]

Mode == IF Effective("mode") = "unset" THEN "normal" ELSE Effective("mode")

\* load_config: AppConfig validates the mode, among others.
ConfigOK == Mode \in {"normal", "demo"}

----------------------------------------------------------------------------
\* Storage.init_db, as the list of its statements.  "text" is the prompt column
\* of prompt_templates, "task_title" the title of tasks; "providers" stands for
\* the tables of providers.sql.

Script(old, new) == [op |-> "script", old |-> old, new |-> new]
Probe == [op |-> "probe", old |-> "", new |-> {}]
Rename(old, new) == [op |-> "rename", old |-> old, new |-> {new}]
Add(new) == [op |-> "add", old |-> "", new |-> {new}]
Backfill == [op |-> "backfill", old |-> "", new |-> {}]
Import == [op |-> "import", old |-> "", new |-> {}]

TaskModule ==
  <<Script("prompt_text", {"prompt", "prompt_template_id", "task_title"}), Probe,
    Rename("prompt_text", "prompt"), Rename("prompt_id", "prompt_template_id"),
    Probe, Add("provider_id"), Add("key_id"), Add("input_image_path"),
    Probe, Add("input_image_paths"), Backfill>>
TemplateModule ==
  <<Script("name", {"title", "text"}), Probe,
    Rename("name", "title"), Rename("content", "text"), Import>>
ProviderModule == <<Script("", {"providers"})>>

Plan == TaskModule \o TemplateModule \o ProviderModule

Current == UNION {Plan[i].new : i \in DOMAIN Plan}
Outdated == {Plan[i].old : i \in {j \in DOMAIN Plan : Plan[j].op = "rename"}}

\* A table has each renamed column under one of its two names.
There(module, columns) ==
  \A i \in DOMAIN module :
    module[i].op = "rename" => (module[i].old \in columns <=> ~(module[i].new \subseteq columns))
Columns(module) == UNION {module[i].new \cup {module[i].old} : i \in DOMAIN module}
Whole(module, columns) == columns \cap Columns(module) = {} \/ There(module, columns)

\* Databases as the scripts of a release made them: no other columns than those
\* the statements know, and of each table either none or all.
ASSUME SchemaAssumption ==
  \A columns \in OldSchemas :
    /\ columns \subseteq Current \cup Outdated
    /\ Whole(TaskModule, columns) /\ Whole(TemplateModule, columns)

Initialiser == {"server", "script"}
Id == UNION {{b} \X (1..MaxSuffix[b]) : b \in Base}

TypeOK ==
  /\ schema \subseteq Current \cup Outdated
  /\ unfilled \subseteq Legacy
  /\ templates \in [Id -> {"none", "seed", "user"}]
  /\ phase \in {"down", "init", "secrets", "key", "token", "serving"}
  /\ env \in Environments
  /\ at \in [Initialiser -> 0..Len(Plan)]
  /\ cols \in [Initialiser -> SUBSET (Current \cup Outdated)]
  /\ seed \in [Initialiser -> 1..Len(Seeds) + 1]
  /\ absent \in [Initialiser -> BOOLEAN]
  /\ again \in BOOLEAN
  /\ saving \in Id \cup {None}
  /\ keyFile \in {"none", "torn"} \cup Random
  /\ box \in {None, "env"} \cup Random
  /\ sealed \subseteq {"env"} \cup Random
  /\ tokenFile \in {"none", "torn"} \cup Random
  /\ token \in {None, "env", "torn"} \cup Random
  /\ invited \subseteq {"torn"} \cup Random
  /\ used \subseteq Random
  /\ crashes \in 0..MaxCrashes

Init ==
  /\ schema \in OldSchemas
  /\ unfilled = IF "input_image_path" \in schema THEN Legacy ELSE {}
  /\ templates = [id \in Id |-> "none"]
  /\ phase = "down"
  /\ env \in Environments
  /\ at = [p \in Initialiser |-> 0]
  /\ cols = [p \in Initialiser |-> {}]
  /\ seed = [p \in Initialiser |-> 1]
  /\ absent = [p \in Initialiser |-> FALSE]
  /\ again = FALSE
  /\ saving = None
  /\ keyFile = "none" /\ box = None /\ sealed = {}
  /\ tokenFile = "none" /\ token = None /\ invited = {}
  /\ used = {}
  /\ crashes = 0

----------------------------------------------------------------------------
\* Both initialisers

\* Slip: the last statement is taken for one in the middle.
BeyondLast(p) == at[p] + 1

\* The script calls init_db twice, in Storage() and in main.
After(p) ==
  IF at[p] < Len(Plan) THEN at[p] + 1
  ELSE IF p = "script" /\ ~again THEN 1 ELSE 0

Proceed(p) ==
  /\ at' = [at EXCEPT ![p] = After(p)]
  /\ again' = IF p = "script" /\ at[p] = Len(Plan) THEN ~again ELSE again
  /\ phase' = IF p = "server" /\ at[p] = Len(Plan) THEN "secrets" ELSE phase

\* An exception leaves init_db: the process ends with it.
Abort(p) ==
  /\ at' = [at EXCEPT ![p] = 0]
  /\ again' = IF p = "script" THEN FALSE ELSE again
  /\ phase' = IF p = "server" THEN "down" ELSE phase
  /\ cols' = [cols EXCEPT ![p] = {}]
  /\ seed' = [seed EXCEPT ![p] = 1]
  /\ absent' = [absent EXCEPT ![p] = FALSE]

Doing(p, op) == at[p] # 0 /\ Plan[at[p]].op = op

\* CREATE TABLE IF NOT EXISTS.
RunScript(p) ==
  LET step == Plan[at[p]] IN
  /\ Doing(p, "script")
  /\ schema' = IF schema \cap (step.new \cup {step.old}) = {} THEN schema \cup step.new
               ELSE schema
  /\ Proceed(p)
  /\ UNCHANGED <<unfilled, templates, cols, seed, absent>>

\* PRAGMA table_info.
Look(p) ==
  /\ Doing(p, "probe")
  /\ cols' = [cols EXCEPT ![p] = schema]
  /\ Proceed(p)
  /\ UNCHANGED <<dbVars, seed, absent>>

\* Slip: the column is added without a look at the columns.
AddsAlways(p, step) == step.op = "add" \/ step.old \in cols[p]

\* What the ALTER TABLE statements are guarded with.
Alters(p, step) ==
  /\ step.new \cap cols[p] = {}
  /\ step.op = "rename" => step.old \in cols[p]

\* ALTER TABLE.  A column the other process has added or renamed since the
\* probe is an OperationalError.
Alter(p) ==
  LET step == Plan[at[p]] IN
  /\ Doing(p, "rename") \/ Doing(p, "add")
  /\ IF ~Alters(p, step)
     THEN Proceed(p) /\ UNCHANGED <<schema, cols, seed, absent>>
     ELSE IF step.new \cap schema # {} \/ (step.op = "rename" /\ step.old \notin schema)
          THEN Abort(p) /\ UNCHANGED schema
          ELSE /\ schema' = (schema \ {step.old}) \cup step.new
               /\ Proceed(p)
               /\ UNCHANGED <<cols, seed, absent>>
  /\ UNCHANGED <<unfilled, templates>>

\* _backfill_input_image_paths: row after row; a row the other process has
\* filled since the SELECT gets the same list again.
Fill(p, row) ==
  /\ Doing(p, "backfill")
  /\ row \in unfilled
  /\ unfilled' = unfilled \ {row}
  /\ UNCHANGED <<schema, templates, initVars, phase>>

\* Slip: fetchone for fetchall.
FilledOne == unfilled # Legacy

Filled == unfilled = {}

FillEnd(p) ==
  /\ Doing(p, "backfill")
  /\ Filled
  /\ Proceed(p)
  /\ UNCHANGED <<dbVars, cols, seed, absent>>

SeedId(p) == <<Seeds[seed[p]], 1>>

\* init_prompt_templates_from_files: the check of an id ...
ImportCheck(p) ==
  /\ Doing(p, "import") /\ seed[p] <= Len(Seeds) /\ ~absent[p]
  /\ IF templates[SeedId(p)] = "none"
     THEN absent' = [absent EXCEPT ![p] = TRUE] /\ UNCHANGED seed
     ELSE seed' = [seed EXCEPT ![p] = @ + 1] /\ UNCHANGED absent
  /\ UNCHANGED <<dbVars, at, cols, again, phase>>

\* Slip: INSERT OR REPLACE.
Replaces(id) == FALSE

\* An INSERT of an id that is there is an IntegrityError.
Conflicts(id) == templates[id] # "none"

\* ... and its INSERT.
ImportInsert(p) ==
  /\ absent[p]
  /\ IF Conflicts(SeedId(p))
     THEN Abort(p) /\ UNCHANGED templates
     ELSE /\ templates' = [templates EXCEPT ![SeedId(p)] = "seed"]
          /\ absent' = [absent EXCEPT ![p] = FALSE]
          /\ seed' = [seed EXCEPT ![p] = @ + 1]
          /\ UNCHANGED <<at, cols, again, phase>>
  /\ UNCHANGED <<schema, unfilled>>

ImportEnd(p) ==
  /\ Doing(p, "import") /\ seed[p] > Len(Seeds)
  /\ seed' = [seed EXCEPT ![p] = 1]
  /\ Proceed(p)
  /\ UNCHANGED <<dbVars, cols, absent>>

Initialise(p) ==
  /\ \/ RunScript(p) \/ Look(p) \/ Alter(p) \/ FillEnd(p)
     \/ ImportCheck(p) \/ ImportInsert(p) \/ ImportEnd(p)
     \/ \E row \in Legacy : Fill(p, row)
  /\ UNCHANGED <<env, saving, keyVars, tokenVars, used, crashes>>

\* scripts/init_db.py.
ScriptStart ==
  /\ at["script"] = 0
  /\ ConfigOK
  /\ at' = [at EXCEPT !["script"] = 1]
  /\ UNCHANGED <<dbVars, phase, env, cols, seed, absent, again, saving, keyVars,
                 tokenVars, used, crashes>>

----------------------------------------------------------------------------
\* The server: main.py, secret_box.py

\* create_app, and _lifespan up to Storage().
Start ==
  /\ phase = "down"
  /\ ConfigOK
  /\ phase' = "init"
  /\ at' = [at EXCEPT !["server"] = 1]
  /\ UNCHANGED <<dbVars, env, cols, seed, absent, again, saving, keyVars,
                 tokenVars, used, crashes>>

\* _build_provider_store in normal mode: SecretBox looks at the environment
\* only, never at config.yaml, and ends the start when it finds no key in it.
MasterKey ==
  /\ phase = "secrets" /\ Mode = "normal"
  /\ \/ /\ env.key = "valid"
        /\ box' = "env" /\ phase' = "serving"
     \/ /\ env.key \notin {"valid", "unset"}
        /\ box' = None /\ phase' = "down"
     \/ /\ env.key = "unset" /\ keyFile = "torn"
        /\ box' = None /\ phase' = "down"
     \/ /\ env.key = "unset" /\ keyFile \notin {"none", "torn"}
        /\ box' = keyFile /\ phase' = "serving"
  /\ UNCHANGED <<dbVars, env, initVars, saving, keyFile, sealed, tokenVars, used,
                 crashes>>

\* Slip: the file is not looked for.
FreshAlways(file) == TRUE

\* exists()
Fresh(file) == file = "none"

\* write_bytes and write_text create the file, then write it.
OpenKey ==
  /\ phase = "secrets" /\ Mode = "normal" /\ env.key = "unset"
  /\ Fresh(keyFile)
  /\ keyFile' = "torn" /\ phase' = "key"
  /\ UNCHANGED <<dbVars, env, initVars, saving, box, sealed, tokenVars, used,
                 crashes>>

\* os.urandom, token_urlsafe: one that was never used.
Secret == CHOOSE key \in Random : key \notin used

WriteKey ==
  /\ phase = "key" /\ used # Random
  /\ used' = used \cup {Secret}
  /\ keyFile' = Secret /\ box' = Secret
  /\ phase' = "serving"
  /\ UNCHANGED <<dbVars, env, initVars, saving, sealed, tokenVars, crashes>>

\* _init_demo_token: the effective secret_key, or the file, stripped: an empty
\* file makes an empty token, and the middleware then refuses everyone.
DemoToken ==
  /\ phase = "secrets" /\ Mode = "demo"
  /\ \/ /\ Effective("key") # "unset"
        /\ token' = "env" /\ UNCHANGED invited
     \/ /\ Effective("key") = "unset" /\ tokenFile # "none"
        /\ token' = tokenFile
        /\ invited' = invited \cup ({tokenFile} \ {"torn"})
  /\ phase' = "serving"
  /\ UNCHANGED <<dbVars, env, initVars, saving, keyVars, tokenFile, used, crashes>>

OpenToken ==
  /\ phase = "secrets" /\ Mode = "demo" /\ Effective("key") = "unset"
  /\ Fresh(tokenFile)
  /\ tokenFile' = "torn" /\ phase' = "token"
  /\ UNCHANGED <<dbVars, env, initVars, saving, keyVars, token, invited, used,
                 crashes>>

WriteToken ==
  /\ phase = "token" /\ used # Random
  /\ used' = used \cup {Secret}
  /\ tokenFile' = Secret /\ token' = Secret /\ invited' = invited \cup {Secret}
  /\ phase' = "serving"
  /\ UNCHANGED <<dbVars, env, initVars, saving, keyVars, crashes>>

\* The end of the server, by a signal or a crash.
ServerEnd ==
  /\ phase' = "down"
  /\ at' = [at EXCEPT !["server"] = 0]
  /\ cols' = [cols EXCEPT !["server"] = {}]
  /\ seed' = [seed EXCEPT !["server"] = 1]
  /\ absent' = [absent EXCEPT !["server"] = FALSE]
  /\ saving' = None /\ box' = None /\ token' = None

Stop ==
  /\ phase = "serving" /\ saving = None
  /\ ServerEnd
  /\ UNCHANGED <<dbVars, env, again, keyFile, sealed, tokenFile, invited, used,
                 crashes>>

Crash ==
  /\ phase # "down" /\ crashes < MaxCrashes
  /\ crashes' = crashes + 1
  /\ ServerEnd
  /\ UNCHANGED <<dbVars, env, again, keyFile, sealed, tokenFile, invited, used>>

ScriptCrash ==
  /\ at["script"] # 0 /\ crashes < MaxCrashes
  /\ crashes' = crashes + 1
  /\ Abort("script")
  /\ UNCHANGED <<dbVars, env, saving, keyVars, tokenVars, used>>

\* The operator edits the environment of a stopped server.
SetEnvironment(e) ==
  /\ phase = "down" /\ at["script"] = 0
  /\ env' = e
  /\ UNCHANGED <<dbVars, phase, initVars, saving, keyVars, tokenVars, used, crashes>>

----------------------------------------------------------------------------
\* Requests: POST /api/providers/.../keys in normal mode, and api/prompts.py

AddCredential ==
  /\ phase = "serving" /\ Mode = "normal"
  /\ sealed' = sealed \cup {box}
  /\ UNCHANGED <<dbVars, phase, env, initVars, saving, keyFile, box, tokenVars, used,
                 crashes>>

\* _make_unique_prompt_id.
Free(id) ==
  /\ templates[id] = "none"
  /\ \A i \in 1..(id[2] - 1) : templates[<<id[1], i>>] # "none"

\* save_prompt: the SELECTs, then the INSERT, under a lock of the process only.
SaveCheck(id) ==
  /\ phase = "serving" /\ saving = None
  /\ Free(id)
  /\ saving' = id
  /\ UNCHANGED <<dbVars, phase, env, initVars, keyVars, tokenVars, used, crashes>>

SetTemplate(id, text) ==
  /\ templates' = [templates EXCEPT ![id] = text]
  /\ UNCHANGED <<schema, unfilled, phase, env, initVars, keyVars, tokenVars, used,
                 crashes>>

SaveInsert ==
  /\ saving # None
  /\ saving' = None
  /\ SetTemplate(saving, IF Conflicts(saving) THEN templates[saving] ELSE "user")

\* update_prompt.
Update(id) ==
  /\ phase = "serving" /\ saving = None
  /\ templates[id] # "none"
  /\ SetTemplate(id, "user") /\ UNCHANGED saving

\* delete_prompt: the bundled template stays.
Delete(id) ==
  /\ phase = "serving" /\ saving = None
  /\ templates[id] # "none" /\ id # <<Sample, 1>>
  /\ SetTemplate(id, "none") /\ UNCHANGED saving

Template == SaveInsert \/ \E id \in Id : SaveCheck(id) \/ Update(id) \/ Delete(id)

----------------------------------------------------------------------------
ServerStep ==
  \/ Start \/ Initialise("server")
  \/ MasterKey \/ OpenKey \/ WriteKey \/ DemoToken \/ OpenToken \/ WriteToken

Next ==
  \/ ServerStep \/ Stop \/ Crash
  \/ ScriptStart \/ Initialise("script") \/ ScriptCrash
  \/ \E e \in Environments : SetEnvironment(e)
  \/ AddCredential \/ Template

\* The container is restarted unless it was stopped, and the server runs.
Spec == Init /\ [][Next]_vars /\ WF_vars(ServerStep)

=============================================================================
