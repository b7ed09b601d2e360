--------------------------- MODULE StartupProofs ---------------------------
(***************************************************************************)
(* That no start loses a key, a token or the text of a template, and that  *)
(* none serves an old schema, for any databases, environments and seed     *)
(* files, and any number of crashes.                                       *)
(***************************************************************************)
EXTENDS StartupProperties, TLAPS

\* Plan is a list of statements.
Statement ==
  {Probe, Backfill, Import, Script("prompt_text", {"prompt", "prompt_template_id", "task_title"}),
   Rename("prompt_text", "prompt"), Rename("prompt_id", "prompt_template_id"),
   Add("provider_id"), Add("key_id"), Add("input_image_path"), Add("input_image_paths"),
   Script("name", {"title", "text"}), Rename("name", "title"), Rename("content", "text"),
   Script("", {"providers"})}

LEMMA Sequence1 ==
  ASSUME NEW S, NEW a \in S
  PROVE  <<a>> \in Seq(S) /\ Len(<<a>>) = 1
OBVIOUS

LEMMA Sequence5 ==
  ASSUME NEW S, NEW a \in S, NEW b \in S, NEW c \in S, NEW d \in S, NEW e \in S
  PROVE  <<a, b, c, d, e>> \in Seq(S) /\ Len(<<a, b, c, d, e>>) = 5
OBVIOUS

LEMMA Sequence11 ==
  ASSUME NEW S, NEW a \in S, NEW b \in S, NEW c \in S, NEW d \in S, NEW e \in S,
         NEW f \in S, NEW g \in S, NEW h \in S, NEW i \in S, NEW j \in S, NEW k \in S
  PROVE  /\ <<a, b, c, d, e, f, g, h, i, j, k>> \in Seq(S)
         /\ Len(<<a, b, c, d, e, f, g, h, i, j, k>>) = 11
OBVIOUS

LEMMA ModuleTypes ==
  /\ TaskModule \in Seq(Statement) /\ Len(TaskModule) = 11
  /\ TemplateModule \in Seq(Statement) /\ Len(TemplateModule) = 5
  /\ ProviderModule \in Seq(Statement) /\ Len(ProviderModule) = 1
<1>1. /\ Probe \in Statement /\ Backfill \in Statement /\ Import \in Statement
      /\ Script("prompt_text", {"prompt", "prompt_template_id", "task_title"}) \in Statement
      /\ Rename("prompt_text", "prompt") \in Statement
      /\ Rename("prompt_id", "prompt_template_id") \in Statement
      /\ Add("provider_id") \in Statement /\ Add("key_id") \in Statement
      /\ Add("input_image_path") \in Statement /\ Add("input_image_paths") \in Statement
  BY Zenon DEF Statement
<1>2. /\ Script("name", {"title", "text"}) \in Statement
      /\ Rename("name", "title") \in Statement /\ Rename("content", "text") \in Statement
      /\ Script("", {"providers"}) \in Statement
  BY Zenon DEF Statement
<1> HIDE DEF Statement
<1>3. TaskModule \in Seq(Statement) /\ Len(TaskModule) = 11
  BY <1>1, Sequence11, Zenon DEF TaskModule
<1>4. TemplateModule \in Seq(Statement) /\ Len(TemplateModule) = 5
  BY <1>1, <1>2, Sequence5, Zenon DEF TemplateModule
<1>5. ProviderModule \in Seq(Statement) /\ Len(ProviderModule) = 1
  BY <1>2, Sequence1, Zenon DEF ProviderModule
<1> QED BY <1>3, <1>4, <1>5

LEMMA PlanType == Plan \in Seq(Statement) /\ Len(Plan) \in Nat \ {0}
BY SMTT(20), ModuleTypes DEF Plan

\* What a statement adds is a current column.
LEMMA StatementAt ==
  ASSUME TypeOK, NEW p \in Initialiser, at[p] # 0
  PROVE  /\ at[p] \in 1..Len(Plan) /\ DOMAIN Plan = 1..Len(Plan)
         /\ Plan[at[p]].new \subseteq Current
<1>1. at[p] \in 1..Len(Plan) /\ DOMAIN Plan = 1..Len(Plan)
  BY PlanType DEF TypeOK
<1> QED BY <1>1 DEF Current

LEMMA SeedIdIsId ==
  ASSUME TypeOK, NEW p \in Initialiser, seed[p] <= Len(Seeds)
  PROVE  SeedId(p) \in Id
<1>1. Seeds[seed[p]] \in Base
  BY TemplateAssumption DEF TypeOK
<1>2. 1 \in 1..MaxSuffix[Seeds[seed[p]]]
  BY <1>1, BoundAssumption
<1> QED BY <1>1, <1>2 DEF SeedId, Id

----------------------------------------------------------------------------
\* The initialisers

\* Where the initialiser is after a statement.
LEMMA ProceedFacts ==
  ASSUME TypeOK, InitFirst, NEW p \in Initialiser, at[p] # 0, Proceed(p)
  PROVE  /\ at' \in [Initialiser -> 0..Len(Plan)] /\ again' \in BOOLEAN
         /\ \A q \in Initialiser \ {p} : at'[q] = at[q]
         /\ phase' = phase \/ (phase = "init" /\ phase' = "secrets")
         /\ InitFirst'
<1>1. Len(Plan) \in Nat \ {0}
  BY PlanType
<1>2. at[p] \in 1..Len(Plan)
  BY StatementAt
<1>3. After(p) \in 0..Len(Plan)
  BY <1>1, <1>2 DEF After
<1>4. at' \in [Initialiser -> 0..Len(Plan)]
  BY <1>3 DEF Proceed, TypeOK
<1>5. again' \in BOOLEAN
  BY DEF Proceed, TypeOK
<1>6. \A q \in Initialiser \ {p} : at'[q] = at[q]
  BY DEF Proceed, TypeOK
<1>7. phase' = phase \/ (phase = "init" /\ phase' = "secrets")
  BY DEF Proceed, InitFirst
<1>8. InitFirst'
  <2>1. CASE p = "server" /\ at[p] = Len(Plan)
    <3>1. at'["server"] = 0
      BY <1>1, <2>1 DEF Proceed, After, TypeOK
    <3> QED BY <3>1 DEF InitFirst
  <2>2. CASE p = "server" /\ at[p] # Len(Plan)
    BY <2>2 DEF Proceed, InitFirst
  <2>3. CASE p # "server"
    BY <1>6, <2>3 DEF Proceed, InitFirst, Initialiser
  <2> QED BY <2>1, <2>2, <2>3
<1> QED BY <1>4, <1>5, <1>6, <1>7, <1>8

LEMMA AbortFacts ==
  ASSUME TypeOK, InitFirst, AbsentIsCurrent, NEW p \in Initialiser, at[p] # 0, Abort(p)
  PROVE  /\ at' \in [Initialiser -> 0..Len(Plan)] /\ again' \in BOOLEAN
         /\ cols' \in [Initialiser -> SUBSET (Current \cup Outdated)]
         /\ seed' \in [Initialiser -> 1..Len(Seeds) + 1]
         /\ absent' \in [Initialiser -> BOOLEAN]
         /\ phase' = phase \/ (phase = "init" /\ phase' = "down")
         /\ InitFirst' /\ AbsentIsCurrent'
<1>1. /\ at' \in [Initialiser -> 0..Len(Plan)]
      /\ again' \in BOOLEAN
      /\ cols' \in [Initialiser -> SUBSET (Current \cup Outdated)]
      /\ absent' \in [Initialiser -> BOOLEAN]
  <2>1. Len(Plan) \in Nat
    BY PlanType
  <2>2. at' \in [Initialiser -> 0..Len(Plan)]
    BY <2>1 DEF Abort, TypeOK
  <2>3. again' \in BOOLEAN
    BY DEF Abort, TypeOK
  <2>4. cols' \in [Initialiser -> SUBSET (Current \cup Outdated)]
    BY DEF Abort, TypeOK
  <2>5. absent' \in [Initialiser -> BOOLEAN]
    BY DEF Abort, TypeOK
  <2> QED BY <2>2, <2>3, <2>4, <2>5
<1>2. seed' \in [Initialiser -> 1..Len(Seeds) + 1]
  BY TemplateAssumption DEF Abort, TypeOK
<1>3. phase' = phase \/ (phase = "init" /\ phase' = "down")
  BY DEF Abort, InitFirst
<1>4. InitFirst'
  BY DEF Abort, InitFirst, TypeOK, Initialiser
<1>5. AbsentIsCurrent'
  BY DEF Abort, AbsentIsCurrent, TypeOK, Doing
<1> QED BY <1>1, <1>2, <1>3, <1>4, <1>5

\* Before a statement that is not an import, and at its end, nothing is found absent.
LEMMA ProceedAbsent ==
  ASSUME TypeOK, InitFirst, AbsentIsCurrent, NEW p \in Initialiser, at[p] # 0, Proceed(p),
         ~absent[p], UNCHANGED absent, \A q \in Initialiser \ {p} : seed'[q] = seed[q]
  PROVE  AbsentIsCurrent'
<1>1. \A q \in Initialiser \ {p} : at'[q] = at[q]
  BY ProceedFacts
<1> QED BY <1>1 DEF AbsentIsCurrent, Doing

\* The part of the type invariant that the initialisers are about, and the rest.
DatabaseType ==
  /\ schema \subseteq Current \cup Outdated
  /\ unfilled \subseteq Legacy
  /\ templates \in [Id -> {"none", "seed", "user"}]
  /\ at \in [Initialiser -> 0..Len(Plan)]
  /\ cols \in [Initialiser -> SUBSET (Current \cup Outdated)]
  /\ seed \in [Initialiser -> 1..Len(Seeds) + 1]
  /\ absent \in [Initialiser -> BOOLEAN]
  /\ again \in BOOLEAN

SecretType ==
  /\ phase \in {"down", "init", "secrets", "key", "token", "serving"}
  /\ env \in Environments
  /\ saving \in Id \cup {None}
  /\ keyFile \in {"none", "torn"} \cup Random
  /\ box \in {None, "env"} \cup Random
  /\ sealed \subseteq {"env"} \cup Random
  /\ tokenFile \in {"none", "torn"} \cup Random
  /\ token \in {None, "env", "torn"} \cup Random
  /\ invited \subseteq {"torn"} \cup Random
  /\ used \subseteq Random
  /\ crashes \in 0..MaxCrashes

LEMMA TwoTypes ==
  (TypeOK <=> DatabaseType /\ SecretType) /\ (TypeOK' <=> DatabaseType' /\ SecretType')
BY Zenon DEF TypeOK, DatabaseType, SecretType

\* What an action of an initialiser does to its own part of the state.
Initialises ==
  /\ DatabaseType' /\ InitFirst' /\ AbsentIsCurrent'
  /\ phase' = phase \/ (phase = "init" /\ phase' \in {"secrets", "down"})

Context == TypeOK /\ InitFirst /\ AbsentIsCurrent

LEMMA RunScriptStep ==
  ASSUME Context, NEW p \in Initialiser, RunScript(p)
  PROVE  Initialises
<1>0. TypeOK /\ InitFirst /\ AbsentIsCurrent
  BY DEF Context
<1>1. at[p] # 0 /\ Proceed(p)
  BY DEF RunScript, Doing
<1>2. Plan[at[p]].new \subseteq Current
  BY <1>0, <1>1, StatementAt
<1>3. schema' \subseteq Current \cup Outdated
  BY <1>0, <1>2 DEF RunScript, TypeOK
<1>4. ~absent[p]
  BY <1>0 DEF RunScript, AbsentIsCurrent, Doing
<1>5. AbsentIsCurrent'
  BY <1>0, <1>1, <1>4, ProceedAbsent DEF RunScript
<1>6. /\ at' \in [Initialiser -> 0..Len(Plan)] /\ again' \in BOOLEAN /\ InitFirst'
      /\ phase' = phase \/ (phase = "init" /\ phase' \in {"secrets", "down"})
  BY <1>0, <1>1, ProceedFacts
<1>7. UNCHANGED <<unfilled, templates, cols, seed, absent>>
  BY DEF RunScript
<1> QED BY <1>0, <1>3, <1>5, <1>6, <1>7 DEF Initialises, DatabaseType, TypeOK

LEMMA LookStep ==
  ASSUME Context, NEW p \in Initialiser, Look(p)
  PROVE  Initialises
<1>0. TypeOK /\ InitFirst /\ AbsentIsCurrent
  BY DEF Context
<1>1. at[p] # 0 /\ Proceed(p)
  BY DEF Look, Doing
<1>2. cols' \in [Initialiser -> SUBSET (Current \cup Outdated)]
  BY <1>0 DEF Look, TypeOK
<1>3. ~absent[p]
  BY <1>0 DEF Look, AbsentIsCurrent, Doing
<1>4. AbsentIsCurrent'
  BY <1>0, <1>1, <1>3, ProceedAbsent DEF Look
<1>5. /\ at' \in [Initialiser -> 0..Len(Plan)] /\ again' \in BOOLEAN /\ InitFirst'
      /\ phase' = phase \/ (phase = "init" /\ phase' \in {"secrets", "down"})
  BY <1>0, <1>1, ProceedFacts
<1>6. UNCHANGED <<schema, unfilled, templates, seed, absent>>
  BY DEF Look, dbVars
<1> QED BY <1>0, <1>2, <1>4, <1>5, <1>6 DEF Initialises, DatabaseType, TypeOK

LEMMA AlterStep ==
  ASSUME Context, NEW p \in Initialiser, Alter(p)
  PROVE  Initialises
<1>0. TypeOK /\ InitFirst /\ AbsentIsCurrent
  BY DEF Context
<1>1. at[p] # 0 /\ ~absent[p] /\ UNCHANGED <<unfilled, templates>>
  BY <1>0 DEF Alter, AbsentIsCurrent, Doing
<1>2. Plan[at[p]].new \subseteq Current
  BY <1>0, <1>1, StatementAt
<1>3. schema' \subseteq Current \cup Outdated
  BY <1>0, <1>2 DEF Alter, TypeOK
<1>4. CASE Proceed(p) /\ UNCHANGED <<cols, seed, absent>>
  <2>1. AbsentIsCurrent'
    BY <1>0, <1>1, <1>4, ProceedAbsent
  <2>2. /\ at' \in [Initialiser -> 0..Len(Plan)] /\ again' \in BOOLEAN /\ InitFirst'
        /\ phase' = phase \/ (phase = "init" /\ phase' \in {"secrets", "down"})
    BY <1>0, <1>1, <1>4, ProceedFacts
  <2> QED BY <1>0, <1>1, <1>3, <1>4, <2>1, <2>2 DEF Initialises, DatabaseType, TypeOK
<1>5. CASE Abort(p)
  <2>1. /\ at' \in [Initialiser -> 0..Len(Plan)] /\ again' \in BOOLEAN
        /\ cols' \in [Initialiser -> SUBSET (Current \cup Outdated)]
        /\ seed' \in [Initialiser -> 1..Len(Seeds) + 1]
        /\ absent' \in [Initialiser -> BOOLEAN]
        /\ phase' = phase \/ (phase = "init" /\ phase' \in {"secrets", "down"})
        /\ InitFirst' /\ AbsentIsCurrent'
    BY <1>0, <1>1, <1>5, AbortFacts
  <2> QED BY <1>0, <1>1, <1>3, <2>1 DEF Initialises, DatabaseType, TypeOK
<1> QED BY <1>4, <1>5 DEF Alter

LEMMA FillStep ==
  ASSUME Context, NEW p \in Initialiser, NEW row \in Legacy, Fill(p, row)
  PROVE  Initialises
<1>1. UNCHANGED <<schema, templates, at, cols, seed, absent, again, phase>>
  BY DEF Fill, initVars
<1>2. unfilled' \subseteq Legacy
  BY DEF Fill, Context, TypeOK
<1>3. InitFirst' /\ AbsentIsCurrent'
  BY <1>1 DEF Context, InitFirst, AbsentIsCurrent, Doing
<1> QED BY <1>1, <1>2, <1>3 DEF Initialises, DatabaseType, Context, TypeOK

LEMMA FillEndStep ==
  ASSUME Context, NEW p \in Initialiser, FillEnd(p)
  PROVE  Initialises
<1>0. TypeOK /\ InitFirst /\ AbsentIsCurrent
  BY DEF Context
<1>1. at[p] # 0 /\ Proceed(p) /\ UNCHANGED <<schema, unfilled, templates, cols, seed, absent>>
  BY DEF FillEnd, Doing, dbVars
<1>2. ~absent[p]
  BY <1>0 DEF FillEnd, AbsentIsCurrent, Doing
<1>3. AbsentIsCurrent'
  BY <1>0, <1>1, <1>2, ProceedAbsent
<1>4. /\ at' \in [Initialiser -> 0..Len(Plan)] /\ again' \in BOOLEAN /\ InitFirst'
      /\ phase' = phase \/ (phase = "init" /\ phase' \in {"secrets", "down"})
  BY <1>0, <1>1, ProceedFacts
<1> QED BY <1>0, <1>1, <1>3, <1>4 DEF Initialises, DatabaseType, TypeOK

LEMMA ImportCheckStep ==
  ASSUME Context, NEW p \in Initialiser, ImportCheck(p)
  PROVE  Initialises
<1>1. UNCHANGED <<schema, unfilled, templates, at, cols, again, phase>>
  BY DEF ImportCheck, dbVars
<1>2. Doing(p, "import") /\ seed[p] <= Len(Seeds) /\ ~absent[p]
  BY DEF ImportCheck
<1>3. absent' \in [Initialiser -> BOOLEAN]
  BY DEF ImportCheck, Context, TypeOK
<1>4. seed' \in [Initialiser -> 1..Len(Seeds) + 1]
  <2>1. seed \in [Initialiser -> 1..Len(Seeds) + 1] /\ Len(Seeds) \in Nat
    BY TemplateAssumption DEF Context, TypeOK
  <2>2. UNCHANGED seed \/ seed' = [seed EXCEPT ![p] = @ + 1]
    BY DEF ImportCheck
  <2> QED BY <1>2, <2>1, <2>2
<1>5. InitFirst'
  BY <1>1 DEF Context, InitFirst
<1>6. AbsentIsCurrent'
  <2>1. CASE absent' = [absent EXCEPT ![p] = TRUE] /\ UNCHANGED seed
    BY <1>1, <1>2, <2>1 DEF AbsentIsCurrent, Doing, Context, TypeOK
  <2>2. CASE seed' = [seed EXCEPT ![p] = @ + 1] /\ UNCHANGED absent
    BY <1>1, <1>2, <2>2 DEF AbsentIsCurrent, Doing, Context, TypeOK
  <2> QED BY <2>1, <2>2 DEF ImportCheck
<1> QED BY <1>1, <1>3, <1>4, <1>5, <1>6 DEF Initialises, DatabaseType, Context, TypeOK

LEMMA ImportInsertStep ==
  ASSUME Context, NEW p \in Initialiser, ImportInsert(p)
  PROVE  Initialises
<1>0. TypeOK /\ InitFirst /\ AbsentIsCurrent
  BY DEF Context
<1>1. at[p] # 0 /\ seed[p] <= Len(Seeds) /\ UNCHANGED <<schema, unfilled>>
  BY <1>0 DEF ImportInsert, AbsentIsCurrent, Doing
<1>2. CASE Conflicts(SeedId(p))
  <2>1. Abort(p) /\ UNCHANGED templates
    BY <1>2 DEF ImportInsert
  <2>2. /\ at' \in [Initialiser -> 0..Len(Plan)] /\ again' \in BOOLEAN
        /\ cols' \in [Initialiser -> SUBSET (Current \cup Outdated)]
        /\ seed' \in [Initialiser -> 1..Len(Seeds) + 1]
        /\ absent' \in [Initialiser -> BOOLEAN]
        /\ phase' = phase \/ (phase = "init" /\ phase' \in {"secrets", "down"})
        /\ InitFirst' /\ AbsentIsCurrent'
    BY <1>0, <1>1, <2>1, AbortFacts
  <2> QED BY <1>0, <1>1, <2>1, <2>2 DEF Initialises, DatabaseType, TypeOK
<1>3. CASE ~Conflicts(SeedId(p))
  <2>1. /\ templates' = [templates EXCEPT ![SeedId(p)] = "seed"]
        /\ absent' = [absent EXCEPT ![p] = FALSE]
        /\ seed' = [seed EXCEPT ![p] = @ + 1]
        /\ UNCHANGED <<at, cols, again, phase>>
    BY <1>3 DEF ImportInsert
  <2>2. templates' \in [Id -> {"none", "seed", "user"}]
    BY <1>0, <2>1 DEF TypeOK
  <2>3. seed' \in [Initialiser -> 1..Len(Seeds) + 1]
    BY <1>0, <1>1, <2>1, TemplateAssumption DEF TypeOK
  <2>4. absent' \in [Initialiser -> BOOLEAN]
    BY <1>0, <2>1 DEF TypeOK
  <2>5. AbsentIsCurrent'
    BY <1>0, <2>1 DEF AbsentIsCurrent, Doing, TypeOK
  <2>6. InitFirst'
    BY <1>0, <2>1 DEF InitFirst
  <2> QED BY <1>0, <1>1, <2>1, <2>2, <2>3, <2>4, <2>5, <2>6
          DEF Initialises, DatabaseType, TypeOK
<1> QED BY <1>2, <1>3

LEMMA ImportEndStep ==
  ASSUME Context, NEW p \in Initialiser, ImportEnd(p)
  PROVE  Initialises
<1>0. TypeOK /\ InitFirst /\ AbsentIsCurrent
  BY DEF Context
<1>1. /\ at[p] # 0 /\ Proceed(p) /\ seed' = [seed EXCEPT ![p] = 1]
      /\ UNCHANGED <<schema, unfilled, templates, cols, absent>>
  BY DEF ImportEnd, Doing, dbVars
<1>2. ~absent[p]
  BY <1>0, TemplateAssumption DEF ImportEnd, AbsentIsCurrent, TypeOK
<1>3. seed' \in [Initialiser -> 1..Len(Seeds) + 1]
  BY <1>0, <1>1, TemplateAssumption DEF TypeOK
<1>4. \A q \in Initialiser \ {p} : seed'[q] = seed[q]
  BY <1>0, <1>1 DEF TypeOK
<1>5. AbsentIsCurrent'
  BY <1>0, <1>1, <1>2, <1>4, ProceedAbsent
<1>6. /\ at' \in [Initialiser -> 0..Len(Plan)] /\ again' \in BOOLEAN /\ InitFirst'
      /\ phase' = phase \/ (phase = "init" /\ phase' \in {"secrets", "down"})
  BY <1>0, <1>1, ProceedFacts
<1> QED BY <1>0, <1>1, <1>3, <1>5, <1>6 DEF Initialises, DatabaseType, TypeOK

LEMMA InitialiseStep ==
  ASSUME Context, NEW p \in Initialiser, Initialise(p)
  PROVE  Initialises
BY RunScriptStep, LookStep, AlterStep, FillStep, FillEndStep, ImportCheckStep,
   ImportInsertStep, ImportEndStep DEF Initialise

----------------------------------------------------------------------------
\* The parts of the invariant that are about the secrets

Secrets ==
  /\ OpenedIsTorn /\ BoxIsKept /\ GeneratedKeyKept /\ TokenIsKept /\ InvitedIsKept

\* They say nothing of the initialisation.
LEMMA SecretsStay ==
  ASSUME SecretType, Secrets, UNCHANGED <<env, keyFile, box, sealed, tokenFile, token, invited>>,
         phase' \in {phase, "down", "init", "secrets"}, phase = "serving" => phase' = "serving"
  PROVE  Secrets'
<1>1. OpenedIsTorn'
  BY DEF Secrets, OpenedIsTorn, Mode, Effective
<1>2. BoxIsKept'
  BY DEF Secrets, BoxIsKept, Mode, Effective
<1>3. GeneratedKeyKept' /\ InvitedIsKept'
  BY DEF Secrets, GeneratedKeyKept, InvitedIsKept
<1>4. TokenIsKept'
  BY DEF Secrets, TokenIsKept
<1> QED BY <1>1, <1>2, <1>3, <1>4 DEF Secrets

\* Nor is there anything to initialise while the server does not.
LEMMA DatabaseStays ==
  ASSUME DatabaseType, AbsentIsCurrent, InitFirst,
         UNCHANGED <<dbVars, initVars>>, phase' = phase \/ phase # "init"
  PROVE  DatabaseType' /\ AbsentIsCurrent' /\ InitFirst'
<1>1. UNCHANGED <<schema, unfilled, templates, at, cols, seed, absent, again>>
  BY DEF dbVars, initVars
<1>2. DatabaseType'
  BY <1>1 DEF DatabaseType
<1>3. AbsentIsCurrent'
  BY <1>1 DEF AbsentIsCurrent, Doing
<1>4. InitFirst'
  BY <1>1 DEF InitFirst
<1> QED BY <1>2, <1>3, <1>4

\* A generated secret is none of the marks for an absent file.
LEMMA MarksAreNotRandom ==
  "none" \notin Random /\ "torn" \notin Random /\ "env" \notin Random /\ None \notin Random
BY RandomAssumption

LEMMA SecretIsRandom ==
  ASSUME SecretType, used # Random
  PROVE  Secret \in Random
BY DEF Secret, SecretType

LEMMA MasterKeyStep ==
  ASSUME SecretType, Secrets, MasterKey
  PROVE  SecretType' /\ Secrets'
<1>0. /\ phase = "secrets" /\ Mode = "normal"
      /\ UNCHANGED <<env, saving, keyFile, sealed, tokenFile, token, invited, used, crashes>>
  BY DEF MasterKey, tokenVars
<1>1. \/ phase' = "serving" /\ box' \in {"env"} \cup (Random \cap {keyFile})
      \/ phase' = "down" /\ box' = None
  BY DEF MasterKey, SecretType
<1>2. SecretType'
  BY <1>0, <1>1 DEF SecretType
<1>3. OpenedIsTorn'
  BY <1>1 DEF OpenedIsTorn
<1>4. BoxIsKept'
  BY <1>0, <1>1 DEF BoxIsKept
<1>5. GeneratedKeyKept' /\ InvitedIsKept'
  BY <1>0 DEF Secrets, GeneratedKeyKept, InvitedIsKept
<1>6. TokenIsKept'
  BY <1>0, <1>1 DEF Secrets, TokenIsKept
<1> QED BY <1>2, <1>3, <1>4, <1>5, <1>6 DEF Secrets

LEMMA OpenKeyStep ==
  ASSUME SecretType, Secrets, OpenKey
  PROVE  SecretType' /\ Secrets'
<1>0. /\ phase = "secrets" /\ keyFile = "none" /\ keyFile' = "torn" /\ phase' = "key"
      /\ UNCHANGED <<env, saving, box, sealed, tokenFile, token, invited, used, crashes>>
  BY DEF OpenKey, Fresh, tokenVars
<1>1. SecretType'
  BY <1>0 DEF SecretType
<1>2. sealed \subseteq {"env"}
  BY <1>0, MarksAreNotRandom DEF Secrets, GeneratedKeyKept, SecretType
<1>3. GeneratedKeyKept'
  BY <1>0, <1>2 DEF GeneratedKeyKept
<1>4. OpenedIsTorn' /\ BoxIsKept'
  BY <1>0 DEF OpenedIsTorn, BoxIsKept
<1>5. TokenIsKept' /\ InvitedIsKept'
  BY <1>0 DEF Secrets, TokenIsKept, InvitedIsKept
<1> QED BY <1>1, <1>3, <1>4, <1>5 DEF Secrets

LEMMA WriteKeyStep ==
  ASSUME SecretType, Secrets, WriteKey
  PROVE  SecretType' /\ Secrets'
<1>0. /\ phase = "key" /\ phase' = "serving" /\ used' = used \cup {Secret}
      /\ keyFile' = Secret /\ box' = Secret
      /\ UNCHANGED <<env, saving, sealed, tokenFile, token, invited, crashes>>
  BY DEF WriteKey, tokenVars
<1>1. Secret \in Random
  BY SecretIsRandom DEF WriteKey
<1> HIDE DEF Secret
<1>2. SecretType'
  BY <1>0, <1>1 DEF SecretType
<1>3. sealed \subseteq {"env"}
  BY <1>0, MarksAreNotRandom DEF Secrets, OpenedIsTorn, GeneratedKeyKept, SecretType
<1>4. GeneratedKeyKept'
  BY <1>0, <1>3 DEF GeneratedKeyKept
<1>5. OpenedIsTorn' /\ BoxIsKept'
  BY <1>0, <1>1 DEF OpenedIsTorn, BoxIsKept
<1>6. TokenIsKept' /\ InvitedIsKept'
  BY <1>0 DEF Secrets, TokenIsKept, InvitedIsKept
<1> QED BY <1>2, <1>4, <1>5, <1>6 DEF Secrets

LEMMA DemoTokenStep ==
  ASSUME SecretType, Secrets, DemoToken
  PROVE  SecretType' /\ Secrets'
<1>0. /\ phase = "secrets" /\ Mode = "demo" /\ phase' = "serving"
      /\ UNCHANGED <<env, saving, keyFile, box, sealed, tokenFile, used, crashes>>
  BY DEF DemoToken, keyVars
<1>1. \/ token' = "env" /\ invited' = invited
      \/ /\ token' = tokenFile /\ tokenFile # "none"
         /\ invited' = invited \cup ({tokenFile} \ {"torn"})
  BY DEF DemoToken
<1>2. SecretType'
  BY <1>0, <1>1 DEF SecretType
<1>3. OpenedIsTorn'
  BY <1>0 DEF OpenedIsTorn
<1>4. BoxIsKept'
  BY <1>0 DEF BoxIsKept, Mode, Effective
<1>5. GeneratedKeyKept'
  BY <1>0 DEF Secrets, GeneratedKeyKept
<1>6. TokenIsKept'
  BY <1>0, <1>1 DEF TokenIsKept
<1>7. InvitedIsKept'
  BY <1>0, <1>1 DEF Secrets, InvitedIsKept, SecretType
<1> QED BY <1>2, <1>3, <1>4, <1>5, <1>6, <1>7 DEF Secrets

LEMMA OpenTokenStep ==
  ASSUME SecretType, Secrets, OpenToken
  PROVE  SecretType' /\ Secrets'
<1>0. /\ phase = "secrets" /\ tokenFile = "none" /\ tokenFile' = "torn" /\ phase' = "token"
      /\ Mode = "demo"
      /\ UNCHANGED <<env, saving, keyFile, box, sealed, token, invited, used, crashes>>
  BY DEF OpenToken, Fresh, keyVars
<1>1. SecretType'
  BY <1>0 DEF SecretType
<1>2. invited = {}
  BY <1>0, MarksAreNotRandom DEF Secrets, InvitedIsKept
<1>3. GeneratedKeyKept'
  BY <1>0 DEF Secrets, GeneratedKeyKept
<1>4. OpenedIsTorn' /\ BoxIsKept'
  BY <1>0 DEF OpenedIsTorn, BoxIsKept, Mode, Effective
<1>5. TokenIsKept' /\ InvitedIsKept'
  BY <1>0, <1>2 DEF Secrets, TokenIsKept, InvitedIsKept
<1> QED BY <1>1, <1>3, <1>4, <1>5 DEF Secrets

LEMMA WriteTokenStep ==
  ASSUME SecretType, Secrets, WriteToken
  PROVE  SecretType' /\ Secrets'
<1>0. /\ phase = "token" /\ Mode = "demo"
      /\ phase' = "serving" /\ used' = used \cup {Secret}
      /\ tokenFile' = Secret /\ token' = Secret /\ invited' = invited \cup {Secret}
      /\ UNCHANGED <<env, saving, keyFile, box, sealed, crashes>>
  BY DEF WriteToken, keyVars, Secrets, OpenedIsTorn
<1>1. Secret \in Random
  BY SecretIsRandom DEF WriteToken
<1> HIDE DEF Secret
<1>2. SecretType'
  BY <1>0, <1>1 DEF SecretType
<1>3. invited = {}
  BY <1>0, MarksAreNotRandom DEF Secrets, OpenedIsTorn, InvitedIsKept
<1>4. GeneratedKeyKept'
  BY <1>0 DEF Secrets, GeneratedKeyKept
<1>5. OpenedIsTorn' /\ BoxIsKept'
  BY <1>0 DEF OpenedIsTorn, BoxIsKept, Mode, Effective
<1>6. TokenIsKept' /\ InvitedIsKept'
  BY <1>0, <1>1, <1>3 DEF TokenIsKept, InvitedIsKept
<1> QED BY <1>2, <1>4, <1>5, <1>6 DEF Secrets

----------------------------------------------------------------------------
\* The end of a process, and the requests

LEMMA Except ==
  ASSUME NEW S, NEW R, NEW f \in [S -> R], NEW x, NEW v \in R
  PROVE  [f EXCEPT ![x] = v] \in [S -> R]
OBVIOUS

LEMMA ServerEndStep ==
  ASSUME TypeOK, InitFirst, AbsentIsCurrent, Secrets, ServerEnd,
         UNCHANGED <<dbVars, env, again, keyFile, sealed, tokenFile, invited, used>>,
         crashes' \in 0..MaxCrashes
  PROVE  DatabaseType' /\ SecretType' /\ InitFirst' /\ AbsentIsCurrent' /\ Secrets'
<1>0. /\ phase' = "down" /\ saving' = None /\ box' = None /\ token' = None
      /\ UNCHANGED <<schema, unfilled, templates>>
  BY DEF ServerEnd, dbVars
<1>1. Len(Plan) \in Nat /\ Len(Seeds) \in Nat
  BY PlanType, TemplateAssumption
<1>2. at' \in [Initialiser -> 0..Len(Plan)]
  <2>1. at \in [Initialiser -> 0..Len(Plan)] /\ at' = [at EXCEPT !["server"] = 0]
    BY DEF ServerEnd, TypeOK
  <2>2. 0 \in 0..Len(Plan)
    BY <1>1
  <2> QED BY <2>1, <2>2, Except
<1>3. cols' \in [Initialiser -> SUBSET (Current \cup Outdated)]
  BY DEF ServerEnd, TypeOK
<1>4. seed' \in [Initialiser -> 1..Len(Seeds) + 1]
  <2>1. /\ seed \in [Initialiser -> 1..Len(Seeds) + 1]
        /\ seed' = [seed EXCEPT !["server"] = 1]
    BY DEF ServerEnd, TypeOK
  <2>2. 1 \in 1..Len(Seeds) + 1
    BY <1>1
  <2> QED BY <2>1, <2>2, Except
<1>5. absent' \in [Initialiser -> BOOLEAN]
  BY DEF ServerEnd, TypeOK
<1>6. DatabaseType'
  BY <1>0, <1>2, <1>3, <1>4, <1>5 DEF DatabaseType, TypeOK
<1>7. SecretType'
  BY <1>0 DEF SecretType, TypeOK
<1>8. InitFirst'
  BY DEF ServerEnd, InitFirst, TypeOK, Initialiser
<1>9. AbsentIsCurrent'
  BY DEF ServerEnd, AbsentIsCurrent, Doing, TypeOK
<1>10. Secrets'
  <2>1. OpenedIsTorn' /\ BoxIsKept'
    BY <1>0 DEF OpenedIsTorn, BoxIsKept
  <2>2. GeneratedKeyKept' /\ TokenIsKept' /\ InvitedIsKept'
    BY <1>0 DEF Secrets, GeneratedKeyKept, TokenIsKept, InvitedIsKept
  <2> QED BY <2>1, <2>2 DEF Secrets
<1> QED BY <1>6, <1>7, <1>8, <1>9, <1>10

\* An initialiser begins.
LEMMA BeginStep ==
  ASSUME TypeOK, InitFirst, AbsentIsCurrent, Secrets, NEW p \in Initialiser,
         at[p] = 0, at' = [at EXCEPT ![p] = 1],
         phase' = "init" \/ (p = "script" /\ UNCHANGED phase),
         UNCHANGED <<dbVars, env, cols, seed, absent, again, saving, keyVars, tokenVars,
                     used, crashes>>
  PROVE  DatabaseType' /\ SecretType' /\ InitFirst' /\ AbsentIsCurrent'
<1>0. UNCHANGED <<schema, unfilled, templates, keyFile, box, sealed, tokenFile, token, invited>>
  BY DEF dbVars, keyVars, tokenVars
<1>1. Len(Plan) \in Nat \ {0}
  BY PlanType
<1>2. at' \in [Initialiser -> 0..Len(Plan)]
  BY <1>1 DEF TypeOK
<1>3. DatabaseType'
  BY <1>0, <1>2 DEF DatabaseType, TypeOK
<1>4. SecretType'
  BY <1>0 DEF SecretType, TypeOK
<1>5. InitFirst'
  BY DEF InitFirst, TypeOK, Initialiser
<1>6. AbsentIsCurrent'
  BY DEF AbsentIsCurrent, Doing, TypeOK
<1> QED BY <1>3, <1>4, <1>5, <1>6

LEMMA TemplateType ==
  ASSUME TypeOK, Template
  PROVE  templates' \in [Id -> {"none", "seed", "user"}] /\ saving' \in Id \cup {None}
<1>1. CASE SaveInsert
  <2>1. saving \in Id /\ saving' = None
    BY <1>1 DEF SaveInsert, TypeOK
  <2>2. templates[saving] \in {"none", "seed", "user"}
    BY <2>1 DEF TypeOK
  <2>3. templates' \in [Id -> {"none", "seed", "user"}]
    BY <1>1, <2>2 DEF SaveInsert, SetTemplate, TypeOK
  <2> QED BY <2>1, <2>3
<1>2. CASE \E id \in Id : SaveCheck(id)
  BY <1>2 DEF SaveCheck, TypeOK, dbVars
<1>3. CASE \E id \in Id : Update(id)
  BY <1>3 DEF Update, SetTemplate, TypeOK
<1>4. CASE \E id \in Id : Delete(id)
  BY <1>4 DEF Delete, SetTemplate, TypeOK
<1> QED BY <1>1, <1>2, <1>3, <1>4 DEF Template

LEMMA TemplateFrame ==
  ASSUME Template
  PROVE  UNCHANGED <<schema, unfilled, phase, env, initVars, keyVars, tokenVars, used, crashes>>
BY DEF Template, SaveInsert, SaveCheck, Update, Delete, SetTemplate, dbVars

LEMMA TemplateStep ==
  ASSUME TypeOK, InitFirst, AbsentIsCurrent, Secrets, Template
  PROVE  DatabaseType' /\ SecretType' /\ InitFirst' /\ AbsentIsCurrent' /\ Secrets'
<1>1. UNCHANGED <<schema, unfilled, phase, env, at, cols, seed, absent, again, keyFile, box,
                  sealed, tokenFile, token, invited, used, crashes>>
  BY TemplateFrame DEF initVars, keyVars, tokenVars
<1>2. DatabaseType'
  BY <1>1, TemplateType DEF DatabaseType, TypeOK
<1>3. SecretType'
  BY <1>1, TemplateType DEF SecretType, TypeOK
<1>4. InitFirst' /\ AbsentIsCurrent'
  BY <1>1 DEF InitFirst, AbsentIsCurrent, Doing
<1>5. Secrets'
  BY <1>1, TwoTypes, SecretsStay
<1> QED BY <1>2, <1>3, <1>4, <1>5

LEMMA AddCredentialStep ==
  ASSUME SecretType, Secrets, AddCredential
  PROVE  SecretType' /\ Secrets'
<1>0. /\ phase = "serving" /\ Mode = "normal" /\ sealed' = sealed \cup {box}
      /\ UNCHANGED <<phase, env, saving, keyFile, box, tokenFile, token, invited, used, crashes>>
  BY DEF AddCredential, tokenVars
<1>1. box \in {"env"} \cup (Random \cap {keyFile})
  BY <1>0 DEF Secrets, BoxIsKept
<1>2. SecretType'
  BY <1>0, <1>1 DEF SecretType
<1>3. GeneratedKeyKept'
  BY <1>0, <1>1 DEF Secrets, GeneratedKeyKept
<1>4. OpenedIsTorn' /\ BoxIsKept'
  BY <1>0 DEF Secrets, OpenedIsTorn, BoxIsKept, Mode, Effective
<1>5. TokenIsKept' /\ InvitedIsKept'
  BY <1>0 DEF Secrets, TokenIsKept, InvitedIsKept
<1> QED BY <1>2, <1>3, <1>4, <1>5 DEF Secrets

----------------------------------------------------------------------------
LEMMA InitInvariant ==
  ASSUME Init
  PROVE  SecretsInvariant
<1>1. Len(Plan) \in Nat /\ Len(Seeds) \in Nat
  BY PlanType, TemplateAssumption
<1>2. DatabaseType
  <2>1. schema \subseteq Current \cup Outdated
    BY SchemaAssumption DEF Init
  <2>2. /\ at \in [Initialiser -> 0..Len(Plan)]
        /\ seed \in [Initialiser -> 1..Len(Seeds) + 1]
    BY <1>1 DEF Init
  <2>3. /\ unfilled \subseteq Legacy
        /\ templates \in [Id -> {"none", "seed", "user"}]
        /\ again \in BOOLEAN
    BY DEF Init
  <2>4. /\ cols \in [Initialiser -> SUBSET (Current \cup Outdated)]
        /\ absent \in [Initialiser -> BOOLEAN]
    BY DEF Init
  <2> QED BY <2>1, <2>2, <2>3, <2>4 DEF DatabaseType
<1>3. SecretType
  BY BoundAssumption DEF Init, SecretType
<1>4. InitFirst /\ AbsentIsCurrent
  BY DEF Init, InitFirst, AbsentIsCurrent, Initialiser
<1>5. OpenedIsTorn /\ BoxIsKept /\ GeneratedKeyKept /\ TokenIsKept /\ InvitedIsKept
  BY DEF Init, OpenedIsTorn, BoxIsKept, GeneratedKeyKept, TokenIsKept, InvitedIsKept
<1> QED BY <1>2, <1>3, <1>4, <1>5, TwoTypes DEF SecretsInvariant

LEMMA NextInvariant ==
  ASSUME SecretsInvariant, [Next]_vars
  PROVE  SecretsInvariant'
<1>0. TypeOK /\ DatabaseType /\ SecretType /\ InitFirst /\ AbsentIsCurrent /\ Secrets
  BY TwoTypes DEF SecretsInvariant, Secrets
<1> SUFFICES DatabaseType' /\ SecretType' /\ InitFirst' /\ AbsentIsCurrent' /\ Secrets'
  BY TwoTypes DEF SecretsInvariant, Secrets
<1>1. ASSUME NEW p \in Initialiser, Initialise(p)
      PROVE  DatabaseType' /\ SecretType' /\ InitFirst' /\ AbsentIsCurrent' /\ Secrets'
  <2>1. Initialises
    BY <1>0, <1>1, InitialiseStep DEF Context
  <2>2. UNCHANGED <<env, saving, keyFile, box, sealed, tokenFile, token, invited, used, crashes>>
    BY <1>1 DEF Initialise, keyVars, tokenVars
  <2>3. SecretType'
    BY <1>0, <2>1, <2>2 DEF Initialises, SecretType
  <2>4. Secrets'
    BY <1>0, <2>1, <2>2, SecretsStay DEF Initialises
  <2> QED BY <2>1, <2>3, <2>4 DEF Initialises
<1>2. CASE Start
  <2>1. at["server"] = 0 /\ "server" \in Initialiser
    BY <1>0, <1>2 DEF Start, InitFirst, Initialiser
  <2>2. DatabaseType' /\ SecretType' /\ InitFirst' /\ AbsentIsCurrent'
    BY <1>0, <1>2, <2>1, BeginStep DEF Start
  <2>3. Secrets'
    BY <1>0, <1>2, SecretsStay DEF Start, keyVars, tokenVars
  <2> QED BY <2>2, <2>3
<1>3. CASE ScriptStart
  <2>1. "script" \in Initialiser
    BY DEF Initialiser
  <2>2. DatabaseType' /\ SecretType' /\ InitFirst' /\ AbsentIsCurrent'
    BY <1>0, <1>3, <2>1, BeginStep DEF ScriptStart
  <2>3. Secrets'
    BY <1>0, <1>3, SecretsStay DEF ScriptStart, keyVars, tokenVars
  <2> QED BY <2>2, <2>3
<1>4. CASE MasterKey \/ OpenKey \/ WriteKey \/ DemoToken \/ OpenToken \/ WriteToken
  <2>1. SecretType' /\ Secrets'
    BY <1>0, <1>4, MasterKeyStep, OpenKeyStep, WriteKeyStep, DemoTokenStep, OpenTokenStep,
       WriteTokenStep
  <2>2. phase # "init" /\ UNCHANGED <<dbVars, initVars>>
    BY <1>4 DEF MasterKey, OpenKey, WriteKey, DemoToken, OpenToken, WriteToken
  <2> QED BY <1>0, <2>1, <2>2, DatabaseStays
<1>5. CASE Stop \/ Crash
  <2>1. crashes' \in 0..MaxCrashes
    BY <1>0, <1>5, BoundAssumption DEF Stop, Crash, SecretType
  <2>2. ServerEnd /\ UNCHANGED <<dbVars, env, again, keyFile, sealed, tokenFile, invited, used>>
    BY <1>5 DEF Stop, Crash
  <2> QED BY <1>0, <2>1, <2>2, ServerEndStep
<1>6. CASE ScriptCrash
  <2>1. /\ at["script"] # 0 /\ Abort("script") /\ "script" \in Initialiser
        /\ UNCHANGED <<schema, unfilled, templates, env, saving, keyFile, box, sealed, tokenFile,
                       token, invited, used>>
    BY <1>6 DEF ScriptCrash, Initialiser, dbVars, keyVars, tokenVars
  <2>2. phase' = phase
    BY <2>1 DEF Abort
  <2>3. crashes' \in 0..MaxCrashes
    BY <1>0, <1>6, BoundAssumption DEF ScriptCrash, SecretType
  <2>4. DatabaseType' /\ InitFirst' /\ AbsentIsCurrent'
    BY <1>0, <2>1, AbortFacts DEF DatabaseType
  <2>5. SecretType'
    BY <1>0, <2>1, <2>2, <2>3 DEF SecretType
  <2>6. Secrets'
    BY <1>0, <2>1, <2>2, SecretsStay
  <2> QED BY <2>4, <2>5, <2>6
<1>7. ASSUME NEW e \in Environments, SetEnvironment(e)
      PROVE  DatabaseType' /\ SecretType' /\ InitFirst' /\ AbsentIsCurrent' /\ Secrets'
  <2>1. /\ phase = "down" /\ env' = e
        /\ UNCHANGED <<dbVars, phase, initVars, saving, keyFile, box, sealed, tokenFile, token,
                       invited, used, crashes>>
    BY <1>7 DEF SetEnvironment, keyVars, tokenVars
  <2>2. DatabaseType' /\ InitFirst' /\ AbsentIsCurrent'
    BY <1>0, <2>1, DatabaseStays
  <2>3. SecretType'
    BY <1>0, <2>1 DEF SecretType
  <2>4. OpenedIsTorn' /\ BoxIsKept'
    BY <2>1 DEF OpenedIsTorn, BoxIsKept
  <2>5. GeneratedKeyKept' /\ TokenIsKept' /\ InvitedIsKept'
    BY <1>0, <2>1 DEF Secrets, GeneratedKeyKept, TokenIsKept, InvitedIsKept
  <2> QED BY <2>2, <2>3, <2>4, <2>5 DEF Secrets
<1>8. CASE AddCredential
  <2>1. SecretType' /\ Secrets'
    BY <1>0, <1>8, AddCredentialStep
  <2>2. UNCHANGED <<dbVars, phase, initVars>>
    BY <1>8 DEF AddCredential
  <2> QED BY <1>0, <2>1, <2>2, DatabaseStays
<1>9. CASE Template
  BY <1>0, <1>9, TemplateStep
<1>10. CASE UNCHANGED vars
  <2>1. /\ UNCHANGED <<dbVars, initVars, phase>>
        /\ UNCHANGED <<env, saving, keyFile, box, sealed, tokenFile, token, invited, used, crashes>>
    BY <1>10 DEF vars, keyVars, tokenVars
  <2>2. DatabaseType' /\ InitFirst' /\ AbsentIsCurrent'
    BY <1>0, <2>1, DatabaseStays
  <2>3. SecretType'
    BY <1>0, <2>1 DEF SecretType
  <2>4. Secrets'
    BY <1>0, <2>1, SecretsStay
  <2> QED BY <2>2, <2>3, <2>4
<1>11. "server" \in Initialiser /\ "script" \in Initialiser
  BY DEF Initialiser
<1> QED BY <1>1, <1>2, <1>3, <1>4, <1>5, <1>6, <1>7, <1>8, <1>9, <1>10, <1>11
        DEF Next, ServerStep

LEMMA SecretsKept == Spec => []SecretsInvariant
<1>1. Init => SecretsInvariant
  BY InitInvariant
<1>2. SecretsInvariant /\ [Next]_vars => SecretsInvariant'
  BY NextInvariant
<1> QED BY <1>1, <1>2, PTL DEF Spec

----------------------------------------------------------------------------
\* The schema: the statements of init_db, one by one

CreateTasks == Script("prompt_text", {"prompt", "prompt_template_id", "task_title"})
CreateTemplates == Script("name", {"title", "text"})
CreateProviders == Script("", {"providers"})

LEMMA TaskStatements ==
  /\ TaskModule[1] = CreateTasks /\ TaskModule[2] = Probe
  /\ TaskModule[3] = Rename("prompt_text", "prompt")
  /\ TaskModule[4] = Rename("prompt_id", "prompt_template_id") /\ TaskModule[5] = Probe
  /\ TaskModule[6] = Add("provider_id") /\ TaskModule[7] = Add("key_id")
  /\ TaskModule[8] = Add("input_image_path") /\ TaskModule[9] = Probe
  /\ TaskModule[10] = Add("input_image_paths") /\ TaskModule[11] = Backfill
  /\ DOMAIN TaskModule = 1..11
BY DEF TaskModule, CreateTasks

LEMMA TemplateStatements ==
  /\ TemplateModule[1] = CreateTemplates /\ TemplateModule[2] = Probe
  /\ TemplateModule[3] = Rename("name", "title") /\ TemplateModule[4] = Rename("content", "text")
  /\ TemplateModule[5] = Import /\ DOMAIN TemplateModule = 1..5
BY DEF TemplateModule, CreateTemplates

\* The concatenation of two sequences, and of three.
LEMMA Concat ==
  ASSUME NEW S, NEW a \in Seq(S), NEW b \in Seq(S), NEW d, d = a \o b
  PROVE  /\ d \in Seq(S) /\ Len(d) = Len(a) + Len(b)
         /\ \A i \in 1..Len(a) : d[i] = a[i]
         /\ \A i \in 1..Len(b) : d[Len(a) + i] = b[i]
OBVIOUS

LEMMA Concat3 ==
  ASSUME NEW S, NEW a \in Seq(S), NEW b \in Seq(S), NEW c \in Seq(S)
  PROVE  /\ Len(a \o b \o c) = Len(a) + Len(b) + Len(c)
         /\ \A i \in 1..Len(a) : (a \o b \o c)[i] = a[i]
         /\ \A i \in 1..Len(b) : (a \o b \o c)[Len(a) + i] = b[i]
         /\ \A i \in 1..Len(c) : (a \o b \o c)[Len(a) + Len(b) + i] = c[i]
<1> DEFINE d == a \o b
<1> DEFINE e == d \o c
<1>a. d = a \o b /\ e = d \o c
  OBVIOUS
<1> HIDE DEF d, e
<1>1. /\ d \in Seq(S) /\ Len(d) = Len(a) + Len(b)
      /\ \A i \in 1..Len(a) : d[i] = a[i]
      /\ \A i \in 1..Len(b) : d[Len(a) + i] = b[i]
  BY <1>a, Concat
<1>2. /\ e \in Seq(S) /\ Len(e) = Len(d) + Len(c)
      /\ \A i \in 1..Len(d) : e[i] = d[i]
      /\ \A i \in 1..Len(c) : e[Len(d) + i] = c[i]
  BY <1>a, <1>1, Concat
<1>3. Len(a) \in Nat /\ Len(b) \in Nat /\ Len(c) \in Nat
  OBVIOUS
<1> QED BY <1>a, <1>1, <1>2, <1>3

LEMMA PlanIs ==
  /\ Len(Plan) = 17 /\ DOMAIN Plan = 1..17
  /\ Plan[1] = CreateTasks /\ Plan[2] = Probe
  /\ Plan[3] = Rename("prompt_text", "prompt")
  /\ Plan[4] = Rename("prompt_id", "prompt_template_id")
  /\ Plan[5] = Probe /\ Plan[6] = Add("provider_id") /\ Plan[7] = Add("key_id")
  /\ Plan[8] = Add("input_image_path") /\ Plan[9] = Probe
  /\ Plan[10] = Add("input_image_paths") /\ Plan[11] = Backfill
  /\ Plan[12] = CreateTemplates /\ Plan[13] = Probe
  /\ Plan[14] = Rename("name", "title") /\ Plan[15] = Rename("content", "text")
  /\ Plan[16] = Import /\ Plan[17] = CreateProviders
<1> DEFINE a == TaskModule
           b == TemplateModule
           c == ProviderModule
<1>1. a \in Seq(Statement) /\ b \in Seq(Statement) /\ c \in Seq(Statement)
  BY ModuleTypes
<1>2. Len(a) = 11 /\ Len(b) = 5 /\ Len(c) = 1
  BY ModuleTypes
<1>3. Plan = a \o b \o c
  BY DEF Plan
<1>4. c[1] = CreateProviders
  BY DEF ProviderModule, CreateProviders
<1> HIDE DEF a, b, c
<1>5. /\ Len(Plan) = 17
      /\ \A i \in 1..11 : Plan[i] = a[i]
      /\ \A i \in 1..5 : Plan[11 + i] = b[i]
      /\ Plan[17] = c[1]
  <2>1. /\ Len(Plan) = 11 + 5 + 1
        /\ \A i \in 1..11 : Plan[i] = a[i]
        /\ \A i \in 1..5 : Plan[11 + i] = b[i]
        /\ \A i \in 1..1 : Plan[11 + 5 + i] = c[i]
    <3>1. /\ Len(Plan) = Len(a) + Len(b) + Len(c)
          /\ \A i \in 1..Len(a) : Plan[i] = a[i]
          /\ \A i \in 1..Len(b) : Plan[Len(a) + i] = b[i]
          /\ \A i \in 1..Len(c) : Plan[Len(a) + Len(b) + i] = c[i]
      BY <1>1, <1>3, Concat3
    <3> QED BY <1>2, <3>1
  <2>2. 1 \in 1..1 /\ 11 + 5 + 1 = 17
    OBVIOUS
  <2> QED BY <2>1, <2>2
<1>6. DOMAIN Plan = 1..17
  BY <1>5, PlanType
<1>7. /\ Plan[1] = a[1] /\ Plan[2] = a[2] /\ Plan[3] = a[3] /\ Plan[4] = a[4] /\ Plan[5] = a[5]
      /\ Plan[6] = a[6] /\ Plan[7] = a[7] /\ Plan[8] = a[8] /\ Plan[9] = a[9]
      /\ Plan[10] = a[10] /\ Plan[11] = a[11]
  BY <1>5
<1>8. /\ Plan[12] = b[1] /\ Plan[13] = b[2] /\ Plan[14] = b[3] /\ Plan[15] = b[4]
      /\ Plan[16] = b[5]
  BY <1>5
<1> USE DEF a, b, c
<1> QED BY <1>4, <1>5, <1>6, <1>7, <1>8, TaskStatements, TemplateStatements, Zenon

LEMMA TaskModuleIs == DOMAIN TaskModule = 1..11 /\ \A i \in 1..11 : TaskModule[i] = Plan[i]
<1>1. DOMAIN TaskModule = 1..11
  BY TaskStatements
<1> QED BY <1>1, TaskStatements, PlanIs

LEMMA TemplateModuleIs ==
  DOMAIN TemplateModule = 1..5 /\ \A i \in 1..5 : TemplateModule[i] = Plan[11 + i]
<1>1. DOMAIN TemplateModule = 1..5
  BY TemplateStatements
<1> QED BY <1>1, TemplateStatements, PlanIs

\* The columns of the two tables that migrate.
TaskColumns ==
  {"", "prompt_text", "prompt", "prompt_id", "prompt_template_id", "task_title", "provider_id",
   "key_id", "input_image_path", "input_image_paths"}
TemplateColumns == {"", "name", "title", "content", "text"}

LEMMA ScriptFields ==
  \A o, n : Script(o, n).op = "script" /\ Script(o, n).old = o /\ Script(o, n).new = n
BY DEF Script

LEMMA RenameFields ==
  \A o, n : Rename(o, n).op = "rename" /\ Rename(o, n).old = o /\ Rename(o, n).new = {n}
BY DEF Rename

LEMMA AddFields == \A n : Add(n).op = "add" /\ Add(n).old = "" /\ Add(n).new = {n}
BY DEF Add

LEMMA OtherFields ==
  /\ Probe.op = "probe" /\ Probe.old = "" /\ Probe.new = {}
  /\ Backfill.op = "backfill" /\ Backfill.old = "" /\ Backfill.new = {}
  /\ Import.op = "import" /\ Import.old = "" /\ Import.new = {}
BY DEF Probe, Backfill, Import

LEMMA Scripts ==
  /\ Plan[1].op = "script" /\ Plan[1].old = "prompt_text"
  /\ Plan[1].new = {"prompt", "prompt_template_id", "task_title"}
  /\ Plan[12].op = "script" /\ Plan[12].old = "name" /\ Plan[12].new = {"title", "text"}
  /\ Plan[17].op = "script" /\ Plan[17].old = "" /\ Plan[17].new = {"providers"}
<1>1. /\ CreateTasks.op = "script" /\ CreateTasks.old = "prompt_text"
      /\ CreateTasks.new = {"prompt", "prompt_template_id", "task_title"}
  BY Zenon, ScriptFields DEF CreateTasks
<1>2. /\ CreateTemplates.op = "script" /\ CreateTemplates.old = "name"
      /\ CreateTemplates.new = {"title", "text"}
  BY Zenon, ScriptFields DEF CreateTemplates
<1>3. /\ CreateProviders.op = "script" /\ CreateProviders.old = ""
      /\ CreateProviders.new = {"providers"}
  BY Zenon, ScriptFields DEF CreateProviders
<1> QED BY PlanIs, <1>1, <1>2, <1>3, Zenon

LEMMA Renames ==
  /\ Plan[3].op = "rename" /\ Plan[3].old = "prompt_text" /\ Plan[3].new = {"prompt"}
  /\ Plan[4].op = "rename" /\ Plan[4].old = "prompt_id" /\ Plan[4].new = {"prompt_template_id"}
  /\ Plan[14].op = "rename" /\ Plan[14].old = "name" /\ Plan[14].new = {"title"}
  /\ Plan[15].op = "rename" /\ Plan[15].old = "content" /\ Plan[15].new = {"text"}
BY PlanIs, RenameFields

LEMMA Adds ==
  /\ Plan[6].op = "add" /\ Plan[6].old = "" /\ Plan[6].new = {"provider_id"}
  /\ Plan[7].op = "add" /\ Plan[7].old = "" /\ Plan[7].new = {"key_id"}
  /\ Plan[8].op = "add" /\ Plan[8].old = "" /\ Plan[8].new = {"input_image_path"}
  /\ Plan[10].op = "add" /\ Plan[10].old = "" /\ Plan[10].new = {"input_image_paths"}
BY PlanIs, AddFields, Zenon

LEMMA Others ==
  /\ Plan[2].op = "probe" /\ Plan[2].new = {} /\ Plan[2].old = ""
  /\ Plan[5].op = "probe" /\ Plan[5].new = {} /\ Plan[5].old = ""
  /\ Plan[9].op = "probe" /\ Plan[9].new = {} /\ Plan[9].old = ""
  /\ Plan[11].op = "backfill" /\ Plan[11].new = {} /\ Plan[11].old = ""
  /\ Plan[13].op = "probe" /\ Plan[13].new = {} /\ Plan[13].old = ""
  /\ Plan[16].op = "import" /\ Plan[16].new = {} /\ Plan[16].old = ""
BY PlanIs, OtherFields, Zenon

LEMMA Range17 ==
  ASSUME NEW i \in 1..17
  PROVE  \/ i = 1 \/ i = 2 \/ i = 3 \/ i = 4 \/ i = 5 \/ i = 6 \/ i = 7 \/ i = 8 \/ i = 9
         \/ i = 10 \/ i = 11 \/ i = 12 \/ i = 13 \/ i = 14 \/ i = 15 \/ i = 16 \/ i = 17
OBVIOUS

LEMMA Range11 ==
  ASSUME NEW i \in 1..11
  PROVE  \/ i = 1 \/ i = 2 \/ i = 3 \/ i = 4 \/ i = 5 \/ i = 6 \/ i = 7 \/ i = 8 \/ i = 9
         \/ i = 10 \/ i = 11
OBVIOUS

LEMMA Range5 == \A i \in 1..5 : i = 1 \/ i = 2 \/ i = 3 \/ i = 4 \/ i = 5
OBVIOUS

LEMMA OnlyRenames == \A i \in 1..17 : Plan[i].op = "rename" <=> i \in {3, 4, 14, 15}
<1>1. /\ Plan[1].op # "rename" /\ Plan[2].op # "rename" /\ Plan[5].op # "rename"
      /\ Plan[6].op # "rename" /\ Plan[7].op # "rename" /\ Plan[8].op # "rename"
      /\ Plan[9].op # "rename" /\ Plan[10].op # "rename" /\ Plan[11].op # "rename"
      /\ Plan[12].op # "rename" /\ Plan[13].op # "rename" /\ Plan[16].op # "rename"
      /\ Plan[17].op # "rename"
  BY Scripts, Adds, Others
<1>2. /\ Plan[3].op = "rename" /\ Plan[4].op = "rename"
      /\ Plan[14].op = "rename" /\ Plan[15].op = "rename"
  BY Renames
<1> QED BY <1>1, <1>2, Range17

LEMMA OnlyScripts == \A i \in 1..17 : Plan[i].op = "script" <=> i \in {1, 12, 17}
<1>1. /\ Plan[2].op # "script" /\ Plan[5].op # "script" /\ Plan[9].op # "script"
      /\ Plan[11].op # "script" /\ Plan[13].op # "script" /\ Plan[16].op # "script"
  BY Others
<1>2. /\ Plan[3].op # "script" /\ Plan[4].op # "script"
      /\ Plan[14].op # "script" /\ Plan[15].op # "script"
  BY Renames
<1>3. /\ Plan[6].op # "script" /\ Plan[7].op # "script"
      /\ Plan[8].op # "script" /\ Plan[10].op # "script"
  BY Adds
<1>4. Plan[1].op = "script" /\ Plan[12].op = "script" /\ Plan[17].op = "script"
  BY Scripts
<1> QED BY <1>1, <1>2, <1>3, <1>4, Range17

LEMMA OnlyAdds == \A i \in 1..17 : Plan[i].op = "add" <=> i \in {6, 7, 8, 10}
<1>1. /\ Plan[2].op # "add" /\ Plan[5].op # "add" /\ Plan[9].op # "add"
      /\ Plan[11].op # "add" /\ Plan[13].op # "add" /\ Plan[16].op # "add"
  BY Others
<1>2. /\ Plan[3].op # "add" /\ Plan[4].op # "add" /\ Plan[14].op # "add" /\ Plan[15].op # "add"
  BY Renames
<1>3. /\ Plan[6].op = "add" /\ Plan[7].op = "add" /\ Plan[8].op = "add" /\ Plan[10].op = "add"
  BY Adds
<1>4. Plan[1].op # "add" /\ Plan[12].op # "add" /\ Plan[17].op # "add"
  BY Scripts
<1> QED BY <1>1, <1>2, <1>3, <1>4, Range17

LEMMA CurrentIs ==
  Current = {"prompt", "prompt_template_id", "task_title", "provider_id", "key_id",
             "input_image_path", "input_image_paths", "title", "text", "providers"}
<1> DEFINE C == {"prompt", "prompt_template_id", "task_title", "provider_id", "key_id",
                 "input_image_path", "input_image_paths", "title", "text", "providers"}
<1>1. ASSUME NEW i \in 1..17
      PROVE  Plan[i].new \subseteq C
  <2>1. /\ Plan[1].new \subseteq C /\ Plan[12].new \subseteq C /\ Plan[17].new \subseteq C
    BY Scripts
  <2>2. /\ Plan[3].new \subseteq C /\ Plan[4].new \subseteq C
        /\ Plan[14].new \subseteq C /\ Plan[15].new \subseteq C
    BY Renames
  <2>3. /\ Plan[6].new \subseteq C /\ Plan[7].new \subseteq C
        /\ Plan[8].new \subseteq C /\ Plan[10].new \subseteq C
    BY Adds
  <2>4. /\ Plan[2].new \subseteq C /\ Plan[5].new \subseteq C /\ Plan[9].new \subseteq C
        /\ Plan[11].new \subseteq C /\ Plan[13].new \subseteq C /\ Plan[16].new \subseteq C
    BY Others
  <2> HIDE DEF C
  <2> QED BY <2>1, <2>2, <2>3, <2>4, Range17
<1>2. C \subseteq Plan[1].new \cup Plan[6].new \cup Plan[7].new \cup Plan[8].new
                    \cup Plan[10].new \cup Plan[12].new \cup Plan[17].new
  BY Scripts, Adds
<1>3. DOMAIN Plan = 1..17
  BY PlanIs
<1> HIDE DEF C
<1>4. Current \subseteq C
  BY <1>1, <1>3 DEF Current
<1>5. C \subseteq Current
  BY <1>2, <1>3 DEF Current
<1> QED BY <1>4, <1>5 DEF C

LEMMA OutdatedIs == Outdated = {"prompt_text", "prompt_id", "name", "content"}
<1>1. DOMAIN Plan = 1..17
  BY PlanIs
<1>2. {j \in 1..17 : Plan[j].op = "rename"} = {3, 4, 14, 15}
  BY OnlyRenames
<1>3. Outdated = {Plan[i].old : i \in {3, 4, 14, 15}}
  BY <1>1, <1>2 DEF Outdated
<1> QED BY <1>3, Renames

LEMMA TasksThere ==
  ASSUME NEW s
  PROVE  There(TaskModule, s)
           <=> /\ "prompt_text" \in s <=> ~("prompt" \in s)
               /\ "prompt_id" \in s <=> ~("prompt_template_id" \in s)
<1> DEFINE m == TaskModule
<1>1. DOMAIN m = 1..11
  BY TaskModuleIs
<1>2. \A i \in 1..11 : m[i] = Plan[i]
  BY TaskModuleIs
<1> HIDE DEF m
<1>3. \A i \in 1..11 : m[i].op = "rename" <=> i \in {3, 4}
  BY <1>2, OnlyRenames
<1>4. There(m, s) <=> \A i \in {3, 4} : m[i].old \in s <=> ~(m[i].new \subseteq s)
  BY <1>1, <1>3 DEF There
<1>5. /\ m[3].old = "prompt_text" /\ m[3].new = {"prompt"}
      /\ m[4].old = "prompt_id" /\ m[4].new = {"prompt_template_id"}
  BY <1>2, Renames
<1> QED BY <1>4, <1>5 DEF m

LEMMA TemplatesThere ==
  ASSUME NEW s
  PROVE  There(TemplateModule, s)
           <=> /\ "name" \in s <=> ~("title" \in s)
               /\ "content" \in s <=> ~("text" \in s)
<1> DEFINE m == TemplateModule
<1>1. DOMAIN m = 1..5
  BY TemplateModuleIs
<1>2. \A i \in 1..5 : m[i] = Plan[11 + i]
  BY TemplateModuleIs
<1> HIDE DEF m
<1>3. \A i \in 1..5 : m[i].op = "rename" <=> i \in {3, 4}
  BY <1>2, OnlyRenames
<1>4. There(m, s) <=> \A i \in {3, 4} : m[i].old \in s <=> ~(m[i].new \subseteq s)
  BY <1>1, <1>3 DEF There
<1>5. /\ m[3].old = "name" /\ m[3].new = {"title"}
      /\ m[4].old = "content" /\ m[4].new = {"text"}
  BY <1>2, Renames
<1> QED BY <1>4, <1>5 DEF m

LEMMA TaskColumnsAre == Columns(TaskModule) = TaskColumns
<1> DEFINE m == TaskModule
<1>0. \A i \in 1..11 : m[i] = Plan[i]
  BY TaskModuleIs
<1>2. Columns(m) = UNION {m[i].new \cup {m[i].old} : i \in 1..11}
  BY TaskModuleIs DEF Columns
<1> HIDE DEF m
<1>3. Columns(m) = UNION {Plan[i].new \cup {Plan[i].old} : i \in 1..11}
  BY <1>0, <1>2
<1>4. \A i \in 1..11 : Plan[i].new \subseteq TaskColumns
  <2>1. Plan[1].new \subseteq TaskColumns
    BY Scripts DEF TaskColumns
  <2>2. Plan[3].new \subseteq TaskColumns /\ Plan[4].new \subseteq TaskColumns
    BY Renames DEF TaskColumns
  <2>3. /\ Plan[6].new \subseteq TaskColumns /\ Plan[7].new \subseteq TaskColumns
        /\ Plan[8].new \subseteq TaskColumns /\ Plan[10].new \subseteq TaskColumns
    BY Adds DEF TaskColumns
  <2>4. /\ Plan[2].new \subseteq TaskColumns /\ Plan[5].new \subseteq TaskColumns
        /\ Plan[9].new \subseteq TaskColumns /\ Plan[11].new \subseteq TaskColumns
    BY Others DEF TaskColumns
  <2> QED BY <2>1, <2>2, <2>3, <2>4, Range11
<1>5. \A i \in 1..11 : Plan[i].old \in TaskColumns
  <2>1. Plan[1].old \in TaskColumns
    BY Scripts DEF TaskColumns
  <2>2. Plan[3].old \in TaskColumns /\ Plan[4].old \in TaskColumns
    BY Renames DEF TaskColumns
  <2>3. /\ Plan[6].old \in TaskColumns /\ Plan[7].old \in TaskColumns
        /\ Plan[8].old \in TaskColumns /\ Plan[10].old \in TaskColumns
    BY Adds DEF TaskColumns
  <2>4. /\ Plan[2].old \in TaskColumns /\ Plan[5].old \in TaskColumns
        /\ Plan[9].old \in TaskColumns /\ Plan[11].old \in TaskColumns
    BY Others DEF TaskColumns
  <2> QED BY <2>1, <2>2, <2>3, <2>4, Range11
<1>6. Columns(m) \subseteq TaskColumns
  BY <1>3, <1>4, <1>5
<1>7. /\ {"prompt", "prompt_template_id", "task_title"} \subseteq Plan[1].new
      /\ Plan[1].old = "prompt_text" /\ Plan[4].old = "prompt_id" /\ Plan[6].old = ""
      /\ "provider_id" \in Plan[6].new /\ "key_id" \in Plan[7].new
      /\ "input_image_path" \in Plan[8].new /\ "input_image_paths" \in Plan[10].new
  BY Scripts, Renames, Adds
<1>8. /\ {"prompt", "prompt_template_id", "task_title", "prompt_text"} \subseteq Columns(m)
      /\ {"prompt_id", "provider_id", "", "key_id"} \subseteq Columns(m)
      /\ {"input_image_path", "input_image_paths"} \subseteq Columns(m)
  <2>1. \A i \in 1..11 : Plan[i].new \subseteq Columns(m) /\ Plan[i].old \in Columns(m)
    BY <1>3
  <2>2. /\ Plan[1].new \subseteq Columns(m) /\ Plan[1].old \in Columns(m)
        /\ Plan[4].old \in Columns(m) /\ Plan[6].new \subseteq Columns(m)
        /\ Plan[6].old \in Columns(m) /\ Plan[7].new \subseteq Columns(m)
        /\ Plan[8].new \subseteq Columns(m) /\ Plan[10].new \subseteq Columns(m)
    BY <2>1
  <2> QED BY <1>7, <2>2
<1>9. TaskColumns \subseteq Columns(m)
  BY <1>8 DEF TaskColumns
<1> QED BY <1>6, <1>9 DEF m

LEMMA TemplateColumnsAre == Columns(TemplateModule) = TemplateColumns
<1> DEFINE m == TemplateModule
<1>0. \A i \in 1..5 : m[i] = Plan[11 + i]
  BY TemplateModuleIs
<1>1. Columns(m) = UNION {m[i].new \cup {m[i].old} : i \in 1..5}
  BY TemplateModuleIs DEF Columns
<1> HIDE DEF m
<1>2. /\ m[1] = Plan[12] /\ m[2] = Plan[13] /\ m[3] = Plan[14]
      /\ m[4] = Plan[15] /\ m[5] = Plan[16]
  BY <1>0
<1>3. \A i \in 1..5 : m[i].new \subseteq TemplateColumns
  <2>1. Plan[12].new \subseteq TemplateColumns
    BY Scripts DEF TemplateColumns
  <2>2. Plan[14].new \subseteq TemplateColumns /\ Plan[15].new \subseteq TemplateColumns
    BY Renames DEF TemplateColumns
  <2>3. Plan[13].new \subseteq TemplateColumns /\ Plan[16].new \subseteq TemplateColumns
    BY Others DEF TemplateColumns
  <2> QED BY <1>2, <2>1, <2>2, <2>3, Range5
<1>4. \A i \in 1..5 : m[i].old \in TemplateColumns
  <2>1. Plan[12].old \in TemplateColumns
    BY Scripts DEF TemplateColumns
  <2>2. Plan[14].old \in TemplateColumns /\ Plan[15].old \in TemplateColumns
    BY Renames DEF TemplateColumns
  <2>3. Plan[13].old \in TemplateColumns /\ Plan[16].old \in TemplateColumns
    BY Others DEF TemplateColumns
  <2> QED BY <1>2, <2>1, <2>2, <2>3, Range5
<1>5. Columns(m) \subseteq TemplateColumns
  BY <1>1, <1>3, <1>4
<1>6. /\ {"title", "text"} \subseteq m[1].new /\ m[1].old = "name" /\ m[2].old = ""
      /\ m[4].old = "content"
  <2>1. {"title", "text"} \subseteq m[1].new /\ m[1].old = "name"
    BY <1>2, Scripts
  <2>2. m[2].old = ""
    BY <1>2, Others
  <2>3. m[4].old = "content"
    BY <1>2, Renames
  <2> QED BY <2>1, <2>2, <2>3
<1>7. /\ m[1].new \subseteq Columns(m) /\ m[1].old \in Columns(m) /\ m[2].old \in Columns(m)
      /\ m[4].old \in Columns(m)
  <2>1. \A i \in 1..5 : m[i].new \subseteq Columns(m) /\ m[i].old \in Columns(m)
    BY <1>1
  <2> QED BY <2>1
<1>8. TemplateColumns \subseteq Columns(m)
  BY <1>6, <1>7 DEF TemplateColumns
<1> QED BY <1>5, <1>8 DEF m

\* A schema that is made of known columns, table by table.
LEMMA TasksAreWhole ==
  ASSUME NEW s
  PROVE  Whole(TaskModule, s)
           <=> \/ s \cap TaskColumns = {}
               \/ /\ "prompt_text" \in s <=> ~("prompt" \in s)
                  /\ "prompt_id" \in s <=> ~("prompt_template_id" \in s)
BY TaskColumnsAre, TasksThere DEF Whole

LEMMA TemplatesAreWhole ==
  ASSUME NEW s
  PROVE  Whole(TemplateModule, s)
           <=> \/ s \cap TemplateColumns = {}
               \/ /\ "name" \in s <=> ~("title" \in s)
                  /\ "content" \in s <=> ~("text" \in s)
BY TemplateColumnsAre, TemplatesThere DEF Whole

LEMMA TablesAreThere ==
  /\ TablesAreWhole /\ Done(Plan[1]) => There(TaskModule, schema)
  /\ TablesAreWhole /\ Done(Plan[12]) => There(TemplateModule, schema)
<1>1. Done(Plan[1]) => schema \cap TaskColumns # {}
  BY Scripts DEF Done, TaskColumns
<1>2. Done(Plan[12]) => schema \cap TemplateColumns # {}
  BY Scripts DEF Done, TemplateColumns
<1> QED BY <1>1, <1>2, TaskColumnsAre, TemplateColumnsAre DEF TablesAreWhole, Whole

LEMMA SeenIs ==
  ASSUME TypeOK
  PROVE  RenameHasSeen
           <=> \A p \in Initialiser :
                 /\ at[p] \in {3, 4} => There(TaskModule, cols[p])
                 /\ at[p] \in {14, 15} => There(TemplateModule, cols[p])
<1>1. Len(TaskModule) = 11 /\ Len(Plan) = 17
  BY ModuleTypes, PlanIs
<1>2. \A p \in Initialiser : at[p] \in 0..17
  BY <1>1 DEF TypeOK
<1>3. \A p \in Initialiser : Doing(p, "rename") <=> at[p] \in {3, 4, 14, 15}
  BY <1>2, OnlyRenames DEF Doing
<1> QED BY <1>1, <1>2, <1>3 DEF RenameHasSeen

\* No current column goes, nor a table; and no row loses its list of images.
Grows ==
  /\ schema \cap Current \subseteq schema' /\ unfilled' \subseteq unfilled
  /\ "prompt_text" \in schema => "prompt_text" \in schema' \/ "prompt" \in schema'
  /\ "name" \in schema => "name" \in schema' \/ "title" \in schema'

LEMMA DoneStays ==
  ASSUME TypeOK, Grows, NEW i \in 1..17, Done(Plan[i])
  PROVE  Done(Plan[i])'
<1> DEFINE statement == Plan[i]
<1>1. statement.new \subseteq Current
  BY PlanIs DEF Current
<1>2. ASSUME statement.op = "script"
      PROVE  schema' \cap (statement.new \cup {statement.old}) # {}
  <2>1. i \in {1, 12, 17}
    BY <1>2, OnlyScripts
  <2>2. PICK x \in statement.new \cup {statement.old} : x \in schema
    BY <1>2 DEF Done
  <2>3. CASE x \in statement.new
    BY <1>1, <2>2, <2>3 DEF Grows
  <2>4. CASE x = statement.old
    <3>1. CASE i = 1
      <4>1. statement.old = "prompt_text" /\ "prompt" \in statement.new
        BY <3>1, Scripts
      <4> QED BY <2>2, <2>4, <4>1 DEF Grows
    <3>2. CASE i = 12
      <4>1. statement.old = "name" /\ "title" \in statement.new
        BY <3>2, Scripts
      <4> QED BY <2>2, <2>4, <4>1 DEF Grows
    <3>3. CASE i = 17
      <4>1. statement.old = ""
        BY <3>3, Scripts
      <4> QED BY <2>2, <2>4, <4>1, CurrentIs, OutdatedIs DEF TypeOK
    <3> QED BY <2>1, <3>1, <3>2, <3>3
  <2> QED BY <2>2, <2>3, <2>4
<1>3. statement.op \in {"rename", "add"} => statement.new \subseteq schema'
  BY <1>1 DEF Done, Grows
<1>4. statement.op = "backfill" => unfilled' = {}
  BY DEF Done, Grows
<1> QED BY <1>2, <1>3, <1>4 DEF Done

LEMMA ProbesStay ==
  ASSUME ProbedIsThere, Grows, NEW p \in Initialiser, cols'[p] = cols[p]
  PROVE  cols'[p] \cap Current \subseteq schema'
BY DEF ProbedIsThere, Grows

LEMMA SeenIsNext ==
  ASSUME TypeOK'
  PROVE  RenameHasSeen'
           <=> \A p \in Initialiser :
                 /\ at'[p] \in {3, 4} => There(TaskModule, cols'[p])
                 /\ at'[p] \in {14, 15} => There(TemplateModule, cols'[p])
<1>1. Len(TaskModule) = 11 /\ Len(Plan) = 17
  BY ModuleTypes, PlanIs
<1>2. \A p \in Initialiser : at'[p] \in 0..17
  BY <1>1 DEF TypeOK
<1>3. \A p \in Initialiser : Doing(p, "rename")' <=> at'[p] \in {3, 4, 14, 15}
  BY <1>2, OnlyRenames DEF Doing
<1> QED BY <1>1, <1>2, <1>3 DEF RenameHasSeen

\* A step that leaves the schema, and moves no initialiser forward.
LEMMA Moves ==
  ASSUME TypeOK, TypeOK', SchemaInvariant, schema' = schema, unfilled' \subseteq unfilled,
         \A p \in Initialiser :
           \/ at'[p] = at[p] /\ cols'[p] = cols[p]
           \/ at'[p] \in {0, 1} /\ cols'[p] \in {cols[p], {}},
         phase' \in {phase, "down", "init"} \/ phase \in {"secrets", "key", "token", "serving"}
  PROVE  SchemaInvariant'
<1>0. TablesAreWhole /\ ProbedIsThere /\ RenameHasSeen /\ DoneBehind /\ AllDone
  BY DEF SchemaInvariant
<1>1. Grows
  BY DEF Grows
<1>2. TablesAreWhole'
  BY <1>0 DEF TablesAreWhole
<1>3. ProbedIsThere'
  BY <1>0, <1>1, ProbesStay DEF ProbedIsThere
<1>4. RenameHasSeen'
  <2>1. \A p \in Initialiser : at'[p] \in {3, 4, 14, 15} => at'[p] = at[p] /\ cols'[p] = cols[p]
    OBVIOUS
  <2> QED BY <1>0, <2>1, SeenIs, SeenIsNext
<1>5. \A i \in 1..17 : Done(Plan[i]) => Done(Plan[i])'
  BY <1>1, DoneStays
<1>6. DoneBehind'
  <2> SUFFICES ASSUME NEW p \in Initialiser, NEW i \in 1..(at'[p] - 1)
               PROVE  Done(Plan[i])'
    BY DEF DoneBehind
  <2>1. at[p] \in 0..17 /\ at'[p] \in 0..17
    BY PlanIs DEF TypeOK
  <2>2. at'[p] = at[p]
    BY <2>1
  <2>3. i \in 1..17 /\ i \in 1..(at[p] - 1)
    BY <2>1, <2>2
  <2> QED BY <1>0, <1>5, <2>3 DEF DoneBehind
<1>7. AllDone'
  BY <1>0, <1>5, PlanIs DEF AllDone
<1> QED BY <1>2, <1>3, <1>4, <1>6, <1>7 DEF SchemaInvariant

\* An initialiser has done a statement and goes on to the next.
LEMMA GoesOn ==
  ASSUME TypeOK, TypeOK', InitFirst, SchemaInvariant, NEW p \in Initialiser, at[p] # 0,
         NEW now \in 1..17, at[p] = now, Proceed(p), Grows, Done(Plan[now])', TablesAreWhole',
         \A q \in Initialiser \ {p} : cols'[q] = cols[q],
         \/ cols'[p] = cols[p] /\ ~Doing(p, "probe")
         \/ cols'[p] = schema /\ schema' = schema /\ Doing(p, "probe")
  PROVE  SchemaInvariant'
<1>0. TablesAreWhole /\ ProbedIsThere /\ RenameHasSeen /\ DoneBehind /\ AllDone
  BY DEF SchemaInvariant
<1>1. Len(Plan) = 17 /\ DOMAIN Plan = 1..17
  BY PlanIs
<1>2. at[p] \in 1..17
  OBVIOUS
<1>3. \A q \in Initialiser \ {p} : at'[q] = at[q]
  BY ProceedFacts
<1>4. (at'[p] = at[p] + 1 /\ at[p] < 17) \/ at'[p] \in {0, 1}
  BY <1>1, <1>2 DEF Proceed, After, TypeOK
<1>5. ProbedIsThere'
  BY <1>0, ProbesStay DEF ProbedIsThere
<1>6. RenameHasSeen'
  <2>1. ASSUME at'[p] \in {3, 4, 14, 15}
        PROVE  /\ at'[p] \in {3, 4} => There(TaskModule, cols'[p])
               /\ at'[p] \in {14, 15} => There(TemplateModule, cols'[p])
    <3>1. at[p] \in {2, 3, 13, 14} /\ at'[p] = at[p] + 1
      BY <1>2, <1>4, <2>1
    <3>2. CASE at[p] \in {3, 14}
      <4>1. cols'[p] = cols[p]
        <5>1. Plan[3].op = "rename" /\ Plan[14].op = "rename"
          BY Renames
        <5>2. ~Doing(p, "probe")
          BY <3>2, <5>1 DEF Doing
        <5> QED BY <5>2
      <4> QED BY <1>0, <3>1, <3>2, <4>1, SeenIs
    <3>3. CASE at[p] \in {2, 13}
      <4>1. cols'[p] = schema
        BY <1>2, <3>3, Others DEF Doing
      <4>2. at[p] = 2 => Done(Plan[1])
        BY <1>0 DEF DoneBehind
      <4>3. at[p] = 13 => Done(Plan[12])
        BY <1>0 DEF DoneBehind
      <4> QED BY <1>0, <3>1, <3>3, <4>1, <4>2, <4>3, TablesAreThere
    <3> QED BY <3>1, <3>2, <3>3
  <2>2. \A q \in Initialiser \ {p} : at'[q] = at[q] /\ cols'[q] = cols[q]
    BY <1>3
  <2> QED BY <1>0, <2>1, <2>2, SeenIs, SeenIsNext
<1>7. \A i \in 1..17 : Done(Plan[i]) => Done(Plan[i])'
  BY DoneStays
<1>8. \A i \in 1..(at[p] - 1) : Done(Plan[i])'
  BY <1>0, <1>2, <1>7 DEF DoneBehind
<1>9. \A i \in 1..at[p] : Done(Plan[i])'
  <2> TAKE i \in 1..at[p]
  <2>1. i = at[p] \/ i \in 1..(at[p] - 1)
    BY <1>2
  <2> QED BY <1>8, <2>1
<1>10. DoneBehind'
  <2>1. ASSUME NEW q \in Initialiser \ {p}, NEW i \in 1..(at'[q] - 1)
        PROVE  Done(Plan[i])'
    <3>1. at'[q] = at[q] /\ at[q] \in 0..17
      BY <1>1, <1>3 DEF TypeOK
    <3>2. i \in 1..17 /\ i \in 1..(at[q] - 1)
      BY <3>1
    <3> QED BY <1>0, <1>7, <3>2 DEF DoneBehind
  <2>2. ASSUME NEW i \in 1..(at'[p] - 1)
        PROVE  Done(Plan[i])'
    BY <1>2, <1>4, <1>9
  <2> QED BY <2>1, <2>2 DEF DoneBehind
<1>11. AllDone'
  <2>1. CASE phase' = phase
    BY <1>0, <1>1, <1>7, <2>1 DEF AllDone
  <2>2. CASE phase' # phase
    <3>1. at[p] = 17
      BY <1>1, <2>2 DEF Proceed
    <3> QED BY <1>1, <1>9, <3>1 DEF AllDone
  <2> QED BY <2>1, <2>2
<1> QED BY <1>5, <1>6, <1>10, <1>11 DEF SchemaInvariant

LEMMA StatementDoing ==
  ASSUME TypeOK, NEW p \in Initialiser, at[p] # 0
  PROVE  at[p] \in 1..17
BY PlanIs DEF TypeOK

LEMMA RunScriptSchema ==
  ASSUME TypeOK, TypeOK', InitFirst, SchemaInvariant, NEW p \in Initialiser, RunScript(p)
  PROVE  SchemaInvariant'
<1>0. TablesAreWhole
  BY DEF SchemaInvariant
<1> DEFINE now == at[p]
           step == Plan[now]
<1>1. /\ Doing(p, "script") /\ at[p] # 0 /\ step.op = "script" /\ Proceed(p)
      /\ schema' = IF schema \cap (step.new \cup {step.old}) = {} THEN schema \cup step.new
                   ELSE schema
      /\ UNCHANGED <<unfilled, cols>>
  BY DEF RunScript, Doing
<1>2. now \in {1, 12, 17}
  BY <1>1, StatementDoing, OnlyScripts
<1>3. schema \subseteq schema'
  BY <1>1
<1>4. Grows
  BY <1>1, <1>3 DEF Grows
<1>5. step.new # {}
  BY <1>2, Scripts
<1>6. schema' \cap (step.new \cup {step.old}) # {}
  BY <1>1, <1>5
<1>7. TablesAreWhole'
  <2>1. CASE schema' = schema
    BY <1>0, <2>1 DEF TablesAreWhole
  <2>2. CASE schema' # schema /\ now = 1
    <3>1. step.new = {"prompt", "prompt_template_id", "task_title"} /\ step.old = "prompt_text"
      BY <2>2, Scripts
    <3>2. /\ "prompt_text" \notin schema /\ "prompt" \notin schema
          /\ schema' = schema \cup {"prompt", "prompt_template_id", "task_title"}
      BY <1>1, <2>2, <3>1
    <3>3. schema \cap TaskColumns = {}
      BY <1>0, <3>2, TasksAreWhole DEF TablesAreWhole
    <3>4. Whole(TaskModule, schema')
      BY <3>2, <3>3, TasksAreWhole DEF TaskColumns
    <3>5. Whole(TemplateModule, schema')
      BY <1>0, <3>2, TemplatesAreWhole DEF TablesAreWhole, TemplateColumns
    <3> QED BY <3>4, <3>5 DEF TablesAreWhole
  <2>3. CASE schema' # schema /\ now = 12
    <3>1. step.new = {"title", "text"} /\ step.old = "name"
      BY <2>3, Scripts
    <3>2. "name" \notin schema /\ "title" \notin schema /\ schema' = schema \cup {"title", "text"}
      BY <1>1, <2>3, <3>1
    <3>3. schema \cap TemplateColumns = {}
      BY <1>0, <3>2, TemplatesAreWhole DEF TablesAreWhole
    <3>4. Whole(TemplateModule, schema')
      BY <3>2, <3>3, TemplatesAreWhole DEF TemplateColumns
    <3>5. Whole(TaskModule, schema')
      BY <1>0, <3>2, TasksAreWhole DEF TablesAreWhole, TaskColumns
    <3> QED BY <3>4, <3>5 DEF TablesAreWhole
  <2>4. CASE schema' # schema /\ now = 17
    <3>1. schema' = schema \cup {"providers"}
      BY <1>1, <2>4, Scripts
    <3>2. Whole(TaskModule, schema')
      BY <1>0, <3>1, TasksAreWhole DEF TablesAreWhole, TaskColumns
    <3>3. Whole(TemplateModule, schema')
      BY <1>0, <3>1, TemplatesAreWhole DEF TablesAreWhole, TemplateColumns
    <3> QED BY <3>2, <3>3 DEF TablesAreWhole
  <2> QED BY <1>2, <2>1, <2>2, <2>3, <2>4
<1>8. \A i \in 1..17 : i = now => Done(Plan[i])'
  BY <1>1, <1>6 DEF Done
<1>9. ~Doing(p, "probe") /\ now \in 1..17
  BY <1>1, <1>2 DEF Doing
<1> QED BY <1>1, <1>4, <1>7, <1>8, <1>9, GoesOn

LEMMA LookSchema ==
  ASSUME TypeOK, TypeOK', InitFirst, SchemaInvariant, NEW p \in Initialiser, Look(p)
  PROVE  SchemaInvariant'
<1> DEFINE now == at[p]
<1>1. /\ Doing(p, "probe") /\ at[p] # 0 /\ Plan[now].op = "probe" /\ Proceed(p)
      /\ UNCHANGED <<schema, unfilled>> /\ cols' = [cols EXCEPT ![p] = schema]
  BY DEF Look, Doing, dbVars
<1>2. now \in 1..17
  BY <1>1, StatementDoing
<1>3. Grows
  BY <1>1 DEF Grows
<1>4. TablesAreWhole'
  BY <1>1 DEF SchemaInvariant, TablesAreWhole
<1>5. \A i \in 1..17 : i = now => Done(Plan[i])'
  BY <1>1 DEF Done
<1>6. cols'[p] = schema /\ \A q \in Initialiser \ {p} : cols'[q] = cols[q]
  BY <1>1 DEF TypeOK
<1> QED BY <1>1, <1>2, <1>3, <1>4, <1>5, <1>6, GoesOn

LEMMA FillEndSchema ==
  ASSUME TypeOK, TypeOK', InitFirst, SchemaInvariant, NEW p \in Initialiser, FillEnd(p)
  PROVE  SchemaInvariant'
<1> DEFINE now == at[p]
<1>1. /\ ~Doing(p, "probe") /\ at[p] # 0 /\ Plan[now].op = "backfill" /\ Proceed(p)
      /\ unfilled = {} /\ UNCHANGED <<schema, unfilled, cols>>
  BY DEF FillEnd, Filled, Doing, dbVars
<1>2. now \in 1..17
  BY <1>1, StatementDoing
<1>3. Grows
  BY <1>1 DEF Grows
<1>4. TablesAreWhole'
  BY <1>1 DEF SchemaInvariant, TablesAreWhole
<1>5. \A i \in 1..17 : i = now => Done(Plan[i])'
  BY <1>1 DEF Done
<1> QED BY <1>1, <1>2, <1>3, <1>4, <1>5, GoesOn

LEMMA ImportEndSchema ==
  ASSUME TypeOK, TypeOK', InitFirst, SchemaInvariant, NEW p \in Initialiser, ImportEnd(p)
  PROVE  SchemaInvariant'
<1> DEFINE now == at[p]
<1>1. /\ ~Doing(p, "probe") /\ at[p] # 0 /\ Plan[now].op = "import" /\ Proceed(p)
      /\ UNCHANGED <<schema, unfilled, cols>>
  BY DEF ImportEnd, Doing, dbVars
<1>2. now \in 1..17
  BY <1>1, StatementDoing
<1>3. Grows
  BY <1>1 DEF Grows
<1>4. TablesAreWhole'
  BY <1>1 DEF SchemaInvariant, TablesAreWhole
<1>5. \A i \in 1..17 : i = now => Done(Plan[i])'
  BY <1>1 DEF Done
<1> QED BY <1>1, <1>2, <1>3, <1>4, <1>5, GoesOn

\* A rename on a schema that has the table, under one of the two names.
LEMMA RenameSchema ==
  ASSUME TypeOK, TablesAreWhole, NEW i \in {3, 4, 14, 15}, Plan[i].old \in schema,
         Plan[i].new \cap schema = {}, schema' = (schema \ {Plan[i].old}) \cup Plan[i].new
  PROVE  schema \cap Current \subseteq schema' /\ TablesAreWhole'
         /\ ("prompt_text" \in schema => "prompt_text" \in schema' \/ "prompt" \in schema')
         /\ ("name" \in schema => "name" \in schema' \/ "title" \in schema')
<1>1. CASE i = 3
  <2>1. /\ "prompt_text" \in schema /\ "prompt" \notin schema
        /\ schema' = (schema \ {"prompt_text"}) \cup {"prompt"}
    BY <1>1, Renames
  <2>2. Whole(TaskModule, schema')
    BY <2>1, TasksAreWhole DEF TablesAreWhole, TaskColumns
  <2>3. Whole(TemplateModule, schema')
    BY <2>1, TemplatesAreWhole DEF TablesAreWhole, TemplateColumns
  <2>4. schema \cap Current \subseteq schema'
    BY <2>1, CurrentIs
  <2> QED BY <2>1, <2>2, <2>3, <2>4 DEF TablesAreWhole
<1>2. CASE i = 4
  <2>1. /\ "prompt_id" \in schema /\ "prompt_template_id" \notin schema
        /\ schema' = (schema \ {"prompt_id"}) \cup {"prompt_template_id"}
    BY <1>2, Renames
  <2>2. Whole(TaskModule, schema')
    BY <2>1, TasksAreWhole DEF TablesAreWhole, TaskColumns
  <2>3. Whole(TemplateModule, schema')
    BY <2>1, TemplatesAreWhole DEF TablesAreWhole, TemplateColumns
  <2>4. schema \cap Current \subseteq schema'
    BY <2>1, CurrentIs
  <2> QED BY <2>1, <2>2, <2>3, <2>4 DEF TablesAreWhole
<1>3. CASE i = 14
  <2>1. /\ "name" \in schema /\ "title" \notin schema
        /\ schema' = (schema \ {"name"}) \cup {"title"}
    BY <1>3, Renames
  <2>2. Whole(TaskModule, schema')
    BY <2>1, TasksAreWhole DEF TablesAreWhole, TaskColumns
  <2>3. Whole(TemplateModule, schema')
    BY <2>1, TemplatesAreWhole DEF TablesAreWhole, TemplateColumns
  <2>4. schema \cap Current \subseteq schema'
    BY <2>1, CurrentIs
  <2> QED BY <2>1, <2>2, <2>3, <2>4 DEF TablesAreWhole
<1>4. CASE i = 15
  <2>1. /\ "content" \in schema /\ "text" \notin schema
        /\ schema' = (schema \ {"content"}) \cup {"text"}
    BY <1>4, Renames
  <2>2. Whole(TaskModule, schema')
    BY <2>1, TasksAreWhole DEF TablesAreWhole, TaskColumns
  <2>3. Whole(TemplateModule, schema')
    BY <2>1, TemplatesAreWhole DEF TablesAreWhole, TemplateColumns
  <2>4. schema \cap Current \subseteq schema'
    BY <2>1, CurrentIs
  <2> QED BY <2>1, <2>2, <2>3, <2>4 DEF TablesAreWhole
<1> QED BY <1>1, <1>2, <1>3, <1>4

\* A column that is added to a table that is there.
LEMMA AddSchema ==
  ASSUME TypeOK, TablesAreWhole, There(TaskModule, schema), NEW i \in {6, 7, 8, 10},
         schema' = (schema \ {Plan[i].old}) \cup Plan[i].new
  PROVE  schema \subseteq schema' /\ TablesAreWhole'
<1>1. PICK column \in {"provider_id", "key_id", "input_image_path", "input_image_paths"} :
        Plan[i].new = {column} /\ Plan[i].old = ""
  BY Adds
<1>2. "" \notin schema
  BY CurrentIs, OutdatedIs DEF TypeOK
<1>3. schema' = schema \cup {column}
  BY <1>1, <1>2
<1>4. There(TaskModule, schema')
  BY <1>3, TasksThere
<1>5. Whole(TemplateModule, schema')
  BY <1>3, TemplatesAreWhole DEF TablesAreWhole, TemplateColumns
<1> QED BY <1>3, <1>4, <1>5 DEF TablesAreWhole, Whole

LEMMA AlterSchema ==
  ASSUME TypeOK, TypeOK', InitFirst, SchemaInvariant, NEW p \in Initialiser, Alter(p)
  PROVE  SchemaInvariant'
<1>0. TablesAreWhole /\ ProbedIsThere /\ RenameHasSeen /\ DoneBehind
  BY DEF SchemaInvariant
<1> DEFINE now == at[p]
           step == Plan[now]
<1>1. /\ at[p] # 0 /\ ~Doing(p, "probe") /\ step.op \in {"rename", "add"} /\ UNCHANGED unfilled
  BY DEF Alter, Doing
<1>2. now \in 1..17 /\ step.new \subseteq Current
  BY <1>1, StatementDoing, PlanIs DEF Current
<1>3. CASE ~Alters(p, step)
  <2>1. Proceed(p) /\ UNCHANGED <<schema, cols>>
    BY <1>3 DEF Alter
  <2>2. step.new \subseteq schema
    <3>1. CASE step.new \cap cols[p] # {}
      <4>1. \E c : step.new = {c}
        <5>1. now \in {3, 4, 14, 15} \/ now \in {6, 7, 8, 10}
          BY <1>1, <1>2, OnlyRenames, OnlyAdds
        <5>2. now \in {3, 4, 14, 15} => \E c : step.new = {c}
          BY Renames
        <5>3. now \in {6, 7, 8, 10} => \E c : step.new = {c}
          BY Adds
        <5> QED BY <5>1, <5>2, <5>3
      <4> QED BY <1>0, <1>2, <3>1, <4>1 DEF ProbedIsThere
    <3>2. CASE step.op = "rename" /\ step.old \notin cols[p]
      <4>1. now \in {3, 4, 14, 15}
        BY <1>2, <3>2, OnlyRenames
      <4>2. now \in {3, 4} => There(TaskModule, cols[p])
        BY <1>0, SeenIs
      <4>3. now \in {14, 15} => There(TemplateModule, cols[p])
        BY <1>0, SeenIs
      <4>4. step.new \subseteq cols[p]
        BY <3>2, <4>1, <4>2, <4>3, TasksThere, TemplatesThere, Renames
      <4> QED BY <1>0, <1>2, <4>4 DEF ProbedIsThere
    <3> QED BY <1>3, <3>1, <3>2 DEF Alters
  <2>3. Grows
    BY <1>1, <2>1 DEF Grows
  <2>4. TablesAreWhole'
    BY <1>0, <2>1 DEF TablesAreWhole
  <2>5. \A i \in 1..17 : i = now => Done(Plan[i])'
    BY <1>1, <2>1, <2>2 DEF Done
  <2> QED BY <1>1, <1>2, <2>1, <2>3, <2>4, <2>5, GoesOn
<1>4. CASE /\ Alters(p, step)
           /\ step.new \cap schema # {} \/ (step.op = "rename" /\ step.old \notin schema)
  <2>1. Abort(p) /\ UNCHANGED schema
    BY <1>4 DEF Alter
  <2>2. /\ at'[p] = 0 /\ cols'[p] = {}
        /\ \A q \in Initialiser \ {p} : at'[q] = at[q] /\ cols'[q] = cols[q]
        /\ phase' \in {phase, "down"}
    BY <2>1 DEF Abort, TypeOK
  <2> QED BY <1>1, <2>1, <2>2, Moves
<1>5. CASE /\ Alters(p, step) /\ step.new \cap schema = {}
           /\ ~(step.op = "rename" /\ step.old \notin schema)
  <2>1. schema' = (schema \ {step.old}) \cup step.new /\ Proceed(p) /\ UNCHANGED cols
    BY <1>5 DEF Alter
  <2>2. Grows /\ TablesAreWhole'
    <3>1. CASE step.op = "rename"
      <4>1. now \in {3, 4, 14, 15}
        BY <1>2, <3>1, OnlyRenames
      <4>2. step.old \in schema
        BY <1>5, <3>1
      <4> QED BY <1>0, <1>1, <1>5, <2>1, <4>1, <4>2, RenameSchema DEF Grows
    <3>2. CASE step.op = "add"
      <4>1. now \in {6, 7, 8, 10}
        BY <1>2, <3>2, OnlyAdds
      <4>2. Done(Plan[1])
        BY <1>0, <4>1 DEF DoneBehind
      <4>3. schema \subseteq schema' /\ TablesAreWhole'
        BY <1>0, <2>1, <4>1, <4>2, TablesAreThere, AddSchema
      <4> QED BY <1>1, <4>3 DEF Grows
    <3> QED BY <1>1, <3>1, <3>2
  <2>3. \A i \in 1..17 : i = now => Done(Plan[i])'
    BY <1>1, <2>1 DEF Done
  <2> QED BY <1>1, <1>2, <2>1, <2>2, <2>3, GoesOn
<1> QED BY <1>3, <1>4, <1>5

LEMMA ImportSchema ==
  ASSUME TypeOK, TypeOK', SchemaInvariant, NEW p \in Initialiser,
         ImportCheck(p) \/ ImportInsert(p) \/ \E row \in Legacy : Fill(p, row)
  PROVE  SchemaInvariant'
<1>1. CASE Abort(p) /\ UNCHANGED <<schema, unfilled>>
  <2>1. /\ at'[p] = 0 /\ cols'[p] = {}
        /\ \A q \in Initialiser \ {p} : at'[q] = at[q] /\ cols'[q] = cols[q]
        /\ phase' \in {phase, "down"}
    BY <1>1 DEF Abort, TypeOK
  <2> QED BY <1>1, <2>1, Moves
<1>2. CASE UNCHANGED <<schema, at, cols, phase>> /\ unfilled' \subseteq unfilled
  BY <1>2, Moves
<1>3. ImportCheck(p) => UNCHANGED <<schema, unfilled, at, cols, phase>>
  BY DEF ImportCheck, dbVars
<1>4. \A row \in Legacy :
        Fill(p, row) => UNCHANGED <<schema, at, cols, phase>> /\ unfilled' \subseteq unfilled
  BY DEF Fill, initVars
<1>5. ImportInsert(p) => \/ Abort(p) /\ UNCHANGED <<schema, unfilled>>
                         \/ UNCHANGED <<schema, unfilled, at, cols, phase>>
  BY DEF ImportInsert
<1> QED BY <1>1, <1>2, <1>3, <1>4, <1>5

LEMMA InitialiseSchema ==
  ASSUME TypeOK, TypeOK', InitFirst, SchemaInvariant, NEW p \in Initialiser, Initialise(p)
  PROVE  SchemaInvariant'
BY RunScriptSchema, LookSchema, AlterSchema, FillEndSchema, ImportEndSchema, ImportSchema
   DEF Initialise

LEMMA InitSchema ==
  ASSUME Init
  PROVE  SchemaInvariant
<1>1. TablesAreWhole
  BY SchemaAssumption DEF Init, TablesAreWhole
<1>2. ProbedIsThere
  BY DEF Init, ProbedIsThere
<1>3. \A p \in Initialiser : at[p] = 0
  BY DEF Init
<1>4. RenameHasSeen /\ DoneBehind
  BY <1>3 DEF RenameHasSeen, Doing, DoneBehind
<1>5. AllDone
  BY DEF Init, AllDone
<1> QED BY <1>1, <1>2, <1>4, <1>5 DEF SchemaInvariant

LEMMA NextSchema ==
  ASSUME SecretsInvariant, SecretsInvariant', SchemaInvariant, [Next]_vars
  PROVE  SchemaInvariant'
<1>0. TypeOK /\ TypeOK' /\ InitFirst
  BY DEF SecretsInvariant
<1>1. CASE \E p \in Initialiser : Initialise(p)
  BY <1>0, <1>1, InitialiseSchema
<1>2. CASE Start \/ ScriptStart
  <2>1. /\ UNCHANGED <<schema, unfilled, cols>> /\ phase' \in {phase, "init"}
        /\ \A q \in Initialiser : at'[q] = at[q] \/ at'[q] = 1
    BY <1>0, <1>2 DEF Start, ScriptStart, dbVars, TypeOK
  <2> QED BY <1>0, <2>1, Moves
<1>3. CASE MasterKey \/ OpenKey \/ WriteKey \/ DemoToken \/ OpenToken \/ WriteToken
  <2>1. phase \in {"secrets", "key", "token"} /\ UNCHANGED <<schema, unfilled, at, cols>>
    BY <1>3 DEF MasterKey, OpenKey, WriteKey, DemoToken, OpenToken, WriteToken, dbVars, initVars
  <2> QED BY <1>0, <2>1, Moves
<1>4. CASE Stop \/ Crash \/ ScriptCrash
  <2>1. /\ UNCHANGED <<schema, unfilled>> /\ phase' \in {phase, "down"}
        /\ \A q \in Initialiser : \/ at'[q] = at[q] /\ cols'[q] = cols[q]
                                  \/ at'[q] = 0 /\ cols'[q] = {}
    BY <1>0, <1>4 DEF Stop, Crash, ScriptCrash, ServerEnd, Abort, dbVars, TypeOK
  <2> QED BY <1>0, <2>1, Moves
<1>5. CASE \/ \E e \in Environments : SetEnvironment(e)
           \/ AddCredential \/ Template \/ UNCHANGED vars
  <2>1. UNCHANGED <<schema, unfilled, at, cols, phase>>
    BY <1>5, TemplateFrame DEF SetEnvironment, AddCredential, vars, dbVars, initVars
  <2> QED BY <1>0, <2>1, Moves
<1>6. "server" \in Initialiser /\ "script" \in Initialiser
  BY DEF Initialiser
<1> QED BY <1>1, <1>2, <1>3, <1>4, <1>5, <1>6 DEF Next, ServerStep


\* The invariant holds however the starts, the script, the crashes, the
\* requests and the operator of main.py and core/storage.py interleave.
THEOREM StartInvariance == Spec => []InductiveInvariant
<1>1. Init => SchemaInvariant
  BY InitSchema
<1>2. SecretsInvariant /\ SecretsInvariant' /\ SchemaInvariant /\ [Next]_vars => SchemaInvariant'
  BY NextSchema
<1>3. InductiveInvariant <=> SecretsInvariant /\ SchemaInvariant
  BY DEF InductiveInvariant
<1> QED BY <1>1, <1>2, <1>3, SecretsKept, PTL DEF Spec

\* Whatever databases of earlier releases, and however the initialisers of
\* core/storage.py and the crashes interleave: what serves has the columns that
\* the statements of the requests name, and every row its list of images.
THEOREM CurrentSchemaIsServed == Spec => []ServesCurrentSchema
<1>1. InductiveInvariant => ServesCurrentSchema
  <2> SUFFICES ASSUME InductiveInvariant, phase = "serving"
               PROVE  schema \cup {"task_title"} = Current /\ unfilled = {}
    BY DEF ServesCurrentSchema
  <2>1. schema \subseteq Current \cup Outdated
    BY DEF InductiveInvariant, SecretsInvariant, TypeOK
  <2>2. TablesAreWhole /\ \A i \in 1..17 : Done(Plan[i])
    BY PlanIs DEF InductiveInvariant, SchemaInvariant, AllDone
  <2>3. /\ "prompt" \in schema /\ "prompt_template_id" \in schema
        /\ "title" \in schema /\ "text" \in schema
    BY <2>2, Renames DEF Done
  <2>4. /\ "provider_id" \in schema /\ "key_id" \in schema /\ "input_image_path" \in schema
        /\ "input_image_paths" \in schema
    <3>1. Done(Plan[6]) /\ Done(Plan[7]) /\ Done(Plan[8]) /\ Done(Plan[10])
      BY <2>2
    <3> QED BY <3>1, Adds DEF Done
  <2>5. Plan[17].op = "script" => schema \cap (Plan[17].new \cup {Plan[17].old}) # {}
    BY <2>2 DEF Done
  <2>6. "providers" \in schema
    BY ZenonT(40), <2>1, <2>5, Scripts, CurrentIs, OutdatedIs
  <2>7. There(TaskModule, schema) /\ There(TemplateModule, schema)
    BY <2>2, TablesAreThere
  <2>8. /\ "prompt_text" \notin schema /\ "prompt_id" \notin schema
        /\ "name" \notin schema /\ "content" \notin schema
    BY <2>3, <2>7, TasksThere, TemplatesThere
  <2>9. schema \cup {"task_title"} = Current
    BY <2>1, <2>3, <2>4, <2>6, <2>8, CurrentIs, OutdatedIs
  <2>10. unfilled = {}
    <3>1. Done(Plan[11])
      BY <2>2
    <3>2. Plan[11].op = "backfill"
      BY Others
    <3> QED BY <3>1, <3>2 DEF Done
  <2> QED BY <2>9, <2>10
<1> QED BY <1>1, StartInvariance, PTL

\* SecretBox (core/secret_box.py) never leaves credentials that no key opens.
THEOREM CredentialsOpen == Spec => []GeneratedKeyKept
<1>1. InductiveInvariant => GeneratedKeyKept
  BY DEF InductiveInvariant, SecretsInvariant
<1> QED BY <1>1, StartInvariance, PTL

\* _init_demo_token (main.py) never replaces a token that was given out.
THEOREM LinksStayValid == Spec => []InvitationsStayValid
<1>1. InductiveInvariant => InvitationsStayValid
  BY DEF InductiveInvariant, SecretsInvariant, TokenIsKept, InvitedIsKept, InvitationsStayValid
<1> QED BY <1>1, StartInvariance, PTL

LEMMA ImportKeepsUserText ==
  ASSUME Context, NEW p \in Initialiser, Initialise(p), NEW id \in Id, templates[id] = "user"
  PROVE  templates'[id] = "user"
<1>1. CASE ImportInsert(p)
  <2>1. SeedId(p) \in Id
    BY <1>1, SeedIdIsId DEF Context, ImportInsert, AbsentIsCurrent
  <2>2. CASE Conflicts(SeedId(p))
    BY <1>1, <2>2 DEF ImportInsert
  <2>3. CASE ~Conflicts(SeedId(p))
    <3>1. templates[SeedId(p)] = "none" /\ templates' = [templates EXCEPT ![SeedId(p)] = "seed"]
      BY <1>1, <2>3 DEF ImportInsert, Conflicts
    <3> QED BY <2>1, <3>1 DEF Context, TypeOK
  <2> QED BY <2>2, <2>3
<1>2. CASE ~ImportInsert(p)
  BY <1>2 DEF Initialise, RunScript, Look, Alter, FillEnd, ImportCheck, ImportEnd, Fill, dbVars
<1> QED BY <1>1, <1>2

\* No import of seeds (core/storage.py) changes what a user wrote.
THEOREM UserTextStays == Spec => UserTextKept
<1> DEFINE Kept == \A id \in Id : templates[id] = "user" /\ templates'[id] # "user"
                                    => phase = "serving" /\ UNCHANGED initVars
<1>1. ASSUME InductiveInvariant, [Next]_vars
      PROVE  [Kept]_vars
  <2> SUFFICES ASSUME NEW id \in Id, templates[id] = "user", templates'[id] # "user"
               PROVE  phase = "serving" /\ UNCHANGED initVars
    OBVIOUS
  <2>1. ~\E p \in Initialiser : Initialise(p)
    BY <1>1, ImportKeepsUserText DEF InductiveInvariant, SecretsInvariant, Context
  <2>2. ~UNCHANGED templates
    OBVIOUS
  <2>3. Template
    BY <1>1, <2>1, <2>2 DEF Next, ServerStep, Start, MasterKey, OpenKey, WriteKey, DemoToken,
       OpenToken, WriteToken, Stop, Crash, ScriptStart, ScriptCrash, SetEnvironment,
       AddCredential, Initialiser, vars, dbVars
  <2>4. UNCHANGED initVars
    BY <2>3, TemplateFrame
  <2>5. templates \in [Id -> {"none", "seed", "user"}] /\ saving \in Id \cup {None}
    BY <1>1 DEF InductiveInvariant, SecretsInvariant, TypeOK
  <2>6. ~SaveInsert
    BY <2>5 DEF SaveInsert, SetTemplate, Conflicts
  <2> QED BY <2>2, <2>3, <2>4, <2>6 DEF Template, SaveCheck, Update, Delete, dbVars
<1> QED BY <1>1, StartInvariance, PTL DEF Spec, UserTextKept
=============================================================================
