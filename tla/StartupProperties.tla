------------------------- MODULE StartupProperties -------------------------
(***************************************************************************)
(* What the start of the backend promises to the requests that follow it.  *)
(***************************************************************************)
EXTENDS Startup

\* A server that answers requests has a database with the columns its
\* statements name and none of the old ones, and no row is left whose
\* reference image only the old column holds: whatever database it found, and
\* whichever crash or second initialiser came between the statements of
\* init_db (core/storage.py:115-220).  The title of tasks is the exception: no
\* statement adds it to a table from before it.
ServesCurrentSchema ==
  phase = "serving" =>
    schema \cup {"task_title"} = Current /\ unfilled = {}

\* The file holds the key that stored credentials are encrypted with: neither a
\* crash in the middle of its first write nor a spell with another key in the
\* environment leaves credentials that no key opens (core/secret_box.py:31-56).
GeneratedKeyKept == sealed \subseteq {"env", keyFile}

\* docs/prd.md:597: the generated demo token is the same after a restart, so an
\* old link is refused only while a secret_key replaces it (main.py:60-75).
InvitationsStayValid ==
  phase = "serving" /\ token \notin {None, "env"} => invited \subseteq {token}

\* scripts/init_db.py:9: a template that a user wrote is changed by the
\* requests of users only, not by an import of seeds at a start or by the
\* script, though the two race with each other and with save_prompt.
UserTextKept ==
  [][\A id \in Id : templates[id] = "user" /\ templates'[id] # "user"
       => phase = "serving" /\ UNCHANGED initVars]_vars

\* A start that ends with an error for ever: a refused configuration, a key in
\* the environment that is none, or a key file that a crash left short.
Unserviceable ==
  \/ ~ConfigOK
  \/ Mode = "normal" /\ (env.key \notin {"valid", "unset"}
                          \/ (env.key = "unset" /\ keyFile = "torn"))

\* With a restart after each failure the server comes up, from any old
\* database, unless it is Unserviceable: an ALTER TABLE or an INSERT that fails
\* because the script was faster fails once, not at each start.
StartsSucceed == []<>(phase = "serving" \/ Unserviceable)

----------------------------------------------------------------------------
\* The inductive invariant behind the properties of the two files

\* The server initialises the database before it does anything else.
InitFirst == at["server"] # 0 => phase = "init"

\* Whoever has found the id of a seed absent is about to insert this seed.
AbsentIsCurrent ==
  \A p \in Initialiser : absent[p] => Doing(p, "import") /\ seed[p] <= Len(Seeds)

\* A file that has been opened, and not written, is short; a token is for a demo.
OpenedIsTorn ==
  /\ phase = "key" => keyFile = "torn"
  /\ phase = "token" => tokenFile = "torn" /\ Mode = "demo"

\* What the server holds is what the files hold, or comes from the environment.
BoxIsKept ==
  phase = "serving" /\ Mode = "normal" => box \in {"env"} \cup (Random \cap {keyFile})
TokenIsKept ==
  /\ phase # "serving" => token = None
  /\ phase = "serving" => token \in {None, "env", tokenFile}
InvitedIsKept == invited \subseteq Random \cap {tokenFile}

\* What a statement of init_db leaves behind, for good.
Done(statement) ==
  /\ statement.op = "script" => schema \cap (statement.new \cup {statement.old}) # {}
  /\ statement.op \in {"rename", "add"} => statement.new \subseteq schema
  /\ statement.op = "backfill" => unfilled = {}

\* Between any two statements a table is there with all its columns or not at
\* all, also when another initialiser or a crash comes between them.
TablesAreWhole == Whole(TaskModule, schema) /\ Whole(TemplateModule, schema)

\* A probe may be out of date, but not about a current column it has seen, ...
ProbedIsThere == \A p \in Initialiser : cols[p] \cap Current \subseteq schema

\* ... and whoever is about to rename has seen the table.
RenameHasSeen ==
  \A p \in Initialiser :
    Doing(p, "rename") =>
      There(IF at[p] <= Len(TaskModule) THEN TaskModule ELSE TemplateModule, cols[p])

\* What an initialiser has passed is done, and all of it before the server goes on.
DoneBehind == \A p \in Initialiser : \A i \in 1..(at[p] - 1) : Done(Plan[i])
AllDone ==
  phase \in {"secrets", "key", "token", "serving"} => \A i \in DOMAIN Plan : Done(Plan[i])

SchemaInvariant ==
  TablesAreWhole /\ ProbedIsThere /\ RenameHasSeen /\ DoneBehind /\ AllDone

SecretsInvariant ==
  /\ TypeOK /\ InitFirst /\ AbsentIsCurrent /\ OpenedIsTorn
  /\ BoxIsKept /\ GeneratedKeyKept /\ TokenIsKept /\ InvitedIsKept

InductiveInvariant == SecretsInvariant /\ SchemaInvariant
=============================================================================
