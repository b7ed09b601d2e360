------------------------ MODULE ProviderStoreProofs ------------------------
(***************************************************************************)
(* Proofs, for any keys, answers and requests and any number of errors and *)
(* restarts, of the invariants of the provider store, and that until its   *)
(* first error it implements the catalog of ProviderCatalog.               *)
(***************************************************************************)
EXTENDS ProviderStoreProperties, SequenceTheorems, TLAPS

\* The next model of an answer and the rest of it are of that answer.
LEMMA AnswerSplits ==
  ASSUME NEW answer \in Seq(Model), answer # <<>>
  PROVE  /\ Head(answer) \in Model
         /\ Tail(answer) \in Seq(Model)
         /\ ModelsOf(answer) = {Head(answer)} \cup ModelsOf(Tail(answer))
<1>1. Len(answer) \in Nat \ {0} /\ DOMAIN answer = 1..Len(answer)
  BY EmptySeq, LenProperties
<1>2. /\ Head(answer) = answer[1]
      /\ Tail(answer) \in Seq(Model)
      /\ DOMAIN Tail(answer) = 1..(Len(answer) - 1)
      /\ \A i \in 1..(Len(answer) - 1) : Tail(answer)[i] = answer[i + 1]
  BY HeadTailProperties, LenProperties
<1>3. Head(answer) \in Model
  BY <1>1, <1>2
<1>4. ModelsOf(answer) \subseteq {Head(answer)} \cup ModelsOf(Tail(answer))
  <2>1. SUFFICES ASSUME NEW i \in 1..Len(answer), i # 1
                 PROVE  answer[i] \in ModelsOf(Tail(answer))
    BY <1>1, <1>2 DEF ModelsOf
  <2>2. i - 1 \in 1..(Len(answer) - 1) /\ (i - 1) + 1 = i
    BY <1>1, <2>1
  <2>3. QED
    BY <1>2, <2>2 DEF ModelsOf
<1>5. {Head(answer)} \cup ModelsOf(Tail(answer)) \subseteq ModelsOf(answer)
  <2>1. \A i \in 1..(Len(answer) - 1) : i + 1 \in 1..Len(answer)
    BY <1>1
  <2>2. 1 \in DOMAIN answer
    BY <1>1
  <2>3. QED
    BY <1>1, <1>2, <2>1, <2>2 DEF ModelsOf
<1>6. QED
  BY <1>2, <1>3, <1>4, <1>5

----------------------------------------------------------------------------
\* Steps that touch nothing but the handler of the request

\* Outside the store, a handler may go wherever the key it has in hand lets it:
\* to the steps of a refresh only with a key that is stored, or that it was
\* refreshing before.
LEMMA HandlerKeepsInvariant ==
  ASSUME InductiveInvariant, NEW r \in Request, at[r] \in Unlocked,
         NEW p \in Unlocked, NEW a \in Arg,
         at' = [at EXCEPT ![r] = p], arg' = [arg EXCEPT ![r] = a], OnlyHandler,
         a.default \in issued \cup {None},
         p \notin {"idle", "lookup", "select"} => a.key \in issued,
         p = "purge" => a.answer \in Answer,
         p \in {"baseurl", "fetch", "purge"} =>
           \/ a.key \in keys
           \/ a.key = arg[r].key /\ at[r] \in {"baseurl", "fetch"}
  PROVE  InductiveInvariant'
<1> USE DEF InductiveInvariant, OnlyHandler, rowVars, historyVars
<1>1. \A q \in Request \ {r} : at'[q] = at[q] /\ arg'[q] = arg[q]
  BY DEF TypeOK
<1>2. at'[r] = p /\ arg'[r] = a
  BY DEF TypeOK
<1>3. p \notin {"write", "insert", "cascade", "undefault"}
  BY DEF Unlocked
<1>4. at[r] \notin {"write", "insert", "cascade", "undefault"}
  BY DEF Unlocked
<1>5. TypeOK'
  BY DEF TypeOK, Point
<1>6. LockHeld'
  BY <1>1, <1>2, <1>3, <1>4 DEF LockHeld, Locked
<1>7. KeysIssued'
  BY <1>1, <1>2, <1>3 DEF KeysIssued
<1>8. RowIsCurrent'
  BY <1>1, <1>2, <1>3 DEF RowIsCurrent
<1>9. InsertsOneAnswer'
  BY <1>1, <1>2, <1>3 DEF InsertsOneAnswer, OneAnswer
<1>10. ModelsOfOneAnswer'
  BY DEF ModelsOfOneAnswer
<1>11. \A k \in Key \ keys : Refreshing(k)' \subseteq Refreshing(k)
  BY <1>1, <1>2, <1>3 DEF Refreshing
<1>12. LateRefreshIsExcused'
  BY <1>11 DEF LateRefreshIsExcused
<1>13. OrphanSettled'
  BY <1>1, <1>4 DEF OrphanSettled
<1>14. DefaultSettled'
  BY <1>1, <1>4 DEF DefaultSettled
<1>15. QED
  BY <1>5, <1>6, <1>7, <1>8, <1>9, <1>10, <1>12, <1>13, <1>14

\* The steps of put_config, delete_key_route and of a refresh outside the store.
LEMMA PutConfigStep ==
  ASSUME InductiveInvariant, NEW r \in Request,
         NEW url \in Url \cup {None}, NEW default \in issued \cup {None},
         PutConfig(r, url, default)
  PROVE  InductiveInvariant'
<1> DEFINE p == IF url = None THEN "lookup" ELSE "select"
           a == [arg[r] EXCEPT !.default = default, !.given = url, !.url = url]
<1>1. TypeOK
  BY DEF InductiveInvariant
<1>2. a \in Arg /\ a.default = default
  BY <1>1 DEF TypeOK, Arg
<1>3. arg' = [arg EXCEPT ![r] = a] /\ at' = [at EXCEPT ![r] = p]
  BY <1>1 DEF TypeOK, Arg, PutConfig, Goto
<1>4. p \in {"lookup", "select"} /\ p \in Unlocked /\ at[r] \in Unlocked /\ OnlyHandler
  BY DEF PutConfig, Unlocked, OnlyHandler
<1>5. QED
  BY <1>2, <1>3, <1>4, HandlerKeepsInvariant

LEMMA LookupStep ==
  ASSUME InductiveInvariant, NEW r \in Request, Lookup(r)
  PROVE  InductiveInvariant'
<1> DEFINE u == IF config.url = None THEN DefaultUrl ELSE None
           a == [arg[r] EXCEPT !.url = u]
<1>1. TypeOK /\ KeysIssued
  BY DEF InductiveInvariant
<1>2. u \in Url \cup {None}
  BY NamesAssumption
<1>3. arg[r] \in Arg /\ arg[r].default \in issued \cup {None}
  BY <1>1 DEF TypeOK, KeysIssued
<1>4. arg' = [arg EXCEPT ![r] = a] /\ at' = [at EXCEPT ![r] = "select"]
  BY <1>1 DEF TypeOK, Arg, Lookup, Goto
<1>5. "select" \in Unlocked /\ at[r] \in Unlocked /\ OnlyHandler
  BY DEF Lookup, Unlocked, OnlyHandler
<1> HIDE DEF u
<1>6. a \in Arg /\ a.default = arg[r].default
  BY <1>2, <1>3 DEF Arg
<1>7. QED
  BY <1>3, <1>4, <1>5, <1>6, HandlerKeepsInvariant

LEMMA ArriveAtKeyStep ==
  ASSUME InductiveInvariant, NEW r \in Request, NEW k \in issued,
         RefreshModels(r, k) \/ DeleteKey(r, k)
  PROVE  InductiveInvariant'
<1> DEFINE p == IF RefreshModels(r, k) THEN "check" ELSE "delete"
           a == [arg[r] EXCEPT !.key = k]
<1>1. TypeOK /\ KeysIssued
  BY DEF InductiveInvariant
<1>2. a \in Arg /\ a.key = k /\ a.default \in issued \cup {None}
  BY <1>1 DEF TypeOK, Arg, KeysIssued
<1>3. arg' = [arg EXCEPT ![r] = a] /\ at' = [at EXCEPT ![r] = p]
  BY <1>1 DEF TypeOK, Arg, RefreshModels, DeleteKey, Goto
<1>4. p \in {"check", "delete"} /\ p \in Unlocked /\ at[r] \in Unlocked /\ OnlyHandler
  BY DEF RefreshModels, DeleteKey, Unlocked, OnlyHandler
<1>5. QED
  BY <1>2, <1>3, <1>4, HandlerKeepsInvariant

\* A handler that goes on with what it has in hand, or ends.
LEMMA MoveOrFinishStep ==
  ASSUME InductiveInvariant, NEW r \in Request,
         CheckKey(r) \/ GetCredentials(r) \/ ResolveBaseUrl(r)
  PROVE  InductiveInvariant'
<1>1. TypeOK /\ KeysIssued
  BY DEF InductiveInvariant
<1>2. arg[r] \in Arg /\ NoArg \in Arg /\ arg[r].default \in issued \cup {None}
  BY <1>1 DEF TypeOK, Arg, NoArg, NoConfig, Config, KeysIssued
<1>3. arg[r].key \in issued /\ at[r] \in Unlocked /\ OnlyHandler
  BY <1>1 DEF KeysIssued, CheckKey, GetCredentials, ResolveBaseUrl, Unlocked
<1>4. NoArg.default = None
  BY DEF NoArg
<1>5. CASE Finish(r)
  <2>1. "idle" \in Unlocked
    BY DEF Unlocked
  <2>2. QED
    BY <1>2, <1>3, <1>4, <1>5, <2>1, HandlerKeepsInvariant DEF Finish, Goto
<1>6. CASE Goto(r, "creds") /\ UNCHANGED arg
  <2>1. "creds" \in Unlocked /\ arg' = [arg EXCEPT ![r] = arg[r]]
    BY <1>1, <1>6 DEF Unlocked, TypeOK
  <2>2. QED
    BY <1>2, <1>3, <1>6, <2>1, HandlerKeepsInvariant DEF Goto
<1>7. CASE arg[r].key \in keys /\ Goto(r, "baseurl") /\ UNCHANGED arg
  <2>1. "baseurl" \in Unlocked /\ arg' = [arg EXCEPT ![r] = arg[r]]
    BY <1>1, <1>7 DEF Unlocked, TypeOK
  <2>2. QED
    BY <1>2, <1>3, <1>7, <2>1, HandlerKeepsInvariant DEF Goto
<1>8. CASE at[r] = "baseurl" /\ Goto(r, "fetch") /\ UNCHANGED arg
  <2>1. "fetch" \in Unlocked /\ arg' = [arg EXCEPT ![r] = arg[r]]
    BY <1>1, <1>8 DEF Unlocked, TypeOK
  <2>2. QED
    BY <1>2, <1>3, <1>8, <2>1, HandlerKeepsInvariant DEF Goto
<1>9. QED
  BY <1>5, <1>6, <1>7, <1>8 DEF CheckKey, GetCredentials, ResolveBaseUrl

LEMMA FetchStep ==
  ASSUME InductiveInvariant, NEW r \in Request, Fetch(r)
  PROVE  InductiveInvariant'
<1>1. TypeOK /\ KeysIssued
  BY DEF InductiveInvariant
<1>2. NoArg \in Arg /\ NoArg.default = None /\ "idle" \in Unlocked /\ "purge" \in Unlocked
  BY DEF Arg, NoArg, NoConfig, Config, Unlocked
<1>3. arg[r].key \in issued /\ at[r] = "fetch" /\ at[r] \in Unlocked /\ OnlyHandler
  BY <1>1 DEF KeysIssued, Fetch, Unlocked
<1>4. CASE Finish(r)
  BY <1>2, <1>3, <1>4, HandlerKeepsInvariant DEF Finish, Goto
<1>5. ASSUME NEW answer \in Answer, arg' = [arg EXCEPT ![r].answer = answer],
             Goto(r, "purge")
      PROVE  InductiveInvariant'
  <2> DEFINE a == [arg[r] EXCEPT !.answer = answer]
  <2>1. a \in Arg /\ a.default \in issued \cup {None} /\ a.key = arg[r].key
        /\ a.answer = answer
    BY <1>1, AnswerAssumption DEF TypeOK, Arg, KeysIssued
  <2>2. arg' = [arg EXCEPT ![r] = a]
    BY <1>1, <1>5 DEF TypeOK, Arg
  <2>3. QED
    BY <1>2, <1>3, <1>5, <2>1, <2>2, HandlerKeepsInvariant DEF Goto
<1>6. QED
  BY <1>4, <1>5 DEF Fetch

----------------------------------------------------------------------------
\* Steps inside the store

\* add_key: the key is new, so that nothing is left of it.
LEMMA AddKeyStep ==
  ASSUME InductiveInvariant, NEW r \in Request, NEW k \in Key, AddKey(r, k)
  PROVE  InductiveInvariant'
<1> USE DEF InductiveInvariant, AddKey, Goto, historyVars
<1>1. \A q \in Request \ {r} : at'[q] = at[q] /\ arg'[q] = arg[q]
  BY DEF TypeOK
<1>2. /\ at[r] = "idle" /\ at'[r] = "creds"
      /\ arg'[r].key = k /\ arg'[r].default = arg[r].default
  BY DEF TypeOK, Arg
<1>3. TypeOK'
  BY DEF TypeOK, Point, Unlocked, Arg
<1>4. LockHeld'
  BY <1>1, <1>2 DEF LockHeld, Locked
<1>5. KeysIssued'
  BY <1>1, <1>2 DEF KeysIssued
<1>6. RowIsCurrent'
  BY <1>1, <1>2 DEF RowIsCurrent
<1>7. InsertsOneAnswer'
  BY <1>1, <1>2 DEF InsertsOneAnswer, OneAnswer
<1>8. ModelsOfOneAnswer'
  BY DEF ModelsOfOneAnswer
<1>9. \A l \in Key \ keys' : Refreshing(l)' \subseteq Refreshing(l)
  BY <1>1, <1>2 DEF Refreshing
<1>10. LateRefreshIsExcused'
  BY <1>9 DEF LateRefreshIsExcused
<1>11. OrphanSettled'
  BY <1>1, <1>2 DEF OrphanSettled
<1>12. DefaultSettled'
  BY <1>1, <1>2 DEF DefaultSettled
<1>13. QED
  BY <1>3, <1>4, <1>5, <1>6, <1>7, <1>8, <1>10, <1>11, <1>12

\* What Acquire and Release do to the history.
LEMMA RowsAreTyped ==
  ASSUME TypeOK
  PROVE  /\ Rows \in [keys : SUBSET Key, models : [Key -> SUBSET Model], config : Config]
         /\ NoRows \in [keys : SUBSET Key, models : [Key -> SUBSET Model], config : Config]
  BY DEF TypeOK, Rows, NoRows, NoConfig, Config

LEMMA UpsertSelectStep ==
  ASSUME InductiveInvariant, NEW r \in Request, UpsertSelect(r)
  PROVE  InductiveInvariant'
<1> USE DEF InductiveInvariant, UpsertSelect, Goto, rowVars
<1>1. \A q \in Request \ {r} : at'[q] = at[q] /\ arg'[q] = arg[q]
  BY DEF TypeOK
<1>2. /\ at[r] = "select" /\ at'[r] = "write"
      /\ arg'[r].default = arg[r].default /\ arg'[r].row = config
  BY DEF TypeOK, Arg
<1>3. lock = None /\ lock' = r /\ \A q \in Request : q # None
  BY NamesAssumption DEF Acquire
<1>4. TypeOK'
  <2>1. before' \in [keys : SUBSET Key, models : [Key -> SUBSET Model], config : Config]
    BY RowsAreTyped DEF TypeOK, Acquire
  <2>2. QED
    BY ZenonT(40), <1>3, <2>1 DEF TypeOK, Point, Locked, Arg
<1>5. LockHeld'
  BY <1>1, <1>2, <1>3 DEF LockHeld, Locked
<1>6. KeysIssued'
  BY <1>1, <1>2 DEF KeysIssued
<1>7. RowIsCurrent'
  BY <1>1, <1>2 DEF RowIsCurrent
<1>8. InsertsOneAnswer'
  BY <1>1, <1>2 DEF InsertsOneAnswer, OneAnswer
<1>9. ModelsOfOneAnswer'
  BY DEF ModelsOfOneAnswer
<1>10. \A l \in Key \ keys : Refreshing(l)' \subseteq Refreshing(l)
  BY <1>1, <1>2 DEF Refreshing
<1>11. LateRefreshIsExcused'
  BY <1>10 DEF LateRefreshIsExcused
<1>12. OrphanSettled'
  BY <1>1, <1>2 DEF OrphanSettled
<1>13. DefaultSettled'
  BY <1>1, <1>2 DEF DefaultSettled
<1>14. QED
  BY <1>4, <1>5, <1>6, <1>7, <1>8, <1>9, <1>11, <1>12, <1>13

LEMMA UpsertWriteStep ==
  ASSUME InductiveInvariant, NEW r \in Request, UpsertWrite(r)
  PROVE  InductiveInvariant'
<1> USE DEF InductiveInvariant, UpsertWrite, Goto, Finish, rowVars
<1>1. \A q \in Request \ {r} : at'[q] = at[q] /\ arg'[q] = arg[q]
  BY DEF TypeOK
<1>2. at[r] = "write" /\ at'[r] = "idle" /\ arg'[r] = NoArg /\ arg'[r].default = None
  BY DEF TypeOK, NoArg
<1>3. lock = r /\ lock' = None /\ \A q \in Request : q # None
  BY <1>2, NamesAssumption DEF LockHeld, Locked, Release
<1>4. \A q \in Request \ {r} : at[q] \notin Locked
  BY <1>3 DEF LockHeld
<1>5. config' = Merge(config, arg[r].url, arg[r].default)
  BY <1>2 DEF RowIsCurrent
<1>6. /\ config'.default = IF arg[r].default # None THEN arg[r].default ELSE config.default
      /\ config' \in Config
  BY <1>5 DEF Merge, Config, TypeOK, Arg
<1>7. /\ excused \subseteq excused'
      /\ arg[r].default \in issued \ keys => <<"default", arg[r].default>> \in excused'
  OBVIOUS
<1>8. TypeOK'
  <2>1. before' \in [keys : SUBSET Key, models : [Key -> SUBSET Model], config : Config]
    BY RowsAreTyped DEF TypeOK, Release
  <2>2. NoArg \in Arg
    BY DEF NoArg, Arg, NoConfig, Config
  <2>3. excused' \subseteq {"models", "default"} \X Key
    BY DEF TypeOK
  <2>4. QED
    BY <1>3, <1>6, <2>1, <2>2, <2>3 DEF TypeOK, Point, Unlocked
<1>9. LockHeld'
  BY <1>1, <1>2, <1>3, <1>4 DEF Locked, LockHeld
<1>10. KeysIssued'
  BY <1>1, <1>2, <1>6 DEF KeysIssued
<1>11. RowIsCurrent'
  BY <1>1, <1>2, <1>4 DEF RowIsCurrent, Locked
<1>12. InsertsOneAnswer'
  BY <1>1, <1>2 DEF InsertsOneAnswer, OneAnswer
<1>13. ModelsOfOneAnswer'
  BY DEF ModelsOfOneAnswer
<1>14. \A l \in Key \ keys : Refreshing(l)' \subseteq Refreshing(l)
  BY <1>1, <1>2 DEF Refreshing
<1>15. LateRefreshIsExcused'
  BY <1>7, <1>14 DEF LateRefreshIsExcused
<1>16. OrphanSettled'
  BY <1>1, <1>2, <1>7 DEF OrphanSettled
<1>17. DefaultSettled'
  <2>1. SUFFICES ASSUME config'.default \notin keys \cup {None}
                 PROVE  <<"default", config'.default>> \in excused'
    BY DEF DefaultSettled
  <2>2. CASE arg[r].default # None
    BY <1>6, <1>7, <2>1, <2>2 DEF KeysIssued
  <2>3. CASE arg[r].default = None
    BY <1>2, <1>4, <1>6, <1>7, <2>1, <2>3 DEF DefaultSettled, Locked
  <2>4. QED
    BY <2>2, <2>3
<1>18. QED
  BY <1>8, <1>9, <1>10, <1>11, <1>12, <1>13, <1>15, <1>16, <1>17

\* replace_models, the first statement
LEMMA PurgeStep ==
  ASSUME InductiveInvariant, NEW r \in Request, Purge(r)
  PROVE  InductiveInvariant'
<1> USE DEF InductiveInvariant, Purge, Goto, rowVars
<1>1. \A q \in Request \ {r} : at'[q] = at[q] /\ arg'[q] = arg[q]
  BY DEF TypeOK
<1>2. at[r] = "purge" /\ at'[r] = "insert" /\ arg'[r] = arg[r]
  BY DEF TypeOK
<1>3. lock = None /\ lock' = r /\ \A q \in Request : q # None
  BY NamesAssumption DEF Acquire
<1>4. arg[r].key \in Key /\ models'[arg[r].key] = {}
      /\ \A k \in Key : models'[k] \subseteq models[k]
  BY <1>2 DEF TypeOK, KeysIssued
<1>5. TypeOK'
  <2>1. before' \in [keys : SUBSET Key, models : [Key -> SUBSET Model], config : Config]
    BY RowsAreTyped DEF TypeOK, Acquire
  <2>2. QED
    BY <1>3, <2>1 DEF TypeOK, Point, Locked
<1>6. LockHeld'
  BY <1>1, <1>2, <1>3 DEF LockHeld, Locked
<1>7. KeysIssued'
  BY <1>1, <1>2 DEF KeysIssued
<1>8. RowIsCurrent'
  BY <1>1, <1>2 DEF RowIsCurrent
<1>9. InsertsOneAnswer'
  <2>1. \A q \in Request : at'[q] = "insert" => q = r
    BY <1>1, <1>3 DEF LockHeld, Locked
  <2>2. arg[r].answer \in Answer
    BY <1>2 DEF InsertsOneAnswer
  <2>3. OneAnswer(arg[r].key, arg[r].answer)'
    BY <1>2, <1>4, <2>2 DEF OneAnswer
  <2>4. \A q \in Request : at'[q] = "purge" => arg'[q].answer \in Answer
    BY <1>1, <1>2 DEF InsertsOneAnswer
  <2>5. QED
    BY <1>2, <2>1, <2>3, <2>4 DEF InsertsOneAnswer
<1>10. ModelsOfOneAnswer'
  BY <1>4 DEF ModelsOfOneAnswer
<1>11. \A l \in Key \ keys : Refreshing(l)' \subseteq Refreshing(l)
  BY <1>1, <1>2 DEF Refreshing
<1>12. LateRefreshIsExcused'
  BY <1>11 DEF LateRefreshIsExcused
<1>13. OrphanSettled'
  BY <1>1, <1>2, <1>4 DEF OrphanSettled
<1>14. DefaultSettled'
  BY <1>1, <1>2 DEF DefaultSettled
<1>15. QED
  BY <1>5, <1>6, <1>7, <1>8, <1>9, <1>10, <1>12, <1>13, <1>14

\* ... one of its inserts: the model comes from the same answer as what has
\* been inserted, ...
LEMMA InsertOneStep ==
  ASSUME InductiveInvariant, NEW r \in Request, at[r] = "insert",
         NEW k, k = arg[r].key,
         NEW answer, answer = arg[r].answer,
         CanInsert(answer, models[k]),
         models' = [models EXCEPT ![k] = @ \cup {Head(answer)}],
         arg' = [arg EXCEPT ![r].answer = Tail(answer)],
         UNCHANGED <<keys, config, issued, faults, excused, lock, at, before>>
  PROVE  InductiveInvariant'
<1> USE DEF InductiveInvariant
<1>1. \A q \in Request \ {r} : arg'[q] = arg[q]
  BY DEF TypeOK
<1>2. /\ answer \in Seq(Model) /\ answer # <<>>
      /\ k \in issued /\ k \in Key
  BY DEF TypeOK, Arg, CanInsert, KeysIssued
<1>3. /\ Head(answer) \in Model
      /\ Tail(answer) \in Seq(Model)
      /\ ModelsOf(answer) = {Head(answer)} \cup ModelsOf(Tail(answer))
  BY <1>2, AnswerSplits
<1>4. /\ arg'[r].key = k
      /\ arg'[r].default = arg[r].default
      /\ arg'[r].answer = Tail(answer)
      /\ arg' \in [Request -> Arg]
  BY ZenonT(40), <1>3 DEF TypeOK, Arg
<1>5. /\ models'[k] = models[k] \cup {Head(answer)}
      /\ \A l \in Key \ {k} : models'[l] = models[l]
      /\ models' \in [Key -> SUBSET Model]
  BY <1>2, <1>3 DEF TypeOK
<1>6. \A q \in Request \ {r} : at[q] \notin Locked
  BY DEF LockHeld, Locked
<1>7. PICK a \in Answer : models[k] \cup ModelsOf(answer) \subseteq ModelsOf(a)
  BY DEF InsertsOneAnswer, OneAnswer
<1>8. TypeOK'
  BY <1>4, <1>5 DEF TypeOK
<1>9. LockHeld'
  BY DEF LockHeld
<1>10. KeysIssued'
  BY <1>1, <1>2, <1>4 DEF KeysIssued
<1>11. RowIsCurrent'
  BY <1>1 DEF RowIsCurrent
<1>12. InsertsOneAnswer'
  <2>1. models'[k] \cup ModelsOf(Tail(answer)) \subseteq ModelsOf(a)
    BY <1>3, <1>5, <1>7
  <2>2. OneAnswer(arg[r].key, arg[r].answer)'
    <3>1. models'[arg'[r].key] \cup ModelsOf(arg'[r].answer) \subseteq ModelsOf(a)
      BY <1>4, <2>1, Zenon
    <3>2. QED
      BY <3>1 DEF OneAnswer, ModelsOf
  <2>3. \A q \in Request : at'[q] = at[q] /\ (at'[q] = "insert" => q = r)
    BY <1>6 DEF Locked
  <2>4. \A q \in Request : at'[q] = "purge" => arg'[q].answer \in Answer
    BY <1>1, <2>3 DEF InsertsOneAnswer
  <2>5. QED
    BY <2>2, <2>3, <2>4 DEF InsertsOneAnswer
<1>13. ModelsOfOneAnswer'
  <2>1. models'[k] \subseteq ModelsOf(a)
    BY <1>3, <1>5, <1>7
  <2>2. QED
    BY <1>5, <2>1 DEF ModelsOfOneAnswer, ModelsOf
<1>14. LateRefreshIsExcused'
  <2>1. \A l \in Key \ keys : Refreshing(l)' \subseteq Refreshing(l)
    BY <1>1, <1>4 DEF Refreshing
  <2>2. QED
    BY <2>1 DEF LateRefreshIsExcused
<1>15. OrphanSettled'
  <2>1. r \in Refreshing(k)
    BY DEF Refreshing
  <2>2. k \notin keys => <<"models", k>> \in excused
    BY <1>2, <2>1 DEF LateRefreshIsExcused
  <2>3. QED
    BY <1>1, <1>5, <2>2 DEF OrphanSettled
<1>16. DefaultSettled'
  BY <1>1 DEF DefaultSettled
<1>17. QED
  BY <1>8, <1>9, <1>10, <1>11, <1>12, <1>13, <1>14, <1>15, <1>16

\* ... and the end of an operation of the store, which leaves the rows as they
\* are or takes back the mark of the default key.
LEMMA EndOfOperation ==
  ASSUME InductiveInvariant, NEW r \in Request, at[r] \in {"insert", "undefault"},
         Release(r), Finish(r), UNCHANGED <<keys, models, issued, faults, excused>>,
         config' \in Config, config'.url = config.url,
         \/ config' = config /\ at[r] = "insert"
         \/ config'.default = None
         \/ config'.default = config.default /\ arg[r].key # config.default
  PROVE  InductiveInvariant'
<1> USE DEF InductiveInvariant, Goto, Finish
<1>1. \A q \in Request \ {r} : at'[q] = at[q] /\ arg'[q] = arg[q]
  BY DEF TypeOK
<1>2. at'[r] = "idle" /\ arg'[r] = NoArg /\ arg'[r].default = None
  BY DEF TypeOK, NoArg
<1>3. lock = r /\ lock' = None /\ \A q \in Request : q # None
  BY NamesAssumption DEF LockHeld, Locked, Release
<1>4. \A q \in Request \ {r} : at[q] \notin Locked
  BY <1>3 DEF LockHeld
<1>5. TypeOK'
  <2>1. before' \in [keys : SUBSET Key, models : [Key -> SUBSET Model], config : Config]
    BY RowsAreTyped DEF TypeOK, Release
  <2>2. NoArg \in Arg
    BY DEF NoArg, Arg, NoConfig, Config
  <2>3. QED
    BY <1>3, <2>1, <2>2 DEF TypeOK, Point, Unlocked
<1>6. LockHeld'
  BY <1>1, <1>2, <1>3, <1>4 DEF Locked, LockHeld
<1>7. KeysIssued'
  BY <1>1, <1>2 DEF KeysIssued
<1>8. RowIsCurrent'
  BY <1>1, <1>2, <1>4 DEF RowIsCurrent, Locked
<1>9. InsertsOneAnswer'
  BY <1>1, <1>2 DEF InsertsOneAnswer, OneAnswer
<1>10. ModelsOfOneAnswer'
  BY DEF ModelsOfOneAnswer
<1>11. \A l \in Key \ keys : Refreshing(l)' \subseteq Refreshing(l)
  BY <1>1, <1>2 DEF Refreshing
<1>12. LateRefreshIsExcused'
  BY <1>11 DEF LateRefreshIsExcused
<1>13. OrphanSettled'
  BY <1>1, <1>2 DEF OrphanSettled
<1>14. DefaultSettled'
  <2>1. SUFFICES ASSUME config'.default \notin keys \cup {None}
                 PROVE  <<"default", config'.default>> \in excused
    BY DEF DefaultSettled
  <2>2. config'.default = config.default
    BY <2>1
  <2>3. \A q \in Request : at[q] \in {"cascade", "undefault"} => q = r
    BY <1>4 DEF Locked
  <2>4. at[r] \in {"cascade", "undefault"} => arg[r].key # config.default
    BY <2>1
  <2>5. QED
    BY <2>1, <2>2, <2>3, <2>4 DEF DefaultSettled
<1>15. QED
  BY <1>5, <1>6, <1>7, <1>8, <1>9, <1>10, <1>12, <1>13, <1>14

LEMMA InsertModelStep ==
  ASSUME InductiveInvariant, NEW r \in Request, InsertModel(r)
  PROVE  InductiveInvariant'
<1>1. CASE CanInsert(arg[r].answer, models[arg[r].key])
  BY <1>1, InsertOneStep DEF InsertModel
<1>2. CASE ~CanInsert(arg[r].answer, models[arg[r].key])
  <2>1. config' = config /\ config \in Config
    BY DEF InductiveInvariant, TypeOK, InsertModel
  <2>2. QED
    BY <1>2, <2>1, EndOfOperation DEF InsertModel
<1>3. QED
  BY <1>1, <1>2

LEMMA ClearDefaultStep ==
  ASSUME InductiveInvariant, NEW r \in Request, ClearDefault(r)
  PROVE  InductiveInvariant'
<1>1. config \in Config
  BY DEF InductiveInvariant, TypeOK
<1>2. /\ config' \in Config /\ config'.url = config.url
      /\ \/ config'.default = None
         \/ config'.default = config.default /\ arg[r].key # config.default
  BY <1>1 DEF ClearDefault, Config
<1>3. QED
  BY <1>2, EndOfOperation DEF ClearDefault

\* delete_key, statement by statement
LEMMA DeleteRowStep ==
  ASSUME InductiveInvariant, NEW r \in Request, DeleteRow(r)
  PROVE  InductiveInvariant'
<1> USE DEF InductiveInvariant, DeleteRow, Goto
<1> DEFINE k == arg[r].key
<1>1. \A q \in Request \ {r} : at'[q] = at[q] /\ arg'[q] = arg[q]
  BY DEF TypeOK
<1>2. at[r] = "delete" /\ at'[r] = "cascade" /\ arg'[r] = arg[r]
  BY DEF TypeOK
<1>3. lock = None /\ lock' = r /\ \A q \in Request : q # None
  BY NamesAssumption DEF Acquire
<1>4. k \in issued /\ k \in Key /\ keys' = keys \ {k}
  BY <1>2 DEF TypeOK, KeysIssued
<1>5. /\ excused \subseteq excused'
      /\ excused' \subseteq {"models", "default"} \X Key
      /\ Refreshing(k) # {} => <<"models", k>> \in excused'
  BY <1>4 DEF TypeOK
<1>6. TypeOK'
  <2>1. before' \in [keys : SUBSET Key, models : [Key -> SUBSET Model], config : Config]
    BY RowsAreTyped DEF TypeOK, Acquire
  <2>2. QED
    BY <1>3, <1>5, <2>1 DEF TypeOK, Point, Locked
<1>7. LockHeld'
  BY <1>1, <1>2, <1>3 DEF LockHeld, Locked
<1>8. KeysIssued'
  BY <1>1, <1>2 DEF KeysIssued
<1>9. RowIsCurrent'
  BY <1>1, <1>2 DEF RowIsCurrent
<1>10. InsertsOneAnswer'
  BY <1>1, <1>2 DEF InsertsOneAnswer, OneAnswer
<1>11. ModelsOfOneAnswer'
  BY DEF ModelsOfOneAnswer
<1>12. LateRefreshIsExcused'
  <2>1. \A l \in Key : Refreshing(l)' \subseteq Refreshing(l)
    BY <1>1, <1>2 DEF Refreshing
  <2>2. \A l \in Key \ keys' : l = k \/ l \notin keys
    BY <1>4
  <2>3. QED
    BY <1>5, <2>1, <2>2 DEF LateRefreshIsExcused
<1>13. OrphanSettled'
  BY <1>1, <1>2, <1>4, <1>5 DEF OrphanSettled
<1>14. DefaultSettled'
  BY <1>1, <1>2, <1>4, <1>5 DEF DefaultSettled
<1>15. QED
  BY <1>6, <1>7, <1>8, <1>9, <1>10, <1>11, <1>12, <1>13, <1>14

LEMMA CascadeStep ==
  ASSUME InductiveInvariant, NEW r \in Request, Cascade(r)
  PROVE  InductiveInvariant'
<1> USE DEF InductiveInvariant, Cascade, Goto, historyVars
<1>1. \A q \in Request \ {r} : at'[q] = at[q]
  BY DEF TypeOK
<1>2. at[r] = "cascade" /\ at'[r] = "undefault" /\ arg' = arg
  BY DEF TypeOK
<1>3. \A q \in Request \ {r} : at[q] \notin Locked
  BY <1>2 DEF LockHeld, Locked
<1>4. /\ arg[r].key \in Key /\ models'[arg[r].key] = {}
      /\ \A k \in Key : models'[k] \subseteq models[k]
      /\ \A k \in Key \ {arg[r].key} : models'[k] = models[k]
  BY <1>2 DEF TypeOK, KeysIssued
<1>5. TypeOK'
  BY DEF TypeOK, Point, Locked
<1>6. LockHeld'
  BY <1>1, <1>2 DEF LockHeld, Locked
<1>7. KeysIssued'
  BY <1>1, <1>2 DEF KeysIssued
<1>8. RowIsCurrent'
  BY <1>1, <1>2 DEF RowIsCurrent
<1>9. InsertsOneAnswer'
  BY <1>1, <1>2, <1>3 DEF InsertsOneAnswer, Locked
<1>10. ModelsOfOneAnswer'
  BY <1>4 DEF ModelsOfOneAnswer
<1>11. \A l \in Key \ keys : Refreshing(l)' \subseteq Refreshing(l)
  BY <1>1, <1>2 DEF Refreshing
<1>12. LateRefreshIsExcused'
  BY <1>11 DEF LateRefreshIsExcused
<1>13. OrphanSettled'
  <2>1. SUFFICES ASSUME NEW k \in Key \ keys, models'[k] # {}
                 PROVE  <<"models", k>> \in excused
    BY DEF OrphanSettled
  <2>2. k # arg[r].key /\ models[k] # {}
    BY <1>4, <2>1
  <2>3. \A q \in Request : at[q] = "cascade" => q = r
    BY <1>3 DEF Locked
  <2>4. QED
    BY <2>2, <2>3 DEF OrphanSettled
<1>14. DefaultSettled'
  BY <1>1, <1>2 DEF DefaultSettled
<1>15. QED
  BY <1>5, <1>6, <1>7, <1>8, <1>9, <1>10, <1>12, <1>13, <1>14

----------------------------------------------------------------------------
\* Errors and the end of the process

\* Whichever handlers are ended, if nobody holds the lock afterwards: the rows
\* stay as they are, and whatever is wrong with them is excused.
LEMMA BlameKeepsInvariant ==
  ASSUME InductiveInvariant, Blame, lock' = None,
         faults < MaxFaults, faults' = faults + 1,
         UNCHANGED <<rowVars, issued>>,
         NEW ended \in SUBSET Request,
         \A q \in Request \ ended : at[q] \notin Locked,
         at' = [q \in Request |-> IF q \in ended THEN "idle" ELSE at[q]],
         arg' = [q \in Request |-> IF q \in ended THEN NoArg ELSE arg[q]]
  PROVE  InductiveInvariant'
<1> USE DEF InductiveInvariant, rowVars
<1>1. \A q \in Request : \/ at'[q] = "idle" /\ arg'[q] = NoArg
                         \/ at'[q] = at[q] /\ arg'[q] = arg[q] /\ at[q] \notin Locked
  OBVIOUS
<1>2. NoArg \in Arg /\ NoArg.default = None
  BY DEF NoArg, Arg, NoConfig, Config
<1>3. \A k \in Key : <<"models", k>> \in excused' /\ <<"default", k>> \in excused'
  BY DEF Blame
<1>4. faults' \in 0..MaxFaults
  BY LimitAssumption DEF TypeOK
<1>5. TypeOK'
  <2>1. before' \in [keys : SUBSET Key, models : [Key -> SUBSET Model], config : Config]
    BY RowsAreTyped DEF TypeOK, Blame
  <2>2. at' \in [Request -> Point] /\ arg' \in [Request -> Arg]
    BY <1>2 DEF TypeOK, Point, Unlocked
  <2>3. excused' \subseteq {"models", "default"} \X Key
    BY DEF Blame
  <2>4. QED
    BY <1>4, <2>1, <2>2, <2>3 DEF TypeOK
<1>6. LockHeld'
  BY <1>1, NamesAssumption DEF LockHeld, Locked
<1>7. KeysIssued'
  BY <1>1, <1>2 DEF KeysIssued
<1>8. RowIsCurrent'
  BY <1>1 DEF RowIsCurrent
<1>9. InsertsOneAnswer'
  BY <1>1 DEF InsertsOneAnswer, OneAnswer
<1>10. ModelsOfOneAnswer'
  BY DEF ModelsOfOneAnswer
<1>11. LateRefreshIsExcused'
  BY <1>3 DEF LateRefreshIsExcused
<1>12. OrphanSettled'
  BY <1>3 DEF OrphanSettled
<1>13. DefaultSettled'
  BY <1>3 DEF DefaultSettled, TypeOK, Config
<1>14. QED
  BY <1>5, <1>6, <1>7, <1>8, <1>9, <1>10, <1>11, <1>12, <1>13

LEMMA RaiseStep ==
  ASSUME InductiveInvariant, NEW r \in Request, Raise(r)
  PROVE  InductiveInvariant'
<1>1. TypeOK /\ LockHeld
  BY DEF InductiveInvariant
<1>2. {r} \in SUBSET Request
  OBVIOUS
<1>3. \A q \in Request \ {r} : at[q] \notin Locked
  BY <1>1, NamesAssumption DEF LockHeld, Raise
<1>4. at' = [q \in Request |-> IF q \in {r} THEN "idle" ELSE at[q]]
  BY <1>1 DEF TypeOK, Raise, Finish, Goto
<1>5. arg' = [q \in Request |-> IF q \in {r} THEN NoArg ELSE arg[q]]
  BY <1>1 DEF TypeOK, Raise, Finish
<1>6. QED
  BY <1>2, <1>3, <1>4, <1>5, BlameKeepsInvariant DEF Raise

LEMMA RestartStep ==
  ASSUME InductiveInvariant, Restart
  PROVE  InductiveInvariant'
<1>1. Request \in SUBSET Request /\ \A q \in Request \ Request : at[q] \notin Locked
  OBVIOUS
<1>2. /\ at' = [q \in Request |-> IF q \in Request THEN "idle" ELSE at[q]]
      /\ arg' = [q \in Request |-> IF q \in Request THEN NoArg ELSE arg[q]]
  BY DEF Restart
<1>3. QED
  BY <1>1, <1>2, BlameKeepsInvariant DEF Restart

----------------------------------------------------------------------------
\* Theorems

LEMMA InitHolds == Init => InductiveInvariant
<1> SUFFICES ASSUME Init
             PROVE  InductiveInvariant
  OBVIOUS
<1>1. NoArg \in Arg /\ NoConfig \in Config /\ NoArg.default = None
      /\ NoConfig.default = None
  BY DEF NoArg, Arg, NoConfig, Config
<1>2. TypeOK
  BY <1>1, LimitAssumption DEF Init, TypeOK, Point, Unlocked, NoRows
<1>3. LockHeld
  BY NamesAssumption DEF Init, LockHeld, Locked
<1>4. KeysIssued /\ RowIsCurrent /\ InsertsOneAnswer
  BY <1>1 DEF Init, KeysIssued, RowIsCurrent, InsertsOneAnswer
<1>5. ModelsOfOneAnswer /\ OrphanSettled /\ DefaultSettled
  BY <1>1 DEF Init, ModelsOfOneAnswer, OrphanSettled, DefaultSettled
<1>6. LateRefreshIsExcused
  BY DEF Init, LateRefreshIsExcused, Refreshing
<1>7. QED
  BY <1>2, <1>3, <1>4, <1>5, <1>6 DEF InductiveInvariant

LEMMA NextKeepsInvariant ==
  ASSUME InductiveInvariant, [Next]_vars
  PROVE  InductiveInvariant'
<1>1. CASE UNCHANGED vars
  BY <1>1 DEF vars, rowVars, handlerVars, historyVars, InductiveInvariant, TypeOK,
              LockHeld, KeysIssued, RowIsCurrent, InsertsOneAnswer, OneAnswer,
              ModelsOfOneAnswer, LateRefreshIsExcused, Refreshing, OrphanSettled,
              DefaultSettled
<1>2. ASSUME NEW r \in Request, Arrive(r)
      PROVE  InductiveInvariant'
  BY <1>2, PutConfigStep, AddKeyStep, ArriveAtKeyStep DEF Arrive
<1>3. ASSUME NEW r \in Request, Step(r)
      PROVE  InductiveInvariant'
  BY <1>3, LookupStep, UpsertSelectStep, UpsertWriteStep, MoveOrFinishStep, FetchStep,
     PurgeStep, InsertModelStep, DeleteRowStep, CascadeStep, ClearDefaultStep, RaiseStep
     DEF Step
<1>4. QED
  BY <1>1, <1>2, <1>3, RestartStep DEF Next

\* The inductive invariant holds however requests, errors and restarts cut
\* each other off.
THEOREM StoreInvariance == Spec => []InductiveInvariant
<1>1. InductiveInvariant /\ [Next]_vars => InductiveInvariant'
  BY NextKeepsInvariant
<1>2. QED
  BY InitHolds, <1>1, PTL DEF Spec

\* Every variable keeps its type.
THEOREM StoreTypeCorrect == Spec => []TypeOK
<1>1. InductiveInvariant => TypeOK
  BY DEF InductiveInvariant
<1>2. QED
  BY StoreInvariance, <1>1, PTL

\* Cached models are of one answer of the upstream.
THEOREM ModelsAreOfOneAnswer == Spec => []ModelsOfOneAnswer
<1>1. InductiveInvariant => ModelsOfOneAnswer
  BY DEF InductiveInvariant
<1>2. QED
  BY StoreInvariance, <1>1, PTL

\* Models of a deleted key are left behind by a late refresh, an error or a
\* restart only.
THEOREM OrphansHaveAnExcuse == Spec => []OrphansAreExcused
<1>1. InductiveInvariant => OrphansAreExcused
  BY NamesAssumption DEF InductiveInvariant, OrphansAreExcused, OrphanSettled,
                         LockHeld, Locked
<1>2. QED
  BY StoreInvariance, <1>1, PTL

\* A default key that does not exist was named after its delete, or left by
\* an error or a restart.
THEOREM DefaultHasAnExcuse == Spec => []DefaultIsExcused
<1>1. InductiveInvariant => DefaultIsExcused
  BY NamesAssumption DEF InductiveInvariant, DefaultIsExcused, DefaultSettled,
                         LockHeld, Locked
<1>2. QED
  BY StoreInvariance, <1>1, PTL

----------------------------------------------------------------------------
\* The sqlite store implements the catalog until its first error

\* What everybody but the holder of the lock does to an operation under way:
\* nothing.
LEMMA OthersKeepOperation ==
  ASSUME TypeOK, LockHeld, OperationUnderWay, NEW r \in Request,
         at[r] \notin Locked, at'[r] \notin Locked,
         \A q \in Request \ {r} : at'[q] = at[q] /\ arg'[q] = arg[q],
         before' = before, faults' = faults,
         lock # None => UNCHANGED rowVars
  PROVE  OperationUnderWay'
<1>1. \A q \in Request : at'[q] \in Locked => /\ lock = q /\ q # None /\ q # r
                                           /\ at'[q] = at[q] /\ arg'[q] = arg[q]
  BY NamesAssumption DEF LockHeld
<1>2. SUFFICES ASSUME Intact', NEW q \in Request, at'[q] \in Locked
               PROVE  LET k == arg'[q].key
                      IN  /\ at'[q] = "write" => before' = Rows'
                          /\ at'[q] = "insert" =>
                               /\ before'.keys = keys' /\ before'.config = config'
                               /\ \A l \in Key \ {k} : before'.models[l] = models'[l]
                          /\ at'[q] \in {"cascade", "undefault"} =>
                               /\ before'.config = config'
                               /\ keys' = before'.keys \ {k}
                          /\ at'[q] = "cascade" => before'.models = models'
                          /\ at'[q] = "undefault" =>
                               models' = [before'.models EXCEPT ![k] = {}]
  BY DEF OperationUnderWay, Locked
<1>3. Intact
  BY <1>2 DEF Intact
<1>4. UNCHANGED rowVars
  BY <1>1, <1>2
<1>5. Rows' = Rows
  BY <1>4 DEF rowVars, Rows
<1>6. QED
  BY <1>1, <1>2, <1>3, <1>4, <1>5 DEF OperationUnderWay, rowVars

\* When the lock is free after a step, no operation is under way.
LEMMA FreeLockNoOperation ==
  ASSUME LockHeld', lock' = None
  PROVE  OperationUnderWay'
<1>1. \A q \in Request : at'[q] \notin Locked
  BY NamesAssumption DEF LockHeld
<1>2. QED
  BY <1>1 DEF OperationUnderWay, Locked

\* The holder of the lock is alone in an operation.
LEMMA HolderIsAlone ==
  ASSUME LockHeld', NEW r \in Request, lock' = r
  PROVE  \A q \in Request : at'[q] \in Locked => q = r
  BY DEF LockHeld

\* A base URL that is there stays.
LEMMA KeepsUrlStays ==
  ASSUME TypeOK, UrlStays, NEW r \in Request,
         \A q \in Request \ {r} : at'[q] = at[q] /\ arg'[q] = arg[q],
         config.url # None => config'.url # None,
         at'[r] \in {"select", "write"} /\ arg'[r].url = None => config'.url # None
  PROVE  UrlStays'
  BY DEF UrlStays

\* A step that shows the same rows as before is a stutter of the catalog.
LEMMA SameRowsStutter ==
  ASSUME Shown' = Shown
  PROVE  UNCHANGED Catalog!catalogVars
  BY DEF Catalog!catalogVars

----------------------------------------------------------------------------
\* Steps outside the store

HandlerStep(r) ==
  \/ \E url \in Url \cup {None}, default \in issued \cup {None} :
       PutConfig(r, url, default)
  \/ \E k \in issued : RefreshModels(r, k) \/ DeleteKey(r, k)
  \/ Lookup(r) \/ CheckKey(r) \/ GetCredentials(r) \/ ResolveBaseUrl(r) \/ Fetch(r)

LEMMA HandlerRefines ==
  ASSUME InductiveInvariant, RefinementInvariant, NEW r \in Request, HandlerStep(r)
  PROVE  RefinementInvariant' /\ UNCHANGED Catalog!catalogVars
<1>1. TypeOK /\ LockHeld
  BY DEF InductiveInvariant
<1>2. /\ at' = [at EXCEPT ![r] = at'[r]]
      /\ at[r] \in Unlocked /\ at'[r] \in Unlocked /\ OnlyHandler
  BY <1>1 DEF HandlerStep, PutConfig, RefreshModels, DeleteKey, Lookup, CheckKey,
              GetCredentials, ResolveBaseUrl, Fetch, Goto, Finish, OnlyHandler, TypeOK,
              Unlocked
<1>3. \A q \in Request \ {r} : at'[q] = at[q] /\ arg'[q] = arg[q]
  <2>1. \A q \in Request \ {r} : at'[q] = at[q]
    BY <1>1, <1>2 DEF TypeOK
  <2>2. \A q \in Request \ {r} : arg'[q] = arg[q]
    BY <1>1 DEF HandlerStep, PutConfig, RefreshModels, DeleteKey, Lookup, CheckKey,
                GetCredentials, ResolveBaseUrl, Fetch, Finish, TypeOK
  <2>3. QED
    BY <2>1, <2>2
<1>4. at[r] \notin Locked /\ at'[r] \notin Locked
  BY <1>2 DEF Unlocked, Locked
<1>5. OperationUnderWay'
  BY <1>1, <1>2, <1>3, <1>4, OthersKeepOperation
     DEF OnlyHandler, historyVars, rowVars, RefinementInvariant
<1>6. at'[r] \in {"select", "write"} /\ arg'[r].url = None => config.url # None
  <2>1. ASSUME NEW url \in Url \cup {None}, NEW default \in issued \cup {None},
               PutConfig(r, url, default)
        PROVE  at'[r] = "select" => arg'[r].url # None
    BY <1>1, <2>1 DEF PutConfig, Goto, TypeOK, Arg
  <2>2. CASE Lookup(r)
    BY <1>1, <2>2, NamesAssumption DEF Lookup, Goto, TypeOK, Arg
  <2>3. CASE \/ \E k \in issued : RefreshModels(r, k) \/ DeleteKey(r, k)
             \/ CheckKey(r) \/ GetCredentials(r) \/ ResolveBaseUrl(r) \/ Fetch(r)
    BY <1>1, <2>3 DEF RefreshModels, DeleteKey, CheckKey, GetCredentials,
                      ResolveBaseUrl, Fetch, Goto, Finish, TypeOK
  <2>4. QED
    BY <1>4, <2>1, <2>2, <2>3 DEF HandlerStep, Locked
<1>7. UrlStays'
  BY <1>1, <1>2, <1>3, <1>6, KeepsUrlStays DEF RefinementInvariant, OnlyHandler, rowVars
<1>8. Shown' = Shown
  BY <1>2 DEF OnlyHandler, rowVars, historyVars, Shown, Rows, Intact
<1>9. QED
  BY <1>5, <1>7, <1>8, SameRowsStutter DEF RefinementInvariant

\* add_key is one statement.
LEMMA AddKeyRefines ==
  ASSUME InductiveInvariant, RefinementInvariant, NEW r \in Request, NEW k \in Key,
         AddKey(r, k)
  PROVE  RefinementInvariant' /\ [Catalog!AddKey(k)]_(Catalog!catalogVars)
<1>1. TypeOK /\ LockHeld
  BY DEF InductiveInvariant
<1>2. /\ lock = None /\ at[r] = "idle" /\ at'[r] = "creds"
      /\ \A q \in Request \ {r} : at'[q] = at[q] /\ arg'[q] = arg[q]
  BY <1>1 DEF AddKey, MayRead, Goto, TypeOK
<1>3. OperationUnderWay'
  BY <1>1, <1>2, OthersKeepOperation DEF AddKey, historyVars, Locked, RefinementInvariant
<1>4. UrlStays'
  BY <1>1, <1>2, KeepsUrlStays DEF AddKey, RefinementInvariant
<1>5. CASE Intact
  <2>1. /\ Shown = Rows
        /\ Shown' = [keys |-> keys \cup {k}, models |-> models, config |-> config]
    BY <1>2, <1>5 DEF AddKey, Shown, Rows, Intact
  <2>2. Catalog!AddKey(k)
    BY <2>1 DEF Catalog!AddKey, Rows
  <2>3. QED
    BY <1>3, <1>4, <2>2 DEF RefinementInvariant
<1>6. CASE ~Intact
  <2>1. Shown' = Shown
    BY <1>6 DEF AddKey, Shown, Intact, historyVars
  <2>2. QED
    BY <1>3, <1>4, <2>1, SameRowsStutter DEF RefinementInvariant
<1>7. QED
  BY <1>5, <1>6

----------------------------------------------------------------------------
\* First statements of an operation

LEMMA FirstStatementRefines ==
  ASSUME InductiveInvariant, RefinementInvariant, NEW r \in Request,
         UpsertSelect(r) \/ Purge(r) \/ DeleteRow(r)
  PROVE  RefinementInvariant' /\ UNCHANGED Catalog!catalogVars
<1>1. TypeOK /\ LockHeld
  BY DEF InductiveInvariant
<1>2. InductiveInvariant'
  BY UpsertSelectStep, PurgeStep, DeleteRowStep
<1>3. LockHeld' /\ lock' = r /\ lock = None /\ r # None /\ faults' = faults
  BY <1>2, NamesAssumption
     DEF InductiveInvariant, UpsertSelect, Purge, DeleteRow, Acquire
<1>4. \A q \in Request : at'[q] \in Locked => q = r
  BY <1>3, HolderIsAlone
<1>5. \A q \in Request \ {r} : at'[q] = at[q] /\ arg'[q] = arg[q]
  BY <1>1 DEF UpsertSelect, Purge, DeleteRow, Goto, TypeOK
<1>6. config' = config /\ arg'[r].key = arg[r].key /\ arg'[r].url = arg[r].url
  BY <1>1 DEF UpsertSelect, Purge, DeleteRow, rowVars, TypeOK, Arg
<1>7. before' = IF Intact THEN Rows ELSE before
  BY DEF UpsertSelect, Purge, DeleteRow, Acquire
<1>8. OperationUnderWay'
  <2>1. SUFFICES ASSUME Intact
                 PROVE  OperationUnderWay'
    BY <1>3 DEF OperationUnderWay, Intact
  <2>2. /\ before'.keys = keys /\ before'.models = models /\ before'.config = config
        /\ before' = Rows
    BY <1>7, <2>1 DEF Rows
  <2>3. CASE UpsertSelect(r)
    <3>1. at'[r] = "write" /\ Rows' = Rows
      BY <1>1, <2>3 DEF UpsertSelect, Goto, TypeOK, Rows, rowVars
    <3>2. QED
      BY <1>4, <2>2, <3>1 DEF OperationUnderWay, Locked
  <2>4. CASE Purge(r)
    <3>1. /\ at'[r] = "insert" /\ keys' = keys
          /\ \A l \in Key \ {arg[r].key} : models'[l] = models[l]
      BY <1>1, <2>4 DEF Purge, Goto, TypeOK
    <3>2. QED
      BY <1>4, <1>6, <2>2, <3>1 DEF OperationUnderWay, Locked
  <2>5. CASE DeleteRow(r)
    <3>1. at'[r] = "cascade" /\ keys' = keys \ {arg[r].key} /\ models' = models
      BY <1>1, <2>5 DEF DeleteRow, Goto, TypeOK
    <3>2. QED
      BY <1>4, <1>6, <2>2, <3>1 DEF OperationUnderWay, Locked
  <2>6. QED
    BY <2>3, <2>4, <2>5
<1>9. UrlStays'
  <2>1. at'[r] \in {"select", "write"} => at[r] = "select"
    BY <1>1 DEF UpsertSelect, Purge, DeleteRow, Goto, TypeOK
  <2>2. QED
    BY <1>1, <1>5, <1>6, <2>1, KeepsUrlStays DEF RefinementInvariant, UrlStays
<1>10. Shown' = Shown
  BY <1>3, <1>7 DEF Shown, Intact
<1>11. QED
  BY <1>8, <1>9, <1>10, SameRowsStutter DEF RefinementInvariant

----------------------------------------------------------------------------
\* Statements in the middle of an operation

LEMMA MiddleRefines ==
  ASSUME InductiveInvariant, RefinementInvariant, NEW r \in Request,
         \/ InsertModel(r) /\ CanInsert(arg[r].answer, models[arg[r].key])
         \/ Cascade(r)
  PROVE  RefinementInvariant' /\ UNCHANGED Catalog!catalogVars
<1>1. TypeOK /\ LockHeld /\ KeysIssued
  BY DEF InductiveInvariant
<1>2. InductiveInvariant'
  BY InsertModelStep, CascadeStep
<1>3. /\ at[r] \in {"insert", "cascade"} /\ lock = r /\ lock' = r /\ r # None
      /\ before' = before /\ faults' = faults
  BY <1>1, NamesAssumption
     DEF LockHeld, Locked, InsertModel, Cascade, historyVars
<1>4. LockHeld' /\ \A q \in Request : at'[q] \in Locked => q = r
  BY <1>2, <1>3, HolderIsAlone DEF InductiveInvariant
<1>5. \A q \in Request \ {r} : at'[q] = at[q] /\ arg'[q] = arg[q]
  BY <1>1 DEF InsertModel, Cascade, Goto, TypeOK
<1>6. keys' = keys /\ config' = config /\ arg'[r].key = arg[r].key
  BY <1>1 DEF InsertModel, Cascade, TypeOK, Arg
<1>7. OperationUnderWay'
  <2>1. SUFFICES ASSUME Intact
                 PROVE  OperationUnderWay'
    BY <1>3 DEF OperationUnderWay, Intact
  <2>2. CASE at[r] = "insert"
    <3>1. /\ at'[r] = "insert"
          /\ \A l \in Key \ {arg[r].key} : models'[l] = models[l]
      BY <1>1, <2>2 DEF InsertModel, Cascade, TypeOK
    <3>2. /\ before.keys = keys /\ before.config = config
          /\ \A l \in Key \ {arg[r].key} : before.models[l] = models[l]
      BY <2>1, <2>2 DEF RefinementInvariant, OperationUnderWay
    <3>3. QED
      BY <1>3, <1>4, <1>6, <3>1, <3>2 DEF OperationUnderWay, Locked
  <2>3. CASE at[r] = "cascade"
    <3>1. /\ at'[r] = "undefault"
          /\ models' = [models EXCEPT ![arg[r].key] = {}]
      BY <1>1, <2>3 DEF InsertModel, Cascade, Goto, TypeOK
    <3>2. /\ before.config = config /\ keys = before.keys \ {arg[r].key}
          /\ before.models = models
      BY <2>1, <2>3 DEF RefinementInvariant, OperationUnderWay
    <3>3. QED
      BY <1>3, <1>4, <1>6, <3>1, <3>2 DEF OperationUnderWay, Locked
  <2>4. QED
    BY <1>3, <2>2, <2>3
<1>8. UrlStays'
  <2>1. at'[r] \notin {"select", "write"}
    BY <1>1 DEF InsertModel, Cascade, Goto, TypeOK
  <2>2. QED
    BY <1>1, <1>5, <1>6, <2>1, KeepsUrlStays DEF RefinementInvariant
<1>9. Shown' = Shown
  BY <1>3 DEF Shown, Intact
<1>10. QED
  BY <1>7, <1>8, <1>9, SameRowsStutter DEF RefinementInvariant

----------------------------------------------------------------------------
\* Last statements: here the operation takes effect

\* Whatever ends an operation leaves none under way, and shows the rows as it
\* leaves them; what it started from has been shown so far.
LEMMA LastStatement ==
  ASSUME InductiveInvariant, InductiveInvariant', RefinementInvariant,
         NEW r \in Request, at[r] \in Locked, Release(r), Finish(r),
         faults' = faults, config.url # None => config'.url # None
  PROVE  /\ RefinementInvariant'
         /\ ~Intact => Shown' = Shown
         /\ Intact => Shown = before /\ Shown' = Rows'
<1>1. TypeOK /\ LockHeld /\ LockHeld'
  BY DEF InductiveInvariant
<1>2. lock = r /\ r # None /\ lock' = None
  BY <1>1, NamesAssumption DEF LockHeld, Release
<1>3. OperationUnderWay'
  BY <1>1, <1>2, FreeLockNoOperation
<1>4. /\ at'[r] = "idle"
      /\ \A q \in Request \ {r} : at'[q] = at[q] /\ arg'[q] = arg[q]
  BY <1>1 DEF Finish, Goto, TypeOK
<1>5. UrlStays'
  BY <1>1, <1>4, KeepsUrlStays DEF RefinementInvariant
<1>6. ~Intact => Shown' = Shown
  BY DEF Shown, Intact, Release
<1>7. Intact => Shown = before /\ Shown' = Rows'
  BY <1>2 DEF Shown, Intact
<1>8. QED
  BY <1>3, <1>5, <1>6, <1>7 DEF RefinementInvariant

LEMMA UpsertWriteRefines ==
  ASSUME InductiveInvariant, RefinementInvariant, NEW r \in Request, UpsertWrite(r)
  PROVE  RefinementInvariant' /\ [Catalog!CatalogNext]_(Catalog!catalogVars)
<1> DEFINE url == arg[r].url
           default == arg[r].default
<1>1. TypeOK /\ at[r] = "write" /\ at[r] \in Locked
  BY DEF InductiveInvariant, UpsertWrite, Locked
<1>2. url \in Url \cup {None} /\ default \in Key \cup {None}
  BY <1>1 DEF TypeOK, Arg
<1>3. arg[r].row = config
  BY <1>1 DEF InductiveInvariant, RowIsCurrent
<1>4. /\ config' = Merge(config, url, default)
      /\ keys' = keys /\ models' = models
  BY <1>3 DEF UpsertWrite
<1>5. config.url # None => config'.url # None
  BY <1>4 DEF Merge
<1>6. /\ RefinementInvariant'
      /\ ~Intact => Shown' = Shown
      /\ Intact => Shown = before /\ Shown' = Rows'
  BY <1>1, <1>5, LastStatement, UpsertWriteStep DEF UpsertWrite
<1>7. CASE Intact
  <2>1. Shown = Rows
    BY <1>1, <1>6, <1>7 DEF RefinementInvariant, OperationUnderWay
  <2>2. /\ Shown.keys = keys /\ Shown.models = models /\ Shown.config = config
        /\ Shown'.keys = keys /\ Shown'.models = models
        /\ Shown'.config = Merge(config, url, default)
    BY <1>4, <1>6, <1>7, <2>1 DEF Rows
  <2>3. config.url # None \/ url # None
    BY <1>1 DEF RefinementInvariant, UrlStays
  <2>4. Catalog!UpsertConfig(url, default)
    BY <2>2, <2>3 DEF Catalog!UpsertConfig, Catalog!Merge, Merge
  <2>5. QED
    BY <1>2, <1>6, <2>4 DEF Catalog!CatalogNext
<1>8. CASE ~Intact
  BY <1>6, <1>8, SameRowsStutter
<1>9. QED
  BY <1>7, <1>8

LEMMA InsertEndRefines ==
  ASSUME InductiveInvariant, RefinementInvariant, NEW r \in Request,
         InsertModel(r), ~CanInsert(arg[r].answer, models[arg[r].key])
  PROVE  RefinementInvariant' /\ [Catalog!CatalogNext]_(Catalog!catalogVars)
<1> DEFINE k == arg[r].key
<1>1. TypeOK /\ at[r] = "insert" /\ at[r] \in Locked
  BY DEF InductiveInvariant, InsertModel, Locked
<1>2. k \in Key /\ models[k] \in SUBSET Model
  BY <1>1 DEF InductiveInvariant, KeysIssued, TypeOK
<1>3. UNCHANGED rowVars
  BY DEF InsertModel, rowVars
<1>4. /\ RefinementInvariant'
      /\ ~Intact => Shown' = Shown
      /\ Intact => Shown = before /\ Shown' = Rows'
  BY <1>1, <1>3, LastStatement, InsertModelStep DEF InsertModel, rowVars
<1>5. CASE Intact
  <2>1. /\ before.keys = keys /\ before.config = config
        /\ \A l \in Key \ {k} : before.models[l] = models[l]
    BY <1>1, <1>5 DEF RefinementInvariant, OperationUnderWay
  <2>2. before.models \in [Key -> SUBSET Model] /\ models \in [Key -> SUBSET Model]
    BY <1>1 DEF TypeOK
  <2>3. models = [before.models EXCEPT ![k] = models[k]]
    BY <1>2, <2>1, <2>2
  <2>4. /\ Shown.keys = keys /\ Shown.models = before.models /\ Shown.config = config
        /\ Shown'.keys = keys /\ Shown'.models = models /\ Shown'.config = config
    BY <1>3, <1>4, <1>5, <2>1 DEF Rows, rowVars
  <2>5. Catalog!ReplaceModels(k, models[k])
    BY <2>3, <2>4 DEF Catalog!ReplaceModels
  <2>6. QED
    BY <1>2, <1>4, <2>5 DEF Catalog!CatalogNext
<1>6. CASE ~Intact
  BY <1>4, <1>6, SameRowsStutter
<1>7. QED
  BY <1>5, <1>6

LEMMA ClearDefaultRefines ==
  ASSUME InductiveInvariant, RefinementInvariant, NEW r \in Request, ClearDefault(r)
  PROVE  RefinementInvariant' /\ [Catalog!CatalogNext]_(Catalog!catalogVars)
<1> DEFINE k == arg[r].key
<1>1. TypeOK /\ at[r] = "undefault" /\ at[r] \in Locked
  BY DEF InductiveInvariant, ClearDefault, Locked
<1>2. k \in Key /\ config'.url = config.url
  BY <1>1 DEF InductiveInvariant, KeysIssued, TypeOK, ClearDefault, Config
<1>3. /\ RefinementInvariant'
      /\ ~Intact => Shown' = Shown
      /\ Intact => Shown = before /\ Shown' = Rows'
  BY <1>1, <1>2, LastStatement, ClearDefaultStep DEF ClearDefault
<1>4. CASE Intact
  <2>1. /\ before.config = config /\ keys = before.keys \ {k}
        /\ models = [before.models EXCEPT ![k] = {}]
    BY <1>1, <1>4 DEF RefinementInvariant, OperationUnderWay
  <2>2. /\ Shown.keys = before.keys /\ Shown.models = before.models
        /\ Shown.config = config
        /\ Shown'.keys = keys /\ Shown'.models = models /\ Shown'.config = config'
    BY <1>3, <1>4, <2>1 DEF Rows, ClearDefault
  <2>3. config' = [config EXCEPT !.default = IF @ = k THEN None ELSE @]
    BY DEF ClearDefault
  <2>4. Catalog!DeleteKey(k)
    BY <2>1, <2>2, <2>3 DEF Catalog!DeleteKey, Catalog!WithoutDefault
  <2>5. QED
    BY <1>2, <1>3, <2>4 DEF Catalog!CatalogNext
<1>5. CASE ~Intact
  BY <1>3, <1>5, SameRowsStutter
<1>6. QED
  BY <1>4, <1>5

----------------------------------------------------------------------------
\* From the first error on, the rows shown stay as they were.
LEMMA FaultRefines ==
  ASSUME InductiveInvariant, RefinementInvariant,
         Restart \/ \E r \in Request : Raise(r)
  PROVE  RefinementInvariant' /\ UNCHANGED Catalog!catalogVars
<1>1. TypeOK /\ faults' = faults + 1 /\ Blame /\ config' = config
  BY DEF InductiveInvariant, Restart, Raise, rowVars
<1>2. ~Intact'
  BY <1>1, LimitAssumption DEF Intact, TypeOK
<1>3. \A q \in Request : at'[q] = "idle" \/ (at'[q] = at[q] /\ arg'[q] = arg[q])
  BY <1>1 DEF Restart, Raise, Finish, Goto, TypeOK
<1>4. UrlStays'
  BY <1>1, <1>3 DEF RefinementInvariant, UrlStays
<1>5. Shown' = Shown
  BY <1>1, <1>2 DEF Shown, Blame
<1>6. QED
  BY <1>2, <1>4, <1>5, SameRowsStutter DEF RefinementInvariant, OperationUnderWay

----------------------------------------------------------------------------
\* Theorems

LEMMA InitRefines == Init => RefinementInvariant /\ Catalog!CatalogInit
<1> SUFFICES ASSUME Init
             PROVE  RefinementInvariant /\ Catalog!CatalogInit
  OBVIOUS
<1>1. RefinementInvariant
  BY DEF Init, RefinementInvariant, OperationUnderWay, UrlStays
<1>2. Shown = [keys |-> {}, models |-> [k \in Key |-> {}], config |-> NoConfig]
  BY DEF Init, Shown, Intact, Rows
<1>3. Catalog!CatalogInit
  BY <1>2 DEF Catalog!CatalogInit, NoConfig
<1>4. QED
  BY <1>1, <1>3

LEMMA NextRefines ==
  ASSUME InductiveInvariant, RefinementInvariant, [Next]_vars
  PROVE  RefinementInvariant' /\ [Catalog!CatalogNext]_(Catalog!catalogVars)
<1>1. CASE UNCHANGED vars
  <2>1. RefinementInvariant'
    BY <1>1 DEF vars, rowVars, handlerVars, historyVars, RefinementInvariant,
                OperationUnderWay, UrlStays, Intact, Rows
  <2>2. Shown' = Shown
    BY <1>1 DEF vars, rowVars, handlerVars, historyVars, Shown, Intact, Rows
  <2>3. QED
    BY <2>1, <2>2, SameRowsStutter
<1>2. ASSUME NEW r \in Request, HandlerStep(r)
      PROVE  RefinementInvariant' /\ UNCHANGED Catalog!catalogVars
  BY <1>2, HandlerRefines
<1>3. ASSUME NEW r \in Request, NEW k \in Key, AddKey(r, k)
      PROVE  RefinementInvariant' /\ [Catalog!CatalogNext]_(Catalog!catalogVars)
  <2>1. RefinementInvariant' /\ [Catalog!AddKey(k)]_(Catalog!catalogVars)
    BY <1>3, AddKeyRefines
  <2>2. Catalog!AddKey(k) => Catalog!CatalogNext
    BY DEF Catalog!CatalogNext
  <2>3. QED
    BY <2>1, <2>2
<1>4. ASSUME NEW r \in Request, UpsertSelect(r) \/ Purge(r) \/ DeleteRow(r)
      PROVE  RefinementInvariant' /\ UNCHANGED Catalog!catalogVars
  BY <1>4, FirstStatementRefines
<1>5. ASSUME NEW r \in Request, InsertModel(r) \/ Cascade(r)
      PROVE  RefinementInvariant' /\ [Catalog!CatalogNext]_(Catalog!catalogVars)
  BY <1>5, MiddleRefines, InsertEndRefines
<1>6. ASSUME NEW r \in Request, UpsertWrite(r) \/ ClearDefault(r)
      PROVE  RefinementInvariant' /\ [Catalog!CatalogNext]_(Catalog!catalogVars)
  BY <1>6, UpsertWriteRefines, ClearDefaultRefines
<1>7. ASSUME Restart \/ \E r \in Request : Raise(r)
      PROVE  RefinementInvariant' /\ UNCHANGED Catalog!catalogVars
  BY <1>7, FaultRefines
<1>8. QED
  BY <1>1, <1>2, <1>3, <1>4, <1>5, <1>6, <1>7
     DEF Next, Arrive, Step, HandlerStep

\* What an operation under way has done, and what its handler has seen, holds
\* in every state.
THEOREM OperationsAreTracked == Spec => []RefinementInvariant
<1>1. Init => RefinementInvariant
  BY InitRefines
<1>2. InductiveInvariant /\ RefinementInvariant /\ [Next]_vars => RefinementInvariant'
  BY NextRefines
<1>3. QED
  BY StoreInvariance, <1>1, <1>2, PTL DEF Spec

\* Until the first error, the sqlite store is a catalog: every operation takes
\* effect at once.
THEOREM StoreIsCatalog == Spec => ImplementsCatalog
<1>1. Init => Catalog!CatalogInit
  BY InitRefines
<1>2. InductiveInvariant /\ RefinementInvariant /\ [Next]_vars
        => [Catalog!CatalogNext]_(Catalog!catalogVars)
  BY NextRefines
<1>3. QED
  BY StoreInvariance, OperationsAreTracked, <1>1, <1>2, PTL
     DEF Spec, ImplementsCatalog, Catalog!CatalogSpec
=============================================================================
