---------------------- MODULE ProviderStoreProperties ----------------------
(***************************************************************************)
(* What the provider store must guarantee.                                 *)
(***************************************************************************)
EXTENDS ProviderStore

\* The cached models of a key come from one answer of the upstream, whole or
\* cut short, however refreshes of the same key overlap and wherever an error
\* or the end of the process cuts replace_models off: never a mixture.
ModelsOfOneAnswer ==
  \A k \in Key : models[k] = {} \/ \E answer \in Answer : models[k] \subseteq ModelsOf(answer)

\* The models of a deleted key are left behind only by a refresh that had
\* read the key's credentials before the delete, by an error or by the end of
\* the process.
OrphansAreExcused ==
  \A k \in Key :
     (lock = None /\ k \notin keys /\ models[k] # {}) => <<"models", k>> \in excused

\* A default key that does not exist was named by a request after it had been
\* deleted, or left by an error or the end of the process: no update of
\* another column brings it back.
DefaultIsExcused ==
  (lock = None /\ config.default \notin keys \cup {None})
     => <<"default", config.default>> \in excused

----------------------------------------------------------------------------
\* The inductive invariant behind them

\* The lock is held by the request that is inside an operation, and by
\* nobody else.
LockHeld == \A r \in Request : at[r] \in Locked <=> lock = r

\* A handler that deals with a key has one that was given out, and a config
\* names no other either.
KeysIssued ==
  /\ config.default \in issued \cup {None}
  /\ \A r \in Request :
       /\ arg[r].default \in issued \cup {None}
       /\ at[r] \notin {"idle", "lookup", "select", "write"} => arg[r].key \in issued

\* What upsert_config has read is still there when it writes.
RowIsCurrent == \A r \in Request : at[r] = "write" => arg[r].row = config

\* What has been inserted and what is still to come are of one answer.
OneAnswer(k, more) ==
  \E answer \in Answer : models[k] \cup ModelsOf(more) \subseteq ModelsOf(answer)
InsertsOneAnswer ==
  \A r \in Request :
    /\ at[r] = "purge" => arg[r].answer \in Answer
    /\ at[r] = "insert" => OneAnswer(arg[r].key, arg[r].answer)

\* A refresh of a key that has gone was under way when it went.
LateRefreshIsExcused ==
  \A k \in Key \ keys : Refreshing(k) # {} => <<"models", k>> \in excused

\* Orphans are excused, or about to be removed by the delete under way.
OrphanSettled ==
  \A k \in Key \ keys :
     models[k] # {} => \/ <<"models", k>> \in excused
                      \/ \E r \in Request : at[r] = "cascade" /\ arg[r].key = k
DefaultSettled ==
  config.default \notin keys \cup {None} =>
     \/ <<"default", config.default>> \in excused
     \/ \E r \in Request :
          at[r] \in {"cascade", "undefault"} /\ arg[r].key = config.default

\* The three properties lean on each other's ground: only the holder of the
\* lock writes, what it has read under the lock stays true, and whoever comes
\* too late is excused from the moment of the delete.
InductiveInvariant ==
  /\ TypeOK
  /\ LockHeld
  /\ KeysIssued
  /\ RowIsCurrent
  /\ InsertsOneAnswer
  /\ ModelsOfOneAnswer
  /\ LateRefreshIsExcused
  /\ OrphanSettled
  /\ DefaultSettled

----------------------------------------------------------------------------
\* Refinement

\* The rows as other requests can see them: not in the middle of an
\* operation.
Shown == IF Intact /\ lock = None THEN Rows ELSE before

Catalog == INSTANCE ProviderCatalog
             WITH keys <- Shown.keys, models <- Shown.models,
                  config <- Shown.config

\* Until the first error, what an operation has done so far to the rows it
\* started from.
OperationUnderWay ==
  Intact =>
    \A r \in Request :
      LET k == arg[r].key
      IN  /\ at[r] = "write" => before = Rows
          /\ at[r] = "insert" =>
               /\ before.keys = keys /\ before.config = config
               /\ \A l \in Key \ {k} : before.models[l] = models[l]
          /\ at[r] \in {"cascade", "undefault"} =>
               /\ before.config = config
               /\ keys = before.keys \ {k}
          /\ at[r] = "cascade" => before.models = models
          /\ at[r] = "undefault" => models = [before.models EXCEPT ![k] = {}]

\* Whoever upserts without a base URL has seen a config, and it is there to stay.
UrlStays ==
  \A r \in Request :
     (at[r] \in {"select", "write"} /\ arg[r].url = None) => config.url # None

\* What the refinement rests on besides InductiveInvariant.
RefinementInvariant == OperationUnderWay /\ UrlStays

\* Up to the first error, the sqlite store is a ProviderStore as the
\* in-memory one is: every operation takes effect at once.
ImplementsCatalog == Catalog!CatalogSpec

----------------------------------------------------------------------------
\* What interface.md says of PUT config ("partial update, every field is
\* optional"), and the code does not do

\* A request without a base_url leaves the base URL of a config alone.
PartialUpdateKeepsUrl ==
  [][\A r \in Request :
       (at[r] = "write" /\ arg[r].given = None /\ config.url # None)
          => config'.url = config.url]_vars
=============================================================================
