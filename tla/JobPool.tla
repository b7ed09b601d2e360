------------------------------ MODULE JobPool ------------------------------
(***************************************************************************)
(* What TaskManager promises its callers, without queue order, database or *)
(* threads: a job runs at most once, at most `limit` jobs are started      *)
(* beside each other, and no slot is idle while a job waits.               *)
(***************************************************************************)
EXTENDS Integers, FiniteSets

CONSTANTS
  Job,
  Limits  \* the limits that may be set, positive numbers

VARIABLES
  stage,  \* the stage of every job
  limit   \* how many jobs may be started beside each other

poolVars == <<stage, limit>>

Stage == {"fresh", "waiting", "active", "over"}

In(st, s) == {j \in Job : st[j] = s}

PoolInit ==
  /\ stage = [j \in Job |-> "fresh"]
  /\ limit \in Limits

\* From the stages st, waiting jobs start until the limit n is reached or
\* none is left.
Fill(st, n) ==
  \E S \in SUBSET In(st, "waiting") :
     /\ \/ S = In(st, "waiting")
        \/ Cardinality(In(st, "active") \cup S) >= n
     /\ S # {} => Cardinality(In(st, "active") \cup S) <= n
     /\ stage' = [j \in Job |-> IF j \in S THEN "active" ELSE st[j]]
     /\ limit' = n

Accept(j) == stage[j] = "fresh" /\ Fill([stage EXCEPT ![j] = "waiting"], limit)

Withdraw(j) ==
  /\ stage[j] = "waiting"
  /\ stage' = [stage EXCEPT ![j] = "over"]
  /\ UNCHANGED limit

Finish(j) == stage[j] = "active" /\ Fill([stage EXCEPT ![j] = "over"], limit)

Resize(n) == Fill(stage, n)

\* The process ends: what waits or runs is over.
Stop ==
  /\ stage' = [j \in Job |-> IF stage[j] = "fresh" THEN "fresh" ELSE "over"]
  /\ UNCHANGED limit

PoolNext ==
  \/ \E j \in Job : Accept(j) \/ Withdraw(j) \/ Finish(j)
  \/ \E n \in Limits : Resize(n)
  \/ Stop

PoolSpec == PoolInit /\ [][PoolNext]_poolVars
=============================================================================
