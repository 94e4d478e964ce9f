------------------------------ MODULE JobStore ------------------------------
(***************************************************************************)
(* The calls of RedisJobStore that move a job from state to state, for one *)
(* job, at the granularity of Redis round trips.  A job has two copies of  *)
(* its state: the runtime hash, authoritative once it exists, and the      *)
(* legacy keys (job:meta and the per-state indexes) the reconciler, the    *)
(* replayer and the query API read.  Lua scripts and WATCH/MULTI           *)
(* transactions are atomic; a call that makes several of them is not.      *)
(*                                                                         *)
(* A caller enters a call with Call* and leaves it at cont[p], or at       *)
(* "failed" when the store refuses the transition.                         *)
(***************************************************************************)
EXTENDS RuntimeFence

CONSTANTS
  Handlers,   \* goroutines that handle a submitted request
  Canceller,  \* the API or bus handler that cancels the job
  Reconciler, \* the reconciler's timeout pass
  Drainers,   \* consumers of the result outbox
  Auditor     \* the asynchronous output check

ASSUME ProcsAssumption ==
  /\ Handlers \cap Drainers = {}
  /\ {Canceller, Reconciler, Auditor} \cap (Handlers \cup Drainers) = {}
  /\ Canceller # Reconciler /\ Canceller # Auditor /\ Reconciler # Auditor

Procs == Handlers \cup Drainers \cup {Canceller, Reconciler, Auditor}

VARIABLES
  meta,    \* state field of job:meta, NoState before it is written
  indexed, \* the state indexes (sorted sets) that list the job
  pc,      \* where each process is
  target,  \* the state a process is writing
  cont,    \* where the process goes on after the call
  seen     \* the job:meta state a process read before migrating the fence

legacy == <<meta, indexed>>
calls  == <<pc, target, cont, seen>>

\* GetState: the runtime hash first, then job:meta.
GetState == IF state # NoState THEN state ELSE meta

RuntimeExists == state # NoState

Goto(p, label) == pc' = [pc EXCEPT ![p] = label]

Enter(p, label, s, then) ==
  /\ Goto(p, label)
  /\ target' = [target EXCEPT ![p] = s]
  /\ cont' = [cont EXCEPT ![p] = then]
  /\ UNCHANGED seen

Stay == UNCHANGED <<target, cont, seen>>

\* The fields of job:meta, the state indexes and the arguments of the calls in
\* progress hold job states and nothing else.
StoreTypeOK ==
  /\ TypeOK
  /\ meta \in JobState \cup {NoState}
  /\ indexed \subseteq JobState
  /\ target \in [Procs -> JobState \cup {NoState}]
  /\ seen \in [Procs -> JobState \cup {NoState}]

StoreInit ==
  /\ Init
  /\ meta = NoState
  /\ indexed = {}
  /\ pc = [p \in Procs |-> "idle"]
  /\ target = [p \in Procs |-> NoState]
  /\ cont = [p \in Procs |-> "idle"]
  /\ seen = [p \in Procs |-> NoState]

-----------------------------------------------------------------------------
(* SetState: EXISTS, the transition script, HGET, SetStateWithContext.     *)

CallSetState(p, s, then) == Enter(p, "exists", s, then)

SetStateExists(p) ==
  /\ pc[p] = "exists"
  /\ Goto(p, IF RuntimeExists THEN "script" ELSE "legacy")
  /\ Stay /\ UNCHANGED <<vars, legacy>>

\* Mutant: the script writes the target without looking at the table.
SetStateUnchecked(p) ==
  /\ pc[p] = "script"
  /\ state' = target[p]
  /\ Goto(p, "hget")
  /\ Stay
  /\ UNCHANGED <<attempt, fence, events, effects, accepted, issued, applied,
                 legacy>>

SetStateScript(p) ==
  /\ pc[p] = "script"
  /\ \/ /\ state = target[p]
        /\ Goto(p, "hget")
        /\ UNCHANGED vars
     \/ /\ state # target[p]
        /\ TransitionRuntimeState(target[p])
        /\ Goto(p, "hget")
     \/ /\ state # target[p]
        /\ ~isAllowedTransition(state, target[p])
        /\ Goto(p, "failed")
        /\ UNCHANGED vars
  /\ Stay /\ UNCHANGED legacy

SetStateHGet(p) ==
  /\ pc[p] = "hget"
  /\ Goto(p, IF meta = target[p] THEN cont[p] ELSE "legacy")
  /\ Stay /\ UNCHANGED <<vars, legacy>>

\* SetStateWithContext: its own check of the table, against job:meta.
SetStateWithContext(p) ==
  /\ pc[p] = "legacy"
  /\ \/ /\ isAllowedTransition(meta, target[p])
        /\ meta' = target[p]
        /\ indexed' = (indexed \ {meta}) \cup {target[p]}
        /\ Goto(p, cont[p])
     \/ /\ ~isAllowedTransition(meta, target[p])
        /\ Goto(p, "failed")
        /\ UNCHANGED legacy
  /\ Stay /\ UNCHANGED vars

-----------------------------------------------------------------------------
(* ProjectJobResult: unconditional writes, one key after the other.        *)

CallProject(p, s, then) == Enter(p, "project", s, then)

ProjectMeta(p) ==
  /\ pc[p] = "project"
  /\ meta' = target[p]
  /\ Goto(p, "project_zrem")
  /\ Stay /\ UNCHANGED <<vars, indexed>>

ProjectZRem(p) ==
  /\ pc[p] = "project_zrem"
  /\ indexed' = indexed \cap {target[p]}
  /\ Goto(p, "project_zadd")
  /\ Stay /\ UNCHANGED <<vars, meta>>

ProjectZAdd(p) ==
  /\ pc[p] = "project_zadd"
  /\ indexed' = indexed \cup {target[p]}
  /\ Goto(p, cont[p])
  /\ Stay /\ UNCHANGED <<vars, meta>>

-----------------------------------------------------------------------------
(* migrateRuntimeFence: HGETALL of job:meta, then HSETNX of what was read. *)

MigrateRead(p, from, to) ==
  /\ pc[p] = from
  /\ seen' = [seen EXCEPT ![p] = meta]
  /\ Goto(p, to)
  /\ UNCHANGED <<vars, legacy, target, cont>>

\* Mutant: HSET instead of HSETNX.
MigrateOverwrites(p, from, to) ==
  /\ pc[p] = from
  /\ state' = seen[p]
  /\ Goto(p, to)
  /\ Stay
  /\ UNCHANGED <<attempt, fence, events, effects, accepted, issued, applied,
                 legacy>>

MigrateWrite(p, from, to) ==
  /\ pc[p] = from
  /\ \/ seen[p] # NoState /\ Migrate(seen[p])
     \/ (seen[p] = NoState \/ RuntimeExists) /\ UNCHANGED vars
  /\ Goto(p, to)
  /\ Stay /\ UNCHANGED legacy

-----------------------------------------------------------------------------
(* CancelJob and CancelAllJobAttempts.                                     *)

CallCancelJob(p, then)         == Enter(p, "cancel", NoState, then)
CallCancelAllAttempts(p, then) == Enter(p, "cancel_read", NoState, then)

CancelJobExists(p) ==
  /\ pc[p] = "cancel"
  /\ Goto(p, IF RuntimeExists THEN "cancel_read" ELSE "cancel_meta")
  /\ Stay /\ UNCHANGED <<vars, legacy>>

\* The transaction on job:meta of a job that had no runtime hash.  target
\* records the state the call returns.
CancelJobMeta(p) ==
  /\ pc[p] = "cancel_meta"
  /\ \/ /\ meta = NoState
        /\ Goto(p, "idle")
        /\ UNCHANGED <<legacy, target>>
     \/ /\ meta \in terminalStates
        /\ target' = [target EXCEPT ![p] = meta]
        /\ Goto(p, cont[p])
        /\ UNCHANGED legacy
     \/ /\ isActiveState(meta)
        /\ meta' = "CANCELLED"
        /\ indexed' = (indexed \ {meta}) \cup {"CANCELLED"}
        /\ target' = [target EXCEPT ![p] = "CANCELLED"]
        /\ Goto(p, cont[p])
  /\ UNCHANGED <<vars, cont, seen>>

\* Mutant: the answer of the script is not projected.
CancelUnprojected(p) ==
  /\ pc[p] = "cancel_script"
  /\ \/ /\ CancelAllJobAttempts
        /\ target' = [target EXCEPT ![p] = "CANCELLED"]
     \/ /\ state \in cancelRefused
        /\ target' = [target EXCEPT ![p] = state]
        /\ UNCHANGED vars
  /\ Goto(p, cont[p])
  /\ UNCHANGED <<legacy, cont, seen>>

\* The script, then the projection of the state it answered.
CancelScript(p) ==
  /\ pc[p] = "cancel_script"
  /\ \/ /\ CancelAllJobAttempts
        /\ target' = [target EXCEPT ![p] = "CANCELLED"]
     \/ /\ state \in cancelRefused
        /\ target' = [target EXCEPT ![p] = state]
        /\ UNCHANGED vars
  /\ Goto(p, "project")
  /\ UNCHANGED <<legacy, cont, seen>>

StoreStep(p) ==
  \/ SetStateExists(p) \/ SetStateScript(p)
  \/ SetStateHGet(p) \/ SetStateWithContext(p)
  \/ ProjectMeta(p) \/ ProjectZRem(p) \/ ProjectZAdd(p)
  \/ CancelJobExists(p) \/ CancelJobMeta(p)
  \/ MigrateRead(p, "cancel_read", "cancel_migrate")
  \/ MigrateWrite(p, "cancel_migrate", "cancel_script")
  \/ CancelScript(p)
=============================================================================
