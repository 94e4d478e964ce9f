--------------------------- MODULE ResourceLocks ---------------------------
(***************************************************************************)
(* One resource lock of the gateway and the sessions that use it, through  *)
(* POST /api/v1/locks or from inside the gateway.  A session names itself  *)
(* as owner and always asks for the same time; it may hold the lock        *)
(* several times, and counts its holds by what the last answer said.  Any  *)
(* answer may be lost after the script has run, and any call before it.    *)
(***************************************************************************)
EXTENDS LockStore

CONSTANTS
  Sessions,   \* the owners
  MaxTTL,     \* the longest time a session asks for
  MaxHolds    \* bound on the holds of one session

ASSUME LocksAssumption == MaxTTL \in Nat \ {0} /\ MaxHolds \in Nat

VARIABLES
  lease,  \* the time each session asks for
  lock,   \* the lock in the store
  holds,  \* the holds the last answer named, less the releases since
  told    \* the mode the last answer named, and the time left of what it said

vars == <<lease, lock, holds, told>>

LocksInit ==
  /\ lease \in [Sessions -> 1..MaxTTL]
  /\ lock = Unlocked(Sessions)
  /\ holds = [o \in Sessions |-> 0]
  /\ told = [o \in Sessions |-> [mode |-> "shared", left |-> 0]]

\* What session o was told is still running.
Believes(o) == holds[o] > 0 /\ told[o].left > 0

\* The answer carries the lock as the script wrote it.
Answer(o) ==
  /\ holds' = [holds EXCEPT ![o] = lock'.owners[o]]
  /\ told' = [told EXCEPT ![o] = [mode |-> lock'.mode, left |-> lock'.left]]

\* Acquire.
Acquire(o, mode) ==
  /\ Grantable(lock, o, mode) /\ lock.owners[o] < MaxHolds
  /\ lock' = Acquired(lock, o, mode, lease[o])
  /\ Answer(o) \/ UNCHANGED <<holds, told>>
  /\ UNCHANGED lease

\* Release: whatever the answer, the session has given up one hold.  The call
\* may come after its time is over.
Release(o) ==
  /\ holds[o] > 0
  /\ holds' = [holds EXCEPT ![o] = @ - 1]
  /\ lock' \in {lock, Released(lock, o)}
  /\ UNCHANGED <<lease, told>>

\* Renew: an owner that is not there any more is told so.
Renew(o) ==
  /\ holds[o] > 0
  /\ lock' = Renewed(lock, o, lease[o])
  /\ \/ lock.owners[o] > 0 /\ Answer(o)
     \/ lock.owners[o] = 0 /\ holds' = [holds EXCEPT ![o] = 0] /\ UNCHANGED told
     \/ UNCHANGED <<holds, told>>
  /\ UNCHANGED lease

\* Time passes.
KeyAges ==
  /\ lock' = Aged(lock)
  /\ told' = [o \in Sessions |->
                [told[o] EXCEPT !.left = IF @ = 0 THEN 0 ELSE @ - 1]]
  /\ UNCHANGED <<lease, holds>>

Next ==
  \/ \E o \in Sessions : (\E mode \in Modes : Acquire(o, mode)) \/ Release(o) \/ Renew(o)
  \/ KeyAges

Spec == LocksInit /\ [][Next]_vars
FairSpec == Spec /\ WF_vars(KeyAges)

-----------------------------------------------------------------------------
\* Every record has its type; a lock has time left just when it has an owner,
\* and an exclusive lock has one owner.
LocksTypeOK ==
  /\ lease \in [Sessions -> 1..MaxTTL]
  /\ lock \in [mode : Modes, owners : [Sessions -> Nat], left : 0..MaxTTL]
  /\ holds \in [Sessions -> Nat]
  /\ told \in [Sessions -> [mode : Modes, left : 0..MaxTTL]]
  /\ Free(lock) = (lock.left = 0)
  /\ lock.mode = "exclusive" =>
       \A o, p \in Sessions : lock.owners[o] > 0 /\ lock.owners[p] > 0 => o = p

\* A session that was told it holds the lock exclusively, and whose time is not
\* over, is the only owner: whatever answers were lost, however late a release
\* comes, and whatever times the other sessions ask for.
ExclusiveIsAlone ==
  \A o \in Sessions :
    Believes(o) /\ told[o].mode = "exclusive" =>
      lock.mode = "exclusive" /\ OwnersOf(lock) = {o}

\* A session that was told it holds the lock, shared or not, holds it until its
\* time is over, at least as often as it believes.
Kept == \A o \in Sessions : Believes(o) => lock.owners[o] >= holds[o]

\* When every session asks for the same time, what a session was told is true.
LeaseIsKept == (\A o, p \in Sessions : lease[o] = lease[p]) => Kept

\* A lock nobody calls for any more is freed, although answers and releases
\* were lost: releaseScript and acquireScript never leave a key without a time.
FreesItself == (<>[][KeyAges]_vars) => []<>Free(lock)
=============================================================================
