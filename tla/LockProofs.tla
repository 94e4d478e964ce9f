----------------------------- MODULE LockProofs -----------------------------
(***************************************************************************)
(* The two locks of the system.  First the lock around a job, JobLock, for *)
(* any number of handlers and acquisitions and any renewal interval longer *)
(* than two call timeouts.                                                 *)
(*                                                                         *)
(* Then what the resource lock store promises, ResourceLocks, for any      *)
(* number of sessions, any times to live and any number of holds.  Its     *)
(* inductive invariant adds to the types that what a session was told runs *)
(* no longer than the time it asks for, and that the key outlives what an  *)
(* exclusive owner was told.                                               *)
(***************************************************************************)
EXTENDS JobLock, ResourceLocks, TLAPS

\* Tokens are fresh: two handlers never hold the same one.
TokensAreFresh ==
  /\ key <= issued
  /\ \A h \in Handlers :
       /\ token[h] <= issued
       /\ pc[h] # "idle" => token[h] # NoToken
  /\ \A g, h \in Handlers : g # h /\ token[g] = token[h] => token[g] = NoToken

\* Ticks since Redis last wrote or extended the key for h.
Elapsed(h) == IF key = token[h] THEN TTL - ttl ELSE TTL + lost[h]

Intervals(n) == IF n = 0 THEN 0 ELSE IF n = 1 THEN Interval ELSE 2 * Interval

\* How far the renewal schedule and the expiry of the key can drift apart.
Drift(h) ==
  /\ pc[h] = "acquiring" => key = token[h] /\ TTL - ttl <= OpTimeout - wait[h]
  /\ renewal[h] # "none" =>
       Renewing(h) /\ timer[h] = Interval - OpTimeout + wait[h]
  /\ Renewing(h) =>
       /\ failures[h] <= 2
       /\ key = token[h] => lost[h] = 0
       /\ renewal[h] = "none" =>
            Elapsed(h) <= OpTimeout + Intervals(failures[h]) + Interval - timer[h]
       /\ renewal[h] # "none" =>
            Elapsed(h) <= OpTimeout + Intervals(failures[h]) + 2 * Interval - timer[h]
       /\ renewal[h] = "renewed" =>
            key = token[h] /\ TTL - ttl <= Interval - timer[h]
  /\ lost[h] <= 2 * OpTimeout

LockInv == LockTypeOK /\ TokensAreFresh /\ \A h \in Handlers : Drift(h)

\* The arithmetic of the renewal loop that the timing assumption gives.
LEMMA Constants ==
  /\ Interval \in Nat /\ OpTimeout \in Nat /\ MaxTokens \in Nat
  /\ OpTimeout > 0 /\ 2 * OpTimeout < Interval
  /\ TTL \in Nat /\ TTL = 3 * Interval
  <1>1. OpTimeout > 0
    BY TimingAssumption
  <1>2. TTL \in Nat
    BY TimingAssumption DEF TTL
  <1> QED
    BY Zenon, <1>1, <1>2, TimingAssumption DEF TTL

\* The lock starts free and nobody is in the critical section.
LEMMA LockInvInit == LockInit => LockInv
  BY Constants
  DEF LockInit, LockInv, LockTypeOK, TokensAreFresh, Drift, Renewing, NoToken,
      maxRenewalFailures

\* Every call, every answer and every tick of the clock keeps the invariant.
LEMMA LockInvStep == LockInv /\ [LockNext]_lvars => LockInv'
  <1> SUFFICES ASSUME LockInv, [LockNext]_lvars
               PROVE  LockInv'
      BY Zenon
  <1> USE Constants DEF LockInv, NoToken, Set, redis
  <1>1. ASSUME NEW h \in Handlers, TryAcquireLock(h)
        PROVE  LockInv'
    <2> USE <1>1 DEF TryAcquireLock
    <2>1. LockTypeOK'
      BY DEF LockTypeOK, Drift, Renewing, maxRenewalFailures
    <2>2. TokensAreFresh'
      BY DEF LockTypeOK, TokensAreFresh
    <2>3. \A g \in Handlers : Drift(g)'
      BY DEF LockTypeOK, TokensAreFresh, Drift, Renewing, Elapsed, Intervals,
             maxRenewalFailures
    <2> QED BY Zenon, <2>1, <2>2, <2>3
  <1>2. ASSUME NEW h \in Handlers, AcquireReturns(h)
        PROVE  LockInv'
    <2> USE <1>2 DEF AcquireReturns
    <2>1. LockTypeOK'
      BY DEF LockTypeOK, Drift, Renewing, maxRenewalFailures
    <2>2. TokensAreFresh'
      BY Zenon DEF LockTypeOK, TokensAreFresh
    <2>3. \A g \in Handlers : Drift(g)'
      BY DEF LockTypeOK, TokensAreFresh, Drift, Renewing, Elapsed, Intervals,
             maxRenewalFailures
    <2> QED BY Zenon, <2>1, <2>2, <2>3
  <1>3. ASSUME NEW h \in Handlers, AcquireFails(h)
        PROVE  LockInv'
    <2> USE <1>3 DEF AcquireFails
    <2>1. LockTypeOK'
      BY Zenon DEF LockTypeOK, Drift, Renewing, maxRenewalFailures
    <2>2. TokensAreFresh'
      BY Zenon DEF LockTypeOK, TokensAreFresh
    <2>3. \A g \in Handlers : Drift(g)'
      BY DEF LockTypeOK, TokensAreFresh, Drift, Renewing, Elapsed, Intervals,
             maxRenewalFailures
    <2> QED BY Zenon, <2>1, <2>2, <2>3
  <1>4. ASSUME NEW h \in Handlers, RenewSent(h)
        PROVE  LockInv'
    <2> USE <1>4 DEF RenewSent
    <2>1. LockTypeOK'
      BY DEF LockTypeOK, Drift, Renewing, maxRenewalFailures
    <2>2. TokensAreFresh'
      BY Zenon DEF LockTypeOK, TokensAreFresh
    <2>3. \A g \in Handlers : Drift(g)'
      BY DEF LockTypeOK, TokensAreFresh, Drift, Renewing, Elapsed, Intervals,
             maxRenewalFailures
    <2> QED BY Zenon, <2>1, <2>2, <2>3
  <1>5. ASSUME NEW h \in Handlers, RenewLock(h)
        PROVE  LockInv'
    <2> USE <1>5 DEF RenewLock
    <2>1. LockTypeOK'
      BY DEF LockTypeOK, TokensAreFresh, Drift, Renewing, maxRenewalFailures
    <2>2. TokensAreFresh'
      BY Zenon DEF LockTypeOK, TokensAreFresh
    <2>3. \A g \in Handlers : Drift(g)'
      BY DEF LockTypeOK, TokensAreFresh, Drift, Renewing, Elapsed, Intervals,
             maxRenewalFailures
    <2> QED BY Zenon, <2>1, <2>2, <2>3
  <1>6. ASSUME NEW h \in Handlers, RenewReturns(h)
        PROVE  LockInv'
    <2> USE <1>6 DEF RenewReturns
    <2>1. LockTypeOK'
      BY DEF LockTypeOK, Drift, Renewing, maxRenewalFailures
    <2>2. TokensAreFresh'
      BY Zenon DEF LockTypeOK, TokensAreFresh
    <2>3. \A g \in Handlers : Drift(g)'
      BY DEF LockTypeOK, TokensAreFresh, Drift, Renewing, Elapsed, Intervals,
             maxRenewalFailures
    <2> QED BY Zenon, <2>1, <2>2, <2>3
  <1>7. ASSUME NEW h \in Handlers, RenewFails(h)
        PROVE  LockInv'
    <2> USE <1>7 DEF RenewFails
    <2>1. LockTypeOK'
      BY DEF LockTypeOK, Drift, Renewing, maxRenewalFailures
    <2>2. TokensAreFresh'
      BY Zenon DEF LockTypeOK, TokensAreFresh
    <2>3. \A g \in Handlers : Drift(g)'
      BY DEF LockTypeOK, TokensAreFresh, Drift, Renewing, Elapsed, Intervals,
             maxRenewalFailures
    <2> QED BY Zenon, <2>1, <2>2, <2>3
  <1>8. ASSUME NEW h \in Handlers, Leave(h)
        PROVE  LockInv'
    <2> USE <1>8 DEF Leave
    <2>1. LockTypeOK'
      BY Zenon DEF LockTypeOK, Drift, Renewing, maxRenewalFailures
    <2>2. TokensAreFresh'
      BY Zenon DEF LockTypeOK, TokensAreFresh
    <2>3. \A g \in Handlers : Drift(g)'
      BY DEF LockTypeOK, TokensAreFresh, Drift, Renewing, Elapsed, Intervals,
             maxRenewalFailures
    <2> QED BY Zenon, <2>1, <2>2, <2>3
  <1>9. ASSUME NEW h \in Handlers, ReleaseLock(h)
        PROVE  LockInv'
    <2> USE <1>9 DEF ReleaseLock
    <2>1. LockTypeOK'
      BY DEF LockTypeOK, Drift, Renewing, maxRenewalFailures
    <2>2. TokensAreFresh'
      BY DEF LockTypeOK, TokensAreFresh
    <2>3. \A g \in Handlers : Drift(g)'
      BY DEF LockTypeOK, TokensAreFresh, Drift, Renewing, Elapsed, Intervals,
             maxRenewalFailures
    <2> QED BY Zenon, <2>1, <2>2, <2>3
  <1>10. ASSUME NEW h \in Handlers, ReleaseFails(h)
        PROVE  LockInv'
    <2> USE <1>10 DEF ReleaseFails
    <2>1. LockTypeOK'
      BY Zenon DEF LockTypeOK, Drift, Renewing, maxRenewalFailures
    <2>2. TokensAreFresh'
      BY Zenon DEF LockTypeOK, TokensAreFresh
    <2>3. \A g \in Handlers : Drift(g)'
      BY DEF LockTypeOK, TokensAreFresh, Drift, Renewing, Elapsed, Intervals,
             maxRenewalFailures
    <2> QED BY Zenon, <2>1, <2>2, <2>3
  <1>11. CASE Tick
    <2> USE <1>11 DEF Tick
    <2>1. LockTypeOK'
      BY DEF LockTypeOK, Less
    <2>2. TokensAreFresh'
      BY DEF LockTypeOK, TokensAreFresh, Less
    <2>3. \A g \in Handlers : Drift(g)'
      BY DEF LockTypeOK, TokensAreFresh, Drift, Renewing, Elapsed, Intervals,
             Due, Less
    <2> QED BY Zenon, <2>1, <2>2, <2>3
  <1>12. CASE UNCHANGED lvars
    BY Zenon, <1>12 DEF lvars, local, LockTypeOK, TokensAreFresh, Drift, Renewing, Elapsed
  <1> QED
    BY Zenon, <1>1, <1>2, <1>3, <1>4, <1>5, <1>6, <1>7, <1>8, <1>9, <1>10, <1>11, <1>12 DEF LockNext

\* Every reachable state of the lock satisfies the inductive invariant.
THEOREM LockInvariant == LockSpec => []LockInv
  BY LockInvInit, LockInvStep, PTL DEF LockSpec

\* The variables of the lock keep their types.
THEOREM LockTypeCorrect == LockSpec => []LockTypeOK
  <1>1. LockInv => LockTypeOK
    BY Zenon DEF LockInv
  <1> QED
    BY <1>1, LockInvariant, PTL

\* withJobLock never works unfenced without the key for more than two call
\* timeouts, for every interval, timeout and number of handlers.
THEOREM OverlapBound == LockSpec => []OverlapIsBounded
  <1>1. LockInv => OverlapIsBounded
    BY Zenon DEF LockInv, Drift, OverlapIsBounded
  <1> QED
    BY <1>1, LockInvariant, PTL

\* Before its last tolerated renewal failure a handler owns the key.
THEOREM OwnershipHolds == LockSpec => []OwnedUntilLastFailure
  <1>1. LockInv => OwnedUntilLastFailure
    BY Constants
    DEF LockInv, LockTypeOK, Drift, Elapsed, Intervals, Renewing,
        OwnedUntilLastFailure, maxRenewalFailures
  <1> QED
    BY <1>1, LockInvariant, PTL

\* releaseLockScript and renewLockScript never take the key from another
\* handler.
THEOREM ReleaseIsSafe == LockSpec => OnlyOwnerReleases
  <1>1. LockInv /\ [LockNext]_lvars =>
          [key # NoToken /\ key' # key =>
             \/ ttl = 1 /\ ttl' = 0
             \/ \E h \in Handlers : token[h] = key /\ pc[h] = "releasing"]_lvars
    <2> SUFFICES ASSUME LockInv, LockNext, key # NoToken, key' # key
                 PROVE  \/ ttl = 1 /\ ttl' = 0
                        \/ \E h \in Handlers :
                             token[h] = key /\ pc[h] = "releasing"
        BY Zenon
    <2>1. CASE Tick
      BY <2>1, Constants DEF Tick, Less, LockInv, LockTypeOK
    <2>2. CASE \E h \in Handlers : ReleaseLock(h)
      BY Zenon, <2>2 DEF ReleaseLock
    <2>3. ASSUME NEW h \in Handlers,
                 \/ TryAcquireLock(h) \/ AcquireReturns(h) \/ AcquireFails(h)
                 \/ RenewSent(h) \/ RenewLock(h) \/ RenewReturns(h)
                 \/ RenewFails(h) \/ Leave(h) \/ ReleaseFails(h)
          PROVE  FALSE
      BY Zenon, <2>3 DEF TryAcquireLock, AcquireReturns, AcquireFails, RenewSent,
        RenewLock, RenewReturns, RenewFails, Leave, ReleaseFails, redis
    <2> QED
      BY Zenon, <2>1, <2>2, <2>3 DEF LockNext
  <1> QED
    BY <1>1, LockInvariant, PTL DEF LockSpec, OnlyOwnerReleases

-----------------------------------------------------------------------------
(* The resource lock store.                                                *)

Same == \A o, p \in Sessions : lease[o] = lease[p]

\* The key backs what session o was told.
Backed(o) ==
  /\ lock.owners[o] >= holds[o]
  /\ lock.left >= told[o].left
  /\ told[o].mode = "exclusive" => lock.mode = "exclusive"

LocksInv ==
  /\ LocksTypeOK
  /\ \A o \in Sessions : told[o].left <= lease[o]
  /\ \A o \in Sessions :
       Believes(o) /\ (told[o].mode = "exclusive" \/ Same) => Backed(o)

\* The type of the lock, field by field.
LockShape(l) ==
  /\ l = [mode |-> l.mode, owners |-> l.owners, left |-> l.left]
  /\ l.mode \in Modes
  /\ l.owners \in [Sessions -> Nat]
  /\ l.left \in 0..MaxTTL

\* A lock of that shape with time left just when it has an owner, and one owner
\* when it is exclusive.
GoodLock(l) ==
  /\ LockShape(l)
  /\ (\A o \in Sessions : l.owners[o] = 0) <=> l.left = 0
  /\ l.mode = "exclusive" =>
       \A o, p \in Sessions : l.owners[o] > 0 /\ l.owners[p] > 0 => o = p

\* The type invariant says that the lock is good.
LEMMA TypeIsGood ==
  LocksTypeOK <=>
    /\ lease \in [Sessions -> 1..MaxTTL]
    /\ GoodLock(lock)
    /\ holds \in [Sessions -> Nat]
    /\ told \in [Sessions -> [mode : Modes, left : 0..MaxTTL]]
  BY DEF LocksTypeOK, GoodLock, LockShape, Free, OwnersOf

\* acquireScript keeps a lock good.
LEMMA AcquiredIsGood ==
  ASSUME NEW l, GoodLock(l), NEW o \in Sessions, NEW mode \in Modes, NEW t \in 1..MaxTTL,
         Grantable(l, o, mode)
  PROVE  /\ GoodLock(Acquired(l, o, mode, t))
         /\ Acquired(l, o, mode, t).left = t
         /\ Acquired(l, o, mode, t).owners[o] = l.owners[o] + 1
         /\ \A p \in Sessions \ {o} : Acquired(l, o, mode, t).owners[p] = l.owners[p]
         /\ l.mode = "exclusive" /\ l.left # 0 =>
              /\ Acquired(l, o, mode, t).mode = "exclusive"
              /\ \A p \in Sessions \ {o} : l.owners[p] = 0
<1> DEFINE a == Acquired(l, o, mode, t)
<1>1. a = [mode |-> IF ~Free(l) /\ l.mode = "exclusive" THEN "exclusive" ELSE mode,
           owners |-> [l.owners EXCEPT ![o] = @ + 1], left |-> t]
  BY Zenon DEF Acquired
<1>2. /\ a.left = t
      /\ a.owners[o] = l.owners[o] + 1
      /\ \A p \in Sessions \ {o} : a.owners[p] = l.owners[p]
      /\ a.owners \in [Sessions -> Nat]
      /\ a.mode \in Modes
  BY <1>1, LocksAssumption DEF GoodLock, LockShape, Modes
<1>3. Free(l) <=> \A p \in Sessions : l.owners[p] = 0
  BY DEF GoodLock, LockShape, Free, OwnersOf
<1>4. OwnersOf(l) = {o} => \A p \in Sessions \ {o} : l.owners[p] = 0
  BY DEF GoodLock, LockShape, OwnersOf
<1>5. a.mode = "exclusive" => \A p \in Sessions \ {o} : l.owners[p] = 0
  BY <1>1, <1>3, <1>4 DEF Grantable, GoodLock, LockShape, Modes
<1>6. l.mode = "exclusive" /\ l.left # 0 => a.mode = "exclusive"
  BY <1>1, <1>3 DEF GoodLock
<1>7. GoodLock(a)
  BY <1>1, <1>2, <1>5, LocksAssumption DEF GoodLock, LockShape
<1> QED
  BY Zenon, <1>2, <1>5, <1>6, <1>7

\* releaseScript keeps a lock good, and touches no other owner.
LEMMA ReleasedIsGood ==
  ASSUME NEW l, GoodLock(l), NEW o \in Sessions
  PROVE  /\ GoodLock(Released(l, o))
         /\ Released(l, o).owners[o] =
              IF l.owners[o] = 0 THEN 0 ELSE l.owners[o] - 1
         /\ \A p \in Sessions \ {o} : Released(l, o).owners[p] = l.owners[p]
         /\ Released(l, o).left # 0 =>
              Released(l, o).left = l.left /\ Released(l, o).mode = l.mode
<1> DEFINE r == Released(l, o)
           owners == [l.owners EXCEPT ![o] = @ - 1]
<1>1. CASE l.owners[o] = 0
  <2>1. r = l
    BY Zenon, <1>1 DEF Released
  <2> QED
    BY Zenon, <1>1, <2>1
<1>2. CASE l.owners[o] # 0
  <2>1. /\ owners \in [Sessions -> Nat]
        /\ owners[o] = l.owners[o] - 1
        /\ \A p \in Sessions \ {o} : owners[p] = l.owners[p]
        /\ DOMAIN owners = Sessions
        /\ l.left # 0
    BY <1>2 DEF GoodLock, LockShape
  <2>2. CASE \A p \in Sessions : owners[p] = 0
    <3>1. r = [mode |-> "exclusive", owners |-> [p \in Sessions |-> 0], left |-> 0]
      BY Zenon, <1>2, <2>1, <2>2 DEF Released, Unlocked
    <3> QED
      BY <1>2, <2>1, <2>2, <3>1, LocksAssumption DEF GoodLock, LockShape, Modes
  <2>3. CASE ~\A p \in Sessions : owners[p] = 0
    <3>1. r = [l EXCEPT !.owners = owners]
      BY Zenon, <1>2, <2>1, <2>3 DEF Released
    <3>2. r = [mode |-> l.mode, owners |-> owners, left |-> l.left]
      BY Zenon, <3>1 DEF GoodLock, LockShape
    <3>3. GoodLock(r)
      BY <2>1, <2>3, <3>2 DEF GoodLock, LockShape
    <3> QED
      BY <1>2, <2>1, <3>2, <3>3
  <2> QED
    BY Zenon, <2>2, <2>3
<1> QED
  BY Zenon, <1>1, <1>2

\* renewScript gives an owner's key new time and changes nothing else.
LEMMA RenewedIsGood ==
  ASSUME NEW l, GoodLock(l), NEW o \in Sessions, NEW t \in 1..MaxTTL
  PROVE  /\ GoodLock(Renewed(l, o, t))
         /\ Renewed(l, o, t).owners = l.owners
         /\ Renewed(l, o, t).mode = l.mode
         /\ Renewed(l, o, t).left = IF l.owners[o] = 0 THEN l.left ELSE t
<1>1. CASE l.owners[o] = 0
  BY Zenon, <1>1 DEF Renewed
<1>2. CASE l.owners[o] # 0
  <2>1. Renewed(l, o, t) = [mode |-> l.mode, owners |-> l.owners, left |-> t]
    BY Zenon, <1>2 DEF Renewed, GoodLock, LockShape
  <2> QED
    BY <1>2, <2>1, LocksAssumption DEF GoodLock, LockShape
<1> QED
  BY Zenon, <1>1, <1>2

\* Time takes one unit from a key, and the owners with the last one.
LEMMA AgedIsGood ==
  ASSUME NEW l, GoodLock(l)
  PROVE  /\ GoodLock(Aged(l))
         /\ Aged(l).left = IF l.left = 0 THEN 0 ELSE l.left - 1
         /\ Aged(l).left # 0 => Aged(l).owners = l.owners /\ Aged(l).mode = l.mode
<1>1. CASE l.left = 1
  <2>1. Aged(l) = [mode |-> "exclusive", owners |-> [p \in Sessions |-> 0], left |-> 0]
    BY Zenon, <1>1 DEF Aged, Unlocked, GoodLock, LockShape
  <2> QED
    BY <1>1, <2>1, LocksAssumption DEF GoodLock, LockShape, Modes
<1>2. CASE l.left # 1
  <2>1. Aged(l) = [mode |-> l.mode, owners |-> l.owners,
                   left |-> IF l.left = 0 THEN 0 ELSE l.left - 1]
    BY Zenon, <1>2 DEF Aged, GoodLock, LockShape
  <2> QED
    BY <1>2, <2>1, LocksAssumption DEF GoodLock, LockShape
<1> QED
  BY Zenon, <1>1, <1>2

-----------------------------------------------------------------------------
\* What is true at first.
LEMMA LocksInitOK == LocksInit => LocksInv
<1> SUFFICES ASSUME LocksInit PROVE LocksInv
  BY Zenon
<1>1. lock = [mode |-> "exclusive", owners |-> [o \in Sessions |-> 0], left |-> 0]
  BY Zenon DEF LocksInit, Unlocked
<1>2. GoodLock(lock)
  BY <1>1, LocksAssumption DEF GoodLock, LockShape, Modes
<1>3. LocksTypeOK
  BY <1>2, TypeIsGood, LocksAssumption DEF LocksInit, Modes
<1> QED
  BY <1>3, LocksAssumption DEF LocksInit, LocksInv, Believes

\* A session that is answered is backed by the key, and so is every other one
\* that was.
LEMMA AcquireKeeps ==
  ASSUME LocksInv, NEW o \in Sessions, NEW mode \in Modes, Acquire(o, mode)
  PROVE  LocksInv'
<1>1. /\ lease \in [Sessions -> 1..MaxTTL] /\ GoodLock(lock)
      /\ holds \in [Sessions -> Nat]
      /\ told \in [Sessions -> [mode : Modes, left : 0..MaxTTL]]
  BY Zenon, TypeIsGood DEF LocksInv
<1>2. /\ GoodLock(lock') /\ lock'.left = lease[o]
      /\ lock'.owners[o] = lock.owners[o] + 1
      /\ \A p \in Sessions \ {o} : lock'.owners[p] = lock.owners[p]
      /\ lock.mode = "exclusive" /\ lock.left # 0 =>
           /\ lock'.mode = "exclusive"
           /\ \A p \in Sessions \ {o} : lock.owners[p] = 0
  BY <1>1, AcquiredIsGood DEF Acquire
<1>3. /\ lease' = lease
      /\ \A p \in Sessions \ {o} : holds'[p] = holds[p] /\ told'[p] = told[p]
      /\ \/ /\ holds'[o] = lock'.owners[o] /\ told'[o].mode = lock'.mode
            /\ told'[o].left = lock'.left
         \/ holds'[o] = holds[o] /\ told'[o] = told[o]
  BY <1>1 DEF Acquire, Answer
<1>4. LocksTypeOK'
  <2>1. /\ holds' \in [Sessions -> Nat]
        /\ told' \in [Sessions -> [mode : Modes, left : 0..MaxTTL]]
    BY <1>1, <1>2 DEF Acquire, Answer, GoodLock, LockShape
  <2> QED
    BY <1>1, <1>2, <1>3, <2>1 DEF LocksTypeOK, GoodLock, LockShape, Free, OwnersOf
<1>5. \A p \in Sessions : told'[p].left <= lease'[p]
  BY <1>1, <1>2, <1>3 DEF LocksInv
<1>6. ASSUME NEW p \in Sessions, Believes(p)', told'[p].mode = "exclusive" \/ Same'
      PROVE  Backed(p)'
  BY <1>1, <1>2, <1>3, <1>6 DEF LocksInv, Believes, Backed, Same, GoodLock, LockShape
<1> QED
  BY Zenon, <1>4, <1>5, <1>6 DEF LocksInv

\* A release takes one hold of its own session.
LEMMA ReleaseKeeps ==
  ASSUME LocksInv, NEW o \in Sessions, Release(o)
  PROVE  LocksInv'
<1>1. /\ lease \in [Sessions -> 1..MaxTTL] /\ GoodLock(lock)
      /\ holds \in [Sessions -> Nat]
      /\ told \in [Sessions -> [mode : Modes, left : 0..MaxTTL]]
  BY Zenon, TypeIsGood DEF LocksInv
<1>2. /\ GoodLock(lock')
      /\ lock'.owners[o] >= lock.owners[o] - 1
      /\ \A p \in Sessions \ {o} : lock'.owners[p] = lock.owners[p]
      /\ lock'.left # 0 => lock'.left = lock.left /\ lock'.mode = lock.mode
  BY <1>1, ReleasedIsGood DEF Release, GoodLock, LockShape
<1>3. /\ lease' = lease /\ told' = told
      /\ holds[o] > 0 /\ holds'[o] = holds[o] - 1
      /\ \A p \in Sessions \ {o} : holds'[p] = holds[p]
      /\ holds' \in [Sessions -> Nat]
  BY <1>1 DEF Release
<1>4. LocksTypeOK'
  BY <1>1, <1>2, <1>3 DEF LocksTypeOK, GoodLock, LockShape, Free, OwnersOf
<1>5. \A p \in Sessions : told'[p].left <= lease'[p]
  BY Zenon, <1>3 DEF LocksInv
<1>6. ASSUME NEW p \in Sessions, Believes(p)', told'[p].mode = "exclusive" \/ Same'
      PROVE  Backed(p)'
  <2>1. Believes(p) /\ Backed(p)
    BY Zenon, <1>1, <1>3, <1>6 DEF LocksInv, Believes, Same
  <2>2. lock'.owners[p] >= holds'[p] /\ holds'[p] > 0
    BY <1>1, <1>2, <1>3, <1>6, <2>1 DEF Believes, Backed, GoodLock, LockShape
  <2>3. lock'.left # 0
    BY <1>2, <2>2, <1>3 DEF GoodLock, LockShape
  <2> QED
    BY Zenon, <1>2, <1>3, <2>1, <2>2, <2>3 DEF Backed
<1> QED
  BY Zenon, <1>4, <1>5, <1>6 DEF LocksInv

\* A renewal gives the key the time of one of its owners.
LEMMA RenewKeeps ==
  ASSUME LocksInv, NEW o \in Sessions, Renew(o)
  PROVE  LocksInv'
<1>1. /\ lease \in [Sessions -> 1..MaxTTL] /\ GoodLock(lock)
      /\ holds \in [Sessions -> Nat]
      /\ told \in [Sessions -> [mode : Modes, left : 0..MaxTTL]]
  BY Zenon, TypeIsGood DEF LocksInv
<1>2. /\ GoodLock(lock') /\ lock'.owners = lock.owners /\ lock'.mode = lock.mode
      /\ lock'.left = IF lock.owners[o] = 0 THEN lock.left ELSE lease[o]
  BY <1>1, RenewedIsGood DEF Renew
<1>3. /\ lease' = lease
      /\ \A p \in Sessions \ {o} : holds'[p] = holds[p] /\ told'[p] = told[p]
      /\ \/ /\ lock.owners[o] > 0
            /\ holds'[o] = lock'.owners[o] /\ told'[o].mode = lock'.mode
            /\ told'[o].left = lock'.left
         \/ holds'[o] = 0 /\ told'[o] = told[o]
         \/ holds'[o] = holds[o] /\ told'[o] = told[o]
  BY <1>1 DEF Renew, Answer
<1>4. LocksTypeOK'
  <2>1. /\ holds' \in [Sessions -> Nat]
        /\ told' \in [Sessions -> [mode : Modes, left : 0..MaxTTL]]
    BY <1>1, <1>2 DEF Renew, Answer, GoodLock, LockShape
  <2> QED
    BY <1>1, <1>2, <1>3, <2>1 DEF LocksTypeOK, GoodLock, LockShape, Free, OwnersOf
<1>5. \A p \in Sessions : told'[p].left <= lease'[p]
  BY <1>1, <1>2, <1>3 DEF LocksInv
<1>6. ASSUME NEW p \in Sessions, Believes(p)', told'[p].mode = "exclusive" \/ Same'
      PROVE  Backed(p)'
  BY <1>1, <1>2, <1>3, <1>6 DEF LocksInv, Believes, Backed, Same, GoodLock, LockShape
<1> QED
  BY Zenon, <1>4, <1>5, <1>6 DEF LocksInv

\* Time passes for the key and for what the sessions were told alike.
LEMMA AgeKeeps ==
  ASSUME LocksInv, KeyAges
  PROVE  LocksInv'
<1>1. /\ lease \in [Sessions -> 1..MaxTTL] /\ GoodLock(lock)
      /\ holds \in [Sessions -> Nat]
      /\ told \in [Sessions -> [mode : Modes, left : 0..MaxTTL]]
  BY Zenon, TypeIsGood DEF LocksInv
<1>2. /\ GoodLock(lock')
      /\ lock'.left = IF lock.left = 0 THEN 0 ELSE lock.left - 1
      /\ lock'.left # 0 => lock'.owners = lock.owners /\ lock'.mode = lock.mode
  BY Zenon, <1>1, AgedIsGood DEF KeyAges
<1>3. /\ lease' = lease /\ holds' = holds
      /\ told' \in [Sessions -> [mode : Modes, left : 0..MaxTTL]]
      /\ \A p \in Sessions :
           /\ told'[p].mode = told[p].mode
           /\ told'[p].left = IF told[p].left = 0 THEN 0 ELSE told[p].left - 1
  BY <1>1, LocksAssumption DEF KeyAges
<1>4. LocksTypeOK'
  BY <1>1, <1>2, <1>3 DEF LocksTypeOK, GoodLock, LockShape, Free, OwnersOf
<1>5. \A p \in Sessions : told'[p].left <= lease'[p]
  BY <1>1, <1>3 DEF LocksInv
<1>6. ASSUME NEW p \in Sessions, Believes(p)', told'[p].mode = "exclusive" \/ Same'
      PROVE  Backed(p)'
  BY <1>1, <1>2, <1>3, <1>6 DEF LocksInv, Believes, Backed, Same, GoodLock, LockShape
<1> QED
  BY Zenon, <1>4, <1>5, <1>6 DEF LocksInv

\* Every step keeps the invariant.
LEMMA LocksStep == LocksInv /\ [Next]_vars => LocksInv'
<1> SUFFICES ASSUME LocksInv, [Next]_vars PROVE LocksInv'
  BY Zenon
<1>1. CASE UNCHANGED vars
  BY <1>1 DEF vars, LocksInv, LocksTypeOK, Free, OwnersOf, Believes, Backed, Same
<1> QED
  BY Zenon, <1>1, AcquireKeeps, ReleaseKeeps, RenewKeeps, AgeKeeps DEF Next

\* The invariant says what the runs check.
LEMMA InvIsEnough == LocksInv => LocksTypeOK /\ ExclusiveIsAlone /\ LeaseIsKept
<1> SUFFICES ASSUME LocksInv PROVE LocksTypeOK /\ ExclusiveIsAlone /\ LeaseIsKept
  BY Zenon
<1>1. GoodLock(lock) /\ holds \in [Sessions -> Nat]
  BY Zenon, TypeIsGood DEF LocksInv
<1>2. ASSUME NEW o \in Sessions, Believes(o), told[o].mode = "exclusive"
      PROVE  lock.mode = "exclusive" /\ OwnersOf(lock) = {o}
  <2>1. lock.mode = "exclusive" /\ lock.owners[o] > 0
    BY <1>1, <1>2 DEF LocksInv, Backed, Believes, GoodLock, LockShape
  <2> QED
    BY Zenon, <1>1, <2>1 DEF GoodLock, LockShape, OwnersOf
<1>3. LeaseIsKept
  BY Zenon DEF LocksInv, LeaseIsKept, Kept, Same, Backed
<1> QED
  BY Zenon, <1>2, <1>3 DEF LocksInv, ExclusiveIsAlone

-----------------------------------------------------------------------------
\* The records keep their types, and an exclusive lock has one owner.
THEOREM LocksAreTyped == Spec => []LocksTypeOK
  BY LocksInitOK, LocksStep, InvIsEnough, PTL DEF Spec

\* A session that was told it holds the lock exclusively is the only owner until
\* its time is over.
THEOREM ExclusionHolds == Spec => []ExclusiveIsAlone
  BY LocksInitOK, LocksStep, InvIsEnough, PTL DEF Spec

\* Sessions that all ask for the same time hold what they were told they hold.
THEOREM LeasesHold == Spec => []LeaseIsKept
  BY LocksInitOK, LocksStep, InvIsEnough, PTL DEF Spec
=============================================================================
