------------------------------ MODULE JobLock ------------------------------
(***************************************************************************)
(* withJobLock: the Redis lock every scheduler replica takes around the    *)
(* handling of one job, with the goroutine that renews it and the fence    *)
(* that stops the critical section when renewal keeps failing.             *)
(*                                                                         *)
(* Time is counted in ticks.  The key expires by itself, a call to Redis   *)
(* answers or fails within OpTimeout, and the renewal ticker fires every   *)
(* Interval, a third of the TTL.  Processes are prompt: time does not pass *)
(* while a ticker is due or a call has used up its timeout.  A call may    *)
(* fail after Redis has executed it.                                       *)
(***************************************************************************)
EXTENDS Naturals

CONSTANTS
  Handlers,           \* goroutines that want the lock, on any replica
  Interval,           \* ttl / 3
  OpTimeout,          \* storeOpTimeout
  MaxTokens           \* bound on the number of acquisitions

ASSUME TimingAssumption ==
  /\ Interval \in Nat /\ OpTimeout \in Nat \ {0} /\ MaxTokens \in Nat
  /\ 2 * OpTimeout < Interval

TTL == 3 * Interval

maxRenewalFailures == 3

NoToken == 0

VARIABLES
  key,     \* the token stored under the lock key
  ttl,     \* what is left of the TTL of the key
  issued,  \* how many tokens were drawn; a token is a fresh UUID
  pc,      \* "idle", "acquiring", "critical" or "releasing"
  token,   \* the token of each handler
  timer,   \* ticks until the renewal ticker fires
  renewal, \* the renewal in flight: "none", "sent", "renewed" or "refused"
  wait,    \* what is left of the timeout of the call in flight
  failures, \* consecutiveFailures
  abandoned, \* the handlers whose critical section is fenced
  lost     \* history: ticks spent unfenced in the critical section, keyless

redis == <<key, ttl, issued>>
local == <<pc, token, timer, renewal, wait, failures, abandoned, lost>>
lvars == <<redis, local>>

Set(f, h, v) == [f EXCEPT ![h] = v]

\* The types of the lock's state, and the counters of the renewal loop: its
\* ticker stays within the interval and it never counts past the last
\* failure; Redis holds the key exactly as long as its TTL runs.
LockTypeOK ==
  /\ key \in 0..MaxTokens /\ ttl \in 0..TTL /\ issued \in 0..MaxTokens
  /\ pc \in [Handlers -> {"idle", "acquiring", "critical", "releasing"}]
  /\ token \in [Handlers -> 0..MaxTokens]
  /\ timer \in [Handlers -> 0..Interval]
  /\ renewal \in [Handlers -> {"none", "sent", "renewed", "refused"}]
  /\ wait \in [Handlers -> 0..OpTimeout]
  /\ failures \in [Handlers -> 0..maxRenewalFailures]
  /\ abandoned \subseteq Handlers
  /\ lost \in [Handlers -> Nat]
  /\ (key = NoToken <=> ttl = 0)

LockInit ==
  /\ key = NoToken /\ ttl = 0 /\ issued = 0
  /\ pc = [h \in Handlers |-> "idle"]
  /\ token = [h \in Handlers |-> NoToken]
  /\ timer = [h \in Handlers |-> 0]
  /\ renewal = [h \in Handlers |-> "none"]
  /\ wait = [h \in Handlers |-> 0]
  /\ failures = [h \in Handlers |-> 0]
  /\ abandoned = {}
  /\ lost = [h \in Handlers |-> 0]

-----------------------------------------------------------------------------
\* TryAcquireLock reaches Redis: SETNX with the TTL.
TryAcquireLock(h) ==
  /\ pc[h] = "idle" /\ key = NoToken
  /\ issued < MaxTokens
  /\ issued' = issued + 1
  /\ key' = issued' /\ ttl' = TTL
  /\ token' = Set(token, h, issued')
  /\ pc' = Set(pc, h, "acquiring")
  /\ wait' = Set(wait, h, OpTimeout)
  /\ UNCHANGED <<timer, renewal, failures, abandoned, lost>>

\* The answer arrives and the renewal goroutine starts its ticker.
AcquireReturns(h) ==
  /\ pc[h] = "acquiring"
  /\ pc' = Set(pc, h, "critical")
  /\ timer' = Set(timer, h, Interval)
  /\ failures' = Set(failures, h, 0)
  /\ abandoned' = abandoned \ {h}
  /\ lost' = Set(lost, h, 0)
  /\ UNCHANGED <<redis, token, renewal, wait>>

\* The answer is lost: the key stays behind until it expires.
AcquireFails(h) ==
  /\ pc[h] = "acquiring"
  /\ pc' = Set(pc, h, "idle")
  /\ UNCHANGED <<redis, token, timer, renewal, wait, failures, abandoned, lost>>

Renewing(h) == pc[h] = "critical" /\ h \notin abandoned

RenewSent(h) ==
  /\ Renewing(h) /\ timer[h] = 0 /\ renewal[h] = "none"
  /\ renewal' = Set(renewal, h, "sent")
  /\ wait' = Set(wait, h, OpTimeout)
  /\ timer' = Set(timer, h, Interval)
  /\ UNCHANGED <<redis, pc, token, failures, abandoned, lost>>

\* Mutant: PEXPIRE without comparing the token.
RenewUnowned(h) ==
  /\ renewal[h] = "sent"
  /\ renewal' = Set(renewal, h, "renewed")
  /\ ttl' = IF key = NoToken THEN 0 ELSE TTL
  /\ UNCHANGED <<key, issued, pc, token, timer, wait, failures, abandoned, lost>>

\* renewLockScript runs in Redis.
RenewLock(h) ==
  /\ renewal[h] = "sent"
  /\ \/ /\ key = token[h]
        /\ ttl' = TTL
        /\ renewal' = Set(renewal, h, "renewed")
     \/ /\ key # token[h]
        /\ renewal' = Set(renewal, h, "refused")
        /\ UNCHANGED ttl
  /\ UNCHANGED <<key, issued, pc, token, timer, wait, failures, abandoned, lost>>

RenewReturns(h) ==
  /\ renewal[h] = "renewed"
  /\ renewal' = Set(renewal, h, "none")
  /\ failures' = Set(failures, h, 0)
  /\ UNCHANGED <<redis, pc, token, timer, wait, abandoned, lost>>

\* Mutant: one failure too many is tolerated.
RenewFailsLate(h) ==
  /\ renewal[h] # "none"
  /\ renewal' = Set(renewal, h, "none")
  /\ IF failures[h] = maxRenewalFailures
       THEN abandoned' = abandoned \cup {h} /\ UNCHANGED failures
       ELSE failures' = Set(failures, h, failures[h] + 1) /\ UNCHANGED abandoned
  /\ UNCHANGED <<redis, pc, token, timer, wait, lost>>

\* An error of any kind counts, also when Redis renewed the key.  At the
\* last one the critical section is fenced.
RenewFails(h) ==
  /\ renewal[h] # "none"
  /\ renewal' = Set(renewal, h, "none")
  /\ failures' = Set(failures, h, failures[h] + 1)
  /\ \/ failures'[h] >= maxRenewalFailures /\ abandoned' = abandoned \cup {h}
     \/ failures'[h] < maxRenewalFailures /\ UNCHANGED abandoned
  /\ UNCHANGED <<redis, pc, token, timer, wait, lost>>

\* fn returns.  The renewal in flight is cancelled, which counts as one more
\* failure; after abandonment the lock is not released.
Leave(h) ==
  /\ pc[h] = "critical"
  /\ LET gone == \/ h \in abandoned
                 \/ renewal[h] # "none" /\ failures[h] + 1 >= maxRenewalFailures
     IN pc' = Set(pc, h, IF gone THEN "idle" ELSE "releasing")
  /\ renewal' = Set(renewal, h, "none")
  /\ UNCHANGED <<redis, token, timer, wait, failures, abandoned, lost>>

\* releaseLockScript, at the first or the second attempt.
ReleaseLock(h) ==
  /\ pc[h] = "releasing"
  /\ pc' = Set(pc, h, "idle")
  /\ \/ key = token[h] /\ key' = NoToken /\ ttl' = 0
     \/ key # token[h] /\ UNCHANGED <<key, ttl>>
  /\ UNCHANGED <<issued, token, timer, renewal, wait, failures, abandoned, lost>>

\* Both attempts fail: the lock will expire by itself.
ReleaseFails(h) ==
  /\ pc[h] = "releasing"
  /\ pc' = Set(pc, h, "idle")
  /\ UNCHANGED <<redis, token, timer, renewal, wait, failures, abandoned, lost>>

\* Something has to happen before time may pass.
Due(h) ==
  \/ pc[h] = "acquiring" /\ wait[h] = 0
  \/ Renewing(h) /\ renewal[h] # "none" /\ wait[h] = 0
  \/ Renewing(h) /\ renewal[h] = "none" /\ timer[h] = 0

Less(n) == IF n = 0 THEN 0 ELSE n - 1

Tick ==
  /\ \A h \in Handlers : ~Due(h)
  /\ ttl' = Less(ttl)
  /\ key' = IF ttl' = 0 THEN NoToken ELSE key
  /\ timer' = [h \in Handlers |-> Less(timer[h])]
  /\ wait' = [h \in Handlers |-> Less(wait[h])]
  /\ lost' = [h \in Handlers |->
                IF Renewing(h) /\ key # token[h] THEN lost[h] + 1 ELSE lost[h]]
  /\ UNCHANGED <<issued, pc, token, renewal, failures, abandoned>>

LockNext ==
  \/ \E h \in Handlers :
       \/ TryAcquireLock(h) \/ AcquireReturns(h) \/ AcquireFails(h)
       \/ RenewSent(h) \/ RenewLock(h) \/ RenewReturns(h) \/ RenewFails(h)
       \/ Leave(h) \/ ReleaseLock(h) \/ ReleaseFails(h)
  \/ Tick

LockSpec == LockInit /\ [][LockNext]_lvars

-----------------------------------------------------------------------------
\* The renewal loop of withJobLock fences its handler after three failures:
\* however renewals fail, a handler stays unfenced without the key for at
\* most two call timeouts: the one its acquisition may have taken before the
\* ticker started, and the one of the last renewal.
OverlapIsBounded == \A h \in Handlers : lost[h] <= 2 * OpTimeout

\* RenewLock extends only the caller's own key, at a third of its TTL: until
\* its last tolerated failure a handler in the critical section holds
\* the key, so no other handler is in it unfenced by the same right.
OwnedUntilLastFailure ==
  \A h \in Handlers :
    Renewing(h) /\ failures[h] + 1 < maxRenewalFailures => key = token[h]

\* The key of a handler goes away only when it expires or when that handler
\* releases it: late renewals and releases of earlier holders never touch it.
OnlyOwnerReleases ==
  [][key # NoToken /\ key' # key =>
       \/ ttl = 1 /\ ttl' = 0
       \/ \E h \in Handlers : token[h] = key /\ pc[h] = "releasing"]_lvars
=============================================================================
