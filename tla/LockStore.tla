----------------------------- MODULE LockStore -----------------------------
(***************************************************************************)
(* The three scripts of the resource lock store.  A lock is one Redis key: *)
(* its mode, how many times each owner holds it, and the time the key has  *)
(* left.  A key that is not there is a lock nobody owns.  Each script runs *)
(* atomically.                                                             *)
(***************************************************************************)
EXTENDS Integers

Modes == {"shared", "exclusive"}

OwnersOf(l) == {o \in DOMAIN l.owners : l.owners[o] > 0}
Free(l) == OwnersOf(l) = {}

\* The key is deleted, or its time is over.
Unlocked(owners) ==
  [mode |-> "exclusive", owners |-> [o \in owners |-> 0], left |-> 0]

\* Mutant: a shared lock is upgraded for anyone who shares it.
GrantableToSharer(l, owner, mode) ==
  \/ Free(l)
  \/ l.owners[owner] > 0
  \/ l.mode = "shared" /\ mode = "shared"

\* The branches of acquireScript that grant: a new key, the owner's own
\* exclusive lock again, one more share, or an upgrade by the only sharer.
Grantable(l, owner, mode) ==
  \/ Free(l)
  \/ l.mode = "exclusive" /\ l.owners[owner] > 0
  \/ l.mode = "shared" /\ (mode = "shared" \/ OwnersOf(l) = {owner})

\* What acquireScript writes.  A lock that is exclusive stays so; the key lives
\* for the time of the latest caller.
Acquired(l, owner, mode, ttl) ==
  [mode |-> IF ~Free(l) /\ l.mode = "exclusive" THEN "exclusive" ELSE mode,
   owners |-> [l.owners EXCEPT ![owner] = @ + 1],
   left |-> ttl]

\* Mutant: an owner leaves the lock whatever its count is.
ReleasedAtOnce(l, owner) ==
  LET owners == [l.owners EXCEPT ![owner] = 0] IN
  IF l.owners[owner] = 0 THEN l
  ELSE IF \A o \in DOMAIN owners : owners[o] = 0 THEN Unlocked(DOMAIN owners)
  ELSE [l EXCEPT !.owners = owners]

\* Mutant: the key is written back without a time to live.
ReleasedNoTime(l, owner) ==
  LET owners == [l.owners EXCEPT ![owner] = @ - 1] IN
  IF l.owners[owner] = 0 THEN l
  ELSE IF \A o \in DOMAIN owners : owners[o] = 0 THEN Unlocked(DOMAIN owners)
  ELSE [l EXCEPT !.owners = owners, !.left = 0]

\* releaseScript: one hold of the owner less.  The last hold deletes the key;
\* otherwise it keeps its mode and the time it has left.
Released(l, owner) ==
  LET owners == [l.owners EXCEPT ![owner] = @ - 1] IN
  IF l.owners[owner] = 0 THEN l
  ELSE IF \A o \in DOMAIN owners : owners[o] = 0 THEN Unlocked(DOMAIN owners)
  ELSE [l EXCEPT !.owners = owners]

\* renewScript does nothing for anyone but an owner.
Renewed(l, owner, ttl) ==
  IF l.owners[owner] = 0 THEN l ELSE [l EXCEPT !.left = ttl]

\* Time passes for the key; one without a time to live stays.
Aged(l) ==
  IF l.left = 1 THEN Unlocked(DOMAIN l.owners)
  ELSE [l EXCEPT !.left = IF @ = 0 THEN 0 ELSE @ - 1]
=============================================================================
