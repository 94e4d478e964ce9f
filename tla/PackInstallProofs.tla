------------------------- MODULE PackInstallProofs -------------------------
(***************************************************************************)
(* What pack installs promise, for any packs, any number of requests and   *)
(* any number of faults.  A request whose copy of a document has the       *)
(* document's revision has its content, so a write changes one pack only.  *)
(* As long as nothing was spoiled the request that is at work owns         *)
(* packs:global and is the only one; what an undo will put back is then    *)
(* what the registry says.                                                 *)
(***************************************************************************)
EXTENDS PackInstall, TLAPS

Values == Versions \cup {None}
Records == [status : {"", "ACTIVE", "DISABLED"}, version : Values]
Contents == [Entries -> Values]
Docs == [rev : Nat, at : [Packs -> Contents]]
Registries == [rev : Nat, at : [Packs -> Records]]
Befores == [resource : Values, conf : [Packs -> Contents], pol : Contents]
UndoSteps == {"cred", "topics", "conf", "pol", "resource"}

Memories ==
  [op : {"", "install", "uninstall"}, pack : Packs \cup {NoPack}, version : Values,
   option : BOOLEAN, doc : Docs, registry : Registries, before : Befores,
   applied : SUBSET UndoSteps, cut : BOOLEAN, alone : BOOLEAN]

InstallPlaces ==
  {"plan", "register", "conf", "setConf", "pol", "setPol", "topics", "cred", "reg", "setReg"}
UndoPlaces == {"undo", "undoSet"}
UninstallPlaces ==
  {"load", "dropConf", "unsetConf", "dropPol", "unsetPol", "purge", "disable", "dropTopics", "revoke"}
Places == {"idle", "pack", "release", "global"} \cup InstallPlaces \cup UndoPlaces \cup UninstallPlaces

Locks == [mode : {"exclusive"}, owners : [Requests -> Nat], left : Nat]

\* The stores, and the registry that has of each pack the record it was last given.
StoreTypes ==
  /\ DOMAIN docs = Documents
  /\ docs["conf"] \in Docs /\ docs["pol"] \in Docs /\ docs["reg"] \in Registries
  /\ \A d \in Documents : docs[d].rev # 0
  /\ resource \in [Packs -> Values] /\ topics \in [Packs -> Contents]
  /\ credential \in [Packs -> {"none", "live", "revoked"}]
  /\ last = docs["reg"].at

RequestTypes ==
  /\ pc \in [Requests -> Places] /\ mine \in [Requests -> Memories]
  /\ spoiled \in BOOLEAN
  /\ used \in [{"request", "fault"} -> Nat]

\* One owner at most.
GoodLock(l) ==
  /\ l \in Locks
  /\ \A r, s \in Requests : l.owners[r] > 0 /\ l.owners[s] > 0 => r = s

LockTypes == DOMAIN locks = Keys /\ \A k \in Keys : GoodLock(locks[k])

\* What a request that is at work was asked for, and what it cannot have
\* applied yet.
KindOK(r) ==
  /\ pc[r] # "idle" => Pack(r) \in Packs /\ mine[r].op # ""
  /\ pc[r] \in UninstallPlaces => mine[r].op = "uninstall"
  /\ pc[r] \in {"pack", "load", "plan", "register", "conf", "setConf"} =>
       "conf" \notin mine[r].applied
  /\ pc[r] \in {"pack", "load", "plan", "register", "conf", "setConf", "pol", "setPol"} =>
       "pol" \notin mine[r].applied

\* A copy that has the document's revision has its content.
Seen(copy, doc) == copy.rev <= doc.rev /\ (copy.rev = doc.rev => copy.at = doc.at)

\* So has every copy that is about to be written back.
CopyOK(r) ==
  /\ Seen(mine[r].registry, docs["reg"])
  /\ pc[r] \in {"setConf", "unsetConf"} => Seen(mine[r].doc, docs["conf"])
  /\ pc[r] \in {"setPol", "unsetPol"} => Seen(mine[r].doc, docs["pol"])
  /\ pc[r] = "undoSet" =>
       Undoing(r) \in {"conf", "pol"} /\ Seen(mine[r].doc, docs[Undoing(r)])

\* The others do nothing.
Solo(r) == \A s \in Requests : s # r => pc[s] = "idle"

\* A request that was alone from its start is alone, and one that works while
\* nothing was spoiled owns packs:global.
SoloOK(r) ==
  pc[r] # "idle" =>
    /\ mine[r].alone => Solo(r)
    /\ ~spoiled => locks[Global].owners[r] > 0

\* How far an install or an uninstall of pack p has come at place l.
Installed(l, p, v) ==
  /\ l \in {"conf", "setConf", "pol", "setPol", "topics", "cred", "reg", "setReg"} => resource[p] = v
  /\ l \in {"pol", "setPol", "topics", "cred", "reg", "setReg"} => Has(docs["conf"].at[p], v)
  /\ l \in {"topics", "cred", "reg", "setReg"} => Has(docs["pol"].at[p], v)
  /\ l \in {"cred", "reg", "setReg"} => Has(topics[p], v)
  /\ l \in {"reg", "setReg"} => credential[p] = "live"

Removed(l, p, v) ==
  /\ l \in {"dropPol", "unsetPol", "purge", "disable", "dropTopics", "revoke"} =>
       Lacks(docs["conf"].at[p], v)
  /\ l \in {"purge", "disable", "dropTopics", "revoke"} => Lacks(docs["pol"].at[p], v)
  /\ l \in {"dropTopics", "revoke"} =>
       docs["reg"].at[p].status = "DISABLED" /\ docs["reg"].at[p].version = v
  /\ l = "revoke" => Lacks(topics[p], v)

\* An uninstall removes the version that was on record when it read the registry.
ProgressOK(r) ==
  mine[r].alone \/ ~spoiled =>
    /\ Installed(pc[r], Pack(r), mine[r].version)
    /\ Removed(pc[r], Pack(r), mine[r].registry.at[Pack(r)].version)

\* Overlay and fragments of pack p are those of the version the registry says.
Agrees(p, overlay, fragment) ==
  docs["reg"].at[p].status = "ACTIVE" =>
    Has(overlay, docs["reg"].at[p].version) /\ Has(fragment, docs["reg"].at[p].version)

Clean(p) == Agrees(p, docs["conf"].at[p], docs["pol"].at[p])

Busy(r) == pc[r] \notin {"idle", "pack", "release", "global"}

\* What an undo of r's install would leave agrees with the registry.
Undoable(r) ==
  LET m == mine[r]  p == Pack(r) IN
  /\ Agrees(p, IF "conf" \in m.applied THEN m.before.conf[p] ELSE docs["conf"].at[p],
               IF "pol" \in m.applied
               THEN Overlaid(docs["pol"].at[p], m.version, m.before.pol)
               ELSE docs["pol"].at[p])
  /\ "conf" \in m.applied => \A q \in Packs : q # p => docs["conf"].at[q] = m.before.conf[q]

UndoOK(r) ==
  ~spoiled /\ pc[r] \in {"load"} \cup InstallPlaces \cup UndoPlaces => Undoable(r)

RequestOK(r) == KindOK(r) /\ CopyOK(r) /\ SoloOK(r) /\ ProgressOK(r) /\ UndoOK(r)

\* A pack that no request works on agrees with the registry.
CleanOK ==
  ~spoiled =>
    \A p \in Packs : (\A r \in Requests : Busy(r) => Pack(r) # p) => Clean(p)

PackInv ==
  /\ StoreTypes /\ RequestTypes /\ LockTypes
  /\ \A r \in Requests : RequestOK(r)
  /\ CleanOK

-----------------------------------------------------------------------------
(* The operators                                                           *)

\* Entries that are overlaid are entries.
LEMMA OverlaidIs ==
  ASSUME NEW old \in Contents, NEW v, NEW new \in Contents
  PROVE  Overlaid(old, v, new) \in Contents
  BY Zenon DEF Overlaid, Contents

\* A version that is written is there, and what was there before can be put back.
LEMMA WrittenIs ==
  ASSUME NEW old \in Contents, NEW v \in Values
  PROVE  /\ Written(old, v) \in Contents /\ Has(Written(old, v), v)
         /\ Overlaid(Written(old, v), v, old) = old
<1>1. [n \in Entries |-> v] \in Contents
  BY Zenon DEF Contents
<1>2. Written(old, v) \in Contents
  BY Zenon, <1>1, OverlaidIs DEF Written
<1>3. Has(Written(old, v), v)
  BY Zenon DEF Has, Written, Overlaid
<1>4. Overlaid(Written(old, v), v, old) = old
  <2>1. old = [n \in Entries |-> old[n]]
    BY Zenon DEF Contents
  <2>2. \A n \in Entries :
          (IF n \in EntriesOf[v] THEN old[n] ELSE Written(old, v)[n]) = old[n]
    BY Zenon DEF Written, Overlaid
  <2>3. Overlaid(Written(old, v), v, old) = [n \in Entries |-> old[n]]
    BY Zenon, <2>2 DEF Overlaid
  <2> QED BY Zenon, <2>1, <2>3
<1> QED BY Zenon, <1>2, <1>3, <1>4

LEMMA EmptyIs == Empty \in Contents
  BY Zenon DEF Empty, Contents, Values

\* A version that is erased is not there.
LEMMA ErasedIs ==
  ASSUME NEW old \in Contents, NEW v
  PROVE  Erased(old, v) \in Contents /\ Lacks(Erased(old, v), v)
<1>1. Erased(old, v) \in Contents
  BY Zenon, EmptyIs, OverlaidIs DEF Erased
<1>2. Lacks(Erased(old, v), v)
  BY Zenon DEF Lacks, Erased, Overlaid, Empty
<1> QED BY Zenon, <1>1, <1>2

First(S) ==
  LET todo == {i \in DOMAIN UndoOrder : UndoOrder[i] \in S}
  IN IF todo = {} THEN "end" ELSE UndoOrder[CHOOSE i \in todo : \A j \in todo : i <= j]

\* The step the undo takes back next depends on the steps it has to.
LEMMA UndoingIs ==
  ASSUME NEW r
  PROVE  Undoing(r) = First(mine[r].applied) /\ Undoing(r)' = First(mine'[r].applied)
  BY Zenon DEF Undoing, First

\* It is one of them; there is none when the overlay and the fragment, among
\* others, are back.
LEMMA FirstOf ==
  ASSUME NEW S
  PROVE  /\ First(S) \in UndoSteps \cup {"end"}
         /\ First(S) # "end" => First(S) \in S
         /\ First(S) = "end" => "conf" \notin S /\ "pol" \notin S
<1> DEFINE todo == {i \in DOMAIN UndoOrder : UndoOrder[i] \in S}
<1> DEFINE i == CHOOSE n \in todo : \A j \in todo : n <= j
<1>1. /\ DOMAIN UndoOrder = 1..5
      /\ UndoOrder[1] = "cred" /\ UndoOrder[2] = "topics" /\ UndoOrder[3] = "conf"
      /\ UndoOrder[4] = "pol" /\ UndoOrder[5] = "resource"
  BY DEF UndoOrder
<1>2. todo \subseteq 1..5
  BY Zenon, <1>1
<1>3. CASE todo = {}
  <2>1. "conf" \notin S /\ "pol" \notin S
    BY <1>1, <1>3
  <2> QED BY Zenon, <2>1, <1>3 DEF First
<1>4. CASE todo # {}
  <2>1. \E n \in todo : \A j \in todo : n <= j
    <3> HIDE DEF todo
    <3>1. \A j \in todo : j = 1 \/ j = 2 \/ j = 3 \/ j = 4 \/ j = 5
      BY <1>2
    <3>2. 1 \in todo \/ 2 \in todo \/ 3 \in todo \/ 4 \in todo \/ 5 \in todo
      BY Zenon, <3>1, <1>4
    <3>3. CASE 1 \in todo
      BY <3>1, <3>3
    <3>4. CASE 1 \notin todo /\ 2 \in todo
      BY <3>1, <3>4
    <3>5. CASE 1 \notin todo /\ 2 \notin todo /\ 3 \in todo
      BY <3>1, <3>5
    <3>6. CASE 1 \notin todo /\ 2 \notin todo /\ 3 \notin todo /\ 4 \in todo
      BY <3>1, <3>6
    <3>7. CASE 1 \notin todo /\ 2 \notin todo /\ 3 \notin todo /\ 4 \notin todo
      BY <3>1, <3>2, <3>7
    <3> QED BY Zenon, <3>3, <3>4, <3>5, <3>6, <3>7
  <2>2. i \in todo
    BY Zenon, <2>1
  <2>3. First(S) = UndoOrder[i]
    BY Zenon, <1>4 DEF First
  <2> HIDE DEF i
  <2>4. UndoOrder[i] \in S /\ i \in 1..5
    BY Zenon, <2>2, <1>2
  <2>5. UndoOrder[i] \in UndoSteps
    BY <2>4, <1>1 DEF UndoSteps
  <2>6. UndoOrder[i] # "end"
    BY Zenon, <2>5 DEF UndoSteps
  <2> QED BY Zenon, <2>3, <2>4, <2>5, <2>6
<1> QED BY Zenon, <1>3, <1>4

\* What a request remembers, with one field changed.
LEMMA MemoryUpdates ==
  ASSUME NEW m \in Memories
  PROVE  /\ \A d \in Docs : [m EXCEPT !.doc = d] \in Memories
         /\ \A d \in Registries : [m EXCEPT !.registry = d] \in Memories
         /\ \A S \in SUBSET UndoSteps : [m EXCEPT !.applied = S] \in Memories
         /\ \A b \in BOOLEAN : [m EXCEPT !.cut = b] \in Memories
         /\ \A b \in BOOLEAN : [m EXCEPT !.alone = b] \in Memories
         /\ \A b \in Befores : [m EXCEPT !.before = b] \in Memories
  BY Zenon DEF Memories

LEMMA NothingIsMemory ==
  Nothing \in Memories /\ Nothing.registry = NoRegistry /\ Nothing.applied = {}
<1>1. NoDoc \in Docs /\ NoDoc.at \in [Packs -> Contents]
  BY Zenon, EmptyIs DEF NoDoc, Docs
<1>2. NoRegistry \in Registries
  BY Zenon DEF NoRegistry, Registries, NoRecord, Record, Records, Values, None
<1>3. [resource |-> None, conf |-> NoDoc.at, pol |-> Empty] \in Befores
  BY Zenon, <1>1, EmptyIs DEF Befores, Values
<1>4. Nothing \in Memories
  BY Zenon, <1>1, <1>2, <1>3 DEF Nothing, Memories, Values
<1>5. Nothing.registry = NoRegistry /\ Nothing.applied = {}
  BY Zenon DEF Nothing
<1> QED BY Zenon, <1>4, <1>5

\* acquireScript and releaseScript on an exclusive lock.
LEMMA AcquiredGood ==
  ASSUME NEW l, GoodLock(l), NEW r \in Requests, Grantable(l, r, "exclusive")
  PROVE  /\ GoodLock(Acquired(l, r, "exclusive", 1))
         /\ Acquired(l, r, "exclusive", 1).owners[r] > 0
         /\ \A s \in Requests : s # r => l.owners[s] = 0
<1> DEFINE a == Acquired(l, r, "exclusive", 1)
<1>1. l \in Locks /\ l.owners \in [Requests -> Nat] /\ l.mode = "exclusive"
  BY Zenon DEF GoodLock, Locks
<1>2. a.mode = "exclusive" /\ a.owners = [l.owners EXCEPT ![r] = @ + 1] /\ a.left = 1
  BY Zenon, <1>1 DEF Acquired
<1>3. \A s \in Requests : s # r => l.owners[s] = 0
  BY <1>1 DEF Grantable, Free, OwnersOf, GoodLock
<1>4. a = [mode |-> a.mode, owners |-> a.owners, left |-> a.left]
  BY Zenon DEF Acquired
<1> HIDE DEF a
<1>5. a.owners \in [Requests -> Nat] /\ a.owners[r] = l.owners[r] + 1
      /\ \A s \in Requests : s # r => a.owners[s] = 0
  BY <1>1, <1>2, <1>3
<1>6. a \in Locks
  BY <1>2, <1>4, <1>5 DEF Locks
<1>7. a.owners[r] > 0
  BY <1>1, <1>5
<1>8. GoodLock(a)
  BY <1>5, <1>6 DEF GoodLock
<1> QED BY Zenon, <1>3, <1>7, <1>8 DEF a

LEMMA ReleasedGood ==
  ASSUME NEW l, GoodLock(l), NEW r \in Requests
  PROVE  /\ GoodLock(Released(l, r))
         /\ \A s \in Requests : s # r => Released(l, r).owners[s] = l.owners[s]
<1> DEFINE left == [l.owners EXCEPT ![r] = @ - 1]
<1>1. l \in Locks /\ l.owners \in [Requests -> Nat]
  BY Zenon DEF GoodLock, Locks
<1>2. CASE l.owners[r] = 0
  BY Zenon, <1>2 DEF Released
<1>3. CASE l.owners[r] # 0
  <2>1. left \in [Requests -> Nat] /\ DOMAIN left = Requests
        /\ \A s \in Requests : s # r => left[s] = l.owners[s]
    BY <1>1, <1>3
  <2>2. \A s \in Requests : s # r => l.owners[s] = 0
    BY <1>1, <1>3 DEF GoodLock
  <2>3. CASE \A o \in DOMAIN left : left[o] = 0
    <3>1. Released(l, r) = Unlocked(Requests)
      BY Zenon, <1>3, <2>1, <2>3 DEF Released
    <3>2. GoodLock(Unlocked(Requests)) /\ \A s \in Requests : Unlocked(Requests).owners[s] = 0
      BY DEF Unlocked, GoodLock, Locks
    <3> QED BY Zenon, <3>1, <3>2, <2>2
  <2>4. CASE ~\A o \in DOMAIN left : left[o] = 0
    <3>1. Released(l, r) = [l EXCEPT !.owners = left]
      BY Zenon, <1>3, <2>4 DEF Released
    <3> HIDE DEF left
    <3>2. [l EXCEPT !.owners = left] \in Locks /\ [l EXCEPT !.owners = left].owners = left
      BY Zenon, <1>1, <2>1 DEF Locks
    <3>3. \A s \in Requests : s # r => left[s] = 0
      BY Zenon, <2>1, <2>2
    <3> QED BY <3>1, <3>2, <3>3, <2>1 DEF GoodLock
  <2> QED BY Zenon, <2>3, <2>4
<1> QED BY Zenon, <1>2, <1>3
-----------------------------------------------------------------------------
(* A step of a request                                                     *)

\* Its own work.
Works(r) ==
  /\ pc' \in [Requests -> Places] /\ mine' \in [Requests -> Memories]
  /\ \A s \in Requests : s # r => pc'[s] = pc[s] /\ mine'[s] = mine[s]
  /\ pc'[r] # "idle" => mine'[r].pack = mine[r].pack /\ mine'[r].op = mine[r].op
                        /\ mine'[r].alone = mine[r].alone

\* Every document stays as it is or has a later revision.
Grows == \A d \in Documents : docs'[d] = docs[d] \/ docs'[d].rev > docs[d].rev

\* Only one pack has another overlay, fragment or record than before.
OnlyAt(p) ==
  \A q \in Packs : q # p =>
    /\ docs'["conf"].at[q] = docs["conf"].at[q]
    /\ docs'["pol"].at[q] = docs["pol"].at[q]
    /\ docs'["reg"].at[q] = docs["reg"].at[q]

\* What a request has in packs:global stays while it works.
Owns(r) ==
  \A s \in Requests : s # r \/ pc'[s] # "idle" =>
    locks'[Global].owners[s] = locks[Global].owners[s]

\* Whoever works alone, or while nothing was spoiled, is the only one.
LEMMA OneAtWork ==
  ASSUME PackInv, NEW r \in Requests, pc[r] # "idle",
         NEW s \in Requests, s # r, mine[s].alone \/ ~spoiled
  PROVE  pc[s] = "idle"
<1>1. SoloOK(r) /\ SoloOK(s)
  BY Zenon DEF PackInv, RequestOK
<1>2. CASE mine[s].alone
  BY Zenon, <1>1, <1>2 DEF SoloOK, Solo
<1>3. CASE ~spoiled
  <2>1. SUFFICES ASSUME pc[s] # "idle" PROVE FALSE
    BY Zenon
  <2>2. locks[Global].owners[r] > 0 /\ locks[Global].owners[s] > 0
    BY Zenon, <1>1, <1>3, <2>1 DEF SoloOK
  <2>3. GoodLock(locks[Global])
    BY Zenon DEF PackInv, LockTypes, Keys
  <2> QED BY Zenon, <2>2, <2>3 DEF GoodLock
<1> QED BY Zenon, <1>2, <1>3

\* A copy of an earlier revision stays one.
LEMMA SeenStays ==
  ASSUME StoreTypes, StoreTypes', Grows, NEW d \in Documents, NEW copy, copy.rev \in Nat,
         Seen(copy, docs[d])
  PROVE  Seen(copy, docs'[d])
<1>1. docs[d].rev \in Nat /\ docs'[d].rev \in Nat
  BY Zenon DEF StoreTypes, Documents, Docs, Registries
<1>2. docs'[d] = docs[d] \/ docs'[d].rev > docs[d].rev
  BY Zenon DEF Grows
<1> QED BY <1>1, <1>2 DEF Seen

\* The requests that do not take the step keep what they have.
LEMMA OthersKeep ==
  ASSUME PackInv, NEW r \in Requests, pc[r] # "idle", Works(r), StoreTypes', Grows, Owns(r),
         spoiled => spoiled', NEW s \in Requests, s # r
  PROVE  RequestOK(s)'
<1>1. RequestOK(s) /\ StoreTypes /\ mine[s] \in Memories
  BY Zenon DEF PackInv, RequestTypes
<1>2. pc'[s] = pc[s] /\ mine'[s] = mine[s]
  BY Zenon DEF Works
<1>3. KindOK(s)'
  BY Zenon, <1>1, <1>2 DEF RequestOK, KindOK, Pack
<1>4. CopyOK(s)'
  <2>1. mine[s].registry.rev \in Nat /\ mine[s].doc.rev \in Nat
    BY Zenon, <1>1 DEF Memories, Docs, Registries
  <2>2. CopyOK(s)
    BY Zenon, <1>1 DEF RequestOK
  <2>3. Undoing(s)' = Undoing(s)
    BY Zenon, <1>2, UndoingIs
  <2>4. \A d \in Documents : Seen(mine[s].doc, docs[d]) => Seen(mine[s].doc, docs'[d])
    BY Zenon, <1>1, <2>1, SeenStays
  <2>5. Seen(mine[s].registry, docs'["reg"])
    BY Zenon, <1>1, <2>1, <2>2, SeenStays DEF CopyOK, Documents
  <2> QED BY Zenon, <1>2, <2>2, <2>3, <2>4, <2>5 DEF CopyOK, Documents
<1>5. SoloOK(s)'
  <2>1. SoloOK(s) /\ SoloOK(r)
    BY Zenon DEF PackInv, RequestOK
  <2>2. SUFFICES ASSUME pc[s] # "idle"
                 PROVE  (mine[s].alone => Solo(s)') /\ (~spoiled' => locks'[Global].owners[s] > 0)
    BY Zenon, <1>2 DEF SoloOK
  <2>3. ~mine[s].alone
    BY Zenon, <2>1, <2>2 DEF SoloOK, Solo
  <2>4. ~spoiled' => locks'[Global].owners[s] > 0
    BY Zenon, <2>1, <2>2 DEF SoloOK, Owns
  <2> QED BY Zenon, <2>3, <2>4
<1>6. ProgressOK(s)' /\ UndoOK(s)'
  <2>1. CASE pc[s] = "idle"
    BY Zenon, <1>2, <2>1 DEF ProgressOK, UndoOK, Installed, Removed, InstallPlaces, UndoPlaces
  <2>2. CASE pc[s] # "idle"
    <3>1. ~mine[s].alone /\ spoiled
      BY Zenon, <2>2, OneAtWork
    <3> QED BY Zenon, <3>1, <1>2 DEF ProgressOK, UndoOK
  <2> QED BY Zenon, <2>1, <2>2
<1> QED BY Zenon, <1>3, <1>4, <1>5, <1>6 DEF RequestOK

\* A request's step keeps the invariant if it keeps the request's own part of it,
\* and leaves the pack clean when the request is done with it.
LEMMA StepKeeps ==
  ASSUME PackInv, NEW r \in Requests, pc[r] # "idle", Works(r),
         StoreTypes', LockTypes', spoiled' \in BOOLEAN, used' \in [{"request", "fault"} -> Nat],
         Grows, Owns(r), spoiled => spoiled', NEW CONSTANT p, p = Pack(r),
         ~spoiled' => OnlyAt(p),
         KindOK(r)', CopyOK(r)', ProgressOK(r)', UndoOK(r)',
         ~spoiled' /\ ~Busy(r)' => Clean(p)'
  PROVE  PackInv'
<1>1. RequestTypes'
  BY Zenon DEF RequestTypes, Works
<1>2. SoloOK(r)'
  <2>1. SoloOK(r)
    BY Zenon DEF PackInv, RequestOK
  <2>2. Solo(r) => Solo(r)'
    BY Zenon DEF Solo, Works
  <2> QED BY Zenon, <2>1, <2>2 DEF SoloOK, Works, Owns
<1>3. \A s \in Requests : RequestOK(s)'
  BY Zenon, <1>2, OthersKeep DEF RequestOK
<1>4. CleanOK'
  <2> SUFFICES ASSUME ~spoiled', NEW q \in Packs,
                      \A s \in Requests : Busy(s)' => Pack(s)' # q
               PROVE  Clean(q)'
    BY Zenon DEF CleanOK
  <2>1. CASE q = p
    <3>1. pc'[r] # "idle" => Pack(r)' = p
      BY Zenon DEF Works, Pack
    <3>2. ~Busy(r)'
      BY Zenon, <2>1, <3>1 DEF Busy
    <3> QED BY Zenon, <2>1, <3>2
  <2>2. CASE q # p
    <3>1. \A s \in Requests : s # r => pc[s] = "idle"
      BY Zenon, OneAtWork
    <3>2. Clean(q)
      BY Zenon, <2>2, <3>1 DEF PackInv, CleanOK, Busy
    <3> QED BY Zenon, <2>2, <3>2 DEF OnlyAt, Clean, Agrees
  <2> QED BY Zenon, <2>1, <2>2
<1> QED BY Zenon, <1>1, <1>3, <1>4 DEF PackInv

\* What every lemma about a step starts from.
LEMMA Facts ==
  ASSUME PackInv, NEW r \in Requests
  PROVE  /\ StoreTypes /\ LockTypes /\ KindOK(r) /\ CopyOK(r) /\ SoloOK(r)
         /\ ProgressOK(r) /\ UndoOK(r)
         /\ pc \in [Requests -> Places] /\ mine \in [Requests -> Memories]
         /\ spoiled \in BOOLEAN /\ used \in [{"request", "fault"} -> Nat]
         /\ mine[r] \in Memories
         /\ ~spoiled /\ pc[r] # "idle" /\ ~Busy(r) => Clean(Pack(r))
<1>1. ~spoiled /\ pc[r] # "idle" /\ ~Busy(r) => Clean(Pack(r))
  <2> SUFFICES ASSUME ~spoiled, pc[r] # "idle", ~Busy(r) PROVE Clean(Pack(r))
    BY Zenon
  <2>1. Pack(r) \in Packs
    BY Zenon DEF PackInv, RequestOK, KindOK
  <2>2. \A s \in Requests : s # r => pc[s] = "idle"
    BY Zenon, OneAtWork
  <2>3. \A s \in Requests : ~Busy(s)
    BY Zenon, <2>2 DEF Busy
  <2> QED BY Zenon, <2>1, <2>3 DEF PackInv, CleanOK
<1> QED BY Zenon, <1>1 DEF PackInv, RequestOK, RequestTypes

\* A step that writes no document.
LEMMA DocsStay ==
  ASSUME PackInv, NEW r \in Requests, pc[r] # "idle", Works(r), docs' = docs, last' = last,
         resource' \in [Packs -> Values], topics' \in [Packs -> Contents],
         credential' \in [Packs -> {"none", "live", "revoked"}],
         LockTypes', spoiled' \in BOOLEAN, used' \in [{"request", "fault"} -> Nat],
         Owns(r), spoiled => spoiled',
         KindOK(r)', CopyOK(r)', ProgressOK(r)', UndoOK(r)',
         ~spoiled' /\ ~Busy(r)' => Clean(Pack(r))
  PROVE  PackInv'
<1>1. PICK p : p = Pack(r)
  BY Zenon
<1>2. StoreTypes'
  BY Zenon DEF PackInv, StoreTypes
<1>3. Grows /\ OnlyAt(p)
  BY Zenon DEF Grows, OnlyAt
<1>4. ~spoiled' /\ ~Busy(r)' => Clean(p)'
  BY Zenon, <1>1 DEF Clean, Agrees
<1> QED BY Zenon, <1>1, <1>2, <1>3, <1>4, StepKeeps

\* A step of r that goes to place l.
LEMMA Goes ==
  ASSUME PackInv, NEW r \in Requests, NEW l \in Places, Goto(r, l)
  PROVE  /\ pc' \in [Requests -> Places] /\ pc'[r] = l
         /\ \A s \in Requests : s # r => pc'[s] = pc[s]
  BY Zenon, Facts DEF Goto

\* A step of r that keeps m.
LEMMA Keeps ==
  ASSUME PackInv, NEW r \in Requests, NEW m \in Memories, Keep(r, m)
  PROVE  /\ mine' \in [Requests -> Memories] /\ mine'[r] = m
         /\ \A s \in Requests : s # r => mine'[s] = mine[s]
  BY Zenon, Facts DEF Keep

LEMMA Uses ==
  ASSUME PackInv, NEW b \in {"request", "fault"}, Use(b)
  PROVE  used' \in [{"request", "fault"} -> Nat] /\ used' # used
<1>1. used \in [{"request", "fault"} -> Nat]
  BY Zenon DEF PackInv, RequestTypes
<1>2. used' = [used EXCEPT ![b] = used[b] + 1] /\ used[b] \in Nat
  BY Zenon, <1>1 DEF Use
<1>3. used'[b] = used[b] + 1 /\ used' \in [{"request", "fault"} -> Nat]
  BY <1>1, <1>2
<1> QED BY <1>2, <1>3

-----------------------------------------------------------------------------
(* The locks                                                               *)

\* The lock of another pack says nothing of packs:global.
LEMMA PackLock ==
  ASSUME PackInv, NEW r \in Requests, pc[r] # "idle", NEW l, GoodLock(l),
         locks' = [locks EXCEPT ![Pack(r)] = l]
  PROVE  LockTypes' /\ Owns(r)
<1>1. LockTypes /\ Pack(r) \in Packs
  BY Zenon, Facts DEF KindOK
<1>2. Pack(r) # Global /\ Pack(r) \in Keys /\ Global \in Keys
  BY Zenon, <1>1, PacksAssumption DEF Keys
<1> QED BY Zenon, <1>1, <1>2 DEF LockTypes, Owns

LEMMA LockPackKeeps ==
  ASSUME PackInv, NEW r \in Requests, LockPack(r)
  PROVE  PackInv'
<1> DEFINE l == pc'[r]
<1>1. pc[r] = "pack" /\ stores' = stores /\ last' = last /\ spoiled' = spoiled
      /\ mine' = mine /\ used' = used
  BY Zenon DEF LockPack, history, stores
<1>2. LockTypes' /\ Owns(r)
  <2>1. CASE UNCHANGED locks
    BY Zenon, <2>1, Facts DEF LockTypes, Owns
  <2>2. CASE /\ Grantable(locks[Pack(r)], r, "exclusive")
             /\ locks' = [locks EXCEPT ![Pack(r)] = Acquired(locks[Pack(r)], r, "exclusive", 1)]
    <3>1. GoodLock(locks[Pack(r)])
      BY Zenon, <1>1, Facts DEF LockTypes, KindOK, Keys
    <3>2. GoodLock(Acquired(locks[Pack(r)], r, "exclusive", 1))
      BY Zenon, <2>2, <3>1, AcquiredGood
    <3> QED BY Zenon, <1>1, <2>2, <3>2, PackLock
  <2> QED BY Zenon, <2>1, <2>2 DEF LockPack
<1>3. /\ l \in {"plan", "load", "global"} /\ (l = "load" => mine[r].op = "uninstall")
      /\ pc' = [pc EXCEPT ![r] = l]
  BY Zenon, <1>1, Facts DEF LockPack, Goto, KindOK, Memories
<1> HIDE DEF l
<1>4. Works(r) /\ pc'[r] = l
  <2>1. l \in Places
    BY Zenon, <1>3 DEF Places, InstallPlaces, UninstallPlaces
  <2>2. Goto(r, l)
    BY Zenon, <1>3 DEF Goto
  <2> QED BY Zenon, <1>1, <2>1, <2>2, Goes, Facts DEF Works
<1>5. KindOK(r) /\ CopyOK(r) /\ pc[r] # "idle" /\ ~Busy(r)
  BY Zenon, <1>1, Facts DEF Busy
<1>6. ~spoiled => Clean(Pack(r))
  BY Zenon, <1>5, Facts
<1>7. KindOK(r)'
  BY Zenon, <1>1, <1>3, <1>4, <1>5 DEF KindOK, UninstallPlaces, Pack
<1>8. CopyOK(r)'
  BY Zenon, <1>1, <1>3, <1>4, <1>5 DEF CopyOK, stores
<1>9. ProgressOK(r)'
  BY Zenon, <1>1, <1>3, <1>4 DEF ProgressOK, Installed, Removed
<1>10. UndoOK(r)'
  <2>1. "conf" \notin mine[r].applied /\ "pol" \notin mine[r].applied
    BY Zenon, <1>1, <1>5 DEF KindOK
  <2> QED BY Zenon, <1>1, <1>6, <2>1 DEF UndoOK, Undoable, Agrees, Clean, stores, Pack
<1>11. docs' = docs /\ resource' = resource /\ topics' = topics /\ credential' = credential
  BY Zenon, <1>1 DEF stores
<1>12. /\ resource' \in [Packs -> Values] /\ topics' \in [Packs -> Contents]
       /\ credential' \in [Packs -> {"none", "live", "revoked"}]
       /\ spoiled' \in BOOLEAN /\ used' \in [{"request", "fault"} -> Nat]
  BY Zenon, <1>1, <1>11, Facts DEF StoreTypes
<1>13. ~spoiled' /\ ~Busy(r)' => Clean(Pack(r))
  BY Zenon, <1>1, <1>6
<1> QED BY Zenon, <1>1, <1>2, <1>4, <1>5, <1>7, <1>8, <1>9, <1>10, <1>11, <1>12, <1>13, DocsStay
\* A step that writes nothing and with which the request is over, or gives back
\* its locks.
LEMMA Stops ==
  ASSUME PackInv, NEW r \in Requests, pc[r] # "idle", Works(r),
         pc'[r] \in {"release", "global", "idle"},
         mine'[r] = mine[r] \/ mine'[r] = Nothing \/ mine'[r].registry = docs["reg"],
         stores' = stores, last' = last,
         LockTypes', Owns(r), spoiled' \in BOOLEAN, used' \in [{"request", "fault"} -> Nat],
         spoiled => spoiled', ~spoiled' => Clean(Pack(r))
  PROVE  PackInv'
<1>1. docs' = docs /\ resource' = resource /\ topics' = topics /\ credential' = credential
  BY Zenon DEF stores
<1>2. KindOK(r) /\ CopyOK(r) /\ StoreTypes
  BY Zenon, Facts
<1>3. KindOK(r)'
  BY Zenon, <1>2 DEF KindOK, UninstallPlaces, Pack, Works
<1>4. CopyOK(r)'
  <2>1. Seen(mine'[r].registry, docs["reg"])
    <3>1. docs["reg"].rev \in Nat /\ docs["reg"].rev # 0
      BY Zenon, <1>2 DEF StoreTypes, Registries, Documents
    <3>2. CASE mine'[r] = Nothing
      <4>1. mine'[r].registry = NoRegistry
        BY Zenon, <3>2, NothingIsMemory
      <4>2. NoRegistry.rev = 0
        BY Zenon DEF NoRegistry
      <4> QED BY <3>1, <4>1, <4>2 DEF Seen
    <3>3. CASE mine'[r].registry = docs["reg"]
      BY <3>1, <3>3 DEF Seen
    <3> QED BY Zenon, <1>2, <3>2, <3>3 DEF CopyOK
  <2> QED BY Zenon, <1>1, <2>1 DEF CopyOK
<1>5. ProgressOK(r)' /\ UndoOK(r)'
  BY Zenon DEF ProgressOK, Installed, Removed, UndoOK, InstallPlaces, UndoPlaces
<1>6. /\ resource' \in [Packs -> Values] /\ topics' \in [Packs -> Contents]
      /\ credential' \in [Packs -> {"none", "live", "revoked"}]
  BY Zenon, <1>1, <1>2 DEF StoreTypes
<1> QED BY Zenon, <1>1, <1>3, <1>4, <1>5, <1>6, DocsStay

LEMMA LocksStay ==
  ASSUME PackInv, NEW r \in Requests, locks' = locks
  PROVE  LockTypes' /\ Owns(r)
  BY Zenon, Facts DEF LockTypes, Owns

LEMMA ReleasePackKeeps ==
  ASSUME PackInv, NEW r \in Requests, ReleasePack(r)
  PROVE  PackInv'
<1>1. /\ pc[r] = "release" /\ stores' = stores /\ last' = last /\ spoiled' = spoiled
      /\ mine' = mine /\ used' = used /\ Goto(r, "global")
      /\ locks' = [locks EXCEPT ![Pack(r)] = Released(locks[Pack(r)], r)]
  BY Zenon DEF ReleasePack, history, stores
<1>2. GoodLock(locks[Pack(r)])
  BY Zenon, <1>1, Facts DEF LockTypes, KindOK, Keys
<1>3. LockTypes' /\ Owns(r)
  BY Zenon, <1>1, <1>2, ReleasedGood, PackLock
<1>4. pc' \in [Requests -> Places] /\ pc'[r] = "global" /\ \A s \in Requests : s # r => pc'[s] = pc[s]
  BY Zenon, <1>1, Goes DEF Places
<1>5. Works(r) /\ spoiled' \in BOOLEAN /\ used' \in [{"request", "fault"} -> Nat]
  BY Zenon, <1>1, <1>4, Facts DEF Works
<1>6. ~spoiled => Clean(Pack(r))
  BY Zenon, <1>1, Facts DEF Busy
<1> QED BY Zenon, <1>1, <1>3, <1>4, <1>5, <1>6, Stops

LEMMA ReleaseGlobalKeeps ==
  ASSUME PackInv, NEW r \in Requests, ReleaseGlobal(r)
  PROVE  PackInv'
<1>1. /\ pc[r] = "global" /\ stores' = stores /\ last' = last /\ spoiled' = spoiled
      /\ Keep(r, Nothing) /\ used' = used /\ Goto(r, "idle")
      /\ locks' = [locks EXCEPT ![Global] = Released(locks[Global], r)]
  BY Zenon DEF ReleaseGlobal, history, stores
<1>2. pc' \in [Requests -> Places] /\ pc'[r] = "idle" /\ \A s \in Requests : s # r => pc'[s] = pc[s]
  BY Zenon, <1>1, Goes DEF Places
<1>3. mine' \in [Requests -> Memories] /\ mine'[r] = Nothing /\ \A s \in Requests : s # r => mine'[s] = mine[s]
  BY Zenon, <1>1, Keeps, NothingIsMemory
<1>4. LockTypes' /\ Owns(r)
  <2>1. LockTypes /\ Global \in Keys
    BY Zenon, Facts DEF Keys
  <2>2. /\ GoodLock(Released(locks[Global], r))
        /\ \A s \in Requests : s # r => Released(locks[Global], r).owners[s] = locks[Global].owners[s]
    BY Zenon, <2>1, ReleasedGood DEF LockTypes
  <2> QED BY Zenon, <1>1, <1>2, <2>1, <2>2 DEF LockTypes, Owns
<1>5. Works(r) /\ spoiled' \in BOOLEAN /\ used' \in [{"request", "fault"} -> Nat]
  BY Zenon, <1>1, <1>2, <1>3, Facts DEF Works
<1>6. ~spoiled => Clean(Pack(r))
  BY Zenon, <1>1, Facts DEF Busy
<1> QED BY Zenon, <1>1, <1>2, <1>3, <1>4, <1>5, <1>6, Stops

LEMMA ReleaseFailsKeeps ==
  ASSUME PackInv, NEW r \in Requests, ReleaseFails(r)
  PROVE  PackInv'
<1> DEFINE l == IF pc[r] = "release" THEN "global" ELSE "idle"
<1>1. /\ pc[r] \in {"release", "global"} /\ stores' = stores /\ last' = last
      /\ spoiled' = spoiled /\ mine' = mine /\ Use("fault") /\ Goto(r, l) /\ locks' = locks
  BY Zenon DEF ReleaseFails, stores
<1>2. l \in {"global", "idle"} /\ l \in Places
  BY Zenon DEF Places
<1> HIDE DEF l
<1>3. pc' \in [Requests -> Places] /\ pc'[r] = l /\ \A s \in Requests : s # r => pc'[s] = pc[s]
  BY Zenon, <1>1, <1>2, Goes
<1>4. Works(r) /\ spoiled' \in BOOLEAN
  BY Zenon, <1>1, <1>3, Facts DEF Works
<1>5. used' \in [{"request", "fault"} -> Nat]
  BY Zenon, <1>1, Uses
<1>6. ~spoiled => Clean(Pack(r))
  BY Zenon, <1>1, Facts DEF Busy
<1> QED BY Zenon, <1>1, <1>2, <1>3, <1>4, <1>5, <1>6, LocksStay, Stops
-----------------------------------------------------------------------------
(* Steps that write nothing                                                *)

LEMMA Quiet ==
  ASSUME PackInv, NEW r \in Requests, pc[r] # "idle", Works(r), stores' = stores, last' = last,
         locks' = locks, spoiled' \in BOOLEAN, used' \in [{"request", "fault"} -> Nat],
         spoiled => spoiled',
         KindOK(r)', CopyOK(r)', ProgressOK(r)', UndoOK(r)',
         Busy(r)' \/ (~spoiled' => Clean(Pack(r)))
  PROVE  PackInv'
<1>1. docs' = docs /\ resource' = resource /\ topics' = topics /\ credential' = credential
  BY Zenon DEF stores
<1>2. /\ resource' \in [Packs -> Values] /\ topics' \in [Packs -> Contents]
      /\ credential' \in [Packs -> {"none", "live", "revoked"}]
  BY Zenon, <1>1, Facts DEF StoreTypes
<1> QED BY Zenon, <1>1, <1>2, LocksStay, DocsStay

\* A request that has taken back, or not applied, its overlay and its fragment
\* leaves its pack clean.
LEMMA CleanAgain ==
  ASSUME PackInv, NEW r \in Requests, ~spoiled,
         pc[r] \in {"load"} \cup InstallPlaces \cup UndoPlaces,
         "conf" \notin mine[r].applied, "pol" \notin mine[r].applied
  PROVE  Clean(Pack(r))
  BY Zenon, Facts DEF UndoOK, Undoable, Clean

LEMMA PlanKeeps ==
  ASSUME PackInv, NEW r \in Requests, Plan(r)
  PROVE  PackInv'
<1> DEFINE m == [mine[r] EXCEPT !.before.resource = resource[Pack(r)]]
<1> DEFINE l == pc'[r]
<1>1. /\ pc[r] = "plan" /\ stores' = stores /\ last' = last /\ spoiled' = spoiled
      /\ used' = used /\ locks' = locks /\ Keep(r, m)
  BY Zenon DEF Plan, history, stores, Pack
<1>2. /\ Goto(r, l) /\ l \in {"release", "conf", "register"}
      /\ l = "conf" => resource[Pack(r)] = mine[r].version
  BY Zenon, <1>1, Facts DEF Plan, Goto, Pack
<1>3. StoreTypes /\ KindOK(r) /\ CopyOK(r) /\ ProgressOK(r) /\ UndoOK(r) /\ mine[r] \in Memories
      /\ Pack(r) \in Packs /\ resource[Pack(r)] \in Values
  BY Zenon, <1>1, Facts DEF KindOK, StoreTypes
<1>4. /\ m \in Memories /\ m.pack = mine[r].pack /\ m.op = mine[r].op /\ m.alone = mine[r].alone
      /\ m.version = mine[r].version /\ m.applied = mine[r].applied /\ m.registry = mine[r].registry
  BY Zenon, <1>3 DEF Memories, Befores
<1> HIDE DEF l, m
<1>5. pc' \in [Requests -> Places] /\ pc'[r] = l /\ \A s \in Requests : s # r => pc'[s] = pc[s]
  BY Zenon, <1>2, Goes DEF Places, InstallPlaces
<1>6. mine' \in [Requests -> Memories] /\ mine'[r] = m /\ \A s \in Requests : s # r => mine'[s] = mine[s]
  BY Zenon, <1>1, <1>4, Keeps
<1>7. Works(r)
  BY Zenon, <1>4, <1>5, <1>6 DEF Works
<1>8. docs' = docs /\ resource' = resource
  BY Zenon, <1>1 DEF stores
<1>9. KindOK(r)'
  BY Zenon, <1>1, <1>2, <1>3, <1>4, <1>5, <1>6 DEF KindOK, UninstallPlaces, Pack
<1>10. CopyOK(r)'
  BY Zenon, <1>2, <1>3, <1>4, <1>5, <1>6, <1>8 DEF CopyOK
<1>11. ProgressOK(r)'
  BY Zenon, <1>2, <1>4, <1>5, <1>6, <1>8 DEF ProgressOK, Installed, Removed, Pack
<1>12. "conf" \notin mine[r].applied /\ "pol" \notin mine[r].applied
  BY Zenon, <1>1, <1>3 DEF KindOK
<1>13. ~spoiled => Clean(Pack(r))
  BY Zenon, <1>1, <1>12, CleanAgain DEF InstallPlaces
<1>14. UndoOK(r)'
  BY Zenon, <1>1, <1>4, <1>6, <1>8, <1>12, <1>13 DEF UndoOK, Undoable, Clean, Agrees, Pack
<1> QED BY Zenon, <1>1, <1>7, <1>9, <1>10, <1>11, <1>13, <1>14, Facts, Quiet

LEMMA ReadDocKeeps ==
  ASSUME PackInv, NEW r \in Requests, ReadDoc(r)
  PROVE  PackInv'
<1> DEFINE m == IF pc[r] = "reg" THEN [mine[r] EXCEPT !.registry = docs[pc[r]]]
                ELSE [mine[r] EXCEPT !.doc = docs[pc[r]]]
<1> DEFINE l == IF pc[r] = "conf" THEN "setConf" ELSE IF pc[r] = "pol" THEN "setPol" ELSE "setReg"
<1>1. /\ pc[r] \in {"conf", "pol", "reg"} /\ stores' = stores /\ last' = last /\ spoiled' = spoiled
      /\ used' = used /\ locks' = locks /\ Keep(r, m) /\ Goto(r, l)
  BY Zenon DEF ReadDoc, history, stores, Documents, Get
<1>2. StoreTypes /\ KindOK(r) /\ CopyOK(r) /\ ProgressOK(r) /\ UndoOK(r) /\ mine[r] \in Memories
  BY Zenon, Facts
<1>3. /\ m \in Memories /\ m.pack = mine[r].pack /\ m.op = mine[r].op /\ m.alone = mine[r].alone
      /\ m.version = mine[r].version /\ m.applied = mine[r].applied /\ m.before = mine[r].before
      /\ m.registry = IF pc[r] = "reg" THEN docs["reg"] ELSE mine[r].registry
      /\ pc[r] # "reg" => m.doc = docs[pc[r]]
  <2>1. CASE pc[r] = "reg"
    BY Zenon, <1>2, <2>1, MemoryUpdates DEF StoreTypes, Memories
  <2>2. CASE pc[r] \in {"conf", "pol"}
    BY Zenon, <1>2, <2>2, MemoryUpdates DEF StoreTypes, Memories
  <2> QED BY Zenon, <1>1, <2>1, <2>2
<1> HIDE DEF m
<1>4. /\ pc' \in [Requests -> Places] /\ pc'[r] = l /\ \A s \in Requests : s # r => pc'[s] = pc[s]
      /\ l \in {"setConf", "setPol", "setReg"}
  <2>1. l \in {"setConf", "setPol", "setReg"}
    BY Zenon
  <2> QED BY Zenon, <1>1, <2>1, Goes DEF Places, InstallPlaces
<1>5. mine' \in [Requests -> Memories] /\ mine'[r] = m /\ \A s \in Requests : s # r => mine'[s] = mine[s]
  BY Zenon, <1>1, <1>3, Keeps
<1>6. Works(r)
  BY Zenon, <1>3, <1>4, <1>5 DEF Works
<1>7. docs' = docs /\ resource' = resource /\ topics' = topics /\ credential' = credential
  BY Zenon, <1>1 DEF stores
<1>8. KindOK(r)'
  BY Zenon, <1>1, <1>2, <1>3, <1>4, <1>5 DEF KindOK, UninstallPlaces, Pack
<1>9. CopyOK(r)'
  <2>1. \A d \in Documents : Seen(docs[d], docs[d])
    BY <1>2 DEF Seen, StoreTypes, Docs, Registries, Documents
  <2> QED BY Zenon, <1>1, <1>2, <1>3, <1>4, <1>5, <1>7, <2>1 DEF CopyOK, Documents
<1>10. ProgressOK(r)'
  BY Zenon, <1>1, <1>2, <1>3, <1>4, <1>5, <1>7 DEF ProgressOK, Installed, Removed, Pack
<1>11. UndoOK(r)'
  BY Zenon, <1>1, <1>2, <1>3, <1>5, <1>7 DEF UndoOK, Undoable, Agrees, Pack, InstallPlaces
<1>12. Busy(r)'
  BY Zenon, <1>4 DEF Busy
<1>13. pc[r] # "idle" /\ spoiled' \in BOOLEAN /\ used' \in [{"request", "fault"} -> Nat]
  BY Zenon, <1>1, Facts
<1> QED BY Zenon, <1>1, <1>6, <1>8, <1>9, <1>10, <1>11, <1>12, <1>13, Quiet
LEMMA ConflictKeeps ==
  ASSUME PackInv, NEW r \in Requests, Conflict(r)
  PROVE  PackInv'
<1>1. /\ pc[r] \in {"setConf", "setPol", "setReg"} /\ stores' = stores /\ last' = last
      /\ spoiled' = spoiled /\ used' = used /\ locks' = locks /\ mine' = mine /\ Goto(r, "undo")
  BY Zenon DEF Conflict, history, stores, Writing
<1>2. KindOK(r) /\ CopyOK(r) /\ UndoOK(r)
  BY Zenon, Facts
<1>3. pc' \in [Requests -> Places] /\ pc'[r] = "undo" /\ \A s \in Requests : s # r => pc'[s] = pc[s]
  BY Zenon, <1>1, Goes DEF Places, UndoPlaces
<1>4. Works(r)
  BY Zenon, <1>1, <1>3, Facts DEF Works
<1>5. docs' = docs
  BY Zenon, <1>1 DEF stores
<1>6. KindOK(r)'
  BY Zenon, <1>1, <1>2, <1>3 DEF KindOK, UninstallPlaces, Pack
<1>7. CopyOK(r)'
  BY Zenon, <1>1, <1>2, <1>3, <1>5 DEF CopyOK
<1>8. ProgressOK(r)'
  BY Zenon, <1>3 DEF ProgressOK, Installed, Removed
<1>9. UndoOK(r)'
  BY Zenon, <1>1, <1>2, <1>5 DEF UndoOK, Undoable, Agrees, Pack, InstallPlaces
<1>10. Busy(r)'
  BY Zenon, <1>3 DEF Busy
<1>11. pc[r] # "idle" /\ spoiled' \in BOOLEAN /\ used' \in [{"request", "fault"} -> Nat]
  BY Zenon, <1>1, Facts
<1> QED BY Zenon, <1>1, <1>4, <1>6, <1>7, <1>8, <1>9, <1>10, <1>11, Quiet

LEMMA UndoReadKeeps ==
  ASSUME PackInv, NEW r \in Requests, UndoRead(r)
  PROVE  PackInv'
<1> DEFINE d == Undoing(r)  m == [mine[r] EXCEPT !.doc = docs[d]]
<1>1. Undoing(r) \in {"conf", "pol"}
  BY Zenon, UndoingIs, FirstOf DEF UndoRead, Documents, UndoSteps
<1>2. /\ pc[r] = "undo" /\ stores' = stores /\ last' = last /\ spoiled' = spoiled
      /\ used' = used /\ locks' = locks /\ Keep(r, m) /\ Goto(r, "undoSet")
  BY Zenon, <1>1 DEF UndoRead, history, stores, Get
<1>3. StoreTypes /\ KindOK(r) /\ CopyOK(r) /\ UndoOK(r) /\ mine[r] \in Memories
  BY Zenon, Facts
<1> HIDE DEF d
<1>4. d \in {"conf", "pol"} /\ d = Undoing(r) /\ docs[d] \in Docs
  BY Zenon, <1>1, <1>3 DEF d, StoreTypes
<1>5. /\ m \in Memories /\ m.pack = mine[r].pack /\ m.op = mine[r].op /\ m.alone = mine[r].alone
      /\ m.applied = mine[r].applied /\ m.before = mine[r].before
      /\ m.registry = mine[r].registry /\ m.doc = docs[d] /\ m.version = mine[r].version
  <2>1. m \in Memories
    BY Zenon, <1>3, <1>4, MemoryUpdates
  <2> QED BY Zenon, <1>3, <2>1 DEF Memories
<1> HIDE DEF m
<1>6. pc' \in [Requests -> Places] /\ pc'[r] = "undoSet" /\ \A s \in Requests : s # r => pc'[s] = pc[s]
  BY Zenon, <1>2, Goes DEF Places, UndoPlaces
<1>7. mine' \in [Requests -> Memories] /\ mine'[r] = m /\ \A s \in Requests : s # r => mine'[s] = mine[s]
  BY Zenon, <1>2, <1>5, Keeps
<1>8. Works(r)
  BY Zenon, <1>5, <1>6, <1>7 DEF Works
<1>9. docs' = docs
  BY Zenon, <1>2 DEF stores
<1>10. KindOK(r)'
  BY Zenon, <1>2, <1>3, <1>5, <1>6, <1>7 DEF KindOK, UninstallPlaces, Pack
<1>11. CopyOK(r)'
  <2>1. Seen(docs[d], docs[d])
    BY <1>4 DEF Seen, Docs
  <2>2. Undoing(r)' = d
    BY <1>4, <1>5, <1>7, UndoingIs
  <2> QED BY Zenon, <1>3, <1>4, <1>5, <1>6, <1>7, <1>9, <2>1, <2>2 DEF CopyOK
<1>12. ProgressOK(r)'
  BY Zenon, <1>6 DEF ProgressOK, Installed, Removed
<1>13. UndoOK(r)'
  BY Zenon, <1>2, <1>3, <1>5, <1>7, <1>9 DEF UndoOK, Undoable, Agrees, Pack, UndoPlaces
<1>14. Busy(r)'
  BY Zenon, <1>6 DEF Busy
<1>15. pc[r] # "idle" /\ spoiled' \in BOOLEAN /\ used' \in [{"request", "fault"} -> Nat]
  BY Zenon, <1>2, Facts
<1> QED BY Zenon, <1>2, <1>8, <1>10, <1>11, <1>12, <1>13, <1>14, <1>15, Quiet

LEMMA UndoFailsKeeps ==
  ASSUME PackInv, NEW r \in Requests, UndoFails(r)
  PROVE  PackInv'
<1> DEFINE m == [mine[r] EXCEPT !.applied = mine[r].applied \ {Undoing(r)}]
<1>1. /\ pc[r] \in {"undo", "undoSet"} /\ stores' = stores /\ last' = last /\ spoiled' = TRUE
      /\ Use("fault") /\ locks' = locks /\ Keep(r, m) /\ Goto(r, "undo")
  BY Zenon DEF UndoFails, history, stores, Undone
<1>2. KindOK(r) /\ CopyOK(r) /\ mine[r] \in Memories /\ mine[r].applied \in SUBSET UndoSteps
  BY Zenon, Facts DEF Memories
<1>3. /\ m \in Memories /\ m.pack = mine[r].pack /\ m.op = mine[r].op /\ m.alone = mine[r].alone
      /\ m.registry = mine[r].registry
  <2>1. mine[r].applied \ {Undoing(r)} \in SUBSET UndoSteps
    BY Zenon, <1>2
  <2>2. m \in Memories
    BY Zenon, <1>2, <2>1, MemoryUpdates
  <2> QED BY Zenon, <1>2, <2>2 DEF Memories
<1> HIDE DEF m
<1>4. pc' \in [Requests -> Places] /\ pc'[r] = "undo" /\ \A s \in Requests : s # r => pc'[s] = pc[s]
  BY Zenon, <1>1, Goes DEF Places, UndoPlaces
<1>5. mine' \in [Requests -> Memories] /\ mine'[r] = m /\ \A s \in Requests : s # r => mine'[s] = mine[s]
  BY Zenon, <1>1, <1>3, Keeps
<1>6. Works(r)
  BY Zenon, <1>3, <1>4, <1>5 DEF Works
<1>7. KindOK(r)'
  BY Zenon, <1>1, <1>2, <1>3, <1>4, <1>5 DEF KindOK, UninstallPlaces, Pack
<1>8. CopyOK(r)'
  BY Zenon, <1>1, <1>2, <1>3, <1>4, <1>5 DEF CopyOK, stores
<1>9. ProgressOK(r)' /\ UndoOK(r)' /\ Busy(r)'
  BY Zenon, <1>1, <1>4 DEF ProgressOK, Installed, Removed, UndoOK, Busy
<1>10. pc[r] # "idle" /\ spoiled' \in BOOLEAN /\ used' \in [{"request", "fault"} -> Nat]
  BY Zenon, <1>1, Uses
<1> QED BY Zenon, <1>1, <1>6, <1>7, <1>8, <1>9, <1>10, Quiet

LEMMA UndoEndsKeeps ==
  ASSUME PackInv, NEW r \in Requests, UndoEnds(r)
  PROVE  PackInv'
<1>1. /\ pc[r] = "undo" /\ stores' = stores /\ last' = last /\ spoiled' = spoiled
      /\ used' = used /\ locks' = locks /\ mine' = mine /\ Goto(r, "release")
  BY Zenon DEF UndoEnds, history, stores
<1>2. pc' \in [Requests -> Places] /\ pc'[r] = "release" /\ \A s \in Requests : s # r => pc'[s] = pc[s]
  BY Zenon, <1>1, Goes DEF Places
<1>3. Works(r) /\ spoiled' \in BOOLEAN /\ used' \in [{"request", "fault"} -> Nat]
  BY Zenon, <1>1, <1>2, Facts DEF Works
<1>4. "conf" \notin mine[r].applied /\ "pol" \notin mine[r].applied
  BY Zenon, UndoingIs, FirstOf DEF UndoEnds
<1>5. ~spoiled' => Clean(Pack(r))
  BY Zenon, <1>1, <1>4, CleanAgain DEF UndoPlaces
<1> QED BY Zenon, <1>1, <1>2, <1>3, <1>5, LocksStay, Stops
LEMMA LoadKeeps ==
  ASSUME PackInv, NEW r \in Requests, Load(r)
  PROVE  PackInv'
<1> DEFINE m == [mine[r] EXCEPT !.registry = docs["reg"]]
<1> DEFINE l == IF docs["reg"].at[Pack(r)] = NoRecord THEN "release" ELSE "dropConf"
<1>1. /\ pc[r] = "load" /\ stores' = stores /\ last' = last /\ spoiled' = spoiled
      /\ used' = used /\ locks' = locks /\ Keep(r, m) /\ Goto(r, l)
  BY Zenon DEF Load, history, stores, Get
<1>2. StoreTypes /\ KindOK(r) /\ mine[r] \in Memories /\ docs["reg"] \in Registries
  BY Zenon, Facts DEF StoreTypes
<1>3. /\ m \in Memories /\ m.pack = mine[r].pack /\ m.op = mine[r].op /\ m.alone = mine[r].alone
      /\ m.applied = mine[r].applied /\ m.registry = docs["reg"]
  <2>1. m \in Memories
    BY Zenon, <1>2, MemoryUpdates
  <2> QED BY Zenon, <1>2, <2>1 DEF Memories
<1>4. /\ l \in {"release", "dropConf"} /\ l \in Places
      /\ l = "release" => Clean(Pack(r))
  <2>1. NoRecord.status # "ACTIVE"
    BY Zenon DEF NoRecord, Record
  <2> QED BY Zenon, <2>1 DEF Places, UninstallPlaces, Clean, Agrees
<1> HIDE DEF m, l
<1>5. pc' \in [Requests -> Places] /\ pc'[r] = l /\ \A s \in Requests : s # r => pc'[s] = pc[s]
  BY Zenon, <1>1, <1>4, Goes
<1>6. mine' \in [Requests -> Memories] /\ mine'[r] = m /\ \A s \in Requests : s # r => mine'[s] = mine[s]
  BY Zenon, <1>1, <1>3, Keeps
<1>7. Works(r)
  BY Zenon, <1>3, <1>5, <1>6 DEF Works
<1>8. docs' = docs
  BY Zenon, <1>1 DEF stores
<1>9. KindOK(r)'
  BY Zenon, <1>1, <1>2, <1>3, <1>4, <1>5, <1>6 DEF KindOK, UninstallPlaces, Pack
<1>10. CopyOK(r)'
  <2>1. Seen(docs["reg"], docs["reg"])
    BY <1>2 DEF Seen, Registries
  <2> QED BY Zenon, <1>3, <1>4, <1>5, <1>6, <1>8, <2>1 DEF CopyOK
<1>11. ProgressOK(r)'
  BY Zenon, <1>4, <1>5 DEF ProgressOK, Installed, Removed
<1>12. UndoOK(r)'
  BY Zenon, <1>4, <1>5 DEF UndoOK, InstallPlaces, UndoPlaces
<1>13. Busy(r)' \/ (~spoiled' => Clean(Pack(r)))
  BY Zenon, <1>4, <1>5 DEF Busy
<1>14. pc[r] # "idle" /\ spoiled' \in BOOLEAN /\ used' \in [{"request", "fault"} -> Nat]
  BY Zenon, <1>1, Facts
<1> QED BY Zenon, <1>1, <1>7, <1>9, <1>10, <1>11, <1>12, <1>13, <1>14, Quiet

LEMMA DropReadKeeps ==
  ASSUME PackInv, NEW r \in Requests, DropRead(r)
  PROVE  PackInv'
<1> DEFINE d == IF pc[r] = "dropConf" THEN "conf" ELSE "pol"
<1> DEFINE l == IF pc[r] = "dropConf" THEN "unsetConf" ELSE "unsetPol"
<1> DEFINE m == [mine[r] EXCEPT !.doc = docs[d]]
<1>1. d # "reg"
  BY Zenon
<1>2. /\ pc[r] \in {"dropConf", "dropPol"} /\ stores' = stores /\ last' = last /\ spoiled' = spoiled
      /\ used' = used /\ locks' = locks /\ Keep(r, m) /\ Goto(r, l)
  BY Zenon, <1>1 DEF DropRead, history, stores, Get
<1>3. StoreTypes /\ KindOK(r) /\ CopyOK(r) /\ ProgressOK(r) /\ mine[r] \in Memories
  BY Zenon, Facts
<1>4. /\ docs[d] \in Docs /\ l \in Places
      /\ \/ d = "conf" /\ l = "unsetConf" /\ pc[r] = "dropConf"
         \/ d = "pol" /\ l = "unsetPol" /\ pc[r] = "dropPol"
  <2>1. docs["conf"] \in Docs /\ docs["pol"] \in Docs
    BY Zenon, <1>3 DEF StoreTypes
  <2>2. CASE pc[r] = "dropConf"
    BY Zenon, <2>1, <2>2 DEF Places, UninstallPlaces
  <2>3. CASE pc[r] = "dropPol"
    BY Zenon, <2>1, <2>3 DEF Places, UninstallPlaces
  <2> QED BY Zenon, <1>2, <2>2, <2>3
<1> HIDE DEF d, l
<1>5. /\ m \in Memories /\ m.pack = mine[r].pack /\ m.op = mine[r].op /\ m.alone = mine[r].alone
      /\ m.version = mine[r].version /\ m.registry = mine[r].registry /\ m.doc = docs[d]
  <2>1. m \in Memories
    BY Zenon, <1>3, <1>4, MemoryUpdates
  <2> QED BY Zenon, <1>3, <2>1 DEF Memories
<1> HIDE DEF m
<1>6. pc' \in [Requests -> Places] /\ pc'[r] = l /\ \A s \in Requests : s # r => pc'[s] = pc[s]
  BY Zenon, <1>2, <1>4, Goes
<1>7. mine' \in [Requests -> Memories] /\ mine'[r] = m /\ \A s \in Requests : s # r => mine'[s] = mine[s]
  BY Zenon, <1>2, <1>5, Keeps
<1>8. Works(r)
  BY Zenon, <1>5, <1>6, <1>7 DEF Works
<1>9. docs' = docs /\ resource' = resource /\ topics' = topics /\ credential' = credential
  BY Zenon, <1>2 DEF stores
<1>10. KindOK(r)'
  BY Zenon, <1>2, <1>3, <1>4, <1>5, <1>6, <1>7 DEF KindOK, UninstallPlaces, Pack
<1>11. CopyOK(r)'
  <2>1. Seen(docs[d], docs[d])
    BY <1>4 DEF Seen, Docs
  <2> QED BY Zenon, <1>3, <1>4, <1>5, <1>6, <1>7, <1>9, <2>1 DEF CopyOK
<1>12. ProgressOK(r)'
  BY Zenon, <1>2, <1>3, <1>4, <1>5, <1>6, <1>7, <1>9 DEF ProgressOK, Installed, Removed, Pack
<1>13. UndoOK(r)' /\ Busy(r)'
  BY Zenon, <1>4, <1>6 DEF UndoOK, InstallPlaces, UndoPlaces, Busy
<1>14. pc[r] # "idle" /\ spoiled' \in BOOLEAN /\ used' \in [{"request", "fault"} -> Nat]
  BY Zenon, <1>2, Facts
<1> QED BY Zenon, <1>2, <1>8, <1>10, <1>11, <1>12, <1>13, <1>14, Quiet

LEMMA ClientLeavesKeeps ==
  ASSUME PackInv, NEW r \in Requests, ClientLeaves(r)
  PROVE  PackInv'
<1> DEFINE m == [mine[r] EXCEPT !.cut = TRUE]
<1>1. /\ pc[r] \notin {"idle", "release", "global"} /\ stores' = stores /\ last' = last
      /\ spoiled' = spoiled /\ Use("fault") /\ locks' = locks /\ Keep(r, m) /\ pc' = pc
  BY Zenon DEF ClientLeaves, history, stores
<1>2. /\ KindOK(r) /\ CopyOK(r) /\ ProgressOK(r) /\ UndoOK(r) /\ mine[r] \in Memories
      /\ ~spoiled /\ ~Busy(r) => Clean(Pack(r))
  BY Zenon, <1>1, Facts
<1>3. /\ m \in Memories /\ m.pack = mine[r].pack /\ m.op = mine[r].op /\ m.alone = mine[r].alone
      /\ m.version = mine[r].version /\ m.registry = mine[r].registry /\ m.doc = mine[r].doc
      /\ m.applied = mine[r].applied /\ m.before = mine[r].before
  <2>1. m \in Memories
    BY Zenon, <1>2, MemoryUpdates
  <2> QED BY Zenon, <1>2, <2>1 DEF Memories
<1> HIDE DEF m
<1>4. mine' \in [Requests -> Memories] /\ mine'[r] = m /\ \A s \in Requests : s # r => mine'[s] = mine[s]
  BY Zenon, <1>1, <1>3, Keeps
<1>5. Works(r)
  BY Zenon, <1>1, <1>3, <1>4, Facts DEF Works
<1>6. docs' = docs /\ resource' = resource /\ topics' = topics /\ credential' = credential
  BY Zenon, <1>1 DEF stores
<1>7. KindOK(r)'
  BY Zenon, <1>1, <1>2, <1>3, <1>4 DEF KindOK, Pack
<1>8. CopyOK(r)'
  <2>1. Undoing(r)' = Undoing(r)
    BY <1>3, <1>4, UndoingIs
  <2> QED BY Zenon, <1>1, <1>2, <1>3, <1>4, <1>6, <2>1 DEF CopyOK
<1>9. ProgressOK(r)'
  BY Zenon, <1>1, <1>2, <1>3, <1>4, <1>6 DEF ProgressOK, Installed, Removed, Pack
<1>10. UndoOK(r)'
  BY Zenon, <1>1, <1>2, <1>3, <1>4, <1>6 DEF UndoOK, Undoable, Agrees, Pack
<1>11. Busy(r)' \/ (~spoiled' => Clean(Pack(r)))
  BY Zenon, <1>1, <1>2 DEF Busy
<1>12. spoiled' \in BOOLEAN /\ used' \in [{"request", "fault"} -> Nat]
  BY Zenon, <1>1, Facts, Uses
<1> QED BY Zenon, <1>1, <1>5, <1>7, <1>8, <1>9, <1>10, <1>11, <1>12, Quiet

\* A request that is not halfway leaves its pack clean.
LEMMA NotHalfway ==
  ASSUME PackInv, NEW r \in Requests, pc[r] # "idle", ~spoiled, ~Halfway(r)
  PROVE  Clean(Pack(r))
<1>1. KindOK(r) /\ mine[r].applied = {} /\ mine[r].op # "uninstall" /\ pc[r] \in Places
  BY Zenon, Facts DEF Halfway
<1>2. CASE pc[r] \in {"pack", "release", "global"}
  BY Zenon, <1>2, Facts DEF Busy
<1>3. CASE pc[r] \in InstallPlaces \cup UndoPlaces
  BY Zenon, <1>1, <1>3, CleanAgain
<1>4. pc[r] \notin UninstallPlaces
  BY Zenon, <1>1 DEF KindOK
<1> QED BY Zenon, <1>1, <1>2, <1>3, <1>4 DEF Places

LEMMA CutShortKeeps ==
  ASSUME PackInv, NEW r \in Requests, CutShort(r)
  PROVE  PackInv'
<1> DEFINE l == IF pc[r] = "pack" THEN "global" ELSE "release"
<1>1. /\ pc[r] # "idle" /\ stores' = stores /\ last' = last
      /\ spoiled' = (spoiled \/ Halfway(r)) /\ used' = used
      /\ locks' = locks /\ mine' = mine /\ Goto(r, l)
  BY Zenon DEF CutShort, stores
<1>2. l \in {"global", "release"} /\ l \in Places
  BY Zenon DEF Places
<1> HIDE DEF l
<1>3. pc' \in [Requests -> Places] /\ pc'[r] = l /\ \A s \in Requests : s # r => pc'[s] = pc[s]
  BY Zenon, <1>1, <1>2, Goes
<1>4. Works(r) /\ used' \in [{"request", "fault"} -> Nat]
  BY Zenon, <1>1, <1>3, Facts DEF Works
<1>5. spoiled' \in BOOLEAN /\ (spoiled => spoiled')
  BY Zenon, <1>1, Facts DEF Halfway
<1>6. ~spoiled' => Clean(Pack(r))
  BY Zenon, <1>1, NotHalfway
<1> QED BY Zenon, <1>1, <1>2, <1>3, <1>4, <1>5, <1>6, LocksStay, Stops

LEMMA CrashKeeps ==
  ASSUME PackInv, NEW r \in Requests, Crash(r)
  PROVE  PackInv'
<1>1. /\ pc[r] # "idle" /\ stores' = stores /\ last' = last
      /\ spoiled' = (spoiled \/ Halfway(r)) /\ Use("fault")
      /\ locks' = locks /\ Keep(r, Nothing) /\ Goto(r, "idle")
  BY Zenon DEF Crash, stores
<1>2. pc' \in [Requests -> Places] /\ pc'[r] = "idle" /\ \A s \in Requests : s # r => pc'[s] = pc[s]
  BY Zenon, <1>1, Goes DEF Places
<1>3. mine' \in [Requests -> Memories] /\ mine'[r] = Nothing /\ \A s \in Requests : s # r => mine'[s] = mine[s]
  BY Zenon, <1>1, Keeps, NothingIsMemory
<1>4. Works(r)
  BY Zenon, <1>2, <1>3 DEF Works
<1>5. spoiled' \in BOOLEAN /\ (spoiled => spoiled')
  BY Zenon, <1>1, Facts DEF Halfway
<1>6. ~spoiled' => Clean(Pack(r))
  BY Zenon, <1>1, NotHalfway
<1>7. used' \in [{"request", "fault"} -> Nat]
  BY Zenon, <1>1, Uses
<1> QED BY Zenon, <1>1, <1>2, <1>3, <1>4, <1>5, <1>6, <1>7, LocksStay, Stops
-----------------------------------------------------------------------------
(* Steps that write the resources, the topics or the credential            *)

\* The step is added to the applied ones; it is not the overlay or the fragment.
LEMMA DidStep ==
  ASSUME PackInv, NEW r \in Requests, NEW step \in {"resource", "topics", "cred"},
         Keep(r, Did(mine[r], step))
  PROVE  /\ mine' \in [Requests -> Memories]
         /\ \A s \in Requests : s # r => mine'[s] = mine[s]
         /\ mine'[r].pack = mine[r].pack /\ mine'[r].op = mine[r].op
         /\ mine'[r].alone = mine[r].alone /\ mine'[r].version = mine[r].version
         /\ mine'[r].before = mine[r].before /\ mine'[r].registry = mine[r].registry
         /\ \A x \in {"conf", "pol"} : x \in mine'[r].applied <=> x \in mine[r].applied
<1> DEFINE m == [mine[r] EXCEPT !.applied = mine[r].applied \cup {step}]
<1>1. mine[r] \in Memories /\ mine[r].applied \in SUBSET UndoSteps
  BY Zenon, Facts DEF Memories
<1>2. m \in Memories
  <2>1. mine[r].applied \cup {step} \in SUBSET UndoSteps
    BY Zenon, <1>1 DEF UndoSteps
  <2> QED BY Zenon, <1>1, <2>1, MemoryUpdates
<1>3. /\ m.pack = mine[r].pack /\ m.op = mine[r].op /\ m.alone = mine[r].alone
      /\ m.version = mine[r].version /\ m.before = mine[r].before
      /\ m.registry = mine[r].registry /\ m.applied = mine[r].applied \cup {step}
  BY Zenon, <1>1 DEF Memories
<1>4. Keep(r, m)
  BY Zenon DEF Did
<1> HIDE DEF m
<1>5. mine' \in [Requests -> Memories] /\ mine'[r] = m /\ \A s \in Requests : s # r => mine'[s] = mine[s]
  BY Zenon, <1>2, <1>4, Keeps
<1> QED BY Zenon, <1>3, <1>5

LEMMA RegisterKeeps ==
  ASSUME PackInv, NEW r \in Requests, Register(r)
  PROVE  PackInv'
<1>1. /\ pc[r] = "register" /\ docs' = docs /\ topics' = topics /\ credential' = credential
      /\ last' = last /\ spoiled' = spoiled /\ used' = used /\ locks' = locks
      /\ resource' = [resource EXCEPT ![Pack(r)] = mine[r].version]
      /\ Goto(r, "conf")
  BY Zenon DEF Register, InstallWrite
<1>2. StoreTypes /\ KindOK(r) /\ CopyOK(r) /\ ProgressOK(r) /\ UndoOK(r) /\ mine[r].version \in Values
      /\ Pack(r) \in Packs
  BY Zenon, <1>1, Facts DEF Memories, KindOK
<1>3. pc' \in [Requests -> Places] /\ pc'[r] = "conf" /\ \A s \in Requests : s # r => pc'[s] = pc[s]
  BY Zenon, <1>1, Goes DEF Places, InstallPlaces
<1>4. /\ mine' \in [Requests -> Memories]
      /\ \A s \in Requests : s # r => mine'[s] = mine[s]
      /\ mine'[r].pack = mine[r].pack /\ mine'[r].op = mine[r].op
      /\ mine'[r].alone = mine[r].alone /\ mine'[r].version = mine[r].version
      /\ mine'[r].before = mine[r].before /\ mine'[r].registry = mine[r].registry
      /\ \A x \in {"conf", "pol"} : x \in mine'[r].applied <=> x \in mine[r].applied
  BY Zenon, DidStep DEF Register
<1>5. Works(r)
  BY Zenon, <1>3, <1>4 DEF Works
<1>6. /\ resource' \in [Packs -> Values] /\ topics' \in [Packs -> Contents]
      /\ credential' \in [Packs -> {"none", "live", "revoked"}]
      /\ resource'[Pack(r)] = mine[r].version
  BY Zenon, <1>1, <1>2 DEF StoreTypes
<1>7. KindOK(r)'
  BY Zenon, <1>1, <1>2, <1>3, <1>4 DEF KindOK, UninstallPlaces, Pack
<1>8. CopyOK(r)'
  BY Zenon, <1>1, <1>2, <1>3, <1>4 DEF CopyOK
<1>9. ProgressOK(r)'
  BY Zenon, <1>3, <1>4, <1>6 DEF ProgressOK, Installed, Removed, Pack
<1>10. UndoOK(r)'
  BY Zenon, <1>1, <1>2, <1>4 DEF UndoOK, Undoable, Agrees, Pack, InstallPlaces
<1>11. Busy(r)'
  BY Zenon, <1>3 DEF Busy
<1>12. pc[r] # "idle" /\ spoiled' \in BOOLEAN /\ used' \in [{"request", "fault"} -> Nat]
  BY Zenon, <1>1, Facts
<1> QED BY Zenon, <1>1, <1>5, <1>6, <1>7, <1>8, <1>9, <1>10, <1>11, <1>12, LocksStay, DocsStay

LEMMA SetTopicsKeeps ==
  ASSUME PackInv, NEW r \in Requests, SetTopics(r)
  PROVE  PackInv'
<1>1. /\ pc[r] = "topics" /\ docs' = docs /\ resource' = resource /\ credential' = credential
      /\ last' = last /\ spoiled' = spoiled /\ used' = used /\ locks' = locks
      /\ topics' = [topics EXCEPT ![Pack(r)] = Written(topics[Pack(r)], mine[r].version)]
      /\ Goto(r, "cred")
  BY Zenon DEF SetTopics, InstallWrite
<1>2. StoreTypes /\ KindOK(r) /\ CopyOK(r) /\ ProgressOK(r) /\ UndoOK(r) /\ mine[r].version \in Values
      /\ Pack(r) \in Packs
  BY Zenon, <1>1, Facts DEF Memories, KindOK
<1>3. pc' \in [Requests -> Places] /\ pc'[r] = "cred" /\ \A s \in Requests : s # r => pc'[s] = pc[s]
  BY Zenon, <1>1, Goes DEF Places, InstallPlaces
<1>4. /\ mine' \in [Requests -> Memories]
      /\ \A s \in Requests : s # r => mine'[s] = mine[s]
      /\ mine'[r].pack = mine[r].pack /\ mine'[r].op = mine[r].op
      /\ mine'[r].alone = mine[r].alone /\ mine'[r].version = mine[r].version
      /\ mine'[r].before = mine[r].before /\ mine'[r].registry = mine[r].registry
      /\ \A x \in {"conf", "pol"} : x \in mine'[r].applied <=> x \in mine[r].applied
  BY Zenon, DidStep DEF SetTopics
<1>5. Works(r)
  BY Zenon, <1>3, <1>4 DEF Works
<1>6. /\ resource' \in [Packs -> Values] /\ topics' \in [Packs -> Contents]
      /\ credential' \in [Packs -> {"none", "live", "revoked"}]
      /\ Has(topics'[Pack(r)], mine[r].version)
  <2>1. topics[Pack(r)] \in Contents
    BY Zenon, <1>2 DEF StoreTypes
  <2>2. /\ Written(topics[Pack(r)], mine[r].version) \in Contents
        /\ Has(Written(topics[Pack(r)], mine[r].version), mine[r].version)
    BY Zenon, <1>2, <2>1, WrittenIs
  <2> QED BY Zenon, <1>1, <1>2, <2>2 DEF StoreTypes
<1>7. KindOK(r)'
  BY Zenon, <1>1, <1>2, <1>3, <1>4 DEF KindOK, UninstallPlaces, Pack
<1>8. CopyOK(r)'
  BY Zenon, <1>1, <1>2, <1>3, <1>4 DEF CopyOK
<1>9. ProgressOK(r)'
  BY Zenon, <1>1, <1>2, <1>3, <1>4, <1>6 DEF ProgressOK, Installed, Removed, Pack
<1>10. UndoOK(r)'
  BY Zenon, <1>1, <1>2, <1>4 DEF UndoOK, Undoable, Agrees, Pack, InstallPlaces
<1>11. Busy(r)'
  BY Zenon, <1>3 DEF Busy
<1>12. pc[r] # "idle" /\ spoiled' \in BOOLEAN /\ used' \in [{"request", "fault"} -> Nat]
  BY Zenon, <1>1, Facts
<1> QED BY Zenon, <1>1, <1>5, <1>6, <1>7, <1>8, <1>9, <1>10, <1>11, <1>12, LocksStay, DocsStay

LEMMA IssueCredentialKeeps ==
  ASSUME PackInv, NEW r \in Requests, IssueCredential(r)
  PROVE  PackInv'
<1>1. /\ pc[r] = "cred" /\ docs' = docs /\ resource' = resource /\ topics' = topics
      /\ last' = last /\ spoiled' = spoiled /\ used' = used /\ locks' = locks
      /\ credential' = [credential EXCEPT ![Pack(r)] = "live"]
      /\ Goto(r, "reg")
  BY Zenon DEF IssueCredential, InstallWrite
<1>2. StoreTypes /\ KindOK(r) /\ CopyOK(r) /\ ProgressOK(r) /\ UndoOK(r) /\ Pack(r) \in Packs
  BY Zenon, <1>1, Facts DEF KindOK
<1>3. pc' \in [Requests -> Places] /\ pc'[r] = "reg" /\ \A s \in Requests : s # r => pc'[s] = pc[s]
  BY Zenon, <1>1, Goes DEF Places, InstallPlaces
<1>4. /\ mine' \in [Requests -> Memories]
      /\ \A s \in Requests : s # r => mine'[s] = mine[s]
      /\ mine'[r].pack = mine[r].pack /\ mine'[r].op = mine[r].op
      /\ mine'[r].alone = mine[r].alone /\ mine'[r].version = mine[r].version
      /\ mine'[r].before = mine[r].before /\ mine'[r].registry = mine[r].registry
      /\ \A x \in {"conf", "pol"} : x \in mine'[r].applied <=> x \in mine[r].applied
  BY Zenon, DidStep DEF IssueCredential
<1>5. Works(r)
  BY Zenon, <1>3, <1>4 DEF Works
<1>6. /\ resource' \in [Packs -> Values] /\ topics' \in [Packs -> Contents]
      /\ credential' \in [Packs -> {"none", "live", "revoked"}]
      /\ credential'[Pack(r)] = "live"
  BY Zenon, <1>1, <1>2 DEF StoreTypes
<1>7. KindOK(r)'
  BY Zenon, <1>1, <1>2, <1>3, <1>4 DEF KindOK, UninstallPlaces, Pack
<1>8. CopyOK(r)'
  BY Zenon, <1>1, <1>2, <1>3, <1>4 DEF CopyOK
<1>9. ProgressOK(r)'
  BY Zenon, <1>1, <1>2, <1>3, <1>4, <1>6 DEF ProgressOK, Installed, Removed, Pack
<1>10. UndoOK(r)'
  BY Zenon, <1>1, <1>2, <1>4 DEF UndoOK, Undoable, Agrees, Pack, InstallPlaces
<1>11. Busy(r)'
  BY Zenon, <1>3 DEF Busy
<1>12. pc[r] # "idle" /\ spoiled' \in BOOLEAN /\ used' \in [{"request", "fault"} -> Nat]
  BY Zenon, <1>1, Facts
<1> QED BY Zenon, <1>1, <1>5, <1>6, <1>7, <1>8, <1>9, <1>10, <1>11, <1>12, LocksStay, DocsStay

\* The step is no longer to be taken back.
LEMMA UndoneStep ==
  ASSUME PackInv, NEW r \in Requests, NEW step, Keep(r, Undone(mine[r], step))
  PROVE  /\ mine' \in [Requests -> Memories]
         /\ \A s \in Requests : s # r => mine'[s] = mine[s]
         /\ mine'[r].pack = mine[r].pack /\ mine'[r].op = mine[r].op
         /\ mine'[r].alone = mine[r].alone /\ mine'[r].version = mine[r].version
         /\ mine'[r].before = mine[r].before /\ mine'[r].registry = mine[r].registry
         /\ mine'[r].applied = mine[r].applied \ {step}
<1> DEFINE m == [mine[r] EXCEPT !.applied = mine[r].applied \ {step}]
<1>1. mine[r] \in Memories /\ mine[r].applied \in SUBSET UndoSteps
  BY Zenon, Facts DEF Memories
<1>2. m \in Memories
  <2>1. mine[r].applied \ {step} \in SUBSET UndoSteps
    BY Zenon, <1>1
  <2> QED BY Zenon, <1>1, <2>1, MemoryUpdates
<1>3. /\ m.pack = mine[r].pack /\ m.op = mine[r].op /\ m.alone = mine[r].alone
      /\ m.version = mine[r].version /\ m.before = mine[r].before
      /\ m.registry = mine[r].registry /\ m.applied = mine[r].applied \ {step}
  BY Zenon, <1>1 DEF Memories
<1>4. Keep(r, m)
  BY Zenon DEF Undone
<1> HIDE DEF m
<1>5. mine' \in [Requests -> Memories] /\ mine'[r] = m /\ \A s \in Requests : s # r => mine'[s] = mine[s]
  BY Zenon, <1>2, <1>4, Keeps
<1> QED BY Zenon, <1>3, <1>5

LEMMA UndoKeeps ==
  ASSUME PackInv, NEW r \in Requests, Undo(r)
  PROVE  PackInv'
<1>1. /\ pc[r] = "undo" /\ docs' = docs /\ last' = last /\ spoiled' = spoiled /\ used' = used
      /\ locks' = locks /\ pc' = pc
      /\ Undoing(r) \in {"cred", "topics", "resource"}
      /\ Keep(r, Undone(mine[r], Undoing(r)))
      /\ credential' = credential \/ credential' = [credential EXCEPT ![Pack(r)] = "revoked"]
      /\ \/ topics' = topics
         \/ topics' = [topics EXCEPT ![Pack(r)] = Erased(topics[Pack(r)], mine[r].version)]
      /\ resource' = resource \/ resource' = [resource EXCEPT ![Pack(r)] = mine[r].before.resource]
  BY Zenon DEF Undo, history
<1>2. StoreTypes /\ KindOK(r) /\ CopyOK(r) /\ UndoOK(r) /\ mine[r].before \in Befores
      /\ Pack(r) \in Packs
  BY Zenon, <1>1, Facts DEF Memories, KindOK
<1>3. /\ mine' \in [Requests -> Memories]
      /\ \A s \in Requests : s # r => mine'[s] = mine[s]
      /\ mine'[r].pack = mine[r].pack /\ mine'[r].op = mine[r].op
      /\ mine'[r].alone = mine[r].alone /\ mine'[r].version = mine[r].version
      /\ mine'[r].before = mine[r].before /\ mine'[r].registry = mine[r].registry
      /\ mine'[r].applied = mine[r].applied \ {Undoing(r)}
  BY Zenon, <1>1, UndoneStep
<1>4. \A x \in {"conf", "pol"} : x \in mine'[r].applied <=> x \in mine[r].applied
  BY Zenon, <1>1, <1>3
<1>5. Works(r)
  BY Zenon, <1>1, <1>3, Facts DEF Works
<1>6. /\ resource' \in [Packs -> Values] /\ topics' \in [Packs -> Contents]
      /\ credential' \in [Packs -> {"none", "live", "revoked"}]
  <2>1. mine[r].before.resource \in Values /\ topics[Pack(r)] \in Contents
    BY Zenon, <1>2 DEF Befores, StoreTypes
  <2>2. Erased(topics[Pack(r)], mine[r].version) \in Contents
    BY Zenon, <2>1, ErasedIs
  <2> QED BY Zenon, <1>1, <1>2, <2>1, <2>2 DEF StoreTypes
<1>7. KindOK(r)'
  BY Zenon, <1>1, <1>2, <1>3 DEF KindOK, UninstallPlaces, Pack
<1>8. CopyOK(r)'
  BY Zenon, <1>1, <1>2, <1>3 DEF CopyOK
<1>9. ProgressOK(r)'
  BY Zenon, <1>1 DEF ProgressOK, Installed, Removed
<1>10. UndoOK(r)'
  BY Zenon, <1>1, <1>2, <1>3, <1>4 DEF UndoOK, Undoable, Agrees, Pack
<1>11. Busy(r)'
  BY Zenon, <1>1 DEF Busy
<1>12. pc[r] # "idle" /\ spoiled' \in BOOLEAN /\ used' \in [{"request", "fault"} -> Nat]
  BY Zenon, <1>1, Facts
<1> QED BY Zenon, <1>1, <1>5, <1>6, <1>7, <1>8, <1>9, <1>10, <1>11, <1>12, LocksStay, DocsStay
\* A step of an uninstall that writes no document.
LEMMA UninstallWrites ==
  ASSUME PackInv, NEW r \in Requests, pc[r] \in UninstallPlaces, NEW l \in Places, Goto(r, l),
         l \in {"disable", "revoke", "release"},
         mine' = mine, docs' = docs, last' = last, locks' = locks, spoiled' = spoiled, used' = used,
         resource' \in [Packs -> Values], topics' \in [Packs -> Contents],
         credential' \in [Packs -> {"none", "live", "revoked"}],
         ProgressOK(r)', ~spoiled /\ l = "release" => Clean(Pack(r))
  PROVE  PackInv'
<1>1. StoreTypes /\ KindOK(r) /\ CopyOK(r) /\ pc[r] # "idle"
  BY Zenon, Facts DEF UninstallPlaces
<1>2. pc' \in [Requests -> Places] /\ pc'[r] = l /\ \A s \in Requests : s # r => pc'[s] = pc[s]
  BY Zenon, Goes
<1>3. Works(r)
  BY Zenon, <1>2, Facts DEF Works
<1>4. KindOK(r)'
  BY Zenon, <1>1, <1>2 DEF KindOK, Pack
<1>5. CopyOK(r)'
  BY Zenon, <1>1, <1>2 DEF CopyOK
<1>6. UndoOK(r)'
  BY Zenon, <1>2 DEF UndoOK, InstallPlaces, UndoPlaces
<1>7. ~spoiled' /\ ~Busy(r)' => Clean(Pack(r))
  BY Zenon, <1>2 DEF Busy
<1>8. spoiled' \in BOOLEAN /\ used' \in [{"request", "fault"} -> Nat]
  BY Zenon, Facts
<1> QED BY Zenon, <1>1, <1>3, <1>4, <1>5, <1>6, <1>7, <1>8, LocksStay, DocsStay

LEMMA PurgeKeeps ==
  ASSUME PackInv, NEW r \in Requests, Purge(r)
  PROVE  PackInv'
<1>1. /\ pc[r] = "purge" /\ docs' = docs /\ topics' = topics /\ credential' = credential
      /\ last' = last /\ spoiled' = spoiled /\ used' = used /\ locks' = locks /\ mine' = mine
      /\ Goto(r, "disable")
      /\ resource' = resource \/ resource' = [resource EXCEPT ![Pack(r)] = None]
  BY Zenon DEF Purge, history
<1>2. StoreTypes /\ ProgressOK(r) /\ None \in Values
  BY Zenon, Facts DEF Values
<1>3. "disable" \in Places /\ pc[r] \in UninstallPlaces
  BY Zenon, <1>1 DEF Places, UninstallPlaces
<1>4. /\ resource' \in [Packs -> Values] /\ topics' \in [Packs -> Contents]
      /\ credential' \in [Packs -> {"none", "live", "revoked"}]
  BY Zenon, <1>1, <1>2 DEF StoreTypes
<1>5. pc'[r] = "disable"
  BY Zenon, <1>1, <1>3, Goes
<1>6. ProgressOK(r)'
  BY Zenon, <1>1, <1>2, <1>5 DEF ProgressOK, Installed, Removed, Pack
<1> QED BY Zenon, <1>1, <1>3, <1>4, <1>6, UninstallWrites

\* Where each write of an uninstall goes on.
LEMMA AfterWriteIs ==
  /\ DOMAIN AfterWrite = {"unsetConf", "unsetPol", "disable", "dropTopics", "revoke"}
  /\ AfterWrite["unsetConf"] = "dropPol" /\ AfterWrite["unsetPol"] = "purge"
  /\ AfterWrite["disable"] = "dropTopics" /\ AfterWrite["dropTopics"] = "revoke"
  /\ AfterWrite["revoke"] = "release"
  BY DEF AfterWrite

LEMMA DropTopicsKeeps ==
  ASSUME PackInv, NEW r \in Requests, DropWrite(r), pc[r] = "dropTopics"
  PROVE  PackInv'
<1> DEFINE v == mine[r].registry.at[Pack(r)].version
<1>1. /\ pc[r] = "dropTopics" /\ docs' = docs /\ resource' = resource /\ credential' = credential
      /\ last' = last /\ spoiled' = spoiled /\ used' = used /\ locks' = locks /\ mine' = mine
      /\ Goto(r, "revoke")
      /\ topics' = [topics EXCEPT ![Pack(r)] = Erased(topics[Pack(r)], v)]
  BY Zenon, AfterWriteIs DEF DropWrite, UninstallWrite, Recorded
<1>2. StoreTypes /\ ProgressOK(r) /\ Pack(r) \in Packs /\ topics[Pack(r)] \in Contents
  BY Zenon, <1>1, Facts DEF KindOK, StoreTypes
<1>3. "revoke" \in Places /\ pc[r] \in UninstallPlaces
  BY Zenon, <1>1 DEF Places, UninstallPlaces
<1>4. /\ resource' \in [Packs -> Values] /\ topics' \in [Packs -> Contents]
      /\ credential' \in [Packs -> {"none", "live", "revoked"}]
      /\ Lacks(topics'[Pack(r)], v)
  <2> HIDE DEF v
  <2>1. Erased(topics[Pack(r)], v) \in Contents /\ Lacks(Erased(topics[Pack(r)], v), v)
    BY Zenon, <1>2, ErasedIs
  <2> QED BY Zenon, <1>1, <1>2, <2>1 DEF StoreTypes
<1>5. pc'[r] = "revoke"
  BY Zenon, <1>1, <1>3, Goes
<1>6. ProgressOK(r)'
  BY Zenon, <1>1, <1>2, <1>4, <1>5 DEF ProgressOK, Installed, Removed, Pack
<1> QED BY Zenon, <1>1, <1>3, <1>4, <1>6, UninstallWrites

LEMMA RevokeKeeps ==
  ASSUME PackInv, NEW r \in Requests, DropWrite(r), pc[r] = "revoke"
  PROVE  PackInv'
<1>1. /\ pc[r] = "revoke" /\ docs' = docs /\ resource' = resource /\ topics' = topics
      /\ last' = last /\ spoiled' = spoiled /\ used' = used /\ locks' = locks /\ mine' = mine
      /\ Goto(r, "release")
      /\ credential' = [credential EXCEPT ![Pack(r)] =
                          IF credential[Pack(r)] = "none" THEN credential[Pack(r)] ELSE "revoked"]
  BY Zenon, AfterWriteIs DEF DropWrite, UninstallWrite
<1>2. StoreTypes /\ ProgressOK(r)
  BY Zenon, Facts
<1>3. "release" \in Places /\ pc[r] \in UninstallPlaces
  BY Zenon, <1>1 DEF Places, UninstallPlaces
<1>4. /\ resource' \in [Packs -> Values] /\ topics' \in [Packs -> Contents]
      /\ credential' \in [Packs -> {"none", "live", "revoked"}]
  BY Zenon, <1>1, <1>2 DEF StoreTypes
<1>5. pc'[r] = "release"
  BY Zenon, <1>1, <1>3, Goes
<1>6. ProgressOK(r)'
  BY Zenon, <1>5 DEF ProgressOK, Installed, Removed
<1>7. ~spoiled => Clean(Pack(r))
  BY Zenon, <1>1, <1>2 DEF ProgressOK, Removed, Clean, Agrees
<1> QED BY Zenon, <1>1, <1>3, <1>4, <1>6, <1>7, UninstallWrites

-----------------------------------------------------------------------------
(* Steps that write a document                                             *)

\* A write against the revision that was read replaces what is there.
LEMMA PutIs ==
  ASSUME StoreTypes, NEW r, NEW d \in Documents, NEW at, Current(r, d), Put(r, d, at)
  PROVE  /\ DOMAIN docs' = Documents
         /\ docs'[d] = [rev |-> docs[d].rev + 1, at |-> at]
         /\ docs'[d].rev = docs[d].rev + 1 /\ docs'[d].at = at
         /\ \A e \in Documents : e # d => docs'[e] = docs[e]
         /\ Grows
<1>1. docs' = [docs EXCEPT ![d] = [rev |-> docs[d].rev + 1, at |-> at]]
  BY Zenon DEF Put, Current
<1>2. DOMAIN docs = Documents /\ docs[d].rev \in Nat
  BY Zenon DEF StoreTypes, Documents, Docs, Registries
<1>3. /\ DOMAIN docs' = Documents
      /\ docs'[d] = [rev |-> docs[d].rev + 1, at |-> at]
      /\ \A e \in Documents : e # d => docs'[e] = docs[e]
  BY Zenon, <1>1, <1>2
<1>4. docs'[d].rev = docs[d].rev + 1 /\ docs'[d].at = at
  BY <1>3
<1>5. Grows
  BY <1>2, <1>3, <1>4 DEF Grows
<1> QED BY Zenon, <1>3, <1>4, <1>5

\* A write of the configuration or of the policy.
LEMMA PutDoc ==
  ASSUME PackInv, NEW r \in Requests, NEW d \in {"conf", "pol"}, NEW at \in [Packs -> Contents],
         Current(r, d), Put(r, d, at),
         resource' = resource, topics' = topics, credential' = credential, last' = last
  PROVE  /\ StoreTypes' /\ Grows /\ docs'[d].at = at
         /\ \A e \in Documents : e # d => docs'[e] = docs[e]
<1>1. StoreTypes /\ d \in Documents /\ docs[d] \in Docs /\ docs[d].rev \in Nat
  BY Zenon, Facts DEF StoreTypes, Documents, Docs
<1>2. /\ DOMAIN docs' = Documents /\ Grows
      /\ docs'[d] = [rev |-> docs[d].rev + 1, at |-> at]
      /\ docs'[d].rev = docs[d].rev + 1 /\ docs'[d].at = at
      /\ \A e \in Documents : e # d => docs'[e] = docs[e]
  BY <1>1, PutIs
<1>3. docs'[d] \in Docs /\ docs'[d].rev # 0
  <2>1. docs[d].rev + 1 \in Nat /\ docs[d].rev + 1 # 0
    BY <1>1
  <2> QED BY Zenon, <1>2, <2>1 DEF Docs
<1>4. StoreTypes'
  BY Zenon, <1>1, <1>2, <1>3 DEF StoreTypes, Documents
<1> QED BY Zenon, <1>2, <1>4

LEMMA SetConfKeeps ==
  ASSUME PackInv, NEW r \in Requests, SetConf(r)
  PROVE  PackInv'
<1>1. PICK p : p = Pack(r)
  BY Zenon
<1>2. PICK v : v = mine[r].version
  BY Zenon
<1> DEFINE at == docs["conf"].at
<1> DEFINE c == Written(at[p], v)
<1> DEFINE n == [mine[r] EXCEPT !.before.conf = at]
<1> DEFINE m == [n EXCEPT !.applied = n.applied \cup {"conf"}]
<1>3. StoreTypes /\ KindOK(r) /\ CopyOK(r) /\ ProgressOK(r) /\ UndoOK(r) /\ mine[r] \in Memories
  BY Zenon, Facts
<1>4. /\ pc[r] = "setConf" /\ Current(r, "conf") /\ Goto(r, "pol")
      /\ resource' = resource /\ topics' = topics /\ credential' = credential
      /\ locks' = locks /\ last' = last /\ spoiled' = spoiled /\ used' = used
  BY Zenon DEF SetConf, InstallWrite, SetEntries
<1>5. mine[r].doc.at = at
  BY Zenon, <1>3, <1>4 DEF CopyOK, Seen, Current, Read
<1>6. Put(r, "conf", [at EXCEPT ![p] = c]) /\ Keep(r, m)
  BY Zenon, <1>1, <1>2, <1>4, <1>5 DEF SetConf, InstallWrite, SetEntries, Did
<1>7. p \in Packs /\ v \in Values /\ at \in [Packs -> Contents] /\ at[p] \in Contents
  BY Zenon, <1>1, <1>2, <1>3, <1>4 DEF KindOK, Memories, StoreTypes, Docs
<1>8. /\ m \in Memories /\ m.pack = p /\ m.op = mine[r].op /\ m.alone = mine[r].alone
      /\ m.version = v /\ m.registry = mine[r].registry
      /\ m.applied = mine[r].applied \cup {"conf"} /\ m.before.conf = at
      /\ m.before.pol = mine[r].before.pol
  <2> HIDE DEF at
  <2>1. n \in Memories /\ n.before.conf = at /\ n.before.pol = mine[r].before.pol
    BY Zenon, <1>3, <1>7 DEF Memories, Befores
  <2>2. /\ n.pack = p /\ n.op = mine[r].op /\ n.alone = mine[r].alone /\ n.version = v
        /\ n.registry = mine[r].registry /\ n.applied = mine[r].applied
    BY Zenon, <1>1, <1>2, <1>3 DEF Memories, Pack
  <2> HIDE DEF n
  <2>3. n.applied \cup {"conf"} \in SUBSET UndoSteps
    BY Zenon, <2>1 DEF Memories, UndoSteps
  <2>4. m \in Memories
    BY Zenon, <2>1, <2>3, MemoryUpdates
  <2>5. /\ m.pack = n.pack /\ m.op = n.op /\ m.alone = n.alone /\ m.version = n.version
        /\ m.registry = n.registry /\ m.applied = n.applied \cup {"conf"} /\ m.before = n.before
    BY Zenon, <2>1 DEF Memories
  <2> QED BY Zenon, <2>1, <2>2, <2>4, <2>5
<1>20. c \in Contents /\ Has(c, v) /\ Overlaid(c, v, at[p]) = at[p]
  BY Zenon, <1>7, WrittenIs
<1> HIDE DEF n, m, c
<1>9. /\ DOMAIN docs' = Documents /\ Grows
      /\ docs'["conf"] = [rev |-> docs["conf"].rev + 1, at |-> [at EXCEPT ![p] = c]]
      /\ docs'["conf"].rev = docs["conf"].rev + 1
      /\ docs'["conf"].at = [at EXCEPT ![p] = c]
      /\ docs'["pol"] = docs["pol"] /\ docs'["reg"] = docs["reg"]
  BY Zenon, <1>3, <1>4, <1>6, PutIs DEF Documents
<1>10. docs'["conf"].at[p] = c /\ \A q \in Packs : q # p => docs'["conf"].at[q] = at[q]
  BY Zenon, <1>7, <1>9
<1>11. StoreTypes'
  <2>1. docs["conf"].rev \in Nat
    BY Zenon, <1>3 DEF StoreTypes, Docs
  <2>2. docs'["conf"] \in Docs /\ docs'["conf"].rev # 0
    BY <1>7, <1>9, <1>20, <2>1 DEF Docs
  <2> QED BY Zenon, <1>3, <1>4, <1>9, <2>2 DEF StoreTypes, Documents
<1>12. pc' \in [Requests -> Places] /\ pc'[r] = "pol" /\ \A s \in Requests : s # r => pc'[s] = pc[s]
  BY Zenon, <1>4, Goes DEF Places, InstallPlaces
<1>13. mine' \in [Requests -> Memories] /\ mine'[r] = m /\ \A s \in Requests : s # r => mine'[s] = mine[s]
  BY Zenon, <1>6, <1>8, Keeps
<1>14. Works(r) /\ OnlyAt(p)
  BY Zenon, <1>1, <1>8, <1>9, <1>10, <1>12, <1>13 DEF Works, OnlyAt, Pack
<1>15. KindOK(r)'
  BY Zenon, <1>3, <1>4, <1>7, <1>8, <1>12, <1>13 DEF KindOK, UninstallPlaces, Pack
<1>16. CopyOK(r)'
  BY Zenon, <1>3, <1>8, <1>9, <1>12, <1>13 DEF CopyOK
<1>17. ProgressOK(r)'
  BY <1>1, <1>2, <1>3, <1>4, <1>8, <1>9, <1>10, <1>20, <1>12, <1>13 DEF ProgressOK, Installed, Removed, Pack
<1>18. UndoOK(r)'
  <2>1. "conf" \notin mine[r].applied /\ "pol" \notin mine[r].applied
    BY Zenon, <1>3, <1>4 DEF KindOK
  <2>2. ~spoiled => Agrees(p, docs["conf"].at[p], docs["pol"].at[p])
    BY Zenon, <1>1, <1>3, <1>4, <2>1 DEF UndoOK, Undoable, InstallPlaces
  <2>3. ~spoiled' => Undoable(r)'
    BY <1>4, <1>8, <1>9, <1>10, <1>13, <2>1, <2>2 DEF Undoable, Agrees, Pack
  <2> QED BY Zenon, <2>3 DEF UndoOK
<1>19. Busy(r)' /\ pc[r] # "idle" /\ spoiled' \in BOOLEAN /\ used' \in [{"request", "fault"} -> Nat]
  BY Zenon, <1>4, <1>12, Facts DEF Busy
<1> QED BY Zenon, <1>1, <1>4, <1>9, <1>11, <1>14, <1>15, <1>16, <1>17, <1>18, <1>19, LocksStay, StepKeeps

LEMMA SetPolKeeps ==
  ASSUME PackInv, NEW r \in Requests, SetPol(r)
  PROVE  PackInv'
<1>1. PICK p : p = Pack(r)
  BY Zenon
<1>2. PICK v : v = mine[r].version
  BY Zenon
<1> DEFINE at == docs["pol"].at
<1> DEFINE c == Written(at[p], v)
<1> DEFINE n == [mine[r] EXCEPT !.before.pol = at[p]]
<1> DEFINE m == [n EXCEPT !.applied = n.applied \cup {"pol"}]
<1>3. StoreTypes /\ KindOK(r) /\ CopyOK(r) /\ ProgressOK(r) /\ UndoOK(r) /\ mine[r] \in Memories
  BY Zenon, Facts
<1>4. /\ pc[r] = "setPol" /\ Current(r, "pol") /\ Goto(r, "topics")
      /\ resource' = resource /\ topics' = topics /\ credential' = credential
      /\ locks' = locks /\ last' = last /\ spoiled' = spoiled /\ used' = used
  BY Zenon DEF SetPol, InstallWrite, SetEntries
<1>5. mine[r].doc.at = at
  BY Zenon, <1>3, <1>4 DEF CopyOK, Seen, Current, Read
<1>6. Put(r, "pol", [at EXCEPT ![p] = c]) /\ Keep(r, m)
  BY Zenon, <1>1, <1>2, <1>4, <1>5 DEF SetPol, InstallWrite, SetEntries, Did
<1>7. p \in Packs /\ v \in Values /\ at \in [Packs -> Contents] /\ at[p] \in Contents
  BY Zenon, <1>1, <1>2, <1>3, <1>4 DEF KindOK, Memories, StoreTypes, Docs
<1>8. /\ m \in Memories /\ m.pack = p /\ m.op = mine[r].op /\ m.alone = mine[r].alone
      /\ m.version = v /\ m.registry = mine[r].registry
      /\ m.applied = mine[r].applied \cup {"pol"} /\ m.before.conf = mine[r].before.conf
      /\ m.before.pol = at[p]
  <2> HIDE DEF at
  <2>1. n \in Memories /\ n.before.pol = at[p] /\ n.before.conf = mine[r].before.conf
    BY Zenon, <1>3, <1>7 DEF Memories, Befores
  <2>2. /\ n.pack = p /\ n.op = mine[r].op /\ n.alone = mine[r].alone /\ n.version = v
        /\ n.registry = mine[r].registry /\ n.applied = mine[r].applied
    BY Zenon, <1>1, <1>2, <1>3 DEF Memories, Pack
  <2> HIDE DEF n
  <2>3. n.applied \cup {"pol"} \in SUBSET UndoSteps
    BY Zenon, <2>1 DEF Memories, UndoSteps
  <2>4. m \in Memories
    BY Zenon, <2>1, <2>3, MemoryUpdates
  <2>5. /\ m.pack = n.pack /\ m.op = n.op /\ m.alone = n.alone /\ m.version = n.version
        /\ m.registry = n.registry /\ m.applied = n.applied \cup {"pol"} /\ m.before = n.before
    BY Zenon, <2>1 DEF Memories
  <2> QED BY Zenon, <2>1, <2>2, <2>4, <2>5
<1>20. c \in Contents /\ Has(c, v) /\ Overlaid(c, v, at[p]) = at[p]
  BY Zenon, <1>7, WrittenIs
<1> HIDE DEF n, m, c
<1>9. /\ DOMAIN docs' = Documents /\ Grows
      /\ docs'["pol"] = [rev |-> docs["pol"].rev + 1, at |-> [at EXCEPT ![p] = c]]
      /\ docs'["pol"].rev = docs["pol"].rev + 1
      /\ docs'["pol"].at = [at EXCEPT ![p] = c]
      /\ docs'["conf"] = docs["conf"] /\ docs'["reg"] = docs["reg"]
  BY Zenon, <1>3, <1>4, <1>6, PutIs DEF Documents
<1>10. docs'["pol"].at[p] = c /\ \A q \in Packs : q # p => docs'["pol"].at[q] = at[q]
  BY Zenon, <1>7, <1>9
<1>11. StoreTypes'
  <2>1. docs["pol"].rev \in Nat
    BY Zenon, <1>3 DEF StoreTypes, Docs
  <2>2. docs'["pol"] \in Docs /\ docs'["pol"].rev # 0
    BY <1>7, <1>9, <1>20, <2>1 DEF Docs
  <2> QED BY Zenon, <1>3, <1>4, <1>9, <2>2 DEF StoreTypes, Documents
<1>12. pc' \in [Requests -> Places] /\ pc'[r] = "topics" /\ \A s \in Requests : s # r => pc'[s] = pc[s]
  BY Zenon, <1>4, Goes DEF Places, InstallPlaces
<1>13. mine' \in [Requests -> Memories] /\ mine'[r] = m /\ \A s \in Requests : s # r => mine'[s] = mine[s]
  BY Zenon, <1>6, <1>8, Keeps
<1>14. Works(r) /\ OnlyAt(p)
  BY Zenon, <1>1, <1>8, <1>9, <1>10, <1>12, <1>13 DEF Works, OnlyAt, Pack
<1>15. KindOK(r)'
  BY Zenon, <1>3, <1>4, <1>7, <1>8, <1>12, <1>13 DEF KindOK, UninstallPlaces, Pack
<1>16. CopyOK(r)'
  BY Zenon, <1>3, <1>8, <1>9, <1>12, <1>13 DEF CopyOK
<1>17. ProgressOK(r)'
  BY <1>1, <1>2, <1>3, <1>4, <1>8, <1>9, <1>10, <1>20, <1>12, <1>13 DEF ProgressOK, Installed, Removed, Pack
<1>18. UndoOK(r)'
  <2>1. "pol" \notin mine[r].applied
    BY Zenon, <1>3, <1>4 DEF KindOK
  <2>2. ~spoiled => Undoable(r)
    BY Zenon, <1>3, <1>4 DEF UndoOK, InstallPlaces
  <2>3. ASSUME ~spoiled' PROVE Undoable(r)'
    <3>1. /\ Agrees(p, IF "conf" \in mine[r].applied THEN mine[r].before.conf[p] ELSE docs["conf"].at[p],
                       at[p])
          /\ "conf" \in mine[r].applied =>
               \A q \in Packs : q # p => docs["conf"].at[q] = mine[r].before.conf[q]
      BY Zenon, <1>1, <1>4, <2>1, <2>2, <2>3 DEF Undoable
    <3>2. /\ Pack(r)' = p /\ "pol" \in mine'[r].applied /\ mine'[r].before.pol = at[p]
          /\ mine'[r].version = v /\ Overlaid(docs'["pol"].at[p], v, at[p]) = at[p]
          /\ ("conf" \in mine'[r].applied) = ("conf" \in mine[r].applied)
          /\ mine'[r].before.conf = mine[r].before.conf
      BY <1>8, <1>10, <1>13, <1>20 DEF Pack
    <3> HIDE DEF at
    <3> QED BY Zenon, <1>9, <3>1, <3>2 DEF Undoable, Agrees
  <2> QED BY Zenon, <2>3 DEF UndoOK
<1>19. Busy(r)' /\ pc[r] # "idle" /\ spoiled' \in BOOLEAN /\ used' \in [{"request", "fault"} -> Nat]
  BY Zenon, <1>4, <1>12, Facts DEF Busy
<1> QED BY Zenon, <1>1, <1>4, <1>9, <1>11, <1>14, <1>15, <1>16, <1>17, <1>18, <1>19, LocksStay, StepKeeps
\* savePackRegistry against the revision that was read changes one record.
LEMMA SaveIs ==
  ASSUME PackInv, NEW r \in Requests, pc[r] # "idle", NEW p, p = Pack(r),
         NEW rec \in Records, Save(r, rec)
  PROVE  /\ Grows /\ OnlyAt(p)
         /\ docs'["reg"] \in Registries /\ docs'["reg"].rev # 0
         /\ DOMAIN docs' = Documents
         /\ docs'["conf"] = docs["conf"] /\ docs'["pol"] = docs["pol"]
         /\ docs'["reg"].at[p] = rec /\ last' = docs'["reg"].at
         /\ Seen(mine[r].registry, docs'["reg"])
<1> DEFINE at == docs["reg"].at
<1>1. StoreTypes /\ CopyOK(r) /\ mine[r] \in Memories /\ p \in Packs
  BY Zenon, Facts DEF KindOK
<1>2. docs["reg"].rev \in Nat /\ at \in [Packs -> Records] /\ last = at
  BY Zenon, <1>1 DEF StoreTypes, Registries
<1>3. Current(r, "reg") /\ mine[r].registry.at = at /\ mine[r].registry.rev = docs["reg"].rev
  BY Zenon, <1>1 DEF Save, CopyOK, Seen, Current, Read
<1>4. Put(r, "reg", [at EXCEPT ![p] = rec]) /\ last' = [at EXCEPT ![p] = rec]
  BY Zenon, <1>2, <1>3 DEF Save
<1>5. /\ DOMAIN docs' = Documents /\ Grows
      /\ docs'["reg"] = [rev |-> docs["reg"].rev + 1, at |-> [at EXCEPT ![p] = rec]]
      /\ docs'["reg"].rev = docs["reg"].rev + 1 /\ docs'["reg"].at = [at EXCEPT ![p] = rec]
      /\ docs'["conf"] = docs["conf"] /\ docs'["pol"] = docs["pol"]
  BY <1>1, <1>3, <1>4, PutIs DEF Documents
<1> HIDE DEF at
<1>6. docs'["reg"].at[p] = rec /\ \A q \in Packs : q # p => docs'["reg"].at[q] = at[q]
  BY Zenon, <1>1, <1>2, <1>5
<1>7. docs'["reg"] \in Registries /\ docs'["reg"].rev # 0
  BY <1>1, <1>2, <1>5 DEF Registries
<1>8. OnlyAt(p)
  BY Zenon, <1>5, <1>6 DEF OnlyAt, at
<1>9. Seen(mine[r].registry, docs'["reg"])
  BY <1>2, <1>3, <1>5 DEF Seen
<1> QED BY Zenon, <1>4, <1>5, <1>6, <1>7, <1>8, <1>9

LEMMA SetRegKeeps ==
  ASSUME PackInv, NEW r \in Requests, SetReg(r)
  PROVE  PackInv'
<1>1. PICK p : p = Pack(r)
  BY Zenon
<1> DEFINE rec == Record("ACTIVE", mine[r].version)
<1>2. /\ pc[r] = "setReg" /\ Goto(r, "release") /\ Save(r, rec)
      /\ resource' = resource /\ topics' = topics /\ credential' = credential
      /\ locks' = locks /\ mine' = mine /\ spoiled' = spoiled /\ used' = used
  BY Zenon DEF SetReg, InstallWrite
<1>3. StoreTypes /\ KindOK(r) /\ CopyOK(r) /\ ProgressOK(r) /\ mine[r].version \in Values
  BY Zenon, Facts DEF Memories
<1>4. rec \in Records /\ rec.status = "ACTIVE" /\ rec.version = mine[r].version
  BY Zenon, <1>3 DEF Record, Records
<1> HIDE DEF rec
<1>5. /\ Grows /\ OnlyAt(p)
      /\ docs'["reg"] \in Registries /\ docs'["reg"].rev # 0
      /\ DOMAIN docs' = Documents
      /\ docs'["conf"] = docs["conf"] /\ docs'["pol"] = docs["pol"]
      /\ docs'["reg"].at[p] = rec /\ last' = docs'["reg"].at
      /\ Seen(mine[r].registry, docs'["reg"])
  BY Zenon, <1>1, <1>2, <1>4, SaveIs
<1>6. StoreTypes'
  BY Zenon, <1>2, <1>3, <1>5 DEF StoreTypes, Documents
<1>7. pc' \in [Requests -> Places] /\ pc'[r] = "release" /\ \A s \in Requests : s # r => pc'[s] = pc[s]
  BY Zenon, <1>2, Goes DEF Places
<1>8. Works(r)
  BY Zenon, <1>2, <1>7, Facts DEF Works
<1>9. KindOK(r)'
  BY Zenon, <1>2, <1>3, <1>7 DEF KindOK, UninstallPlaces, Pack
<1>10. CopyOK(r)'
  BY Zenon, <1>2, <1>5, <1>7 DEF CopyOK
<1>11. ProgressOK(r)' /\ UndoOK(r)'
  BY Zenon, <1>7 DEF ProgressOK, Installed, Removed, UndoOK, InstallPlaces, UndoPlaces
<1>12. ~spoiled' => Clean(p)'
  <2>1. ~spoiled => Has(docs["conf"].at[p], mine[r].version) /\ Has(docs["pol"].at[p], mine[r].version)
    BY Zenon, <1>1, <1>2, <1>3 DEF ProgressOK, Installed
  <2> QED BY Zenon, <1>2, <1>4, <1>5, <2>1 DEF Clean, Agrees
<1>13. pc[r] # "idle" /\ spoiled' \in BOOLEAN /\ used' \in [{"request", "fault"} -> Nat]
  BY Zenon, <1>2, Facts
<1> QED BY Zenon, <1>1, <1>2, <1>5, <1>6, <1>8, <1>9, <1>10, <1>11, <1>12, <1>13, LocksStay, StepKeeps

LEMMA DisableKeeps ==
  ASSUME PackInv, NEW r \in Requests, DropWrite(r), pc[r] = "disable"
  PROVE  PackInv'
<1>1. PICK p : p = Pack(r)
  BY Zenon
<1> DEFINE old == mine[r].registry.at[p]
<1> DEFINE rec == [old EXCEPT !.status = "DISABLED"]
<1>2. /\ pc[r] = "disable" /\ Goto(r, "dropTopics") /\ Save(r, rec)
      /\ resource' = resource /\ topics' = topics /\ credential' = credential
      /\ locks' = locks /\ mine' = mine /\ spoiled' = spoiled /\ used' = used
  BY Zenon, <1>1, AfterWriteIs DEF DropWrite, UninstallWrite
<1>3. StoreTypes /\ KindOK(r) /\ CopyOK(r) /\ ProgressOK(r) /\ p \in Packs
      /\ mine[r].registry \in Registries
  BY Zenon, <1>1, <1>2, Facts DEF KindOK, Memories
<1>4. old \in Records
  BY Zenon, <1>3 DEF Registries
<1> HIDE DEF old
<1>5. rec \in Records /\ rec.status = "DISABLED" /\ rec.version = old.version
  BY Zenon, <1>4 DEF Records
<1> HIDE DEF rec
<1>6. /\ Grows /\ OnlyAt(p)
      /\ docs'["reg"] \in Registries /\ docs'["reg"].rev # 0
      /\ DOMAIN docs' = Documents
      /\ docs'["conf"] = docs["conf"] /\ docs'["pol"] = docs["pol"]
      /\ docs'["reg"].at[p] = rec /\ last' = docs'["reg"].at
      /\ Seen(mine[r].registry, docs'["reg"])
  BY Zenon, <1>1, <1>2, <1>5, SaveIs
<1>7. StoreTypes'
  BY Zenon, <1>2, <1>3, <1>6 DEF StoreTypes, Documents
<1>8. pc' \in [Requests -> Places] /\ pc'[r] = "dropTopics" /\ \A s \in Requests : s # r => pc'[s] = pc[s]
  BY Zenon, <1>2, Goes DEF Places, UninstallPlaces
<1>9. Works(r)
  BY Zenon, <1>2, <1>8, Facts DEF Works
<1>10. KindOK(r)'
  BY Zenon, <1>2, <1>3, <1>8 DEF KindOK, UninstallPlaces, Pack
<1>11. CopyOK(r)'
  BY Zenon, <1>2, <1>6, <1>8 DEF CopyOK
<1>12. ProgressOK(r)'
  BY Zenon, <1>1, <1>2, <1>3, <1>5, <1>6, <1>8 DEF ProgressOK, Installed, Removed, Pack, old
<1>13. UndoOK(r)' /\ Busy(r)'
  BY Zenon, <1>8 DEF UndoOK, InstallPlaces, UndoPlaces, Busy
<1>14. pc[r] # "idle" /\ spoiled' \in BOOLEAN /\ used' \in [{"request", "fault"} -> Nat]
  BY Zenon, <1>2, Facts
<1> QED BY Zenon, <1>1, <1>2, <1>6, <1>7, <1>9, <1>10, <1>11, <1>12, <1>13, <1>14, LocksStay, StepKeeps
LEMMA UnsetKeeps ==
  ASSUME PackInv, NEW r \in Requests, DropWrite(r), pc[r] \in {"unsetConf", "unsetPol"}
  PROVE  PackInv'
<1>1. PICK p : p = Pack(r)
  BY Zenon
<1> DEFINE v == mine[r].registry.at[p].version
<1>2. PICK d \in {"conf", "pol"} :
        /\ Current(r, d) /\ Put(r, d, [mine[r].doc.at EXCEPT ![p] = Erased(mine[r].doc.at[p], v)])
        /\ resource' = resource /\ topics' = topics /\ credential' = credential
        /\ locks' = locks /\ mine' = mine /\ last' = last /\ spoiled' = spoiled /\ used' = used
        /\ \/ d = "conf" /\ pc[r] = "unsetConf" /\ Goto(r, "dropPol")
           \/ d = "pol" /\ pc[r] = "unsetPol" /\ Goto(r, "purge")
  <2>1. CASE pc[r] = "unsetConf"
    BY Zenon, <1>1, <2>1, AfterWriteIs DEF DropWrite, UninstallWrite, SetEntries, Recorded
  <2>2. CASE pc[r] = "unsetPol"
    BY Zenon, <1>1, <2>2, AfterWriteIs DEF DropWrite, UninstallWrite, SetEntries, Recorded
  <2> QED BY Zenon, <2>1, <2>2
<1>3. StoreTypes /\ KindOK(r) /\ CopyOK(r) /\ ProgressOK(r)
  BY Zenon, Facts
<1>4. /\ mine[r].doc.at = docs[d].at /\ docs[d].at \in [Packs -> Contents] /\ p \in Packs
      /\ docs[d].at[p] \in Contents
  BY Zenon, <1>1, <1>2, <1>3 DEF CopyOK, Seen, Current, Read, StoreTypes, Docs, KindOK
<1> DEFINE at == [docs[d].at EXCEPT ![p] = Erased(docs[d].at[p], v)]
<1>5. /\ at \in [Packs -> Contents] /\ Lacks(at[p], v)
      /\ \A q \in Packs : q # p => at[q] = docs[d].at[q]
  <2> HIDE DEF v
  <2>1. Erased(docs[d].at[p], v) \in Contents /\ Lacks(Erased(docs[d].at[p], v), v)
    BY Zenon, <1>4, ErasedIs
  <2> QED BY Zenon, <1>4, <2>1
<1>6. Put(r, d, at)
  BY Zenon, <1>2, <1>4
<1> HIDE DEF at
<1>7. /\ StoreTypes' /\ Grows /\ docs'[d].at = at
      /\ \A e \in Documents : e # d => docs'[e] = docs[e]
  BY Zenon, <1>2, <1>5, <1>6, PutDoc
<1>8. OnlyAt(p)
  BY Zenon, <1>2, <1>5, <1>7 DEF OnlyAt, Documents
<1>9. /\ pc' \in [Requests -> Places] /\ \A s \in Requests : s # r => pc'[s] = pc[s]
      /\ \/ d = "conf" /\ pc[r] = "unsetConf" /\ pc'[r] = "dropPol"
         \/ d = "pol" /\ pc[r] = "unsetPol" /\ pc'[r] = "purge"
  <2>1. "dropPol" \in Places /\ "purge" \in Places
    BY Zenon DEF Places, UninstallPlaces
  <2> QED BY Zenon, <1>2, <2>1, Goes
<1>10. Works(r)
  BY Zenon, <1>2, <1>9, Facts DEF Works
<1>11. KindOK(r)'
  BY Zenon, <1>2, <1>3, <1>9 DEF KindOK, UninstallPlaces, Pack
<1>12. CopyOK(r)'
  BY Zenon, <1>2, <1>3, <1>7, <1>9 DEF CopyOK, Documents
<1>13. ProgressOK(r)'
  <2>1. Lacks(docs'[d].at[p], v)
    BY Zenon, <1>5, <1>7
  <2>2. CASE d = "conf"
    BY Zenon, <1>1, <1>2, <1>3, <1>9, <2>1, <2>2 DEF ProgressOK, Installed, Removed, Pack
  <2>3. CASE d = "pol"
    <3>1. docs'["conf"] = docs["conf"]
      BY Zenon, <1>7, <2>3 DEF Documents
    <3> QED BY Zenon, <1>1, <1>2, <1>3, <1>9, <2>1, <2>3, <3>1 DEF ProgressOK, Installed, Removed, Pack
  <2> QED BY Zenon, <2>2, <2>3
<1>14. UndoOK(r)' /\ Busy(r)'
  BY Zenon, <1>9 DEF UndoOK, InstallPlaces, UndoPlaces, Busy
<1>15. pc[r] # "idle" /\ spoiled' \in BOOLEAN /\ used' \in [{"request", "fault"} -> Nat]
  BY Zenon, <1>2, Facts
<1> QED BY Zenon, <1>1, <1>2, <1>7, <1>8, <1>10, <1>11, <1>12, <1>13, <1>14, <1>15, LocksStay, StepKeeps

\* The writes of an uninstall.
LEMMA DropWriteKeeps ==
  ASSUME PackInv, NEW r \in Requests, DropWrite(r)
  PROVE  PackInv'
<1>1. pc[r] \in {"unsetConf", "unsetPol", "disable", "dropTopics", "revoke"}
  BY Zenon, AfterWriteIs DEF DropWrite
<1> QED BY Zenon, <1>1, UnsetKeeps, DisableKeeps, DropTopicsKeeps, RevokeKeeps

\* The undo puts back the whole key of the configuration, which holds for the
\* other packs what it held, or the fragment of the pack.
LEMMA RestoredIs ==
  ASSUME PackInv, NEW r \in Requests, pc[r] = "undoSet", NEW p, p = Pack(r),
         NEW d, d = Undoing(r), Current(r, d)
  PROVE  /\ Restored(r) \in [Packs -> Contents]
         /\ Restored(r)[p] = IF d = "conf" THEN mine[r].before.conf[p]
                             ELSE Overlaid(docs["pol"].at[p], mine[r].version, mine[r].before.pol)
         /\ ~spoiled => \A q \in Packs : q # p => Restored(r)[q] = docs[d].at[q]
<1>1. StoreTypes /\ CopyOK(r) /\ UndoOK(r) /\ mine[r].before \in Befores /\ p \in Packs
  BY Zenon, Facts DEF Memories, KindOK
<1>2. d \in {"conf", "pol"} /\ mine[r].doc.at = docs[d].at /\ docs[d].at \in [Packs -> Contents]
  BY Zenon, <1>1 DEF CopyOK, Seen, Current, Read, StoreTypes, Docs
<1>3. d \in mine[r].applied
  BY <1>2, UndoingIs, FirstOf
<1>4. CASE d = "conf"
  <2>1. Restored(r) = mine[r].before.conf
    BY Zenon, <1>4 DEF Restored
  <2>2. mine[r].before.conf \in [Packs -> Contents]
    BY Zenon, <1>1 DEF Befores
  <2>3. ~spoiled => \A q \in Packs : q # p => docs["conf"].at[q] = mine[r].before.conf[q]
    BY Zenon, <1>1, <1>3, <1>4 DEF UndoOK, Undoable, UndoPlaces
  <2> QED BY Zenon, <1>4, <2>1, <2>2, <2>3
<1>5. CASE d = "pol"
  <2> DEFINE c == Overlaid(docs["pol"].at[p], mine[r].version, mine[r].before.pol)
  <2>1. Restored(r) = [docs[d].at EXCEPT ![p] = c]
    BY Zenon, <1>2, <1>5 DEF Restored, FragmentsBack
  <2>2. mine[r].before.pol \in Contents /\ docs["pol"].at[p] \in Contents
    BY Zenon, <1>1, <1>2, <1>5 DEF Befores
  <2>3. c \in Contents
    BY Zenon, <2>2, OverlaidIs
  <2> HIDE DEF c
  <2>4. Restored(r)[p] = c /\ Restored(r) \in [Packs -> Contents]
        /\ \A q \in Packs : q # p => Restored(r)[q] = docs[d].at[q]
    BY Zenon, <1>1, <1>2, <2>1, <2>3
  <2> QED BY Zenon, <1>5, <2>4 DEF c
<1> QED BY Zenon, <1>2, <1>4, <1>5

LEMMA UndoSetKeeps ==
  ASSUME PackInv, NEW r \in Requests, UndoSet(r)
  PROVE  PackInv'
<1>1. PICK p : p = Pack(r)
  BY Zenon
<1>2. PICK d : d = Undoing(r)
  BY Zenon
<1>3. /\ pc[r] = "undoSet" /\ Goto(r, "undo") /\ Keep(r, Undone(mine[r], d))
      /\ resource' = resource /\ topics' = topics /\ credential' = credential
      /\ locks' = locks /\ last' = last /\ used' = used
      /\ \/ Current(r, d) /\ Put(r, d, Restored(r)) /\ spoiled' = spoiled
         \/ spoiled' = TRUE /\ docs' = docs
  BY Zenon, <1>2 DEF UndoSet
<1>4. StoreTypes /\ KindOK(r) /\ CopyOK(r) /\ UndoOK(r) /\ d \in {"conf", "pol"}
  BY Zenon, <1>2, <1>3, Facts DEF CopyOK
<1>5. pc' \in [Requests -> Places] /\ pc'[r] = "undo" /\ \A s \in Requests : s # r => pc'[s] = pc[s]
  BY Zenon, <1>3, Goes DEF Places, UndoPlaces
<1>6. /\ mine' \in [Requests -> Memories]
      /\ \A s \in Requests : s # r => mine'[s] = mine[s]
      /\ mine'[r].pack = mine[r].pack /\ mine'[r].op = mine[r].op
      /\ mine'[r].alone = mine[r].alone /\ mine'[r].before = mine[r].before
      /\ mine'[r].version = mine[r].version
      /\ mine'[r].registry = mine[r].registry /\ mine'[r].applied = mine[r].applied \ {d}
  BY Zenon, <1>3, UndoneStep
<1>7. Works(r) /\ Busy(r)' /\ ProgressOK(r)'
  BY Zenon, <1>5, <1>6 DEF Works, Busy, ProgressOK, Installed, Removed
<1>8. KindOK(r)'
  BY Zenon, <1>3, <1>4, <1>5, <1>6 DEF KindOK, UninstallPlaces, Pack
<1>9. pc[r] # "idle" /\ spoiled' \in BOOLEAN /\ used' \in [{"request", "fault"} -> Nat]
  BY Zenon, <1>3, Facts
<1>10. CASE spoiled' = TRUE /\ docs' = docs
  <2>1. CopyOK(r)' /\ UndoOK(r)'
    BY Zenon, <1>4, <1>5, <1>6, <1>10 DEF CopyOK, UndoOK
  <2>2. /\ resource' \in [Packs -> Values] /\ topics' \in [Packs -> Contents]
        /\ credential' \in [Packs -> {"none", "live", "revoked"}]
    BY Zenon, <1>3, <1>4 DEF StoreTypes
  <2> QED BY Zenon, <1>3, <1>7, <1>8, <1>9, <1>10, <2>1, <2>2, LocksStay, DocsStay
<1>11. CASE Current(r, d) /\ Put(r, d, Restored(r)) /\ spoiled' = spoiled
  <2> DEFINE at == Restored(r)
  <2>1. /\ at \in [Packs -> Contents]
        /\ at[p] = IF d = "conf" THEN mine[r].before.conf[p]
                   ELSE Overlaid(docs["pol"].at[p], mine[r].version, mine[r].before.pol)
        /\ ~spoiled => \A q \in Packs : q # p => at[q] = docs[d].at[q]
    BY <1>1, <1>2, <1>3, <1>11, RestoredIs
  <2> HIDE DEF at
  <2>2. Put(r, d, at)
    BY Zenon, <1>11 DEF at
  <2>3. /\ StoreTypes' /\ Grows /\ docs'[d].at = at
        /\ \A e \in Documents : e # d => docs'[e] = docs[e]
    BY Zenon, <1>3, <1>4, <1>11, <2>1, <2>2, PutDoc
  <2>4. ~spoiled' => OnlyAt(p)
    BY Zenon, <1>4, <1>11, <2>1, <2>3 DEF OnlyAt, Documents
  <2>5. docs'["reg"] = docs["reg"]
    BY Zenon, <1>4, <2>3 DEF Documents
  <2>6. CopyOK(r)'
    BY Zenon, <1>4, <1>5, <1>6, <2>5 DEF CopyOK
  <2>7. d \in mine[r].applied
    BY Zenon, <1>2, <1>4, UndoingIs, FirstOf
  <2>8. UndoOK(r)'
    <3>1. SUFFICES ASSUME ~spoiled PROVE Undoable(r)'
      BY Zenon, <1>11 DEF UndoOK
    <3>2. Undoable(r)
      BY Zenon, <1>3, <1>4, <3>1 DEF UndoOK, UndoPlaces
    <3>3. CASE d = "conf"
      <4>1. docs'["pol"] = docs["pol"]
        BY Zenon, <2>3, <3>3 DEF Documents
      <4> QED BY Zenon, <1>1, <1>6, <2>1, <2>3, <2>5, <2>7, <3>2, <3>3, <4>1 DEF Undoable, Agrees, Pack
    <3>4. CASE d = "pol"
      <4>1. docs'["conf"] = docs["conf"]
        BY Zenon, <2>3, <3>4 DEF Documents
      <4> QED BY <1>1, <1>6, <2>1, <2>3, <2>5, <2>7, <3>2, <3>4, <4>1 DEF Undoable, Agrees, Pack
    <3> QED BY Zenon, <1>4, <3>3, <3>4
  <2> QED BY Zenon, <1>1, <1>3, <1>7, <1>8, <1>9, <1>11, <2>3, <2>4, <2>6, <2>8, LocksStay, StepKeeps
<1> QED BY Zenon, <1>3, <1>10, <1>11
-----------------------------------------------------------------------------
(* Calls that fail                                                         *)

\* What the call of an install writes; only three of the calls write a document.
LEMMA InstallWriteIs ==
  ASSUME PackInv, NEW r \in Requests, pc[r] # "idle", InstallWrite(r)
  PROVE  /\ StoreTypes' /\ Grows
         /\ pc[r] \notin {"setConf", "setPol", "setReg"} => docs' = docs /\ last' = last
<1> DEFINE p == Pack(r)  v == mine[r].version
<1>1. StoreTypes /\ mine[r] \in Memories /\ v \in Values /\ p \in Packs
  BY Zenon, Facts DEF Memories, KindOK
<1>2. topics[p] \in Contents /\ mine[r].doc.at \in [Packs -> Contents] /\ mine[r].doc.at[p] \in Contents
  BY Zenon, <1>1 DEF StoreTypes, Memories, Docs
<1>3. Written(topics[p], v) \in Contents /\ Written(mine[r].doc.at[p], v) \in Contents
  BY Zenon, <1>1, <1>2, WrittenIs
<1>4. CASE pc[r] \in {"register", "topics", "cred"}
  <2>1. /\ docs' = docs /\ last' = last
        /\ resource' = resource \/ resource' = [resource EXCEPT ![p] = v]
        /\ topics' = topics \/ topics' = [topics EXCEPT ![p] = Written(topics[p], v)]
        /\ credential' = credential \/ credential' = [credential EXCEPT ![p] = "live"]
    BY Zenon, <1>4 DEF InstallWrite
  <2> HIDE DEF p, v
  <2>2. /\ resource' \in [Packs -> Values] /\ topics' \in [Packs -> Contents]
        /\ credential' \in [Packs -> {"none", "live", "revoked"}]
    BY Zenon, <1>1, <1>3, <2>1 DEF StoreTypes
  <2> QED BY Zenon, <1>1, <2>1, <2>2 DEF StoreTypes, Grows
<1>5. ASSUME NEW d \in {"conf", "pol"}, SetEntries(r, d, Written(mine[r].doc.at[p], v))
      PROVE  StoreTypes' /\ Grows
  <2> DEFINE at == [mine[r].doc.at EXCEPT ![p] = Written(mine[r].doc.at[p], v)]
  <2>1. /\ Current(r, d) /\ Put(r, d, at) /\ resource' = resource /\ topics' = topics
        /\ credential' = credential /\ last' = last
    BY Zenon, <1>5 DEF SetEntries
  <2>2. at \in [Packs -> Contents]
    BY Zenon, <1>2, <1>3
  <2> HIDE DEF at
  <2> QED BY Zenon, <2>1, <2>2, PutDoc
<1>6. CASE pc[r] = "setReg"
  <2> DEFINE rec == Record("ACTIVE", v)
  <2>1. Save(r, rec) /\ resource' = resource /\ topics' = topics /\ credential' = credential
    BY Zenon, <1>6 DEF InstallWrite
  <2>2. rec \in Records
    BY Zenon, <1>1 DEF Record, Records
  <2> HIDE DEF rec
  <2>3. /\ Grows /\ docs'["reg"] \in Registries /\ docs'["reg"].rev # 0
        /\ DOMAIN docs' = Documents
        /\ docs'["conf"] = docs["conf"] /\ docs'["pol"] = docs["pol"]
        /\ last' = docs'["reg"].at
    BY Zenon, <2>1, <2>2, SaveIs
  <2> QED BY Zenon, <1>1, <1>6, <2>1, <2>3 DEF StoreTypes, Documents
<1>7. \/ pc[r] \in {"register", "topics", "cred", "setReg"}
      \/ pc[r] = "setConf" /\ SetEntries(r, "conf", Written(mine[r].doc.at[p], v))
      \/ pc[r] = "setPol" /\ SetEntries(r, "pol", Written(mine[r].doc.at[p], v))
  BY Zenon DEF InstallWrite
<1> HIDE DEF p, v
<1> QED BY Zenon, <1>4, <1>5, <1>6, <1>7

\* What the call of an uninstall writes.
LEMMA UninstallWriteIs ==
  ASSUME PackInv, NEW r \in Requests, pc[r] # "idle", UninstallWrite(r)
  PROVE  StoreTypes' /\ Grows
<1> DEFINE p == Pack(r)  v == Recorded(r)
<1>1. StoreTypes /\ mine[r] \in Memories /\ p \in Packs
  BY Zenon, Facts DEF KindOK
<1>2. topics[p] \in Contents /\ mine[r].doc.at \in [Packs -> Contents] /\ mine[r].doc.at[p] \in Contents
  BY Zenon, <1>1 DEF StoreTypes, Memories, Docs
<1>3. Erased(topics[p], v) \in Contents /\ Erased(mine[r].doc.at[p], v) \in Contents
  BY Zenon, <1>2, ErasedIs
<1>4. CASE pc[r] \in {"dropTopics", "revoke"}
  <2>1. /\ docs' = docs /\ last' = last /\ resource' = resource
        /\ topics' = topics \/ topics' = [topics EXCEPT ![p] = Erased(topics[p], v)]
        /\ \/ credential' = credential
           \/ credential' = [credential EXCEPT ![p] =
                               IF credential[p] = "none" THEN credential[p] ELSE "revoked"]
    BY Zenon, <1>4 DEF UninstallWrite
  <2> HIDE DEF p, v
  <2>2. topics' \in [Packs -> Contents] /\ credential' \in [Packs -> {"none", "live", "revoked"}]
    BY Zenon, <1>1, <1>3, <2>1 DEF StoreTypes
  <2> QED BY Zenon, <1>1, <2>1, <2>2 DEF StoreTypes, Grows
<1>5. ASSUME NEW d \in {"conf", "pol"}, SetEntries(r, d, Erased(mine[r].doc.at[p], v))
      PROVE  StoreTypes' /\ Grows
  <2> DEFINE at == [mine[r].doc.at EXCEPT ![p] = Erased(mine[r].doc.at[p], v)]
  <2>1. /\ Current(r, d) /\ Put(r, d, at) /\ resource' = resource /\ topics' = topics
        /\ credential' = credential /\ last' = last
    BY Zenon, <1>5 DEF SetEntries
  <2>2. at \in [Packs -> Contents]
    BY Zenon, <1>2, <1>3
  <2> HIDE DEF at
  <2> QED BY Zenon, <2>1, <2>2, PutDoc
<1>6. CASE pc[r] = "disable"
  <2> DEFINE old == mine[r].registry.at[p]
  <2> DEFINE rec == [old EXCEPT !.status = "DISABLED"]
  <2>1. Save(r, rec) /\ resource' = resource /\ topics' = topics /\ credential' = credential
    BY Zenon, <1>6 DEF UninstallWrite
  <2>2. old \in Records
    BY Zenon, <1>1 DEF Memories, Registries
  <2> HIDE DEF old
  <2>3. rec \in Records
    BY Zenon, <2>2 DEF Records
  <2> HIDE DEF rec
  <2>4. /\ Grows /\ docs'["reg"] \in Registries /\ docs'["reg"].rev # 0
        /\ DOMAIN docs' = Documents
        /\ docs'["conf"] = docs["conf"] /\ docs'["pol"] = docs["pol"]
        /\ last' = docs'["reg"].at
    BY Zenon, <2>1, <2>3, SaveIs
  <2> QED BY Zenon, <1>1, <2>1, <2>4 DEF StoreTypes, Documents
<1>7. \/ pc[r] \in {"dropTopics", "revoke", "disable"}
      \/ SetEntries(r, "conf", Erased(mine[r].doc.at[p], v))
      \/ SetEntries(r, "pol", Erased(mine[r].doc.at[p], v))
  BY Zenon DEF UninstallWrite
<1> HIDE DEF p, v
<1> QED BY Zenon, <1>4, <1>5, <1>6, <1>7

\* A call that fails after it has written, or an uninstall that stops: nothing is
\* said any more of what is applied.
LEMMA Spoils ==
  ASSUME PackInv, NEW r \in Requests, pc[r] # "idle", NEW l \in {"undo", "release"}, Goto(r, l),
         mine' = mine, StoreTypes', Grows, locks' = locks, spoiled' = TRUE,
         used' \in [{"request", "fault"} -> Nat]
  PROVE  PackInv'
<1>1. PICK p : p = Pack(r)
  BY Zenon
<1>2. StoreTypes /\ KindOK(r) /\ CopyOK(r) /\ mine[r] \in Memories
  BY Zenon, Facts
<1>3. l \in Places
  BY Zenon DEF Places, UndoPlaces
<1>4. pc' \in [Requests -> Places] /\ pc'[r] = l /\ \A s \in Requests : s # r => pc'[s] = pc[s]
  BY Zenon, <1>3, Goes
<1>5. Works(r)
  BY Zenon, <1>4, Facts DEF Works
<1>6. KindOK(r)'
  BY Zenon, <1>2, <1>4 DEF KindOK, UninstallPlaces, Pack
<1>7. CopyOK(r)'
  <2>1. mine[r].registry.rev \in Nat
    BY Zenon, <1>2 DEF Memories, Registries
  <2>2. Seen(mine[r].registry, docs'["reg"])
    BY Zenon, <1>2, <2>1, SeenStays DEF CopyOK, Documents
  <2> QED BY Zenon, <1>4, <2>2 DEF CopyOK
<1>8. ProgressOK(r)' /\ UndoOK(r)'
  BY Zenon, <1>4 DEF ProgressOK, Installed, Removed, UndoOK
<1> QED BY Zenon, <1>1, <1>5, <1>6, <1>7, <1>8, LocksStay, StepKeeps

LEMMA CallFailsKeeps ==
  ASSUME PackInv, NEW r \in Requests, CallFails(r)
  PROVE  PackInv'
<1> DEFINE l == IF pc[r] = "plan" THEN "release" ELSE "undo"
<1>1. /\ pc[r] \in InstallPlaces /\ Use("fault") /\ locks' = locks /\ mine' = mine /\ Goto(r, l)
      /\ \/ stores' = stores /\ last' = last /\ spoiled' = spoiled
         \/ InstallWrite(r) /\ spoiled' = (spoiled \/ pc[r] \in {"setConf", "setPol", "setReg"})
  <2>1. DOMAIN Writing = {"setConf", "setPol", "setReg"}
    BY DEF Writing
  <2>2. pc[r] \in InstallPlaces
    BY Zenon, <2>1 DEF CallFails, InstallPlaces, Documents
  <2> QED BY Zenon, <2>1, <2>2 DEF CallFails, history, stores
<1>2. StoreTypes /\ KindOK(r) /\ CopyOK(r) /\ UndoOK(r) /\ pc[r] # "idle"
  BY Zenon, <1>1, Facts DEF InstallPlaces
<1>3. l \in {"release", "undo"} /\ l \in Places /\ (l = "release" => pc[r] = "plan")
  BY Zenon DEF Places, UndoPlaces
<1> HIDE DEF l
<1>4. used' \in [{"request", "fault"} -> Nat]
  BY Zenon, <1>1, Uses
<1>5. StoreTypes' /\ Grows
  <2>1. CASE stores' = stores /\ last' = last
    <3>1. docs' = docs /\ resource' = resource /\ topics' = topics /\ credential' = credential
      BY Zenon, <2>1 DEF stores
    <3> QED BY Zenon, <1>2, <2>1, <3>1 DEF StoreTypes, Grows
  <2> QED BY Zenon, <1>1, <1>2, <2>1, InstallWriteIs
<1>6. spoiled' \in BOOLEAN /\ (spoiled => spoiled')
  <2>1. spoiled \in BOOLEAN
    BY Zenon, Facts
  <2>2. CASE spoiled' = spoiled
    BY Zenon, <2>1, <2>2
  <2>3. CASE spoiled' = (spoiled \/ pc[r] \in {"setConf", "setPol", "setReg"})
    BY <2>1, <2>3
  <2> QED BY Zenon, <1>1, <2>2, <2>3
<1>7. CASE spoiled'
  <2>1. spoiled' = TRUE
    BY Zenon, <1>6, <1>7
  <2> QED BY Zenon, <1>1, <1>2, <1>3, <1>4, <1>5, <2>1, Spoils
<1>8. CASE ~spoiled'
  <2>1. docs' = docs /\ last' = last
    <3>1. CASE stores' = stores /\ last' = last
      BY Zenon, <3>1 DEF stores
    <3>2. CASE /\ InstallWrite(r)
               /\ spoiled' = (spoiled \/ pc[r] \in {"setConf", "setPol", "setReg"})
      <4>1. pc[r] \notin {"setConf", "setPol", "setReg"}
        BY Zenon, <1>8, <3>2
      <4> QED BY Zenon, <1>2, <3>2, <4>1, InstallWriteIs
    <3> QED BY Zenon, <1>1, <3>1, <3>2
  <2>2. pc' \in [Requests -> Places] /\ pc'[r] = l /\ \A s \in Requests : s # r => pc'[s] = pc[s]
    BY Zenon, <1>1, <1>3, Goes
  <2>3. Works(r)
    BY Zenon, <1>1, <2>2, Facts DEF Works
  <2>4. KindOK(r)'
    BY Zenon, <1>1, <1>2, <1>3, <2>2 DEF KindOK, UninstallPlaces, Pack
  <2>5. CopyOK(r)'
    BY Zenon, <1>1, <1>2, <1>3, <2>1, <2>2 DEF CopyOK
  <2>6. ProgressOK(r)'
    BY Zenon, <1>3, <2>2 DEF ProgressOK, Installed, Removed
  <2>7. UndoOK(r)'
    BY Zenon, <1>1, <1>2, <1>6, <1>8, <2>1 DEF UndoOK, Undoable, Agrees, Pack
  <2>8. ~Busy(r)' => Clean(Pack(r))
    <3> SUFFICES ASSUME ~Busy(r)' PROVE Clean(Pack(r))
      BY Zenon
    <3>1. pc[r] = "plan"
      BY Zenon, <1>3, <2>2 DEF Busy
    <3>2. "conf" \notin mine[r].applied /\ "pol" \notin mine[r].applied
      BY Zenon, <1>2, <3>1 DEF KindOK
    <3> QED BY Zenon, <1>1, <1>6, <1>8, <3>2, CleanAgain
  <2>9. /\ resource' \in [Packs -> Values] /\ topics' \in [Packs -> Contents]
        /\ credential' \in [Packs -> {"none", "live", "revoked"}]
    BY Zenon, <1>5 DEF StoreTypes
  <2> QED BY Zenon, <1>1, <1>2, <1>4, <1>6, <2>1, <2>3, <2>4, <2>5, <2>6, <2>7, <2>8, <2>9,
             LocksStay, DocsStay
<1> QED BY Zenon, <1>7, <1>8

LEMMA UninstallFailsKeeps ==
  ASSUME PackInv, NEW r \in Requests, UninstallFails(r)
  PROVE  PackInv'
<1>1. /\ spoiled' = TRUE /\ (used' = used \/ Use("fault"))
      /\ locks' = locks /\ mine' = mine /\ Goto(r, "release")
      /\ (stores' = stores /\ last' = last) \/ UninstallWrite(r)
  BY Zenon DEF UninstallFails, stores
<1>2. pc[r] # "idle"
  <2>1. DOMAIN Dropping = {"unsetConf", "unsetPol", "disable"}
    BY DEF Dropping
  <2> QED BY Zenon, <2>1, AfterWriteIs DEF UninstallFails
<1>3. StoreTypes' /\ Grows
  <2>1. CASE stores' = stores /\ last' = last
    <3>1. docs' = docs /\ resource' = resource /\ topics' = topics /\ credential' = credential
      BY Zenon, <2>1 DEF stores
    <3>2. StoreTypes
      BY Zenon, Facts
    <3> QED BY Zenon, <2>1, <3>1, <3>2 DEF StoreTypes, Grows
  <2> QED BY Zenon, <1>1, <1>2, <2>1, UninstallWriteIs
<1>4. used' \in [{"request", "fault"} -> Nat]
  BY Zenon, <1>1, Uses, Facts
<1> QED BY Zenon, <1>1, <1>2, <1>3, <1>4, Spoils
-----------------------------------------------------------------------------
(* A request begins; a lock expires; the configuration is edited           *)

\* What depends on the stores only by the revisions of the documents and their
\* content stays when the content does.
LEMMA SameContent ==
  ASSUME PackInv, StoreTypes', Grows,
         \A d \in Documents : docs'[d].at = docs[d].at,
         resource' = resource, topics' = topics, credential' = credential,
         spoiled => spoiled',
         NEW s \in Requests, pc'[s] = pc[s],
         mine'[s] = mine[s] \/ mine'[s] = [mine[s] EXCEPT !.alone = FALSE]
  PROVE  KindOK(s)' /\ CopyOK(s)' /\ ProgressOK(s)' /\ UndoOK(s)'
<1>1. StoreTypes /\ KindOK(s) /\ CopyOK(s) /\ ProgressOK(s) /\ UndoOK(s) /\ mine[s] \in Memories
  BY Zenon, Facts
<1>2. /\ mine'[s].pack = mine[s].pack /\ mine'[s].op = mine[s].op
      /\ mine'[s].version = mine[s].version /\ mine'[s].registry = mine[s].registry
      /\ mine'[s].doc = mine[s].doc /\ mine'[s].before = mine[s].before
      /\ mine'[s].applied = mine[s].applied /\ (mine'[s].alone => mine[s].alone)
  BY Zenon, <1>1 DEF Memories
<1>3. KindOK(s)'
  BY Zenon, <1>1, <1>2 DEF KindOK, Pack
<1>4. CopyOK(s)'
  <2>1. mine[s].registry.rev \in Nat /\ mine[s].doc.rev \in Nat
    BY Zenon, <1>1 DEF Memories, Docs, Registries
  <2>2. Undoing(s)' = Undoing(s)
    BY <1>2, UndoingIs
  <2>3. \A d \in Documents : Seen(mine[s].doc, docs[d]) => Seen(mine[s].doc, docs'[d])
    BY Zenon, <1>1, <2>1, SeenStays
  <2>4. Seen(mine[s].registry, docs'["reg"])
    BY Zenon, <1>1, <2>1, SeenStays DEF CopyOK, Documents
  <2> QED BY Zenon, <1>1, <1>2, <2>2, <2>3, <2>4 DEF CopyOK, Documents
<1>5. /\ docs'["conf"].at = docs["conf"].at /\ docs'["pol"].at = docs["pol"].at
      /\ docs'["reg"].at = docs["reg"].at
  BY Zenon DEF Documents
<1>6. ProgressOK(s)'
  BY Zenon, <1>1, <1>2, <1>5 DEF ProgressOK, Installed, Removed, Pack
<1>7. UndoOK(s)'
  BY <1>1, <1>2, <1>5 DEF UndoOK, Undoable, Agrees, Pack
<1> QED BY Zenon, <1>3, <1>4, <1>6, <1>7

LEMMA EditKeeps ==
  ASSUME PackInv, Edit
  PROVE  PackInv'
<1>1. /\ Use("fault") /\ resource' = resource /\ topics' = topics /\ credential' = credential
      /\ locks' = locks /\ pc' = pc /\ mine' = mine /\ last' = last /\ spoiled' = spoiled
  BY Zenon DEF Edit, history
<1>2. StoreTypes /\ RequestTypes /\ LockTypes /\ CleanOK
  BY Zenon DEF PackInv
<1> DEFINE new == [docs["conf"] EXCEPT !.rev = docs["conf"].rev + 1]
<1>3. docs' = [docs EXCEPT !["conf"] = new]
  BY Zenon DEF Edit
<1>4. new \in Docs /\ new.rev = docs["conf"].rev + 1 /\ new.at = docs["conf"].at
      /\ docs["conf"].rev \in Nat
  BY <1>2 DEF StoreTypes, Docs
<1> HIDE DEF new
<1>5. DOMAIN docs' = Documents /\ docs'["conf"] = new /\ docs'["pol"] = docs["pol"] /\ docs'["reg"] = docs["reg"]
  BY Zenon, <1>2, <1>3 DEF StoreTypes, Documents
<1>6. Grows /\ new.rev # 0
  BY <1>4, <1>5 DEF Grows, Documents
<1>7. StoreTypes'
  BY Zenon, <1>1, <1>2, <1>4, <1>5, <1>6 DEF StoreTypes, Documents
<1>8. \A d \in Documents : docs'[d].at = docs[d].at
  BY Zenon, <1>4, <1>5 DEF Documents
<1>9. ASSUME NEW s \in Requests PROVE RequestOK(s)'
  <2>1. KindOK(s)' /\ CopyOK(s)' /\ ProgressOK(s)' /\ UndoOK(s)'
    BY Zenon, <1>1, <1>6, <1>7, <1>8, SameContent
  <2>2. SoloOK(s)'
    BY Zenon, <1>1, Facts DEF SoloOK, Solo
  <2> QED BY Zenon, <2>1, <2>2 DEF RequestOK
<1>10. CleanOK'
  BY Zenon, <1>1, <1>2, <1>4, <1>5 DEF CleanOK, Clean, Agrees, Busy, Pack
<1>11. RequestTypes' /\ LockTypes'
  BY Zenon, <1>1, <1>2, Uses DEF RequestTypes, LockTypes
<1> QED BY Zenon, <1>7, <1>9, <1>10, <1>11 DEF PackInv

LEMMA LockExpiresKeeps ==
  ASSUME PackInv, NEW k \in Keys, LockExpires(k)
  PROVE  PackInv'
<1>1. /\ Use("fault") /\ stores' = stores /\ pc' = pc /\ mine' = mine /\ last' = last
      /\ locks' = [locks EXCEPT ![k] = Unlocked(Requests)]
      /\ spoiled' = (spoiled \/ \E r \in OwnersOf(locks[k]) : pc[r] # "idle")
  BY Zenon DEF LockExpires, stores
<1>2. docs' = docs /\ resource' = resource /\ topics' = topics /\ credential' = credential
  BY Zenon, <1>1 DEF stores
<1>3. StoreTypes /\ RequestTypes /\ LockTypes /\ CleanOK
  BY Zenon DEF PackInv
<1>4. spoiled' \in BOOLEAN /\ (spoiled => spoiled')
  BY Zenon, <1>1
<1>5. RequestTypes'
  BY Zenon, <1>1, <1>3, <1>4, Uses DEF RequestTypes
<1>6. LockTypes'
  <2>1. GoodLock(Unlocked(Requests))
    BY DEF Unlocked, GoodLock, Locks
  <2> QED BY Zenon, <1>1, <1>3, <2>1 DEF LockTypes
<1>7. StoreTypes' /\ Grows /\ \A d \in Documents : docs'[d].at = docs[d].at
  BY Zenon, <1>1, <1>2, <1>3 DEF StoreTypes, Grows
<1>8. ASSUME NEW s \in Requests PROVE RequestOK(s)'
  <2>1. KindOK(s)' /\ CopyOK(s)' /\ ProgressOK(s)' /\ UndoOK(s)'
    BY Zenon, <1>1, <1>2, <1>4, <1>7, SameContent
  <2>2. SoloOK(s)'
    <3>1. SoloOK(s) /\ GoodLock(locks[Global]) /\ DOMAIN locks = Keys
      BY Zenon, <1>3, Facts DEF LockTypes, Keys
    <3>2. DOMAIN locks[Global].owners = Requests
      BY Zenon, <3>1 DEF GoodLock, Locks
    <3>3. pc[s] # "idle" /\ ~spoiled' => k # Global
      BY Zenon, <1>1, <3>1, <3>2 DEF SoloOK, OwnersOf
    <3>4. k # Global => locks'[Global] = locks[Global]
      BY Zenon, <1>1, <3>1 DEF Keys
    <3> QED BY Zenon, <1>1, <1>4, <3>1, <3>3, <3>4 DEF SoloOK, Solo
  <2> QED BY Zenon, <2>1, <2>2 DEF RequestOK
<1>9. CleanOK'
  BY Zenon, <1>1, <1>2, <1>3, <1>4 DEF CleanOK, Clean, Agrees, Busy, Pack
<1> QED BY Zenon, <1>5, <1>6, <1>7, <1>8, <1>9 DEF PackInv

LEMMA BeginKeeps ==
  ASSUME PackInv, NEW r \in Requests, Begin(r)
  PROVE  PackInv'
<1> DEFINE solo == \A q \in Requests \ {r} : pc[q] = "idle"
<1>1. PICK p \in Packs, v \in Versions, option \in BOOLEAN, op \in {"install", "uninstall"} :
        /\ op = "uninstall" => v = 1
        /\ mine' = [s \in Requests |->
             IF s = r
             THEN [Nothing EXCEPT !.op = op, !.pack = p, !.version = v, !.option = option,
                                  !.alone = \A q \in Requests \ {r} : pc[q] = "idle"]
             ELSE [mine[s] EXCEPT !.alone = FALSE]]
  BY Zenon DEF Begin
<1>2. /\ pc[r] = "idle" /\ Use("request") /\ stores' = stores /\ last' = last
      /\ spoiled' = spoiled /\ Goto(r, "pack") /\ Grantable(locks[Global], r, "exclusive")
      /\ locks' = [locks EXCEPT ![Global] = Acquired(locks[Global], r, "exclusive", 1)]
  BY Zenon DEF Begin, stores
<1>3. docs' = docs /\ resource' = resource /\ topics' = topics /\ credential' = credential
  BY Zenon, <1>2 DEF stores
<1>4. StoreTypes /\ RequestTypes /\ LockTypes /\ CleanOK
  BY Zenon DEF PackInv
<1>5. pc' \in [Requests -> Places] /\ pc'[r] = "pack" /\ \A s \in Requests : s # r => pc'[s] = pc[s]
  BY Zenon, <1>2, Goes DEF Places
<1> DEFINE m == [Nothing EXCEPT !.op = op, !.pack = p, !.version = v, !.option = option,
                                !.alone = solo]
<1>6. /\ m \in Memories /\ m.pack = p /\ m.op = op /\ m.applied = {} /\ m.registry = NoRegistry
      /\ m.alone = solo
  <2> HIDE DEF solo
  <2>1. solo \in BOOLEAN
    BY Zenon DEF solo
  <2>2. Nothing \in Memories /\ Nothing.registry = NoRegistry /\ Nothing.applied = {}
    BY Zenon, NothingIsMemory
  <2>3. m \in Memories
    BY Zenon, <2>1, <2>2 DEF Memories, Values
  <2>4. m.pack = p /\ m.op = op /\ m.applied = Nothing.applied /\ m.registry = Nothing.registry
    BY Zenon, <2>2 DEF Memories
  <2>5. m.alone = solo
    BY Zenon, <2>1, <2>2 DEF Memories
  <2> QED BY Zenon, <2>2, <2>3, <2>4, <2>5
<1>7. mine'[r] = m /\ \A s \in Requests : s # r => mine'[s] = [mine[s] EXCEPT !.alone = FALSE]
  BY Zenon, <1>1
<1> HIDE DEF m
<1>8. mine' \in [Requests -> Memories]
  <2>1. \A s \in Requests : mine[s] \in Memories
    BY Zenon, <1>4 DEF RequestTypes
  <2>2. \A s \in Requests : [mine[s] EXCEPT !.alone = FALSE] \in Memories
    BY Zenon, <2>1, MemoryUpdates
  <2>3. \A s \in Requests : mine'[s] \in Memories
    BY Zenon, <1>6, <1>7, <2>2
  <2>4. mine' = [s \in Requests |-> mine'[s]]
    BY Zenon, <1>1
  <2> QED BY Zenon, <2>3, <2>4
<1>9. RequestTypes'
  BY Zenon, <1>2, <1>4, <1>5, <1>8, Uses DEF RequestTypes
<1>10. /\ GoodLock(Acquired(locks[Global], r, "exclusive", 1))
       /\ Acquired(locks[Global], r, "exclusive", 1).owners[r] > 0
       /\ \A s \in Requests : s # r => locks[Global].owners[s] = 0
  BY Zenon, <1>2, <1>4, AcquiredGood DEF LockTypes, Keys
<1>11. LockTypes' /\ locks'[Global].owners[r] > 0
  BY Zenon, <1>2, <1>4, <1>10 DEF LockTypes, Keys
<1>12. StoreTypes' /\ Grows /\ \A d \in Documents : docs'[d].at = docs[d].at
  BY Zenon, <1>2, <1>3, <1>4 DEF StoreTypes, Grows
<1>13. ASSUME NEW s \in Requests, s # r PROVE RequestOK(s)'
  <2>1. KindOK(s)' /\ CopyOK(s)' /\ ProgressOK(s)' /\ UndoOK(s)'
    BY Zenon, <1>2, <1>3, <1>5, <1>7, <1>12, <1>13, SameContent
  <2>2. ~mine'[s].alone
    BY Zenon, <1>7, <1>13, Facts DEF Memories
  <2>3. pc[s] # "idle" => spoiled
    BY <1>10, <1>13, Facts DEF SoloOK
  <2> QED BY Zenon, <1>2, <1>5, <1>13, <2>1, <2>2, <2>3 DEF RequestOK, SoloOK
<1>14. RequestOK(r)'
  <2>1. Seen(NoRegistry, docs["reg"])
    <3>1. docs["reg"].rev \in Nat /\ docs["reg"].rev # 0
      BY Zenon, <1>4 DEF StoreTypes, Registries, Documents
    <3>2. NoRegistry.rev = 0
      BY Zenon DEF NoRegistry
    <3> QED BY <3>1, <3>2 DEF Seen
  <2>2. KindOK(r)'
    BY Zenon, <1>5, <1>6, <1>7 DEF KindOK, UninstallPlaces, Pack
  <2>3. CopyOK(r)'
    BY Zenon, <1>3, <1>5, <1>6, <1>7, <2>1 DEF CopyOK
  <2>4. SoloOK(r)'
    BY Zenon, <1>5, <1>6, <1>7, <1>11 DEF SoloOK, Solo
  <2>5. ProgressOK(r)' /\ UndoOK(r)'
    BY Zenon, <1>5 DEF ProgressOK, Installed, Removed, UndoOK, InstallPlaces, UndoPlaces
  <2> QED BY Zenon, <2>2, <2>3, <2>4, <2>5 DEF RequestOK
<1>15. CleanOK'
  <2> SUFFICES ASSUME ~spoiled', NEW q \in Packs,
                      \A s \in Requests : Busy(s)' => Pack(s)' # q
               PROVE  Clean(q)'
    BY Zenon DEF CleanOK
  <2>1. ASSUME NEW s \in Requests, Busy(s) PROVE Pack(s) # q
    <3>1. s # r /\ Busy(s)'
      BY Zenon, <1>2, <1>5, <2>1 DEF Busy
    <3>2. Pack(s)' = Pack(s)
      BY Zenon, <1>7, <3>1, Facts DEF Pack, Memories
    <3> QED BY Zenon, <3>1, <3>2
  <2>2. Clean(q)
    BY Zenon, <1>2, <1>4, <2>1 DEF CleanOK
  <2> QED BY Zenon, <1>3, <2>2 DEF Clean, Agrees
<1> QED BY Zenon, <1>9, <1>11, <1>12, <1>13, <1>14, <1>15 DEF PackInv
-----------------------------------------------------------------------------
(* The theorems                                                            *)

LEMMA PackInit == PacksInit => PackInv
<1> SUFFICES ASSUME PacksInit PROVE PackInv
  BY Zenon
<1>1. PICK installed \in SUBSET Packs :
        LET first == [p \in Packs |-> IF p \in installed THEN Written(Empty, 1) ELSE Empty] IN
        /\ docs = [d \in Documents |->
                     [rev |-> 1,
                      at |-> IF d = "reg"
                             THEN [p \in Packs |-> IF p \in installed THEN Record("ACTIVE", 1)
                                                   ELSE NoRecord]
                             ELSE first]]
        /\ resource = [p \in Packs |-> IF p \in installed THEN 1 ELSE None] /\ topics = first
        /\ credential = [p \in Packs |-> IF p \in installed THEN "live" ELSE "none"]
  BY Zenon DEF PacksInit
<1>2. /\ locks = [k \in Keys |-> Unlocked(Requests)] /\ pc = [r \in Requests |-> "idle"]
      /\ mine = [r \in Requests |-> Nothing] /\ last = docs["reg"].at /\ spoiled = FALSE
      /\ used = [b \in DOMAIN Bound |-> 0]
  BY Zenon DEF PacksInit
<1> DEFINE first == [p \in Packs |-> IF p \in installed THEN Written(Empty, 1) ELSE Empty]
<1> DEFINE records == [p \in Packs |-> IF p \in installed THEN Record("ACTIVE", 1) ELSE NoRecord]
<1>3. 1 \in Values /\ None \in Values
  BY PacksAssumption DEF Values, Versions
<1>4. Record("ACTIVE", 1) \in Records /\ NoRecord \in Records
      /\ Record("ACTIVE", 1).version = 1 /\ NoRecord.status = ""
  BY Zenon, <1>3 DEF Records, NoRecord, Record
<1>15. Empty \in Contents /\ Written(Empty, 1) \in Contents /\ Has(Written(Empty, 1), 1)
  BY Zenon, <1>3, EmptyIs, WrittenIs
<1>5. first \in [Packs -> Contents] /\ records \in [Packs -> Records]
  BY Zenon, <1>4, <1>15
<1>6. \A p \in Packs : records[p].status = "ACTIVE" => Has(first[p], records[p].version)
  <2> SUFFICES ASSUME NEW p \in Packs, records[p].status = "ACTIVE"
               PROVE  Has(first[p], records[p].version)
    BY Zenon
  <2>1. p \in installed
    BY Zenon, <1>4
  <2>2. first[p] = Written(Empty, 1) /\ records[p].version = 1
    BY Zenon, <1>4, <2>1
  <2> QED BY Zenon, <1>15, <2>2
<1>7. docs = [d \in Documents |-> [rev |-> 1, at |-> IF d = "reg" THEN records ELSE first]]
      /\ topics = first
  BY Zenon, <1>1
<1>8. credential \in [Packs -> {"none", "live", "revoked"}] /\ resource \in [Packs -> Values]
  BY Zenon, <1>1, <1>3
<1> HIDE DEF first, records
<1>9. /\ DOMAIN docs = Documents
      /\ docs["conf"] = [rev |-> 1, at |-> first] /\ docs["pol"] = [rev |-> 1, at |-> first]
      /\ docs["reg"] = [rev |-> 1, at |-> records]
  BY Zenon, <1>7 DEF Documents
<1>10. StoreTypes
  BY <1>2, <1>5, <1>7, <1>8, <1>9 DEF StoreTypes, Docs, Registries, Documents
<1>11. RequestTypes
  <2>1. DOMAIN Bound = {"request", "fault"}
    BY Zenon DEF Bound
  <2>2. "idle" \in Places
    BY Zenon DEF Places
  <2> QED BY Zenon, <1>2, <2>1, <2>2, NothingIsMemory DEF RequestTypes
<1>12. LockTypes
  <2>1. GoodLock(Unlocked(Requests))
    BY DEF Unlocked, GoodLock, Locks
  <2> QED BY Zenon, <1>2, <2>1 DEF LockTypes
<1>13. ASSUME NEW r \in Requests PROVE RequestOK(r)
  <2>1. pc[r] = "idle" /\ mine[r] = Nothing
    BY Zenon, <1>2
  <2>2. Seen(mine[r].registry, docs["reg"])
    <3>1. mine[r].registry = NoRegistry
      BY Zenon, <2>1, NothingIsMemory
    <3>2. NoRegistry.rev = 0 /\ docs["reg"].rev = 1
      BY <1>9 DEF NoRegistry
    <3> QED BY <3>1, <3>2 DEF Seen
  <2> QED BY Zenon, <2>1, <2>2 DEF RequestOK, KindOK, CopyOK, SoloOK, ProgressOK, Installed, Removed,
                            UndoOK, InstallPlaces, UndoPlaces, UninstallPlaces
<1>14. CleanOK
  BY <1>6, <1>9 DEF CleanOK, Clean, Agrees
<1> QED BY Zenon, <1>10, <1>11, <1>12, <1>13, <1>14 DEF PackInv

LEMMA PackStep == PackInv /\ [Next]_vars => PackInv'
<1> SUFFICES ASSUME PackInv, [Next]_vars PROVE PackInv'
  BY Zenon
<1>1. CASE UNCHANGED vars
  <2>1. /\ stores' = stores /\ locks' = locks /\ pc' = pc /\ mine' = mine /\ last' = last
        /\ spoiled' = spoiled /\ used' = used
    BY Zenon, <1>1 DEF vars
  <2>2. docs' = docs /\ resource' = resource /\ topics' = topics /\ credential' = credential
    BY Zenon, <2>1 DEF stores
  <2>3. StoreTypes' /\ RequestTypes' /\ LockTypes'
    BY Zenon, <2>1, <2>2 DEF PackInv, StoreTypes, RequestTypes, LockTypes
  <2>4. Grows /\ \A d \in Documents : docs'[d].at = docs[d].at
    BY Zenon, <2>2 DEF Grows
  <2>5. ASSUME NEW s \in Requests PROVE RequestOK(s)'
    <3>1. KindOK(s)' /\ CopyOK(s)' /\ ProgressOK(s)' /\ UndoOK(s)'
      BY Zenon, <2>1, <2>2, <2>3, <2>4, SameContent
    <3>2. SoloOK(s)'
      BY Zenon, <2>1, Facts DEF SoloOK, Solo
    <3> QED BY Zenon, <3>1, <3>2 DEF RequestOK
  <2>6. CleanOK'
    BY Zenon, <2>1, <2>2 DEF PackInv, CleanOK, Clean, Agrees, Busy, Pack
  <2> QED BY Zenon, <2>3, <2>5, <2>6 DEF PackInv
<1>2. ASSUME NEW r \in Requests,
             \/ Begin(r) \/ LockPack(r) \/ ReleasePack(r) \/ ReleaseGlobal(r) \/ ReleaseFails(r)
             \/ ClientLeaves(r) \/ CutShort(r) \/ Crash(r)
      PROVE  PackInv'
  BY Zenon, <1>2, BeginKeeps, LockPackKeeps, ReleasePackKeeps, ReleaseGlobalKeeps, ReleaseFailsKeeps,
     ClientLeavesKeeps, CutShortKeeps, CrashKeeps
<1>3. ASSUME NEW r \in Requests, InstallStep(r)
      PROVE  PackInv'
  BY Zenon, <1>3, PlanKeeps, RegisterKeeps, ReadDocKeeps, SetConfKeeps, SetPolKeeps, SetTopicsKeeps,
     IssueCredentialKeeps, SetRegKeeps, ConflictKeeps, CallFailsKeeps, UndoKeeps, UndoReadKeeps,
     UndoSetKeeps, UndoFailsKeeps, UndoEndsKeeps
  DEF InstallStep
<1>4. ASSUME NEW r \in Requests, UninstallStep(r)
      PROVE  PackInv'
  BY Zenon, <1>4, LoadKeeps, DropReadKeeps, DropWriteKeeps, PurgeKeeps, UninstallFailsKeeps
  DEF UninstallStep
<1> QED BY Zenon, <1>1, <1>2, <1>3, <1>4, LockExpiresKeeps, EditKeeps DEF Next

\* The invariant holds of every run, for any packs, requests and faults.
THEOREM PacksInvariant == Spec => []PackInv
<1> QED BY PackInit, PackStep, PTL DEF Spec

\* Every store keeps its type and no lock of a pack, or of all packs, ever has
\* two owners.
THEOREM PacksTypeCorrect == Spec => []PacksTypeOK
<1>1. PackInv => PacksTypeOK
  <2> SUFFICES ASSUME PackInv PROVE PacksTypeOK
    BY Zenon
  <2>1. StoreTypes /\ LockTypes /\ spoiled \in BOOLEAN
    BY Zenon DEF PackInv, RequestTypes
  <2>2. \A d \in {"conf", "pol"} : docs[d].at \in [Packs -> [Entries -> Versions \cup {None}]]
    BY Zenon, <2>1 DEF StoreTypes, Docs, Contents, Values
  <2>3. docs["reg"].at \in
          [Packs -> [status : {"", "ACTIVE", "DISABLED"}, version : Versions \cup {None}]]
    BY Zenon, <2>1 DEF StoreTypes, Registries, Records, Values
  <2>4. \A k \in Keys : \A r, s \in OwnersOf(locks[k]) : r = s
    BY Zenon, <2>1 DEF LockTypes, GoodLock, Locks, OwnersOf
  <2> QED BY Zenon, <2>1, <2>2, <2>3, <2>4 DEF PacksTypeOK, StoreTypes, Contents, Values
<1> QED BY <1>1, PacksInvariant, PTL

\* savePackRegistry writes every record it read; still no request ever loses the
\* record another one wrote, whatever locks expired.
THEOREM NoRecordIsLost == Spec => []RecordsSurvive
<1>1. PackInv => RecordsSurvive
  BY Zenon DEF PackInv, StoreTypes, RecordsSurvive
<1> QED BY <1>1, PacksInvariant, PTL

\* A pack that is ACTIVE and that no request works on has the overlay and the
\* fragments of its version, although installs and upgrades fail halfway; unless a
\* lock expired under a request, an undo or an uninstall was cut short, or an install
\* wrote a document and the answer was lost.
THEOREM ActivePacksAreApplied == Spec => []ActiveIsApplied
<1>1. PackInv => ActiveIsApplied
  <2> SUFFICES ASSUME PackInv, NEW p \in Packs, ~spoiled, docs["reg"].at[p].status = "ACTIVE",
                      \A r \in Requests : AtWork(r) => Pack(r) # p
               PROVE  \A d \in {"conf", "pol"} : Has(docs[d].at[p], docs["reg"].at[p].version)
    BY Zenon DEF ActiveIsApplied
  <2>1. \A r \in Requests : Busy(r) => Pack(r) # p
    BY Zenon DEF Busy, AtWork
  <2> QED BY Zenon, <2>1 DEF PackInv, CleanOK, Clean, Agrees
<1> QED BY <1>1, PacksInvariant, PTL
\* A step to "release" from the last place of an install or of an uninstall that
\* used no fault is the last step of one that succeeds.
LEMMA LastStep ==
  ASSUME PackInv, Next, NEW r \in Requests, pc[r] \in {"setReg", "revoke"}, pc'[r] = "release",
         ~mine[r].cut, used' = used
  PROVE  SetReg(r) \/ (DropWrite(r) /\ pc[r] = "revoke")
<1>1. pc \in [Requests -> Places]
  BY Zenon, Facts
<1>2. ~Use("fault") /\ ~Use("request")
  BY Zenon, Uses
<1>3. ASSUME NEW s \in Requests,
             \/ Begin(s) \/ LockPack(s) \/ ReleasePack(s) \/ ReleaseGlobal(s) \/ ReleaseFails(s)
             \/ ClientLeaves(s) \/ CutShort(s) \/ Crash(s)
      PROVE  FALSE
  BY Zenon, <1>1, <1>2, <1>3
  DEF Begin, LockPack, ReleasePack, ReleaseGlobal, ReleaseFails, ClientLeaves, CutShort, Crash, Goto
<1>4. ASSUME NEW s \in Requests, InstallStep(s) PROVE SetReg(r)
  <2>1. CASE Plan(s) \/ Register(s) \/ ReadDoc(s) \/ SetConf(s) \/ SetPol(s) \/ SetTopics(s)
             \/ IssueCredential(s)
    BY Zenon, <1>1, <2>1
    DEF Plan, Register, ReadDoc, SetConf, SetPol, SetTopics, IssueCredential, Goto, Documents
  <2>2. CASE SetReg(s)
    <3>1. s = r
      BY Zenon, <1>1, <2>2 DEF SetReg, Goto
    <3> QED BY Zenon, <2>2, <3>1
  <2>3. CASE Conflict(s) \/ CallFails(s)
    BY Zenon, <1>1, <1>2, <2>3 DEF Conflict, CallFails, Goto
  <2>4. CASE Undo(s) \/ UndoRead(s) \/ UndoSet(s) \/ UndoFails(s) \/ UndoEnds(s)
    BY Zenon, <1>1, <2>4 DEF Undo, UndoRead, UndoSet, UndoFails, UndoEnds, Goto
  <2> QED BY Zenon, <1>4, <2>1, <2>2, <2>3, <2>4 DEF InstallStep
<1>5. ASSUME NEW s \in Requests, UninstallStep(s) PROVE DropWrite(r) /\ pc[r] = "revoke"
  <2>1. CASE Load(s) \/ DropRead(s) \/ Purge(s)
    BY Zenon, <1>1, <2>1 DEF Load, DropRead, Purge, Goto
  <2>2. CASE DropWrite(s)
    <3>1. s = r
      BY Zenon, <1>1, <2>2 DEF DropWrite, Goto
    <3>2. pc[r] # "setReg"
      BY Zenon, <2>2, <3>1, AfterWriteIs DEF DropWrite
    <3> QED BY Zenon, <2>2, <3>1, <3>2
  <2>3. CASE UninstallFails(s)
    <3>1. pc[s] \in DOMAIN Dropping
      BY Zenon, <1>2, <2>3 DEF UninstallFails
    <3>2. s # r
      BY Zenon, <3>1 DEF Dropping
    <3> QED BY Zenon, <1>1, <2>3, <3>2 DEF UninstallFails, Goto
  <2> QED BY Zenon, <1>5, <2>1, <2>2, <2>3 DEF UninstallStep
<1>6. \A k \in Keys : ~LockExpires(k)
  BY Zenon, <1>2 DEF LockExpires
<1>7. ~Edit
  BY Zenon, <1>2 DEF Edit
<1> QED BY Zenon, <1>3, <1>4, <1>5, <1>6, <1>7 DEF Next

\* An install that was alone from its start and succeeds leaves its version in every
\* store, and an uninstall nothing of the version on record, whatever earlier requests
\* left behind.
THEOREM SuccessLeavesItWhole == Spec => SuccessIsWhole
<1> DEFINE P(r) ==
      mine[r].alone /\ pc[r] \in {"setReg", "revoke"} /\ pc'[r] = "release"
        /\ ~mine[r].cut /\ used' = used
      => (IF mine[r].op = "install" THEN WhollyThere(r) ELSE WhollyGone(r))'
<1>1. ASSUME PackInv, [Next]_vars, NEW r \in Requests PROVE P(r)
  <2> SUFFICES ASSUME mine[r].alone, pc[r] \in {"setReg", "revoke"}, pc'[r] = "release",
                      ~mine[r].cut, used' = used
               PROVE  (IF mine[r].op = "install" THEN WhollyThere(r) ELSE WhollyGone(r))'
    BY Zenon
  <2>1. Next
    BY Zenon, <1>1 DEF vars
  <2>2. PICK p : p = Pack(r)
    BY Zenon
  <2>3. ProgressOK(r) /\ StoreTypes /\ p \in Packs /\ mine[r].version \in Values
    BY Zenon, <1>1, <2>2, Facts DEF KindOK, Memories
  <2>4. CASE SetReg(r)
    <3> DEFINE rec == Record("ACTIVE", mine[r].version)
    <3>1. /\ pc[r] = "setReg" /\ mine[r].op = "install" /\ mine' = mine /\ Save(r, rec)
          /\ resource' = resource /\ topics' = topics /\ credential' = credential
      BY Zenon, <2>4 DEF SetReg, InstallWrite, Installing
    <3>2. rec \in Records
      BY Zenon, <2>3 DEF Records, Record
    <3> HIDE DEF rec
    <3>3. /\ docs'["conf"] = docs["conf"] /\ docs'["pol"] = docs["pol"]
          /\ docs'["reg"].at[p] = rec
      BY Zenon, <1>1, <2>2, <3>1, <3>2, SaveIs
    <3>4. /\ resource[p] = mine[r].version /\ Has(docs["conf"].at[p], mine[r].version)
          /\ Has(docs["pol"].at[p], mine[r].version) /\ Has(topics[p], mine[r].version)
          /\ credential[p] = "live"
      BY Zenon, <2>2, <2>3, <3>1 DEF ProgressOK, Installed
    <3>5. WhollyThere(r)'
      BY Zenon, <2>2, <3>1, <3>3, <3>4 DEF WhollyThere, Pack, rec
    <3> QED BY Zenon, <3>1, <3>5
  <2>5. CASE DropWrite(r) /\ pc[r] = "revoke"
    <3>1. /\ mine[r].op = "uninstall" /\ mine' = mine /\ docs' = docs /\ topics' = topics
          /\ credential' = [credential EXCEPT ![p] =
                              IF credential[p] = "none" THEN credential[p] ELSE "revoked"]
      BY Zenon, <2>2, <2>5 DEF DropWrite, UninstallWrite, Uninstalling
    <3>2. credential'[p] # "live"
      BY Zenon, <2>3, <3>1 DEF StoreTypes
    <3>3. PICK v : v = mine[r].registry.at[p].version
      BY Zenon
    <3>4. /\ Lacks(docs["conf"].at[p], v) /\ Lacks(docs["pol"].at[p], v) /\ Lacks(topics[p], v)
          /\ docs["reg"].at[p].status = "DISABLED" /\ docs["reg"].at[p].version = v
      BY Zenon, <2>2, <2>3, <2>5, <3>3 DEF ProgressOK, Removed
    <3>5. WhollyGone(r)'
      BY Zenon, <2>2, <3>1, <3>2, <3>4 DEF WhollyGone, Pack
    <3> QED BY Zenon, <3>1, <3>5
  <2> QED BY Zenon, <1>1, <2>1, <2>4, <2>5, LastStep
<1>2. PackInv /\ [Next]_vars => [\A r \in Requests : P(r)]_vars
  BY Zenon, <1>1
<1> QED BY <1>2, PacksInvariant, PTL DEF Spec, SuccessIsWhole
=============================================================================
