---------------------------- MODULE PackInstall ----------------------------
(***************************************************************************)
(* Installing, upgrading and uninstalling packs.  A request takes the      *)
(* lock of all packs and the lock of its pack, for a time it does not      *)
(* renew, and then writes one store after the other: the pack's schemas    *)
(* and workflows, the pools overlay of the system configuration, the       *)
(* policy fragments, the topics, the worker credential, and last the pack  *)
(* registry.  An install that fails undoes what it wrote, last of all the  *)
(* schemas and workflows; an uninstall that fails stops where it is.  A    *)
(* call may fail after it has written: the answer was lost.                *)
(*                                                                         *)
(* Three of the stores are documents of the configuration service, which   *)
(* a caller reads, changes and writes back against the revision it read.   *)
(* Overlay, fragments and topics are named entries: a version writes the   *)
(* entries it has and leaves the others, and an uninstall removes the ones *)
(* of the version on record.  The schemas and workflows of a pack count as *)
(* one resource, a version stands for its content, and no two packs have a *)
(* name in common.                                                         *)
(***************************************************************************)
EXTENDS LockStore, Sequences

CONSTANTS
  Packs,
  Requests,     \* install and uninstall requests that may be at work
  Global,       \* the lock packs:global
  NoPack,       \* no pack
  MaxVersion,   \* bound on the versions of a pack
  Entries,      \* names of the entries of a pack's overlay, fragments, topics
  EntriesOf,    \* the entries that each version has
  MaxRequests,  \* bound on requests
  MaxFaults     \* bound on failed calls, crashes, expired locks, edits and
                \* clients that go away

ASSUME PacksAssumption ==
  /\ Global \notin Packs /\ NoPack \notin Packs
  /\ EntriesOf \in [1..MaxVersion -> SUBSET Entries]
  /\ MaxVersion \in Nat \ {0} /\ MaxRequests \in Nat /\ MaxFaults \in Nat

VARIABLES
  docs,      \* the documents: system configuration, policy, pack registry
  resource,  \* schemas and workflows of each pack
  topics,    \* topic registrations of each pack: entries
  credential,\* worker credential of each pack
  locks,     \* packs:global and the lock of each pack
  pc, mine,  \* what each request does next, and what it keeps
  last,      \* history: the record each pack was last given
  spoiled,   \* history: a lock expired under a request, an undo or an
             \* uninstall did not run to its end, or an install wrote a document
             \* and the answer was lost
  used       \* how much of each bound was used

stores == <<docs, resource, topics, credential>>
vars == <<stores, locks, pc, mine, last, spoiled, used>>

None == 0
Versions == 1..MaxVersion
Documents == {"conf", "pol", "reg"}
Keys == Packs \cup {Global}

\* A record of the registry; version None: the pack was never installed.
Record(status, version) == [status |-> status, version |-> version]
NoRecord == Record("", None)

Bound == [request |-> MaxRequests, fault |-> MaxFaults]
Use(b) == used[b] < Bound[b] /\ used' = [used EXCEPT ![b] = @ + 1]

\* Entries have the version that wrote them.
Empty == [n \in Entries |-> None]

\* MergePatch, bundles[fragmentID] and SetMany: the entries of version v become
\* those of new, the others stay.
Overlaid(old, v, new) == [n \in Entries |-> IF n \in EntriesOf[v] THEN new[n] ELSE old[n]]
Written(old, v) == Overlaid(old, v, [n \in Entries |-> v])

\* BuildDeletePatch, delete and DeleteMany.
Erased(old, v) == Overlaid(old, v, Empty)

Has(content, v) == \A n \in Entries : n \in EntriesOf[v] => content[n] = v
Lacks(content, v) == \A n \in Entries : n \in EntriesOf[v] => content[n] = None

NoDoc == [rev |-> 0, at |-> [p \in Packs |-> Empty]]
NoRegistry == [rev |-> 0, at |-> [p \in Packs |-> NoRecord]]

\* op, pack, version: what was asked for.  option: an install upgrades, an
\* uninstall purges.  doc, registry: the configuration or policy, and the
\* registry, as they were read.
\* before: what the stores held before each step.  applied: the steps an undo
\* takes back.  cut: the client went away.  alone: no other request was at work.
Nothing ==
  [op |-> "", pack |-> NoPack, version |-> None, option |-> FALSE,
   doc |-> NoDoc, registry |-> NoRegistry,
   before |-> [resource |-> None, conf |-> NoDoc.at, pol |-> Empty],
   applied |-> {}, cut |-> FALSE, alone |-> FALSE]

\* Nothing is installed, or version 1 of some packs is.
PacksInit ==
  \E installed \in SUBSET Packs :
    LET first == [p \in Packs |-> IF p \in installed THEN Written(Empty, 1) ELSE Empty] IN
    /\ docs = [d \in Documents |->
                 [rev |-> 1,
                  at |-> IF d = "reg"
                         THEN [p \in Packs |-> IF p \in installed THEN Record("ACTIVE", 1)
                                               ELSE NoRecord]
                         ELSE first]]
    /\ resource = [p \in Packs |-> IF p \in installed THEN 1 ELSE None]
    /\ topics = first
    /\ credential = [p \in Packs |-> IF p \in installed THEN "live" ELSE "none"]
    /\ locks = [k \in Keys |-> Unlocked(Requests)]
    /\ pc = [r \in Requests |-> "idle"]
    /\ mine = [r \in Requests |-> Nothing]
    /\ last = docs["reg"].at
    /\ spoiled = FALSE
    /\ used = [b \in DOMAIN Bound |-> 0]

Goto(r, l) == pc' = [pc EXCEPT ![r] = l]
Keep(r, m) == mine' = [mine EXCEPT ![r] = m]
Pack(r) == mine[r].pack
AtWork(r) == pc[r] \notin {"idle", "pack"}
history == <<last, spoiled>>

-----------------------------------------------------------------------------
(* The configuration service                                               *)

\* Get.
Get(r, d) ==
  Keep(r, IF d = "reg" THEN [mine[r] EXCEPT !.registry = docs[d]]
          ELSE [mine[r] EXCEPT !.doc = docs[d]])

Read(r, d) == IF d = "reg" THEN mine[r].registry ELSE mine[r].doc

\* Mutant: the document is written whatever its revision is.
CurrentAlways(r, d) == TRUE

\* Set compares the revision with the one that was read.
Current(r, d) == docs[d].rev = Read(r, d).rev

Put(r, d, at) == docs' = [docs EXCEPT ![d] = [rev |-> Read(r, d).rev + 1, at |-> at]]

-----------------------------------------------------------------------------
(* The locks                                                               *)

\* A request asks for packs:global; its owner name is its own.
Begin(r) ==
  /\ pc[r] = "idle" /\ \A k \in Keys : locks[k].owners[r] = 0
  /\ Use("request")
  /\ \E p \in Packs, v \in Versions, option \in BOOLEAN, op \in {"install", "uninstall"} :
       /\ op = "uninstall" => v = 1
       /\ mine' = [s \in Requests |->
            IF s = r
            THEN [Nothing EXCEPT !.op = op, !.pack = p, !.version = v, !.option = option,
                                 !.alone = \A q \in Requests \ {r} : pc[q] = "idle"]
            ELSE [mine[s] EXCEPT !.alone = FALSE]]
  /\ Grantable(locks[Global], r, "exclusive")
  /\ locks' = [locks EXCEPT ![Global] = Acquired(@, r, "exclusive", 1)]
  /\ Goto(r, "pack")
  /\ UNCHANGED <<stores, last, spoiled>>

\* acquirePackLocks: the lock of the pack, or packs:global is given back.
LockPack(r) ==
  /\ pc[r] = "pack"
  /\ \/ /\ Grantable(locks[Pack(r)], r, "exclusive")
        /\ locks' = [locks EXCEPT ![Pack(r)] = Acquired(@, r, "exclusive", 1)]
        /\ Goto(r, IF mine[r].op = "install" THEN "plan" ELSE "load")
     \/ /\ ~Grantable(locks[Pack(r)], r, "exclusive")
        /\ Goto(r, "global")
        /\ UNCHANGED locks
  /\ UNCHANGED <<stores, mine, history, used>>

\* The deferred release: the lock of the pack, then packs:global.
ReleasePack(r) ==
  /\ pc[r] = "release"
  /\ locks' = [locks EXCEPT ![Pack(r)] = Released(@, r)]
  /\ Goto(r, "global")
  /\ UNCHANGED <<stores, mine, history, used>>

ReleaseGlobal(r) ==
  /\ pc[r] = "global"
  /\ locks' = [locks EXCEPT ![Global] = Released(@, r)]
  /\ Goto(r, "idle")
  /\ Keep(r, Nothing)
  /\ UNCHANGED <<stores, history, used>>

\* A release that fails is left to the lock's time to live.
ReleaseFails(r) ==
  /\ pc[r] \in {"release", "global"}
  /\ Use("fault")
  /\ Goto(r, IF pc[r] = "release" THEN "global" ELSE "idle")
  /\ UNCHANGED <<stores, locks, mine, last, spoiled>>

\* 60 seconds after it was taken; nothing renews it.
LockExpires(k) ==
  /\ ~Free(locks[k])
  /\ Use("fault")
  /\ locks' = [locks EXCEPT ![k] = Unlocked(Requests)]
  /\ spoiled' = (spoiled \/ \E r \in OwnersOf(locks[k]) : pc[r] # "idle")
  /\ UNCHANGED <<stores, pc, mine, last>>

-----------------------------------------------------------------------------
(* installPackFromDir                                                      *)

Installing(r) == mine[r].op = "install" /\ ~mine[r].cut

\* The step is done: an undo takes it back.
Did(m, step) == [m EXCEPT !.applied = @ \cup {step}]

\* Mutant: an upgrade does not write a resource that is there.
PlanKeepsExisting(r) ==
  /\ pc[r] = "plan" /\ Installing(r)
  /\ LET m == mine[r]
         existing == resource[m.pack]
         refused == existing \notin {None, m.version} /\ ~m.option
     IN /\ Keep(r, [m EXCEPT !.before.resource = existing])
        /\ Goto(r, IF refused THEN "release"
                   ELSE IF existing # None THEN "conf" ELSE "register")
  /\ UNCHANGED <<stores, locks, history, used>>

\* planSchemas and planWorkflows: other content under the same name is refused
\* unless the request upgrades; the same content is not written again.
Plan(r) ==
  /\ pc[r] = "plan" /\ Installing(r)
  /\ LET m == mine[r]
         existing == resource[m.pack]
         refused == existing \notin {None, m.version} /\ ~m.option
     IN /\ Keep(r, [m EXCEPT !.before.resource = existing])
        /\ Goto(r, IF refused THEN "release"
                   ELSE IF existing = m.version THEN "conf" ELSE "register")
  /\ UNCHANGED <<stores, locks, history, used>>

\* savePackRegistry writes every record it read.
Save(r, record) ==
  /\ Current(r, "reg")
  /\ Put(r, "reg", [mine[r].registry.at EXCEPT ![Pack(r)] = record])
  /\ last' = [last EXCEPT ![Pack(r)] = record]

\* The overlay or the fragments of r's pack become c.
SetEntries(r, d, c) ==
  /\ Current(r, d)
  /\ Put(r, d, [mine[r].doc.at EXCEPT ![Pack(r)] = c])
  /\ UNCHANGED <<resource, topics, credential, last>>

\* What the call at each place writes.  SetMany of the topic registry and Create of
\* the credential store read and write their documents until the revision agrees.
InstallWrite(r) ==
  LET p == Pack(r)  v == mine[r].version IN
  \/ /\ pc[r] = "register"
     /\ resource' = [resource EXCEPT ![p] = v]
     /\ UNCHANGED <<docs, topics, credential, last>>
  \/ pc[r] = "setConf" /\ SetEntries(r, "conf", Written(mine[r].doc.at[p], v))
  \/ pc[r] = "setPol" /\ SetEntries(r, "pol", Written(mine[r].doc.at[p], v))
  \/ /\ pc[r] = "topics"
     /\ topics' = [topics EXCEPT ![p] = Written(topics[p], v)]
     /\ UNCHANGED <<docs, resource, credential, last>>
  \/ /\ pc[r] = "cred"
     /\ credential' = [credential EXCEPT ![p] = "live"]
     /\ UNCHANGED <<docs, resource, topics, last>>
  \/ /\ pc[r] = "setReg"
     /\ Save(r, Record("ACTIVE", v))
     /\ UNCHANGED <<resource, topics, credential>>

\* registerSchema and registerWorkflow.
Register(r) ==
  /\ pc[r] = "register" /\ Installing(r) /\ InstallWrite(r)
  /\ Keep(r, Did(mine[r], "resource"))
  /\ Goto(r, "conf")
  /\ UNCHANGED <<locks, spoiled, used>>

\* applyConfigOverlay, applyPolicyOverlay and updatePackRegistry read first ...
ReadDoc(r) ==
  /\ pc[r] \in Documents /\ Installing(r)
  /\ Get(r, pc[r])
  /\ Goto(r, IF pc[r] = "conf" THEN "setConf" ELSE IF pc[r] = "pol" THEN "setPol" ELSE "setReg")
  /\ UNCHANGED <<stores, locks, history, used>>

\* ... and then write.  The overlay keeps what the whole key held before, the
\* fragments what they were.
SetConf(r) ==
  /\ pc[r] = "setConf" /\ Installing(r) /\ InstallWrite(r)
  /\ Keep(r, Did([mine[r] EXCEPT !.before.conf = mine[r].doc.at], "conf"))
  /\ Goto(r, "pol")
  /\ UNCHANGED <<locks, spoiled, used>>

SetPol(r) ==
  /\ pc[r] = "setPol" /\ Installing(r) /\ InstallWrite(r)
  /\ Keep(r, Did([mine[r] EXCEPT !.before.pol = mine[r].doc.at[Pack(r)]], "pol"))
  /\ Goto(r, "topics")
  /\ UNCHANGED <<locks, spoiled, used>>

SetTopics(r) ==
  /\ pc[r] = "topics" /\ Installing(r) /\ InstallWrite(r)
  /\ Keep(r, Did(mine[r], "topics"))
  /\ Goto(r, "cred")
  /\ UNCHANGED <<locks, spoiled, used>>

IssueCredential(r) ==
  /\ pc[r] = "cred" /\ Installing(r) /\ InstallWrite(r)
  /\ Keep(r, Did(mine[r], "cred"))
  /\ Goto(r, "reg")
  /\ UNCHANGED <<locks, spoiled, used>>

SetReg(r) ==
  /\ pc[r] = "setReg" /\ Installing(r) /\ InstallWrite(r)
  /\ Goto(r, "release")
  /\ UNCHANGED <<locks, mine, spoiled, used>>

Writing == [setConf |-> "conf", setPol |-> "pol", setReg |-> "reg"]

\* The document has another revision.
Conflict(r) ==
  /\ pc[r] \in DOMAIN Writing /\ Installing(r)
  /\ ~Current(r, Writing[pc[r]])
  /\ Goto(r, "undo")
  /\ UNCHANGED <<stores, locks, mine, history, used>>

\* A call fails.  It has written nothing; or it has written, and the undo does not
\* know: the first of registerSchema's two calls, or a call whose answer was lost.
CallFails(r) ==
  /\ pc[r] \in {"plan", "register", "topics", "cred"} \cup Documents \cup DOMAIN Writing
  /\ Installing(r)
  /\ Use("fault")
  /\ Goto(r, IF pc[r] = "plan" THEN "release" ELSE "undo")
  /\ \/ UNCHANGED <<stores, history>>
     \/ InstallWrite(r) /\ spoiled' = (spoiled \/ pc[r] \in DOMAIN Writing)
  /\ UNCHANGED <<locks, mine>>

-----------------------------------------------------------------------------
(* The undo of an install                                                  *)

UndoOrder == <<"cred", "topics", "conf", "pol", "resource">>

\* The step the undo takes back next.
Undoing(r) ==
  LET todo == {i \in DOMAIN UndoOrder : UndoOrder[i] \in mine[r].applied}
  IN IF todo = {} THEN "end" ELSE UndoOrder[CHOOSE i \in todo : \A j \in todo : i <= j]

Undone(m, step) == [m EXCEPT !.applied = @ \ {step}]

\* Revoke, DeleteMany, rollbackSchema and rollbackWorkflow.
Undo(r) ==
  /\ pc[r] = "undo" /\ ~mine[r].cut
  /\ LET step == Undoing(r) IN
     /\ step \in {"cred", "topics", "resource"}
     /\ credential' = IF step = "cred" THEN [credential EXCEPT ![Pack(r)] = "revoked"]
                      ELSE credential
     /\ topics' = IF step = "topics"
                  THEN [topics EXCEPT ![Pack(r)] = Erased(topics[Pack(r)], mine[r].version)]
                  ELSE topics
     /\ resource' = IF step = "resource"
                    THEN [resource EXCEPT ![Pack(r)] = mine[r].before.resource]
                    ELSE resource
     /\ Keep(r, Undone(mine[r], step))
  /\ UNCHANGED <<docs, locks, pc, history, used>>

\* restoreConfigOverlay and restorePolicyOverlay read the document again ...
UndoRead(r) ==
  /\ pc[r] = "undo" /\ ~mine[r].cut
  /\ Undoing(r) \in Documents
  /\ Get(r, Undoing(r))
  /\ Goto(r, "undoSet")
  /\ UNCHANGED <<stores, locks, history, used>>

\* The fragments of the version as they were.
FragmentsBack(r) ==
  [mine[r].doc.at EXCEPT
     ![Pack(r)] = Overlaid(mine[r].doc.at[Pack(r)], mine[r].version, mine[r].before.pol)]

\* Mutant: the overlay is removed, not put back as it was.
RestoredRemoved(r) ==
  IF Undoing(r) = "conf"
  THEN [mine[r].doc.at EXCEPT ![Pack(r)] = Erased(mine[r].doc.at[Pack(r)], mine[r].version)]
  ELSE FragmentsBack(r)

\* What they write: the whole key as it was, the fragments as they were.
Restored(r) == IF Undoing(r) = "conf" THEN mine[r].before.conf ELSE FragmentsBack(r)

\* ... and write it back; a conflict is logged and the undo goes on.
UndoSet(r) ==
  /\ pc[r] = "undoSet" /\ ~mine[r].cut
  /\ LET d == Undoing(r) IN
     /\ \/ Current(r, d) /\ Put(r, d, Restored(r)) /\ UNCHANGED spoiled
        \/ ~Current(r, d) /\ spoiled' = TRUE /\ UNCHANGED docs
     /\ Keep(r, Undone(mine[r], d))
  /\ Goto(r, "undo")
  /\ UNCHANGED <<resource, topics, credential, locks, last, used>>

\* A failed call of the undo is logged, too; one that has written is the call that
\* did not fail.
UndoFails(r) ==
  /\ pc[r] \in {"undo", "undoSet"} /\ ~mine[r].cut /\ Undoing(r) # "end"
  /\ Use("fault")
  /\ spoiled' = TRUE
  /\ Keep(r, Undone(mine[r], Undoing(r)))
  /\ Goto(r, "undo")
  /\ UNCHANGED <<stores, locks, last>>

UndoEnds(r) ==
  /\ pc[r] = "undo" /\ ~mine[r].cut /\ Undoing(r) = "end"
  /\ Goto(r, "release")
  /\ UNCHANGED <<stores, locks, mine, history, used>>

-----------------------------------------------------------------------------
(* handleUninstallPack                                                     *)

Uninstalling(r) == mine[r].op = "uninstall" /\ ~mine[r].cut

\* The registry is read once, at first.
Load(r) ==
  /\ pc[r] = "load" /\ Uninstalling(r)
  /\ Get(r, "reg")
  /\ Goto(r, IF docs["reg"].at[Pack(r)] = NoRecord THEN "release" ELSE "dropConf")
  /\ UNCHANGED <<stores, locks, history, used>>

\* removeConfigOverlay and removePolicyOverlay read ...
DropRead(r) ==
  /\ pc[r] \in {"dropConf", "dropPol"} /\ Uninstalling(r)
  /\ Get(r, IF pc[r] = "dropConf" THEN "conf" ELSE "pol")
  /\ Goto(r, IF pc[r] = "dropConf" THEN "unsetConf" ELSE "unsetPol")
  /\ UNCHANGED <<stores, locks, history, used>>

\* The version on record when the registry was read.
Recorded(r) == mine[r].registry.at[Pack(r)].version

\* What the call at each place writes: it removes the entries of the recorded
\* version, and disables the record in the registry as it was read at first.
UninstallWrite(r) ==
  LET p == Pack(r)  v == Recorded(r) IN
  \/ pc[r] = "unsetConf" /\ SetEntries(r, "conf", Erased(mine[r].doc.at[p], v))
  \/ pc[r] = "unsetPol" /\ SetEntries(r, "pol", Erased(mine[r].doc.at[p], v))
  \/ /\ pc[r] = "disable"
     /\ Save(r, [mine[r].registry.at[p] EXCEPT !.status = "DISABLED"])
     /\ UNCHANGED <<resource, topics, credential>>
  \/ /\ pc[r] = "dropTopics"
     /\ topics' = [topics EXCEPT ![p] = Erased(topics[p], v)]
     /\ UNCHANGED <<docs, resource, credential, last>>
  \/ /\ pc[r] = "revoke"
     /\ credential' = [credential EXCEPT ![p] = IF @ = "none" THEN @ ELSE "revoked"]
     /\ UNCHANGED <<docs, resource, topics, last>>

AfterWrite ==
  [unsetConf |-> "dropPol", unsetPol |-> "purge", disable |-> "dropTopics",
   dropTopics |-> "revoke", revoke |-> "release"]

\* ... and write; savePackRegistry, DeleteMany and Revoke follow.
DropWrite(r) ==
  /\ pc[r] \in DOMAIN AfterWrite /\ Uninstalling(r) /\ UninstallWrite(r)
  /\ Goto(r, AfterWrite[pc[r]])
  /\ UNCHANGED <<locks, mine, spoiled, used>>

\* DeleteWorkflow and Delete of the schemas, whose errors are dropped.
Purge(r) ==
  /\ pc[r] = "purge" /\ Uninstalling(r)
  /\ resource' \in {resource, IF mine[r].option THEN [resource EXCEPT ![Pack(r)] = None]
                              ELSE resource}
  /\ Goto(r, "disable")
  /\ UNCHANGED <<docs, topics, credential, locks, mine, history, used>>

Dropping == [unsetConf |-> "conf", unsetPol |-> "pol", disable |-> "reg"]

\* An error, or a conflict, ends the request where it is; a call that fails may
\* have written.
UninstallFails(r) ==
  /\ mine[r].op = "uninstall" /\ ~mine[r].cut
  /\ \/ /\ pc[r] \in DOMAIN Dropping /\ ~Current(r, Dropping[pc[r]])
        /\ UNCHANGED <<stores, last, used>>
     \/ /\ pc[r] \in {"load", "dropConf", "dropPol"} \cup DOMAIN AfterWrite
        /\ Use("fault")
        /\ UNCHANGED <<stores, last>> \/ UninstallWrite(r)
  /\ Goto(r, "release")
  /\ spoiled' = TRUE
  /\ UNCHANGED <<locks, mine>>

-----------------------------------------------------------------------------
(* What happens around them                                                *)

Halfway(r) == mine[r].applied # {} \/ mine[r].op = "uninstall"

\* The client goes away: every call with the context of the request fails.
ClientLeaves(r) ==
  /\ pc[r] \notin {"idle", "release", "global"} /\ ~mine[r].cut
  /\ Use("fault")
  /\ Keep(r, [mine[r] EXCEPT !.cut = TRUE])
  /\ UNCHANGED <<stores, locks, pc, history>>

\* Also the calls of the undo; only the release has a context of its own.
CutShort(r) ==
  /\ pc[r] \notin {"idle", "release", "global"} /\ mine[r].cut
  /\ Goto(r, IF pc[r] = "pack" THEN "global" ELSE "release")
  /\ spoiled' = (spoiled \/ Halfway(r))
  /\ UNCHANGED <<stores, locks, mine, last, used>>

Crash(r) ==
  /\ pc[r] # "idle"
  /\ Use("fault")
  /\ Goto(r, "idle")
  /\ Keep(r, Nothing)
  /\ spoiled' = (spoiled \/ Halfway(r))
  /\ UNCHANGED <<stores, locks, last>>

\* An operator writes another key of the system configuration.
Edit ==
  /\ Use("fault")
  /\ docs' = [docs EXCEPT !["conf"].rev = @ + 1]
  /\ UNCHANGED <<resource, topics, credential, locks, pc, mine, history>>

InstallStep(r) ==
  \/ Plan(r) \/ Register(r) \/ ReadDoc(r) \/ SetConf(r) \/ SetPol(r) \/ SetTopics(r)
  \/ IssueCredential(r) \/ SetReg(r) \/ Conflict(r) \/ CallFails(r)
  \/ Undo(r) \/ UndoRead(r) \/ UndoSet(r) \/ UndoFails(r) \/ UndoEnds(r)

UninstallStep(r) ==
  \/ Load(r) \/ DropRead(r) \/ DropWrite(r) \/ Purge(r) \/ UninstallFails(r)

Next ==
  \/ \E r \in Requests :
       \/ Begin(r) \/ LockPack(r) \/ ReleasePack(r) \/ ReleaseGlobal(r) \/ ReleaseFails(r)
       \/ InstallStep(r) \/ UninstallStep(r)
       \/ ClientLeaves(r) \/ CutShort(r) \/ Crash(r)
  \/ \E k \in Keys : LockExpires(k)
  \/ Edit

Spec == PacksInit /\ [][Next]_vars

-----------------------------------------------------------------------------
(* Properties                                                              *)

\* Every store has its type, and no lock has two owners.
PacksTypeOK ==
  /\ \A d \in {"conf", "pol"} : docs[d].at \in [Packs -> [Entries -> Versions \cup {None}]]
  /\ docs["reg"].at \in
       [Packs -> [status : {"", "ACTIVE", "DISABLED"}, version : Versions \cup {None}]]
  /\ resource \in [Packs -> Versions \cup {None}]
  /\ topics \in [Packs -> [Entries -> Versions \cup {None}]]
  /\ credential \in [Packs -> {"none", "live", "revoked"}]
  /\ \A k \in Keys : \A r, s \in OwnersOf(locks[k]) : r = s
  /\ spoiled \in BOOLEAN

\* No request loses the record another one wrote, although it writes all the
\* records it read and its locks may have expired meanwhile.
RecordsSurvive == \A p \in Packs : docs["reg"].at[p] = last[p]

\* Installs and upgrades that fail put back what they wrote: a pack that is ACTIVE
\* in the registry, and that no request is at work on, has the configuration overlay
\* and the policy fragments of its version.  Three things can undo that: a lock that
\* expired under a request, an undo or an uninstall that was cut short, and a write
\* of a document by an install whose answer was lost.
ActiveIsApplied ==
  \A p \in Packs :
    ~spoiled /\ docs["reg"].at[p].status = "ACTIVE"
      /\ (\A r \in Requests : AtWork(r) => Pack(r) # p)
    => \A d \in {"conf", "pol"} : Has(docs[d].at[p], docs["reg"].at[p].version)

\* The version r asked for is in every store.
WhollyThere(r) ==
  LET p == Pack(r)  v == mine[r].version IN
  /\ Has(docs["conf"].at[p], v) /\ Has(docs["pol"].at[p], v) /\ Has(topics[p], v)
  /\ resource[p] = v /\ credential[p] = "live"
  /\ docs["reg"].at[p] = Record("ACTIVE", v)

\* Nothing is left of the version on record, which is disabled.
WhollyGone(r) ==
  LET p == Pack(r)  v == docs["reg"].at[p].version IN
  /\ Lacks(docs["conf"].at[p], v) /\ Lacks(docs["pol"].at[p], v) /\ Lacks(topics[p], v)
  /\ credential[p] # "live"
  /\ docs["reg"].at[p].status = "DISABLED"

\* An install that was alone from its start and succeeds leaves its version in every
\* store, and an uninstall nothing of the version on record, whatever earlier requests
\* left behind.  What only another version wrote stays: an upgrade does not remove
\* it, and after an upgrade that died before its record no uninstall finds it.
SuccessIsWhole ==
  [][\A r \in Requests :
       mine[r].alone /\ pc[r] \in {"setReg", "revoke"} /\ pc'[r] = "release"
         /\ ~mine[r].cut /\ used' = used
       => (IF mine[r].op = "install" THEN WhollyThere(r) ELSE WhollyGone(r))']_vars

=============================================================================
