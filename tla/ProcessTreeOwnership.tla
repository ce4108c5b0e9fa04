------------------------- MODULE ProcessTreeOwnership -------------------------
(***************************************************************************)
(* LinuxProcessTreeOwnership (adapter/core/process_owner_linux.go): the    *)
(* record of a Provider's process tree in memory and in the files of its   *)
(* root directory, against a tree that forks and exits by itself, file     *)
(* writes that fail and an Adapter that dies between two of them.          *)
(* A process whose parent exits is adopted by the Adapter (child           *)
(* subreaper), or by init once that Adapter is gone.  One method runs at a *)
(* time (o.mu); `method` is the one that is writing or waiting.  The       *)
(* supervisor's start (adapter/core/supervisor.go) calls several of them   *)
(* and holds nothing in between.                                           *)
(***************************************************************************)
EXTENDS Integers, Sequences, FiniteSets

CONSTANTS Root,          \* the Provider process
          Descendants,   \* what it may fork, each at most once
          MaxTracked,    \* MaxTrackedProcs
          MaxVersion     \* bound on the manifest versions of a behaviour

ASSUME OwnershipConstants ==
    Root \notin Descendants /\ MaxTracked \in Nat /\ MaxVersion \in Nat

Procs == {Root} \cup Descendants
ManifestState == {"clean", "prepared", "started", "quarantine"}

VARIABLES own,     \* the owner's memory, or `up = FALSE` after a crash
          disk,    \* manifest.json, the record files, and a stray temporary
          proc,    \* each process: none, alive, zombie or gone
          ppid,    \* its parent: a process, the Adapter or init
          method,  \* the method in progress
          todo,    \* the file operations persistLocked has still to do
          starting, \* how far the supervisor's start has come
          unowned  \* the Provider was spawned when its owner was no longer prepared

ptVars == <<own, disk, proc, ppid, method, todo, starting, unowned>>

startVars == <<starting, unowned>>

OwnershipTypeOK ==
    /\ own \in [up : BOOLEAN, state : ManifestState, quarantined : BOOLEAN,
                quiescent : BOOLEAN, baseline : SUBSET Procs, tracked : SUBSET Procs,
                durable : SUBSET Procs, version : 0..MaxVersion]
    /\ disk \in [version : 1..MaxVersion, state : ManifestState,
                 records : SUBSET Procs, files : [Procs -> 0..MaxVersion],
                 temp : BOOLEAN]
    /\ proc \in [Procs -> {"none", "alive", "zombie", "gone"}]
    /\ ppid \in [Procs -> Procs \cup {"adapter", "init"}]
    /\ method \in {"none", "write", "term", "kill", "final"}
    /\ method = "write" <=> todo # <<>>
    /\ starting \in {"none", "asked", "admitted", "spawned"} /\ unowned \in BOOLEAN

NoFiles == [p \in Procs |-> 0]

\* InitializeLinuxProcessOwnershipRoot on a new directory, and the first open.
OwnershipInit ==
    /\ own = [up |-> TRUE, state |-> "clean", quarantined |-> FALSE,
              quiescent |-> FALSE, baseline |-> {}, tracked |-> {}, durable |-> {},
              version |-> 1]
    /\ disk = [version |-> 1, state |-> "clean", records |-> {},
               files |-> NoFiles, temp |-> FALSE]
    /\ proc = [p \in Procs |-> "none"]
    /\ ppid = [p \in Procs |-> "adapter"]
    /\ method = "none" /\ todo = <<>>
    /\ starting = "none" /\ unowned = FALSE

Live(p) == proc[p] = "alive"

-----------------------------------------------------------------------------
(* ProcessSupervisor.start, and the tree, which nothing holds still.       *)

\* PrepareStart returned nil and released o.mu; the runner starts the Provider
\* whatever a Stop made of the owner since.
spawnRoot ==
    /\ own.up /\ starting = "admitted" /\ proc[Root] = "none"
    /\ proc' = [proc EXCEPT ![Root] = "alive"]
    /\ ppid' = [ppid EXCEPT ![Root] = "adapter"]
    /\ starting' = "spawned" /\ unowned' = (own.state # "prepared")
    /\ UNCHANGED <<own, disk, method, todo>>

\* The context is done or the runner fails: start returns, and nobody aborts.
runnerFails ==
    /\ own.up /\ starting = "admitted" /\ starting' = "none"
    /\ UNCHANGED <<own, disk, proc, ppid, method, todo, unowned>>

fork(p, d) ==
    /\ Live(p) /\ d \in Descendants /\ proc[d] = "none"
    /\ proc' = [proc EXCEPT ![d] = "alive"]
    /\ ppid' = [ppid EXCEPT ![d] = p]
    /\ UNCHANGED <<own, disk, method, todo, startVars>>

\* Children of the dead process are adopted; the Provider itself is reaped by
\* its supervisor, the others stay zombies until their parent waits for them.
Dead(procs, ps, parents) ==
    /\ proc' = [q \in Procs |-> IF q \in ps
                                THEN IF q = Root THEN "gone" ELSE "zombie"
                                ELSE procs[q]]
    /\ ppid' = [q \in Procs |-> IF parents[q] \in ps
                                THEN IF own.up THEN "adapter" ELSE "init"
                                ELSE parents[q]]

exits(p) ==
    /\ Live(p) /\ Dead(proc, {p}, ppid)
    /\ UNCHANGED <<own, disk, method, todo, startVars>>

-----------------------------------------------------------------------------
(* persistLocked and writeOwnershipManifest: records, manifest, stale ones. *)

persistOps(state, records) ==
    <<[op |-> "records", state |-> state, records |-> records],
      [op |-> "manifest", state |-> state, records |-> records],
      [op |-> "stale", state |-> state, records |-> records]>>

\* A quarantined owner without tracked processes keeps its durable records.
persistLocked(o) ==
    LET records == IF o.tracked = {} /\ o.state = "quarantine"
                   THEN o.durable ELSE o.tracked
    IN  /\ own' = [o EXCEPT !.durable = records]
        /\ IF o.version < MaxVersion
           THEN method' = "write" /\ todo' = persistOps(o.state, records)
           ELSE method' = "none" /\ todo' = <<>>

writeOwnershipManifest ==
    /\ own.up /\ method = "write"
    /\ LET step == Head(todo)
           v == own.version + 1
       IN  disk' = CASE step.op = "records"  ->
                          [disk EXCEPT !.files = [p \in Procs |->
                             IF p \in step.records THEN v ELSE disk.files[p]]]
                     [] step.op = "manifest" ->
                          [disk EXCEPT !.version = v, !.state = step.state,
                                       !.records = step.records]
                     [] step.op = "stale"    ->
                          [disk EXCEPT !.files = [p \in Procs |->
                             IF p \in step.records THEN disk.files[p] ELSE 0]]
    /\ todo' = Tail(todo)
    /\ IF Len(todo) = 1 THEN /\ own' = [own EXCEPT !.version = @ + 1]
                             /\ method' = "none"
                             /\ starting' = IF starting = "asked" THEN "admitted" ELSE starting
                        ELSE UNCHANGED <<own, method, starting>>
    /\ UNCHANGED <<proc, ppid, unowned>>

\* A file operation fails: the method returns, the version is not advanced.
writeFails ==
    /\ own.up /\ method = "write"
    /\ method' = "none" /\ todo' = <<>>
    /\ starting' = IF starting = "asked" THEN "none" ELSE starting
    /\ UNCHANGED <<own, disk, proc, ppid, unowned>>

quarantineLocked(o) ==
    persistLocked([o EXCEPT !.durable = IF o.tracked # {} THEN o.tracked ELSE @,
                            !.tracked = {}, !.quarantined = TRUE,
                            !.quiescent = FALSE, !.state = "quarantine"])

AdapterChildren == {p \in Procs : proc[p] \in {"alive", "zombie"} /\ ppid[p] = "adapter"}

\* ensureNoUnexpectedChildrenLocked: every child of the Adapter, a zombie too,
\* is tracked or was there before the start.
NoUnexpectedChildren(tracked) == AdapterChildren \subseteq tracked \cup own.baseline

CanCall == own.up /\ method = "none"

\* reloadCleanLocked, reconcilePreviousLocked, the baseline.
PrepareStart ==
    /\ CanCall /\ starting = "none" /\ ~own.quarantined /\ own.state # "quarantine"
    /\ disk.state = "clean" /\ disk.records = {} /\ disk.files = NoFiles
    /\ IF own.state = "clean"
       THEN /\ persistLocked([own EXCEPT !.state = "prepared", !.quiescent = FALSE,
                                         !.baseline = AdapterChildren])
            /\ starting' = IF method' = "write" THEN "asked" ELSE "none"
       ELSE quarantineLocked(own) /\ UNCHANGED starting
    /\ UNCHANGED <<disk, proc, ppid, unowned>>

\* The receipts refused the start, before or after the Provider was spawned.
AbortStart ==
    /\ CanCall /\ starting \in {"admitted", "spawned"} /\ starting' = "none"
    /\ IF own.quarantined \/ own.state # "prepared" THEN UNCHANGED <<own, method, todo>>
       ELSE IF NoUnexpectedChildren(own.tracked)
       THEN persistLocked([own EXCEPT !.state = "clean", !.quiescent = TRUE])
       ELSE quarantineLocked(own)
    /\ UNCHANGED <<disk, proc, ppid, unowned>>

Children(ps) == {q \in Procs : ppid[q] \in ps /\ proc[q] \in {"alive", "zombie"}}

\* inventoryLocked: the root and everything below it in the process table.
inventoryTree == {Root} \cup Children({Root})
                        \cup Children(Children({Root}))
                        \cup Children(Children(Children({Root})))

inventoryLocked == IF Cardinality(inventoryTree) > MaxTracked THEN {} ELSE inventoryTree

\* The Started event of a confirmed start; the Provider may already be gone.
ObserveStarted ==
    /\ CanCall /\ starting = "spawned" /\ starting' = "none"
    /\ IF own.quarantined \/ own.state # "prepared" \/ ~Live(Root) \/ inventoryLocked = {}
       THEN quarantineLocked(own)
       ELSE persistLocked([own EXCEPT !.tracked = inventoryLocked, !.state = "started"])
    /\ UNCHANGED <<disk, proc, ppid, unowned>>

\* refreshInventoryLocked leaves the inventory alone once the root is dead.
refreshed == IF Live(Root) THEN inventoryLocked ELSE own.tracked

\* Quiesce, up to SIGTERM for what is tracked.
Quiesce ==
    /\ CanCall /\ ~own.quarantined
    /\ CASE own.state = "clean" ->
              /\ IF disk.state = "clean" /\ disk.files = NoFiles
                 THEN own' = [own EXCEPT !.quiescent = TRUE] /\ UNCHANGED <<method, todo>>
                 ELSE quarantineLocked(own)
              /\ UNCHANGED <<disk, proc, ppid>>
         [] own.state = "prepared" ->
              /\ IF NoUnexpectedChildren(own.tracked)
                 THEN persistLocked([own EXCEPT !.state = "clean", !.quiescent = TRUE])
                 ELSE quarantineLocked(own)
              /\ UNCHANGED <<disk, proc, ppid>>
         [] own.state = "started" ->
              /\ IF refreshed = {} THEN quarantineLocked(own)
                 ELSE own' = [own EXCEPT !.tracked = refreshed] /\ method' = "term" /\ UNCHANGED todo
              /\ UNCHANGED <<disk, proc, ppid>>
         [] OTHER -> quarantineLocked(own) /\ UNCHANGED <<disk, proc, ppid>>
    /\ UNCHANGED startVars

TrackedDead == \A p \in own.tracked : ~Live(p)

\* waitTrackedLocked after SIGTERM: all dead, or the deadline and SIGKILL for
\* the refreshed inventory (what it forks meanwhile is not in it).
waitTerm ==
    /\ own.up /\ method = "term"
    /\ \/ /\ TrackedDead /\ method' = "final"
          /\ UNCHANGED <<own, disk, proc, ppid, todo>>
       \/ /\ ~TrackedDead /\ refreshed # {}
          /\ own' = [own EXCEPT !.tracked = refreshed] /\ method' = "kill"
          /\ UNCHANGED <<disk, proc, ppid, todo>>
       \/ /\ ~TrackedDead /\ refreshed = {}
          /\ quarantineLocked(own)
          /\ UNCHANGED <<disk, proc, ppid>>
    /\ UNCHANGED startVars

\* SIGKILL through the pidfds kills; or the wait for it times out.
waitKill ==
    /\ own.up /\ method = "kill"
    /\ \/ /\ Dead(proc, {p \in own.tracked : Live(p)}, ppid)
          /\ method' = "final" /\ UNCHANGED <<own, disk, todo>>
       \/ /\ ~TrackedDead /\ quarantineLocked(own) /\ UNCHANGED <<disk, proc, ppid>>
    /\ UNCHANGED startVars

\* reapTrackedDescendantsLocked, and no child the inventory does not know.
finalizeQuiescenceLocked ==
    /\ own.up /\ method = "final"
    /\ proc' = [p \in Procs |-> IF /\ p \in own.tracked \ {Root} /\ proc[p] = "zombie"
                                   /\ ppid[p] = "adapter"
                                THEN "gone" ELSE proc[p]]
    /\ IF refreshed # {} /\ NoUnexpectedChildren(refreshed)
       THEN persistLocked([own EXCEPT !.tracked = {}, !.state = "clean", !.quiescent = TRUE])
       ELSE quarantineLocked(own)
    /\ UNCHANGED <<disk, ppid, startVars>>

\* Quarantine, called by the lease.
Quarantine ==
    /\ CanCall /\ ~own.quarantined /\ quarantineLocked(own)
    /\ UNCHANGED <<disk, proc, ppid, startVars>>

-----------------------------------------------------------------------------
(* The Adapter dies, and a new one opens the directory.                    *)

\* A crash inside writeOwnershipFile leaves its temporary file behind.
crash ==
    /\ own.up
    /\ own' = [own EXCEPT !.up = FALSE]
    /\ \E t \in IF method = "write" THEN BOOLEAN ELSE {FALSE} :
         disk' = [disk EXCEPT !.temp = @ \/ t]
    /\ ppid' = [p \in Procs |-> IF ppid[p] = "adapter" THEN "init" ELSE ppid[p]]
    /\ method' = "none" /\ todo' = <<>> /\ starting' = "none"
    /\ UNCHANGED <<proc, unowned>>

\* validateOwnershipRoot and readOwnershipManifest with its record files.
Readable ==
    /\ ~disk.temp
    /\ disk.state = "clean" => disk.records = {}
    /\ \A p \in Procs : disk.files[p] = IF p \in disk.records THEN disk.version ELSE 0

\* The owner as its directory describes it.
opened ==
    [up |-> TRUE, state |-> disk.state, quarantined |-> FALSE, quiescent |-> FALSE,
     baseline |-> {}, tracked |-> {}, durable |-> disk.records, version |-> disk.version]

\* Mutant: a tree that was only prepared was never started.
NewOwnershipForgiving ==
    /\ ~own.up /\ Readable
    /\ IF disk.state \in {"clean", "prepared"}
       THEN own' = [opened EXCEPT !.state = "clean"] /\ UNCHANGED <<method, todo>>
       ELSE persistLocked([opened EXCEPT !.quarantined = TRUE, !.state = "quarantine"])
    /\ UNCHANGED <<disk, proc, ppid, startVars>>

NewLinuxProcessTreeOwnership ==
    /\ ~own.up /\ Readable
    /\ IF disk.state = "clean" THEN own' = opened /\ UNCHANGED <<method, todo>>
       ELSE persistLocked([opened EXCEPT !.quarantined = TRUE, !.state = "quarantine"])
    /\ UNCHANGED <<disk, proc, ppid, startVars>>

OwnershipNext ==
    \/ spawnRoot \/ runnerFails \/ PrepareStart \/ AbortStart \/ ObserveStarted
    \/ Quiesce \/ waitTerm \/ waitKill \/ finalizeQuiescenceLocked \/ Quarantine
    \/ writeOwnershipManifest \/ writeFails \/ crash \/ NewLinuxProcessTreeOwnership
    \/ \E p \in Procs : exits(p) \/ \E d \in Descendants : fork(p, d)

OwnershipSpec == OwnershipInit /\ [][OwnershipNext]_ptVars

-----------------------------------------------------------------------------
(* What must hold.                                                         *)

\* An owner that vouches for quiescence, or that may start a Provider, has no
\* process of an earlier start left anywhere, even after crashes at any file
\* operation (process_owner_linux.go:87-101, 233-260, 277-286).  The exception
\* is a Provider whose start was admitted before a Stop quiesced or quarantined
\* the owner and that was spawned after it (supervisor.go:294-306).
QuiescentMeansGone ==
    own.up /\ ~own.quarantined /\ own.state = "clean" /\ method = "none" /\ ~unowned =>
        \A p \in Procs : ~Live(p)

\* Once the directory says quarantine, no sequence of calls, failed writes and
\* restarts makes it anything else or loses a record of the processes it is
\* about (process_owner_linux.go:94-100, 262-276, 465-483).
QuarantineIsDurable ==
    disk.state = "quarantine" =>
        disk'.state = "quarantine" /\ disk.records \subseteq disk'.records

\* What the owner says of its Provider's processes can be believed: quiescence
\* means that none is left, but for a start it overtook, and a quarantine is never taken back
\* (process_owner_linux.go:87-101, 262-286, 465-483).
OwnershipIsHonest ==
    [][QuarantineIsDurable /\ QuiescentMeansGone']_ptVars

=============================================================================
