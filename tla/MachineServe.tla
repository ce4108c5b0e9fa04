----------------------------- MODULE MachineServe -----------------------------
(***************************************************************************)
(* The machine daemon (wharf machine serve): the claim loop and the poll   *)
(* loop, the bounded dispatch workers, the adapters they keep alive, the   *)
(* first instruction's sender, the dispatch files a restart resumes from,  *)
(* and the order in which the daemon shuts down.                           *)
(*                                                                         *)
(* The platform and the Hub are external.  Per session there is at most    *)
(* one worker goroutine (job), one first-instruction sender, and one       *)
(* keep-alive goroutine (adapter); `clash` records a second keep-alive     *)
(* started over a running one.                                             *)
(***************************************************************************)
EXTENDS Integers, FiniteSets

CONSTANTS
    Tasks,          \* the sessions of the tasks created in the Console
    MaxConcurrent,  \* cfg.MaxConcurrent
    RestartLimit,   \* machineServeAdapterRestartLimit
    MaxStarts       \* bound on starts of the daemon

ASSUME MachineServeAssumption ==
    /\ MaxConcurrent \in Nat \ {0} /\ RestartLimit \in Nat /\ MaxStarts \in Nat

VARIABLES
    daemon,     \* main loop, claim loop, contexts
    task,       \* the platform's and the Hub's state of a session
    disk,       \* the dispatch files of a session: from its claim, from a recovery
    guard,      \* machineRecoveryGuard.active
    listed,     \* the last answers of the pending and of the recoverable list
    job,        \* the worker goroutine of a session
    sender,     \* sendFirstInstructionWithRetry of a session
    adapter,    \* keepAdapterAlive of a session
    clash

msVars == <<daemon, task, disk, guard, listed, job, sender, adapter, clash>>

Files == {"claim", "recovery"}
NoFile == [there |-> FALSE, native |-> FALSE, alive |-> FALSE]
NoChild == [at |-> "none", src |-> "claim", native |-> FALSE, alive |-> FALSE, restarts |-> 0]
Nothing == [pending |-> {}, recoverable |-> {}]

ServeInit ==
    /\ daemon = [st |-> "down", loop |-> FALSE, stop |-> FALSE, smoke |-> FALSE, starts |-> 0]
    /\ task = [s \in Tasks |-> [claim |-> "none", session |-> "none", ids |-> {}, executed |-> 0,
                                evidence |-> FALSE, context |-> FALSE]]
    /\ disk = [s \in Tasks |-> [f \in Files |-> NoFile]]
    /\ guard = {} /\ listed = Nothing
    /\ job = [s \in Tasks |-> [at |-> "none", src |-> "claim"]]
    /\ sender = [s \in Tasks |-> [on |-> FALSE, expired |-> FALSE]]
    /\ adapter = [s \in Tasks |-> NoChild]
    /\ clash = FALSE

Running == daemon.st = "up"
\* serveCtx is cancelled by the caller's context, or by the deferred cancel.
Stopped == daemon.stop \/ daemon.st = "cancelled"

\* The slots of the semaphore: workers past it, and dispatches still sending.
Slots == Cardinality({s \in Tasks : job[s].at \in {"exchanging", "saving", "validating"}})
       + Cardinality({s \in Tasks : sender[s].on})

JobDone(s) == job' = [job EXCEPT ![s].at = "none"]
JobAt(s, at) == job' = [job EXCEPT ![s].at = at]
Ended(s, told) == [task EXCEPT ![s].session = IF told THEN "ended" ELSE @]

\* removeMachineDispatch: the transcript's identity goes with its last file.
Removed(s, f) == [disk EXCEPT ![s][f] = NoFile]
ForgetContext(t, s, d) == [t EXCEPT ![s].context = @ /\ \E f \in Files : d[s][f].native]

-----------------------------------------------------------------------------
\* The platform (external).

createTask(s) ==
    /\ task[s].claim = "none"
    /\ task' = [task EXCEPT ![s].claim = "pending"]
    /\ UNCHANGED <<daemon, disk, guard, listed, job, sender, adapter, clash>>

\* Time passes: an adapter credential on file and in memory, a client credential.
adapterCredentialExpires(s, f) ==
    /\ disk[s][f].there /\ disk[s][f].alive
    /\ disk' = [disk EXCEPT ![s][f].alive = FALSE]
    /\ adapter' = IF adapter[s].src = f THEN [adapter EXCEPT ![s].alive = FALSE] ELSE adapter
    /\ UNCHANGED <<daemon, task, guard, listed, job, sender, clash>>

clientCredentialExpires(s) ==
    /\ sender[s].on /\ ~sender[s].expired
    /\ sender' = [sender EXCEPT ![s].expired = TRUE]
    /\ UNCHANGED <<daemon, task, disk, guard, listed, job, adapter, clash>>

-----------------------------------------------------------------------------
\* runMachineServe.

\* loadMachineDispatches: the files a start resumes; an expired one is retained.
Resumable(s, f) == disk[s][f].there /\ disk[s][f].alive

\* Start: the resumable files are resumed, one per session.
startServe(smoke, pick) ==
    /\ daemon.st = "down" /\ daemon.starts < MaxStarts
    /\ LET resumed == {s \in Tasks : Resumable(s, pick[s])} IN
       /\ \A s \in Tasks \ resumed, f \in Files : ~Resumable(s, f)
       /\ guard' = resumed
       /\ job' = [s \in Tasks |-> IF s \in resumed THEN [at |-> "resuming", src |-> pick[s]] ELSE job[s]]
    /\ daemon' = [st |-> "up", loop |-> TRUE, stop |-> FALSE, smoke |-> smoke, starts |-> daemon.starts + 1]
    /\ UNCHANGED <<task, disk, listed, sender, adapter, clash>>

\* listPendingMachineClaims, by the claim loop or by the poll loop.
listPending ==
    /\ Running \/ (daemon.loop /\ ~Stopped)
    /\ listed' = [listed EXCEPT !.pending = {s \in Tasks : task[s].claim = "pending"}]
    /\ UNCHANGED <<daemon, task, disk, guard, job, sender, adapter, clash>>

\* listRecoverableMachineSessions: the sessions whose adapter went silent.
listRecoverable ==
    /\ Running
    /\ listed' = [listed EXCEPT !.recoverable = {s \in Tasks : task[s].session \in {"starting", "live"} /\ adapter[s].at # "running"}]
    /\ UNCHANGED <<daemon, task, disk, guard, job, sender, adapter, clash>>

\* machineRecoveryGuard.claim.
Guard(s) == s \notin guard /\ guard' = guard \cup {s}

\* A listed claim, or a listed session with launch evidence, that nobody works on.
pickup(s) ==
    /\ Running \/ (daemon.loop /\ ~Stopped)
    /\ s \in listed.pending /\ Guard(s)
    /\ job' = [job EXCEPT ![s] = [at |-> "queued", src |-> "claim"]]
    /\ UNCHANGED <<daemon, task, disk, listed, sender, adapter, clash>>

HasLaunchEvidence(s) == task[s].evidence

recover(s) ==
    /\ Running /\ s \in listed.recoverable /\ HasLaunchEvidence(s) /\ Guard(s)
    /\ job' = [job EXCEPT ![s] = [at |-> "recovering", src |-> "recovery"]]
    /\ UNCHANGED <<daemon, task, disk, listed, sender, adapter, clash>>

\* Mutant: the semaphore has one slot too many.
oneSlotMore == Slots <= MaxConcurrent

freeSlot == Slots < MaxConcurrent

\* The worker gets its slot.  A resumed recovery only starts its adapter.
takeSlot(s) ==
    /\ job[s].at \in {"queued", "resuming"} /\ freeSlot
    /\ IF job[s].src = "recovery"
       THEN /\ JobDone(s)
            /\ adapter' = [adapter EXCEPT ![s] = [NoChild EXCEPT !.at = "opening", !.src = "recovery",
                            !.native = disk[s].recovery.native, !.alive = disk[s].recovery.alive]]
            /\ clash' = (clash \/ adapter[s].at # "none")
       ELSE /\ JobAt(s, IF job[s].at = "queued" THEN "exchanging" ELSE "validating")
            /\ UNCHANGED <<adapter, clash>>
    /\ UNCHANGED <<daemon, task, disk, guard, listed, sender>>

\* The main loop returns: its context is done, a step of it failed, or the smoke
\* made its one pass.  The deferred calls then run in order: wait for the
\* workers (the claim loop is one), cancel, wait for the adapters.
PassEnds == daemon.stop \/ daemon.smoke

mainReturns(failed) ==
    /\ Running /\ (failed \/ PassEnds)
    /\ daemon' = [daemon EXCEPT !.st = "waiting"]
    /\ UNCHANGED <<task, disk, guard, listed, job, sender, adapter, clash>>

claimLoopReturns ==
    /\ daemon.loop /\ Stopped
    /\ daemon' = [daemon EXCEPT !.loop = FALSE]
    /\ UNCHANGED <<task, disk, guard, listed, job, sender, adapter, clash>>

workersDone ==
    /\ daemon.st = "waiting" /\ ~daemon.loop
    /\ \A s \in Tasks : job[s].at = "none" /\ ~sender[s].on
    /\ daemon' = [daemon EXCEPT !.st = "cancelled"]
    /\ UNCHANGED <<task, disk, guard, listed, job, sender, adapter, clash>>

adaptersDone ==
    /\ daemon.st = "cancelled" /\ \A s \in Tasks : adapter[s].at = "none"
    /\ daemon' = [daemon EXCEPT !.st = "down"]
    /\ guard' = {} /\ listed' = Nothing
    /\ UNCHANGED <<task, disk, job, sender, adapter, clash>>

\* The user stops the daemon, or it dies.
interrupt ==
    /\ daemon.st \notin {"down", "cancelled"} /\ ~daemon.stop
    /\ daemon' = [daemon EXCEPT !.stop = TRUE]
    /\ UNCHANGED <<task, disk, guard, listed, job, sender, adapter, clash>>

crash ==
    /\ daemon.st # "down"
    /\ daemon' = [daemon EXCEPT !.st = "down", !.loop = FALSE]
    /\ guard' = {} /\ listed' = Nothing
    /\ job' = [s \in Tasks |-> [at |-> "none", src |-> "claim"]]
    /\ sender' = [s \in Tasks |-> [on |-> FALSE, expired |-> FALSE]]
    /\ adapter' = [s \in Tasks |-> NoChild]
    /\ UNCHANGED <<task, disk, clash>>

-----------------------------------------------------------------------------
\* dispatchClaim and dispatchRecovery.

\* exchangeAutoMachineClaim: the platform hands a pending claim out once; its
\* answer may be lost or incomplete.
exchange(s, answered) ==
    /\ job[s].at = "exchanging"
    /\ task' = IF task[s].claim = "pending"
               THEN [task EXCEPT ![s].claim = "taken", ![s].session = "starting"] ELSE task
    /\ IF answered /\ task[s].claim = "pending"
       THEN JobAt(s, "saving") /\ UNCHANGED guard
       ELSE JobDone(s) /\ guard' = guard \ {s}
    /\ UNCHANGED <<daemon, disk, listed, sender, adapter, clash>>

\* Mutant: a failed save keeps the session guarded.
saveKeepsGuard(s, ok) ==
    /\ job[s].at = "saving"
    /\ disk' = IF ok THEN [disk EXCEPT ![s].claim = [there |-> TRUE, native |-> FALSE, alive |-> TRUE]] ELSE disk
    /\ JobAt(s, IF ok THEN "validating" ELSE "none")
    /\ UNCHANGED <<daemon, task, guard, listed, sender, adapter, clash>>

\* saveMachineDispatch: the file is replaced by one rename.
save(s, ok) ==
    /\ job[s].at = "saving"
    /\ disk' = IF ok THEN [disk EXCEPT ![s].claim = [there |-> TRUE, native |-> FALSE, alive |-> TRUE]] ELSE disk
    /\ JobAt(s, IF ok THEN "validating" ELSE "none")
    /\ guard' = IF ok THEN guard ELSE guard \ {s}
    /\ UNCHANGED <<daemon, task, listed, sender, adapter, clash>>

NativeOnFile(s) == \E f \in Files : disk[s][f].native

\* dispatchRecovery, recoverMachineSession and the save after it: without a native identity on
\* file the platform is told, and nothing is asked of it.
recoverSession(s, ok, told) ==
    /\ job[s].at = "recovering"
    /\ LET known == NativeOnFile(s) IN
       IF known /\ ok
       THEN /\ disk' = [disk EXCEPT ![s].recovery = [there |-> TRUE, native |-> TRUE, alive |-> TRUE]]
            /\ adapter' = [adapter EXCEPT ![s] = [NoChild EXCEPT !.at = "opening", !.src = "recovery",
                                                                  !.native = TRUE, !.alive = TRUE]]
            /\ clash' = (clash \/ adapter[s].at # "none")
            /\ UNCHANGED <<guard, task>>
       ELSE /\ guard' = guard \ {s}
            /\ task' = IF known THEN task ELSE Ended(s, told)
            /\ UNCHANGED <<disk, adapter, clash>>
    /\ JobDone(s)
    /\ UNCHANGED <<daemon, listed, sender>>

\* dispatchOutcome: the provider command is validated, then the adapter and the
\* sender start; the sender keeps the slot.
validate(s, res, told) ==
    /\ job[s].at = "validating"
    /\ JobDone(s)
    /\ IF res = "ok"
       THEN /\ adapter' = [adapter EXCEPT ![s] = [NoChild EXCEPT !.at = "opening",
                            !.native = disk[s].claim.native, !.alive = disk[s].claim.alive]]
            /\ clash' = (clash \/ adapter[s].at # "none")
            /\ sender' = [sender EXCEPT ![s] = [on |-> TRUE, expired |-> FALSE]]
            /\ UNCHANGED <<task, disk, guard>>
       ELSE /\ disk' = Removed(s, "claim")
            /\ task' = ForgetContext(IF res = "missing" THEN Ended(s, told) ELSE task, s, disk')
            /\ guard' = guard \ {s}
            /\ UNCHANGED <<adapter, clash, sender>>
    /\ UNCHANGED <<daemon, listed>>

-----------------------------------------------------------------------------
\* keepAdapterAlive.

\* The goroutine returns: the guard is released; only an error stops the sender.
Return(s, err) ==
    /\ adapter' = [adapter EXCEPT ![s] = NoChild]
    /\ guard' = guard \ {s}
    /\ sender' = IF err /\ adapter[s].src = "claim" THEN [sender EXCEPT ![s] = [on |-> FALSE, expired |-> FALSE]] ELSE sender

\* The encrypted runtime opens and the launch is resolved; or it does not, and
\* only a launch that cannot be resolved is reported.
openLaunch(s, res, told) ==
    /\ adapter[s].at = "opening"
    /\ CASE res = "ok" ->
              /\ adapter' = [adapter EXCEPT ![s].at = "running"]
              /\ task' = [task EXCEPT ![s].evidence = TRUE]
              /\ UNCHANGED <<guard, sender, disk>>
         [] res = "unavailable" -> Return(s, TRUE) /\ UNCHANGED <<task, disk>>
         [] res = "unresolved" ->
              /\ Return(s, TRUE)
              /\ disk' = IF told THEN Removed(s, adapter[s].src) ELSE disk
              /\ task' = ForgetContext(Ended(s, told), s, disk')
    /\ UNCHANGED <<daemon, listed, job, clash>>

\* The session becomes interactive (external).
becomesReady(s) ==
    /\ adapter[s].at = "running" /\ task[s].session = "starting"
    /\ task' = [task EXCEPT ![s].session = "live"]
    /\ UNCHANGED <<daemon, disk, guard, listed, job, sender, adapter, clash>>

\* The handoff as the callbacks save it.
Handoff(s) == [there |-> TRUE, native |-> adapter[s].native, alive |-> adapter[s].alive]

\* rememberProviderSession: in memory, and in the file if the save succeeds.
rememberProviderSession(s, saved) ==
    /\ adapter[s].at = "running" /\ ~adapter[s].native
    /\ adapter' = [adapter EXCEPT ![s].native = TRUE]
    /\ disk' = IF saved THEN [disk EXCEPT ![s][adapter[s].src] = [Handoff(s) EXCEPT !.native = TRUE]] ELSE disk
    /\ task' = [task EXCEPT ![s].context = @ \/ saved]
    /\ UNCHANGED <<daemon, guard, listed, job, sender, clash>>

\* rememberAdapterCredential: a rotated credential is saved with the handoff.
rememberAdapterCredential(s) ==
    /\ adapter[s].at = "running" /\ ~adapter[s].alive
    /\ adapter' = [adapter EXCEPT ![s].alive = TRUE]
    /\ disk' = [disk EXCEPT ![s][adapter[s].src] = [Handoff(s) EXCEPT !.alive = TRUE]]
    /\ UNCHANGED <<daemon, task, guard, listed, job, sender, clash>>

\* machineServeAdapterShouldRestart.
ShouldRestart(s) == adapter[s].alive /\ adapter[s].restarts < RestartLimit

\* classifyAdapterFailure: which failures end the session, keep the file, stop the
\* sender.  The adapter of a smoke is never restarted.
adapterEnds(s, err, told) ==
    LET removed == /\ disk' = Removed(s, adapter[s].src)
                   /\ task' = ForgetContext(Ended(s, told), s, disk')
        kept == task' = Ended(s, told) /\ UNCHANGED disk
    IN /\ adapter[s].at = "running" /\ ~Stopped
       /\ CASE err \in {"settings", "notResumable"} -> removed /\ Return(s, TRUE)
            [] err = "missing" -> (IF adapter[s].native THEN kept ELSE removed) /\ Return(s, FALSE)
            [] err = "other" /\ daemon.smoke -> Return(s, TRUE) /\ UNCHANGED <<task, disk>>
            [] err = "other" /\ ShouldRestart(s) ->
                 adapter' = [adapter EXCEPT ![s].at = "backoff"] /\ UNCHANGED <<guard, sender, task, disk>>
            [] err = "other" /\ ~ShouldRestart(s) -> kept /\ Return(s, FALSE)
            [] err = "none" ->
                 /\ Return(s, FALSE)
                 /\ disk' = IF daemon.smoke THEN disk ELSE Removed(s, adapter[s].src)
                 /\ task' = ForgetContext([task EXCEPT ![s].session = "ended"], s, disk')
       /\ UNCHANGED <<daemon, listed, job, clash>>

restart(s) ==
    /\ adapter[s].at = "backoff" /\ ~Stopped
    /\ adapter' = [adapter EXCEPT ![s].at = "running", ![s].restarts = @ + 1]
    /\ UNCHANGED <<daemon, task, disk, guard, listed, job, sender, clash>>

adapterCancelled(s) ==
    /\ adapter[s].at # "none" /\ Stopped
    /\ Return(s, TRUE)
    /\ UNCHANGED <<daemon, task, disk, listed, job, clash>>

-----------------------------------------------------------------------------
\* sendFirstInstructionWithRetry.

SenderDone(s) == sender' = [sender EXCEPT ![s] = [on |-> FALSE, expired |-> FALSE]]

\* The id the launch carrier holds.
launchCommandID(s) == 0

\* serveInteractiveState.
Interactive(s) == task[s].session = "live"

\* One attempt on an interactive session.  The Hub runs a command id once; the
\* acknowledgement may be lost, which ends the attempts.
sendFirstInstruction(s, acked) ==
    /\ sender[s].on /\ Interactive(s)
    /\ LET id == launchCommandID(s) IN
       task' = IF id \in task[s].ids THEN task
               ELSE [task EXCEPT ![s].ids = @ \cup {id}, ![s].executed = @ + 1]
    /\ SenderDone(s)
    /\ disk' = IF acked /\ daemon.smoke THEN Removed(s, "claim") ELSE disk
    /\ UNCHANGED <<daemon, guard, listed, job, adapter, clash>>

\* Why a sender ends without an attempt: its context, or its credential once an
\* attempt found no interactive state.
givesUp(s) == Stopped \/ sender[s].expired

senderEnds(s) ==
    /\ sender[s].on /\ givesUp(s)
    /\ SenderDone(s)
    /\ UNCHANGED <<daemon, task, disk, guard, listed, job, adapter, clash>>

\* Any other failure (the Hub cannot be dialled, the hello is refused) ends it too.
senderFails(s) ==
    /\ sender[s].on
    /\ SenderDone(s)
    /\ UNCHANGED <<daemon, task, disk, guard, listed, job, adapter, clash>>

-----------------------------------------------------------------------------
Worker(s) ==
    \/ takeSlot(s)
    \/ (\E ok \in BOOLEAN : exchange(s, ok) \/ save(s, ok))
    \/ (\E ok, told \in BOOLEAN : recoverSession(s, ok, told))
    \/ (\E res \in {"ok", "missing", "invalid"}, told \in BOOLEAN : validate(s, res, told))

Keep(s) ==
    \/ (\E res \in {"ok", "unavailable", "unresolved"}, told \in BOOLEAN : openLaunch(s, res, told))
    \/ restart(s) \/ adapterCancelled(s)

Main == mainReturns(FALSE) \/ claimLoopReturns \/ workersDone \/ adaptersDone

ServeNext ==
    \/ (\E smoke \in BOOLEAN, pick \in [Tasks -> Files] : startServe(smoke, pick))
    \/ listPending \/ listRecoverable \/ mainReturns(TRUE) \/ Main \/ interrupt \/ crash
    \/ \E s \in Tasks :
        \/ createTask(s) \/ pickup(s) \/ recover(s) \/ Worker(s) \/ Keep(s)
        \/ (\E f \in Files : adapterCredentialExpires(s, f)) \/ clientCredentialExpires(s)
        \/ becomesReady(s) \/ rememberAdapterCredential(s)
        \/ (\E saved \in BOOLEAN : rememberProviderSession(s, saved) \/ sendFirstInstruction(s, saved))
        \/ (\E err \in {"settings", "missing", "notResumable", "other", "none"}, told \in BOOLEAN : adapterEnds(s, err, told))
        \/ senderEnds(s) \/ senderFails(s)

ServeSpec == ServeInit /\ [][ServeNext]_msVars

-----------------------------------------------------------------------------
ServeTypeOK ==
    /\ daemon.st \in {"down", "up", "waiting", "cancelled"}
    /\ guard \subseteq Tasks
    /\ \A s \in Tasks :
        /\ job[s].at \in {"none", "queued", "resuming", "exchanging", "saving", "validating", "recovering"}
        /\ adapter[s].at \in {"none", "opening", "running", "backoff"}
        /\ adapter[s].restarts \in 0..RestartLimit
        /\ task[s].session \in {"none", "starting", "live", "ended"}
    /\ Slots <= MaxConcurrent

\* A session never has two adapters in one daemon: the claim loop, the poll loop,
\* the recovery of a silent session and the files resumed at start all pass the
\* guard, which is held until the adapter's goroutine returned.
NoSecondAdapter == ~clash

\* No path loses the guard: a guarded session has a worker or an adapter.  (A
\* leaked guard would keep the session from ever being recovered by this daemon.)
NoLeakedGuard == \A s \in guard : job[s].at # "none" \/ adapter[s].at # "none"

\* The first instruction runs at most once, whatever acknowledgement is lost and
\* however often the daemon dies and resumes the dispatch ("a resend is
\* acknowledged as a duplicate, never delivered twice").
InstructionOnce == \A s \in Tasks : task[s].executed <= 1

\* An adapter never starts a fresh provider context over a conversation whose
\* native identity is on file, across restarts of the adapter and of the daemon.
ResumesNative ==
    \A s \in Tasks : adapter[s].at # "running" /\ adapter'[s].at = "running"
        => adapter'[s].native \/ ~task[s].context

\* The daemon keeps each Session in one pair of hands: one adapter, under a guard
\* that somebody will release, one run of the first instruction, and no fresh
\* context over a conversation on file (machine serve across its restarts).
DispatchIsExclusive ==
    [][ResumesNative /\ (NoSecondAdapter /\ NoLeakedGuard /\ InstructionOnce)']_msVars

=============================================================================
