---------------------------- MODULE SessionWorker ----------------------------
(***************************************************************************)
(* The Adapter's owner of one Provider process: ProcessSupervisor.Run with *)
(* its restarts (adapter/core/supervisor.go), SessionWorker.Run, Stop and  *)
(* forwardEvents, and the chain of start admissions (session_worker.go):   *)
(* credential fence, process ownership, durable receipts.  Goroutines:     *)
(*   run    ProcessSupervisor.Run          work   SessionWorker.Run        *)
(*   stop   stopOnce, by a caller or by Run's cleanup                      *)
(*   held   forwardEvents                  cmd    DeliverCommand           *)
(* A child that exits is reaped in the same step (the Wait goroutine), and *)
(* every call that takes a context may end with its timeout.               *)
(***************************************************************************)
EXTENDS Integers, Sequences

CONSTANTS MaxRestarts,   \* ProcessConfig.MaxRestarts (0 stands for its -1)
          EventCap       \* capacity of the event channel (128 in the code)

ASSUME WorkerConstants ==
    MaxRestarts \in Nat /\ EventCap \in Nat \ {0}

VARIABLES run, child, current, stopping, procEvents, held, obs,
          ctxDone, work, stop, stopped, pstop, fence, permit, owner,
          lease, ownerErr, cmd

runVars == <<run, child, current, stopping, procEvents, pstop>>
stopVars == <<stop, stopped, lease>>
ownVars == <<owner, ownerErr, obs, held>>
swVars == <<runVars, stopVars, ownVars, ctxDone, work, fence, permit, cmd>>

Attempts == 1..(MaxRestarts + 1)
Event == [type : {"started", "exited", "restarting", "stopped"}, attempt : Attempts]
PStop == {"none", "wait", "killed", "ok", "failed"}

SessionWorkerTypeOK ==
    /\ run \in [pc : {"loop", "prepare", "receipt", "guard", "spawn", "spawned",
                      "confirm", "reject", "started", "wait", "exited",
                      "cancel", "backoff", "ended"},
                attempt : Attempts, restarts : 0..MaxRestarts]
    /\ child \in {"none", "alive", "exited", "failed"}
    /\ current \in BOOLEAN /\ stopping \in BOOLEAN /\ ctxDone \in BOOLEAN
    /\ Len(procEvents) <= EventCap /\ Len(held) <= 1
    /\ \A i \in DOMAIN procEvents : procEvents[i] \in Event
    /\ obs \in 0..(MaxRestarts + 1)
    /\ work \in {"new", "admitted", "running", "cleanup", "done"}
    /\ stop \in [by : {"none", "caller", "run"},
                 pc : {"none", "provider", "observe", "quiesce", "release"}]
    /\ pstop \in [{"worker", "run"} -> PStop]
    /\ stopped \in BOOLEAN /\ ownerErr \in BOOLEAN
    /\ fence \in {"free", "start", "command"}
    /\ permit \in {"ok", "expired", "lost"}
    /\ owner \in {"clean", "prepared", "started", "quarantine"}
    /\ lease \in {"held", "released", "quarantined"}
    /\ cmd \in [pc : {"idle", "prepared", "locked", "applied", "unknown"},
                ledger : {"none", "pending", "completed", "unknown"},
                runs : 0..2, lost : BOOLEAN]
    /\ (owner = "started") => child # "none"
    /\ cmd.pc \in {"locked", "applied"} => fence = "command"

SessionWorkerInit ==
    /\ run = [pc |-> "loop", attempt |-> 1, restarts |-> 0]
    /\ child = "none" /\ current = FALSE /\ stopping = FALSE
    /\ procEvents = <<>> /\ held = <<>> /\ obs = 0
    /\ ctxDone = FALSE /\ work = "new"
    /\ stop = [by |-> "none", pc |-> "none"] /\ stopped = FALSE
    /\ pstop = [c \in {"worker", "run"} |-> "none"]
    /\ fence = "free" /\ permit = "ok"
    /\ owner = "clean" /\ lease = "held" /\ ownerErr = FALSE
    /\ cmd = [pc |-> "idle", ledger |-> "none", runs |-> 0, lost |-> FALSE]

-----------------------------------------------------------------------------
(* The environment: cancellation, expiry, the Provider itself.             *)

cancelContext ==
    /\ ~ctxDone /\ ctxDone' = TRUE
    /\ UNCHANGED <<runVars, stopVars, ownVars, work, fence, permit, cmd>>

expireCredential ==
    /\ permit = "ok" /\ permit' = "expired"
    /\ UNCHANGED <<runVars, stopVars, ownVars, ctxDone, work, fence, cmd>>

\* MarkAuthorityLost, Revoke and Terminal take rotation.mu.
loseAuthority ==
    /\ fence = "free" /\ permit # "lost" /\ permit' = "lost"
    /\ UNCHANGED <<runVars, stopVars, ownVars, ctxDone, work, fence, cmd>>

\* The child ends by itself or on the interrupt of a Stop; after Kill it dies.
childExits(result) ==
    /\ child = "alive" /\ child' = result
    /\ UNCHANGED <<run, current, stopping, procEvents, pstop, stopVars, ownVars,
                   ctxDone, work, fence, permit, cmd>>

-----------------------------------------------------------------------------
(* ProcessSupervisor.Run and start.                                        *)

\* emit drops what does not fit into the channel.
emit(es) ==
    LET all == procEvents \o es
    IN  procEvents' = SubSeq(all, 1, IF Len(all) < EventCap THEN Len(all) ELSE EventCap)

Goto(pc) == run' = [run EXCEPT !.pc = pc]

RunLoop ==
    /\ work \notin {"new", "admitted"} /\ run.pc = "loop"
    /\ Goto(IF ctxDone THEN "ended" ELSE "prepare")
    /\ UNCHANGED <<child, current, stopping, procEvents, pstop, stopVars,
                   ownVars, ctxDone, work, fence, permit, cmd>>

\* Mutant: the authority is checked, but its lock is not kept for the start.
prepareUnfenced ==
    /\ run.pc = "prepare" /\ fence = "free"
    /\ IF permit = "ok" /\ owner = "clean"
       THEN Goto("receipt") /\ owner' = "prepared"
       ELSE Goto("ended") /\ UNCHANGED owner
    /\ UNCHANGED <<child, current, stopping, procEvents, pstop, stopVars, fence,
                   ownerErr, obs, held, ctxDone, work, permit, cmd>>

\* credentialRotationStartAdmission takes rotation.mu and keeps it;
\* ownership.PrepareStart accepts only a clean manifest.
PrepareProcessStart ==
    /\ run.pc = "prepare" /\ fence = "free"
    /\ IF permit = "ok" /\ owner = "clean"
       THEN Goto("receipt") /\ fence' = "start" /\ owner' = "prepared"
       ELSE Goto("ended") /\ UNCHANGED <<fence, owner>>
    /\ UNCHANGED <<child, current, stopping, procEvents, pstop, stopVars,
                   ownerErr, obs, held, ctxDone, work, permit, cmd>>

\* AbortStart finds a child that is not of the baseline and quarantines.
AbortOwner ==
    owner' = CASE owner # "prepared" -> owner
               [] child = "alive"    -> "quarantine"
               [] OTHER              -> "clean"

\* PrepareProviderStart and the recovery handle: refused, the start is aborted.
PrepareReceipt(ok) ==
    /\ run.pc = "receipt"
    /\ IF ok THEN Goto("guard") /\ UNCHANGED <<fence, owner>>
             ELSE Goto("ended") /\ fence' = "free" /\ AbortOwner
    /\ UNCHANGED <<child, current, stopping, procEvents, pstop, stopVars,
                   ownerErr, obs, held, ctxDone, work, permit, cmd>>

\* start's closure looks at the context first; its early return reaches no
\* runner, so nobody calls AbortProcessStart and the fence stays taken.
CheckContext ==
    /\ run.pc = "guard"
    /\ Goto(IF ctxDone THEN "ended" ELSE "spawn")
    /\ UNCHANGED <<child, current, stopping, procEvents, pstop, stopVars,
                   ownVars, ctxDone, work, fence, permit, cmd>>

RunnerStart(ok) ==
    /\ run.pc = "spawn"
    /\ IF ok THEN Goto("spawned") /\ child' = "alive" /\ UNCHANGED fence
             ELSE Goto("ended") /\ fence' = "free" /\ UNCHANGED child
    /\ UNCHANGED <<current, stopping, procEvents, pstop, stopVars, ownVars,
                   ctxDone, work, permit, cmd>>

setCurrent ==
    /\ run.pc = "spawned" /\ Goto("confirm")
    /\ current' = TRUE /\ stopping' = FALSE
    /\ UNCHANGED <<child, procEvents, pstop, stopVars, ownVars, ctxDone, work,
                   fence, permit, cmd>>

\* ConfirmProcessStarted: receipts, then the ownership's observation count,
\* then the credential once more; the fence is released on every path.
ConfirmProcessStarted(ok) ==
    /\ run.pc = "confirm"
    /\ fence' = "free"
    /\ IF ok THEN obs' = obs + 1 /\ UNCHANGED owner
             ELSE AbortOwner /\ UNCHANGED obs
    /\ Goto(IF ok /\ permit = "ok" THEN "started" ELSE "reject")
    /\ UNCHANGED <<child, current, stopping, procEvents, pstop, stopVars, held,
                   ownerErr, ctxDone, work, permit, cmd>>

EmitStarted ==
    /\ run.pc = "started" /\ Goto("wait")
    /\ emit(<<[type |-> "started", attempt |-> run.attempt]>>)
    /\ UNCHANGED <<child, current, stopping, pstop, stopVars, ownVars, ctxDone,
                   work, fence, permit, cmd>>

\* Run's select on process.done, and clearCurrent.
ProcessDone ==
    /\ run.pc = "wait" /\ child # "alive"
    /\ current' = FALSE /\ Goto("exited")
    /\ UNCHANGED <<child, stopping, procEvents, pstop, stopVars, ownVars, ctxDone,
                   work, fence, permit, cmd>>

\* isStopping, the exited event, and the decision to restart.
RestartDecision ==
    /\ run.pc = "exited"
    /\ IF stopping THEN Goto("ended") /\ UNCHANGED procEvents
       ELSE IF child = "exited" \/ run.restarts >= MaxRestarts
       THEN Goto("ended") /\ emit(<<[type |-> "exited", attempt |-> run.attempt]>>)
       ELSE /\ run' = [pc |-> "backoff", attempt |-> run.attempt + 1,
                       restarts |-> run.restarts + 1]
            /\ emit(<<[type |-> "exited", attempt |-> run.attempt],
                      [type |-> "restarting", attempt |-> run.attempt + 1]>>)
    /\ UNCHANGED <<child, current, stopping, pstop, stopVars, ownVars, ctxDone,
                   work, fence, permit, cmd>>

Backoff ==
    /\ run.pc = "backoff"
    /\ Goto(IF ctxDone THEN "ended" ELSE "loop")
    /\ UNCHANGED <<child, current, stopping, procEvents, pstop, stopVars,
                   ownVars, ctxDone, work, fence, permit, cmd>>

\* The two places where Run itself stops its child: the context is done while
\* the child runs, or the admission rejected the child.
RunStops ==
    /\ \/ run.pc = "wait" /\ ctxDone /\ Goto("cancel")
       \/ run.pc = "reject" /\ UNCHANGED run
    /\ pstop["run"] = "none"
    /\ stopping' = TRUE
    /\ pstop' = [pstop EXCEPT !["run"] = IF current THEN "wait" ELSE "ok"]
    /\ UNCHANGED <<child, current, procEvents, stopVars, ownVars, ctxDone, work,
                   fence, permit, cmd>>

RunStopped ==
    /\ run.pc \in {"cancel", "reject"} /\ pstop["run"] \in {"ok", "failed"}
    /\ Goto("ended")
    /\ UNCHANGED <<child, current, stopping, procEvents, pstop, stopVars,
                   ownVars, ctxDone, work, fence, permit, cmd>>

-----------------------------------------------------------------------------
(* ProcessSupervisor.Stop behind its markStopping: interrupt, grace, kill. *)

\* The interrupt fails for another reason than "already done".
interruptFails(c) ==
    /\ pstop[c] = "wait" /\ child = "alive"
    /\ pstop' = [pstop EXCEPT ![c] = "failed"]
    /\ UNCHANGED <<run, child, current, stopping, procEvents, stopVars, ownVars,
                   ctxDone, work, fence, permit, cmd>>

graceExpires(c) ==
    /\ pstop[c] = "wait" /\ child = "alive"
    /\ pstop' = [pstop EXCEPT ![c] = "killed"]
    /\ UNCHANGED <<run, child, current, stopping, procEvents, stopVars, ownVars,
                   ctxDone, work, fence, permit, cmd>>

\* The context of Stop ends before the process does.
stopTimesOut(c) ==
    /\ pstop[c] \in {"wait", "killed"} /\ child = "alive"
    /\ pstop' = [pstop EXCEPT ![c] = "failed"]
    /\ UNCHANGED <<run, child, current, stopping, procEvents, stopVars, ownVars,
                   ctxDone, work, fence, permit, cmd>>

stopSeesExit(c) ==
    /\ pstop[c] \in {"wait", "killed"} /\ child # "alive"
    /\ pstop' = [pstop EXCEPT ![c] = "ok"]
    /\ emit(<<[type |-> "stopped", attempt |-> run.attempt]>>)
    /\ UNCHANGED <<run, child, current, stopping, stopVars, ownVars, ctxDone,
                   work, fence, permit, cmd>>

-----------------------------------------------------------------------------
(* SessionWorker: Run, Stop, stopNow, forwardEvents.                       *)

\* Run validates the credential and the lease.
WorkerRun ==
    /\ work = "new"
    /\ work' = IF permit = "ok" /\ lease = "held" THEN "admitted" ELSE "done"
    /\ run' = IF work' = "admitted" THEN run ELSE [run EXCEPT !.pc = "ended"]
    /\ UNCHANGED <<child, current, stopping, procEvents, pstop, stopVars,
                   ownVars, ctxDone, fence, permit, cmd>>

\* Under stopMu Run forgets a Stop that came in between, and starts the goroutine.
WorkerStarts ==
    /\ work = "admitted" /\ stop.by = "none"
    /\ work' = "running" /\ stopped' = FALSE
    /\ UNCHANGED <<runVars, stop, lease, ownVars, ctxDone, fence, permit, cmd>>

\* provider.Run returned, ownership failed, or the context is done.
WorkerLeaves ==
    /\ work = "running" /\ (run.pc = "ended" \/ ownerErr \/ ctxDone)
    /\ work' = "cleanup"
    /\ UNCHANGED <<runVars, stopVars, ownVars, ctxDone, fence, permit, cmd>>

\* stopOnce under stopMu: the first call stops, a later one returns its result.
stopOnce(by) ==
    /\ by = "run" => work = "cleanup"
    /\ stop.by = "none"
    /\ IF stopped
       THEN /\ work' = IF by = "run" THEN "done" ELSE work
            /\ UNCHANGED <<stop, stopped, stopping, pstop>>
       ELSE /\ stopped' = TRUE
            /\ stop' = [by |-> by, pc |-> "provider"]
            /\ stopping' = TRUE
            /\ pstop' = [pstop EXCEPT !["worker"] = IF current THEN "wait" ELSE "ok"]
            /\ UNCHANGED work
    /\ UNCHANGED <<run, child, current, procEvents, lease, ownVars, ctxDone,
                   fence, permit, cmd>>

StopEnds ==
    /\ stop' = [by |-> "none", pc |-> "none"]
    /\ work' = IF stop.by = "run" THEN "done" ELSE work

\* quarantine() marks the lease and, through it, the manifest.
QuarantineLease ==
    /\ lease' = IF lease = "quarantined" THEN lease ELSE "quarantined"
    /\ owner' = IF lease = "quarantined" THEN owner ELSE "quarantine"

stopProvider ==
    /\ stop.pc = "provider" /\ pstop["worker"] \in {"ok", "failed"}
    /\ IF pstop["worker"] = "ok"
       THEN stop' = [stop EXCEPT !.pc = "observe"] /\ UNCHANGED <<work, lease, owner>>
       ELSE StopEnds /\ QuarantineLease
    /\ UNCHANGED <<runVars, stopped, ownerErr, obs, held, ctxDone, fence,
                   permit, cmd>>

\* Mutant: the observations are waited for without the context.
waitForever ==
    /\ stop.pc = "observe" /\ obs = 0
    /\ stop' = [stop EXCEPT !.pc = "quiesce"] /\ UNCHANGED <<work, lease, owner>>
    /\ UNCHANGED <<runVars, stopped, ownerErr, obs, held, ctxDone, fence,
                   permit, cmd>>

\* Every confirmed start must have been observed, or the context ends first.
waitObservations ==
    /\ stop.pc = "observe"
    /\ \/ /\ obs = 0
          /\ stop' = [stop EXCEPT !.pc = "quiesce"] /\ UNCHANGED <<work, lease, owner>>
       \/ obs > 0 /\ StopEnds /\ QuarantineLease
    /\ UNCHANGED <<runVars, stopped, ownerErr, obs, held, ctxDone, fence,
                   permit, cmd>>

\* LinuxProcessTreeOwnership.Quiesce: a tracked tree is terminated and reaped;
\* a child that no inventory holds, or one that survives, quarantines.
QuiesceOwner(ok) ==
    /\ stop.pc = "quiesce"
    /\ IF ok /\ owner # "quarantine" /\ ~(owner = "prepared" /\ child = "alive")
       THEN /\ stop' = [stop EXCEPT !.pc = "release"]
            /\ owner' = "clean"
            /\ child' = IF owner = "started" /\ child = "alive" THEN "failed" ELSE child
            /\ UNCHANGED <<work, lease>>
       ELSE StopEnds /\ QuarantineLease /\ UNCHANGED child
    /\ UNCHANGED <<run, current, stopping, procEvents, pstop, stopped, ownerErr,
                   obs, held, ctxDone, fence, permit, cmd>>

\* Release wants the quiescence proof, which a later PrepareStart withdraws.
ReleaseLease ==
    /\ stop.pc = "release" /\ StopEnds
    /\ IF lease = "held" /\ owner = "clean"
       THEN lease' = "released" /\ UNCHANGED owner
       ELSE QuarantineLease
    /\ UNCHANGED <<runVars, stopped, ownerErr, obs, held, ctxDone, fence,
                   permit, cmd>>

\* ObserveStarted needs a prepared owner of the same attempt and a process
\* that still has a stat file.
ObserveOwner(e) ==
    IF owner = "prepared" /\ e.attempt = run.attempt /\ child = "alive"
    THEN owner' = "started" /\ UNCHANGED ownerErr
    ELSE owner' = "quarantine" /\ ownerErr' = TRUE

forwardEvents ==
    /\ held = <<>> /\ procEvents # <<>>
    /\ procEvents' = Tail(procEvents) /\ held' = <<Head(procEvents)>>
    /\ IF Head(procEvents).type = "started"
       THEN ObserveOwner(Head(procEvents)) /\ obs' = obs - 1
       ELSE UNCHANGED <<owner, ownerErr, obs>>
    /\ UNCHANGED <<run, child, current, stopping, pstop, stopVars,
                   ctxDone, work, fence, permit, cmd>>

\* w.events <- event: forwardEvents goes on when there is room or a reader.
forwardSend ==
    /\ held # <<>> /\ held' = <<>>
    /\ UNCHANGED <<runVars, stopVars, owner, ownerErr, obs, ctxDone, work, fence,
                   permit, cmd>>

-----------------------------------------------------------------------------
(* DeliverCommand and finalizeCommandUnknown.                              *)

\* The receipts' ledger accepts a command once (external); a refusal or a
\* duplicate ends the call, and so does an error after the row was written.
PrepareCommand ==
    /\ cmd.pc = "idle" /\ fence = "free" /\ permit = "ok"
    /\ cmd.ledger = "none"
    /\ \/ cmd' = [cmd EXCEPT !.pc = "prepared", !.ledger = "pending"]
       \/ cmd' = [cmd EXCEPT !.ledger = "pending", !.lost = TRUE]
    /\ UNCHANGED <<runVars, stopVars, ownVars, ctxDone, work, fence, permit>>

\* withAuthorized: the lock, then the authority as it is now.
withAuthorized ==
    /\ cmd.pc = "prepared" /\ fence = "free"
    /\ IF permit = "ok"
       THEN cmd' = [cmd EXCEPT !.pc = "locked"] /\ fence' = "command"
       ELSE cmd' = [cmd EXCEPT !.pc = "unknown"] /\ UNCHANGED fence
    /\ UNCHANGED <<runVars, stopVars, ownVars, ctxDone, work, permit>>

\* apply reached the Provider, or failed somewhere on the way.
applyCommand(ok) ==
    /\ cmd.pc = "locked"
    /\ \E reached \in IF ok THEN {1} ELSE {0, 1} :
         cmd' = [cmd EXCEPT !.pc = IF ok THEN "applied" ELSE "unknown",
                            !.runs = @ + reached]
    /\ UNCHANGED <<runVars, stopVars, ownVars, ctxDone, work, fence, permit>>

FinalizeCompleted(ok) ==
    /\ cmd.pc = "applied"
    /\ cmd' = IF ok THEN [cmd EXCEPT !.pc = "idle", !.ledger = "completed"]
                    ELSE [cmd EXCEPT !.pc = "unknown"]
    /\ fence' = IF ok THEN "free" ELSE fence
    /\ UNCHANGED <<runVars, stopVars, ownVars, ctxDone, work, permit>>

finalizeCommandUnknown(ok) ==
    /\ cmd.pc = "unknown"
    /\ cmd' = IF ok THEN [cmd EXCEPT !.pc = "idle", !.ledger = "unknown"]
                    ELSE [cmd EXCEPT !.pc = "idle", !.lost = TRUE]
    /\ fence' = IF fence = "command" THEN "free" ELSE fence
    /\ UNCHANGED <<runVars, stopVars, ownVars, ctxDone, work, permit>>

-----------------------------------------------------------------------------
(* The goroutines: Supervisor.Run, the two callers of Supervisor.Stop, the *)
(* worker's Run and Stop, the forwarder of events and HandleCommand.       *)
RunStep ==
    \/ RunLoop \/ PrepareProcessStart \/ CheckContext \/ setCurrent
    \/ EmitStarted \/ ProcessDone \/ RestartDecision \/ Backoff \/ RunStops \/ RunStopped
    \/ \E ok \in BOOLEAN : PrepareReceipt(ok) \/ RunnerStart(ok) \/ ConfirmProcessStarted(ok)

StopCall(c) == graceExpires(c) \/ stopTimesOut(c) \/ stopSeesExit(c)

WorkerStep ==
    \/ WorkerStarts \/ WorkerLeaves \/ stopOnce("run") \/ stopProvider \/ waitObservations
    \/ (\E ok \in BOOLEAN : QuiesceOwner(ok)) \/ ReleaseLease

HandleCommandStep ==
    \/ withAuthorized
    \/ \E ok \in BOOLEAN : applyCommand(ok) \/ FinalizeCompleted(ok) \/ finalizeCommandUnknown(ok)

SessionWorkerNext ==
    \/ cancelContext \/ expireCredential \/ loseAuthority
    \/ (\E x \in {"exited", "failed"} : childExits(x))
    \/ RunStep \/ WorkerRun \/ WorkerStep \/ stopOnce("caller")
    \/ (\E c \in {"worker", "run"} : StopCall(c) \/ interruptFails(c))
    \/ forwardEvents \/ forwardSend
    \/ PrepareCommand \/ HandleCommandStep

SessionWorkerSpec == SessionWorkerInit /\ [][SessionWorkerNext]_swVars

-----------------------------------------------------------------------------
(* What must hold.                                                         *)

\* No Provider child is created and no command reaches the Provider once
\* MarkAuthorityLost, Revoke or Terminal returned, though both were admitted
\* before (session_worker.go:711-727, 531-540).
NoEffectAfterLoss ==
    (child' = "alive" /\ child # "alive") \/ cmd'.runs > cmd.runs
    => permit # "lost"

\* A command runs at most once, is recorded as completed only if it ran, and is
\* left pending only when recording its unknown outcome failed as well
\* (session_worker.go:517-545, 624-632).
CommandOutcomeIsTrue ==
    /\ cmd.runs <= 1
    /\ cmd.ledger = "completed" => cmd.runs = 1
    /\ cmd.pc = "idle" /\ cmd.ledger = "pending" => cmd.lost

\* The lease is released over a live child only while that child's start is
\* not confirmed yet or still to be observed, or when it was rejected and could
\* not be stopped; an observed child is terminated first or quarantines (session_worker.go:413-447,
\* process_owner_linux.go:151-232).
ReleaseSeesObservedChild ==
    lease' = "released" /\ lease # "released" /\ child = "alive"
    => \/ obs > 0
       \/ run.pc \in {"spawned", "confirm", "reject"}
       \/ pstop["run"] = "failed"

\* A worker answers for what it started: no effect once its authority is lost, no
\* command reported otherwise than it went, and no lease let go over a child it
\* has seen (session_worker.go:413-447, 517-545, 711-727).
WorkerAnswersForEffects ==
    [][NoEffectAfterLoss /\ ReleaseSeesObservedChild /\ CommandOutcomeIsTrue']_swVars

=============================================================================
