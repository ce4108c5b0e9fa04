-------------------------- MODULE MCAdapterProcess --------------------------
(***************************************************************************)
(* The goroutines and processes of an Adapter: its worker and the          *)
(* Provider it supervises, the ownership of the process tree, the wrapped  *)
(* session, and the way of its output to the Hub, each checked on its      *)
(* own: `part' says which of them a behaviour is about.                    *)
(***************************************************************************)
EXTENDS SessionWorker, ProcessTreeOwnership, ProviderOutput, WrapSession

VARIABLE part

processVars == <<part, swVars, ptVars, poVars, wsVars>>

ProcessInit ==
    /\ part \in {"worker", "command", "tree", "output", "wrap", "beat"}
    /\ SessionWorkerInit /\ OwnershipInit /\ ProviderOutputInit /\ WrapInit
    /\ part \notin {"wrap", "beat"} => mode = "acp"

In(p) == part = p

InWorker == part \in {"worker", "command"}

InWrap == part \in {"wrap", "beat"}

OnlyWorker == UNCHANGED <<part, ptVars, poVars, wsVars>>

OnlyTree == UNCHANGED <<part, swVars, poVars, wsVars>>

OnlyOutput == UNCHANGED <<part, swVars, ptVars, wsVars>>

OnlyWrap == UNCHANGED <<part, swVars, ptVars, poVars>>

\* One of the two behaviours of a worker has a caller of Stop, the other commands
\* and a credential that expires.
WorkerSteps ==
    \/ InWorker /\ cancelContext /\ OnlyWorker
    \/ InWorker /\ loseAuthority /\ OnlyWorker
    \/ InWorker /\ RunLoop /\ OnlyWorker
    \/ InWorker /\ PrepareProcessStart /\ OnlyWorker
    \/ InWorker /\ CheckContext /\ OnlyWorker
    \/ InWorker /\ setCurrent /\ OnlyWorker
    \/ InWorker /\ EmitStarted /\ OnlyWorker
    \/ InWorker /\ ProcessDone /\ OnlyWorker
    \/ InWorker /\ RestartDecision /\ OnlyWorker
    \/ InWorker /\ Backoff /\ OnlyWorker
    \/ InWorker /\ RunStops /\ OnlyWorker
    \/ InWorker /\ RunStopped /\ OnlyWorker
    \/ InWorker /\ WorkerRun /\ OnlyWorker
    \/ InWorker /\ WorkerStarts /\ OnlyWorker
    \/ InWorker /\ WorkerLeaves /\ OnlyWorker
    \/ InWorker /\ stopOnce("run") /\ OnlyWorker
    \/ InWorker /\ stopProvider /\ OnlyWorker
    \/ InWorker /\ waitObservations /\ OnlyWorker
    \/ InWorker /\ ReleaseLease /\ OnlyWorker
    \/ InWorker /\ forwardEvents /\ OnlyWorker
    \/ InWorker /\ forwardSend /\ OnlyWorker
    \/ InWorker /\ \E x \in {"exited", "failed"} : childExits(x) /\ OnlyWorker
    \/ InWorker /\ \E ok \in BOOLEAN : PrepareReceipt(ok) /\ OnlyWorker
    \/ InWorker /\ \E ok \in BOOLEAN : RunnerStart(ok) /\ OnlyWorker
    \/ InWorker /\ \E ok \in BOOLEAN : ConfirmProcessStarted(ok) /\ OnlyWorker
    \/ InWorker /\ \E ok \in BOOLEAN : QuiesceOwner(ok) /\ OnlyWorker
    \/ InWorker /\ \E c \in {"worker", "run"} : interruptFails(c) /\ OnlyWorker
    \/ InWorker /\ \E c \in {"worker", "run"} : graceExpires(c) /\ OnlyWorker
    \/ InWorker /\ \E c \in {"worker", "run"} : stopTimesOut(c) /\ OnlyWorker
    \/ InWorker /\ \E c \in {"worker", "run"} : stopSeesExit(c) /\ OnlyWorker
    \/ In("worker") /\ stopOnce("caller") /\ OnlyWorker
    \/ In("command") /\ expireCredential /\ OnlyWorker
    \/ In("command") /\ PrepareCommand /\ OnlyWorker
    \/ In("command") /\ withAuthorized /\ OnlyWorker
    \/ In("command") /\ \E ok \in BOOLEAN : applyCommand(ok) /\ OnlyWorker
    \/ In("command") /\ \E ok \in BOOLEAN : FinalizeCompleted(ok) /\ OnlyWorker
    \/ In("command") /\ \E ok \in BOOLEAN : finalizeCommandUnknown(ok) /\ OnlyWorker

TreeSteps ==
    \/ In("tree") /\ spawnRoot /\ OnlyTree
    \/ In("tree") /\ runnerFails /\ OnlyTree
    \/ In("tree") /\ PrepareStart /\ OnlyTree
    \/ In("tree") /\ AbortStart /\ OnlyTree
    \/ In("tree") /\ ObserveStarted /\ OnlyTree
    \/ In("tree") /\ Quiesce /\ OnlyTree
    \/ In("tree") /\ waitTerm /\ OnlyTree
    \/ In("tree") /\ waitKill /\ OnlyTree
    \/ In("tree") /\ finalizeQuiescenceLocked /\ OnlyTree
    \/ In("tree") /\ Quarantine /\ OnlyTree
    \/ In("tree") /\ writeOwnershipManifest /\ OnlyTree
    \/ In("tree") /\ writeFails /\ OnlyTree
    \/ In("tree") /\ crash /\ OnlyTree
    \/ In("tree") /\ NewLinuxProcessTreeOwnership /\ OnlyTree
    \/ In("tree") /\ \E p \in Procs : exits(p) /\ OnlyTree
    \/ In("tree") /\ \E p \in Procs, d \in Descendants : fork(p, d) /\ OnlyTree

OutputSteps ==
    \/ In("output") /\ \E other, large \in BOOLEAN : Push(other, large) /\ OnlyOutput
    \/ In("output") /\ \E final \in BOOLEAN : OutputEnds(final) /\ OnlyOutput
    \/ In("output") /\ TimerExpires /\ OnlyOutput
    \/ In("output") /\ TimerFlush /\ OnlyOutput
    \/ In("output") /\ ReadReceipt /\ OnlyOutput
    \/ In("output") /\ readFails /\ OnlyOutput
    \/ In("output") /\ LinkBreaks /\ OnlyOutput
    \/ In("output") /\ CommitEventProposal /\ OnlyOutput
    \/ In("output") /\ \E t \in {"stream", "timer"} : writeEvent(t) /\ OnlyOutput
    \/ In("output") /\ \E t \in {"stream", "timer"} : writeRefused(t) /\ OnlyOutput
    \/ In("output") /\ \E t \in {"stream", "timer"} : writePrepared(t) /\ OnlyOutput
    \/ In("output") /\ \E t \in {"stream", "timer"} : sendFails(t) /\ OnlyOutput
    \/ In("output") /\ \E t \in {"stream", "timer"} : Finish(t) /\ OnlyOutput
    \/ In("output") /\ \E t \in Goroutines : reconnectLocks(t) /\ OnlyOutput
    \/ In("output") /\ \E t \in Goroutines : dialAndResume(t) /\ OnlyOutput
    \/ In("output") /\ \E t \in Goroutines : takeProposals(t) /\ OnlyOutput
    \/ In("output") /\ \E t \in Goroutines : replayProposal(t) /\ OnlyOutput
    \/ In("output") /\ \E t \in Goroutines : replayFails(t) /\ OnlyOutput
    \/ In("output") /\ \E t \in Goroutines : freshFails(t) /\ OnlyOutput
    \/ In("output") /\ \E t \in Goroutines : freshRefused(t) /\ OnlyOutput
    \/ In("output") /\ \E t \in Goroutines : dialRejected(t) /\ OnlyOutput
    \/ In("output") /\ \E t \in Goroutines : factoryFails(t) /\ OnlyOutput
    \/ In("output") /\ \E t \in Goroutines, b \in BOOLEAN : freshProposal(t, b) /\ OnlyOutput

\* A wrapped session is checked with restarts of its child and commands sent twice,
\* and with its heartbeat.
WrapSteps ==
    \/ InWrap /\ requestStart /\ OnlyWrap
    \/ InWrap /\ skipFrame /\ OnlyWrap
    \/ InWrap /\ spawn /\ OnlyWrap
    \/ InWrap /\ startFails /\ OnlyWrap
    \/ InWrap /\ confirmed /\ OnlyWrap
    \/ InWrap /\ refused /\ OnlyWrap
    \/ InWrap /\ runCancelled /\ OnlyWrap
    \/ InWrap /\ processExits /\ OnlyWrap
    \/ InWrap /\ childAsks /\ OnlyWrap
    \/ InWrap /\ outputDone(FALSE) /\ OnlyWrap
    \/ InWrap /\ hubAnswers /\ OnlyWrap
    \/ InWrap /\ loopStartFrame /\ OnlyWrap
    \/ InWrap /\ loopFrame /\ OnlyWrap
    \/ InWrap /\ loopDuplicate /\ OnlyWrap
    \/ InWrap /\ loopPermit /\ OnlyWrap
    \/ InWrap /\ loopInterrupt /\ OnlyWrap
    \/ InWrap /\ loopStop /\ OnlyWrap
    \/ InWrap /\ receiptTimesOut /\ OnlyWrap
    \/ InWrap /\ firstAdmitted /\ OnlyWrap
    \/ InWrap /\ neverAdmitted /\ OnlyWrap
    \/ InWrap /\ startLoops /\ OnlyWrap
    \/ InWrap /\ processDone /\ OnlyWrap
    \/ InWrap /\ outputDone(TRUE) /\ OnlyWrap
    \/ InWrap /\ commandDone /\ OnlyWrap
    \/ InWrap /\ \E ok \in BOOLEAN : observeExit(ok) /\ OnlyWrap
    \/ InWrap /\ \E ok \in BOOLEAN : hubAdmits(ok) /\ OnlyWrap
    \/ InWrap /\ \E ok \in BOOLEAN : hubReadsProof(ok) /\ OnlyWrap
    \/ InWrap /\ \E ok \in BOOLEAN : loopSend(ok) /\ OnlyWrap
    \/ InWrap /\ \E ok \in BOOLEAN : loopSettings(ok) /\ OnlyWrap
    \/ InWrap /\ \E ok \in BOOLEAN : loopExecute(ok) /\ OnlyWrap
    \/ InWrap /\ \E ok \in BOOLEAN : stopReturns(ok) /\ OnlyWrap
    \/ InWrap /\ \E ok \in BOOLEAN : waitReceipt(ok) /\ OnlyWrap
    \/ InWrap /\ \E ok \in BOOLEAN : initialize(ok) /\ OnlyWrap
    \/ In("wrap") /\ backoffEnds /\ OnlyWrap
    \/ In("wrap") /\ \E c \in Commands, t \in Types : hubSends(c, t) /\ OnlyWrap
    \/ In("beat") /\ ping /\ OnlyWrap
    \/ In("beat") /\ pingTimesOut /\ OnlyWrap
    \/ In("beat") /\ heartbeatDone /\ OnlyWrap
    \/ In("beat") /\ \E c \in Commands, t \in Types : cmds[c].sends = 0 /\ hubSends(c, t) /\ OnlyWrap

ProcessNext ==
    \/ WorkerSteps \/ TreeSteps \/ OutputSteps \/ WrapSteps

ProcessSpec == ProcessInit /\ [][ProcessNext]_processVars

\* The state of the parts a behaviour is not about never changes.
ProcessView ==
    CASE InWorker     -> <<part, swVars>>
      [] In("tree")   -> <<part, ptVars>>
      [] In("output") -> <<part, poVars>>
      [] InWrap       -> <<part, wsVars>>

\* The types of the variables of the part a behaviour is about.
ProcessTypeOK ==
    CASE InWorker     -> SessionWorkerTypeOK
      [] In("tree")   -> OwnershipTypeOK
      [] In("output") -> ProviderOutputTypeOK
      [] InWrap       -> WrapTypeOK
=============================================================================
