----------------------------- MODULE MCProgress ------------------------------
(***************************************************************************)
(* What eventually happens in the delivery of commands, in the event       *)
(* stream, in an Adapter's worker, in a warm attachment, on the way of the *)
(* Provider's output to the Hub, in a wrapped session and in a change of   *)
(* an ACP agent's settings, each checked on its own: `part' says which of  *)
(* them a behaviour is about.                                              *)
(***************************************************************************)
EXTENDS CommandDelivery, EventStream, SessionWorker, WarmAttach,
        ProviderOutput, WrapSession, AcpSettings

VARIABLE part

progressVars == <<part, vars, streamVars, swVars, waVars, poVars, wsVars, acpVars>>

AcpWants(m, r, p) == [model |-> m, reasoning |-> r, permission |-> p]

ModelLaunches == {AcpWants(2, 1, 2)}

ModelChanges == {AcpWants(1, 2, 1)}

In(p) == part = p

\* The two instances of SessionWorker: a worker that its caller stops and whose child
\* is restarted, and one that is given a command and whose child only fails when it
\* is terminated.
WorkerPart == part \in {"worker", "command"}

StoppedWorker == SessionWorkerNext /\ UNCHANGED cmd

CommandedWorker ==
    /\ SessionWorkerNext
    /\ stop'.by # "caller"
    /\ (child = "alive" /\ child' = "failed") => stop.pc = "quiesce"

ProgressInit ==
    /\ part \in {"delivery", "stream", "worker", "command", "attach", "output", "wrap", "acp"}
    /\ Init /\ StreamInit /\ SessionWorkerInit /\ WarmAttachInit
    /\ ProviderOutputInit /\ WrapInit /\ AcpInit
    /\ ~In("delivery") => ~required
    /\ ~In("stream") => latest = 0
    /\ ~In("wrap") => mode = "acp"
    /\ ~In("acp") => /\ ~acp.required /\ ~acp.managed /\ provider.single = {}
                     /\ tracker.cur = NoCapability

OnlyDelivery == UNCHANGED <<part, streamVars, swVars, waVars, poVars, wsVars, acpVars>>

OnlyStream == UNCHANGED <<part, vars, swVars, waVars, poVars, wsVars, acpVars>>

OnlyWorker == UNCHANGED <<part, vars, streamVars, waVars, poVars, wsVars, acpVars>>

OnlyAttach == UNCHANGED <<part, vars, streamVars, swVars, poVars, wsVars, acpVars>>

OnlyOutput == UNCHANGED <<part, vars, streamVars, swVars, waVars, wsVars, acpVars>>

OnlyWrap == UNCHANGED <<part, vars, streamVars, swVars, waVars, poVars, acpVars>>

OnlyAcp == UNCHANGED <<part, vars, streamVars, swVars, waVars, poVars, wsVars>>

ProgressNext ==
    \/ In("delivery") /\ CalmNext /\ OnlyDelivery
    \/ In("stream") /\ StreamNext /\ OnlyStream
    \/ In("worker") /\ StoppedWorker /\ OnlyWorker
    \/ In("command") /\ CommandedWorker /\ OnlyWorker
    \/ In("attach") /\ WarmAttachNext /\ OnlyAttach
    \/ In("output") /\ ProviderOutputNext /\ OnlyOutput
    \/ In("wrap") /\ WrapNext /\ OnlyWrap
    \/ In("acp") /\ AcpNext /\ OnlyAcp

\* The variables of the part a behaviour is about: the others never change.
PartVars ==
    CASE In("delivery") -> vars
      [] In("stream") -> streamVars
      [] WorkerPart -> swVars
      [] In("attach") -> waVars
      [] In("output") -> poVars
      [] In("wrap")   -> wsVars
      [] In("acp")    -> acpVars

\* What became of a command, and why a credential is no longer good, decide no step.
WorkerView ==
    <<runVars, stopVars, ownVars, ctxDone, work, fence, permit = "ok", cmd.pc, cmd.ledger = "none">>

ProgressView == <<part, IF WorkerPart THEN WorkerView ELSE PartVars>>

AdapterStep(a) == Reconnect(a) \/ Admit(a) \/ ConnStep(a) \/ Read(a)

\* The n-th publisher.
PublisherStep(n) ==
    LET p == SetToSeq(Publisher)[n]
    IN n <= Cardinality(Publisher) /\ (Commit(p) \/ FanOut(p))

PartOf(p) == In(p) /\ UNCHANGED part

PartOfWorker == WorkerPart /\ UNCHANGED part

\* The goroutines and timers of the parts, four of each at most: goroutines that
\* take turns share a condition.
Goroutine1 ==
    \/ PartOf("delivery") /\ \E h \in Handler : HandlerStep(h)
    \/ PartOf("stream") /\ PublisherStep(1)
    \/ PartOfWorker /\ RunStep
    \/ PartOf("attach") /\ WarmAttachHandler
    \/ PartOf("output") /\ (TimerExpires \/ TimerFlush)
    \/ PartOf("wrap") /\ Supervise
    \/ PartOf("acp") /\ (launchNext \/ launchRead \/ launchTimeout)

Goroutine2 ==
    \/ PartOf("delivery") /\ \E a \in Adapter : AdapterStep(a)
    \/ PartOf("stream") /\ PublisherStep(2)
    \/ PartOfWorker /\ WorkerStep
    \/ PartOf("attach") /\ postCommitTimeout
    \/ PartOf("output") /\ \E t \in {"stream", "timer"} : WriteFrame(t)
    \/ PartOf("wrap") /\ HubStep
    \/ PartOf("acp") /\ readLine

Goroutine3 ==
    \/ PartOf("delivery") /\ \E c \in Command : CommandStep(c)
    \/ PartOf("stream") /\ \E c \in Viewer : Serve(c)
    \/ PartOfWorker /\ \E c \in {"worker", "run"} : StopCall(c)
    \/ PartOf("output") /\ (ReadReceipt \/ readFails \/ CommitEventProposal)
    \/ PartOf("wrap") /\ LoopStep
    \/ PartOf("acp") /\ (execCheck \/ execApply(TRUE) \/ execAnswer \/ execTimeout \/ execPublish)

Goroutine4 ==
    \/ PartOf("delivery") /\ \/ \E a \in Adapter : rejectPendingCommandDeliveries(a)
                             \/ \E c \in Command : Expire(c)
    \/ PartOf("stream") /\ Relay
    \/ PartOf("output") /\ \E t \in Goroutines : ReconnectHub(t)
    \/ PartOfWorker /\ HandleCommandStep
    \/ PartOf("wrap") /\ (MainStep \/ (process.stopping /\ processExits))
    \/ PartOf("acp") /\ (reconnectLink \/ replayProposals \/ freshReconnectProposals \/ writeFreshProposal)

ProgressSpec ==
    /\ ProgressInit /\ [][ProgressNext]_progressVars
    /\ WF_PartVars(Goroutine1) /\ WF_PartVars(Goroutine2)
    /\ WF_PartVars(Goroutine3) /\ WF_PartVars(Goroutine4)

\* Any publisher and any client: they are interchangeable.
ThePublisher == CHOOSE p \in Publisher : TRUE

TheViewer == CHOOSE v \in Viewer : TRUE

\* The events of the log a client is subscribed to and has not been sent.
Missed ==
    {q \in 1..latest : q > view[TheViewer].first /\ q \notin Range(view[TheViewer].sent)}

\* The states in which the code does wait for ever.

\* start's closure returned at the done context, and neither Confirm nor Abort gives
\* the credential fence back (supervisor.go:294-299).
FenceLeaked == fence = "start" /\ run.pc = "ended"

\* setCurrent cleared the mark of a Stop that came while no child was current
\* (supervisor.go:209, 351), or Run that of one that came before it took stopMu
\* (session_worker.go:398-402).
StopForgotten == (stopped /\ ~stopping) \/ (lease = "released" /\ ~stopped)

\* A start the Hub refused before a preparation, which nextPrepare does not look for
\* (main.go:2576-2593), or whose answer nobody delivers: the command loop waits for
\* a receipt and skips it, or has ended.
StartUnanswered ==
    /\ process.pc \in {"awaitPrepare", "awaitAck"}
    /\ hub.refused = process.attempt \/ admission.skipped \/ loop.pc = "done"

\* An encrypted session's Stop failed after the Provider and its output ended: the
\* loop goes on, and the main goroutine is not woken to look again (main.go:2434-2452).
ReturnMissed == main.process /\ main.output /\ ~loop.stopInProgress

\* A goroutine restores the connection while it holds settingsMu (main.go:2341).
SelfLocked == ~settingsMu

Called ==
    CASE In("delivery") -> \E c \in Command : ledger[c] = "received"
      [] In("stream") -> pub[ThePublisher].pc = "wait"
      [] WorkerPart -> (ctxDone /\ work = "running") \/ stop.by # "none" \/ fence # "free" \/ cmd.pc # "idle"
      [] In("attach") -> attaching.pc # "idle"
      [] In("output") -> FALSE
      [] In("wrap")   -> process.pc \in {"awaitPrepare", "awaitAck", "gone"}
      [] In("acp")    -> exec.pc # "idle" \/ hublink.st = "dead"

Answered ==
    CASE In("delivery") -> \A c \in Command : ledger[c] # "received"
      [] In("stream") -> pub[ThePublisher].pc # "wait"
      [] WorkerPart -> /\ ~(ctxDone /\ work = "running") /\ stop.by = "none"
                       /\ (FenceLeaked \/ (fence = "free" /\ cmd.pc = "idle"))
      [] In("attach") -> attaching.pc = "idle"
      [] In("output") -> TRUE
      [] In("wrap")   -> \/ main.pc = "returned" \/ process.pc \in {"running", "backoff"}
                         \/ StartUnanswered \/ ReturnMissed
      [] In("acp")    -> (exec.pc = "idle" /\ Settled) \/ acp.st = "ended" \/ SelfLocked

\* Whoever waits gets an end of it: a command that was claimed (while the Hub
\* stays up), a publisher in acquire behind callers that gave up waiting, a
\* Run whose context is cancelled, a Stop and a DeliverCommand whatever the child
\* and its receipts do, an attachment whose Adapter or target never answers, the
\* start handshake of a wrapped Provider and the main goroutine once it is gone, a
\* settings change whose agent does not reply and the connection it needs.  The
\* exceptions are the states above, each entered at the lines it names.
CallsReturn == Called ~> Answered

Expected ==
    CASE In("stream") -> TheViewer \in subscribers /\ Missed # {}
      [] WorkerPart -> lease = "released" /\ stop.by = "none" /\ work \notin {"new", "admitted"}
      [] In("output") -> scanned > 0
      [] OTHER        -> FALSE

Arrived ==
    CASE In("stream") -> Missed = {} \/ view[TheViewer].pc = "closed"
      [] WorkerPart -> (run.pc = "ended" /\ (child # "alive" \/ pstop["run"] = "failed")) \/ StopForgotten
      [] In("output") -> \/ 1..scanned \subseteq Items(log) \cup dropped
                         \/ \E t \in Goroutines : writer[t].pc = "failed"
      [] OTHER        -> TRUE

\* What is on its way arrives: every event of the log at a subscribed client or
\* its connection is closed (replay, buffer and live stream), the end of a
\* Provider whose start was under way when its lease was released
\* (supervisor.go:183-188) unless that Stop was forgotten, what the Provider said in
\* the log unless a send or the connection's last credential failed.
DataArrives == Expected ~> Arrived

\* Under the fairness of the scheduler and of the timers nothing waits for ever
\* but in the states named above: every other call returns and every piece of data
\* arrives.
NothingWaitsForever == CallsReturn /\ DataArrives
=============================================================================
