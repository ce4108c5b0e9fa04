----------------------------- MODULE WrapSession -----------------------------
(***************************************************************************)
(* One run of the Adapter around one Provider (runWrapProvider and         *)
(* runWrapACPProvider), and the Hub's side of the start handshake.         *)
(*                                                                         *)
(* Five goroutines share the run: the supervisor that starts the child and *)
(* starts it again when it fails; the loop that reads the Hub's frames and *)
(* executes its commands; the loop that reads the child's output; the      *)
(* heartbeat; and the main loop that waits for the others and returns.     *)
(* The first start handshake reads the socket itself; later ones get their *)
(* frames through the command loop.  The Hub answers frames in order, and  *)
(* while a start is being admitted it takes the very next frame for the    *)
(* proof that the child runs.                                              *)
(*                                                                         *)
(* mode is the Provider's bridge: "jsonstream", "acp", or "required" for   *)
(* an ACP Provider of an endpoint-encrypted session.  The transport under  *)
(* the frames is reliable here; ProviderOutput has its failures.           *)
(***************************************************************************)
EXTENDS Integers, Sequences

CONSTANTS
    Commands,       \* command ids the Hub may send
    AcceptLimit,    \* the limit of the acceptedCommandSet (2048)
    MaxAttempts,    \* starts of the child: 1 + MaxRestarts
    MaxPings,       \* bound on heartbeats
    MaxSends        \* bound on the deliveries of one command

ASSUME WrapSessionAssumption ==
    /\ MaxAttempts \in Nat \ {0} /\ MaxSends \in Nat \ {0} /\ AcceptLimit \in Nat \ {0}
    /\ MaxPings \in Nat

VARIABLES
    mode,           \* the bridge
    process,          \* the supervisor's goroutine and its process
    admission,      \* providerStartAdmission, and whether an answer to it was skipped
    main,           \* the main loop
    loop,           \* the command loop
    beat,           \* the heartbeat
    hubFrames,          \* frames from the Hub
    outbox,         \* frames to the Hub
    hub,            \* adapter.providerStartAttempt, the start being admitted, the last one refused
    cmds            \* per command: its type, deliveries, what became of it

wsVars == <<mode, process, admission, main, loop, beat, hubFrames, outbox, hub, cmds>>

RunModes == {"jsonstream", "acp", "required"}
Types == {"send", "permit", "settings", "interrupt", "stop"}

F(k, n) == [k |-> k, n |-> n, c |-> "none"]
Of(k, c) == [k |-> k, n |-> 0, c |-> c]

WrapInit ==
    /\ mode \in RunModes
    /\ process = [pc |-> "request", attempt |-> 1, alive |-> FALSE, current |-> FALSE,
                stopping |-> FALSE, asks |-> FALSE, answers |-> 0]
    /\ admission = [direct |-> TRUE, first |-> FALSE, prepare |-> 0, ack |-> 0, skipped |-> FALSE]
    /\ main = [pc |-> "waitFirst", process |-> FALSE, output |-> FALSE, command |-> FALSE,
               error |-> FALSE]
    /\ loop = [pc |-> "off", cmd |-> "none", after |-> "reading", receipts |-> 0, error |-> FALSE,
               accepted |-> <<>>, settings |-> "none", stopInProgress |-> FALSE, stops |-> 0]
    /\ beat = [pc |-> IF mode = "jsonstream" THEN "idle" ELSE "off", pings |-> 0]
    /\ hubFrames = <<>> /\ outbox = <<>>
    /\ hub = [attempt |-> 0, admitting |-> 0, refused |-> 0]
    /\ cmds = [c \in Commands |-> [type |-> "none", sends |-> 0, runs |-> 0, state |-> "none"]]

Cancelled == main.pc = "returned"

Ask(f) == outbox' = Append(outbox, f)

\* What a reader that skips frames it does not want does to them: a command among
\* them is gone.
Swallow(f) ==
    cmds' = IF f.k = "command" /\ cmds[f.c].state = "sent"
            THEN [cmds EXCEPT ![f.c].state = "swallowed"] ELSE cmds

-----------------------------------------------------------------------------
\* ProcessSupervisor.Run and start.

requestStart ==
    /\ process.pc = "request" /\ ~Cancelled
    /\ Ask(F("start", process.attempt))
    /\ process' = [process EXCEPT !.pc = "awaitPrepare"]
    /\ UNCHANGED <<mode, admission, main, loop, beat, hubFrames, hub, cmds>>

\* nextPrepare and nextAck of the first exchange: awaitProviderStartFrame reads
\* the socket and skips every frame but the wanted one and an error.
Wanted == IF process.pc = "awaitPrepare" THEN {"prepare"} ELSE {"admitted", "rejected"}

skipFrame ==
    /\ process.pc \in {"awaitPrepare", "awaitAck"} /\ admission.direct /\ ~Cancelled
    /\ hubFrames # <<>> /\ Head(hubFrames).k \notin Wanted \cup {"error"}
    /\ Swallow(Head(hubFrames))
    /\ hubFrames' = Tail(hubFrames)
    /\ UNCHANGED <<mode, process, admission, main, loop, beat, outbox, hub>>

\* The frame that awaited is there: on the socket, or in the channel the command
\* loop delivers to (0: nothing; a rejected acknowledgement is -1).
Direct(k) == admission.direct /\ hubFrames # <<>> /\ Head(hubFrames).k = k /\ Head(hubFrames).n = process.attempt

takesPrepare ==
    \/ /\ Direct("prepare") /\ hubFrames' = Tail(hubFrames) /\ UNCHANGED admission
    \/ /\ ~admission.direct /\ admission.prepare = process.attempt
       /\ admission' = [admission EXCEPT !.prepare = 0] /\ UNCHANGED hubFrames

\* PrepareProcessStart returned: the child is spawned and reported.
spawn ==
    /\ process.pc = "awaitPrepare" /\ ~Cancelled
    /\ takesPrepare
    /\ Ask(F("started", process.attempt))
    /\ process' = [process EXCEPT !.pc = "awaitAck", !.alive = TRUE, !.current = TRUE, !.stopping = FALSE]
    /\ UNCHANGED <<mode, main, loop, beat, hub, cmds>>

\* The preparation is for another attempt, the Hub reports an error, or the
\* process cannot be started: Run returns.
startFails ==
    /\ process.pc = "awaitPrepare" /\ ~Cancelled
    /\ \/ admission.direct /\ hubFrames # <<>> /\ Head(hubFrames).k = "error" /\ hubFrames' = Tail(hubFrames) /\ UNCHANGED admission
       \/ takesPrepare
    /\ process' = [process EXCEPT !.pc = "gone"]
    /\ UNCHANGED <<mode, main, loop, beat, outbox, hub, cmds>>

\* Mutant: the status of the acknowledgement is not looked at.
AnyStatus == {"admitted", "rejected"}

\* The status ConfirmProcessStarted accepts.
Admitted == {"admitted"}

confirmed ==
    /\ process.pc = "awaitAck" /\ ~Cancelled
    /\ \/ (\E k \in Admitted : Direct(k)) /\ hubFrames' = Tail(hubFrames)
          /\ admission' = [admission EXCEPT !.direct = FALSE, !.first = TRUE]
       \/ ~admission.direct /\ admission.ack = process.attempt
          /\ admission' = [admission EXCEPT !.ack = 0] /\ UNCHANGED hubFrames
    /\ process' = [process EXCEPT !.pc = "running"]
    /\ UNCHANGED <<mode, main, loop, beat, outbox, hub, cmds>>

\* A child that is not admitted is stopped before Run returns.
rejectedStops == process' = [process EXCEPT !.pc = "gone", !.alive = FALSE, !.stopping = TRUE]

refused ==
    /\ process.pc = "awaitAck" /\ ~Cancelled
    /\ \/ (Direct("rejected") \/ Direct("error")) /\ hubFrames' = Tail(hubFrames) /\ UNCHANGED admission
       \/ ~admission.direct /\ admission.ack = -1
          /\ admission' = [admission EXCEPT !.ack = 0] /\ UNCHANGED hubFrames
    /\ rejectedStops
    /\ UNCHANGED <<mode, main, loop, beat, outbox, hub, cmds>>

processExits ==
    /\ process.alive /\ ~Cancelled
    /\ process' = [process EXCEPT !.alive = FALSE]
    /\ UNCHANGED <<mode, admission, main, loop, beat, hubFrames, outbox, hub, cmds>>

\* Run sees the exit: a stopped or clean one ends it, a failure starts the child
\* again after the backoff while restarts are left.
observeExit(clean) ==
    /\ process.pc = "running" /\ ~process.alive /\ ~Cancelled
    /\ process' = [process EXCEPT
           !.current = FALSE,
           !.pc = IF process.stopping \/ clean \/ process.attempt >= MaxAttempts THEN "gone" ELSE "backoff"]
    /\ UNCHANGED <<mode, admission, main, loop, beat, hubFrames, outbox, hub, cmds>>

backoffEnds ==
    /\ process.pc = "backoff" /\ ~Cancelled
    /\ process' = [process EXCEPT !.pc = "request", !.attempt = @ + 1]
    /\ UNCHANGED <<mode, admission, main, loop, beat, hubFrames, outbox, hub, cmds>>

\* The run's context ends, and Run stops the child.
runCancelled ==
    /\ Cancelled /\ process.pc # "gone"
    /\ process' = [process EXCEPT !.pc = "gone", !.alive = FALSE]
    /\ UNCHANGED <<mode, admission, main, loop, beat, hubFrames, outbox, hub, cmds>>

\* session/request_permission, tracked by trackACPPermissionRequest.
childAsks ==
    /\ mode # "jsonstream" /\ main.pc = "serving"
    /\ process.alive /\ ~process.asks /\ process.answers = 0
    /\ process' = [process EXCEPT !.asks = TRUE]
    /\ UNCHANGED <<mode, admission, main, loop, beat, hubFrames, outbox, hub, cmds>>

-----------------------------------------------------------------------------
\* The Hub.  It sends a command to the registered Adapter, again when it
\* redelivers the pending ones; run control needs the published capability.

hubSends(c, t) ==
    /\ ~Cancelled /\ cmds[c].type \in {"none", t} /\ cmds[c].sends < MaxSends
    /\ t \in {"interrupt", "stop"} => main.pc = "serving"
    /\ t = "permit" => mode # "jsonstream"
    /\ t = "settings" => mode = "acp"
    /\ hubFrames' = Append(hubFrames, Of("command", c))
    /\ cmds' = [cmds EXCEPT ![c].type = t, ![c].sends = @ + 1,
                            ![c].state = IF @ = "none" THEN "sent" ELSE @]
    /\ UNCHANGED <<mode, process, admission, main, loop, beat, outbox, hub>>

\* The frame readProtocolFrame returns inside the admission's transaction.
Proof(f, n) == f.k = "started" /\ f.n = n

\* handleProviderStart up to the preparation; ok is the Store's verdict on the
\* writer and its lease.
Reply(f) == hubFrames' = Append(hubFrames, f) /\ outbox' = Tail(outbox)

hubAdmits(ok) ==
    /\ outbox # <<>> /\ ~Cancelled /\ hub.admitting = 0 /\ Head(outbox).k = "start"
    /\ LET n == Head(outbox).n IN
       IF n = hub.attempt + 1 /\ ok
       THEN Reply(F("prepare", n)) /\ hub' = [hub EXCEPT !.admitting = n]
       ELSE Reply(F("rejected", n)) /\ hub' = [hub EXCEPT !.refused = n]
    /\ UNCHANGED <<mode, process, admission, main, loop, beat, cmds>>

\* The rest of it, after the next frame; ok is the commit.
hubReadsProof(ok) ==
    /\ outbox # <<>> /\ ~Cancelled /\ hub.admitting # 0
    /\ IF Proof(Head(outbox), hub.admitting) /\ ok
       THEN Reply(F("admitted", hub.admitting)) /\ hub' = [hub EXCEPT !.attempt = hub.admitting, !.admitting = 0]
       ELSE Reply(F("rejected", hub.admitting)) /\ hub' = [hub EXCEPT !.admitting = 0]
    /\ UNCHANGED <<mode, process, admission, main, loop, beat, cmds>>

\* Every other frame of the Adapter: a receipt for an event or an outcome, a pong,
\* the execute frame that follows an accepted settings change; a proof nobody
\* asked for is answered by an error.
OrdersSettings(f) == f.k = "ack" /\ cmds[f.c].type = "settings" /\ cmds[f.c].state = "accepted"

hubAnswers ==
    /\ outbox # <<>> /\ ~Cancelled /\ hub.admitting = 0 /\ Head(outbox).k # "start"
    /\ LET f == Head(outbox) IN
       CASE f.k = "event"   -> Reply(F("receipt", 0))
         [] f.k = "outcome" -> Reply(F("receipt", f.n))
         [] f.k = "ping"    -> Reply(F("pong", f.n))
         [] f.k = "started" -> Reply(F("error", 0))
         [] OTHER           -> IF OrdersSettings(f)
                               THEN Reply(Of("execute", f.c)) ELSE outbox' = Tail(outbox) /\ UNCHANGED hubFrames
    /\ cmds' = IF OrdersSettings(Head(outbox)) THEN [cmds EXCEPT ![Head(outbox).c].state = "ordered"] ELSE cmds
    /\ UNCHANGED <<mode, process, admission, main, loop, beat, hub>>

-----------------------------------------------------------------------------
\* The command loop: forwardHubCommandsToProvider and its ACP form.  It closes the
\* Provider's stdin when it returns.

Reading == loop.pc = "reading" /\ hubFrames # <<>> /\ ~Cancelled
Consume == hubFrames' = Tail(hubFrames)
LoopDone(err) == [loop EXCEPT !.pc = "done", !.error = err]

\* The supervisor's frames, a pong, an error, and what needs no answer.
loopStartFrame ==
    /\ Reading /\ Head(hubFrames).k \in {"prepare", "admitted", "rejected"} /\ Consume
    /\ LET f == Head(hubFrames)
           slot == IF f.k = "prepare" THEN "prepare" ELSE "ack"
       IN IF admission[slot] = 0
          THEN /\ admission' = [admission EXCEPT ![slot] = IF f.k = "rejected" THEN -1 ELSE f.n]
               /\ UNCHANGED loop
          ELSE loop' = LoopDone(TRUE) /\ UNCHANGED admission
    /\ UNCHANGED <<mode, process, main, beat, outbox, hub, cmds>>

loopFrame ==
    /\ Reading /\ Head(hubFrames).k \in {"pong", "receipt", "error"} /\ Consume
    /\ beat' = IF Head(hubFrames).k = "pong" /\ beat.pc = "waiting" THEN [beat EXCEPT !.pc = "idle"] ELSE beat
    /\ loop' = IF Head(hubFrames).k = "error" THEN LoopDone(TRUE) ELSE loop
    /\ UNCHANGED <<mode, process, admission, main, outbox, hub, cmds>>

Accepted(c) == \E i \in DOMAIN loop.accepted : loop.accepted[i] = c

\* acceptedCommandSet.Add: the oldest id is forgotten past the limit.  A required
\* session's commands are in the endpoint's journal instead, which forgets none.
Add(c) ==
    LET all == Append(loop.accepted, c)
    IN IF mode # "required" /\ Len(all) > AcceptLimit THEN Tail(all) ELSE all

\* A command at the head of the socket.
CommandOf(t) == Reading /\ Head(hubFrames).k = "command" /\ cmds[Head(hubFrames).c].type = t /\ Consume
NotAccepted == ~Accepted(Head(hubFrames).c)

\* One that was accepted is acknowledged again; a required session's stop ends the
\* loop then.
loopDuplicate ==
    /\ Reading /\ Head(hubFrames).k = "command" /\ Accepted(Head(hubFrames).c) /\ Consume
    /\ Ask(Of("ack", Head(hubFrames).c))
    /\ loop' = IF mode = "required" /\ cmds[Head(hubFrames).c].type = "stop" THEN LoopDone(FALSE) ELSE loop
    /\ UNCHANGED <<mode, process, admission, main, beat, hub, cmds>>

Taken(c) == cmds' = [cmds EXCEPT ![c].state = "accepted", ![c].runs = @ + 1]

\* A command that is turned down: a required session's delivery fails, and the loop
\* with it.
TurnDown(c) ==
    /\ cmds' = [cmds EXCEPT ![c].state = "rejected"]
    /\ loop' = IF mode = "required" THEN LoopDone(TRUE) ELSE loop
    /\ UNCHANGED outbox

\* session.send: a line on the Provider's stdin.  The pipe is closed once the main
\* loop has seen the Provider end; ok is false for a payload ACP cannot carry.
loopSend(ok) ==
    /\ CommandOf("send") /\ NotAccepted
    /\ LET c == Head(hubFrames).c IN
       IF ~ok /\ mode # "jsonstream"
       THEN TurnDown(c)
       ELSE IF main.process
       THEN loop' = LoopDone(TRUE) /\ UNCHANGED <<cmds, outbox>>
       ELSE /\ Taken(c) /\ loop' = [loop EXCEPT !.accepted = Add(c)]
            /\ Ask(Of("ack", c))
    /\ UNCHANGED <<mode, process, admission, main, beat, hub>>

\* permission.respond: the request is no longer pending once it is answered.
loopPermit ==
    /\ CommandOf("permit") /\ NotAccepted
    /\ LET c == Head(hubFrames).c IN
       IF ~process.asks
       THEN TurnDown(c) /\ UNCHANGED process
       ELSE /\ process' = [process EXCEPT !.asks = FALSE, !.answers = IF main.process THEN @ ELSE @ + 1]
            /\ IF main.process
               THEN loop' = LoopDone(TRUE) /\ UNCHANGED <<cmds, outbox>>
               ELSE /\ Taken(c) /\ loop' = [loop EXCEPT !.accepted = Add(c)]
                    /\ Ask(Of("ack", c))
    /\ UNCHANGED <<mode, admission, main, beat, hub>>

\* settings.change: one reservation at a time, executed by the Hub's second frame.
loopSettings(ok) ==
    /\ CommandOf("settings") /\ NotAccepted
    /\ LET c == Head(hubFrames).c IN
       IF loop.settings # "none" \/ ~ok
       THEN TurnDown(c)
       ELSE /\ cmds' = [cmds EXCEPT ![c].state = "accepted"]
            /\ loop' = [loop EXCEPT !.settings = c, !.accepted = Add(c)]
            /\ Ask(Of("ack", c))
    /\ UNCHANGED <<mode, process, admission, main, beat, hub>>

\* SettingsDeliveryExecute; without a published result the Provider is stopped.
loopExecute(published) ==
    /\ Reading /\ Head(hubFrames).k = "execute" /\ Consume
    /\ IF Head(hubFrames).c = loop.settings
       THEN /\ cmds' = [cmds EXCEPT ![Head(hubFrames).c].runs = @ + 1]
            /\ IF published
               THEN /\ loop' = [loop EXCEPT !.settings = "none"] /\ Ask(F("event", 0))
                    /\ UNCHANGED process
               ELSE /\ loop' = [LoopDone(TRUE) EXCEPT !.settings = "none"]
                    /\ process' = [process EXCEPT !.stopping = TRUE, !.alive = FALSE] /\ UNCHANGED outbox
       ELSE loop' = LoopDone(TRUE) /\ UNCHANGED <<cmds, outbox, process>>
    /\ UNCHANGED <<mode, admission, main, beat, hub>>

\* Run control.  supervisor.Stop marks the stop, interrupts the current child and
\* waits for it; with no current child it returns at once.
AcknowledgeTo(st, after, n) ==
    /\ outbox' = outbox \o <<Of("ack", st.cmd), F("outcome", n)>>
    /\ loop' = [st EXCEPT !.pc = "waitReceipt", !.after = after, !.receipts = n]

\* The receipts acknowledgeRunControl waits for: the outcome's, and the sealed
\* state's in a required session.
Receipts(completed) == IF completed /\ mode = "required" THEN 2 ELSE 1

\* session.interrupt: a signal to the child, or the ACP notification.  The
\* jsonstream loop returns what handleProviderRunControl returns.
loopInterrupt ==
    /\ CommandOf("interrupt") /\ NotAccepted
    /\ LET c == Head(hubFrames).c
           taken == [loop EXCEPT !.cmd = c, !.accepted = IF mode = "jsonstream" THEN @ ELSE Add(c)]
       IN IF mode # "jsonstream" /\ main.process
          THEN loop' = LoopDone(TRUE) /\ UNCHANGED <<cmds, outbox>>
          ELSE /\ Taken(c)
               /\ AcknowledgeTo(taken, IF mode = "jsonstream" THEN "done" ELSE "reading",
                              Receipts(TRUE))
    /\ UNCHANGED <<mode, process, admission, main, beat, hub>>

loopStop ==
    /\ CommandOf("stop") /\ NotAccepted
    /\ LET c == Head(hubFrames).c IN
       /\ Taken(c)
       /\ loop' = [loop EXCEPT !.pc = "stopping", !.cmd = c, !.stopInProgress = TRUE, !.stops = @ + 1,
                               !.accepted = IF mode = "required" THEN Add(c) ELSE @]
    /\ process' = [process EXCEPT !.stopping = TRUE]
    /\ UNCHANGED <<mode, admission, main, beat, outbox, hub>>

\* Stop returns: confirmed once no current child lives; otherwise the interrupt
\* failed or the time ran out.
stopReturns(confirmed_) ==
    /\ loop.pc = "stopping" /\ ~Cancelled
    /\ confirmed_ => ~(process.current /\ process.alive)
    /\ AcknowledgeTo(loop, IF mode = "required" /\ ~confirmed_ THEN "resume" ELSE "done", Receipts(confirmed_))
    /\ UNCHANGED <<mode, process, admission, main, beat, hubFrames, hub, cmds>>

\* waitEventReceipt: every frame but the awaited receipt and an error is skipped, an
\* answer to the supervisor's start too.  ok is the receipt's status.
waitReceipt(ok) ==
    /\ loop.pc = "waitReceipt" /\ hubFrames # <<>> /\ ~Cancelled /\ Consume
    /\ LET f == Head(hubFrames) IN
       CASE f.k = "error" \/ (f.k = "receipt" /\ f.n = loop.receipts /\ ~ok) ->
                loop' = LoopDone(TRUE) /\ UNCHANGED <<cmds, outbox>>
         [] f.k = "receipt" /\ f.n = loop.receipts /\ ok /\ f.n = 2 ->
                loop' = [loop EXCEPT !.receipts = 1] /\ Ask(F("outcome", 1)) /\ UNCHANGED cmds
         [] f.k = "receipt" /\ f.n = loop.receipts /\ ok /\ f.n = 1 ->
                /\ loop' = [loop EXCEPT !.receipts = 0,
                              !.pc = IF loop.after = "resume" THEN "reading" ELSE loop.after,
                              !.stopInProgress = IF loop.after = "resume" THEN FALSE ELSE @]
                /\ UNCHANGED <<cmds, outbox>>
         [] OTHER -> Swallow(f) /\ UNCHANGED <<loop, outbox>>
    /\ admission' = [admission EXCEPT !.skipped = @ \/ Head(hubFrames).k \in {"prepare", "admitted", "rejected"}]
    /\ UNCHANGED <<mode, process, main, beat, hub>>

\* The thirty seconds of the receipt.
receiptTimesOut ==
    /\ loop.pc = "waitReceipt" /\ ~Cancelled
    /\ loop' = LoopDone(TRUE)
    /\ UNCHANGED <<mode, process, admission, main, beat, hubFrames, outbox, hub, cmds>>

-----------------------------------------------------------------------------
\* startAdapterHeartbeat.

ping ==
    /\ beat.pc = "idle" /\ beat.pings < MaxPings /\ ~Cancelled
    /\ beat' = [pc |-> "waiting", pings |-> beat.pings + 1]
    /\ Ask(F("ping", 0))
    /\ UNCHANGED <<mode, process, admission, main, loop, hubFrames, hub, cmds>>

pingTimesOut ==
    /\ beat.pc = "waiting" /\ ~Cancelled
    /\ beat' = [beat EXCEPT !.pc = "failed"]
    /\ UNCHANGED <<mode, process, admission, main, loop, hubFrames, outbox, hub, cmds>>

\* The main goroutine.  It waits for the first admission, initializes an ACP
\* Provider (ok: it answered), publishes the run-control capability and starts the
\* loops.
Returned(err) == [main EXCEPT !.pc = "returned", !.error = err]

\* The connection is closed when the run returns.
Goes(m) ==
    /\ main' = m
    /\ IF m.pc = "returned" THEN hubFrames' = <<>> /\ outbox' = <<>> ELSE UNCHANGED <<hubFrames, outbox>>

firstAdmitted ==
    /\ main.pc = "waitFirst" /\ admission.first
    /\ Goes([main EXCEPT !.pc = IF mode = "jsonstream" THEN "start" ELSE "initialize"])
    /\ UNCHANGED <<mode, process, admission, loop, beat, hub, cmds>>

neverAdmitted ==
    /\ main.pc = "waitFirst" /\ process.pc = "gone" /\ ~admission.first
    /\ Goes(Returned(TRUE))
    /\ UNCHANGED <<mode, process, admission, loop, beat, hub, cmds>>

initialize(ok) ==
    /\ main.pc = "initialize"
    /\ ok => process.alive
    /\ Goes(IF ok THEN [main EXCEPT !.pc = "start"] ELSE Returned(TRUE))
    /\ UNCHANGED <<mode, process, admission, loop, beat, hub, cmds>>

startLoops ==
    /\ main.pc = "start"
    /\ main' = [main EXCEPT !.pc = "serving"]
    /\ loop' = [loop EXCEPT !.pc = "reading"]
    /\ beat' = IF beat.pc = "off" THEN [beat EXCEPT !.pc = "idle"] ELSE beat
    /\ Ask(F("event", 0))
    /\ UNCHANGED <<mode, process, admission, hubFrames, hub, cmds>>

\* The test at the head of the main loop, taken after every event.
finished(m) == m.process /\ m.output /\ ~(loop.stopInProgress /\ ~m.command)

Observe(m) == Goes(IF finished(m) THEN [m EXCEPT !.pc = "returned"] ELSE m)

\* processDone, after which stdin is closed; outputDone, once the child's pipe is
\* closed (an output error returns in the ACP form); commandDone; heartbeatDone.
processDone ==
    /\ main.pc = "serving" /\ process.pc = "gone" /\ ~main.process
    /\ Observe([main EXCEPT !.process = TRUE])
    /\ UNCHANGED <<mode, process, admission, loop, beat, hub, cmds>>

outputDone(ok) ==
    /\ main.pc = "serving" /\ ~main.output
    /\ ok => process.pc = "gone"
    /\ IF ~ok /\ mode # "jsonstream" THEN Goes(Returned(TRUE))
       ELSE Observe([main EXCEPT !.output = TRUE, !.error = ~ok])
    /\ UNCHANGED <<mode, process, admission, loop, beat, hub, cmds>>

commandDone ==
    /\ main.pc = "serving" /\ loop.pc = "done" /\ ~main.command
    /\ IF loop.error THEN Goes(Returned(TRUE)) ELSE Observe([main EXCEPT !.command = TRUE])
    /\ UNCHANGED <<mode, process, admission, loop, beat, hub, cmds>>

heartbeatDone ==
    /\ main.pc = "serving" /\ beat.pc = "failed"
    /\ Goes(Returned(TRUE))
    /\ UNCHANGED <<mode, process, admission, loop, beat, hub, cmds>>

-----------------------------------------------------------------------------
Supervise ==
    \/ requestStart \/ skipFrame \/ spawn \/ startFails \/ confirmed \/ refused
    \/ (\E clean \in BOOLEAN : observeExit(clean)) \/ backoffEnds \/ runCancelled

HubStep == (\E ok \in BOOLEAN : hubAdmits(ok) \/ hubReadsProof(ok)) \/ hubAnswers

LoopStep ==
    \/ loopStartFrame \/ loopFrame \/ loopDuplicate \/ loopPermit
    \/ (\E ok \in BOOLEAN : loopSend(ok) \/ loopSettings(ok) \/ loopExecute(ok))
    \/ loopInterrupt \/ loopStop
    \/ (\E ok \in BOOLEAN : stopReturns(ok) \/ waitReceipt(ok)) \/ receiptTimesOut

MainStep ==
    \/ firstAdmitted \/ neverAdmitted \/ (\E ok \in BOOLEAN : initialize(ok)) \/ startLoops
    \/ processDone \/ outputDone(TRUE) \/ commandDone \/ heartbeatDone

WrapNext ==
    \/ Supervise \/ HubStep \/ LoopStep \/ MainStep
    \/ processExits \/ childAsks
    \/ (\E c \in Commands, t \in Types : hubSends(c, t))
    \/ ping \/ pingTimesOut \/ outputDone(FALSE)

WrapSpec == WrapInit /\ [][WrapNext]_wsVars

-----------------------------------------------------------------------------
\* Types of the variables of one Adapter run.
WrapTypeOK ==
    /\ mode \in RunModes
    /\ process.pc \in {"request", "awaitPrepare", "awaitAck", "running", "backoff", "gone"}
    /\ process.attempt \in 1..MaxAttempts /\ {process.alive, process.current, process.stopping, process.asks} \subseteq BOOLEAN
    /\ admission.prepare \in 0..MaxAttempts /\ admission.ack \in -1..MaxAttempts
    /\ main.pc \in {"waitFirst", "initialize", "start", "serving", "returned"}
    /\ loop.pc \in {"off", "reading", "stopping", "waitReceipt", "done"}
    /\ beat.pc \in {"off", "idle", "waiting", "failed"} /\ beat.pings \in 0..MaxPings
    /\ hub.attempt \in 0..MaxAttempts /\ hub.admitting \in 0..MaxAttempts
    /\ \A c \in Commands : cmds[c].type \in Types \cup {"none"} /\ cmds[c].sends \in 0..MaxSends

\* When the run ends by itself, no stop it has taken up is without its outcome's
\* receipt from the Hub: the main loop waits for the command loop even when
\* the Provider and its output are gone (main.go, the "successful Stop" branch).
StopOutcomeSettled ==
    main.pc = "returned" /\ ~main.error /\ loop.pc \in {"stopping", "waitReceipt"} => cmds[loop.cmd].type # "stop"

\* A Provider that runs is one the Hub admitted: the Hub's attempt is the running
\* child's (ConfirmProcessStarted, handleProviderStart).
RunningIsAdmitted == process.pc = "running" => hub.attempt = process.attempt

\* What the Hub counts as admitted was really started: it answers "admitted" only
\* to the proof of that attempt, never to another frame that arrives in between
\* (handleProviderStart's readProtocolFrame).
AdmittedWasStarted ==
    hub.attempt > 0 =>
        process.attempt > hub.attempt \/ (process.attempt = hub.attempt /\ process.pc \in {"awaitAck", "running", "backoff", "gone"})

\* A command the Hub delivers again is not executed again, and a permission request
\* is answered once, while no more commands are in play than the accepted set
\* remembers.
ExecutedOnce ==
    /\ \A c \in Commands : cmds[c].runs <= 1
    /\ process.answers <= 1

\* The wrapper keeps the Hub's word: the Provider that runs is the one the Hub
\* admitted, every command is executed once, and a stop is not left without the
\* receipt of its outcome (handleProviderStart, AcceptedCommands.Add, main.go).
WrapperKeepsWord == RunningIsAdmitted /\ AdmittedWasStarted /\ ExecutedOnce /\ StopOutcomeSettled

=============================================================================
