--------------------------- MODULE RunControlLedger ---------------------------
(***************************************************************************)
(* Interrupts and stops of one session: the Adapter publishes which of     *)
(* them it supports, a client's request reserves the session's one control *)
(* slot for the current Adapter, and the Adapter's outcome, a failed       *)
(* delivery or the next Adapter's hello ends it.                           *)
(*                                                                         *)
(* Each store call is one action.  `sealed' is the required content mode:  *)
(* the outcome is an opaque event that is committed before the row ends.   *)
(* An outcome that is sent again after a reconnect is refused like one of  *)
(* a replaced writer.                                                      *)
(***************************************************************************)
EXTENDS LedgerSession

CONSTANTS
    Control,            \* run-control commands
    Supported           \* the sets of operations an Adapter may publish

VARIABLES
    sealed,             \* the session's content mode is "required"
    runCapability,      \* session_run_control_capabilities
    control,            \* session_run_controls
    controlClients,     \* h.runControlClients
    controlStep,        \* what the handler of a command does next
    ordered,            \* commands at the Adapter, not reported
    proposal,           \* the Adapter proposal being handled, and its step
    unreceipted         \* capability events without a receipt

controlVars == <<sealed, runCapability, control, controlClients, controlStep, ordered,
                 proposal, unreceipted>>

allControlVars == <<sessionVars, controlVars>>

-----------------------------------------------------------------------------
\* State.

Operation == {"interrupt", "stop"}

RunState == {"ready", "busy", "ended"}      \* the states the operations tell apart

NoRunCapability == [seq |-> 0, writer |-> 0, ops |-> {}]

NoControl == [status |-> "none", writer |-> 0]

NoProposal == [w |-> 0, seq |-> 0, step |-> "none"]

\* What acknowledgeRunControl reports.
Outcome == {"completed", "rejected", "timeout", "outcome_unknown"}

ControlPending == {c \in Control : control[c].status = "pending"}

ControlInit ==
    /\ SessionInit
    /\ log = <<>>
    /\ sealed \in BOOLEAN
    /\ runCapability = NoRunCapability
    /\ control = [c \in Control |-> NoControl]
    /\ controlClients = {}
    /\ controlStep = [c \in Control |-> "idle"]
    /\ ordered = {}
    /\ proposal = NoProposal
    /\ unreceipted = {}

StateEvent(s) == [type |-> "state", state |-> s]

OutcomeEvent(c, o) == [type |-> "outcome", cmd |-> c, outcome |-> o]

LatestState == LastEvent(LAMBDA e : e.type = "state")

\* validRunControlState
validRunControlState(op, s) ==
    \/ op = "interrupt" /\ s = "busy"
    \/ op = "stop" /\ s # "ended"

completionState(op) == IF op = "stop" THEN "ended" ELSE "ready"

\* Rows that end unconfirmed, each with its event, in some order.
GiveUp(cs) ==
    \E n \in 0..(MaxLog - Len(log)) : \E s \in [1..n -> cs] :
        /\ \A c \in cs : \E i \in 1..n : s[i] = c
        /\ \A i, j \in 1..n : s[i] = s[j] => i = j
        /\ log' = log \o [i \in 1..n |-> OutcomeEvent(s[i], "outcome_unknown")]
        /\ control' = [c \in Control |->
              IF c \in cs
              THEN [control[c] EXCEPT !.status = "outcome_unknown",
                                      !.end = Len(log) + CHOOSE i \in 1..n : s[i] = c]
              ELSE control[c]]

-----------------------------------------------------------------------------
\* What the Adapter publishes.

CanPropose(w) == w \in open /\ CanEffect(w) /\ proposal = NoProposal

\* A terminal state revokes the Adapter's authority in the same transaction.
proposeState(w, s) ==
    /\ CanPropose(w) /\ Room(1)
    /\ log' = Append(log, StateEvent(s))
    /\ authorised' = (s # "ended")
    /\ UNCHANGED <<live, registered, open, controlVars>>

\* A new capability, or one whose receipt was lost.
proposeRunCapability(w, ops) ==
    /\ CanPropose(w)
    /\ \/ /\ Room(1)
          /\ log' = Append(log, [type |-> "runcaps", ops |-> ops])
          /\ proposal' = [w |-> w, seq |-> Len(log) + 1, step |-> "publish"]
          /\ unreceipted' = unreceipted \cup {Len(log) + 1}
       \/ /\ \E s \in unreceipted : proposal' = [w |-> w, seq |-> s, step |-> "publish"]
          /\ UNCHANGED <<log, unreceipted>>
    /\ UNCHANGED <<live, authorised, registered, open, sealed, runCapability, control,
                   controlClients, controlStep, ordered>>

\* The row takes newer events only.  Pending controls of other writers are given up
\* (the recovery of commitRunControlCapabilityProposal); then the Adapter gets its receipt,
\* or loses its connection.
PublishRunControlCapability ==
    /\ proposal.step = "publish"
    /\ IF Live(proposal.w) /\ proposal.seq > runCapability.seq
       THEN /\ runCapability' = [seq |-> proposal.seq, writer |-> proposal.w, ops |-> log[proposal.seq].ops]
            /\ GiveUp({c \in ControlPending : control[c].writer # proposal.w})
            /\ \/ unreceipted' = unreceipted \ {proposal.seq} /\ UNCHANGED <<registered, open>>
               \/ unregister(proposal.w) /\ open' = open \ {proposal.w} /\ UNCHANGED unreceipted
       ELSE UNCHANGED <<runCapability, log, control, unreceipted, registered, open>>
    /\ proposal' = NoProposal
    /\ UNCHANGED <<live, authorised, sealed, controlClients, controlStep, ordered>>

-----------------------------------------------------------------------------
\* A client's interrupt or stop.

\* The transaction checks the capability, its writer and the latest state, and inserts the
\* row; the index admits one pending row.
RunControlReserve(c, op, w) ==
    /\ Live(w)
    /\ control[c] = NoControl
    /\ runCapability.writer = w /\ op \in runCapability.ops
    /\ LatestState > 0 /\ validRunControlState(op, log[LatestState].state)
    /\ ControlPending = {}
    /\ control' = [control EXCEPT ![c] =
            [status |-> "pending", op |-> op, writer |-> w, cap |-> runCapability.seq,
             pre |-> LatestState, late |-> FALSE, end |-> 0]]

handleRunControl(c, op) ==
    /\ RunControlReserve(c, op, registered)
    /\ controlClients' = controlClients \cup {c}
    /\ controlStep' = [controlStep EXCEPT ![c] = "route"]
    /\ UNCHANGED <<sessionVars, sealed, runCapability, ordered, proposal, unreceipted>>

\* writeDurableAdapterFrame.  A failed write, which may have reached the Adapter all the
\* same, unregisters the Adapter.
routeRunControl(c) ==
    LET w == control[c].writer
    IN  /\ controlStep[c] = "route" /\ proposal.w # w
        /\ \/ /\ Live(w) /\ w \in open
              /\ ordered' = ordered \cup {c}
              /\ controlStep' = [controlStep EXCEPT ![c] = "idle"]
              /\ UNCHANGED <<registered, controlClients>>
           \/ /\ ordered' = ordered \/ (Live(w) /\ w \in open /\ ordered' = ordered \cup {c})
              /\ controlStep' = [controlStep EXCEPT ![c] = "recover"]
              /\ controlClients' = controlClients \ {c}
              /\ unregister(w)
        /\ UNCHANGED <<live, authorised, open, log, sealed, runCapability, control, proposal,
                       unreceipted>>

\* Mutant: the row's status is not looked at.
giveUpAnyway(c) ==
    /\ controlStep[c] = "recover"
    /\ controlStep' = [controlStep EXCEPT ![c] = "idle"]
    /\ GiveUp({c})
    /\ UNCHANGED <<live, authorised, registered, open, sealed, runCapability, controlClients,
                   ordered, proposal, unreceipted>>

\* After a failed delivery, without the publication gate.
RecoverRunControl(c) ==
    /\ controlStep[c] = "recover"
    /\ controlStep' = [controlStep EXCEPT ![c] = "idle"]
    /\ GiveUp({c} \cap ControlPending)
    /\ UNCHANGED <<live, authorised, registered, open, sealed, runCapability, controlClients,
                   ordered, proposal, unreceipted>>

-----------------------------------------------------------------------------
\* The Adapter's answers.

\* The delivery acknowledgement only answers the client.
handleRunControlCommandAck(c) ==
    /\ c \in ordered \cap controlClients
    /\ control[c].writer \in open
    /\ controlClients' = controlClients \ {c}
    /\ UNCHANGED <<sessionVars, sealed, runCapability, control, controlStep, ordered, proposal,
                   unreceipted>>

\* RunControlFinalize for a writer.  The timeout and unknown outcomes belong to no writer
\* and are refused.
MayFinalizeControl(c, w, o) ==
    /\ control[c].status = "pending" /\ control[c].writer = w
    /\ o \in {"completed", "rejected"}
    /\ ~control[c].late
    /\ Live(w)
    /\ runCapability.writer = w /\ runCapability.seq = control[c].cap
    /\ o = "completed" => LatestState = control[c].pre

EndControl(c, o, seq) == control' = [control EXCEPT ![c].status = o, ![c].end = seq]

\* A completed control appends the state it leads to and the outcome.
RunControlFinalize(c, w, o) ==
    /\ MayFinalizeControl(c, w, o)
    /\ LET events == IF o = "completed"
                     THEN <<StateEvent(completionState(control[c].op)), OutcomeEvent(c, o)>>
                     ELSE <<OutcomeEvent(c, o)>>
       IN  /\ Room(Len(events))
           /\ log' = log \o events
           /\ EndControl(c, o, Len(log) + Len(events))

\* Over whatever connection the Adapter has by then.
finalizeRunControlOutcome(c, w, o) ==
    /\ ~sealed
    /\ c \in ordered /\ CanPropose(w)
    /\ ordered' = ordered \ {c}
    /\ \/ RunControlFinalize(c, w, o)
       \/ ~MayFinalizeControl(c, w, o) /\ UNCHANGED <<log, control>>
    /\ UNCHANGED <<live, authorised, registered, open, sealed, runCapability, controlClients,
                   controlStep, proposal, unreceipted>>

\* The sealed outcome is committed first ...
commitEncryptedRunControlOutcome(c, w, o) ==
    /\ sealed
    /\ c \in ordered /\ CanPropose(w) /\ Room(1)
    /\ ordered' = ordered \ {c}
    /\ log' = Append(log, OutcomeEvent(c, o))
    /\ proposal' = [w |-> w, seq |-> Len(log) + 1, step |-> "finalize"]
    /\ UNCHANGED <<live, authorised, registered, open, sealed, runCapability, control,
                   controlClients, controlStep, unreceipted>>

\* ... and then ends the row, if it may.
finalizeEncryptedRunControl ==
    /\ proposal.step = "finalize"
    /\ LET e == log[proposal.seq]
       IN  IF MayFinalizeControl(e.cmd, proposal.w, e.outcome)
           THEN EndControl(e.cmd, e.outcome, proposal.seq)
           ELSE UNCHANGED control
    /\ proposal' = NoProposal
    /\ UNCHANGED <<sessionVars, sealed, runCapability, controlClients, controlStep, ordered,
                   unreceipted>>

-----------------------------------------------------------------------------
\* Connections, time and crashes.

\* Mutant: the hello deletes the capability and forgets the rows.
helloWithoutFence ==
    /\ proposal = NoProposal
    /\ acceptHello
    /\ runCapability' = NoRunCapability
    /\ UNCHANGED <<log, sealed, control, controlClients, controlStep, ordered, proposal, unreceipted>>

\* fenceRunControlsAfterWriterReplacement runs in the transaction of the hello.
controlHello ==
    /\ proposal = NoProposal
    /\ acceptHello
    /\ runCapability' = NoRunCapability
    /\ GiveUp(ControlPending)
    /\ UNCHANGED <<sealed, controlClients, controlStep, ordered, proposal, unreceipted>>

controlDrop(w) == proposal.w # w /\ dropConnection(w) /\ UNCHANGED controlVars

controlLapse == lapse /\ UNCHANGED controlVars

\* The 30 seconds of a pending control pass.
controlElapse(c) ==
    /\ control[c].status = "pending" /\ ~control[c].late
    /\ control' = [control EXCEPT ![c].late = TRUE]
    /\ UNCHANGED <<sessionVars, sealed, runCapability, controlClients, controlStep, ordered,
                   proposal, unreceipted>>

controlCrash ==
    /\ crashHub
    /\ controlClients' = {}
    /\ controlStep' = [c \in Control |-> "idle"]
    /\ proposal' = NoProposal
    /\ UNCHANGED <<sealed, runCapability, control, ordered, unreceipted>>

-----------------------------------------------------------------------------
ControlNext ==
    \/ controlHello
    \/ controlLapse
    \/ controlCrash
    \/ PublishRunControlCapability
    \/ finalizeEncryptedRunControl
    \/ \E w \in Writers :
        \/ controlDrop(w)
        \/ \E s \in RunState : proposeState(w, s)
        \/ \E ops \in Supported : proposeRunCapability(w, ops)
    \/ \E c \in Control :
        \/ \E op \in Operation : handleRunControl(c, op)
        \/ routeRunControl(c)
        \/ RecoverRunControl(c)
        \/ handleRunControlCommandAck(c)
        \/ \E w \in Writers, o \in Outcome :
              finalizeRunControlOutcome(c, w, o) \/ commitEncryptedRunControlOutcome(c, w, o)
        \/ controlElapse(c)

ControlSpec == ControlInit /\ [][ControlNext]_allControlVars

-----------------------------------------------------------------------------
\* Properties.

\* The session admits one pending control, and a writer's outcome is never a timeout or an
\* unknown one; a connection commands are sent to is still read.
ControlTypeOK ==
    /\ SessionTypeOK
    /\ sealed \in BOOLEAN
    /\ \A c, d \in ControlPending : c = d
    /\ \A c \in Control :
        /\ control[c].status \in {"none", "pending", "completed", "rejected", "outcome_unknown"}
        /\ controlStep[c] \in {"idle", "route", "recover"}
    /\ \A c \in controlClients \cup ordered : control[c].writer \in 1..live
    /\ runCapability.seq \in 0..Len(log)
    /\ \A i \in unreceipted : log[i].type = "runcaps"
    /\ proposal.step \in {"none", "publish", "finalize"}

OutcomeEvents(c) == {i \in DOMAIN log : log[i].type = "outcome" /\ log[i].cmd = c}

\* A row that has ended names an outcome event of its own command with its own outcome,
\* and, unless outcomes are sealed, it is the only one and no unfinished row has any
\* (spec/v2.md, "atomically finalizes each reservation once with a durable
\* session.run.outcome event").
ControlEndsWithItsEvent ==
    \A c \in Control :
        IF control[c].status \in Outcome
        THEN /\ control[c].end \in OutcomeEvents(c)
             /\ log[control[c].end].outcome = control[c].status
             /\ sealed \/ OutcomeEvents(c) = {control[c].end}
        ELSE sealed \/ OutcomeEvents(c) = {}

\* A pending control is the live writer's, made under a capability the live writer
\* published: no new Adapter can adopt one (fenceRunControlsAfterWriterReplacement; the
\* recovery in commitRunControlCapabilityProposal never finds a row).
PendingControlIsLive ==
    /\ runCapability.writer \in {0, live}
    /\ \A c \in ControlPending : control[c].writer = live

\* A completed control changed the very state it was reserved in: no other state was
\* recorded in between, and outside sealed sessions the state it leads to stands right
\* before its outcome (validateRunControlPreState at both ends; spec/v2.md, "that ordered
\* state transition as authoritative completion proof").
CompletedFromItsState ==
    \A c \in Control : control[c].status = "completed" =>
        LET r == control[c]
            between == {i \in (r.pre + 1)..r.end : log[i].type = "state"}
        IN  /\ validRunControlState(r.op, log[r.pre].state)
            /\ between = IF sealed THEN {} ELSE {r.end - 1}
            /\ sealed \/ log[r.end - 1].state = completionState(r.op)

\* What the ledger says of a control that ended is what the log shows: one outcome event,
\* and for a completed control the state it was reserved in right up to its completion.
ControlOutcomeIsTrue == ControlEndsWithItsEvent /\ CompletedFromItsState

=============================================================================
