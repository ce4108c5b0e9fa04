---------------------------- MODULE SettingsLedger ----------------------------
(***************************************************************************)
(* Settings changes of one session: a client asks for other settings, the  *)
(* Hub reserves the request for the current Adapter, the Adapter confirms  *)
(* delivery, is told to execute, publishes the settings it reads back as a *)
(* capability, and reports the outcome.  A replaced Adapter's request is   *)
(* recovered when the next Adapter publishes its capability.               *)
(*                                                                         *)
(* Each store call is one action.  A deadline is the flag `late' of the    *)
(* row that has it.  One Adapter process is behind all the writers: it     *)
(* proposes a capability again until it has the receipt (hub_connection).  *)
(* Where StoreFails, the store calls of a publication may fail; a call     *)
(* that fails changes nothing.                                             *)
(***************************************************************************)
EXTENDS LedgerSession, FiniteSetsExt

CONSTANTS
    Setting,            \* commands that ask for a change
    SettingsRequest,    \* [fp, want]: the fingerprint they name and the controls they set
    Capability,         \* [fp, eff]: what an Adapter may publish
    StoreFails          \* whether the store calls of a publication may fail

\* Every capability names the same controls, and a request some of them.
ASSUME SettingsConstants ==
    \A k \in Capability :
        /\ \A l \in Capability : DOMAIN l.eff = DOMAIN k.eff
        /\ \A r \in SettingsRequest : DOMAIN r.want \subseteq DOMAIN k.eff

VARIABLES
    capability,         \* session_settings_capabilities
    cached,             \* h.settingsCapabilities
    setting,            \* session_settings_commands
    clients,            \* h.settingsClients: commands with a client that waits for the ack
    routing,            \* reserved commands whose frame is not written yet
    executing,          \* acknowledged ones whose execute frame is not written yet
    shown,              \* frames at the Adapter, not acknowledged
    granted,            \* execute frames at the Adapter
    readBack,           \* executed commands: their capability is sent, their report is not
    publication,        \* the capability proposal being handled, and its step
    unacked,            \* pending of hubConnection: capability events without a receipt
    replay,             \* those the live connection has yet to send again
    unrecovered         \* history: the cached capability's recovery of requests failed

settingsVars == <<capability, cached, setting, clients, routing, executing, shown,
                  granted, readBack, publication, unacked, replay, unrecovered>>

-----------------------------------------------------------------------------
\* State.

NoCapability == [seq |-> 0, writer |-> 0]

NoSetting == [status |-> "none", writer |-> 0]

NoPublication == [w |-> 0, seq |-> 0, step |-> "none"]

Nonterminal == {"delivery_pending", "pending", "recovery_pending"}

SettingsTerminal == {"applied", "rejected", "outcome_unknown", "mismatched_effective"}

\* What an Adapter reports; "rejected" stands for timeout, unsupported and
\* stale_capability too, which the ledger treats alike.
SettingsReport == {"applied", "rejected", "outcome_unknown"}

Waiting == {c \in Setting : setting[c].status \in Nonterminal}

SettingsInit ==
    /\ SessionInit
    /\ log = <<>>
    /\ capability = NoCapability
    /\ cached = NoCapability
    /\ setting = [c \in Setting |-> NoSetting]
    /\ clients = {}
    /\ routing = {}
    /\ executing = {}
    /\ shown = {}
    /\ granted = {}
    /\ readBack = {}
    /\ publication = NoPublication
    /\ unacked = {}
    /\ replay = {}
    /\ unrecovered = FALSE

\* The Adapter reads and answers commands once its replay is done.
Answers(w) == w = live => replay = {}

\* The Hub's read loop of w waits for its next frame.
Reading(w) == publication.w # w /\ \A c \in executing : setting[c].writer # w

-----------------------------------------------------------------------------
\* A client's settings change.

\* validateCurrentSettingsWriter
CurrentWriter(w) == capability.writer = w /\ Live(w)

\* The transaction inserts one row; the index admits one nonterminal row.  A retry
\* finds its row and changes nothing.
SettingsCommandReserve(c, r, w) ==
    /\ CurrentWriter(w)
    /\ setting[c] = NoSetting
    /\ capability.fp = r.fp
    /\ Waiting = {}
    /\ Room(1)
    /\ setting' = [setting EXCEPT ![c] =
            [status |-> "delivery_pending", writer |-> w, req |-> r, late |-> FALSE,
             seq |-> capability.seq, eff |-> capability.eff, end |-> 0]]

handleSettingsChange(c, r) ==
    /\ SettingsCommandReserve(c, r, registered)
    /\ clients' = clients \cup {c}
    /\ routing' = routing \cup {c}
    /\ UNCHANGED <<sessionVars, capability, cached, executing, shown, granted,
                   readBack, publication, unacked, replay, unrecovered>>

\* writeDurableAdapterFrame: a frame needs the live writer's socket.
FrameWritten(c, queue, queueNew) ==
    LET w == setting[c].writer
    IN  /\ Live(w) /\ w \in open /\ publication.w # w
        /\ queueNew = queue \cup {c}
        /\ UNCHANGED registered

\* A failed write may have reached the Adapter all the same.  It unregisters the Adapter.
FrameFailed(c, queue, queueNew) ==
    LET w == setting[c].writer
    IN  /\ publication = NoPublication
        /\ queueNew = queue \/ (Live(w) /\ w \in open /\ queueNew = queue \cup {c})
        /\ unregister(w)

routeSettings(c) ==
    /\ c \in routing
    /\ routing' = routing \ {c}
    /\ \/ /\ FrameWritten(c, shown, shown')
          /\ UNCHANGED clients
       \/ /\ FrameFailed(c, shown, shown')
          /\ clients' = clients \ {c}
    /\ UNCHANGED <<live, authorised, open, log, capability, cached, setting, executing,
                   granted, readBack, publication, unacked, replay, unrecovered>>

-----------------------------------------------------------------------------
\* The Adapter confirms delivery and is told to execute.

AcknowledgeSettingsCommandDelivery(c) ==
    /\ CurrentWriter(setting[c].writer)
    /\ setting[c].status = "delivery_pending"
    /\ ~setting[c].late

\* An acknowledgement that rejects, has no client, or comes too late or from a replaced
\* Adapter only answers the client.
handleAdapterCommandAck(c, accepts) ==
    LET w == setting[c].writer
    IN  /\ c \in shown /\ w \in open /\ Reading(w) /\ Answers(w)
        /\ shown' = shown \ {c}
        /\ IF accepts /\ c \in clients /\ registered = w /\ AcknowledgeSettingsCommandDelivery(c)
           THEN /\ setting' = [setting EXCEPT ![c].status = "pending"]
                /\ executing' = executing \cup {c}
                /\ UNCHANGED clients
           ELSE /\ clients' = clients \ {c}
                /\ UNCHANGED <<setting, executing>>
        /\ UNCHANGED <<sessionVars, capability, cached, routing, granted, readBack, publication,
                       unacked, replay, unrecovered>>

\* settings.delivery.execute
executeSettings(c) ==
    /\ c \in executing
    /\ executing' = executing \ {c}
    /\ clients' = clients \ {c}
    /\ \/ FrameWritten(c, granted, granted')
       \/ FrameFailed(c, granted, granted')
    /\ UNCHANGED <<live, authorised, open, log, capability, cached, setting, routing, shown,
                   readBack, publication, unacked, replay, unrecovered>>

-----------------------------------------------------------------------------
\* Outcomes.

\* Mutant: the controls the request does not name are not compared.
fulfilsRequested(eff, s) == \A k \in DOMAIN s.req.want : eff[k] = s.req.want[k]

\* Settings that do what a request asks and leave the other controls as they were.
Fulfils(eff, s) == \A k \in DOMAIN eff : eff[k] = IF k \in DOMAIN s.req.want THEN s.req.want[k] ELSE s.eff[k]

settingsFinalizationOutcome(s, cap, report) ==
    IF \/ report = "outcome_unknown"
       \/ report = "applied" /\ Fulfils(cap.eff, s)
       \/ report = "rejected" /\ cap.eff = s.eff
    THEN report
    ELSE "mismatched_effective"

\* Deadlines and outcomes each nonterminal status admits.
validateSettingsFinalization(s, cap, byWriter, outcome) ==
    /\ outcome = "applied" => Fulfils(cap.eff, s)
    /\ \/ s.status = "pending" /\ byWriter /\ ~s.late
       \/ /\ s.status = "recovery_pending" /\ ~byWriter
          /\ outcome = "outcome_unknown"
          /\ cap.writer # s.writer
          /\ cap.seq > s.seq

\* Mutant: the row names the last event before its own.
finalizeOffByOne(c, outcome, eff) ==
    /\ Room(1)
    /\ log' = Append(log, [type |-> "effective", cmd |-> c, outcome |-> outcome, eff |-> eff])
    /\ setting' = [setting EXCEPT ![c].status = outcome, ![c].end = Len(log)]

\* The compare-and-swap of a row with its terminal event.
Finalize(c, outcome, eff) ==
    /\ Room(1)
    /\ log' = Append(log, [type |-> "effective", cmd |-> c, outcome |-> outcome, eff |-> eff])
    /\ setting' = [setting EXCEPT ![c].status = outcome, ![c].end = Len(log) + 1]

MayFinalize(c, expected, byWriter, outcome, cap) ==
    /\ setting[c].status = expected
    /\ byWriter => CurrentWriter(setting[c].writer)
    /\ capability = cap
    /\ validateSettingsFinalization(setting[c], cap, byWriter, outcome)

FinalizeSettingsCommand(c, expected, byWriter, outcome, cap) ==
    /\ MayFinalize(c, expected, byWriter, outcome, cap)
    /\ Finalize(c, outcome, cap.eff)

\* The Adapter reports, right after the capability it read back.  The report must agree
\* with the capability in the Hub's cache; it may come over a socket that is no longer
\* registered.  A report that is refused is lost.
finalizeSettingsEffective(c, report) ==
    LET w == setting[c].writer
        read == log[LastEvent(LAMBDA e : e.type = "caps" /\ e.writer = w)]
        agrees == cached.writer = w /\ cached.fp = read.fp /\ cached.eff = read.eff
        outcome == settingsFinalizationOutcome(setting[c], cached, report)
    IN  /\ c \in readBack /\ w \in open /\ Reading(w)
        /\ publication = NoPublication
        /\ readBack' = readBack \ {c}
        /\ \/ /\ agrees
              /\ FinalizeSettingsCommand(c, "pending", TRUE, outcome, cached)
              /\ \/ UNCHANGED <<registered, open>>
                 \/ /\ unregister(w)          \* the receipt fails: rejectAdapter
                    /\ open' = open \ {w}
           \/ /\ ~(agrees /\ MayFinalize(c, "pending", TRUE, outcome, cached))
              /\ UNCHANGED <<log, setting, registered, open>>
        /\ UNCHANGED <<live, authorised, capability, cached, clients, routing, executing, shown,
                       granted, publication, unacked, replay, unrecovered>>

-----------------------------------------------------------------------------
(***************************************************************************)
(* An Adapter publishes its capability: a proposed event, the capability   *)
(* row, the recovery of a request of an earlier writer, the receipt.  The  *)
(* publication gate and the Adapter's effectMu are held throughout.        *)
(***************************************************************************)

advance(step) == publication' = [publication EXCEPT !.step = step]

\* reconnect: the Adapter sends the proposals without a receipt again, oldest first.  It
\* stores the new connection before that, so a new proposal may come in between.  A new
\* one may be the settings read back after an execution; its report follows at once.
proposeCapability(w) ==
    /\ w \in open /\ Reading(w) /\ CanEffect(w)
    /\ publication = NoPublication
    /\ \/ /\ Room(2)         \* leaves room for a terminal event
          /\ \A c \in readBack : setting[c].writer # w
          /\ \E done \in SUBSET {c \in granted : setting[c].writer = w /\ Answers(w)} :
                /\ granted' = granted \ done
                /\ readBack' = readBack \cup done
          /\ \E k \in Capability : log' = Append(log, [type |-> "caps", fp |-> k.fp, eff |-> k.eff, writer |-> w])
          /\ publication' = [w |-> w, seq |-> Len(log) + 1, step |-> "publish"]
          /\ unacked' = unacked \cup {Len(log) + 1}
          /\ UNCHANGED replay
       \/ /\ replay # {}
          /\ publication' = [w |-> w, seq |-> Min(replay), step |-> "publish"]
          /\ replay' = replay \ {Min(replay)}
          /\ UNCHANGED <<log, unacked, granted, readBack>>
    /\ UNCHANGED <<live, authorised, registered, open, capability, cached, setting, clients,
                   routing, executing, shown, unrecovered>>

Published ==
    LET ev == log[publication.seq]
    IN  [seq |-> publication.seq, fp |-> ev.fp, eff |-> ev.eff, writer |-> publication.w]

\* A capability the cache already holds is answered at once; without authority the
\* proposal is an error.
PublishSettingsCapability ==
    /\ publication.step = "publish"
    /\ IF cached = Published
       THEN advance("receipt") /\ UNCHANGED <<capability, cached>>
       ELSE IF Live(publication.w)
       THEN /\ capability' = Published
            /\ cached' = Published
            /\ advance("recover")
       ELSE publication' = NoPublication /\ UNCHANGED <<capability, cached>>
    /\ UNCHANGED <<sessionVars, setting, clients, routing, executing, shown, granted,
                   readBack, unacked, replay, unrecovered>>

\* Mutant: only requests without a confirmed delivery are recovered.
staleUndelivered ==
    {c \in Waiting : setting[c].status = "delivery_pending" /\ setting[c].writer # publication.w}

\* Requests of other writers; the index admits one.
Stale == {c \in Waiting : setting[c].writer # publication.w}

\* Any store call up to the receipt fails: the proposal is answered with an error and the
\* read loop goes on.  The cache keeps a capability it has taken over by then.
capabilityFails ==
    /\ StoreFails
    /\ publication.step \in {"publish", "recover"}
    /\ unrecovered' = (unrecovered \/ (publication.step = "recover" /\ Stale # {}))
    /\ publication' = NoPublication
    /\ UNCHANGED <<sessionVars, capability, cached, setting, clients, routing, executing, shown,
                   granted, readBack, unacked, replay>>

\* A request that was never confirmed is rejected once its deadline has passed and left
\* alone before.
rejectUndelivered(c) ==
    /\ setting[c].status = "delivery_pending"
    /\ IF setting[c].late THEN Finalize(c, "rejected", setting[c].eff) ELSE UNCHANGED <<log, setting>>
    /\ advance("receipt")

\* RecoverSettingsCommand of a pending request fences it; a second step gives it up.
RecoverSettingsCommand(c) ==
    /\ setting[c].status = "pending"
    /\ IF capability.writer # setting[c].writer /\ capability.seq > setting[c].seq /\ Live(capability.writer)
       THEN /\ setting' = [setting EXCEPT ![c].status = "recovery_pending"]
            /\ UNCHANGED publication
       ELSE /\ publication' = NoPublication
            /\ UNCHANGED setting
    /\ UNCHANGED log

giveUpSettings(c) ==
    /\ setting[c].status = "recovery_pending"
    /\ \/ /\ FinalizeSettingsCommand(c, "recovery_pending", FALSE, "outcome_unknown", Published)
          /\ advance("receipt")
       \/ /\ ~validateSettingsFinalization(setting[c], Published, FALSE, "outcome_unknown")
          /\ publication' = NoPublication
          /\ UNCHANGED <<log, setting>>

recoverSettings ==
    /\ publication.step = "recover"
    /\ \/ Stale = {} /\ advance("receipt") /\ UNCHANGED <<log, setting>>
       \/ \E c \in Stale : rejectUndelivered(c) \/ RecoverSettingsCommand(c) \/ giveUpSettings(c)
    /\ unrecovered' = (unrecovered /\ publication' = publication)
    /\ UNCHANGED <<live, authorised, registered, open, capability, cached, clients, routing,
                   executing, shown, granted, readBack, unacked, replay>>

\* A receipt that cannot be written closes the Adapter's connection.
receiptCapability ==
    /\ publication.step = "receipt"
    /\ publication' = NoPublication
    /\ \/ /\ unacked' = unacked \ {publication.seq}
          /\ UNCHANGED <<registered, open>>
       \/ /\ unregister(publication.w)
          /\ open' = open \ {publication.w}
          /\ UNCHANGED unacked
    /\ UNCHANGED <<live, authorised, log, capability, cached, setting, clients, routing,
                   executing, shown, granted, readBack, replay, unrecovered>>

-----------------------------------------------------------------------------
\* Connections, time and crashes.

settingsHello ==
    /\ publication = NoPublication
    /\ acceptHello
    /\ replay' = unacked
    /\ UNCHANGED <<log, capability, cached, setting, clients, routing, executing, shown, granted,
                   readBack, publication, unacked, unrecovered>>

settingsDrop(w) ==
    /\ Reading(w)
    /\ dropConnection(w)
    /\ UNCHANGED settingsVars

settingsLapse == lapse /\ UNCHANGED settingsVars

\* The delivery deadline of an unconfirmed request, the operation deadline of a pending one.
settingsElapse(c) ==
    /\ setting[c].status \in {"delivery_pending", "pending"}
    /\ ~setting[c].late
    /\ setting' = [setting EXCEPT ![c].late = TRUE]
    /\ UNCHANGED <<sessionVars, capability, cached, clients, routing, executing, shown, granted,
                   readBack, publication, unacked, replay, unrecovered>>

settingsCrash ==
    /\ crashHub
    /\ cached' = NoCapability
    /\ clients' = {}
    /\ routing' = {}
    /\ executing' = {}
    /\ publication' = NoPublication
    /\ unrecovered' = FALSE
    /\ UNCHANGED <<capability, setting, shown, granted, readBack, unacked, replay>>

-----------------------------------------------------------------------------
SettingsNext ==
    \/ settingsHello
    \/ settingsLapse
    \/ settingsCrash
    \/ PublishSettingsCapability
    \/ capabilityFails
    \/ recoverSettings
    \/ receiptCapability
    \/ \E w \in Writers : settingsDrop(w) \/ proposeCapability(w)
    \/ \E c \in Setting :
        \/ \E r \in SettingsRequest : handleSettingsChange(c, r)
        \/ routeSettings(c)
        \/ \E accepts \in BOOLEAN : handleAdapterCommandAck(c, accepts)
        \/ executeSettings(c)
        \/ \E report \in SettingsReport : finalizeSettingsEffective(c, report)
        \/ settingsElapse(c)

allSettingsVars == <<sessionVars, settingsVars>>

SettingsSpec == SettingsInit /\ [][SettingsNext]_allSettingsVars

\* The Hub's handlers run, the Adapter replays its proposals and answers what it is sent,
\* and time passes.
FairSettingsSpec ==
    /\ SettingsSpec
    /\ WF_allSettingsVars(\E w \in Writers : proposeCapability(w) /\ replay' # replay)
    /\ WF_allSettingsVars(PublishSettingsCapability)
    /\ WF_allSettingsVars(recoverSettings)
    /\ WF_allSettingsVars(receiptCapability)
    /\ \A c \in Setting :
        /\ WF_allSettingsVars(routeSettings(c))
        /\ WF_allSettingsVars(handleAdapterCommandAck(c, TRUE))
        /\ WF_allSettingsVars(executeSettings(c))
        /\ WF_allSettingsVars(\E report \in SettingsReport : finalizeSettingsEffective(c, report))
        /\ WF_allSettingsVars(settingsElapse(c))

-----------------------------------------------------------------------------
\* Properties.

\* The index on nonterminal rows.
OneUnfinished == \A c, d \in Waiting : c = d

\* The session admits one unfinished request; a queue holds commands that have a row; a
\* connection commands are sent to is still read (unregisterAdapter in the read loop).
SettingsTypeOK ==
    /\ SessionTypeOK
    /\ OneUnfinished
    /\ \A c \in Setting : setting[c].status \in {"none"} \cup Nonterminal \cup SettingsTerminal
    /\ \A c \in clients \cup routing \cup executing \cup shown \cup granted \cup readBack :
          setting[c].writer \in 1..live
    /\ {capability.seq, cached.seq} \subseteq 0..Len(log)
    /\ replay \subseteq unacked /\ \A i \in unacked : log[i].type = "caps"
    /\ publication.step \in {"none", "publish", "recover", "receipt"}
    /\ unrecovered \in BOOLEAN

EffectiveEvents(c) == {i \in DOMAIN log : log[i].type = "effective" /\ log[i].cmd = c}

\* A request's row is terminal exactly when the log holds its effective event, and then it
\* holds one, the one the row names, with the row's outcome (spec/v2.md, "exactly one
\* durable session.settings.effective terminal event").
SettingsOneTerminal ==
    \A c \in Setting :
        IF setting[c].status \in SettingsTerminal
        THEN /\ EffectiveEvents(c) = {setting[c].end}
             /\ log[setting[c].end].outcome = setting[c].status
        ELSE EffectiveEvents(c) = {}

\* "applied" names the requested settings where requested and the reserved ones elsewhere,
\* and they are those of the last capability published before the report, by the request's
\* own Adapter, after the one it was reserved with (validateSettingsFinalization, and the
\* order of the Adapter's read-back and report).
AppliedIsReadBack ==
    \A c \in Setting : setting[c].status = "applied" =>
        LET s == setting[c]
            readings == {i \in 1..s.end : log[i].type = "caps"}
            last == log[Max(readings)]
        IN  /\ Max(readings) > s.seq /\ last.writer = s.writer
            /\ log[s.end].eff = last.eff
            /\ \A k \in DOMAIN s.req.want : last.eff[k] = s.req.want[k]
            /\ \A k \in DOMAIN s.eff \ DOMAIN s.req.want : last.eff[k] = s.eff[k]

\* A request that ends by its Adapter's report ended before any later Adapter published:
\* no report of a replaced writer is taken, and no writer adopts another's request.
NoAdoption ==
    \A c \in Setting : setting[c].status \in {"applied", "mismatched_effective"} =>
        \A i \in 1..setting[c].end : log[i].type = "caps" => log[i].writer <= setting[c].writer

\* Once an Adapter's fresh capability is published and its handler is done, no request that
\* an earlier writer had been told of is left pending, unless a store call failed during the
\* recovery: then it stays pending until a capability is recovered that the cache does not
\* hold, or the Hub restarts (commitSettingsCapabilityProposal).
PublishedMeansRecovered ==
    authorised /\ publication = NoPublication /\ ~unrecovered =>
        \A c \in Setting :
            /\ setting[c].status \in {"pending", "recovery_pending"}
            /\ cached.seq > setting[c].seq
            => setting[c].writer = cached.writer

\* A replaced writer's requests end with it: no later writer answers for one, and none is
\* left pending once a later writer has published and the recovery in its publication has
\* not failed (commitSettingsCapabilityProposal).
RequestsEndWithWriter == NoAdoption /\ PublishedMeansRecovered

\* A request whose deadline has passed while its Adapter stays connected and authorised gets
\* its terminal event: "On `operation_deadline` the Hub finalizes `timeout`" (spec/v2.md).
DeadlineFinalizes ==
    \A c \in Setting :
        setting[c].status \in Nonterminal /\ setting[c].late /\ CanEffect(setting[c].writer)
            ~> setting[c].status \in SettingsTerminal \/ ~CanEffect(setting[c].writer)

=============================================================================
