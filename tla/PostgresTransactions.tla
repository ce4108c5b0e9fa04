------------------------ MODULE PostgresTransactions ------------------------
(***************************************************************************)
(* The PostgreSQL Store, one statement at a time.  SQLite serialises its   *)
(* writers, so the other modules take a Store operation as one step; here  *)
(* the transactions of store/postgres interleave.  Each operation is the   *)
(* sequence of its statements (READ COMMITTED); a statement waits for the  *)
(* row or advisory lock it takes, is decided on the rows committed when it *)
(* runs, and its writes appear when the transaction commits.  The rows are *)
(* those of one Session, plus its bootstrap's connection row.              *)
(***************************************************************************)
EXTENDS Naturals, Sequences, FiniteSets, SequencesExt

CONSTANTS
    Backends,      \* connections of the pool that may run a transaction
    MaxTx          \* bound: transactions begun in a behaviour

VARIABLES
    rows,          \* the committed rows
    tx,            \* each backend's transaction
    hour,          \* 0, 1: deadlines have passed, 2: first credential expired
    txCount,
    helloEpoch     \* the epoch the last accepted hello created

pgVars == <<rows, tx, hour, txCount, helloEpoch>>

NoTx == [op |-> "none", pc |-> 0, auth |-> <<0, 0>>, seq |-> 0,
         unknown |-> FALSE, locks |-> {}]

-----------------------------------------------------------------------------
(* Locks.  A row lock is S (FOR KEY SHARE, what a foreign key takes), N     *)
(* (FOR NO KEY UPDATE) or X (FOR UPDATE, or the advisory stream lock).      *)

Conflict(m, n) == {m, n} \notin {{"S"}, {"S", "N"}}

LockOf(n) ==
    CASE n = "stream"                                    -> <<"stream", "X">>
      [] n \in {"authority", "admission", "fence", "accept", "terminate",
                "initialize", "prepare", "activate", "recover", "reopen",
                "refresh"}                               -> <<"authority", "X">>
      [] n = "bootstrap"                                 -> <<"bootstrap", "X">>
      [] n \in {"insert"}                                -> <<"streamRow", "X">>
      [] n \in {"project", "projectState", "ledgerClear", "ledgerUnknown",
                "ledgerQueued", "ledgerBlocked", "reset"} -> <<"summary", "X">>
      [] n \in {"ended", "ready"}                        -> <<"session", "N">>
      [] n = "target"                                    -> <<"session", "X">>
      [] n \in {"insertCommand", "insertWarmCommand", "insertSettings",
                "insertControl", "insertReference", "insertAttachment"}
                                                         -> <<"session", "S">>
      [] n \in {"claimable", "claim"}                    -> <<"old", "X">>
      [] n \in {"received", "complete", "unknownRow"}    -> <<"sent", "X">>
      [] n \in {"publishSettings", "settingsWriter", "settingsCap"}
                                                         -> <<"settingsCap", "X">>
      [] n \in {"noSettings", "deliverSettings", "settingsLate", "settingsLost",
                "settingsPending", "settingsTimedOut", "rejectSettings",
                "recoverSettings", "finishSettings"}     -> <<"settings", "X">>
      [] n \in {"publishControl", "controlCap", "dropControlCap"}
                                                         -> <<"controlCap", "X">>
      [] n \in {"noControl", "controlPending", "finishControl", "fenceControl"}
                                                         -> <<"control", "X">>
      [] n \in {"publishReference", "referenceCap", "dropReferenceCap"}
                                                         -> <<"referenceCap", "X">>
      [] n \in {"noReference", "deliverReference", "referencePending",
                "referenceLate", "finishReference", "fenceReference"}
                                                         -> <<"reference", "X">>
      [] n = "bindWriter"                                -> <<"live", "X">>
      [] n \in {"newAttachment", "lockAttachment", "lockSent", "attachmentLate", "sentLate",
                "sendAttachment", "updateAttachment", "expireAttachment", "loseAttachment"}
                                                         -> <<"attachment", "X">>
      [] n \in {"leaseReserved", "recordStart"}          -> <<"lease", "X">>
      [] OTHER                                           -> <<"none", "S">>

Blockers(b, n) ==
    {c \in Backends \ {b} : \E l \in tx[c].locks :
        l[1] = LockOf(n)[1] /\ l[1] # "none" /\ Conflict(l[2], LockOf(n)[2])}

-----------------------------------------------------------------------------
(* The predicates of the statements, on the rows d at hour h.               *)

Expired(d, h) == h >= d.expiry
Unended(d, h)    == ~Expired(d, h) /\ ~d.term
commandAuthorityCurrent(d, a, h) ==
    Unended(d, h) /\ <<d.epoch, d.gen>> = a /\ d.epoch > 0
validateLiveSettingsWriter(d, a, h) ==
    commandAuthorityCurrent(d, a, h) /\ d.live = a
Pristine(d) == d.epoch = 0 /\ d.gen > 0

validateAdapterAdmission(d, a, h) == commandAuthorityCurrent(d, a, h)
acceptAdapterHello(d, a, h) == d.gen = a[2] /\ d.gen > 0 /\ Unended(d, h)
terminateBeforeHello(d, a) == Pristine(d) /\ d.gen = a[2]
refreshBeforeHello(d, a, h) ==
    Pristine(d) /\ d.gen = a[2] /\ ~d.term /\ Expired(d, h)
prepareRotation(d, a, h) == commandAuthorityCurrent(d, a, h) /\ ~d.pending
activateCredential(d, a, h) == commandAuthorityCurrent(d, a, h) /\ d.pending
insertPendingCommand(d, a, h) == commandAuthorityCurrent(d, a, h) /\ h = 0
recordStartReceived(d, a, h) ==
    commandAuthorityCurrent(d, a, h) /\ h = 0 /\ d.attachment = "start_received"
validateCurrentSettingsWriter(d, a, h) ==
    d.settingsCap.writer = a /\ validateLiveSettingsWriter(d, a, h)
validateSettingsFinalization(d, a, h) ==
    d.settings.status = "pending" /\ d.settings.writer = a /\ h = 0
validateRunControlPreState(d) == d.status # "ended"

(* "yes": go on; "done": commit at once (a duplicate); "no": roll back. *)
Decide(yes, done) == IF done THEN "done" ELSE IF yes THEN "yes" ELSE "no"

Verdict(n, d, a, h, t) ==
    CASE n \in {"authority", "current", "insertProposed"} ->
            Decide(commandAuthorityCurrent(d, a, h), FALSE)
      [] n = "admission" -> Decide(validateAdapterAdmission(d, a, h), FALSE)
      [] n = "live" -> Decide(validateLiveSettingsWriter(d, a, h), FALSE)
      [] n = "insert" -> Decide(d.seq = t.seq, FALSE)
      [] n = "noCommand" -> Decide(TRUE, d.cmd["new"] # "none")
      [] n = "insertCommand" -> Decide(insertPendingCommand(d, a, h), FALSE)
      [] n \in {"insertWarmCommand", "inTime"} -> Decide(h = 0, FALSE)
      [] n = "claimable" -> Decide(h = 0, FALSE)
      [] n = "claim" -> Decide(h = 0, d.cmd["old"] # "pending")
      [] n = "received" -> Decide(d.cmd["sent"] = "received", FALSE)
      [] n \in {"complete", "unknownRow"} -> Decide(d.cmd["sent"] = "received", FALSE)
      [] n = "noProposal" -> Decide(TRUE, d.proposed)
      [] n = "settingsWriter" -> Decide(validateCurrentSettingsWriter(d, a, h), FALSE)
      [] n = "settingsCap" -> Decide(d.settingsCap.writer # <<0, 0>>, FALSE)
      [] n = "noSettings" -> Decide(TRUE, d.settings.status # "none")
      [] n = "deliverSettings" ->
            Decide(/\ d.settings.status = "delivery_pending"
                   /\ d.settings.writer = a /\ h = 0, FALSE)
      [] n = "settingsLate" ->
            Decide(d.settings.status = "delivery_pending" /\ h >= 1, FALSE)
      [] n = "settingsLost" ->
            Decide(/\ d.settings.status = "pending"
                   /\ d.settingsCap.writer # d.settings.writer
                   /\ d.settingsCap.seq > d.settings.seq, FALSE)
      [] n = "replacementLive" ->
            Decide(validateLiveSettingsWriter(d, d.settingsCap.writer, h), FALSE)
      [] n = "settingsPending" -> Decide(validateSettingsFinalization(d, a, h), FALSE)
      [] n = "settingsTimedOut" ->
            Decide(d.settings.status = "pending" /\ h >= 1, FALSE)
      [] n = "publishControl" -> Decide(d.seq > d.controlCap.seq, FALSE)
      [] n = "noControl" -> Decide(TRUE, d.control.status # "none")
      [] n = "controlCap" -> Decide(d.controlCap.writer = a, FALSE)
      [] n = "preState" -> Decide(validateRunControlPreState(d), FALSE)
      [] n = "controlPending" -> Decide(d.control.status = "pending", FALSE)
      [] n = "controlMine" -> Decide(d.control.writer = a /\ h = 0, FALSE)
      [] n = "publishReference" -> Decide(d.seq > d.referenceCap.seq, FALSE)
      [] n = "noReference" -> Decide(TRUE, d.reference.status # "none")
      [] n = "referenceCap" -> Decide(d.referenceCap.writer = a, FALSE)
      [] n = "deliverReference" ->
            Decide(d.reference.status = "delivery_pending" /\ h = 0, FALSE)
      [] n = "referencePending" -> Decide(d.reference.status = "pending", FALSE)
      [] n = "referenceMine" -> Decide(d.reference.writer = a, FALSE)
      [] n = "referenceLate" ->
            Decide(d.reference.status = "delivery_pending" /\ h >= 1, FALSE)
      [] n = "accept" -> Decide(acceptAdapterHello(d, a, h), FALSE)
      [] n = "terminate" -> Decide(terminateBeforeHello(d, a), FALSE)
      [] n = "refresh" -> Decide(refreshBeforeHello(d, a, h), FALSE)
      [] n = "initialize" -> Decide(d.gen = 0, FALSE)
      [] n = "prepare" -> Decide(prepareRotation(d, a, h), FALSE)
      [] n = "activate" -> Decide(activateCredential(d, a, h), FALSE)
      [] n = "recover" -> Decide(~d.term, d.expiry = 3)
      [] n = "reopen" -> Decide(d.term, FALSE)
      [] n = "leaseReserved" -> Decide(d.lease = "reserved" /\ h = 0, FALSE)
      [] n = "recordStart" -> Decide(recordStartReceived(d, a, h), FALSE)
      [] n = "target" -> Decide(d.status # "ended", FALSE)
      [] n = "noAttachment" -> Decide(TRUE, d.attachment # "none")
      [] n = "newAttachment" -> Decide(d.attachment = "none", FALSE)
      [] n = "lockAttachment" ->
            Decide(d.attachment = "join_pending" /\ h = 0, FALSE)
      [] n = "lockSent" -> Decide(d.attachment = "join_sent" /\ h = 0, FALSE)
      [] n = "attachmentLate" ->
            Decide(d.attachment = "join_pending" /\ h >= 1, FALSE)
      [] n = "sentLate" -> Decide(d.attachment = "join_sent" /\ h >= 1, FALSE)
      [] OTHER -> "yes"

-----------------------------------------------------------------------------
(* What a statement writes, on the rows d its transaction will commit over. *)

Project(d, observed) ==
    LET seq == d.seq
        complete == /\ d.sum.complete \/ d.sum.seq <= 1
                    /\ seq = d.sum.seq + 1
                    /\ d.sum.complete \/ observed
    IN  [d EXCEPT !.sum.seq = seq, !.sum.complete = complete]

Block(d, b) == [d EXCEPT !.sum.blocker = b, !.sum.version = @ + 1]
Writer(d)   == <<d.epoch, d.gen>>
NoCap       == [writer |-> <<0, 0>>, seq |-> 0]

(* The rebuilt projection: the blocker is what the ledger read at the start *)
(* of the rebuild says, or what the attachment says.                        *)
backfilled(d, t) ==
    [d EXCEPT !.sum.seq = d.seq,
              !.sum.blocker =
                  CASE t.unknown \/ d.attachment = "lost" -> "outcome_unknown"
                    [] ~t.unknown /\ d.attachment \in {"join_pending", "join_sent"} -> "queued"
                    [] ~t.unknown /\ d.attachment = "reauthorization_required" -> d.attachment
                    [] OTHER -> "none",
              !.sum.complete = d.attachment = "none" /\ d.sum.seq = d.seq]

(* RecoverAdapterCredential: a new generation, or the first one. *)
recovered(d) == [d EXCEPT !.gen = @ + 1, !.pending = FALSE, !.expiry = 3]

Write(n, d, t) ==
    CASE n = "insert" -> [d EXCEPT !.seq = @ + 1]
      [] n = "insertProposed" -> [d EXCEPT !.proposed = TRUE]
      [] n = "project" -> Project(d, FALSE)
      [] n = "projectState" -> Project(d, TRUE)
      [] n = "ended" -> [d EXCEPT !.status = "ended"]
      [] n = "fence" -> [d EXCEPT !.term = TRUE]
      [] n = "ledgerClear" -> Block(d, "none")
      [] n = "ledgerUnknown" -> Block(d, "outcome_unknown")
      [] n = "ledgerQueued" -> Block(d, "queued")
      [] n = "ledgerBlocked" -> Block(d, "reauthorization_required")
      [] n = "reset" -> backfilled(d, t)
      [] n \in {"insertCommand", "insertWarmCommand"} ->
            [d EXCEPT !.cmd["new"] = "pending"]
      [] n = "claim" -> [d EXCEPT !.cmd["old"] = "received"]
      [] n = "complete" -> [d EXCEPT !.cmd["sent"] = "completed"]
      [] n = "unknownRow" -> [d EXCEPT !.cmd["sent"] = "outcome_unknown"]
      [] n = "publishSettings" ->
            [d EXCEPT !.settingsCap = [writer |-> t.auth, seq |-> d.seq]]
      [] n = "insertSettings" ->
            [d EXCEPT !.settings = [status |-> "delivery_pending", writer |-> t.auth,
                                    seq |-> d.settingsCap.seq]]
      [] n = "deliverSettings" -> [d EXCEPT !.settings.status = "pending"]
      [] n = "recoverSettings" -> [d EXCEPT !.settings.status = "recovery_pending"]
      [] n \in {"rejectSettings", "finishSettings"} ->
            [d EXCEPT !.settings.status = "final"]
      [] n = "publishControl" ->
            [d EXCEPT !.controlCap = [writer |-> t.auth, seq |-> d.seq]]
      [] n = "insertControl" ->
            [d EXCEPT !.control = [status |-> "pending", writer |-> t.auth]]
      [] n = "finishControl" -> [d EXCEPT !.control.status = "final"]
      [] n = "dropControlCap" -> [d EXCEPT !.controlCap = NoCap]
      [] n = "fenceControl" ->
            IF d.control.status # "pending" THEN d
            ELSE [d EXCEPT !.control.status = "final", !.seq = @ + 1]
      [] n = "publishReference" ->
            [d EXCEPT !.referenceCap = [writer |-> t.auth, seq |-> d.seq]]
      [] n = "insertReference" ->
            [d EXCEPT !.reference = [status |-> "delivery_pending",
                                     writer |-> d.referenceCap.writer]]
      [] n = "deliverReference" ->
            [d EXCEPT !.reference = [status |-> "pending", writer |-> t.auth]]
      [] n = "finishReference" -> [d EXCEPT !.reference.status = "final"]
      [] n = "dropReferenceCap" -> [d EXCEPT !.referenceCap = NoCap]
      [] n = "fenceReference" ->
            IF d.reference.status \notin {"delivery_pending", "pending"} THEN d
            ELSE [d EXCEPT !.reference.status = "final", !.seq = @ + 1]
      [] n = "accept" -> [d EXCEPT !.epoch = @ + 1]
      [] n = "bindWriter" -> [d EXCEPT !.live = Writer(d)]
      [] n = "terminate" -> [d EXCEPT !.term = TRUE]
      [] n = "initialize" -> [d EXCEPT !.gen = 1]
      [] n = "recover" -> recovered(d)
      [] n = "refresh" -> [d EXCEPT !.expiry = 3]
      [] n = "prepare" -> [d EXCEPT !.pending = TRUE]
      [] n = "activate" -> [d EXCEPT !.epoch = @ + 1, !.gen = @ + 1, !.expiry = 3,
                                     !.pending = FALSE]
      [] n = "reopen" -> [d EXCEPT !.term = FALSE]
      [] n = "recordStart" -> [d EXCEPT !.lease = "start_received"]
      [] n = "insertAttachment" -> [d EXCEPT !.attachment = "join_pending"]
      [] n = "sendAttachment" -> [d EXCEPT !.attachment = "join_sent"]
      [] n = "updateAttachment" -> [d EXCEPT !.attachment = "start_received"]
      [] n = "expireAttachment" -> [d EXCEPT !.attachment = "reauthorization_required"]
      [] n = "loseAttachment" -> [d EXCEPT !.attachment = "lost"]
      [] OTHER -> d

-----------------------------------------------------------------------------
(* The transactions of the Store, statement by statement.                   *)

appendEventsLocked == <<"latest", "insert", "project">>
appendTerminalEvent == <<"latest", "insert", "projectState", "ended">>
appendRunControlEvent == <<"latest", "insert">>

AppendEvents == <<"stream">> \o appendEventsLocked
AppendTerminal == <<"stream">> \o appendTerminalEvent \o <<"fence">>
AppendAdapterEvents ==
    <<"stream", "admission">> \o appendEventsLocked \o <<"current">>
AppendAdapterTerminal ==
    <<"stream", "admission">> \o appendTerminalEvent \o <<"current", "fence">>
CommitPendingCommand ==
    <<"authority", "inTime", "stream", "current", "inTime", "noCommand">>
        \o appendEventsLocked \o <<"insertCommand", "ledgerClear">>
\* Mutant: lockCommandAuthority without FOR UPDATE.
mutationUnlocked == <<"current">>

beginCommandMutation == <<"authority">>

ListPendingCommands == beginCommandMutation \o <<"inTime">>
ClaimPendingCommand == beginCommandMutation \o <<"claimable", "current", "claim">>
ResolvePendingCommand ==
    beginCommandMutation \o <<"received", "current", "complete">>
ResolvePendingCommandOutcomeUnknown ==
    beginCommandMutation \o <<"received", "current", "unknownRow", "ledgerUnknown">>
ResolvePendingCommandUnknown == <<"unknownRow", "ledgerUnknown">>
proposeLocked ==
    <<"stream", "authority", "current", "noProposal", "latest", "insertProposed", "insert">>
CommitProposedEvent == proposeLocked \o <<"project">>
CommitProposedTerminal == proposeLocked \o <<"projectState", "ended", "fence">>

PublishSettingsCapability ==
    <<"authority", "live", "stream", "current", "publishSettings">>
SettingsCommandReserve ==
    <<"authority", "stream", "current", "settingsWriter", "noSettings",
      "settingsWriter", "insertSettings">>
AcknowledgeSettingsCommandDelivery ==
    <<"authority", "stream", "current", "settingsWriter", "deliverSettings">>
RecoverSettingsDelivery ==
    <<"stream", "settingsCap", "settingsLate">> \o appendEventsLocked
        \o <<"rejectSettings">>
RecoverSettingsCommand ==
    <<"stream", "settingsCap", "settingsLost", "replacementLive",
      "recoverSettings">>
FinalizeSettingsCommand ==
    <<"authority", "stream", "current", "settingsWriter", "settingsCap",
      "settingsPending">> \o appendEventsLocked \o <<"finishSettings">>
FinalizeSettingsTimeout ==
    <<"stream", "settingsCap", "settingsTimedOut">> \o appendEventsLocked
        \o <<"finishSettings">>

PublishRunControlCapability == <<"stream", "live", "publishControl">>
RunControlReserve ==
    <<"stream", "live", "noControl", "controlCap", "preState", "insertControl">>
RunControlFinalizeStop ==
    <<"stream", "controlPending", "controlMine", "controlCap", "live", "preState">>
        \o appendRunControlEvent \o <<"ended">> \o appendRunControlEvent
        \o <<"finishControl">>
RecoverRunControl ==
    <<"stream", "controlPending">> \o appendRunControlEvent \o <<"finishControl">>

PublishFileReferenceCapability == <<"stream", "live", "publishReference">>
CommitFileReferenceCommand ==
    <<"stream", "noReference", "referenceCap", "live">> \o appendRunControlEvent
        \o <<"insertReference">>
AcknowledgeFileReferenceDelivery ==
    <<"stream", "live", "referenceCap", "deliverReference">>
FinalizeFileReferenceCommand ==
    <<"stream", "referencePending", "referenceMine", "live", "referenceCap">>
        \o appendRunControlEvent \o <<"finishReference">>
RecoverFileReferenceCommand ==
    <<"stream", "referenceLate">> \o appendRunControlEvent \o <<"finishReference">>

fenceRunControlsAfterWriterReplacement ==
    <<"dropControlCap", "fenceControl", "dropReferenceCap", "fenceReference">>
AcceptAdapterHello ==
    <<"stream", "accept", "bindWriter">> \o fenceRunControlsAfterWriterReplacement
TerminateAdapterConnectionBeforeHello ==
    <<"stream", "terminate">> \o fenceRunControlsAfterWriterReplacement

WithProviderStartStandalone == <<"admission", "live", "start", "admission", "live">>
WithProviderStartAttached ==
    <<"admission", "live", "leaseReserved", "start", "leaseReserved", "recordStart",
      "admission", "live">>

IssueAdapterConnectionAuthorityReceipt == <<"admission", "live">>
PrepareAdapterCredentialRotation == <<"prepare">>
ActivateAdapterCredential == <<"activate">>
RecoverAdapterCredential == <<"recover">>
RefreshAdapterCredentialBeforeHello == <<"refresh">>
ReopenAdapterConnection == <<"reopen">>
InitializeAdapterConnection == <<"initialize">>

CommitWarmAttach ==
    <<"inTime", "stream", "noAttachment", "bootstrap", "target", "initialize",
      "inTime", "newAttachment", "insertAttachment">> \o appendEventsLocked
        \o <<"insertWarmCommand", "ledgerQueued">>
\* An attachment is join_pending with its credential not handed over, or handed over
\* (join_sent): only the outcome of the latter is unknown when it expires.
ExpireWarmAttach == <<"attachmentLate", "expireAttachment", "ledgerBlocked">>
ExpireSentAttach == <<"sentLate", "loseAttachment", "ledgerUnknown">>
CreateAttachment ==
    <<"noAttachment", "inTime", "newAttachment", "insertAttachment", "ledgerQueued">>
UpdateAttachment == <<"lockAttachment", "updateAttachment", "ledgerClear">>
SendAttachment == <<"lockAttachment", "sendAttachment", "ledgerQueued">>
UpdateSentAttachment == <<"lockSent", "updateAttachment", "ledgerClear">>

BackfillAttention == <<"stream", "readLedger", "reset">>

Script ==
    [append |-> AppendEvents, appendTerminal |-> AppendTerminal,
     adapterEvents |-> AppendAdapterEvents, adapterTerminal |-> AppendAdapterTerminal,
     list |-> ListPendingCommands, receipt |-> IssueAdapterConnectionAuthorityReceipt,
     command |-> CommitPendingCommand, claim |-> ClaimPendingCommand,
     resolve |-> ResolvePendingCommand,
     resolveUnknown |-> ResolvePendingCommandOutcomeUnknown,
     abandon |-> ResolvePendingCommandUnknown, propose |-> CommitProposedEvent,
     proposeTerminal |-> CommitProposedTerminal,
     publishSettings |-> PublishSettingsCapability,
     reserveSettings |-> SettingsCommandReserve,
     ackSettings |-> AcknowledgeSettingsCommandDelivery,
     rejectSettings |-> RecoverSettingsDelivery,
     recoverSettings |-> RecoverSettingsCommand,
     finishSettings |-> FinalizeSettingsCommand,
     expireSettings |-> FinalizeSettingsTimeout,
     publishControl |-> PublishRunControlCapability,
     reserveControl |-> RunControlReserve, stopControl |-> RunControlFinalizeStop,
     recoverControl |-> RecoverRunControl,
     publishReference |-> PublishFileReferenceCapability,
     commitReference |-> CommitFileReferenceCommand,
     ackReference |-> AcknowledgeFileReferenceDelivery,
     finishReference |-> FinalizeFileReferenceCommand,
     recoverReference |-> RecoverFileReferenceCommand,
     hello |-> AcceptAdapterHello,
     terminate |-> TerminateAdapterConnectionBeforeHello,
     standalone |-> WithProviderStartStandalone,
     attached |-> WithProviderStartAttached,
     prepare |-> PrepareAdapterCredentialRotation,
     activate |-> ActivateAdapterCredential, recover |-> RecoverAdapterCredential,
     refresh |-> RefreshAdapterCredentialBeforeHello,
     reopen |-> ReopenAdapterConnection, initialize |-> InitializeAdapterConnection,
     warmAttach |-> CommitWarmAttach, expireAttach |-> ExpireWarmAttach,
     expireSent |-> ExpireSentAttach,
     createAttachment |-> CreateAttachment, updateAttachment |-> UpdateAttachment,
     sendAttachment |-> SendAttachment, updateSent |-> UpdateSentAttachment,
     backfill |-> BackfillAttention]

Operations == DOMAIN Script

-----------------------------------------------------------------------------
(* Histories the Store can be in: a Session before its attach, an attached   *)
(* target before its hello (without and with its credential handed over),    *)
(* and Sessions with their commands under way.                               *)

unattached ==
    [epoch |-> 0, gen |-> 0, expiry |-> 2, term |-> FALSE, pending |-> FALSE,
     live |-> <<0, 0>>, seq |-> 0, status |-> "starting", proposed |-> FALSE,
     sum |-> [seq |-> 0, complete |-> FALSE, blocker |-> "none", version |-> 0],
     cmd |-> [c \in {"new", "old", "sent"} |-> "none"],
     settingsCap |-> NoCap, controlCap |-> NoCap, referenceCap |-> NoCap,
     settings |-> [status |-> "none", writer |-> <<0, 0>>, seq |-> 0],
     control |-> [status |-> "none", writer |-> <<0, 0>>],
     reference |-> [status |-> "none", writer |-> <<0, 0>>],
     attachment |-> "none", lease |-> "none"]

awaitingHello ==
    [unattached EXCEPT !.gen = 1, !.seq = 1, !.sum.seq = 1,
                       !.sum.blocker = "queued", !.sum.version = 1,
                       !.attachment = "join_pending", !.cmd["old"] = "pending"]

handedOver == [awaitingHello EXCEPT !.attachment = "join_sent"]

working ==
    [unattached EXCEPT
        !.epoch = 1, !.gen = 1, !.live = <<1, 1>>, !.seq = 4, !.status = "busy",
        !.sum = [seq |-> 4, complete |-> TRUE, blocker |-> "none", version |-> 1],
        !.cmd["old"] = "pending", !.cmd["sent"] = "received",
        !.settingsCap = [writer |-> <<1, 1>>, seq |-> 2],
        !.controlCap = [writer |-> <<1, 1>>, seq |-> 3],
        !.referenceCap = [writer |-> <<1, 1>>, seq |-> 3],
        !.settings = [status |-> "delivery_pending", writer |-> <<1, 1>>, seq |-> 2],
        !.reference = [status |-> "delivery_pending", writer |-> <<1, 1>>],
        !.attachment = "start_received", !.lease = "reserved"]

(* A standalone Session: no attachment, and a projection that a gap left     *)
(* incomplete, so that the backfill takes it.                               *)
controlled ==
    [working EXCEPT !.settings.status = "pending", !.pending = TRUE,
                    !.control = [status |-> "pending", writer |-> <<1, 1>>],
                    !.reference.status = "pending", !.sum.complete = FALSE,
                    !.attachment = "none", !.lease = "none"]

(* Capabilities published and nothing asked yet; and the same after the      *)
(* writer of a pending settings command was replaced.                       *)
published ==
    [working EXCEPT !.settings = unattached.settings,
                    !.reference = unattached.reference]
replaced ==
    [published EXCEPT !.epoch = 2, !.live = <<2, 1>>,
                      !.settings = [status |-> "pending", writer |-> <<1, 1>>, seq |-> 2],
                      !.settingsCap = [writer |-> <<2, 1>>, seq |-> 4],
                      !.controlCap = NoCap, !.referenceCap = NoCap]

PostgresInit ==
    /\ rows \in {unattached, awaitingHello, handedOver, working, controlled, published, replaced}
    /\ tx = [b \in Backends |-> NoTx]
    /\ hour = 0
    /\ txCount = 0
    /\ helloEpoch = rows.epoch

InTx(b) == tx[b].op # "none"
Next1(b)   == Script[tx[b].op][tx[b].pc]
Finished(b) == tx[b].pc > Len(Script[tx[b].op])

Begin(b, op) ==
    /\ ~InTx(b)
    /\ txCount < MaxTx
    /\ op = "backfill" => ~rows.sum.complete \/ rows.sum.seq # rows.seq
    /\ tx' = [tx EXCEPT ![b] = [NoTx EXCEPT !.op = op, !.pc = 1,
                                            !.auth = <<rows.epoch, rows.gen>>]]
    /\ txCount' = txCount + 1
    /\ UNCHANGED <<rows, hour, helloEpoch>>

commits(b, upTo) ==
    rows' = FoldLeft(LAMBDA d, n : Write(n, d, tx[b]), rows,
                     SubSeq(Script[tx[b].op], 1, upTo))

(* One statement: it waits while another transaction holds a conflicting    *)
(* lock, and takes its own until the end of the transaction.                *)
Statement(b) ==
    LET n == Next1(b)
        verdict == Verdict(n, rows, tx[b].auth, hour, tx[b])
    IN  /\ InTx(b) /\ ~Finished(b)
        /\ Blockers(b, n) = {}
        /\ CASE verdict = "yes" ->
                  /\ tx' = [tx EXCEPT
                        ![b].pc = @ + 1, ![b].locks = @ \cup {LockOf(n)},
                        ![b].seq = IF n = "latest" THEN rows.seq ELSE @,
                        ![b].unknown = IF n = "readLedger"
                                       THEN "outcome_unknown" \in
                                            {rows.cmd[c] : c \in DOMAIN rows.cmd}
                                       ELSE @]
                  /\ UNCHANGED <<rows, helloEpoch>>
             [] OTHER ->
                  /\ tx' = [tx EXCEPT ![b] = NoTx]
                  /\ UNCHANGED <<rows, helloEpoch>>
        /\ UNCHANGED <<hour, txCount>>

Commit(b) ==
    /\ InTx(b) /\ Finished(b)
    /\ commits(b, Len(Script[tx[b].op]))
    /\ helloEpoch' = IF tx[b].op = "hello" THEN rows'.epoch ELSE helloEpoch
    /\ tx' = [tx EXCEPT ![b] = NoTx]
    /\ UNCHANGED <<hour, txCount>>

(* The caller's context ends, the backend dies, or the deadlock detector     *)
(* chose this transaction: nothing of it stays.                             *)
Rollback(b) ==
    /\ InTx(b)
    /\ tx' = [tx EXCEPT ![b] = NoTx]
    /\ UNCHANGED <<rows, hour, txCount, helloEpoch>>

TimePasses ==
    /\ hour < 2
    /\ hour' = hour + 1
    /\ UNCHANGED <<rows, tx, txCount, helloEpoch>>

PostgresNext ==
    \/ \E b \in Backends, op \in Operations : Begin(b, op)
    \/ \E b \in Backends : Statement(b) \/ Commit(b) \/ Rollback(b)
    \/ TimePasses

PostgresSpec == PostgresInit /\ [][PostgresNext]_pgVars

-----------------------------------------------------------------------------
(* Types of the rows the transactions read and write. *)
PostgresTypeOK ==
    /\ rows.epoch \in Nat /\ rows.gen \in Nat /\ rows.seq \in Nat
    /\ rows.sum.seq <= rows.seq
    /\ \A b \in Backends : tx[b].op \in Operations \cup {"none"}
    /\ hour \in 0..2 /\ txCount \in 0..MaxTx

(* Run control, file references and settings recovery look at the writer    *)
(* without locking its row; the rebuild reads the ledger without a lock.    *)
unlockedReads == {"live", "replacementLive", "readLedger"}
locksAuthority(op) == \E i \in 1..Len(Script[op]) : LockOf(Script[op][i])[1] = "authority"

(* A transaction that commits writes was right when it commits, not only    *)
(* when it looked: every test it passed (authority, duplicate, status,      *)
(* sequence number) still holds on the rows it commits over, whatever       *)
(* committed while it waited for its locks (validateCommandAuthorityCurrent *)
(* after LockSessionEventStream, ValidateAdapterAdmission after the append).*)
ChecksHoldAtCommit ==
    \A b \in Backends :
        InTx(b) /\ Finished(b) /\ rows' # rows =>
            \A i \in 1..Len(Script[tx[b].op]) :
                LET n == Script[tx[b].op][i] IN
                \/ n \in unlockedReads /\ ~locksAuthority(tx[b].op)
                \/ \E h \in 0..2 : Verdict(n, rows, tx[b].auth, h, tx[b]) = "yes"

(* After a hello committed a new writer, nothing the replaced writer was    *)
(* asked to do is still open: its run controls, file references and their   *)
(* capabilities are finished or gone, whichever reservation raced with the  *)
(* hello (fencePostgresRunControlsAfterWriterReplacement).                  *)
FenceComplete ==
    /\ rows.control.status = "pending" => rows.control.writer[1] >= helloEpoch
    /\ rows.reference.status \in {"delivery_pending", "pending"} =>
           rows.reference.writer[1] >= helloEpoch
    /\ rows.controlCap.writer # <<0, 0>> => rows.controlCap.writer[1] >= helloEpoch
    /\ rows.referenceCap.writer # <<0, 0>> => rows.referenceCap.writer[1] >= helloEpoch

(* From the moment the Provider is physically started until its admission   *)
(* commits, the writer that asked is the Session's writer: no hello,        *)
(* rotation, recovery or terminal fence commits in between                  *)
(* (WithProviderStartAdmission holds the row across the callback).          *)
StartHeldByWriter ==
    \A b \in Backends :
        /\ InTx(b)
        /\ \E i \in 1..(tx[b].pc - 1) : Script[tx[b].op][i] = "start"
        => <<rows.epoch, rows.gen>> = tx[b].auth /\ ~rows.term

(* A projection that lacked something is called complete only by a commit   *)
(* that leaves none of the log's events unprojected, be it a rebuild or an  *)
(* append, whatever was appended while it waited                            *)
(* (attention_backfill.go:267-269, attention.sql.go:153-255).               *)
CompleteHasAllEvents ==
    rows'.sum.complete /\ ~rows.sum.complete => rows'.sum.seq = rows'.seq

(* The transactions keep what the serial store promises: a commit rests on  *)
(* rows that still say what it read, a hello leaves nothing of its          *)
(* predecessor open, a Provider starts under its own writer, and no partial *)
(* projection becomes complete.                                             *)
TransactionsHold ==
    [][/\ ChecksHoldAtCommit /\ CompleteHasAllEvents
       /\ (FenceComplete /\ StartHeldByWriter)']_pgVars

=============================================================================
