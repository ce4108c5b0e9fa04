------------------------- MODULE FileReferenceLedger -------------------------
(***************************************************************************)
(* Messages of one session that refer to files: the Hub records the        *)
(* message and a ledger row, binds the row to the Adapter it routes to,    *)
(* and the Adapter's outcome, a failed delivery or the next hello ends it. *)
(*                                                                         *)
(* Each handler of a client's frame is a process, because two connections  *)
(* may send the same command at once.  The publication gate of the session *)
(* is held from the insert of the row to its binding.  The Adapter's side  *)
(* is not part of the repository: it answers each frame once, over the     *)
(* connection it has by then.                                              *)
(***************************************************************************)
EXTENDS LedgerSession, FiniteSetsExt

CONSTANTS
    FileCommand,        \* commands with file references
    Sender,             \* handlers of client frames
    Fingerprint         \* capabilities an Adapter may publish

VARIABLES
    fileCapability,     \* session_file_reference_capabilities
    fileCache,          \* h.fileReferenceCapabilities
    fileCommand,        \* session_file_reference_commands
    accepted,           \* h.acceptedCommands
    handler,            \* the client handlers
    sent,               \* how often a command was written to an Adapter
    held                \* commands at the Adapter, not reported

fileVars == <<fileCapability, fileCache, fileCommand, accepted, handler, sent, held>>

allFileVars == <<sessionVars, fileVars>>

-----------------------------------------------------------------------------
\* State.

NoFileCapability == [fp |-> "none", writer |-> 0]

NoFileCommand == [status |-> "none", writer |-> 0]

Idle == [step |-> "idle"]

FileOutcome == {"delivered", "rejected", "outcome_unknown"}

FileWaiting == {c \in FileCommand : fileCommand[c].status \in {"delivery_pending", "pending"}}

FileInit ==
    /\ SessionInit
    /\ log = <<>>
    /\ fileCapability = NoFileCapability
    /\ fileCache = NoFileCapability
    /\ fileCommand = [c \in FileCommand |-> NoFileCommand]
    /\ accepted = {}
    /\ handler = [h \in Sender |-> Idle]
    /\ sent = [c \in FileCommand |-> 0]
    /\ held = {}

\* withSessionPublication
GateFree == \A h \in Sender : handler[h].step # "bind"

Goto(h, step) == handler' = [handler EXCEPT ![h].step = step]

Done(h) == handler' = [handler EXCEPT ![h] = Idle]

FileMessage(c) == [type |-> "message", cmd |-> c]

FileOutcomeEvent(c, o) == [type |-> "outcome", cmd |-> c, outcome |-> o]

EndFile(c, o) ==
    /\ Room(1)
    /\ log' = Append(log, FileOutcomeEvent(c, o))
    /\ fileCommand' = [fileCommand EXCEPT ![c].status = o, ![c].end = Len(log) + 1]

-----------------------------------------------------------------------------
\* The Adapter publishes its capability; each hello has deleted the earlier one.
PublishFileReferenceCapability(w, fp) ==
    /\ Live(w)
    /\ fileCapability' = [fp |-> fp, writer |-> w]

commitFileReferenceCapabilityProposal(w, fp) ==
    /\ w \in open /\ CanEffect(w) /\ GateFree /\ Room(1)
    /\ log' = Append(log, [type |-> "filecaps", fp |-> fp, writer |-> w])
    /\ PublishFileReferenceCapability(w, fp)
    /\ fileCache' = [fp |-> fp, writer |-> w]
    /\ UNCHANGED <<live, authorised, registered, open, fileCommand, accepted, handler, sent, held>>

-----------------------------------------------------------------------------
\* handleFileReferenceSend, step by step.

\* The checks before the gate, against the Hub's memory.
handleFileReferenceSend(h, c, fp) ==
    /\ handler[h] = Idle
    /\ c \notin accepted
    /\ registered # 0
    /\ fileCache = [fp |-> fp, writer |-> registered]
    /\ handler' = [handler EXCEPT ![h] = [step |-> "commit", cmd |-> c, w |-> registered, fp |-> fp]]
    /\ UNCHANGED <<sessionVars, fileCapability, fileCache, fileCommand, accepted, sent, held>>

\* The row of an earlier send, or the message and a new row; the index admits one
\* unfinished row.  A duplicate that is still pending goes on to the Adapter.
CommitFileReferenceCommand(h) ==
    LET c == handler[h].cmd
        fp == handler[h].fp
    IN  /\ handler[h].step = "commit" /\ GateFree
        /\ \/ /\ fileCommand[c] # NoFileCommand
              /\ IF fileCommand[c].status = "pending" THEN Goto(h, "route") ELSE Done(h)
              /\ UNCHANGED <<log, fileCommand>>
           \/ /\ fileCommand[c] = NoFileCommand
              /\ fileCapability.fp = fp /\ Live(fileCapability.writer) /\ FileWaiting = {}
              /\ Room(1)
              /\ log' = Append(log, FileMessage(c))
              /\ fileCommand' = [fileCommand EXCEPT ![c] =
                    [status |-> "delivery_pending", writer |-> 0, fp |-> fp, late |-> FALSE, end |-> 0]]
              /\ Goto(h, "bind")
           \/ /\ fileCommand[c] = NoFileCommand
              /\ ~(fileCapability.fp = fp /\ Live(fileCapability.writer) /\ FileWaiting = {})
              /\ Done(h)
              /\ UNCHANGED <<log, fileCommand>>
        /\ UNCHANGED <<live, authorised, registered, open, fileCapability, fileCache, accepted,
                       sent, held>>

\* Mutant: the row is bound without asking who may write.
bindUnchecked(h) ==
    /\ handler[h].step = "bind"
    /\ IF fileCommand[handler[h].cmd].status = "delivery_pending"
       THEN /\ fileCommand' = [fileCommand EXCEPT ![handler[h].cmd].status = "pending",
                                                 ![handler[h].cmd].writer = handler[h].w]
            /\ Goto(h, "route")
       ELSE Done(h) /\ UNCHANGED fileCommand
    /\ UNCHANGED <<sessionVars, fileCapability, fileCache, accepted, sent, held>>

\* The Adapter the handler chose must still be the one behind the capability.  If it is
\* not, the row stays as it is.
AcknowledgeFileReferenceDelivery(h) ==
    LET c == handler[h].cmd
        w == handler[h].w
    IN  /\ handler[h].step = "bind"
        /\ IF /\ Live(w) /\ fileCapability.writer = w
              /\ fileCommand[c].status = "delivery_pending" /\ ~fileCommand[c].late
           THEN /\ fileCommand' = [fileCommand EXCEPT ![c].status = "pending", ![c].writer = w]
                /\ Goto(h, "route")
           ELSE Done(h) /\ UNCHANGED fileCommand
        /\ UNCHANGED <<sessionVars, fileCapability, fileCache, accepted, sent, held>>

Arrives(c) ==
    /\ sent' = [sent EXCEPT ![c] = @ + 1]
    /\ held' = held \cup {c}

\* writeDurableAdapterFrame; a failed write may have reached the Adapter all the same.
routeFileReference(h) ==
    LET c == handler[h].cmd
        w == handler[h].w
    IN  /\ handler[h].step = "route"
        /\ \/ /\ Live(w) /\ w \in open
              /\ Arrives(c)
              /\ accepted' = accepted \cup {c}
              /\ Done(h)
           \/ /\ \/ Live(w) /\ w \in open /\ Arrives(c)
                 \/ UNCHANGED <<sent, held>>
              /\ Goto(h, "recover")
              /\ UNCHANGED accepted
        /\ UNCHANGED <<sessionVars, fileCapability, fileCache, fileCommand>>

\* Mutant: the row's status is not looked at.
recoverAnyway(h) ==
    /\ handler[h].step = "recover" /\ GateFree
    /\ EndFile(handler[h].cmd, "outcome_unknown")
    /\ Done(h)
    /\ UNCHANGED <<live, authorised, registered, open, fileCapability, fileCache, accepted,
                   sent, held>>

\* "delivery_unconfirmed": a row that is still pending ends.
RecoverFileReferenceCommand(h) ==
    LET c == handler[h].cmd
    IN  /\ handler[h].step = "recover" /\ GateFree
        /\ IF fileCommand[c].status = "pending"
           THEN EndFile(c, "outcome_unknown")
           ELSE UNCHANGED <<log, fileCommand>>
        /\ Done(h)
        /\ UNCHANGED <<live, authorised, registered, open, fileCapability, fileCache, accepted,
                       sent, held>>

-----------------------------------------------------------------------------
\* The Adapter's outcome.

MayFinalizeFile(c, w, o) ==
    /\ fileCommand[c].status = "pending" /\ fileCommand[c].writer = w
    /\ o # "outcome_unknown" => Live(w) /\ fileCapability = [fp |-> fileCommand[c].fp, writer |-> w]

finalizeFileReferenceOutcome(c, w, o) ==
    /\ c \in held /\ w \in open /\ CanEffect(w) /\ GateFree
    /\ held' = held \ {c}
    /\ \/ MayFinalizeFile(c, w, o) /\ EndFile(c, o)
       \/ ~MayFinalizeFile(c, w, o) /\ UNCHANGED <<log, fileCommand>>
    /\ UNCHANGED <<live, authorised, registered, open, fileCapability, fileCache, accepted,
                   handler, sent>>

-----------------------------------------------------------------------------
\* Connections, time and crashes.

\* fenceFileReferenceCommandsAfterWriterReplacement, in the transaction of the hello; the
\* publication gate does not keep it out.
fileHello ==
    /\ acceptHello
    /\ fileCapability' = NoFileCapability
    /\ \/ FileWaiting = {} /\ UNCHANGED <<log, fileCommand>>
       \/ \E c \in FileWaiting : EndFile(c, "outcome_unknown")
    /\ UNCHANGED <<fileCache, accepted, handler, sent, held>>

fileDrop(w) == dropConnection(w) /\ UNCHANGED fileVars

fileLapse == lapse /\ UNCHANGED fileVars

fileElapse(c) ==
    /\ fileCommand[c].status = "delivery_pending" /\ ~fileCommand[c].late
    /\ fileCommand' = [fileCommand EXCEPT ![c].late = TRUE]
    /\ UNCHANGED <<sessionVars, fileCapability, fileCache, accepted, handler, sent, held>>

fileCrash ==
    /\ crashHub
    /\ fileCache' = NoFileCapability
    /\ accepted' = {}
    /\ handler' = [h \in Sender |-> Idle]
    /\ UNCHANGED <<fileCapability, fileCommand, sent, held>>

-----------------------------------------------------------------------------
FileNext ==
    \/ fileHello
    \/ fileLapse
    \/ fileCrash
    \/ \E w \in Writers :
        \/ fileDrop(w)
        \/ \E fp \in Fingerprint : commitFileReferenceCapabilityProposal(w, fp)
    \/ \E h \in Sender :
        \/ \E c \in FileCommand, fp \in Fingerprint : handleFileReferenceSend(h, c, fp)
        \/ CommitFileReferenceCommand(h)
        \/ AcknowledgeFileReferenceDelivery(h)
        \/ routeFileReference(h)
        \/ RecoverFileReferenceCommand(h)
    \/ \E c \in FileCommand :
        \/ \E w \in Writers, o \in FileOutcome : finalizeFileReferenceOutcome(c, w, o)
        \/ fileElapse(c)

FileSpec == FileInit /\ [][FileNext]_allFileVars

-----------------------------------------------------------------------------
\* Properties.

\* The session admits one unfinished row, a bound row names the writer it is bound to, and a
\* command the Hub remembers as accepted was written to an Adapter.
FileTypeOK ==
    /\ SessionTypeOK
    /\ \A c, d \in FileWaiting : c = d
    /\ \A c \in FileCommand :
        /\ fileCommand[c].status \in {"none", "delivery_pending", "pending"} \cup FileOutcome
        /\ fileCommand[c].status = "pending" => fileCommand[c].writer \in 1..live
        /\ sent[c] \in 0..Cardinality(Sender)
    /\ \A c \in accepted \cup held : sent[c] > 0
    /\ \A h \in Sender : handler[h].step \in {"idle", "commit", "bind", "route", "recover"}
    /\ fileCache.writer \in 0..live /\ fileCapability.writer \in {0, live}

FileEvents(t, c) == {i \in DOMAIN log : log[i].type = t /\ log[i].cmd = c}

\* However often a command is sent, and whatever fails or restarts, its message is in the
\* log once if it has a row and never otherwise, and its outcome follows once, with the
\* row's status, when the row has ended and not before (CommitFileReferenceCommand, the
\* three ways to end a row).
FileLedgerMatchesLog ==
    \A c \in FileCommand :
        LET r == fileCommand[c]
        IN  /\ IF r = NoFileCommand
               THEN FileEvents("message", c) = {}
               ELSE \E i \in 1..Len(log) : FileEvents("message", c) = {i}
            /\ IF r.status \in FileOutcome
               THEN /\ FileEvents("outcome", c) = {r.end}
                    /\ log[r.end].outcome = r.status
                    /\ \A i \in FileEvents("message", c) : i < r.end
               ELSE FileEvents("outcome", c) = {}

\* A bound row belongs to the live writer, and an unbound one has been at no Adapter: no
\* row outlives its writer, so no new Adapter can answer for an old one
\* (fenceFileReferenceCommandsAfterWriterReplacement, AcknowledgeFileReferenceDelivery).
BoundFileIsLive ==
    \A c \in FileWaiting :
        IF fileCommand[c].status = "pending"
        THEN fileCommand[c].writer = live
        ELSE sent[c] = 0

\* A message that the Adapter took or refused was recorded, and answered, under the last
\* capability published by then: of the row's writer, with the fingerprint the client
\* named (the checks of the row's insert, its binding and its end).
FileUnderItsCapability ==
    \A c \in FileCommand : fileCommand[c].status \in {"delivered", "rejected"} =>
        LET r == fileCommand[c]
            current(i) == log[Max({j \in 1..i : log[j].type = "filecaps"})]
        IN  \A i \in FileEvents("message", c) \cup {r.end} :
                current(i).fp = r.fp /\ current(i).writer = r.writer

\* What the ledger says of a message is what the log shows: it and its outcome once each,
\* and an Adapter's answer under the capability the client had seen.
FileOutcomeIsTrue == FileLedgerMatchesLog /\ FileUnderItsCapability

\* A command reaches an Adapter at most once: "Retried `cmd_id` values retain normal
\* duplicate semantics and never re-open or re-deliver a reference" (spec/v1.md).
FileReferenceDeliveredOnce == \A c \in FileCommand : sent[c] <= 1

=============================================================================
