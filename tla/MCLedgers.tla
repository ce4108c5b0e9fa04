------------------------------ MODULE MCLedgers ------------------------------
(***************************************************************************)
(* The three ledgers, each on a session of its own: `kind' says which one  *)
(* a behaviour is about.                                                   *)
(***************************************************************************)
EXTENDS MCSettingsLedger, RunControlLedger, FileReferenceLedger

VARIABLE kind

ledgerVars == <<sessionVars, settingsVars, controlVars, fileVars, kind>>

Init ==
    /\ kind \in {"settings", "control", "file"}
    /\ SettingsInit /\ ControlInit /\ FileInit
    /\ kind # "control" => ~sealed

InSettings == kind = "settings" /\ UNCHANGED <<kind, controlVars, fileVars>>

InControl == kind = "control" /\ UNCHANGED <<kind, settingsVars, fileVars>>

InFile == kind = "file" /\ UNCHANGED <<kind, settingsVars, controlVars>>

\* A store call is made to fail while a request is unfinished.
SettingsSteps ==
    \/ settingsHello /\ InSettings
    \/ settingsLapse /\ InSettings
    \/ settingsCrash /\ InSettings
    \/ PublishSettingsCapability /\ InSettings
    \/ capabilityFails /\ Waiting # {} /\ InSettings
    \/ recoverSettings /\ InSettings
    \/ receiptCapability /\ InSettings
    \/ \E w \in Writers :
        \/ settingsDrop(w) /\ InSettings
        \/ proposeCapability(w) /\ InSettings
    \/ \E c \in Setting :
        \/ \E r \in SettingsRequest : handleSettingsChange(c, r) /\ InSettings
        \/ routeSettings(c) /\ InSettings
        \/ \E accepts \in BOOLEAN : handleAdapterCommandAck(c, accepts) /\ InSettings
        \/ executeSettings(c) /\ InSettings
        \/ \E report \in SettingsReport : finalizeSettingsEffective(c, report) /\ InSettings
        \/ settingsElapse(c) /\ InSettings

ControlSteps ==
    \/ controlHello /\ InControl
    \/ controlLapse /\ InControl
    \/ controlCrash /\ InControl
    \/ PublishRunControlCapability /\ InControl
    \/ finalizeEncryptedRunControl /\ InControl
    \/ \E w \in Writers :
        \/ controlDrop(w) /\ InControl
        \/ \E s \in RunState : proposeState(w, s) /\ InControl
        \/ \E ops \in Supported : proposeRunCapability(w, ops) /\ InControl
    \/ \E c \in Control :
        \/ \E op \in Operation : handleRunControl(c, op) /\ InControl
        \/ routeRunControl(c) /\ InControl
        \/ RecoverRunControl(c) /\ InControl
        \/ handleRunControlCommandAck(c) /\ InControl
        \/ \E w \in Writers, o \in Outcome :
            \/ finalizeRunControlOutcome(c, w, o) /\ InControl
            \/ commitEncryptedRunControlOutcome(c, w, o) /\ InControl
        \/ controlElapse(c) /\ InControl

FileSteps ==
    \/ fileHello /\ InFile
    \/ fileLapse /\ InFile
    \/ fileCrash /\ InFile
    \/ \E w \in Writers :
        \/ fileDrop(w) /\ InFile
        \/ \E fp \in Fingerprint : commitFileReferenceCapabilityProposal(w, fp) /\ InFile
    \/ \E h \in Sender :
        \/ \E c \in FileCommand, fp \in Fingerprint : handleFileReferenceSend(h, c, fp) /\ InFile
        \/ CommitFileReferenceCommand(h) /\ InFile
        \/ AcknowledgeFileReferenceDelivery(h) /\ InFile
        \/ routeFileReference(h) /\ InFile
        \/ RecoverFileReferenceCommand(h) /\ InFile
    \/ \E c \in FileCommand :
        \/ \E w \in Writers, o \in FileOutcome : finalizeFileReferenceOutcome(c, w, o) /\ InFile
        \/ fileElapse(c) /\ InFile

Next == SettingsSteps \/ ControlSteps \/ FileSteps

Spec == Init /\ [][Next]_ledgerVars

\* The types of the session and of the ledger a behaviour is about.
LedgersTypeOK ==
    CASE kind = "settings" -> SettingsTypeOK
      [] kind = "control"  -> ControlTypeOK
      [] kind = "file"     -> FileTypeOK

=============================================================================
