--------------------------- MODULE MCHubProtocols ---------------------------
(***************************************************************************)
(* The rotation of an Adapter's credential, the attachment of a warm       *)
(* Adapter, the settings of an ACP agent, the recovery of a group of       *)
(* workers, the attention of a client to the activity of sessions, and the *)
(* routing of permission decisions, each checked on its own: `part' says   *)
(* which of them a behaviour is about.                                     *)
(***************************************************************************)
EXTENDS CredentialRotation, WarmAttach, AcpSettings, GroupSupervisor, Attention,
        CommandRouting

VARIABLE part

protocolVars == <<part, crVars, waVars, acpVars, gsVars, attVars, routingVars>>

\* All sessions of the group share a workspace.
OneWorkspace == [s \in GSessions |-> CHOOSE w \in GWorkspaces : TRUE]

AcpWants(m, r, p) == [model |-> m, reasoning |-> r, permission |-> p]

ModelLaunches == {AcpWants(2, 2, 2), AcpWants(1, 1, 2)}

ModelChanges == {AcpWants(1, 2, 1)}

AttentionEvent(t, i) == [type |-> t, id |-> i]

ModelEvents == {AttentionEvent("ready", 0), AttentionEvent("ended", 0),
                AttentionEvent("request", 1), AttentionEvent("decision", 1)}

ModelLegacyLogs == {<<>>, <<AttentionEvent("ready", 0)>>}

ModelGrants == {{1}}

\* The responses are all to one request.
ModelRequests == [c \in Responses |-> CHOOSE r \in Requests : TRUE]

ProtocolInit ==
    /\ part \in {"rotation", "attach", "acp", "group", "projection", "subscription", "reconnection",
                "routing"}
    /\ CredentialRotationInit /\ WarmAttachInit /\ AcpInit /\ GroupInit /\ AttentionInit /\ RoutingInit
    /\ part # "rotation" => lineage = "target_attach"
    /\ part # "acp" => /\ ~acp.required /\ ~acp.managed /\ provider.single = {}
                       /\ tracker.cur = NoCapability /\ launch.want = AcpWants(2, 2, 2)
    /\ part # "projection" => ~summaries.pending

In(p) == part = p

InAttention == part \in {"projection", "subscription", "reconnection"}

OnlyRotation == UNCHANGED <<part, waVars, acpVars, gsVars, attVars, routingVars>>

OnlyAttach == UNCHANGED <<part, crVars, acpVars, gsVars, attVars, routingVars>>

OnlyAcp == UNCHANGED <<part, crVars, waVars, gsVars, attVars, routingVars>>

OnlyGroup == UNCHANGED <<part, crVars, waVars, acpVars, attVars, routingVars>>

OnlyAttention == UNCHANGED <<part, crVars, waVars, acpVars, gsVars, routingVars>>

OnlyRouting == UNCHANGED <<part, crVars, waVars, acpVars, gsVars, attVars>>

RotationSteps ==
    \/ In("rotation") /\ handleCredentialRotationRequest /\ OnlyRotation
    \/ In("rotation") /\ handleCredentialRotationPossession /\ OnlyRotation
    \/ In("rotation") /\ finishRotation /\ OnlyRotation
    \/ In("rotation") /\ requestIfDue /\ OnlyRotation
    \/ In("rotation") /\ handleCredential /\ OnlyRotation
    \/ In("rotation") /\ handleActivation /\ OnlyRotation
    \/ In("rotation") /\ handleError /\ OnlyRotation
    \/ In("rotation") /\ linkDrops /\ OnlyRotation
    \/ In("rotation") /\ readFails /\ OnlyRotation
    \/ In("rotation") /\ dialAndResume /\ OnlyRotation
    \/ In("rotation") /\ dialFails /\ OnlyRotation
    \/ In("rotation") /\ reconnect /\ OnlyRotation
    \/ In("rotation") /\ Tick /\ OnlyRotation
    \/ In("rotation") /\ hubRestarts /\ OnlyRotation
    \/ In("rotation") /\ \E acked \in BOOLEAN : registerAdapter(acked) /\ OnlyRotation

AttachSteps ==
    \/ In("attach") /\ handleWarmAttach /\ OnlyAttach
    \/ In("attach") /\ beginPendingTargetJoin /\ OnlyAttach
    \/ In("attach") /\ activateCommitted /\ OnlyAttach
    \/ In("attach") /\ lookupPendingTargetJoin /\ OnlyAttach
    \/ In("attach") /\ awaitPendingTargetJoin /\ OnlyAttach
    \/ In("attach") /\ claimHandoff /\ OnlyAttach
    \/ In("attach") /\ validateHandoff /\ OnlyAttach
    \/ In("attach") /\ awaitDelivery /\ OnlyAttach
    \/ In("attach") /\ completeHandoff /\ OnlyAttach
    \/ In("attach") /\ releaseWarmAttachCredentialHandoff /\ OnlyAttach
    \/ In("attach") /\ postCommitTimeout /\ OnlyAttach
    \/ In("attach") /\ claimPendingTargetJoin /\ OnlyAttach
    \/ In("attach") /\ startPendingTargetJoinReader /\ OnlyAttach
    \/ In("attach") /\ observePendingTargetJoinInput /\ OnlyAttach
    \/ In("attach") /\ expirePendingTargetJoin /\ OnlyAttach
    \/ In("attach") /\ targetHello /\ OnlyAttach
    \/ In("attach") /\ ExpireWarmAttach /\ OnlyAttach
    \/ In("attach") /\ loseBootstrap /\ OnlyAttach
    \/ In("attach") /\ revokeTarget /\ OnlyAttach
    \/ In("attach") /\ clockTick /\ OnlyAttach
    \/ In("attach") /\ hubCrash /\ OnlyAttach
    \/ In("attach") /\ \E ok \in BOOLEAN : CommitWarmAttach(ok) /\ OnlyAttach
    \/ In("attach") /\ \E ok \in BOOLEAN : failClosedWarmAttachCredentialHandoff(ok) /\ OnlyAttach
    \/ In("attach") /\ \E ok \in BOOLEAN : completePendingTargetJoinDelivery(ok) /\ OnlyAttach

\* A connection is lost in the instance whose launch asks for nothing.
AcpSteps ==
    \/ In("acp") /\ \E what \in {"result", "malformed", "error"} : providerAnswers(what) /\ OnlyAcp
    \/ In("acp") /\ \E k \in Controls, how \in {"value", "lock", "mode"} : providerChanges(k, how) /\ OnlyAcp
    \/ In("acp") /\ launchNext /\ OnlyAcp
    \/ In("acp") /\ launchRead /\ OnlyAcp
    \/ In("acp") /\ launchTimeout /\ OnlyAcp
    \/ In("acp") /\ leakedRead /\ OnlyAcp
    \/ In("acp") /\ readLine /\ OnlyAcp
    \/ In("acp") /\ fencePasses /\ OnlyAcp
    \/ In("acp") /\ settingsDeliveryExecute /\ OnlyAcp
    \/ In("acp") /\ execCheck /\ OnlyAcp
    \/ In("acp") /\ execAnswer /\ OnlyAcp
    \/ In("acp") /\ execTimeout /\ OnlyAcp
    \/ In("acp") /\ execPublish /\ OnlyAcp
    \/ In("acp") /\ Asked(launch.want) = {} /\ linkFails /\ OnlyAcp
    \/ In("acp") /\ reconnectLink /\ OnlyAcp
    \/ In("acp") /\ replayProposals /\ OnlyAcp
    \/ In("acp") /\ freshReconnectProposals /\ OnlyAcp
    \/ In("acp") /\ writeFreshProposal /\ OnlyAcp
    \/ In("acp") /\ \E want \in ChangeWants : settingsChange(want) /\ OnlyAcp
    \/ In("acp") /\ \E want \in ChangeWants : deliverEncryptedACPSettings(want) /\ OnlyAcp
    \/ In("acp") /\ \E ok \in BOOLEAN : execApply(ok) /\ OnlyAcp

\* The authority of one session changes, and it alone is recovered by start
\* handle; the other competes with it for the workspace.
Lively == CHOOSE s \in GSessions : TRUE

GroupSteps ==
    \/ In("group") /\ StoreAccepts(Lively) /\ OnlyGroup
    \/ In("group") /\ Replace(Lively) /\ OnlyGroup
    \/ In("group") /\ Revoke(Lively) /\ OnlyGroup
    \/ In("group") /\ \E x \in Sources : HandleIssued(x) /\ OnlyGroup
    \/ In("group") /\ \E x \in Sources : invalidate(x) /\ OnlyGroup
    \/ In("group") /\ \E s \in GSessions, ok \in BOOLEAN : Admit(s, ok) /\ OnlyGroup
    \/ In("group") /\ \E c \in Callers, s \in GSessions, m \in Recoveries :
          (s = Lively \/ m = [NoMember EXCEPT !.kind = "receipt", !.proof = 1])
          /\ RecoverChecks(c, s, m) /\ OnlyGroup
    \/ In("group") /\ \E c \in Callers, ok \in BOOLEAN : RecoverVerifies(c, ok) /\ OnlyGroup
    \/ In("group") /\ \E c \in Callers : Recover(c) /\ OnlyGroup
    \/ In("group") /\ \E c \in Callers, s \in GSessions : RunMember(c, s) /\ OnlyGroup
    \/ In("group") /\ \E c \in Callers, ok \in BOOLEAN : RunLocked(c, ok) /\ OnlyGroup
    \/ In("group") /\ \E c \in Callers : fenceRecoveredWorker(c) /\ OnlyGroup
    \/ In("group") /\ \E c \in Callers, ok \in BOOLEAN : RunReturns(c, ok) /\ OnlyGroup

Subscribing == part \in {"subscription", "reconnection"}

\* Attention is checked in three parts: what the store keeps and a scan reads of
\* two sessions; one session's updates on their way to a subscriber; and a
\* subscriber that reconnects.
ProjectionSteps ==
    \/ In("projection") /\ \E s \in Members, e \in AppendedEvents : (s = 1 \/ e.type = "ready") /\ AppendEvent(s, e) /\ OnlyAttention
    \/ In("projection") /\ upsertSQLiteAttentionLedger(1) /\ OnlyAttention
    \/ In("projection") /\ Reopen(1) /\ OnlyAttention
    \/ In("projection") /\ BackfillAttentionBatch /\ OnlyAttention
    \/ In("projection") /\ \E owner \in {"run", "refresh"} : StartScan(owner) /\ OnlyAttention
    \/ In("projection") /\ dispatchOnce /\ OnlyAttention
    \/ In("projection") /\ \E s \in Members : PublishActivitySummary(s) /\ OnlyAttention
    \/ In("projection") /\ RequestActivityRefresh /\ OnlyAttention
    \/ In("projection") /\ ScanFails /\ OnlyAttention

SubscriptionSteps ==
    \/ In("subscription") /\ \E e \in AppendedEvents : e.type \in {"ready", "ended"} /\ AppendEvent(1, e) /\ OnlyAttention
    \/ In("subscription") /\ \E allowed \in Grants \cup {{}}, term \in 1..MaxTerm : ChangeGrant(allowed, term) /\ OnlyAttention
    \/ In("subscription") /\ AuthClock /\ OnlyAttention
    \/ In("subscription") /\ Opened = 0 /\ connectAttention /\ OnlyAttention
    \/ In("subscription") /\ \E p \in Links : TimerFires(p) /\ OnlyAttention
    \/ In("subscription") /\ \E p \in Links, g \in 1..MaxAsks : expireAttentionSubscription(p, g) /\ OnlyAttention
    \/ In("subscription") /\ \E c \in Casters, p \in Links, ok \in BOOLEAN : broadcastAttentionUpdateToPeer(c, p, ok) /\ OnlyAttention
    \/ In("subscription") /\ \E c \in Casters : reauthorizeAttentionUpdate(c) /\ OnlyAttention
    \/ In("subscription") /\ \E c \in Casters : writeAttentionUpdate(c) /\ OnlyAttention
    \/ In("subscription") /\ \E c \in Casters : recordAttentionUpdate(c) /\ OnlyAttention
    \/ In("reconnection") /\ connectAttention /\ OnlyAttention
    \/ In("reconnection") /\ switchIdentity /\ OnlyAttention
    \/ In("reconnection") /\ scheduleReconnect /\ OnlyAttention
    \/ Subscribing /\ closeClient /\ OnlyAttention
    \/ Subscribing /\ refresh /\ OnlyAttention
    \/ Subscribing /\ \E p \in Links : handleAttentionSubscribe(p) /\ OnlyAttention
    \/ Subscribing /\ \E p \in Links : registerAttentionSubscription(p) /\ OnlyAttention
    \/ Subscribing /\ \E p \in Links : reauthorizeAttentionSnapshot(p) /\ OnlyAttention
    \/ Subscribing /\ \E p \in Links : writeAttentionSnapshot(p) /\ OnlyAttention
    \/ Subscribing /\ \E p \in Links : unregisterClient(p) /\ OnlyAttention
    \/ Subscribing /\ \E p \in Links : ConnectionDrops(p) /\ OnlyAttention
    \/ Subscribing /\ \E p \in Links : attentionHelloAck(p) /\ OnlyAttention
    \/ Subscribing /\ \E p \in Links : applyAttentionSummary(p) /\ OnlyAttention
    \/ Subscribing /\ \E p \in Links : attentionClosed(p) /\ OnlyAttention

RoutingSteps ==
    \/ In("routing") /\ \E c \in RoutedCmd : preflightCommandRouteLocked(c) /\ OnlyRouting
    \/ In("routing") /\ \E ok \in BOOLEAN : persistCommandEvent(ok) /\ OnlyRouting
    \/ In("routing") /\ routeCommand /\ OnlyRouting
    \/ In("routing") /\ \E result \in WriteResult : routeOrBufferCommand(result) /\ OnlyRouting
    \/ In("routing") /\ bufferCommandLocked /\ OnlyRouting
    \/ In("routing") /\ admitAdapter /\ OnlyRouting
    \/ In("routing") /\ publishAdapterHello /\ OnlyRouting
    \/ In("routing") /\ \E n \in 1..MaxAdapters : unregisterAdapter(n) /\ OnlyRouting
    \/ In("routing") /\ \E n \in 1..MaxAdapters : deliverPendingCommands(n) /\ OnlyRouting
    \/ In("routing") /\ \E result \in WriteResult : deliverNext(result) /\ OnlyRouting
    \/ In("routing") /\ deliverDone /\ OnlyRouting
    \/ In("routing") /\ \E x \in Elsewhere : decideElsewhere(x) /\ OnlyRouting
    \/ In("routing") /\ Lapse /\ OnlyRouting

ProtocolNext ==
    \/ RotationSteps \/ AttachSteps \/ AcpSteps \/ GroupSteps \/ ProjectionSteps \/ SubscriptionSteps
    \/ RoutingSteps

ProtocolSpec == ProtocolInit /\ [][ProtocolNext]_protocolVars

\* The state of the parts a behaviour is not about never changes.
ProtocolView ==
    CASE In("rotation") -> <<part, crVars>>
      [] In("attach")   -> <<part, waVars>>
      [] In("acp")      -> <<part, acpVars>>
      [] In("group")    -> <<part, gsVars>>
      [] InAttention    -> <<part, attVars>>
      [] In("routing")  -> <<part, routingVars>>

\* The types of the variables of the part a behaviour is about.
ProtocolTypeOK ==
    CASE In("rotation") -> CredentialRotationTypeOK
      [] In("attach")   -> WarmAttachTypeOK
      [] In("acp")      -> AcpTypeOK
      [] In("group")    -> GroupTypeOK
      [] InAttention    -> AttentionTypeOK
      [] In("routing")  -> RoutingTypeOK
=============================================================================
