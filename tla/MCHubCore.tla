----------------------------- MODULE MCHubCore ------------------------------
(***************************************************************************)
(* The delivery of commands and the event stream, without and with the     *)
(* ways around the publication gate, and the gate alone, each checked on   *)
(* its own: `part' says which of them a behaviour is about.                *)
(***************************************************************************)
EXTENDS CommandDelivery, EventStream, TLC

VARIABLE part

hubCoreVars == <<part, vars, streamVars>>

HubInit ==
    /\ part \in {"delivery", "stream", "paths", "gate"}
    /\ Init /\ StreamInit
    /\ part # "delivery" => ~required
    /\ part = "delivery" => latest = 0

In(p) == part = p

InStream == part \in {"stream", "paths"}

InGate == part \in {"stream", "paths", "gate"}

OnlyDelivery == UNCHANGED <<part, streamVars>>

\* The ways around the gate are taken on a shorter log; the gate's longest queue
\* is reached without a client.
OnlyStream ==
    /\ part # "gate" => Len(gate') <= 2
    /\ part = "paths" => latest' <= 2 /\ latest' <= latest + 1
    /\ UNCHANGED <<part, vars>>

DeliverySteps ==
    \/ In("delivery") /\ \E h \in Handler, c \in Command : BeginSend(h, c) /\ OnlyDelivery
    \/ In("delivery") /\ \E h \in Handler : CommitNew(h) /\ OnlyDelivery
    \/ In("delivery") /\ \E h \in Handler : CommitRefused(h) /\ OnlyDelivery
    \/ In("delivery") /\ \E h \in Handler : SendClaims(h) /\ OnlyDelivery
    \/ In("delivery") /\ \E h \in Handler : SendClaimFails(h) /\ OnlyDelivery
    \/ In("delivery") /\ \E h \in Handler : SendAddsClient(h) /\ OnlyDelivery
    \/ In("delivery") /\ \E h \in Handler : SendWrites(h) /\ OnlyDelivery
    \/ In("delivery") /\ \E h \in Handler : SendWriteFails(h) /\ OnlyDelivery
    \/ In("delivery") /\ \E a \in Adapter : Reconnect(a) /\ OnlyDelivery
    \/ In("delivery") /\ \E a \in Adapter : Admit(a) /\ OnlyDelivery
    \/ In("delivery") /\ \E a \in Adapter : Publish(a) /\ OnlyDelivery
    \/ In("delivery") /\ \E a \in Adapter : ListCommands(a) /\ OnlyDelivery
    \/ In("delivery") /\ \E a \in Adapter : NextCommand(a) /\ OnlyDelivery
    \/ In("delivery") /\ \E a \in Adapter : GiveUpReceived(a) /\ OnlyDelivery
    \/ In("delivery") /\ \E a \in Adapter : DeliveryFails(a) /\ OnlyDelivery
    \/ In("delivery") /\ \E a \in Adapter : LoopAddsClient(a) /\ OnlyDelivery
    \/ In("delivery") /\ \E a \in Adapter : LoopWrites(a) /\ OnlyDelivery
    \/ In("delivery") /\ \E a \in Adapter : LoopWriteFails(a) /\ OnlyDelivery
    \/ In("delivery") /\ \E a \in Adapter : ResolveAck(a) /\ OnlyDelivery
    \/ In("delivery") /\ \E a \in Adapter : Read(a) /\ OnlyDelivery
    \/ In("delivery") /\ \E a \in Adapter : Disconnect(a) /\ OnlyDelivery
    \/ In("delivery") /\ \E a \in Adapter : RejectAdapter(a) /\ OnlyDelivery
    \/ In("delivery") /\ \E a \in Adapter : rejectPendingCommandDeliveries(a) /\ OnlyDelivery
    \/ In("delivery") /\ \E a \in Adapter, c \in Command, s \in AckStatus : Acknowledge(a, c, s) /\ OnlyDelivery
    \/ In("delivery") /\ \E c \in Command : expirePendingCommandClient(c) /\ OnlyDelivery
    \/ In("delivery") /\ \E c \in Command : Expire(c) /\ OnlyDelivery
    \/ In("delivery") /\ \E r \in resolving : ResolveUnknown(r) /\ OnlyDelivery
    \/ In("delivery") /\ LoseAuthority /\ OnlyDelivery
    \/ In("delivery") /\ Evict /\ OnlyDelivery
    \/ In("delivery") /\ Crash /\ OnlyDelivery

StreamSteps ==
    \/ InGate /\ \E p \in Publisher : CancelWait(p) /\ OnlyStream
    \/ InGate /\ \E p \in Publisher : AppendEvents(p) /\ OnlyStream
    \/ InGate /\ \E p \in Publisher : CommitProposal(p) /\ OnlyStream
    \/ InStream /\ \E p \in Publisher : CommitFileMessage(p) /\ OnlyStream
    \/ InStream /\ \E p \in Publisher : ReadLatestSeq(p) /\ OnlyStream
    \/ InGate /\ \E p \in Publisher : CommitFails(p) /\ OnlyStream
    \/ InGate /\ \E p \in Publisher : AfterCommit(p) /\ OnlyStream
    \/ InGate /\ \E p \in Publisher : WriteReceipt(p) /\ OnlyStream
    \/ InGate /\ \E p \in Publisher : Broadcast(p) /\ OnlyStream
    \/ InGate /\ \E p \in Publisher : HasPublished(p) /\ OnlyStream
    \/ InGate /\ \E p \in Publisher : Release(p) /\ OnlyStream
    \/ InGate /\ \E p \in Publisher : WriteLive(p) /\ OnlyStream
    \/ InGate /\ \E p \in Publisher : MarkLive(p) /\ OnlyStream
    \/ InStream /\ \E p \in Publisher, c \in Viewer : SendLive(p, c) /\ OnlyStream
    \/ InGate /\ Relay /\ OnlyStream
    \/ InStream /\ \E c \in Viewer : PrepareTailBootstrap(c) /\ OnlyStream
    \/ InStream /\ \E c \in Viewer : Replay(c) /\ OnlyStream
    \/ InStream /\ \E c \in Viewer : WriteReplayEvent(c) /\ OnlyStream
    \/ InStream /\ \E c \in Viewer : FinishReplay(c) /\ OnlyStream
    \/ InStream /\ \E c \in Viewer : WriteBufferedEvent(c) /\ OnlyStream
    \/ InStream /\ \E c \in Viewer : UnregisterClient(c) /\ OnlyStream
    \/ InStream /\ \E c \in Viewer : RegisterPeer(c) /\ OnlyStream
    \/ InStream /\ \E c \in Viewer : SocketDies(c) /\ OnlyStream
    \/ In("stream") /\ latest <= 1 /\ \E c \in Viewer : EmitEphemeral(c) /\ OnlyStream
    \/ In("gate") /\ \E p \in Publisher, k \in {"append", "proposal"} : Acquire(p, k) /\ OnlyStream
    \/ In("stream") /\ \E p \in Publisher, k \in {"append", "proposal", "file"} : Acquire(p, k) /\ OnlyStream
    \/ In("paths") /\ \E p \in Publisher, k \in Kinds \ {"recover"} : Acquire(p, k) /\ OnlyStream
    \/ In("paths") /\ \E p \in Publisher : AfterCommitFails(p) /\ OnlyStream
    \/ In("paths") /\ \E p \in Publisher : ReceiptFails(p) /\ OnlyStream
    \/ In("paths") /\ \E p \in Publisher : PublishRecovered(p) /\ OnlyStream
    \/ In("paths") /\ FenceCommands /\ OnlyStream

HubNext == DeliverySteps \/ StreamSteps

HubSpec == HubInit /\ [][HubNext]_hubCoreVars

\* The connections are interchangeable, and so are the goroutines: the handlers
\* of the delivery, the publishers of the stream.
HubSymmetry == Permutations(Adapter) \cup Permutations(Handler)

\* The state of the part a behaviour is not about never changes.
HubView == IF In("delivery") THEN <<part, vars>> ELSE <<part, streamVars>>

\* The types of the variables of the part a behaviour is about.
HubTypeOK == IF In("delivery") THEN TypeOK ELSE StreamTypeOK

\* Where every event is published under the gate, what a client has been sent is
\* the log from where it began, in order and with nothing left out, and once it
\* is live that is everything the gate has let go (replay, finishReplay,
\* broadcastEvent, publicationGate).
GatedReplay == In("stream") => Contiguous /\ CaughtUp
=============================================================================
