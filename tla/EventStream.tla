----------------------------- MODULE EventStream -----------------------------
(***************************************************************************)
(* The durable event stream of one session: how the Hub numbers events in  *)
(* the store, publishes them to the connected clients, and hands a client  *)
(* over from replay to the live stream.                                    *)
(*                                                                         *)
(* Every publisher is a goroutine of the Hub: a batch of Adapter events,   *)
(* a proposed event, the outcome of a reserved command, a client command.  *)
(* It takes its turn in the session's publication gate, commits in the     *)
(* store, and sends each committed event to every subscriber.  A client    *)
(* connection subscribes first, then replays what the store holds after    *)
(* the client's last_seq while live events pile up in a bounded buffer,    *)
(* then drains that buffer and goes live.                                  *)
(*                                                                         *)
(* Two writers of the log do not take the gate: the recovery of a run      *)
(* control whose delivery failed (handleRunControl) and the fencing of the *)
(* previous writer's commands when an Adapter says hello.  Paths says      *)
(* which of them, and which ways to leave the gate without publishing, an  *)
(* instance includes.                                                      *)
(*                                                                         *)
(* An event is its sequence number; 0 stands for an ephemeral event (one   *)
(* type of them).  Every Viewer is one connection: a client that           *)
(* reconnects is another Viewer, with the last_seq it then sends.  A       *)
(* durable event of a type clients never see (EventTypeAllowed) is not     *)
(* modelled: adapters and commands cannot produce one.                     *)
(***************************************************************************)
EXTENDS Integers, Sequences

CONSTANTS
    Publisher,      \* goroutines that publish
    Viewer,         \* client connections
    MaxSeq,         \* bound on the log
    MaxBatch,       \* events one transaction appends
    MaxBuffered,    \* maxReplayBufferedEvents
    MaxTokens,      \* bound on the gate's queue
    Paths           \* the optional paths: a subset of AllPaths

AllPaths == {"recover", "fence", "afterCommit", "receipt", "file"}

ASSUME StreamAssumption ==
    /\ MaxSeq \in Nat \ {0}
    /\ MaxBatch \in Nat \ {0}
    /\ MaxBuffered \in Nat \ {0}
    /\ MaxTokens \in Nat \ {0}
    /\ Paths \subseteq AllPaths

VARIABLES
    latest,         \* the session's last sequence number in the store
    receipts,       \* sequence numbers of committed proposals
    borrowed,       \* history: other events' numbers that a message was published under
    gate,           \* the chain of tokens of the publication gate
    pub,            \* per publisher
    view,           \* per client connection: its subscriptionState and goroutine
    subscribers     \* h.subscribers of the session

streamVars == <<latest, receipts, borrowed, gate, pub, view, subscribers>>

-----------------------------------------------------------------------------
\* State.

\* What a publisher publishes: the events of a batch or of a client command, the
\* outcome of a reserved command, a proposed event, a recovered run control, a
\* message with file references.
\* Outcomes differ from other appends only in the receipt that may fail.
Kinds ==
    {"append", "proposal"} \cup (IF "receipt" \in Paths THEN {"finalize"} ELSE {})
                           \cup (IF "recover" \in Paths THEN {"recover"} ELSE {})
                           \cup (IF "file" \in Paths THEN {"file"} ELSE {})

IdlePublisher == [pc |-> "idle", kind |-> "append", todo |-> <<>>, targets |-> {}, to |-> {}]

Fresh == [pc |-> "new", replaying |-> TRUE, lastSeq |-> 0, first |-> 0,
          buffered |-> <<>>, ephemeral |-> 0, todo |-> <<>>, sent |-> <<>>]

\* Nothing that a closed connection still holds reaches its client.
Closed == [Fresh EXCEPT !.pc = "closed", !.replaying = FALSE]

StreamInit ==
    /\ latest \in 0..1
    /\ receipts = {}
    /\ borrowed = {}
    /\ gate = <<>>
    /\ pub = [p \in Publisher |-> IdlePublisher]
    /\ view = [c \in Viewer |-> Fresh]
    /\ subscribers = {}

RoomFor(n) == latest + n <= MaxSeq

-----------------------------------------------------------------------------
(***************************************************************************)
(* The publication gate.  Each caller leaves a token at the tail and waits *)
(* for the token before its own to close.  A caller whose context ends     *)
(* first leaves a goroutine behind that waits in its place and only then   *)
(* closes the token ("relay").                                             *)
(***************************************************************************)

Turn(i) == \A j \in DOMAIN gate : j = i - 1 => gate[j].state = "closed"

Forget(g) ==
    LET open == {i \in DOMAIN g : g[i].state # "closed"}
    IN  IF open = {} THEN <<>>
        ELSE SubSeq(g, CHOOSE i \in open : \A j \in open : i <= j, Len(g))

Close(g, i) == Forget([g EXCEPT ![i].state = "closed"])

MyToken(p) == CHOOSE i \in DOMAIN gate : gate[i].owner = p /\ gate[i].state = "open"

Holds(p) == Turn(MyToken(p))

\* The publisher's function returns: the deferred release closes its token.
Leaves(p) ==
    /\ pub' = [pub EXCEPT ![p] = IdlePublisher]
    /\ gate' = IF pub[p].kind = "recover" THEN gate ELSE Close(gate, MyToken(p))

\* p went through the gate and is between its commit and the end of its fan-out.
Publishing(p) == pub[p].pc \notin {"idle", "wait"} /\ pub[p].kind # "recover"

Acquire(p, kind) ==
    /\ pub[p].pc = "idle" /\ Len(gate) < MaxTokens
    /\ gate' = Append(gate, [owner |-> p, state |-> "open"])
    /\ pub' = [pub EXCEPT ![p].pc = "wait", ![p].kind = kind]
    /\ UNCHANGED <<latest, receipts, borrowed, view, subscribers>>

\* Mutant: a caller that gives up waiting closes its token.
closeAtOnce(p) ==
    gate' = Close(gate, MyToken(p))

relayToken(p) ==
    gate' = [gate EXCEPT ![MyToken(p)].state = "relay"]

CancelWait(p) ==
    /\ pub[p].pc = "wait" /\ ~Holds(p)
    /\ relayToken(p)
    /\ pub' = [pub EXCEPT ![p] = IdlePublisher]
    /\ UNCHANGED <<latest, receipts, borrowed, view, subscribers>>

Relay ==
    /\ \E i \in DOMAIN gate :
          /\ gate[i].state = "relay" /\ Turn(i)
          /\ gate' = Close(gate, i)
    /\ UNCHANGED <<latest, receipts, borrowed, pub, view, subscribers>>

-----------------------------------------------------------------------------
(***************************************************************************)
(* The commits.  Every transaction of the store numbers its events from    *)
(* MAX(seq) + 1, so together they are one contiguous sequence.             *)
(***************************************************************************)

Numbers(n) == [i \in 1..n |-> latest + i]

\* The events of a batch, of a client command, or of the outcome of a reserved
\* command; they are published once the transaction has committed.
AppendEvents(p) ==
    /\ pub[p].pc = "wait" /\ pub[p].kind \in {"append", "finalize"} /\ Holds(p)
    /\ \E n \in 1..MaxBatch :
          /\ RoomFor(n)
          /\ latest' = latest + n
          /\ pub' = [pub EXCEPT ![p].todo = Numbers(n),
                               ![p].pc = IF pub[p].kind = "finalize" THEN "receipt" ELSE "publish"]
    /\ UNCHANGED <<receipts, borrowed, gate, view, subscribers>>

\* A proposal is committed once: a retry finds the receipt of the first commit
\* and publishes that event again, under its old number.
CommitProposal(p) ==
    /\ pub[p].pc = "wait" /\ pub[p].kind = "proposal" /\ Holds(p)
    /\ \/ /\ RoomFor(1)
          /\ latest' = latest + 1
          /\ receipts' = receipts \cup {latest + 1}
          /\ pub' = [pub EXCEPT ![p].pc = "after", ![p].todo = Numbers(1)]
       \/ \E seq \in receipts :
             /\ pub' = [pub EXCEPT ![p].pc = "after", ![p].todo = <<seq>>]
             /\ UNCHANGED <<latest, receipts>>
    /\ UNCHANGED <<borrowed, gate, view, subscribers>>

\* The message of a client that references files.
CommitFileMessage(p) ==
    /\ pub[p].pc = "wait" /\ pub[p].kind = "file" /\ Holds(p)
    /\ RoomFor(1)
    /\ latest' = latest + 1
    /\ pub' = [pub EXCEPT ![p].pc = "after", ![p].todo = Numbers(1)]
    /\ UNCHANGED <<receipts, borrowed, gate, view, subscribers>>

\* Its number is not the transaction's: handleFileReferenceSend binds the command to the
\* Adapter and then asks the store for the last number, which by then may be that of an
\* event appended around the gate.
ReadLatestSeq(p) ==
    /\ pub[p].pc = "after" /\ pub[p].kind = "file"
    /\ pub' = [pub EXCEPT ![p].pc = "publish", ![p].todo = <<latest>>]
    /\ borrowed' = borrowed \cup ({latest} \ {Head(pub[p].todo)})
    /\ UNCHANGED <<latest, receipts, gate, view, subscribers>>

\* The store refuses, or the Adapter has lost its authority.
CommitFails(p) ==
    /\ pub[p].pc = "wait" /\ Holds(p)
    /\ Leaves(p)
    /\ UNCHANGED <<latest, receipts, borrowed, view, subscribers>>

\* afterCommit of a capability proposal may recover a pending command, whose
\* terminal event is published behind the proposal.
AfterCommit(p) ==
    /\ pub[p].pc = "after" /\ pub[p].kind = "proposal"
    /\ \E n \in 0..1 :
          /\ RoomFor(n)
          /\ latest' = latest + n
          /\ pub' = [pub EXCEPT ![p].pc = "publish", ![p].todo = @ \o Numbers(n)]
    /\ UNCHANGED <<receipts, borrowed, gate, view, subscribers>>

\* Or it fails, as the steps behind the commit of a file message may.
AfterCommitFails(p) ==
    /\ "afterCommit" \in Paths
    /\ pub[p].pc = "after"
    /\ Leaves(p)
    /\ UNCHANGED <<latest, receipts, borrowed, view, subscribers>>

WriteReceipt(p) ==
    /\ pub[p].pc = "receipt"
    /\ pub' = [pub EXCEPT ![p].pc = "publish"]
    /\ UNCHANGED <<latest, receipts, borrowed, gate, view, subscribers>>

\* The Adapter's receipt cannot be written: the finalizers return before they
\* publish what they have committed.
ReceiptFails(p) ==
    /\ pub[p].pc = "receipt"
    /\ Leaves(p)
    /\ UNCHANGED <<latest, receipts, borrowed, view, subscribers>>

\* A run control whose delivery failed is recovered outside the gate.  One run
\* control is pending at a time; one recovery is in progress at a time here.
PublishRecovered(p) ==
    /\ "recover" \in Paths
    /\ \A q \in Publisher : pub[q].kind # "recover"
    /\ pub[p].pc = "idle" /\ RoomFor(1)
    /\ latest' = latest + 1
    /\ pub' = [pub EXCEPT ![p] = [IdlePublisher EXCEPT !.pc = "publish", !.kind = "recover",
                                              !.todo = Numbers(1)]]
    /\ UNCHANGED <<receipts, borrowed, gate, view, subscribers>>

\* An Adapter's hello ends the run controls and file references its predecessor
\* left pending; the transaction of the hello appends their outcomes.
FenceCommands ==
    /\ "fence" \in Paths
    /\ RoomFor(1)
    /\ latest' = latest + 1
    /\ UNCHANGED <<receipts, borrowed, gate, pub, view, subscribers>>

-----------------------------------------------------------------------------
(***************************************************************************)
(* broadcastEvent: the targets are sampled once per event and served one   *)
(* after the other.                                                        *)
(***************************************************************************)

Broadcast(p) ==
    /\ pub[p].pc = "publish" /\ pub[p].todo # <<>>
    /\ pub' = [pub EXCEPT ![p].pc = "fan", ![p].targets = subscribers]
    /\ UNCHANGED <<latest, receipts, borrowed, gate, view, subscribers>>

HasPublished(p) ==
    /\ pub[p].pc = "fan" /\ pub[p].targets = {}
    /\ pub' = [pub EXCEPT ![p].pc = "publish", ![p].todo = Tail(@)]
    /\ UNCHANGED <<latest, receipts, borrowed, gate, view, subscribers>>

Release(p) ==
    /\ pub[p].pc = "publish" /\ pub[p].todo = <<>>
    /\ Leaves(p)
    /\ UNCHANGED <<latest, receipts, borrowed, view, subscribers>>

\* A connection whose delivery fails is unsubscribed and closed.
DropViewer(c) ==
    /\ view' = [view EXCEPT ![c] = Closed]
    /\ subscribers' = subscribers \ {c}

\* What sendLiveEvent does to a replaying subscription: durable events queue up,
\* an ephemeral event replaces the one of its type that is already queued.
Buffer(st, seq) ==
    IF seq = 0 /\ st.ephemeral # 0
    THEN [st EXCEPT !.buffered[st.ephemeral] = 0]
    ELSE [st EXCEPT !.buffered = Append(@, seq),
                    !.ephemeral = IF seq = 0 THEN Len(st.buffered) + 1 ELSE @]

Overflows(st, seq) == ~(seq = 0 /\ st.ephemeral # 0) /\ Len(st.buffered) >= MaxBuffered

markSent(st, seq) ==
    [st EXCEPT !.lastSeq = IF seq > @ THEN seq ELSE @]

\* writeFrame; an ephemeral event leaves no trace in the durable stream.
WriteSeq(st, seq) ==
    IF seq = 0 THEN st ELSE [st EXCEPT !.sent = Append(@, seq)]

sendWhileReplaying(c, seq) ==
    IF Overflows(view[c], seq) THEN DropViewer(c)
    ELSE view' = [view EXCEPT ![c] = Buffer(@, seq)] /\ UNCHANGED subscribers

\* sendLiveEvent up to its unlock: the event is buffered, dropped as already
\* sent, or about to be written.
SendLive(p, c) ==
    /\ pub[p].pc = "fan" /\ c \in pub[p].targets
    /\ LET written == ~view[c].replaying /\ Head(pub[p].todo) > view[c].lastSeq
       IN  pub' = [pub EXCEPT ![p].targets = @ \ {c},
                              ![p].pc = IF written THEN "write" ELSE "fan",
                              ![p].to = IF written THEN {c} ELSE {}]
    /\ IF view[c].replaying THEN sendWhileReplaying(c, Head(pub[p].todo))
       ELSE UNCHANGED <<view, subscribers>>
    /\ UNCHANGED <<latest, receipts, borrowed, gate>>

\* The write succeeds, or the client is slow or gone and its connection is closed.
WriteLive(p) ==
    /\ pub[p].pc = "write"
    /\ \E c \in pub[p].to :
          \/ /\ view[c].pc # "closed"
             /\ view' = [view EXCEPT ![c] = WriteSeq(@, Head(pub[p].todo))]
             /\ pub' = [pub EXCEPT ![p].pc = "mark"]
             /\ UNCHANGED subscribers
          \/ /\ DropViewer(c)
             /\ pub' = [pub EXCEPT ![p].pc = "fan", ![p].to = {}]
    /\ UNCHANGED <<latest, receipts, borrowed, gate>>

MarkLive(p) ==
    /\ pub[p].pc = "mark"
    /\ \E c \in pub[p].to : view' = [view EXCEPT ![c] = markSent(@, Head(pub[p].todo))]
    /\ pub' = [pub EXCEPT ![p].pc = "fan", ![p].to = {}]
    /\ UNCHANGED <<latest, receipts, borrowed, gate, subscribers>>

\* An ephemeral event is broadcast without the gate and without a number; only
\* its effect on a replaying subscription's buffer is of interest here.
EmitEphemeral(c) ==
    /\ c \in subscribers /\ view[c].replaying
    /\ sendWhileReplaying(c, 0)
    /\ UNCHANGED <<latest, receipts, borrowed, gate, pub>>

-----------------------------------------------------------------------------
(***************************************************************************)
(* The client's connection: ServeHTTP registers it, replays, drains the    *)
(* buffer and goes live.                                                   *)
(***************************************************************************)

\* The client's hello with its last_seq, or with skip_replay, where the Hub
\* samples the latest number itself once the client is registered.
RegisterPeer(c) ==
    /\ view[c].pc = "new"
    /\ \E n \in 0..latest, next \in {"replay", "tail"} :
          view' = [view EXCEPT ![c].pc = next, ![c].lastSeq = n, ![c].first = n]
    /\ subscribers' = subscribers \cup {c}
    /\ UNCHANGED <<latest, receipts, borrowed, gate, pub>>

\* The bootstrap that follows sends control state the client asks for outside
\* the stream; it leaves lastSeq alone, since all of it is older.
PrepareTailBootstrap(c) ==
    /\ view[c].pc = "tail"
    /\ view' = [view EXCEPT ![c].pc = "finish", ![c].lastSeq = latest, ![c].first = latest]
    /\ UNCHANGED <<latest, receipts, borrowed, gate, pub, subscribers>>

replaysFrom(st) == [i \in 1..(latest - st.first) |-> st.first + i]

writeRow(st) ==
    [markSent(WriteSeq(st, Head(st.todo)), Head(st.todo)) EXCEPT !.todo = Tail(st.todo)]

\* The replay query fixes its rows; they are written one by one.
Replay(c) ==
    /\ view[c].pc = "replay"
    /\ view' = [view EXCEPT ![c].pc = "rows", ![c].todo = replaysFrom(view[c])]
    /\ UNCHANGED <<latest, receipts, borrowed, gate, pub, subscribers>>

WriteReplayEvent(c) ==
    /\ view[c].pc = "rows"
    /\ view' = [view EXCEPT ![c] = IF view[c].todo = <<>> THEN [view[c] EXCEPT !.pc = "finish"]
                                   ELSE writeRow(view[c])]
    /\ UNCHANGED <<latest, receipts, borrowed, gate, pub, subscribers>>

\* Mutant: the index of the queued ephemeral event is not reset.
takeKeepingIndex(st) ==
    [st EXCEPT !.todo = st.buffered, !.buffered = <<>>]

takeBuffered(st) ==
    [st EXCEPT !.todo = st.buffered, !.buffered = <<>>, !.ephemeral = 0]

\* Mutant: what was buffered while the buffer was written is left behind.
goLiveAfterOneRound(st) ==
    [st EXCEPT !.replaying = FALSE,
               !.pc = IF st.buffered = <<>> THEN "live" ELSE "finish",
               !.todo = st.buffered, !.buffered = <<>>, !.ephemeral = 0]

\* One round of finishReplay: take the buffer, or go live when it is empty.
finishRound(st) ==
    IF st.buffered = <<>> THEN [st EXCEPT !.replaying = FALSE, !.pc = "live", !.ephemeral = 0]
    ELSE takeBuffered(st)

FinishReplay(c) ==
    /\ view[c].pc = "finish" /\ view[c].todo = <<>>
    /\ view' = [view EXCEPT ![c] = finishRound(@)]
    /\ UNCHANGED <<latest, receipts, borrowed, gate, pub, subscribers>>

\* Mutant: events are not compared with the last one sent.
neverSentYet(st, seq) == FALSE

alreadySent(st, seq) == seq # 0 /\ seq <= st.lastSeq

WriteBufferedEvent(c) ==
    /\ view[c].pc = "finish" /\ view[c].todo # <<>>
    /\ LET seq == Head(view[c].todo)
           st == [view[c] EXCEPT !.todo = Tail(@)]
       IN  view' = [view EXCEPT ![c] =
               IF alreadySent(st, seq) THEN st ELSE markSent(WriteSeq(st, seq), seq)]
    /\ UNCHANGED <<latest, receipts, borrowed, gate, pub, subscribers>>

\* The socket dies under the connection; its goroutine unsubscribes it later.
SocketDies(c) ==
    /\ view[c].pc \notin {"new", "closed"}
    /\ view' = [view EXCEPT ![c] = Closed]
    /\ UNCHANGED <<latest, receipts, borrowed, gate, pub, subscribers>>

UnregisterClient(c) ==
    /\ view[c].pc = "closed" /\ c \in subscribers
    /\ subscribers' = subscribers \ {c}
    /\ UNCHANGED <<latest, receipts, borrowed, gate, pub, view>>

-----------------------------------------------------------------------------
PublishStep(p) ==
    \/ \E kind \in Kinds \ {"recover"} : Acquire(p, kind)
    \/ CancelWait(p)
    \/ AppendEvents(p)
    \/ CommitProposal(p)
    \/ CommitFileMessage(p)
    \/ ReadLatestSeq(p)
    \/ CommitFails(p)
    \/ AfterCommit(p)
    \/ AfterCommitFails(p)
    \/ ReceiptFails(p)
    \/ PublishRecovered(p)

FanOut(p) ==
    \/ WriteReceipt(p)
    \/ Broadcast(p)
    \/ HasPublished(p)
    \/ Release(p)
    \/ \E c \in Viewer : SendLive(p, c)
    \/ WriteLive(p)
    \/ MarkLive(p)

Serve(c) ==
    \/ PrepareTailBootstrap(c)
    \/ Replay(c)
    \/ WriteReplayEvent(c)
    \/ FinishReplay(c)
    \/ WriteBufferedEvent(c)
    \/ UnregisterClient(c)

StreamNext ==
    \/ \E p \in Publisher : PublishStep(p) \/ FanOut(p)
    \/ Relay
    \/ FenceCommands
    \/ \E c \in Viewer : Serve(c) \/ RegisterPeer(c) \/ EmitEphemeral(c) \/ SocketDies(c)

StreamSpec == StreamInit /\ [][StreamNext]_streamVars

(***************************************************************************)
(* Fairness.  A goroutine that holds the gate, relays a token or serves a  *)
(* connection does not stop: its store calls and writes have deadlines.    *)
(***************************************************************************)
Commit(p) ==
    \/ AppendEvents(p)
    \/ CommitProposal(p) \/ AfterCommit(p)
    \/ CommitFileMessage(p) \/ ReadLatestSeq(p)
    \/ CommitFails(p)

-----------------------------------------------------------------------------
(***************************************************************************)
(* Properties.                                                             *)
(***************************************************************************)

\* The types of the state, the bound of the replay buffer (no subscription ever
\* holds more than maxReplayBufferedEvents), and the index of the queued
\* ephemeral event, which always points at one.
StreamTypeOK ==
    /\ latest \in 0..MaxSeq
    /\ receipts \subseteq 1..latest
    /\ \A i \in DOMAIN gate : gate[i].owner \in Publisher
                              /\ gate[i].state \in {"open", "relay", "closed"}
    /\ \A p \in Publisher :
          /\ pub[p].pc \in {"idle", "wait", "after", "receipt", "publish", "fan", "write", "mark"}
          /\ pub[p].kind \in Kinds
          /\ pub[p].targets \subseteq Viewer /\ pub[p].to \subseteq Viewer
          /\ \A i \in DOMAIN pub[p].todo : pub[p].todo[i] \in 1..latest
    /\ \A c \in Viewer :
          /\ view[c].pc \in {"new", "tail", "replay", "rows", "finish", "live", "closed"}
          /\ view[c].replaying \in BOOLEAN
          /\ view[c].lastSeq \in 0..latest /\ view[c].first \in 0..latest
          /\ Len(view[c].buffered) <= MaxBuffered
          /\ view[c].ephemeral # 0 =>
                /\ view[c].ephemeral \in DOMAIN view[c].buffered
                /\ view[c].buffered[view[c].ephemeral] = 0
    /\ subscribers \subseteq Viewer

\* R5: "Replay returns all durable events in (last_seq, latest_seq] ordered by
\* seq, then continues with the live stream without gaps or duplicates": the
\* durable events on a client's socket are exactly the ones behind its last_seq,
\* in order, wherever it is in replayAccepted, finishReplay or the live stream.
Contiguous ==
    \A c \in Viewer : \A i \in DOMAIN view[c].sent : view[c].sent[i] = view[c].first + i

\* The hand-over loses nothing at its end either: a live client whose session no
\* goroutine is publishing to has been sent every event of the log.  An event
\* that finishReplay or broadcastEvent dropped would still be missing here.
CaughtUp ==
    \A c \in subscribers :
        (view[c].pc = "live" /\ \A p \in Publisher : pub[p].pc \in {"idle", "wait"})
            => Len(view[c].sent) = latest - view[c].first

\* The publication gate: of the goroutines that take it, at most one is between
\* its commit and the end of its fan-out, whoever gave up waiting in between.
OnePublisher ==
    \A p, q \in Publisher : Publishing(p) /\ Publishing(q) => p = q

\* No durable event is written twice to one connection, whatever the order in
\* which the events reach it: the retry of a proposal, which publishes its event
\* again, and the overlap of replay and live stream are both filtered.  The one
\* exception is a number a file message was published under that is another
\* event's: two goroutines then publish it.
NoDuplicates ==
    \A c \in Viewer : \A i, j \in DOMAIN view[c].sent :
        view[c].sent[i] = view[c].sent[j] => i = j \/ view[c].sent[i] \in borrowed

\* R2: what a client has been sent is in the log, and its subscription never
\* counts past it.  A client never sees a number its next replay cannot return.
DurableBeforeSeen ==
    /\ \A c \in Viewer : \A i \in DOMAIN view[c].sent : view[c].sent[i] <= latest
    /\ \A c \in Viewer : view[c].lastSeq <= latest

\* What a client has been sent are numbers of the log, each once but for those a
\* file message borrowed, on every path that publishes, those around the gate
\* included (broadcastEvent, sendLive, handleFileReferenceSend).
SentFromLog == NoDuplicates /\ DurableBeforeSeen

=============================================================================
