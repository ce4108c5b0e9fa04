--------------------------- MODULE ProviderOutput ---------------------------
(***************************************************************************)
(* What the Provider says, on its way from the Adapter to the Hub's log.   *)
(*                                                                         *)
(* The loop that scans the Provider's output pushes every event into the   *)
(* coalescer, which folds consecutive text into one message; a timer       *)
(* flushes text the Provider leaves lying.  Flushed events are written on  *)
(* the replaceable Hub connection: each gets a proposal id and is tracked  *)
(* until the Hub's receipt for it is read.  The goroutine that reads       *)
(* frames and the one that writes both replace a dead connection, and the  *)
(* one that does sends the tracked proposals again.                        *)
(*                                                                         *)
(* An item is one event of the Provider, numbered in the order it is       *)
(* scanned; a proposal is an id and the items merged into it, with the     *)
(* connection dialled last when it was drawn, and in the log also the one  *)
(* it came on.  A snapshot of capabilities, proposed afresh on every       *)
(* reconnect, has no items.                                                *)
(* Events the Hub never stores (isCLIEventEphemeral) are not tracked and   *)
(* are left out, and so are the other writers of the connection: their     *)
(* frames carry no proposal.                                               *)
(***************************************************************************)
EXTENDS Integers, Sequences, SequencesExt, FiniteSets

CONSTANTS
    NItems,         \* bound on the Provider's events
    MaxBytes,       \* providerMessageCoalesceBytes, in items
    MaxPending,     \* maxPendingHubProposals
    MaxLinks        \* bound on the connections dialled

ASSUME ProviderOutputAssumption ==
    /\ NItems \in Nat /\ MaxBytes \in Nat \ {0}
    /\ MaxPending \in Nat \ {0} /\ MaxLinks \in Nat \ {0}

VARIABLES
    scanned,        \* items scanned so far
    coalescer,      \* pending text, its timer, timer goroutines that fired, mu
    writer,         \* per goroutine that writes events, and the reader
    tracked,        \* c.pending in pendingOrder
    ids,            \* proposal ids drawn
    link,           \* c.conn and the socket behind it
    reconnectMu,    \* the goroutine that is reconnecting
    log,            \* the session's log in the store: proposals
    dropped         \* items a failed send dropped

poVars == <<scanned, coalescer, writer, tracked, ids, link, reconnectMu, log, dropped>>

\* stream is the scan loop, timer the goroutine of an expired timer, reader the
\* loop that reads the Hub's frames.
Goroutines == {"stream", "timer", "reader"}

Quiet == [pc |-> "idle", todo |-> <<>>, then |-> 0, failed |-> 0, frame |-> <<>>,
          replay |-> <<>>, last |-> FALSE]

Items(ps) == UNION {ToSet(p.items) : p \in ToSet(ps)}

ProviderOutputInit ==
    /\ scanned = 0
    /\ coalescer = [text |-> <<>>, timer |-> "off", fired |-> 0, mu |-> "free"]
    /\ writer = [t \in Goroutines |-> Quiet]
    /\ tracked = <<>> /\ ids = 0
    /\ link = [conn |-> 1, dialled |-> 1, alive |-> TRUE, frames |-> <<>>, receipts |-> <<>>]
    /\ reconnectMu = "free"
    /\ log = <<>> /\ dropped = {}

Over == writer["reader"].pc = "failed"

-----------------------------------------------------------------------------
\* The coalescer.

unlock(c) == [c EXCEPT !.mu = "free"]

\* armTimerLocked, with the new text in place.
armed(c, text) == [c EXCEPT !.text = text, !.timer = "armed"]

\* flushLocked takes the text before it sends it.
taken(c) == [c EXCEPT !.text = <<>>, !.timer = "off"]

flushed(c) == IF c.text = <<>> THEN <<>> ELSE <<c.text>>

\* Goroutine t sends the payloads in order, then keeps item n as pending text
\* (0: nothing is kept).
Sends(t, payloads, n) ==
    /\ coalescer' = [taken(coalescer) EXCEPT !.mu = t]
    /\ writer' = [writer EXCEPT ![t] = [Quiet EXCEPT !.pc = "next", !.todo = payloads,
                                                     !.then = n, !.last = writer[t].last]]

\* An event that cannot be merged: the pending text goes first.
pushOther == Sends("stream", Append(flushed(coalescer), <<scanned + 1>>), 0)

\* mergeCoalescedMessage: the same message, within the window and the size.
pushMerged ==
    /\ coalescer' = armed(coalescer, Append(coalescer.text, scanned + 1))
    /\ UNCHANGED writer

\* The first text after a flush: kept, or sent at once when it is large.
pushFirst(large) ==
    IF large THEN Sends("stream", <<<<scanned + 1>>>>, 0)
    ELSE coalescer' = armed(coalescer, <<scanned + 1>>) /\ UNCHANGED writer

\* Text of another message, too much of it, or after the window: what is pending
\* goes first.
pushNext(large) ==
    IF large THEN Sends("stream", <<coalescer.text, <<scanned + 1>>>>, 0)
    ELSE Sends("stream", <<coalescer.text>>, scanned + 1)

\* One event of the Provider; other says that it is not text to merge.
Push(other, large) ==
    /\ writer["stream"].pc = "idle" /\ coalescer.mu = "free" /\ ~Over
    /\ scanned < NItems
    /\ scanned' = scanned + 1
    /\ \/ other /\ ~large /\ pushOther
       \/ ~other /\ coalescer.text = <<>> /\ pushFirst(large)
       \/ ~other /\ coalescer.text # <<>> /\ pushNext(large)
       \/ ~other /\ ~large /\ Len(coalescer.text) \in 1..(MaxBytes - 1) /\ pushMerged
    /\ UNCHANGED <<tracked, ids, link, reconnectMu, log, dropped>>

\* The Provider's output ends: the tail is flushed, then the mapper's final
\* events are sent past the coalescer.  When the scan failed, an error of the
\* flush is ignored.
OutputEnds(final) ==
    /\ writer["stream"].pc = "idle" /\ coalescer.mu = "free" /\ ~Over
    /\ final => scanned < NItems
    /\ scanned' = IF final THEN scanned + 1 ELSE scanned
    /\ coalescer' = [taken(coalescer) EXCEPT !.mu = "stream"]
    /\ writer' = [writer EXCEPT !["stream"] =
           [Quiet EXCEPT !.pc = "next", !.last = TRUE,
                         !.todo = flushed(coalescer) \o (IF final THEN <<<<scanned + 1>>>> ELSE <<>>)]]
    /\ UNCHANGED <<tracked, ids, link, reconnectMu, log, dropped>>

\* The timer expires; its goroutine waits for mu.  Stopping the timer no longer
\* stops that goroutine.
TimerExpires ==
    /\ coalescer.timer = "armed"
    /\ coalescer' = [coalescer EXCEPT !.timer = "off", !.fired = @ + 1]
    /\ UNCHANGED <<scanned, writer, tracked, ids, link, reconnectMu, log, dropped>>

\* It flushes what is pending by then, which may be a later message.
TimerFlush ==
    /\ coalescer.fired > 0 /\ coalescer.mu = "free" /\ writer["timer"].pc = "idle" /\ ~Over
    /\ IF coalescer.text = <<>>
       THEN coalescer' = [coalescer EXCEPT !.fired = @ - 1] /\ UNCHANGED writer
       ELSE /\ coalescer' = [taken(coalescer) EXCEPT !.fired = @ - 1, !.mu = "timer"]
            /\ writer' = [writer EXCEPT !["timer"] = [Quiet EXCEPT !.pc = "next", !.todo = flushed(coalescer)]]
    /\ UNCHANGED <<scanned, tracked, ids, link, reconnectMu, log, dropped>>

-----------------------------------------------------------------------------
(***************************************************************************)
(* hubConnection.write.  The events' writers hold writeMu under the        *)
(* coalescer's mu, so one lock stands for both.                            *)
(***************************************************************************)

MovesTo(t, pc) == writer' = [writer EXCEPT ![t].pc = pc]

\* All payloads are sent: Push returns and unlocks, a pending item in place.
Finish(t) ==
    /\ writer[t].pc = "next" /\ writer[t].todo = <<>>
    /\ writer' = [writer EXCEPT ![t] = [Quiet EXCEPT !.pc = IF writer[t].last THEN "ended" ELSE "idle"]]
    /\ coalescer' = unlock(IF writer[t].then = 0 THEN coalescer
                           ELSE armed(coalescer, <<writer[t].then>>))
    /\ UNCHANGED <<scanned, tracked, ids, link, reconnectMu, log, dropped>>

\* A send fails.  Push returns the error, the scan loop ends with it, and what
\* it had not sent is gone; the timer's goroutine ignores the error.
Fails(t) ==
    /\ dropped' = dropped \cup UNION {ToSet(p) : p \in ToSet(writer[t].todo)}
                          \cup ({writer[t].then} \ {0})
    /\ writer' = [writer EXCEPT ![t] = [Quiet EXCEPT !.pc = IF t = "timer" THEN "idle" ELSE "failed"]]
    /\ coalescer' = IF coalescer.mu = t THEN unlock(coalescer) ELSE coalescer

\* Mutant: one proposal more than the limit is tracked.
fullOneLate == Len(tracked) > MaxPending

\* trackProposal's capacity.
Full == Len(tracked) >= MaxPending

\* prepareEvent draws a proposal id; trackProposal keeps a copy until the receipt.
prepared(items) == [id |-> ids + 1, items |-> items, drawn |-> link.dialled]

\* Mutant: an event is written without being tracked.
trackNothing(p) == UNCHANGED tracked

trackProposal(p) == tracked' = Append(tracked, p)

writeEvent(t) ==
    /\ writer[t].pc = "next" /\ writer[t].todo # <<>> /\ ~Full
    /\ trackProposal(prepared(Head(writer[t].todo)))
    /\ ids' = ids + 1
    /\ writer' = [writer EXCEPT ![t].pc = "write", ![t].frame = <<prepared(Head(writer[t].todo))>>]
    /\ UNCHANGED <<scanned, coalescer, link, reconnectMu, log, dropped>>

writeRefused(t) ==
    /\ writer[t].pc = "next" /\ writer[t].todo # <<>> /\ Full
    /\ Fails(t)
    /\ UNCHANGED <<scanned, tracked, ids, link, reconnectMu, log>>

\* What one frame write does to a socket: a dead one may still take the frame
\* into its buffer, where it is lost.
Wrote(p) == link' = IF link.alive THEN [link EXCEPT !.frames = Append(@, p)] ELSE link

writePrepared(t) ==
    /\ writer[t].pc = "write" /\ link.conn # 0
    /\ Wrote(Head(writer[t].frame))
    /\ writer' = [writer EXCEPT ![t].pc = "next", ![t].todo = Tail(@), ![t].frame = <<>>]
    /\ UNCHANGED <<scanned, coalescer, tracked, ids, reconnectMu, log, dropped>>

\* No connection, or a write that fails: reconnect, then try again.
sendFails(t) ==
    /\ writer[t].pc = "write" /\ (link.conn = 0 \/ ~link.alive)
    /\ writer' = [writer EXCEPT ![t].pc = "reconnect", ![t].failed = link.conn]
    /\ UNCHANGED <<scanned, coalescer, tracked, ids, link, reconnectMu, log, dropped>>

-----------------------------------------------------------------------------
\* hubConnection.read: receipts, and the reader's own reconnects.

ackProposal(p) == tracked' = SelectSeq(tracked, LAMBDA q : q.id # p.id)

ReadReceipt ==
    /\ writer["reader"].pc = "idle" /\ link.receipts # <<>> /\ link.conn # 0
    /\ ackProposal(Head(link.receipts))
    /\ link' = [link EXCEPT !.receipts = Tail(@)]
    /\ UNCHANGED <<scanned, coalescer, writer, ids, reconnectMu, log, dropped>>

readFails ==
    /\ writer["reader"].pc = "idle" /\ (link.conn = 0 \/ ~link.alive)
    /\ writer' = [writer EXCEPT !["reader"].pc = "reconnect", !["reader"].failed = link.conn]
    /\ UNCHANGED <<scanned, coalescer, tracked, ids, link, reconnectMu, log, dropped>>

-----------------------------------------------------------------------------
\* hubConnection.reconnect.

Resumed(t) == IF t = "reader" THEN "idle" ELSE "write"

reconnectLocks(t) ==
    /\ writer[t].pc = "reconnect" /\ reconnectMu = "free"
    /\ IF link.conn \notin {0, writer[t].failed}
       THEN MovesTo(t, Resumed(t)) /\ UNCHANGED reconnectMu
       ELSE MovesTo(t, "dial") /\ reconnectMu' = t
    /\ UNCHANGED <<scanned, coalescer, tracked, ids, link, log, dropped>>

\* dialAndResume succeeds.  The connection is published at once, so that others
\* can write on it before the replay has.
dialAndResume(t) ==
    /\ writer[t].pc = "dial" /\ link.dialled < MaxLinks
    /\ link' = [conn |-> link.dialled + 1, dialled |-> link.dialled + 1, alive |-> TRUE,
                frames |-> <<>>, receipts |-> <<>>]
    /\ MovesTo(t, "proposals")
    /\ UNCHANGED <<scanned, coalescer, tracked, ids, reconnectMu, log, dropped>>

\* The Hub refuses every credential, or the session's context ends.
dialRejected(t) ==
    /\ writer[t].pc = "dial"
    /\ Fails(t)
    /\ reconnectMu' = "free"
    /\ UNCHANGED <<scanned, tracked, ids, link, log>>

\* proposals: the tracked events in order, as they were first sent.
proposals == tracked

takeProposals(t) ==
    /\ writer[t].pc = "proposals"
    /\ writer' = [writer EXCEPT ![t].pc = "replay", ![t].replay = proposals]
    /\ UNCHANGED <<scanned, coalescer, tracked, ids, link, reconnectMu, log, dropped>>

\* The published connection is withdrawn and the next attempt begins.
Withdraw(t) ==
    /\ link' = [link EXCEPT !.conn = 0, !.alive = FALSE, !.receipts = <<>>]
    /\ MovesTo(t, "dial")

replayProposal(t) ==
    /\ writer[t].pc = "replay" /\ writer[t].replay # <<>>
    /\ Wrote(Head(writer[t].replay))
    /\ writer' = [writer EXCEPT ![t].replay = Tail(@)]
    /\ UNCHANGED <<scanned, coalescer, tracked, ids, reconnectMu, log, dropped>>

replayFails(t) ==
    /\ writer[t].pc = "replay" /\ ~link.alive
    /\ Withdraw(t)
    /\ UNCHANGED <<scanned, coalescer, tracked, ids, reconnectMu, log, dropped>>

Reconnected(t) ==
    /\ writer' = [writer EXCEPT ![t].pc = Resumed(t), ![t].replay = <<>>]
    /\ reconnectMu' = "free"

\* freshReconnectProposals: a snapshot is prepared, tracked and written; the
\* factory may have nothing to say.
freshProposal(t, snapshot) ==
    /\ writer[t].pc = "replay" /\ writer[t].replay = <<>>
    /\ snapshot => ~Full
    /\ IF snapshot THEN trackProposal(prepared(<<>>)) /\ ids' = ids + 1 /\ Wrote(prepared(<<>>))
       ELSE UNCHANGED <<tracked, ids, link>>
    /\ Reconnected(t)
    /\ UNCHANGED <<scanned, coalescer, log, dropped>>

\* The snapshot is tracked, but its write fails.
freshFails(t) ==
    /\ writer[t].pc = "replay" /\ writer[t].replay = <<>> /\ ~link.alive /\ ~Full
    /\ trackProposal(prepared(<<>>)) /\ ids' = ids + 1
    /\ Withdraw(t)
    /\ UNCHANGED <<scanned, coalescer, reconnectMu, log, dropped>>

\* The factory itself fails (never on the last connection the bound allows).
factoryFails(t) ==
    /\ writer[t].pc = "replay" /\ writer[t].replay = <<>> /\ link.dialled < MaxLinks
    /\ Withdraw(t)
    /\ UNCHANGED <<scanned, coalescer, tracked, ids, reconnectMu, log, dropped>>

\* No room to track the snapshot: the connection is closed, and reconnect fails.
freshRefused(t) ==
    /\ writer[t].pc = "replay" /\ writer[t].replay = <<>> /\ Full
    /\ Fails(t)
    /\ link' = [link EXCEPT !.conn = 0, !.alive = FALSE, !.receipts = <<>>]
    /\ reconnectMu' = "free"
    /\ UNCHANGED <<scanned, tracked, ids, log>>

-----------------------------------------------------------------------------
\* The network and the Hub.

\* The last connection the bound allows stays up.
LinkBreaks ==
    /\ link.alive /\ link.dialled < MaxLinks
    /\ link' = [link EXCEPT !.alive = FALSE, !.receipts = <<>>]
    /\ UNCHANGED <<scanned, coalescer, writer, tracked, ids, reconnectMu, log, dropped>>

\* The Hub reads a frame, which a broken link may have delivered before it broke,
\* and commits the proposal unless it already has.
CommitEventProposal ==
    /\ link.frames # <<>>
    /\ LET p == Head(link.frames)
       IN  /\ log' = IF \E q \in ToSet(log) : q.id = p.id THEN log
                     ELSE Append(log, [id |-> p.id, items |-> p.items, drawn |-> p.drawn,
                                       on |-> link.dialled])
           /\ link' = [link EXCEPT !.frames = Tail(@),
                                   !.receipts = IF link.alive THEN Append(@, p) ELSE @]
    /\ UNCHANGED <<scanned, coalescer, writer, tracked, ids, reconnectMu, dropped>>

WriteFrame(t) == writeEvent(t) \/ writeRefused(t) \/ writePrepared(t) \/ sendFails(t) \/ Finish(t)

ReconnectHub(t) ==
    \/ reconnectLocks(t) \/ dialAndResume(t) \/ takeProposals(t) \/ replayProposal(t)
    \/ replayFails(t) \/ (\E b \in BOOLEAN : freshProposal(t, b)) \/ freshFails(t) \/ freshRefused(t)

ProviderOutputNext ==
    \/ \E other, large \in BOOLEAN : Push(other, large)
    \/ \E final \in BOOLEAN : OutputEnds(final)
    \/ TimerExpires \/ TimerFlush
    \/ \E t \in {"stream", "timer"} : WriteFrame(t)
    \/ ReadReceipt \/ readFails
    \/ \E t \in Goroutines : ReconnectHub(t) \/ dialRejected(t) \/ factoryFails(t)
    \/ LinkBreaks \/ CommitEventProposal

ProviderOutputSpec == ProviderOutputInit /\ [][ProviderOutputNext]_poVars

-----------------------------------------------------------------------------
\* Types.
ProviderOutputTypeOK ==
    /\ scanned \in 0..NItems
    /\ coalescer.text \in Seq(1..NItems) /\ coalescer.timer \in {"off", "armed"}
    /\ coalescer.fired \in Nat /\ coalescer.mu \in {"free", "stream", "timer"}
    /\ \A t \in Goroutines :
          writer[t].pc \in {"idle", "next", "write", "reconnect", "dial", "proposals",
                            "replay", "ended", "failed"}
    /\ Len(tracked) <= MaxPending
    /\ link.conn \in 0..MaxLinks
    /\ reconnectMu \in Goroutines \cup {"free"}
    /\ dropped \subseteq 1..NItems

Unsent == UNION {ToSet(p) : p \in ToSet(writer["stream"].todo) \cup ToSet(writer["timer"].todo)}
          \cup ({writer["stream"].then} \ {0})

\* Whatever the Provider said is somewhere: in the coalescer, with a goroutine
\* that is sending it, tracked until the Hub confirms it, or in the log.  Only a
\* send that fails drops it (hubConnection tracks before it writes and forgets
\* with the receipt, flushLocked empties before it sends).
OutputAccounted ==
    \A i \in 1..scanned :
        i \in ToSet(coalescer.text) \cup Unsent \cup Items(tracked) \cup Items(log) \cup dropped

\* However often a proposal is sent, what the Provider said is in the log once:
\* reconnect sends the tracked proposals under the ids they were first sent with.
CommittedOnce ==
    /\ \A i, j \in DOMAIN log : i # j => ToSet(log[i].items) \cap ToSet(log[j].items) = {}
    /\ \A i \in DOMAIN log : Cardinality(ToSet(log[i].items)) = Len(log[i].items)

Earlier(p, q) == \A i \in ToSet(p.items), j \in ToSet(q.items) : i < j

\* Events are proposed in the order the Provider produced them, a timer that fires
\* late and text that is still pending notwithstanding.
ProposedInOrder ==
    \A p, q \in ToSet(log) \cup ToSet(tracked) : p.id < q.id => Earlier(p, q)

\* The log has the events in the order they were proposed, except around a
\* reconnect: it publishes the new socket before it replays what is tracked on
\* it (hub_connection.go:436-443), so an event drawn under an earlier connection
\* may be overtaken on the new one, and only such an event may.
OvertakenByReconnect ==
    \A i, j \in DOMAIN log :
        i < j => Earlier(log[i], log[j]) \/ log[j].drawn < log[i].on

\* What the Provider said reaches the log or is still on its way, is there once,
\* is proposed in the order it was said and committed in that order but for what
\* a reconnect replays (trackProposal, reconnect, flushLocked).
OutputDelivered ==
    OutputAccounted /\ CommittedOnce /\ ProposedInOrder /\ OvertakenByReconnect

=============================================================================
