----------------------------- MODULE Attention -----------------------------
(***************************************************************************)
(* The attention summaries: what a Session list shows without subscribing  *)
(* to any transcript.                                                      *)
(*                                                                         *)
(*   - the Store keeps one projected summary per Session, written in the   *)
(*     transaction that appends an event or changes a ledger, and built    *)
(*     for old Sessions by a checkpointed backfill                         *)
(*     (store/sqlite/store.go);                                            *)
(*   - the Hub sends a connection one snapshot of the Sessions its grant   *)
(*     names and then an update per change (hub/websocket.go);             *)
(*   - the activity dispatcher rescans the Store periodically and on       *)
(*     request, and has every summary broadcast again                      *)
(*     (hub/activity_dispatcher.go);                                       *)
(*   - AgentWharfAttentionClient keeps the summaries it was sent           *)
(*     (client-ts/src/index.ts).                                           *)
(*                                                                         *)
(* Sessions are numbered in the order of their ids.  One Auth grant and    *)
(* one client are modelled; sockets are numbered in the order the client   *)
(* opens them.  A broadcast is run by the handler that appended the event  *)
(* (one at a time per Session) or by the dispatcher's scan.                *)
(***************************************************************************)
EXTENDS Integers, Sequences, FiniteSets

CONSTANTS
    NSessions,      \* number of Sessions
    AppendedEvents, \* the events an Adapter may append
    LegacyLogs,     \* logs from before the summaries existed
    Grants,         \* the Session sets Auth may grant
    MaxLog,         \* bound on the length of a Session's log
    MaxVersion,     \* bound on ledger changes of a Session
    MaxTerm,        \* bound on Auth's clock
    MaxAttentionLinks,     \* bound on sockets
    MaxAsks,        \* bound on attention.subscribe frames
    PageLimit,      \* MaxAttentionSummaryPageSize
    Faults          \* whether the Store and the activity sink may fail

ASSUME AttentionAssumption ==
    /\ Faults \in BOOLEAN /\ NSessions \in Nat \ {0} /\ PageLimit \in Nat \ {0}
    /\ \A g \in Grants : g # {} /\ g \subseteq 1..NSessions

VARIABLES
    summaries,      \* the Store: logs, summaries, live Adapter authority, migration
    grant,          \* Auth: the grant, and its clock
    peer,           \* the Hub's end of each socket
    caster,         \* the broadcasts in progress
    scan,           \* the activity dispatcher
    viewer          \* the client

attVars == <<summaries, grant, peer, caster, scan, viewer>>

Members == 1..NSessions
Links == 1..MaxAttentionLinks
Casters == 0..NSessions                 \* 0 is the scan, s the handler of Session s
NoSummary == [seq |-> -1, state |-> "unknown", permission |-> 0, outcome |-> "none",
              version |-> 0, complete |-> FALSE]
NoSub == [req |-> 0, members |-> {}, allowed |-> {}, term |-> 0, gen |-> 0, sent |-> <<>>]
NoRead == [req |-> 0, allowed |-> {}, term |-> 0, rows |-> <<>>]
NoCast == [session |-> 0, targets |-> {}, at |-> 0, stage |-> "none", rows |-> <<>>]
Unread == [s \in Members |-> -1]

----------------------------------------------------------------------------
(* The Store. *)

(* What one event says of the summary.  A state that is not known, or a    *)
(* permission frame without a valid id, makes the projection incomplete.   *)
sqliteAttentionEventProjection(e) ==
    [state      |-> IF e.type \in {"ready", "ended"} THEN e.type ELSE "none",
     observed   |-> e.type \in {"ready", "ended", "unknown"},
     ask        |-> IF e.type = "request" THEN e.id ELSE 0,
     decide     |-> IF e.type = "decision" THEN e.id ELSE 0,
     incomplete |-> e.type = "unknown" \/ (e.type \in {"request", "decision"} /\ e.id = 0),
     terminal   |-> e.type = "ended"]

(* The summary after the event at seq: the outcome follows an observed     *)
(* state, and a projection that was once incomplete stays so.              *)
projectSQLiteAttentionEvent(s, seq, e) ==
    LET p       == sqliteAttentionEventProjection(e)
        created == s = NoSummary
        old     == IF created THEN [NoSummary EXCEPT !.state = "starting", !.seq = 0] ELSE s
        lost    == \/ p.incomplete
                   \/ old.seq > 0 /\ seq # old.seq + 1
                   \/ seq = 1 /\ p.state = "none"
                   \/ ~created /\ ~old.complete
    IN [old EXCEPT !.seq = seq,
                   !.state = IF p.state # "none" THEN p.state ELSE @,
                   !.permission = IF p.ask # 0 THEN p.ask
                                  ELSE IF p.decide = @ THEN 0 ELSE @,
                   !.outcome = IF p.state = "none" THEN @
                               ELSE IF p.terminal THEN "ended" ELSE "none",
                   !.complete = ~lost]

(* A broadcast starts from a copy of the Session's subscribers. *)
broadcastAttentionUpdate(s) ==
    LET targets == {p \in Links : s \in peer[p].sub.members}
    IN IF targets = {} THEN NoCast ELSE [NoCast EXCEPT !.session = s, !.targets = targets]

(* Append: the event, its projection and, for a terminal one, the fence of *)
(* the Adapter's authority commit together; the handler then broadcasts.   *)
AppendEvent(s, e) ==
    LET seq == Len(summaries.log[s]) + 1 IN
    /\ caster[s] = NoCast
    /\ seq <= MaxLog
    /\ summaries.live[s]
    /\ summaries' = [summaries EXCEPT
            !.log[s] = @ \o <<e>>,
            !.sum[s] = projectSQLiteAttentionEvent(@, seq, e),
            !.live[s] = ~sqliteAttentionEventProjection(e).terminal]
    /\ caster' = [caster EXCEPT ![s] =
            broadcastAttentionUpdate(s)]
    /\ scan' = IF sqliteAttentionEventProjection(e).terminal
               THEN [scan EXCEPT !.need[s] = -1] ELSE scan
    /\ UNCHANGED <<grant, peer, viewer>>

(* A ledger change: only the version moves, and nothing is broadcast.      *)
upsertSQLiteAttentionLedger(s) ==
    LET old == summaries.sum[s] IN
    /\ old.version < MaxVersion
    /\ summaries' = [summaries EXCEPT !.sum[s] =
            IF old = NoSummary THEN [NoSummary EXCEPT !.seq = 0, !.state = "starting", !.version = 1]
            ELSE [old EXCEPT !.version = @ + 1]]
    /\ UNCHANGED <<grant, peer, caster, scan, viewer>>

(* The deployment reopens an ended Session: it clears the terminal fence.  *)
Reopen(s) ==
    /\ ~summaries.live[s] /\ ~summaries.pending
    /\ summaries' = [summaries EXCEPT !.live[s] = TRUE]
    /\ UNCHANGED <<grant, peer, caster, scan, viewer>>

(* Mutant: a summary that already exists keeps its completeness. *)
backfilledTrusting(s, seq) ==
    IF s = NoSummary THEN [NoSummary EXCEPT !.seq = seq, !.state = "starting"]
    ELSE [s EXCEPT !.seq = IF seq > @ THEN seq ELSE @]

(* The summary the backfill writes: never complete. *)
backfilled(s, seq) ==
    IF s = NoSummary THEN [NoSummary EXCEPT !.seq = seq, !.state = "starting"]
    ELSE [s EXCEPT !.seq = IF seq > @ THEN seq ELSE @, !.complete = FALSE]

(* One batch of one Session: its summary, the fence of its authority and   *)
(* the checkpoint; the migration completes when no Session is left.        *)
BackfillAttentionBatch ==
    LET known == {s \in Members : Len(summaries.log[s]) > 0 \/ summaries.live[s]}
        left  == {s \in known : s > summaries.checkpoint}
    IN /\ summaries.pending
       /\ \/ /\ left = {}
             /\ summaries' = [summaries EXCEPT !.pending = FALSE]
             /\ UNCHANGED scan
          \/ \E s \in left :
             /\ \A t \in left : s <= t
             /\ summaries' = [summaries EXCEPT
                    !.sum[s] = backfilled(@, Len(summaries.log[s])),
                    !.live[s] = FALSE,
                    !.checkpoint = s,
                    !.pending = left # {s}]
             /\ scan' = [scan EXCEPT !.need[s] = -1]
       /\ UNCHANGED <<grant, peer, caster, viewer>>

(* The summaries of some Sessions as a query returns them: none before the *)
(* migration is complete, and no row for a Session without a summary.      *)
AttentionSnapshot(ids) ==
    IF summaries.pending
    THEN [s \in ids |-> [NoSummary EXCEPT !.state = "starting", !.seq = 0]]
    ELSE [s \in {i \in ids : summaries.sum[i] # NoSummary} |-> summaries.sum[s]]

(* The Sessions a scan may page: those with a live authority. *)
Paged == {s \in Members : summaries.sum[s] # NoSummary /\ summaries.live[s]}

(* The next page after a Session: its rows, and whether there are more. *)
AttentionSummaryPage(after) ==
    LET rest == {s \in Paged : s > after}
        rows == {s \in rest : Cardinality({t \in rest : t < s}) < PageLimit}
    IN [rows |-> rows, more |-> rest # rows]

----------------------------------------------------------------------------
(* Auth.  A grant is replaced, revoked or expires; AuthorizeAttention      *)
(* returns the grant of the moment.                                        *)

Authorizes(g, allowed, term) ==
    /\ g.allowed = allowed /\ g.term = term
    /\ allowed # {} /\ term > g.now

AuthorizeAttention(allowed, term) == Authorizes(grant, allowed, term)

(* The last check of the grant is behind a frame, the write ahead of it.   *)
(* peer.lapsed is the history of that gap: the grant was lost in it.       *)
Sending(p) == peer[p].phase = "send" \/ \E c \in Casters : caster[c].at = p /\ caster[c].stage = "send"

GrantBecomes(g) ==
    /\ grant' = g
    /\ peer' = [p \in Links |-> [peer[p] EXCEPT !.lapsed =
                    /\ Sending(p) /\ peer[p].sub # NoSub
                    /\ ~Authorizes(g, peer[p].sub.allowed, peer[p].sub.term)]]

ChangeGrant(ids, term) ==
    /\ term > grant.now
    /\ <<ids, term>> # <<grant.allowed, grant.term>>
    /\ GrantBecomes([grant EXCEPT !.allowed = ids, !.term = term])
    /\ UNCHANGED <<summaries, caster, scan, viewer>>

AuthClock ==
    /\ grant.now < MaxTerm
    /\ GrantBecomes([grant EXCEPT !.now = @ + 1])
    /\ UNCHANGED <<summaries, caster, scan, viewer>>

----------------------------------------------------------------------------
(* The Hub: subscriptions.                                                 *)

(* The holder of attentionMu of a connection is its subscribe handler,     *)
(* from the registration to the write, or a broadcast that reached it.     *)
Locked(p) == peer[p].phase \in {"registered", "send"} \/ \E c \in Casters : caster[c].at = p

(* Mutant: the expiry timer of a removed subscription is left running. *)
RemovedTimerLeft(q) == [q EXCEPT !.sub = NoSub]

(* removeAttentionSubscriptionLocked: the subscription and its timer go. *)
Unsubscribed(q) == [q EXCEPT !.sub = NoSub, !.armed = FALSE]

(* The connection is closed by the Hub. *)
ClosedPeer(q) == [q EXCEPT !.conn = IF @ = "open" THEN "lost" ELSE @]

(* A frame for some members; a snapshot also names the members the Store   *)
(* has no row for, as unknown and incomplete.                              *)
attentionSummaryFrame(kind, req, rows, members) ==
    LET shown == DOMAIN rows \cap members
        ids   == IF kind = "snapshot" THEN members ELSE shown
        row(s) == IF s \in shown THEN rows[s] ELSE [NoSummary EXCEPT !.seq = 0]
    IN [kind |-> kind, req |-> req, rows |-> [s \in ids |-> row(s)],
        complete |-> \A s \in ids : row(s).complete]

(* attention.subscribe: the grant is read, then the Store under it. *)
handleAttentionSubscribe(p) ==
    /\ peer[p].conn = "open" /\ peer[p].phase = "idle" /\ peer[p].inbox # <<>>
    /\ peer' = [peer EXCEPT ![p] =
            IF AuthorizeAttention(grant.allowed, grant.term)
            THEN [@ EXCEPT !.phase = "read", !.inbox = Tail(@),
                           !.read = [req |-> Head(peer[p].inbox), allowed |-> grant.allowed,
                                     term |-> grant.term, rows |-> AttentionSnapshot(grant.allowed)]]
            ELSE ClosedPeer(@)]
    /\ UNCHANGED <<summaries, grant, caster, scan, viewer>>

(* The grant must be the one the rows were read under.  The new            *)
(* subscription replaces the old one and its timer.                        *)
registerAttentionSubscription(p) ==
    LET r == peer[p].read
        frame == attentionSummaryFrame("snapshot", r.req, r.rows, r.allowed)
    IN /\ peer[p].phase = "read"
       /\ \A c \in Casters : caster[c].at # p
       /\ peer' = [peer EXCEPT ![p] =
            IF AuthorizeAttention(r.allowed, r.term)
            THEN [@ EXCEPT !.phase = "registered", !.gens = @ + 1, !.armed = TRUE,
                           !.sub = [req |-> r.req, members |-> r.allowed, allowed |-> r.allowed,
                                    term |-> r.term, gen |-> peer[p].gens + 1, sent |-> frame.rows]]
            ELSE ClosedPeer([@ EXCEPT !.phase = "idle", !.read = NoRead])]
       /\ UNCHANGED <<summaries, grant, caster, scan, viewer>>

(* The grant is checked once more, and then the snapshot is written.       *)
SnapshotDone(p) == [peer[p] EXCEPT !.phase = "idle", !.read = NoRead, !.lapsed = FALSE]

reauthorizeAttentionSnapshot(p) ==
    /\ peer[p].phase = "registered"
    /\ peer' = [peer EXCEPT ![p] =
            IF AuthorizeAttention(peer[p].read.allowed, peer[p].read.term)
            THEN [@ EXCEPT !.phase = "send"]
            ELSE ClosedPeer(Unsubscribed(SnapshotDone(p)))]
    /\ UNCHANGED <<summaries, grant, caster, scan, viewer>>

writeAttentionSnapshot(p) ==
    LET r == peer[p].read
        frame == attentionSummaryFrame("snapshot", r.req, r.rows, r.allowed)
    IN /\ peer[p].phase = "send"
       /\ peer' = [peer EXCEPT ![p] =
            IF peer[p].conn = "open"
            THEN [SnapshotDone(p) EXCEPT !.frames = @ \o <<frame>>]
            ELSE Unsubscribed(SnapshotDone(p))]
       /\ UNCHANGED <<summaries, grant, caster, scan, viewer>>

(* The expiry timer fires; its callback waits for the connection's lock. *)
TimerFires(p) ==
    /\ peer[p].armed /\ peer[p].sub.term <= grant.now
    /\ peer' = [peer EXCEPT ![p].armed = FALSE, ![p].due = @ \cup {peer[p].sub.gen}]
    /\ UNCHANGED <<summaries, grant, caster, scan, viewer>>

(* Only the subscription the timer was armed for expires. *)
expires(p, g) == peer[p].sub # NoSub /\ peer[p].sub.gen = g

expireAttentionSubscription(p, g) ==
    /\ g \in peer[p].due /\ ~Locked(p)
    /\ LET q == [peer[p] EXCEPT !.due = @ \ {g}]
       IN peer' = [peer EXCEPT ![p] = IF expires(p, g) THEN ClosedPeer(Unsubscribed(q)) ELSE q]
    /\ UNCHANGED <<summaries, grant, caster, scan, viewer>>

(* The connection drops; its read loop ends and unregisters it, which does *)
(* not wait for the connection's lock.                                     *)
ConnectionDrops(p) ==
    /\ peer[p].conn = "open"
    /\ peer' = [peer EXCEPT ![p] = ClosedPeer(@)]
    /\ UNCHANGED <<summaries, grant, caster, scan, viewer>>

unregisterClient(p) ==
    /\ peer[p].conn = "lost" /\ peer[p].phase = "idle"
    /\ peer' = [peer EXCEPT ![p] = [Unsubscribed(@) EXCEPT !.conn = "gone"]]
    /\ UNCHANGED <<summaries, grant, caster, scan, viewer>>

----------------------------------------------------------------------------
(* The Hub: broadcasts.                                                    *)

(* The broadcast is done with one of its targets. *)
PeerDone(c, p) ==
    IF caster[c].targets = {p} THEN NoCast
    ELSE [NoCast EXCEPT !.session = caster[c].session, !.targets = caster[c].targets \ {p}]

(* Under the lock of the connection: its subscription, the grant and the   *)
(* Session's summary are read.                                             *)
broadcastAttentionUpdateToPeer(c, p, ok) ==
    LET sub == peer[p].sub
        gone == sub = NoSub
        allowed == AuthorizeAttention(sub.allowed, sub.term)
    IN /\ p \in caster[c].targets /\ caster[c].at = 0 /\ ~Locked(p)
       /\ ok \/ Faults
       /\ caster' = [caster EXCEPT ![c] =
            IF ~gone /\ allowed /\ ok
            THEN [@ EXCEPT !.at = p, !.stage = "write", !.rows = AttentionSnapshot({caster[c].session})]
            ELSE PeerDone(c, p)]
       /\ peer' = [peer EXCEPT ![p] = IF gone \/ allowed THEN @ ELSE ClosedPeer(Unsubscribed(@))]
       /\ UNCHANGED <<summaries, grant, scan, viewer>>

(* The grant is still the subscription's after the Store read. *)
stillAllowed(p) == AuthorizeAttention(peer[p].sub.allowed, peer[p].sub.term)

(* A frame whose rows were all sent before is not sent again. *)
attentionFrameUnchanged(rows, sent) ==
    \A s \in DOMAIN rows : s \in DOMAIN sent /\ sent[s] = rows[s]

updateFrame(c, sub) == attentionSummaryFrame("update", sub.req, caster[c].rows, sub.members)

(* The grant is checked again; an update in which nothing changed is done. *)
reauthorizeAttentionUpdate(c) ==
    LET p == caster[c].at
        sub == peer[p].sub
        send == stillAllowed(p) /\ ~attentionFrameUnchanged(updateFrame(c, sub).rows, sub.sent)
    IN /\ caster[c].stage = "write"
       /\ caster' = [caster EXCEPT ![c] = IF send THEN [@ EXCEPT !.stage = "send"] ELSE PeerDone(c, p)]
       /\ peer' = [peer EXCEPT ![p] = IF stillAllowed(p) THEN @ ELSE ClosedPeer(Unsubscribed(@))]
       /\ UNCHANGED <<summaries, grant, scan, viewer>>

(* The write, which nothing orders with a change of the grant. *)
writeAttentionUpdate(c) ==
    LET p == caster[c].at
        frame == updateFrame(c, peer[p].sub)
        written == peer[p].conn = "open"
    IN /\ caster[c].stage = "send"
       /\ peer' = [peer EXCEPT ![p] =
            IF written THEN [@ EXCEPT !.frames = @ \o <<frame>>, !.lapsed = FALSE]
            ELSE [Unsubscribed(@) EXCEPT !.lapsed = FALSE]]
       /\ caster' = [caster EXCEPT ![c] =
            IF written THEN [@ EXCEPT !.stage = "record", !.rows = frame.rows] ELSE PeerDone(c, p)]
       /\ UNCHANGED <<summaries, grant, scan, viewer>>

(* What was sent is remembered, and a Session that ended leaves the        *)
(* membership, if the subscription is still there.                         *)
recorded(q, rows) ==
    LET ended == {s \in DOMAIN rows : rows[s].outcome # "none"}
    IN IF q.sub = NoSub THEN q
       ELSE [q EXCEPT !.sub.sent = [s \in DOMAIN @ \cup DOMAIN rows |->
                                      IF s \in DOMAIN rows THEN rows[s] ELSE @[s]],
                      !.sub.members = @ \ ended]

recordAttentionUpdate(c) ==
    LET p == caster[c].at IN
    /\ caster[c].stage = "record"
    /\ peer' = [peer EXCEPT ![p] = recorded(@, caster[c].rows)]
    /\ caster' = [caster EXCEPT ![c] = PeerDone(c, p)]
    /\ UNCHANGED <<summaries, grant, scan, viewer>>

----------------------------------------------------------------------------
(* The activity dispatcher.  One scan at a time: Run's, which ends Run for *)
(* good when it fails, or a refresh's.  scan.need is the history of the    *)
(* requests that wait: the seq each paged Session had when the last of     *)
(* them came, if its page was not read by then (-1 once it left the        *)
(* pages); scan.got is what the current scan published.                    *)

StartScan(owner) ==
    /\ scan.owner = "none"
    /\ CASE owner = "run" -> scan.run
         [] owner = "refresh" -> scan.refresh
    /\ scan' = [scan EXCEPT !.owner = owner, !.after = 0, !.rows = <<>>, !.more = TRUE,
                            !.got = Unread]
    /\ UNCHANGED <<summaries, grant, peer, caster, viewer>>

(* The refresh's scan has read the page a Session is or would be in. *)
AlreadyRead(s) ==
    /\ scan.owner = "refresh"
    /\ ~scan.more \/ s <= scan.after \/ \E t \in DOMAIN scan.rows : s <= t

(* A refresh waits for the scan token; a caller that finds one in flight   *)
(* waits for that one and takes over its result.                           *)
RequestActivityRefresh ==
    /\ scan' = [scan EXCEPT !.refresh = TRUE,
                !.need = [s \in Members |-> IF scan.refresh /\ AlreadyRead(s) THEN @[s]
                                            ELSE IF s \in Paged THEN summaries.sum[s].seq ELSE -1]]
    /\ UNCHANGED <<summaries, grant, peer, caster, viewer>>

ScanEnds(result) ==
    [scan EXCEPT !.owner = "none", !.after = 0, !.rows = <<>>, !.more = FALSE,
                 !.run = @ /\ ~(scan.owner = "run" /\ result = "error"),
                 !.refresh = @ /\ scan.owner # "refresh", !.got = Unread,
                 !.need = IF scan.owner = "refresh" THEN Unread ELSE @]

(* The next page, which is refused while the migration is pending. *)
dispatchOnce ==
    LET page == AttentionSummaryPage(scan.after) IN
    /\ scan.owner # "none" /\ DOMAIN scan.rows = {} /\ caster[0] = NoCast
    /\ scan' = IF scan.more /\ summaries.pending THEN ScanEnds("error")
               ELSE IF scan.more /\ page.rows # {}
               THEN [scan EXCEPT !.rows = [s \in page.rows |-> summaries.sum[s].seq],
                                 !.more = page.more]
               ELSE ScanEnds("ok")
    /\ UNCHANGED <<summaries, grant, peer, caster, viewer>>

(* A row is published to the activity sink and its Session broadcast. *)
PublishActivitySummary(s) ==
    /\ s \in DOMAIN scan.rows /\ \A t \in DOMAIN scan.rows : s <= t
    /\ caster[0] = NoCast
    /\ scan' = [scan EXCEPT !.after = s, !.got[s] = scan.rows[s],
                            !.rows = [t \in DOMAIN @ \ {s} |-> @[t]]]
    /\ caster' = [caster EXCEPT ![0] = broadcastAttentionUpdate(s)]
    /\ UNCHANGED <<summaries, grant, peer, viewer>>

(* A page read or a publication fails, or the scan's time is over. *)
ScanFails ==
    /\ Faults /\ scan.owner # "none" /\ caster[0] = NoCast
    /\ scan' = ScanEnds("error")
    /\ UNCHANGED <<summaries, grant, peer, caster, viewer>>

----------------------------------------------------------------------------
(* AgentWharfAttentionClient. *)

Opened == Cardinality({p \in Links : peer[p].conn # "none"})

(* A new socket becomes the current one; an older one is left as it is. *)
openSocket(v, ps) ==
    /\ Opened < MaxAttentionLinks
    /\ peer' = [ps EXCEPT ![Opened + 1].conn = "dial"]
    /\ viewer' = [v EXCEPT !.socket = Opened + 1, !.ready = FALSE, !.timer = FALSE]

connectAttention ==
    /\ openSocket([viewer EXCEPT !.closed = FALSE], peer)
    /\ UNCHANGED <<summaries, grant, caster, scan>>

(* close: the socket, the pending refreshes and the reconnect timer go. *)
ClosedViewer == [viewer EXCEPT !.closed = TRUE, !.timer = FALSE, !.ready = FALSE, !.socket = 0,
                               !.pending = {}]
ClosedPeers ==
    IF viewer.socket = 0 THEN peer
    ELSE [peer EXCEPT ![viewer.socket] =
            [@ EXCEPT !.frames = <<>>, !.shut = TRUE,
                      !.conn = CASE @ = "open" -> "lost" [] @ = "dial" -> "gone" [] OTHER -> @]]

closeClient ==
    /\ viewer.socket # 0
    /\ viewer' = ClosedViewer /\ peer' = ClosedPeers
    /\ UNCHANGED <<summaries, grant, caster, scan>>

(* switchIdentity: what was held is forgotten before the new token connects. *)
switchIdentity ==
    /\ openSocket([ClosedViewer EXCEPT !.held = <<>>, !.complete = FALSE, !.closed = FALSE], ClosedPeers)
    /\ UNCHANGED <<summaries, grant, caster, scan>>

(* A subscribe frame goes out on the current socket.  Asks counts them. *)
Subscribes(ps) ==
    IF viewer.socket # 0 /\ ps[viewer.socket].conn = "open" /\ viewer.asks < MaxAsks
    THEN /\ peer' = [ps EXCEPT ![viewer.socket].inbox = @ \o <<viewer.asks + 1>>]
         /\ viewer' = [viewer EXCEPT !.ready = TRUE, !.asks = @ + 1,
                                     !.pending = @ \cup {viewer.asks + 1}]
    ELSE peer' = ps /\ viewer' = [viewer EXCEPT !.ready = TRUE]

(* The Hub answers hello, if the grant allows it, and the client refreshes *)
(* on its current socket.                                                  *)
attentionHelloAck(p) ==
    /\ peer[p].conn = "dial"
    /\ IF AuthorizeAttention(grant.allowed, grant.term)
       THEN Subscribes([peer EXCEPT ![p].conn = "open"])
       ELSE peer' = [peer EXCEPT ![p].conn = "gone"] /\ UNCHANGED viewer
    /\ UNCHANGED <<summaries, grant, caster, scan>>

refresh ==
    /\ viewer.socket # 0 /\ viewer.ready /\ viewer.asks < MaxAsks
    /\ Subscribes(peer)
    /\ UNCHANGED <<summaries, grant, caster, scan>>

(* What is held after a frame: a snapshot starts over, and a summary with  *)
(* a lower seq or version than the held one is skipped.                    *)
applied(held, frame) ==
    LET old == IF frame.kind = "snapshot" THEN <<>> ELSE held
        stale(s) == /\ s \in DOMAIN old
                    /\ \/ frame.rows[s].seq < old[s].seq
                       \/ frame.rows[s].version < old[s].version
    IN [s \in DOMAIN old \cup DOMAIN frame.rows |->
            IF s \in DOMAIN frame.rows /\ ~stale(s) THEN frame.rows[s] ELSE old[s]]

applyAttentionSummary(p) ==
    /\ peer[p].frames # <<>>
    /\ LET frame == Head(peer[p].frames) IN
       viewer' = [viewer EXCEPT !.held = applied(@, frame), !.complete = frame.complete,
                                !.pending = @ \ {frame.req}]
    /\ peer' = [peer EXCEPT ![p].frames = Tail(@)]
    /\ UNCHANGED <<summaries, grant, caster, scan>>

(* The end of a replaced socket is ignored; the end of the current one     *)
(* rejects the pending refreshes and arms the reconnect timer.             *)
attentionClosed(p) ==
    /\ peer[p].conn \in {"lost", "gone"} /\ ~peer[p].shut
    /\ peer' = [peer EXCEPT ![p].shut = TRUE, ![p].frames = <<>>]
    /\ viewer' = IF viewer.socket # p THEN viewer
                 ELSE [viewer EXCEPT !.socket = 0, !.ready = FALSE, !.pending = {},
                                     !.timer = ~viewer.closed]
    /\ UNCHANGED <<summaries, grant, caster, scan>>

scheduleReconnect ==
    /\ viewer.timer
    /\ openSocket(viewer, peer)
    /\ UNCHANGED <<summaries, grant, caster, scan>>

----------------------------------------------------------------------------
AttentionInit ==
    /\ \E old \in BOOLEAN : \E log \in [Members -> IF old THEN LegacyLogs ELSE {<<>>}] :
         summaries = [log |-> log, sum |-> [s \in Members |-> NoSummary],
                      live |-> [s \in Members |-> TRUE], pending |-> old, checkpoint |-> 0]
    /\ \E ids \in Grants : grant = [allowed |-> ids, term |-> 1, now |-> 0]
    /\ peer = [p \in Links |-> [conn |-> "none", inbox |-> <<>>, phase |-> "idle", read |-> NoRead,
                                sub |-> NoSub, gens |-> 0, armed |-> FALSE, due |-> {},
                                frames |-> <<>>, shut |-> FALSE, lapsed |-> FALSE]]
    /\ caster = [c \in Casters |-> NoCast]
    /\ scan = [run |-> TRUE, owner |-> "none", after |-> 0, rows |-> <<>>, more |-> FALSE,
               refresh |-> FALSE, need |-> Unread, got |-> Unread]
    /\ viewer = [socket |-> 0, ready |-> FALSE, closed |-> FALSE, timer |-> FALSE, asks |-> 0,
                 pending |-> {}, held |-> <<>>, complete |-> FALSE]

HubSteps ==
    \/ \E p \in Links : \/ handleAttentionSubscribe(p) \/ registerAttentionSubscription(p)
                        \/ reauthorizeAttentionSnapshot(p) \/ writeAttentionSnapshot(p)
                        \/ TimerFires(p) \/ unregisterClient(p)
                        \/ \E g \in 1..MaxAsks : expireAttentionSubscription(p, g)
    \/ \E c \in Casters : \/ \E p \in Links : broadcastAttentionUpdateToPeer(c, p, TRUE)
                          \/ reauthorizeAttentionUpdate(c) \/ writeAttentionUpdate(c)
                          \/ recordAttentionUpdate(c)

ScanSteps ==
    \/ \E owner \in {"run", "refresh"} : StartScan(owner)
    \/ dispatchOnce
    \/ \E s \in Members : PublishActivitySummary(s)

AttentionNext ==
    \/ \E s \in Members : \/ \E e \in AppendedEvents : AppendEvent(s, e)
                          \/ upsertSQLiteAttentionLedger(s) \/ Reopen(s)
    \/ BackfillAttentionBatch
    \/ \E ids \in Grants \cup {{}}, term \in 1..MaxTerm : ChangeGrant(ids, term)
    \/ AuthClock
    \/ HubSteps
    \/ \E p \in Links, c \in Casters : broadcastAttentionUpdateToPeer(c, p, FALSE)
    \/ \E p \in Links : ConnectionDrops(p)
    \/ ScanSteps
    \/ RequestActivityRefresh
    \/ ScanFails
    \/ connectAttention \/ closeClient \/ switchIdentity \/ refresh \/ scheduleReconnect
    \/ \E p \in Links : attentionHelloAck(p) \/ applyAttentionSummary(p) \/ attentionClosed(p)

AttentionSpec == AttentionInit /\ [][AttentionNext]_attVars

----------------------------------------------------------------------------
(* Properties. *)

Row == [seq : Nat \cup {-1}, state : {"unknown", "starting", "ready", "ended"}, permission : Nat,
        outcome : {"none", "ended"}, version : Nat, complete : BOOLEAN]

(* The shape of the state. *)
AttentionTypeOK ==
    /\ summaries.sum \in [Members -> Row] /\ summaries.live \in [Members -> BOOLEAN]
    /\ summaries.checkpoint \in Casters /\ summaries.pending \in BOOLEAN
    /\ \A p \in Links : /\ peer[p].conn \in {"none", "dial", "open", "lost", "gone"}
                        /\ peer[p].phase \in {"idle", "read", "registered", "send"}
                        /\ peer[p].sub.members \subseteq peer[p].sub.allowed
                        /\ peer[p].due \subseteq 1..MaxAsks
                        /\ peer[p].armed => peer[p].sub # NoSub
                        /\ peer[p].lapsed => Sending(p)
    /\ \A c \in Casters : caster[c].stage \in {"none", "write", "send", "record"}
    /\ scan.owner \in {"none", "run", "refresh"}
    /\ viewer.socket \in 0..MaxAttentionLinks /\ viewer.pending \subseteq 1..MaxAsks

(* The state a whole log ends in, and the permission it leaves open: the   *)
(* reference the projection is compared with.                              *)
LastState(log) ==
    LET at == {i \in DOMAIN log : log[i].type \in {"ready", "ended"}}
    IN IF at = {} THEN "starting" ELSE log[CHOOSE i \in at : \A j \in at : j <= i].type

OpenPermission(log) ==
    LET asks == {i \in DOMAIN log : log[i].type = "request"}
        last == CHOOSE i \in asks : \A j \in asks : j <= i
    IN IF asks = {} \/ \E j \in DOMAIN log : j > last /\ log[j] = [type |-> "decision", id |-> log[last].id]
       THEN 0 ELSE log[last].id

(* A summary the Store hands out as complete says what the Session's whole *)
(* log says: its length, the state it ends in and the permission it leaves *)
(* open.  Appends before, during and after the backfill, and ledger        *)
(* changes before the first event, never make a partial projection look    *)
(* complete (projectSQLiteAttentionEvent, BackfillAttentionBatch).         *)
CompleteIsTrue ==
    ~summaries.pending =>
        \A s \in Members : summaries.sum[s].complete =>
            LET log == summaries.log[s] IN
            /\ summaries.sum[s].seq = Len(log)
            /\ summaries.sum[s].state = LastState(log)
            /\ summaries.sum[s].permission = OpenPermission(log)

(* No frame is written to a connection whose grant was replaced, revoked   *)
(* or expired while the Store was read for it: every summary written is of *)
(* a Session the grant of that moment names, and was read under that grant *)
(* (handleAttentionSubscribe, broadcastAttentionUpdateToPeer).  A grant    *)
(* lost after the last check and before the write is not noticed           *)
(* (websocket.go:1134-1138, 3527-3538): that frame alone still goes out.   *)
WrittenUnderGrant ==
    \A p \in Links : Len(peer'[p].frames) > Len(peer[p].frames) =>
        \/ peer[p].lapsed
        \/ /\ grant.term > grant.now
           /\ DOMAIN peer'[p].frames[Len(peer'[p].frames)].rows \subseteq grant.allowed

(* A connection whose read loop has ended is registered nowhere, whatever  *)
(* broadcast was writing to it at that moment (unregisterClient does not   *)
(* wait for attentionMu).                                                  *)
GonePeersForgotten ==
    \A p \in Links : peer[p].conn = "gone" => peer[p].sub = NoSub

(* A timer that fired for a replaced subscription does not take the        *)
(* renewed one down: a subscription goes away before its own expiry only   *)
(* when its connection or its grant is lost (expireAttentionSubscription). *)
ExpiryIsItsOwn ==
    \A p \in Links :
        (/\ peer[p].sub # NoSub /\ peer'[p].sub = NoSub /\ peer[p].conn = "open")
        => ~AuthorizeAttention(peer[p].sub.allowed, peer[p].sub.term)

(* A refresh that reached the end of its scan has published, for each that *)
(* stayed in the pages, a summary at least as new as the one the Store had *)
(* when the refresh was requested (RequestActivityRefresh waits for the    *)
(* scan token instead of adopting a periodic scan).  A caller that joins a *)
(* refresh in flight is promised this only of the Sessions whose page the  *)
(* scan had not read yet: of the others it is told of success, and what it *)
(* asked for may be unpublished (activity_dispatcher.go:156-164).          *)
RefreshPublishes ==
    (/\ scan.owner = "refresh" /\ DOMAIN scan.rows = {}
     /\ ~scan.more \/ AttentionSummaryPage(scan.after).rows = {})
    => \A s \in Members : scan.need[s] <= scan.got[s]

(* What a client is shown of many Sessions is complete, current and its to *)
(* see: true summaries, frames under the grant of the moment, no ghost of  *)
(* a connection, no timer of a replaced subscription.                      *)
AttentionIsTrue ==
    [][/\ WrittenUnderGrant /\ ExpiryIsItsOwn
       /\ (CompleteIsTrue /\ GonePeersForgotten /\ RefreshPublishes)']_attVars

============================================================================
