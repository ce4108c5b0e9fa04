--------------------------- MODULE CommandRouting ---------------------------
(***************************************************************************)
(* Commands the Hub routes from memory (hub/websocket.go): the answers to  *)
(* permission requests and the commands no ledger keeps.  One plaintext    *)
(* Session of a Hub during one run of it, since h.acceptedCommands,        *)
(* h.decisions and h.pendingCommands live no longer; the first two are the *)
(* Hub's, and other Sessions fill them too.  commandMu is held over the    *)
(* persist, the write and the buffering; Adapters come, go and are fenced  *)
(* meanwhile.  A response names its request: one that does not is only     *)
(* recognised by its cmd_id, like the other commands.                      *)
(***************************************************************************)
EXTENDS Integers, Sequences

CONSTANTS
    Responses,        \* permission.respond commands
    Others,           \* commands neither persisted nor buffered: interrupt, stop, file.read
    Requests,
    RequestOf,        \* the request a response decides
    Elsewhere,        \* requests of other Sessions
    BufferCap,        \* maxPendingCommandsPerSession
    CommandWindow,    \* maxAcceptedCommandIDs
    DecisionWindow,   \* maxDecisionRequestIDs
    MaxRouted,        \* bound: commands that pass the preflight
    MaxAdapters       \* bound: Adapter connections

ASSUME RoutingConstants ==
    /\ RequestOf \in [Responses -> Requests]
    /\ Responses \cap Others = {} /\ Requests \cap Elsewhere = {}
    /\ BufferCap \in Nat \ {0} /\ CommandWindow \in Nat \ {0} /\ DecisionWindow \in Nat \ {0}
    /\ MaxRouted \in Nat /\ MaxAdapters \in Nat

VARIABLES
    mu,                    \* commandMu: who holds it and how far it is
    acceptedCommandOrder,  \* ids of accepted commands, oldest first
    decisionOrder,         \* decided requests, oldest first
    pendingCommands,       \* buffered responses, oldest first
    late,                  \* how many of them, the oldest, are past their TTL
    liveAdapter,           \* h.adapters of the Session: a connection, 0 when none
    adapterEpoch,          \* the connection the Store admitted last
    joining,               \* admitted and not published, 0 when none
    due,                   \* published connections yet to run deliverPendingCommands
    decisionLog,           \* permission.decision events, in seq order
    ruled,                 \* accepted responses, in order
    decided,               \* decided requests of all Sessions, in order
    sentToAdapter,         \* commands an Adapter's socket took
    torn,                  \* commands written by a write that reported an error
    lapsed,                \* responses dropped from the buffer after their TTL
    routed                 \* how many commands passed the preflight

routingVars == <<mu, acceptedCommandOrder, decisionOrder, pendingCommands, late, liveAdapter,
                 adapterEpoch, joining, due, decisionLog, ruled, decided, sentToAdapter, torn,
                 lapsed, routed>>

liveVars == <<liveAdapter, adapterEpoch, joining, due>>

RoutedCmd == Responses \cup Others

NoCmd == "no command"

Unlocked == [op |-> "free", cmd |-> NoCmd, conn |-> 0]

RoutingTypeOK ==
    /\ mu \in [op : {"free", "persist", "route", "write", "buffer", "flush"},
               cmd : RoutedCmd \cup {NoCmd}, conn : 0..MaxAdapters]
    /\ acceptedCommandOrder \in Seq(RoutedCmd \cup Elsewhere) /\ Len(acceptedCommandOrder) <= CommandWindow
    /\ decisionOrder \in Seq(Requests \cup Elsewhere) /\ Len(decisionOrder) <= DecisionWindow
    /\ pendingCommands \in Seq(Responses) /\ Len(pendingCommands) <= BufferCap
    /\ late \in 0..Len(pendingCommands)
    /\ liveAdapter \in 0..MaxAdapters /\ adapterEpoch \in 0..MaxAdapters
    /\ joining \in 0..MaxAdapters /\ due \subseteq 1..MaxAdapters
    /\ decisionLog \in Seq(Responses) /\ ruled \in Seq(Responses)
    /\ decided \in Seq(Requests \cup Elsewhere)
    /\ sentToAdapter \subseteq RoutedCmd /\ torn \subseteq sentToAdapter /\ lapsed \subseteq Responses
    /\ routed \in 0..MaxRouted

RoutingInit ==
    /\ mu = Unlocked
    /\ acceptedCommandOrder = <<>> /\ decisionOrder = <<>> /\ pendingCommands = <<>> /\ late = 0
    /\ liveAdapter = 0 /\ adapterEpoch = 0 /\ joining = 0 /\ due = {}
    /\ decisionLog = <<>> /\ ruled = <<>> /\ decided = <<>>
    /\ sentToAdapter = {} /\ torn = {} /\ lapsed = {} /\ routed = 0

Holds(seq, x) == \E i \in 1..Len(seq) : seq[i] = x

-----------------------------------------------------------------------------
(***************************************************************************)
(* The buffer.  Entries get the same TTL as they come, so the late ones    *)
(* are the oldest and to filter them out is to drop them from the front.   *)
(***************************************************************************)

PendingNow == SubSeq(pendingCommands, late + 1, Len(pendingCommands))

LateCommands == {pendingCommands[i] : i \in 1..late}

\* The entries whose TTL has passed are dropped, and others may be added.
prunePendingCommandsLocked(added) ==
    /\ pendingCommands' = PendingNow \o added
    /\ late' = 0
    /\ lapsed' = lapsed \cup LateCommands

\* Time: the TTL of the oldest entry that still has some passes.
Lapse ==
    /\ late < Len(pendingCommands) /\ late' = late + 1
    /\ UNCHANGED <<mu, acceptedCommandOrder, decisionOrder, pendingCommands, liveVars, decisionLog,
                   ruled, decided, sentToAdapter, torn, lapsed, routed>>

-----------------------------------------------------------------------------
(***************************************************************************)
(* handleClientCommand below its authorization.  A command that is         *)
(* answered `duplicate', or `adapter_offline' by the preflight, changes    *)
(* nothing and is no step.                                                 *)
(***************************************************************************)

\* Mutant: a response is only recognised by its cmd_id.
DuplicateIDOnly(c) == Holds(acceptedCommandOrder, c)

Duplicate(c) ==
    \/ Holds(acceptedCommandOrder, c)
    \/ c \in Responses /\ Holds(decisionOrder, RequestOf[c])

\* The preflight prunes; a full buffer rejects a response, even with an Adapter
\* to route it to.
preflightCommandRouteLocked(c) ==
    /\ mu = Unlocked /\ routed < MaxRouted /\ ~Duplicate(c)
    /\ IF c \in Responses
       THEN /\ prunePendingCommandsLocked(<<>>)
            /\ mu' = IF Len(PendingNow) >= BufferCap
                     THEN mu ELSE [op |-> "persist", cmd |-> c, conn |-> 0]
       ELSE /\ liveAdapter # 0
            /\ mu' = [op |-> "route", cmd |-> c, conn |-> 0]
            /\ UNCHANGED <<pendingCommands, late, lapsed>>
    /\ routed' = IF mu' = mu THEN routed ELSE routed + 1
    /\ UNCHANGED <<acceptedCommandOrder, decisionOrder, liveVars, decisionLog, ruled, decided,
                   sentToAdapter, torn>>

\* Append under the publication gate, or `persist_failed'.
persistCommandEvent(ok) ==
    /\ mu.op = "persist"
    /\ decisionLog' = IF ok THEN Append(decisionLog, mu.cmd) ELSE decisionLog
    /\ mu' = IF ok THEN [mu EXCEPT !.op = "route"] ELSE Unlocked
    /\ UNCHANGED <<acceptedCommandOrder, decisionOrder, pendingCommands, late, liveVars, ruled, decided,
                   sentToAdapter, torn, lapsed, routed>>

\* routeCommand reads h.adapters under h.mu, and lets it go.
routeCommand ==
    /\ mu.op = "route"
    /\ mu' = IF liveAdapter # 0 THEN [mu EXCEPT !.op = "write", !.conn = liveAdapter]
             ELSE IF mu.cmd \in Responses THEN [mu EXCEPT !.op = "buffer"] ELSE Unlocked
    /\ UNCHANGED <<acceptedCommandOrder, decisionOrder, pendingCommands, late, liveVars,
                   decisionLog, ruled, decided, sentToAdapter, torn, lapsed, routed>>

Remember(order, x, cap) == IF Len(order) < cap THEN Append(order, x) ELSE Append(Tail(order), x)

\* markCommandAcceptedLocked and markDecisionAcceptedLocked, and the unlock.
markAccepted(c) ==
    /\ acceptedCommandOrder' = Remember(acceptedCommandOrder, c, CommandWindow)
    /\ IF c \in Responses
       THEN /\ decisionOrder' = Remember(decisionOrder, RequestOf[c], DecisionWindow)
            /\ ruled' = Append(ruled, c) /\ decided' = Append(decided, RequestOf[c])
       ELSE UNCHANGED <<decisionOrder, ruled, decided>>
    /\ mu' = Unlocked

\* What a write to a connection can come to: one that is fenced in the Store or
\* no longer the live one is refused (effectMu keeps a hello out from there to the
\* write's end), and the write can fail after the bytes went.
writeAdapterFrame(c, n, result) ==
    /\ result \in IF n = adapterEpoch /\ n = liveAdapter THEN {"ok", "error", "torn"} ELSE {"error"}
    /\ sentToAdapter' = IF result = "error" THEN sentToAdapter ELSE sentToAdapter \cup {c}
    /\ torn' = IF result = "torn" THEN torn \cup {c} ELSE torn
    /\ liveAdapter' = IF result # "ok" /\ liveAdapter = n THEN 0 ELSE liveAdapter
    /\ UNCHANGED <<adapterEpoch, joining, due>>

\* The write, and the unregistration of an Adapter it failed on.
routeOrBufferCommand(result) ==
    /\ mu.op = "write"
    /\ writeAdapterFrame(mu.cmd, mu.conn, result)
    /\ IF result = "ok" THEN markAccepted(mu.cmd)
       ELSE /\ mu' = IF mu.cmd \in Responses
                     THEN [mu EXCEPT !.op = "buffer", !.conn = 0] ELSE Unlocked
            /\ UNCHANGED <<acceptedCommandOrder, decisionOrder, ruled, decided>>
    /\ UNCHANGED <<pendingCommands, late, decisionLog, lapsed, routed>>

bufferCommandLocked ==
    /\ mu.op = "buffer"
    /\ IF Len(PendingNow) >= BufferCap
       THEN /\ prunePendingCommandsLocked(<<>>)
            /\ mu' = Unlocked
            /\ UNCHANGED <<acceptedCommandOrder, decisionOrder, ruled, decided>>
       ELSE /\ prunePendingCommandsLocked(<<mu.cmd>>)
            /\ markAccepted(mu.cmd)
    /\ UNCHANGED <<liveVars, decisionLog, sentToAdapter, torn, routed>>

-----------------------------------------------------------------------------
(***************************************************************************)
(* Adapters.                                                               *)
(***************************************************************************)

\* registerAdapter: the Store admits a connection and fences the one before.
admitAdapter ==
    /\ adapterEpoch < MaxAdapters
    /\ adapterEpoch' = adapterEpoch + 1 /\ joining' = adapterEpoch + 1
    /\ UNCHANGED <<mu, acceptedCommandOrder, decisionOrder, pendingCommands, late, liveAdapter, due,
                   decisionLog, ruled, decided, sentToAdapter, torn, lapsed, routed>>

\* publishAdapterHello: from here routeCommand finds it; the flush comes later.
publishAdapterHello ==
    /\ joining # 0
    /\ liveAdapter' = joining /\ due' = due \cup {joining} /\ joining' = 0
    /\ UNCHANGED <<mu, acceptedCommandOrder, decisionOrder, pendingCommands, late, adapterEpoch,
                   decisionLog, ruled, decided, sentToAdapter, torn, lapsed, routed>>

\* The connection's handler returns, also when its durable commands cannot be
\* delivered; a connection that is no longer the live one is left alone.
unregisterAdapter(n) ==
    /\ n \in due \cup {liveAdapter, joining} /\ n # 0
    /\ liveAdapter' = IF liveAdapter = n THEN 0 ELSE liveAdapter
    /\ joining' = IF joining = n THEN 0 ELSE joining
    /\ due' = due \ {n}
    /\ UNCHANGED <<mu, acceptedCommandOrder, decisionOrder, pendingCommands, late, adapterEpoch,
                   decisionLog, ruled, decided, sentToAdapter, torn, lapsed, routed>>

\* deliverPendingCommands takes commandMu and reads the clock once.
deliverPendingCommands(n) ==
    /\ mu = Unlocked /\ n \in due
    /\ mu' = [op |-> "flush", cmd |-> NoCmd, conn |-> n]
    /\ due' = due \ {n}
    /\ prunePendingCommandsLocked(<<>>)
    /\ UNCHANGED <<acceptedCommandOrder, decisionOrder, liveAdapter, adapterEpoch, joining,
                   decisionLog, ruled, decided, sentToAdapter, torn, routed>>

\* The next entry is written; the first that fails stays, with those behind it.
deliverNext(result) ==
    /\ mu.op = "flush" /\ pendingCommands # <<>>
    /\ writeAdapterFrame(Head(pendingCommands), mu.conn, result)
    /\ IF result = "ok"
       THEN pendingCommands' = Tail(pendingCommands) /\ late' = IF late = 0 THEN 0 ELSE late - 1
       ELSE UNCHANGED <<pendingCommands, late>>
    /\ mu' = IF result = "ok" THEN mu ELSE Unlocked
    /\ UNCHANGED <<acceptedCommandOrder, decisionOrder, decisionLog, ruled, decided, lapsed, routed>>

deliverDone ==
    /\ mu.op = "flush" /\ pendingCommands = <<>>
    /\ mu' = Unlocked
    /\ UNCHANGED <<acceptedCommandOrder, decisionOrder, pendingCommands, late, liveVars,
                   decisionLog, ruled, decided, sentToAdapter, torn, lapsed, routed>>

\* A decision in another Session, which takes a place in the Hub's windows.
decideElsewhere(x) ==
    /\ mu = Unlocked /\ routed < MaxRouted /\ ~Holds(decisionOrder, x)
    /\ acceptedCommandOrder' = Remember(acceptedCommandOrder, x, CommandWindow)
    /\ decisionOrder' = Remember(decisionOrder, x, DecisionWindow)
    /\ decided' = Append(decided, x) /\ routed' = routed + 1
    /\ UNCHANGED <<mu, pendingCommands, late, liveVars, decisionLog, ruled, sentToAdapter, torn, lapsed>>

WriteResult == {"ok", "error", "torn"}

RoutingNext ==
    \/ \E c \in RoutedCmd : preflightCommandRouteLocked(c)
    \/ \E ok \in BOOLEAN : persistCommandEvent(ok)
    \/ routeCommand
    \/ \E result \in WriteResult : routeOrBufferCommand(result)
    \/ bufferCommandLocked
    \/ admitAdapter \/ publishAdapterHello
    \/ \E n \in 1..MaxAdapters : unregisterAdapter(n) \/ deliverPendingCommands(n)
    \/ \E result \in WriteResult : deliverNext(result)
    \/ deliverDone
    \/ \E x \in Elsewhere : decideElsewhere(x)
    \/ Lapse

RoutingSpec == RoutingInit /\ [][RoutingNext]_routingVars

-----------------------------------------------------------------------------
(***************************************************************************)
(* What the Hub promises of permission decisions.                          *)
(***************************************************************************)

\* h.decisions: of two accepted decisions on one request the second is more
\* than a window of other decisions behind, so that the first one stands.
FirstDecisionStands ==
    \A i, j \in 1..Len(decided) : i < j /\ decided[i] = decided[j] => j - i > DecisionWindow

\* The response whose event is in the log and that is not answered yet.
OnItsWay ==
    IF mu.op \in {"route", "write", "buffer"} /\ mu.cmd \in Responses THEN <<mu.cmd>> ELSE <<>>

\* The log has the decisions that were accepted, in that order, and none that
\* was rejected: the room the preflight found is there after the persist.
LogIsTheRuling == decisionLog = ruled \o OnItsWay

Buffered(c) == Holds(pendingCommands, c)

\* An accepted decision was written to an Adapter, waits for one, or was dropped
\* after its TTL: no failed write, fenced or replaced Adapter loses it.
NoDecisionLost ==
    \A i \in 1..Len(ruled) : ruled[i] \in sentToAdapter \/ Buffered(ruled[i]) \/ ruled[i] \in lapsed

RuledTwice(c) == \E i, j \in 1..Len(ruled) : i < j /\ ruled[i] = c /\ ruled[j] = c

\* A decision that was written is only written again if its write reported an
\* error, or its command was accepted a second time.
RewrittenOnlyIfTorn ==
    \A c \in Responses : Buffered(c) /\ c \in sentToAdapter => c \in torn \/ RuledTwice(c)

\* Permission decisions (handleClientCommand, deliverPendingCommands): the first
\* one stands, the log has the accepted ones, and each is written or waits.
DecisionsAreFinal ==
    FirstDecisionStands /\ LogIsTheRuling /\ NoDecisionLost /\ RewrittenOnlyIfTorn
=============================================================================
