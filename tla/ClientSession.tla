---------------------------- MODULE ClientSession ----------------------------
(***************************************************************************)
(* The TypeScript client (AgentWharfClient) of one session: its sockets,   *)
(* the replay cursor, the reconnect timer, the encrypted event lane, tail  *)
(* hydration through history pages, and the delivery state of a command.   *)
(*                                                                         *)
(* The client runs on one thread, but every callback is a step of its own: *)
(* a socket that was replaced keeps its handlers, the token refresh and    *)
(* the sealing or opening of a payload are awaited.  The Hub is external:  *)
(* it answers a hello, replays after the cursor in order, appends events,  *)
(* and acknowledges commands.  Live, it may pass over a number: it appends *)
(* events it does not broadcast, and may write two in the wrong order.     *)
(***************************************************************************)
EXTENDS Integers, Sequences, SequencesExt

CONSTANTS
    MaxSockets,     \* bound on openSocket calls
    MaxSeq,         \* bound on the session's log
    MaxSends,       \* bound on sendCommand calls with the same id; or else one historyPage call
    SkipThreshold,  \* encryptedReplaySkipThreshold
    LaneCap         \* the capacity of the encrypted lane (128)

ASSUME ClientSessionAssumption ==
    /\ MaxSockets \in Nat \ {0} /\ MaxSeq \in Nat /\ MaxSends \in Nat
    /\ SkipThreshold \in Nat /\ LaneCap \in Nat \ {0}

VARIABLES
    encrypted,      \* options.encrypted is set
    client,         \* the client's fields
    socks,          \* every socket that was opened, its lane and the Hub's end of it
    page,           \* a history page request
    command,        \* one command id: pendingCommands, deliveryStates, the Hub's record
    log,            \* the kinds of the session's durable events, by seq
    seen,           \* the seqs the caller was given, by an event or in a page
    waived          \* the seqs the client asked or chose not to get, or that the Hub passed over

csVars == <<encrypted, client, socks, page, command, log, seen, waived>>

Sockets == 1..MaxSockets
Kinds == {"capability", "outcome", "foreign"}
Latest == Len(log)
Used == Cardinality({i \in Sockets : socks[i].st # "none"})
Current(i) == client.socket = i /\ client.ready
NoPage == [page EXCEPT !.st = "none", !.sock = 0, !.before = 0, !.latest = 0]

ClientInit ==
    /\ encrypted \in BOOLEAN
    /\ \E skip \in BOOLEAN :
        client = [socket |-> 0, ready |-> FALSE, closed |-> FALSE, timer |-> FALSE, refreshing |-> 0,
                  cursor |-> 0, capability |-> 0, skipReplayOnce |-> skip, tail |-> FALSE, skipTo |-> 0,
                  told |-> TRUE]
    /\ socks = [i \in Sockets |-> [st |-> "none", by |-> "caller", after |-> 0, upto |-> 0, got |-> {}, passed |-> {},
                                   lane |-> <<>>, opening |-> FALSE, sent |-> 0, acks |-> {}]]
    /\ page = [st |-> "none", sock |-> 0, before |-> 0, latest |-> 0, asked |-> 0]
    /\ command = [pending |-> FALSE, sends |-> 0, routing |-> "none", provider |-> "none", seal |-> "none",
                  waits |-> <<>>, stored |-> FALSE]
    /\ log = <<>> /\ seen = {} /\ waived = {}

\* A closed socket delivers nothing more; only the frame being opened remains.
Shut(i) == [socks EXCEPT ![i].st = "closed", ![i].after = 0, ![i].upto = 0, ![i].got = {},
                         ![i].sent = 0, ![i].acks = {}, ![i].passed = IF socks[i].opening THEN @ ELSE {},
                         ![i].lane = IF socks[i].opening THEN <<Head(@)>> ELSE <<>>]

\* openSocket: the new socket replaces the client's, whose handlers stay.
Open(c, who) ==
    /\ Used < MaxSockets
    /\ LET i == Used + 1 IN
       /\ socks' = [socks EXCEPT ![i].st = "connecting", ![i].by = who]
       /\ client' = [c EXCEPT !.socket = i]

connect ==
    /\ Open([client EXCEPT !.closed = FALSE, !.ready = FALSE, !.told = FALSE], "caller")
    /\ UNCHANGED <<encrypted, page, command, log, seen, waived>>

\* resume, when the client is not connected already.
resume ==
    /\ ~(client.socket # 0 /\ client.ready)
    /\ Open([client EXCEPT !.closed = FALSE, !.ready = FALSE, !.told = FALSE], "caller")
    /\ UNCHANGED <<encrypted, page, command, log, seen, waived>>

\* rejectPendingCommands: what an event proved is kept, the rest is unknown.
RejectedCommand ==
    IF ~command.pending THEN command
    ELSE [command EXCEPT !.pending = FALSE, !.routing = "unknown",
                         !.provider = IF @ = "completed" THEN @ ELSE "unknown"]

close ==
    /\ ~client.closed
    /\ client' = [client EXCEPT !.closed = TRUE, !.timer = FALSE, !.ready = FALSE, !.socket = 0, !.told = TRUE]
    /\ socks' = IF client.socket = 0 THEN socks ELSE Shut(client.socket)
    /\ command' = RejectedCommand /\ page' = NoPage
    /\ UNCHANGED <<encrypted, log, seen, waived>>

-----------------------------------------------------------------------------
\* The socket's callbacks.  The client's handlers stay on a replaced socket.

\* onopen: helloFrame, with the cursor of this moment; after = -1 asks to skip the replay.
onopen(i) ==
    /\ socks[i].st = "connecting"
    /\ socks' = [socks EXCEPT ![i].st = "hello", ![i].after = IF client.skipReplayOnce THEN -1 ELSE client.cursor]
    /\ client' = [client EXCEPT !.skipReplayOnce = FALSE, !.tail = client.skipReplayOnce]
    /\ UNCHANGED <<encrypted, page, command, log, seen, waived>>

\* onmessage(hello.ack).  A skipped replay starts after the Hub's latest seq; an
\* encrypted client that is too far behind moves its cursor there by itself.
helloAck(i) ==
    /\ socks[i].st = "hello"
    /\ LET jump == encrypted /\ ~client.tail /\ Latest - client.cursor > SkipThreshold
           skipped == IF jump \/ socks[i].after = -1 THEN 1..Latest ELSE {}
       IN /\ client' = [client EXCEPT !.ready = TRUE, !.skipTo = IF jump THEN Latest ELSE 0,
                                      !.cursor = IF jump THEN Latest ELSE @]
          /\ waived' = waived \cup (skipped \ seen)
          /\ socks' = [socks EXCEPT ![i].st = "ready", ![i].upto = Latest, ![i].after = IF @ = -1 THEN Latest ELSE @]
    /\ UNCHANGED <<encrypted, page, command, log, seen>>

\* scheduleReconnect.
Scheduled(c) == [c EXCEPT !.timer = TRUE]

\* The promise of openSocket is rejected: the caller is told, the reconnect loop
\* tries again.
rejected(i, c) == IF socks[i].by = "caller" THEN [c EXCEPT !.told = TRUE] ELSE Scheduled(c)

\* A hello.ack that does not validate: the client lets go of the socket.
badHelloAck(i) ==
    /\ socks[i].st = "hello"
    /\ client' = rejected(i, IF client.socket = i THEN [client EXCEPT !.socket = 0] ELSE client)
    /\ socks' = Shut(i)
    /\ UNCHANGED <<encrypted, page, command, log, seen, waived>>

\* onerror: a close follows.
onerror(i) ==
    /\ socks[i].st \in {"connecting", "hello"}
    /\ client' = rejected(i, client)
    /\ socks' = [socks EXCEPT ![i].st = "errored"]
    /\ UNCHANGED <<encrypted, page, command, log, seen, waived>>

\* onclose: a socket that was replaced changes nothing.
onclose(i) ==
    /\ socks[i].st \in {"connecting", "hello", "ready", "closing", "errored"}
    /\ socks' = Shut(i)
    /\ IF client.socket # i THEN UNCHANGED <<client, page, command>>
       ELSE LET gone == [client EXCEPT !.socket = 0, !.ready = FALSE, !.skipTo = 0, !.tail = FALSE]
                told == IF socks[i].st \in {"ready", "closing"} THEN gone ELSE rejected(i, gone)
            IN /\ client' = IF client.closed THEN told ELSE Scheduled(told)
               /\ command' = RejectedCommand /\ page' = NoPage
    /\ UNCHANGED <<encrypted, log, seen, waived>>

\* The reconnect timer fires; the token is refreshed; the attempt is made.
timerFires ==
    /\ client.timer
    /\ client' = [client EXCEPT !.timer = FALSE, !.refreshing = @ + 1]
    /\ UNCHANGED <<encrypted, socks, page, command, log, seen, waived>>

refreshed ==
    /\ client.refreshing > 0
    /\ Open([client EXCEPT !.refreshing = @ - 1], "reconnect")
    /\ UNCHANGED <<encrypted, page, command, log, seen, waived>>

-----------------------------------------------------------------------------
\* Events.

\* updateSettingsFromEvent.
newestCapability(c, n) == IF log[n] = "capability" /\ n >= c THEN n ELSE c

\* The Hub writes event n on socket i (external): the replay in order, then live
\* events of which it may leave some out or behind.
Arrives(i, n) ==
    /\ socks[i].st = "ready" /\ n > socks[i].after /\ n \notin socks[i].got
    /\ (socks[i].after + 1)..(IF n > socks[i].upto THEN socks[i].upto ELSE n - 1) \subseteq socks[i].got

Got(i, n) == [socks EXCEPT ![i].got = @ \cup {n},
                           ![i].passed = @ \cup (((socks[i].after + 1)..(n - 1)) \ socks[i].got)]

\* The cursor moves to n over what the Hub had passed over on that socket.
PassedOver(i, n) == {m \in Got(i, n)[i].passed : m < n}

\* handleEvent: settings, delivery state, cursor, handlers.  An event beyond the
\* next number moves the cursor as any other does.
handleEvent(i, n) ==
    /\ waived' = waived \cup (PassedOver(i, n) \ seen)
    /\ client' = [client EXCEPT !.capability = newestCapability(@, n), !.cursor = IF n > @ THEN n ELSE @]
    /\ command' = IF log[n] = "outcome" THEN [command EXCEPT !.provider = "completed"] ELSE command
    /\ seen' = seen \cup {n}

\* onmessage(event) of a client in the clear.
plainEvent(i, n) ==
    /\ ~encrypted /\ Arrives(i, n)
    /\ handleEvent(i, n)
    /\ socks' = Got(i, n)
    /\ UNCHANGED <<encrypted, page, log>>

\* enqueueEncryptedEvent: a skipped frame, a full lane, or one more in the lane.
\* Only the current socket's lane is encryptedEventState's.
enqueueEncryptedEvent(i, n) ==
    /\ encrypted /\ Arrives(i, n)
    /\ LET got == Got(i, n)
       IN IF client.socket # i \/ (client.skipTo # 0 /\ n <= client.skipTo)
          THEN socks' = got /\ UNCHANGED client
          ELSE /\ client' = [client EXCEPT !.skipTo = 0]
               /\ socks' = IF Len(socks[i].lane) < LaneCap
                           THEN [got EXCEPT ![i].lane = Append(@, n)]
                           ELSE [got EXCEPT ![i].st = "closing", ![i].lane = <<>>, ![i].opening = FALSE]
    /\ UNCHANGED <<encrypted, page, command, log, seen, waived>>

Pop(i) == [socks EXCEPT ![i].lane = IF @ = <<>> THEN @ ELSE Tail(@), ![i].opening = FALSE]

\* The lane starts on its next frame: a stale one is dropped, another is opened;
\* one that leaves a gap behind the cursor is opened too, with a warning.
laneStarts(i) ==
    /\ socks[i].lane # <<>> /\ Head(socks[i].lane) # 0 /\ ~socks[i].opening
    /\ socks' = IF ~Current(i) \/ (Head(socks[i].lane) <= client.cursor /\ ~client.tail)
                THEN Pop(i)
                ELSE [socks EXCEPT ![i].opening = TRUE]
    /\ UNCHANGED <<encrypted, client, page, command, log, seen, waived>>

\* openEvent answers.  A command of a terminal whose key the client does not have
\* is dropped, and the cursor set to it.
laneOpens(i) ==
    /\ socks[i].opening
    /\ LET n == Head(socks[i].lane) IN
       IF log[n] = "foreign"
       THEN /\ client' = [client EXCEPT !.cursor = n]
            /\ waived' = waived \cup {n} \cup (PassedOver(i, n) \ seen)
            /\ UNCHANGED <<command, seen>>
       ELSE IF Current(i) THEN handleEvent(i, n) ELSE UNCHANGED <<client, command, seen, waived>>
    /\ socks' = Pop(i)
    /\ UNCHANGED <<encrypted, page, log>>

\* openEvent fails or times out: the current socket is closed, its lane is dead.
laneFails(i) ==
    /\ socks[i].opening /\ log[Head(socks[i].lane)] # "foreign"
    /\ socks' = IF client.socket = i
                THEN [socks EXCEPT ![i].st = IF @ = "closed" THEN @ ELSE "closing", ![i].lane = <<>>, ![i].opening = FALSE]
                ELSE Pop(i)
    /\ UNCHANGED <<encrypted, client, page, command, log, seen, waived>>

-----------------------------------------------------------------------------
\* History pages.  before = 0 asks for the newest page.

historyPage(before) ==
    /\ page.st = "none" /\ page.asked = 0 /\ command.sends = 0 /\ client.socket # 0 /\ (encrypted => client.ready)
    /\ socks[client.socket].st \in {"hello", "ready"} /\ 0 \notin Range(socks[client.socket].lane)
    /\ page' = [NoPage EXCEPT !.st = "asked", !.sock = client.socket, !.before = before, !.asked = @ + 1]
    /\ UNCHANGED <<encrypted, client, socks, command, log, seen, waived>>

\* The events of the answer.
OnPage == IF page.before = 0 THEN 1..page.latest ELSE 1..(page.before - 1)

\* Mutant: any page completes tail hydration.
acknowledgesAny == client.tail

\* Only the newest page of a tail subscription acknowledges skipped history.
acknowledges == client.tail /\ page.before = 0

\* resolveHistoryPage's finish: a replaced socket's page does nothing.
finishPage ==
    IF Current(page.sock)
    THEN /\ client' = IF acknowledges
                      THEN [client EXCEPT !.tail = FALSE, !.cursor = IF page.latest > @ THEN page.latest ELSE @]
                      ELSE client
         /\ seen' = seen \cup OnPage
         /\ page' = [page EXCEPT !.st = "held"]
    ELSE UNCHANGED <<client, seen, page>>

\* The Hub reads the page (external).
HubReadsPage ==
    /\ page.st = "asked" /\ socks[page.sock].st = "ready"
    /\ page' = [page EXCEPT !.st = "answered", !.latest = Latest]
    /\ UNCHANGED <<encrypted, client, socks, command, log, seen, waived>>

\* resolveHistoryPage: in the clear at once, encrypted in the lane of live events (0).
resolveHistoryPage ==
    /\ page.st = "answered" /\ socks[page.sock].st = "ready"
    /\ IF encrypted
       THEN /\ IF client.socket = page.sock
               THEN /\ socks' = [socks EXCEPT ![page.sock].lane = Append(@, 0)]
                    /\ page' = [page EXCEPT !.st = "inLane"]
               ELSE UNCHANGED socks /\ page' = NoPage
            /\ UNCHANGED <<client, seen>>
       ELSE finishPage /\ UNCHANGED socks
    /\ UNCHANGED <<encrypted, command, log, waived>>

\* The lane reaches the page, and openPage succeeds or fails.
laneOpensPage(i, ok) ==
    /\ socks[i].lane # <<>> /\ Head(socks[i].lane) = 0
    /\ socks' = Pop(i)
    /\ IF page.st = "inLane" /\ page.sock = i
       THEN IF ok THEN finishPage ELSE page' = NoPage /\ UNCHANGED <<client, seen>>
       ELSE UNCHANGED <<client, page, seen>>
    /\ UNCHANGED <<encrypted, command, log, waived>>

\* The caller hydrates the settings from the page it holds, or drops it.
hydrateFromEvents ==
    /\ page.st = "held"
    /\ client' = [client EXCEPT !.capability = FoldSet(LAMBDA n, c : newestCapability(c, n), @, OnPage)]
    /\ page' = NoPage
    /\ UNCHANGED <<encrypted, socks, command, log, seen, waived>>

\* The request is aborted by its signal.
abortPage ==
    /\ page.st \in {"asked", "answered", "inLane"}
    /\ page' = NoPage
    /\ UNCHANGED <<encrypted, client, socks, command, log, seen, waived>>

-----------------------------------------------------------------------------
\* Commands: one command id, sent once and retried by the caller.

Unknown(c) == [c EXCEPT !.pending = FALSE, !.routing = "unknown", !.provider = "unknown"]

\* socket.send of the command frame: a socket that is closing swallows it.
SendOn(i) == IF socks[i].st \in {"closing", "errored"} THEN socks ELSE [socks EXCEPT ![i].sent = @ + 1]

\* One continuation of the sealed payload: it sends on the socket it was made for,
\* or settles whatever is pending under the command id.
Resumed(c, i) == IF Current(i) \/ ~c.pending THEN c ELSE Unknown(c)

sendCommand ==
    /\ command.sends < MaxSends /\ page.asked = 0 /\ ~command.pending
    /\ client.socket # 0 /\ (encrypted => client.ready)
    /\ LET i == client.socket
           c == [command EXCEPT !.sends = @ + 1, !.pending = TRUE, !.routing = "pending", !.provider = "pending"]
       IN CASE encrypted /\ command.seal \in {"none", "sealing"} ->
                 /\ command' = [c EXCEPT !.seal = "sealing", !.waits = Append(@, i)]
                 /\ UNCHANGED socks
            [] (encrypted /\ command.seal = "failed") \/ (~encrypted /\ socks[i].st = "connecting") ->
                 command' = Unknown(c) /\ UNCHANGED socks
            [] OTHER -> command' = c /\ socks' = SendOn(i)
    /\ UNCHANGED <<encrypted, client, page, log, seen, waived>>

\* sealCommand answers; every send that waited for the payload goes on, in order.
sealed(ok) ==
    /\ command.seal = "sealing"
    /\ LET go == {k \in DOMAIN command.waits : ok /\ Current(command.waits[k])}
           done == FoldLeft(LAMBDA c, i : IF ok THEN Resumed(c, i) ELSE IF c.pending THEN Unknown(c) ELSE c,
                            command, command.waits)
       IN /\ command' = [done EXCEPT !.seal = IF ok THEN "sealed" ELSE "failed", !.waits = <<>>]
          /\ socks' = IF go = {} THEN socks ELSE SendOn(client.socket)
    /\ UNCHANGED <<encrypted, client, page, log, seen, waived>>

\* resolveCommand.
ackApplied(c, status) ==
    CASE status = "accepted"  -> [c EXCEPT !.pending = FALSE, !.routing = "accepted"]
      [] status = "rejected"  -> [c EXCEPT !.pending = FALSE, !.routing = "rejected", !.provider = "not_started"]
      [] status = "duplicate" -> [c EXCEPT !.pending = FALSE, !.routing = "duplicate", !.provider = "unknown"]

resolveCommand(i, status) ==
    /\ socks[i].st = "ready" /\ status \in socks[i].acks
    /\ socks' = [socks EXCEPT ![i].acks = @ \ {status}]
    /\ command' = IF command.pending THEN ackApplied(command, status) ELSE command
    /\ UNCHANGED <<encrypted, client, page, log, seen, waived>>

-----------------------------------------------------------------------------
\* The Hub (external).

\* It records a command once, and acknowledges it.
HubTakesCommand(i, ok) ==
    /\ socks[i].st = "ready" /\ socks[i].sent > 0
    /\ LET status == IF command.stored THEN "duplicate" ELSE IF ok THEN "accepted" ELSE "rejected" IN
       /\ socks' = [socks EXCEPT ![i].sent = @ - 1, ![i].acks = @ \cup {status}]
       /\ command' = [command EXCEPT !.stored = @ \/ ok]
    /\ UNCHANGED <<encrypted, client, page, log, seen, waived>>

\* It appends an event: the outcome only of a recorded command, once; a command of
\* another terminal matters to an encrypted client only.
HubAppends(kind) ==
    /\ Latest < MaxSeq
    /\ kind = "outcome" => command.stored /\ "outcome" \notin Range(log)
    /\ kind = "foreign" => encrypted
    /\ log' = Append(log, kind)
    /\ UNCHANGED <<encrypted, client, socks, page, command, seen, waived>>

ClientNext ==
    \/ connect \/ resume \/ close \/ timerFires \/ refreshed
    \/ \E i \in Sockets :
        \/ onopen(i) \/ helloAck(i) \/ badHelloAck(i) \/ onerror(i) \/ onclose(i)
        \/ (\E n \in DOMAIN log : plainEvent(i, n) \/ enqueueEncryptedEvent(i, n)) \/ laneStarts(i) \/ laneOpens(i) \/ laneFails(i)
        \/ (\E ok \in BOOLEAN : laneOpensPage(i, ok) \/ HubTakesCommand(i, ok))
        \/ (\E status \in {"accepted", "rejected", "duplicate"} : resolveCommand(i, status))
    \/ (\E before \in {0, 1} : historyPage(before))
    \/ HubReadsPage \/ resolveHistoryPage \/ hydrateFromEvents \/ abortPage
    \/ sendCommand \/ (\E ok \in BOOLEAN : sealed(ok))
    \/ (\E kind \in Kinds : HubAppends(kind))

ClientSpec == ClientInit /\ [][ClientNext]_csVars

-----------------------------------------------------------------------------
ClientTypeOK ==
    /\ encrypted \in BOOLEAN
    /\ client.socket \in 0..MaxSockets /\ client.cursor \in 0..MaxSeq /\ client.capability \in 0..MaxSeq
    /\ client.refreshing \in Nat
    /\ \A i \in Sockets :
        /\ socks[i].st \in {"none", "connecting", "hello", "ready", "closing", "errored", "closed"}
        /\ socks[i].after \in -1..MaxSeq /\ socks[i].upto \in 0..MaxSeq
        /\ socks[i].got \cup socks[i].passed \subseteq 1..MaxSeq
        /\ Len(socks[i].lane) <= LaneCap + 1
    /\ page.st \in {"none", "asked", "answered", "inLane", "held"}
    /\ command.provider \in {"none", "pending", "unknown", "not_started", "completed"}
    /\ log \in Seq(Kinds) /\ seen \subseteq 1..MaxSeq /\ waived \subseteq 1..MaxSeq

\* The replay cursor never passes an event the caller was not given (by an event
\* handler or in a history page), unless the client asked not to get it (a skipped
\* replay), dropped it as another terminal's command, or the Hub passed over it on
\* the very socket whose event moved the cursor.  The last is a loss: handleEvent
\* takes the cursor over the gap, and no reconnect replays it.  Nothing else is
\* lost, whichever sockets, lanes and pages raced.
NoEventLost == \A n \in 1..client.cursor : n \in seen \cup waived

\* A capability update never yields to an older one: neither the second delivery
\* of a replaced socket nor a page hydrated late takes the settings back.
NewestCapabilityKept == client'.capability >= client.capability

\* A client that was not closed and whose caller was not told of a failure is never
\* left without a socket and without an attempt to get one.
NeverStranded ==
    ~client.closed /\ ~client.told /\ client.socket = 0 => client.timer \/ client.refreshing > 0

\* A durable outcome stays known: only a new send of the same command id, or an
\* acknowledgement that is a rejection or a duplicate, takes it back; the ack of the
\* send, a lost socket or a late sealing do not.
EvidenceKept ==
    command.provider = "completed" /\ command'.provider # "completed"
    => command'.sends > command.sends \/ command'.routing \in {"duplicate", "rejected"}

\* What a client has it keeps: it misses no event but those the Hub passed over, is never left without a socket
\* or an attempt at one, and takes back neither a capability nor an outcome.
ClientLosesNothing ==
    [][NewestCapabilityKept /\ EvidenceKept /\ (NoEventLost /\ NeverStranded)']_csVars

=============================================================================
