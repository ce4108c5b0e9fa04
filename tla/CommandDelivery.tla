-------------------------- MODULE CommandDelivery --------------------------
(***************************************************************************)
(* Durable delivery of client commands to the Adapter of one Session: the  *)
(* pending-command ledger of the SQLite store (store/sqlite/store.go) and  *)
(* the goroutines of the Hub that use it (hub/websocket.go):               *)
(*                                                                         *)
(*   - one per client request, handleDurableSessionSendMode;               *)
(*   - one per Adapter socket: it is admitted, published, delivers the     *)
(*     commands left in the ledger (deliverPendingCommands) and then reads *)
(*     acknowledgements (readLoop, handlePendingCommandAck);               *)
(*   - one timer per delivery (expirePendingCommandClient), and one        *)
(*     goroutine per unregistered Adapter (rejectPendingCommandDeliveries).*)
(*                                                                         *)
(* A ledger call is one transaction and so one action.  required tells     *)
(* whether the Session is end-to-end encrypted: the ledger calls then go   *)
(* through the encrypted variants.                                         *)
(*                                                                         *)
(* Abstractions.  An Adapter is a connection; its name is used again once  *)
(* nothing in the Hub or the store refers to the old connection.           *)
(* "authority" is the connection whose epoch and generation the store's    *)
(* row holds (see AdapterConnection).  The 29 s life of a command is the   *)
(* set "expired"; the 30 s acknowledgement timer starts after the command  *)
(* was committed, so it fires only on expired commands.  A goroutine that  *)
(* gives a command up (GiveUp) does not wait for the ledger call, so it    *)
(* may take its next step earlier than in the code.                        *)
(***************************************************************************)
EXTENDS Naturals, Sequences, FiniteSets

CONSTANTS
    Command,      \* command identifiers (cmd_id)
    Adapter,      \* Adapter connections
    Handler,      \* goroutines serving client requests
    Modes,        \* the content modes a Session may have: a subset of BOOLEAN
    MaxAccepted,  \* maxAcceptedCommandIDs
    Recorded      \* the answers to clients that the history keeps

NoAdapter == "no adapter"
NoCommand == "no command"

ASSUME DeliveryAssumption ==
    /\ Modes \subseteq BOOLEAN /\ MaxAccepted \in Nat \ {0}
    /\ NoAdapter \notin Adapter /\ NoCommand \notin Command

VARIABLES
    required,     \* the Session's content mode: TRUE when endpoints encrypt
    ledger,       \* session_pending_commands.status, or "absent"
    events,       \* the commands of session_events, in seq order
    expired,      \* commands whose expires_at has passed
    authority,    \* the Adapter the store's connection row names
    registered,   \* h.adapters of the Session
    conn,         \* the goroutine of each Adapter socket
    handler,      \* the goroutine of each client request
    client,       \* h.pendingCommandClients
    resolving,    \* ResolvePendingCommandUnknown calls under way
    rejecting,    \* Adapters with a rejectPendingCommandDeliveries to run
    accepted,     \* h.acceptedCommandOrder
    inbox,        \* frames an Adapter has received and not acknowledged
    acks,         \* acknowledgements on their way to the Hub
    told,         \* history: the last answer clients got to each command
    sent          \* history: how often each command was written to an Adapter

vars == <<required, ledger, events, expired, authority, registered, conn, handler,
          client, resolving, rejecting, accepted, inbox, acks, told, sent>>

hubVars  == <<registered, conn, handler, client, resolving, rejecting, accepted>>
wireVars == <<inbox, acks, told, sent>>

NoClient == [adapter |-> NoAdapter, peer |-> FALSE]

Status == {"absent", "pending", "received", "completed", "outcome_unknown"}
AckStatus == {"accepted", "duplicate", "epoch_stale", "rejected"}
Answer == {"accepted", "duplicate", "persist_failed", "delivery_failed",
           "delivery_timeout", "epoch_stale"}
Client == [adapter : Adapter, peer : BOOLEAN] \cup {NoClient}
Resolution == [cmd : Command, answer : Answer, peer : BOOLEAN,
               leaving : Adapter \cup {NoAdapter}]
ConnPC == {"new", "publish", "list", "next", "unknown", "add", "write", "read",
             "resolve", "closed"}
ConnState == [pc : ConnPC, cmd : Command \cup {NoCommand}, todo : SUBSET Nat,
              peer : BOOLEAN, status : AckStatus]
HandlerState == [pc : {"idle", "commit", "claim", "add", "write"},
                 cmd : Command \cup {NoCommand}, adapter : Adapter \cup {NoAdapter}]

IdleConn == [pc |-> "new", cmd |-> NoCommand, todo |-> {}, peer |-> FALSE,
             status |-> "accepted"]
IdleHandler == [pc |-> "idle", cmd |-> NoCommand, adapter |-> NoAdapter]

InSeq(c, s) == \E i \in 1..Len(s) : s[i] = c

Init ==
    /\ required \in Modes
    /\ ledger = [c \in Command |-> "absent"]
    /\ events = <<>> /\ expired = {}
    /\ authority = NoAdapter /\ registered = NoAdapter
    /\ conn = [a \in Adapter |-> IdleConn]
    /\ handler = [h \in Handler |-> IdleHandler]
    /\ client = [c \in Command |-> NoClient]
    /\ resolving = {} /\ rejecting = {} /\ accepted = <<>>
    /\ inbox = [a \in Adapter |-> {}] /\ acks = [a \in Adapter |-> {}]
    /\ told = [c \in Command |-> "nothing"]
    /\ sent = [c \in Command |-> 0]

-----------------------------------------------------------------------------
(* The ledger *)

Current(a) == authority = a

\* queryPendingCommand also serves the encrypted commit, and refuses every
\* encrypted row: a retry is then an error and not a duplicate.
RetryAnswer == IF required THEN "persist_failed" ELSE "duplicate"

\* Mutant: the event is appended before the retry is recognised.
commitAgain(c) ==
    /\ ledger' = [ledger EXCEPT ![c] = "pending"]
    /\ events' = Append(events, c)

\* commitPendingCommand for a new command: event and ledger row together.
commitPendingCommand(c) ==
    /\ ledger[c] = "absent"
    /\ ledger' = [ledger EXCEPT ![c] = "pending"]
    /\ events' = Append(events, c)

\* Mutant: a received command is claimed once more.
claimReceived(c, a) == Current(a) /\ c \notin expired

\* claimPendingCommand succeeds and moves the row to received.
claimPendingCommand(c, a) ==
    Current(a) /\ c \notin expired /\ ledger[c] = "pending"

\* resolvePendingCommand: only the authority resolves, and only once.
resolvePendingCommand(c, a) == Current(a) /\ ledger[c] = "received"

\* Mutant: completed commands are overwritten too.
overwriteOutcome(c) == [ledger EXCEPT ![c] = "outcome_unknown"]

\* resolvePendingCommandUnknown: no authority is needed; a row that is not
\* received is left alone.
resolvePendingCommandUnknown(c) ==
    IF ledger[c] = "received"
    THEN [ledger EXCEPT ![c] = "outcome_unknown"] ELSE ledger

\* listPendingCommands: the events of the rows that are still open and in time.
listPendingCommands ==
    {i \in 1..Len(events) : /\ ledger[events[i]] \in {"pending", "received"}
                            /\ events[i] \notin expired}

\* ... of which the earliest comes first.
First(todo) == {i \in todo : \A j \in todo : i <= j}

-----------------------------------------------------------------------------
(* Shared pieces of the Hub *)

Tell(c, answer) ==
    told' = IF answer \in Recorded THEN [told EXCEPT ![c] = answer] ELSE told

\* unregisterAdapter: the pending deliveries are rejected by a goroutine.
unregisterAdapter(a) ==
    /\ registered' = IF registered = a THEN NoAdapter ELSE registered
    /\ rejecting' = rejecting \cup {a}

\* takePendingCommandClient and addPendingCommandClient.
takePendingCommandClient(c) == client' = [client EXCEPT ![c] = NoClient]
addPendingCommandClient(c, a, p) ==
    client' = [client EXCEPT ![c] = [adapter |-> a, peer |-> p]]

\* A goroutine is about to call resolvePendingCommandUnknown, unregister
\* the Adapter "leaving", if any, and answer the client, if any.
GiveUp(c, answer, p, leaving) ==
    resolving' = resolving \cup
        {[cmd |-> c, answer |-> answer, peer |-> p, leaving |-> leaving]}

\* markCommandAcceptedLocked: a bounded memory of accepted commands.
markCommandAccepted(c) ==
    IF InSeq(c, accepted) THEN accepted
    ELSE LET s == Append(accepted, c) IN
         IF Len(s) > MaxAccepted THEN Tail(s) ELSE s

-----------------------------------------------------------------------------
(* A client request: handleDurableSessionSendMode *)

GoTo(h, step) == handler' = [handler EXCEPT ![h].pc = step]
Done(h) == handler' = [handler EXCEPT ![h] = IdleHandler]

\* The Adapter registered now is the one the whole request works with.
\* Without one the answer is adapter_offline, and for a command remembered as
\* accepted (plain sessions only) it is duplicate: nothing else happens.
BeginSend(h, c) ==
    /\ handler[h].pc = "idle" /\ registered # NoAdapter
    /\ required \/ ~InSeq(c, accepted)
    /\ handler' = [handler EXCEPT ![h] =
                     [pc |-> "commit", cmd |-> c, adapter |-> registered]]
    /\ UNCHANGED <<required, ledger, events, expired, authority, registered, conn,
                   client, resolving, rejecting, accepted, wireVars>>

CommitNew(h) ==
    /\ handler[h].pc = "commit" /\ Current(handler[h].adapter)
    /\ commitPendingCommand(handler[h].cmd)
    /\ GoTo(h, "claim")
    /\ UNCHANGED <<required, expired, authority, registered, conn, client, resolving,
                   rejecting, accepted, wireVars>>

\* The command is in the ledger already, or the authority is lost.
CommitRefused(h) ==
    LET c == handler[h].cmd IN
    /\ handler[h].pc = "commit"
    /\ \/ Current(handler[h].adapter) /\ ledger[c] # "absent" /\ Tell(c, RetryAnswer)
       \/ ~Current(handler[h].adapter) /\ Tell(c, "persist_failed")
    /\ Done(h)
    /\ UNCHANGED <<required, ledger, events, expired, authority, registered, conn,
                   client, resolving, rejecting, accepted, inbox, acks, sent>>

SendClaims(h) ==
    LET c == handler[h].cmd IN
    /\ handler[h].pc = "claim"
    /\ claimPendingCommand(c, handler[h].adapter)
    /\ ledger' = [ledger EXCEPT ![c] = "received"]
    /\ GoTo(h, "add")
    /\ UNCHANGED <<required, events, expired, authority, registered, conn, client,
                   resolving, rejecting, accepted, wireVars>>

\* Another goroutine claimed it, the authority is lost or the time is up.
SendClaimFails(h) ==
    LET c == handler[h].cmd IN
    /\ handler[h].pc = "claim"
    /\ ~claimPendingCommand(c, handler[h].adapter)
    /\ GiveUp(c, "delivery_failed", TRUE, NoAdapter)
    /\ Done(h)
    /\ UNCHANGED <<required, ledger, events, expired, authority, registered, conn,
                   client, rejecting, accepted, wireVars>>

SendAddsClient(h) ==
    /\ handler[h].pc = "add"
    /\ addPendingCommandClient(handler[h].cmd, handler[h].adapter, TRUE)
    /\ GoTo(h, "write")
    /\ UNCHANGED <<required, ledger, events, expired, authority, registered, conn,
                   resolving, rejecting, accepted, wireVars>>

\* writeDurableAdapterFrame: the frame goes out inside a transaction that
\* holds the Adapter to be current.
Write(c, a) ==
    /\ Current(a)
    /\ sent' = [sent EXCEPT ![c] = @ + 1]
    /\ inbox' = [inbox EXCEPT ![a] = @ \cup {c}]

SendWrites(h) ==
    /\ handler[h].pc = "write"
    /\ Write(handler[h].cmd, handler[h].adapter)
    /\ Done(h)
    /\ UNCHANGED <<required, ledger, events, expired, authority, registered, conn,
                   client, resolving, rejecting, accepted, acks, told>>

\* The write or the transaction around it fails; the frame may be out.
SendWriteFails(h) ==
    LET c == handler[h].cmd  a == handler[h].adapter IN
    /\ handler[h].pc = "write"
    /\ Write(c, a) \/ UNCHANGED <<sent, inbox>>
    /\ takePendingCommandClient(c)
    /\ GiveUp(c, "delivery_failed", TRUE, a)
    /\ Done(h)
    /\ UNCHANGED <<required, ledger, events, expired, authority, registered, conn,
                   rejecting, accepted, acks, told>>

-----------------------------------------------------------------------------
(* An Adapter socket *)

At(a, step) == conn' = [conn EXCEPT ![a].pc = step]

\* ServeHTTP returns: the socket closes and the Adapter is unregistered.
Leave(a) ==
    /\ conn' = [conn EXCEPT ![a] = [IdleConn EXCEPT !.pc = "closed"]]
    /\ unregisterAdapter(a)
    /\ acks' = [acks EXCEPT ![a] = {}]

\* registerAdapter: the hello is accepted, the previous Adapter is superseded.
Admit(a) ==
    /\ conn[a].pc = "new"
    /\ authority' = a
    /\ At(a, "publish")
    /\ UNCHANGED <<required, ledger, events, expired, registered, handler, client,
                   resolving, rejecting, accepted, wireVars>>

\* publishAdapterHello; it fails when a later hello came first or the
\* acknowledgement of the hello cannot be written.
Publish(a) ==
    /\ conn[a].pc = "publish"
    /\ \/ Current(a) /\ registered' = a /\ At(a, "list")
       \/ At(a, "closed") /\ UNCHANGED registered
    /\ UNCHANGED <<required, ledger, events, expired, authority, handler, client,
                   resolving, rejecting, accepted, wireVars>>

ListCommands(a) ==
    /\ conn[a].pc = "list"
    /\ Current(a)
    /\ conn' = [conn EXCEPT ![a].pc = "next", ![a].todo = listPendingCommands]
    /\ UNCHANGED <<required, ledger, events, expired, authority, registered, handler,
                   client, resolving, rejecting, accepted, wireVars>>

\* deliverPendingCommands, one listed command at a time.  A command resolved
\* since the listing is skipped.
NextCommand(a) ==
    LET todo == conn[a].todo IN
    /\ conn[a].pc = "next"
    /\ \/ todo = {} /\ At(a, "read") /\ UNCHANGED ledger
       \/ \E i \in First(todo) : LET c == events[i] IN
          /\ Current(a) /\ c \notin expired
          /\ \/ /\ claimPendingCommand(c, a)
                /\ ledger' = [ledger EXCEPT ![c] = "received"]
                /\ conn' = [conn EXCEPT ![a].pc = "add", ![a].cmd = c,
                                        ![a].todo = todo \ {i}]
             \/ /\ ledger[c] = "received"
                /\ conn' = [conn EXCEPT ![a].pc = "unknown", ![a].cmd = c,
                                        ![a].todo = todo \ {i}]
                /\ UNCHANGED ledger
             \/ /\ ledger[c] \in {"completed", "outcome_unknown"} /\ ~required
                /\ conn' = [conn EXCEPT ![a].todo = todo \ {i}]
                /\ UNCHANGED ledger
    /\ UNCHANGED <<required, events, expired, authority, registered, handler, client,
                   resolving, rejecting, accepted, wireVars>>

\* A command received before is not sent again, and one whose event cannot be
\* read back (commandFromPendingEvent) is not sent at all.
GiveUpReceived(a) ==
    /\ conn[a].pc \in {"unknown", "add"} /\ ledger[conn[a].cmd] = "received"
    /\ ledger' = resolvePendingCommandUnknown(conn[a].cmd)
    /\ At(a, "next")
    /\ UNCHANGED <<required, events, expired, authority, registered, handler, client,
                   resolving, rejecting, accepted, wireVars>>

\* An error of observeAdapterActivity, which comes before the list, or of a
\* ledger call in the delivery loop ends the connection.
DeliveryFails(a) ==
    /\ \/ conn[a].pc = "list"
       \/ /\ conn[a].pc = "next"
          /\ \E i \in First(conn[a].todo) : LET c == events[i] IN
                \/ ~Current(a) \/ c \in expired
                \/ required /\ ledger[c] \in {"completed", "outcome_unknown"}
       \/ conn[a].pc \in {"unknown", "add"} /\ ledger[conn[a].cmd] # "received"
    /\ Leave(a)
    /\ UNCHANGED <<required, ledger, events, expired, authority, handler, client,
                   resolving, accepted, inbox, told, sent>>

LoopAddsClient(a) ==
    /\ conn[a].pc = "add"
    /\ addPendingCommandClient(conn[a].cmd, a, FALSE)
    /\ At(a, "write")
    /\ UNCHANGED <<required, ledger, events, expired, authority, registered, handler,
                   resolving, rejecting, accepted, wireVars>>

LoopWrites(a) ==
    /\ conn[a].pc = "write"
    /\ Write(conn[a].cmd, a)
    /\ At(a, "next")
    /\ UNCHANGED <<required, ledger, events, expired, authority, registered, handler,
                   client, resolving, rejecting, accepted, acks, told>>

LoopWriteFails(a) ==
    LET c == conn[a].cmd IN
    /\ conn[a].pc = "write"
    /\ Write(c, a) \/ UNCHANGED <<sent, inbox>>
    /\ takePendingCommandClient(c)
    /\ ledger' = resolvePendingCommandUnknown(c)
    /\ Leave(a)
    /\ UNCHANGED <<required, events, expired, authority, handler, resolving, accepted, told>>

-----------------------------------------------------------------------------
(* Acknowledgements: handlePendingCommandAck *)

\* pendingCommandAckCompleted and pendingCommandAckTerminalRejection.
AckCompletes(s) == s = "accepted" \/ (required /\ s = "duplicate")
AckRejectsForGood(s) == required /\ s = "epoch_stale"

\* The acknowledgement is looked up; one for no delivery is dropped.
ReadAck(a, c, s) ==
    LET fits == /\ client[c].adapter = a /\ registered = a
                /\ AckCompletes(s) \/ AckRejectsForGood(s) IN
    /\ conn[a].pc = "read" /\ <<c, s>> \in acks[a]
    /\ acks' = [acks EXCEPT ![a] = @ \ {<<c, s>>}]
    /\ \/ /\ client[c] = NoClient
          /\ UNCHANGED <<conn, client, resolving>>
       \/ /\ client[c] # NoClient /\ ~fits
          /\ takePendingCommandClient(c)
          /\ GiveUp(c, "delivery_failed", client[c].peer, NoAdapter)
          /\ UNCHANGED conn
       \/ /\ client[c] # NoClient /\ fits
          /\ conn' = [conn EXCEPT ![a].pc = "resolve", ![a].cmd = c,
                                  ![a].peer = client[c].peer, ![a].status = s]
          /\ UNCHANGED <<client, resolving>>
    /\ UNCHANGED <<required, ledger, events, expired, authority, registered, handler,
                   rejecting, accepted, inbox, told, sent>>

\* ... and the row resolved, unless it is received no more.
ResolveAck(a) ==
    LET c == conn[a].cmd  s == conn[a].status IN
    /\ conn[a].pc = "resolve"
    /\ takePendingCommandClient(c)
    /\ \/ /\ resolvePendingCommand(c, a)
          /\ ledger' = [ledger EXCEPT ![c] = "completed"]
          /\ accepted' = IF AckRejectsForGood(s) THEN accepted
                         ELSE markCommandAccepted(c)
          /\ IF conn[a].peer
             THEN Tell(c, IF AckRejectsForGood(s) THEN s ELSE "accepted")
             ELSE UNCHANGED told
          /\ UNCHANGED resolving
       \/ /\ ~resolvePendingCommand(c, a)
          /\ GiveUp(c, "delivery_failed", conn[a].peer, NoAdapter)
          /\ UNCHANGED <<ledger, accepted, told>>
    /\ At(a, "read")
    /\ UNCHANGED <<required, events, expired, authority, registered, handler, rejecting,
                   inbox, acks, sent>>

\* The socket of an Adapter that is reading is closed by either side.
Disconnect(a) ==
    /\ conn[a].pc = "read"
    /\ Leave(a)
    /\ UNCHANGED <<required, ledger, events, expired, authority, handler, client,
                   resolving, accepted, inbox, told, sent>>

\* watchAdapter, validateAdapter: a superseded Adapter is taken off the map.
RejectAdapter(a) ==
    /\ registered = a /\ ~Current(a)
    /\ registered' = NoAdapter
    /\ UNCHANGED <<required, ledger, events, expired, authority, conn, handler, client,
                   resolving, rejecting, accepted, wireVars>>

-----------------------------------------------------------------------------
(* Timers, deferred goroutines and the environment *)

\* Mutant: the timer forgets the row.
timeoutWithoutOutcome(c) ==
    /\ client[c] # NoClient /\ c \in expired
    /\ takePendingCommandClient(c)
    /\ unregisterAdapter(client[c].adapter)
    /\ UNCHANGED <<required, ledger, events, expired, authority, conn, handler,
                   resolving, accepted, wireVars>>

expirePendingCommandClient(c) ==
    /\ client[c] # NoClient /\ c \in expired
    /\ takePendingCommandClient(c)
    /\ GiveUp(c, "delivery_timeout", client[c].peer, client[c].adapter)
    /\ UNCHANGED <<required, ledger, events, expired, authority, registered, conn,
                   handler, rejecting, accepted, wireVars>>

rejectPendingCommandDeliveries(a) ==
    LET mine == {c \in Command : client[c].adapter = a} IN
    /\ a \in rejecting
    /\ rejecting' = rejecting \ {a}
    /\ client' = [c \in Command |-> IF c \in mine THEN NoClient ELSE client[c]]
    /\ resolving' = resolving \cup
         {[cmd |-> c, answer |-> "delivery_failed", peer |-> client[c].peer,
           leaving |-> NoAdapter] : c \in mine}
    /\ UNCHANGED <<required, ledger, events, expired, authority, registered, conn,
                   handler, accepted, wireVars>>

ResolveUnknown(r) ==
    /\ resolving' = resolving \ {r}
    /\ ledger' = resolvePendingCommandUnknown(r.cmd)
    /\ IF r.leaving # NoAdapter THEN unregisterAdapter(r.leaving)
       ELSE UNCHANGED <<registered, rejecting>>
    /\ IF r.peer THEN Tell(r.cmd, r.answer) ELSE UNCHANGED told
    /\ UNCHANGED <<required, events, expired, authority, conn, handler, client, accepted,
                   inbox, acks, sent>>

\* External: the Adapter takes the command, knows it already, or refuses it.
Acknowledge(a, c, s) ==
    /\ c \in inbox[a] /\ conn[a].pc # "closed"
    /\ s \in {"duplicate", "epoch_stale"} => required
    /\ inbox' = [inbox EXCEPT ![a] = @ \ {c}]
    /\ acks' = [acks EXCEPT ![a] = @ \cup {<<c, s>>}]
    /\ UNCHANGED <<required, ledger, events, expired, authority, hubVars, told, sent>>

\* The provider connects anew.
Reconnect(a) ==
    /\ conn[a].pc = "closed"
    /\ a \notin {authority, registered} \cup rejecting
    /\ \A h \in Handler : handler[h].adapter # a
    /\ \A c \in Command : client[c].adapter # a
    /\ \A r \in resolving : r.leaving # a
    /\ conn' = [conn EXCEPT ![a] = IdleConn]
    /\ inbox' = [inbox EXCEPT ![a] = {}]
    /\ UNCHANGED <<required, ledger, events, expired, authority, registered, handler,
                   client, resolving, rejecting, accepted, acks, told, sent>>

\* 29 seconds pass.
Expire(c) ==
    /\ ledger[c] # "absent" /\ c \notin expired
    /\ expired' = expired \cup {c}
    /\ UNCHANGED <<required, ledger, events, authority, hubVars, wireVars>>

\* The cache of accepted commands is the Hub's: those of other Sessions push the oldest out.
Evict ==
    /\ accepted # <<>>
    /\ accepted' = Tail(accepted)
    /\ UNCHANGED <<required, ledger, events, expired, authority, registered, conn, handler,
                   client, resolving, rejecting, wireVars>>

\* The credential expires, is rotated, or the Session ends.
LoseAuthority ==
    /\ authority # NoAdapter
    /\ authority' = NoAdapter
    /\ UNCHANGED <<required, ledger, events, expired, hubVars, wireVars>>

\* The Hub restarts: only the store survives.
Crash ==
    /\ registered' = NoAdapter
    /\ conn' = [a \in Adapter |-> IF conn[a].pc = "new" THEN conn[a]
                                  ELSE [IdleConn EXCEPT !.pc = "closed"]]
    /\ handler' = [h \in Handler |-> IdleHandler]
    /\ client' = [c \in Command |-> NoClient]
    /\ resolving' = {} /\ rejecting' = {} /\ accepted' = <<>>
    /\ acks' = [a \in Adapter |-> {}]
    /\ UNCHANGED <<required, ledger, events, expired, authority, inbox, told, sent>>

-----------------------------------------------------------------------------
HandlerStep(h) ==
    \/ CommitNew(h) \/ CommitRefused(h)
    \/ SendClaims(h) \/ SendClaimFails(h)
    \/ SendAddsClient(h) \/ SendWrites(h) \/ SendWriteFails(h)

ConnStep(a) ==
    \/ Publish(a) \/ ListCommands(a) \/ NextCommand(a) \/ GiveUpReceived(a)
    \/ DeliveryFails(a) \/ LoopAddsClient(a) \/ LoopWrites(a)
    \/ LoopWriteFails(a) \/ ResolveAck(a)

Read(a) == \E c \in Command, s \in AckStatus : ReadAck(a, c, s)

CommandStep(c) ==
    \/ expirePendingCommandClient(c)
    \/ \E r \in resolving : r.cmd = c /\ ResolveUnknown(r)

\* Everything but a restart of the Hub.
CalmNext ==
    \/ \E h \in Handler, c \in Command : BeginSend(h, c)
    \/ \E h \in Handler : HandlerStep(h)
    \/ \E a \in Adapter : Reconnect(a) \/ Admit(a) \/ ConnStep(a) \/ Read(a) \/ Disconnect(a)
                          \/ RejectAdapter(a) \/ rejectPendingCommandDeliveries(a)
    \/ \E a \in Adapter, c \in Command, s \in AckStatus : Acknowledge(a, c, s)
    \/ \E c \in Command : CommandStep(c) \/ Expire(c)
    \/ LoseAuthority
    \/ Evict

Next == CalmNext \/ Crash

\* Goroutines and timers run, Adapters come back, time passes.
Fairness ==
    /\ \A h \in Handler : WF_vars(HandlerStep(h))
    /\ \A a \in Adapter :
         /\ WF_vars(Reconnect(a) \/ Admit(a) \/ ConnStep(a) \/ Read(a))
         /\ WF_vars(rejectPendingCommandDeliveries(a))
    /\ \A c \in Command : WF_vars(CommandStep(c)) /\ WF_vars(Expire(c))

Spec == Init /\ [][Next]_vars
FairSpec == Spec /\ Fairness

-----------------------------------------------------------------------------
(* Properties *)

\* The types of the state; the cache of accepted commands stays within the
\* limit of markCommandAcceptedLocked; commands are sent only to an Adapter
\* whose socket is served (unregisterAdapter).
TypeOK ==
    /\ required \in Modes
    /\ ledger \in [Command -> Status]
    /\ events \in Seq(Command) /\ expired \subseteq Command
    /\ authority \in Adapter \cup {NoAdapter}
    /\ registered \in {NoAdapter} \cup {a \in Adapter : conn[a].pc \notin {"new", "closed"}}
    /\ conn \in [Adapter -> ConnState]
    /\ \A a \in Adapter : conn[a].todo \subseteq 1..Len(events)
    /\ handler \in [Handler -> HandlerState]
    /\ client \in [Command -> Client]
    /\ resolving \subseteq Resolution
    /\ rejecting \subseteq Adapter
    /\ accepted \in Seq(Command) /\ Len(accepted) <= MaxAccepted
    /\ inbox \in [Adapter -> SUBSET Command]
    /\ acks \in [Adapter -> SUBSET (Command \X AckStatus)]
    /\ told \in [Command -> Answer \cup {"nothing"}]
    /\ sent \in [Command -> Nat]

\* A command is written to an Adapter at most once, over all retries of the
\* client, reconnections of Adapters, timeouts and restarts of the Hub.
AtMostOnce == \A c \in Command : sent[c] <= 1

\* A command enters the event log once, with its ledger row.
OneEventPerCommand ==
    /\ \A i, j \in 1..Len(events) : events[i] = events[j] => i = j
    /\ \A c \in Command : ledger[c] # "absent" <=> InSeq(c, events)

\* What a client was told is accepted was sent, and its ledger row says
\* completed for ever after, whatever late timers and rejections do.
AcceptedIsCompleted ==
    \A c \in Command : told[c] = "accepted" =>
        ledger[c] = "completed" /\ sent[c] = 1

\* A received command is in somebody's hands: a goroutine about to deliver
\* it, a delivery with a timer, or a call that gives it up.
ReceivedHasOwner ==
    \A c \in Command : ledger[c] = "received" =>
        \/ \E h \in Handler : handler[h].cmd = c /\ handler[h].pc \in {"add", "write"}
        \/ \E a \in Adapter : conn[a].cmd = c /\ conn[a].pc \in {"add", "write"}
        \/ client[c] # NoClient
        \/ \E r \in resolving : r.cmd = c

\* Every received command gets an outcome.  A test of the Hub wants a row
\* that a reconnecting Adapter finds received to become outcome_unknown.
ReceivedIsResolved ==
    \A c \in Command :
        ledger[c] = "received" ~> ledger[c] \in {"completed", "outcome_unknown"}

\* A retry of a command in the ledger, on the current Adapter, is answered
\* duplicate, as the store's tests want of an identical encrypted commit.
RetryIsDuplicate ==
    [][\A h \in Handler : LET c == handler[h].cmd IN
        /\ handler[h].pc = "commit" /\ Current(handler[h].adapter)
        /\ ledger[c] # "absent" /\ told'[c] # told[c]
        => told'[c] = "duplicate"]_vars

=============================================================================
