----------------------- MODULE CommandDeliveryProofs ------------------------
(***************************************************************************)
(* Proofs, for any commands, Adapters and client requests, that a command  *)
(* enters the log once and reaches an Adapter at most once, that what a    *)
(* client was told is accepted was completed, and that, while the Hub      *)
(* stays up, a received command always has an owner.                       *)
(***************************************************************************)
EXTENDS CommandDelivery, TLAPS

(***************************************************************************)
(* The first layer: every step of the Hub keeps the types of the ledger,   *)
(* of the goroutines' state and of what is on the wire; a command is       *)
(* claimed by one goroutine, its ledger row only moves forward, and it is  *)
(* written by the goroutine that claimed it.                               *)
(***************************************************************************)

\* A goroutine that is past the ledger's check of its command has one, and a
\* registered Adapter has been published.
Busy ==
    /\ \A h \in Handler : handler[h].pc # "idle" =>
          handler[h].cmd \in Command /\ handler[h].adapter \in Adapter
    /\ \A a \in Adapter : conn[a].pc \in {"unknown", "add", "write", "resolve"} =>
          conn[a].cmd \in Command
    /\ registered # NoAdapter => conn[registered].pc # "publish"

-----------------------------------------------------------------------------
LEMMA AppendFacts ==
    ASSUME NEW S, NEW s \in Seq(S), NEW e \in S
    PROVE  /\ Append(s, e) \in Seq(S) /\ Append(s, e) # <<>>
           /\ Len(s) \in Nat /\ Len(Append(s, e)) = Len(s) + 1
           /\ Append(s, e)[Len(s) + 1] = e /\ \A i \in 1..Len(s) : Append(s, e)[i] = s[i]
    OBVIOUS

LEMMA TailFacts ==
    ASSUME NEW S, NEW s \in Seq(S), s # <<>>
    PROVE  Tail(s) \in Seq(S) /\ Len(Tail(s)) = Len(s) - 1
    OBVIOUS

\* The updates the actions are made of keep the types.
LEMMA HandlerUpdate ==
    ASSUME handler \in [Handler -> HandlerState], NEW h \in Handler
    PROVE  /\ \A step \in {"idle", "commit", "claim", "add", "write"} :
                [handler EXCEPT ![h].pc = step] \in [Handler -> HandlerState]
           /\ [handler EXCEPT ![h] = IdleHandler] \in [Handler -> HandlerState]
<1>1. IdleHandler \in HandlerState
    BY Zenon DEF IdleHandler, HandlerState
<1>2. \A step \in {"idle", "commit", "claim", "add", "write"} :
        [handler[h] EXCEPT !.pc = step] \in HandlerState
    BY Zenon DEF HandlerState
<1> QED
    BY Zenon, <1>1, <1>2

LEMMA ConnUpdate ==
    ASSUME conn \in [Adapter -> ConnState], NEW a \in Adapter,
           NEW step \in ConnPC
    PROVE  /\ [conn EXCEPT ![a].pc = step] \in [Adapter -> ConnState]
           /\ [conn EXCEPT ![a] = [IdleConn EXCEPT !.pc = step]] \in [Adapter -> ConnState]
<1>1. [IdleConn EXCEPT !.pc = step] \in ConnState
    BY Zenon DEF IdleConn, ConnState, AckStatus
<1>2. [conn[a] EXCEPT !.pc = step] \in ConnState
    BY Zenon DEF ConnState
<1> QED
    BY Zenon, <1>1, <1>2

LEMMA GiveUpType ==
    ASSUME resolving \subseteq Resolution, NEW c \in Command, NEW p \in BOOLEAN,
           NEW leaving \in Adapter \cup {NoAdapter}, NEW answer \in Answer,
           GiveUp(c, answer, p, leaving)
    PROVE  resolving' \subseteq Resolution
    BY DEF GiveUp, Resolution

LEMMA WriteType ==
    ASSUME TypeOK, NEW c \in Command, NEW a \in Adapter, Write(c, a)
    PROVE  sent' \in [Command -> Nat] /\ inbox' \in [Adapter -> SUBSET Command]
    BY DEF Write, TypeOK

LEMMA HandlerTypes ==
    ASSUME TypeOK, Busy, NEW h \in Handler, HandlerStep(h)
    PROVE  TypeOK'
<1> USE DeliveryAssumption, HandlerUpdate DEF wireVars, hubVars
<1>1. CASE CommitNew(h)
  <2>1. handler[h].cmd \in Command
      BY Zenon, <1>1 DEF Busy, CommitNew
  <2>2. events' \in Seq(Command) /\ Len(events') = Len(events) + 1 /\ Len(events) \in Nat
      BY <1>1, <2>1 DEF TypeOK, CommitNew, commitPendingCommand
  <2>3. \A a \in Adapter : conn'[a].todo \subseteq 1..Len(events')
    <3>1. 1..Len(events) \subseteq 1..Len(events')
        BY <2>2
    <3> QED
        BY Zenon, <1>1, <3>1 DEF TypeOK, CommitNew
  <2>4. ledger' \in [Command -> Status] /\ handler' \in [Handler -> HandlerState]
      BY Zenon, <1>1, <2>1 DEF TypeOK, CommitNew, commitPendingCommand, GoTo, Status
  <2> QED
      BY Zenon, <1>1, <2>2, <2>3, <2>4 DEF TypeOK, CommitNew
<1>2. CASE CommitRefused(h)
    BY Zenon, <1>2 DEF TypeOK, Busy, CommitRefused, Tell, RetryAnswer, Done, Answer
<1>3. CASE SendClaims(h)
    BY Zenon, <1>3 DEF TypeOK, Busy, SendClaims, claimPendingCommand, GoTo, Status
<1>4. CASE SendClaimFails(h)
    BY Zenon, <1>4, GiveUpType DEF TypeOK, Busy, SendClaimFails, Done, Answer
<1>5. CASE SendAddsClient(h)
    BY Zenon, <1>5 DEF TypeOK, Busy, SendAddsClient, addPendingCommandClient, GoTo, Client
<1>6. CASE SendWrites(h)
    BY Zenon, <1>6, WriteType DEF TypeOK, Busy, SendWrites, Done
<1>7. CASE SendWriteFails(h)
  <2> DEFINE c == handler[h].cmd  a == handler[h].adapter
  <2>1. c \in Command /\ a \in Adapter
      BY Zenon, <1>7 DEF Busy, SendWriteFails
  <2>2. sent' \in [Command -> Nat] /\ inbox' \in [Adapter -> SUBSET Command]
      BY Zenon, <1>7, <2>1, WriteType DEF SendWriteFails, TypeOK
  <2>3. resolving' \subseteq Resolution
      BY Zenon, <1>7, <2>1, GiveUpType DEF SendWriteFails, Answer, TypeOK
  <2> QED
      BY Zenon, <1>7, <2>1, <2>2, <2>3
         DEF TypeOK, SendWriteFails, Done, takePendingCommandClient, Client
<1> QED
    BY Zenon, <1>1, <1>2, <1>3, <1>4, <1>5, <1>6, <1>7 DEF HandlerStep

LEMMA TellType ==
    ASSUME TypeOK, NEW c \in Command, NEW answer \in Answer, Tell(c, answer)
    PROVE  told' \in [Command -> Answer \cup {"nothing"}]
    BY Zenon DEF Tell, TypeOK

LEMMA UnknownType ==
    ASSUME TypeOK, NEW c \in Command
    PROVE  resolvePendingCommandUnknown(c) \in [Command -> Status]
    BY Zenon DEF resolvePendingCommandUnknown, TypeOK, Status

LEMMA LeaveType ==
    ASSUME TypeOK, NEW a \in Adapter, Leave(a), UNCHANGED events
    PROVE  /\ conn' \in [Adapter -> ConnState]
           /\ \A b \in Adapter : conn'[b].todo \subseteq 1..Len(events)
           /\ rejecting' \subseteq Adapter
           /\ registered' \in {NoAdapter} \cup {b \in Adapter : conn'[b].pc \notin {"new", "closed"}}
           /\ acks' \in [Adapter -> SUBSET (Command \X AckStatus)]
<1>1. conn' \in [Adapter -> ConnState]
    BY Zenon, ConnUpdate DEF Leave, ConnPC, TypeOK
<1>2. \A b \in Adapter : conn'[b].todo \subseteq 1..Len(events)
    BY Zenon DEF Leave, TypeOK, IdleConn
<1>3. acks' \in [Adapter -> SUBSET (Command \X AckStatus)] /\ rejecting' \subseteq Adapter
    BY Zenon DEF Leave, TypeOK, unregisterAdapter
<1>4. registered' \in {NoAdapter} \cup {b \in Adapter : conn'[b].pc \notin {"new", "closed"}}
    BY Zenon DEF Leave, TypeOK, unregisterAdapter
<1> QED
    BY Zenon, <1>1, <1>2, <1>3, <1>4

LEMMA AcceptedType ==
    ASSUME TypeOK, NEW c \in Command
    PROVE  /\ markCommandAccepted(c) \in Seq(Command)
           /\ Len(markCommandAccepted(c)) <= MaxAccepted
<1> DEFINE s == Append(accepted, c)
<1>0. accepted \in Seq(Command) /\ Len(accepted) \in Nat
    BY DEF TypeOK
<1>1. s \in Seq(Command) /\ Len(s) = Len(accepted) + 1 /\ s # <<>>
    BY <1>0, AppendFacts
<1>2. Tail(s) \in Seq(Command) /\ Len(Tail(s)) = Len(accepted)
    BY <1>0, <1>1, TailFacts
<1>3. markCommandAccepted(c) =
        IF InSeq(c, accepted) THEN accepted ELSE IF Len(s) > MaxAccepted THEN Tail(s) ELSE s
    BY Zenon DEF markCommandAccepted
<1> HIDE DEF s
<1>4. MaxAccepted \in Nat /\ accepted \in Seq(Command) /\ Len(accepted) <= MaxAccepted
    BY Zenon, DeliveryAssumption DEF TypeOK
<1> QED
    BY <1>1, <1>2, <1>3, <1>4

LEMMA MoveType ==
    ASSUME TypeOK, NEW a \in Adapter, NEW step \in ConnPC \ {"new", "closed"},
           NEW c \in Command \cup {NoCommand}, NEW todo \in SUBSET (1..Len(events)),
           conn' = [conn EXCEPT ![a].pc = step, ![a].cmd = c, ![a].todo = todo]
    PROVE  /\ conn' \in [Adapter -> ConnState]
           /\ \A b \in Adapter : conn'[b].todo \subseteq 1..Len(events)
           /\ conn'[a].pc = step /\ conn'[a].cmd = c
           /\ \A b \in Adapter : b # a => conn'[b] = conn[b]
           /\ registered \in {NoAdapter} \cup {b \in Adapter : conn'[b].pc \notin {"new", "closed"}}
<1>1. conn[a] \in ConnState /\ conn \in [Adapter -> ConnState]
    BY Zenon DEF TypeOK
<1>2. conn'[a] = [conn[a] EXCEPT !.pc = step, !.cmd = c, !.todo = todo]
    BY Zenon, <1>1
<1>3. conn'[a] \in ConnState /\ conn'[a].pc = step /\ conn'[a].cmd = c /\ conn'[a].todo = todo
  <2>1. step \in ConnPC /\ todo \in SUBSET Nat
      BY DEF TypeOK
  <2> QED
      BY Zenon, <1>1, <1>2, <2>1 DEF ConnState
<1>4. \A b \in Adapter : b # a => conn'[b] = conn[b]
    BY Zenon, <1>1
<1>5. conn' \in [Adapter -> ConnState]
    BY Zenon, <1>1, <1>3, <1>4
<1> QED
    BY Zenon, <1>3, <1>4, <1>5 DEF TypeOK

LEMMA AtType ==
    ASSUME TypeOK, NEW a \in Adapter, NEW step \in ConnPC, At(a, step)
    PROVE  /\ conn' \in [Adapter -> ConnState]
           /\ \A b \in Adapter : conn'[b].todo \subseteq 1..Len(events)
           /\ conn'[a].pc = step
           /\ \A b \in Adapter : b # a => conn'[b] = conn[b]
           /\ (registered = a => step \notin {"new", "closed"}) =>
                registered \in {NoAdapter} \cup {b \in Adapter : conn'[b].pc \notin {"new", "closed"}}
<1>1. conn' \in [Adapter -> ConnState]
    BY Zenon, ConnUpdate DEF At, TypeOK
<1>2. \A b \in Adapter : conn'[b].todo = conn[b].todo /\ (b # a => conn'[b] = conn[b])
    BY DEF At, TypeOK, ConnState
<1>3. conn'[a].pc = step
    BY DEF At, TypeOK, ConnState
<1> QED
    BY Zenon, <1>1, <1>2, <1>3 DEF TypeOK

\* A step of the goroutine of an Adapter's socket keeps the types.
LEMMA ConnTypes ==
    ASSUME TypeOK, Busy, NEW a \in Adapter, ConnStep(a)
    PROVE  TypeOK'
<1> USE DeliveryAssumption DEF wireVars, hubVars
<1>1. CASE Publish(a)
  <2>1. {"list", "closed"} \subseteq ConnPC
      BY Zenon DEF ConnPC
  <2>2. CASE At(a, "list") /\ registered' = a
      BY <1>1, <2>1, <2>2, AtType DEF TypeOK, Publish
  <2>3. CASE At(a, "closed") /\ UNCHANGED registered
    <3>1. registered # a
        BY Zenon, <1>1 DEF Publish, Busy
    <3> QED
        BY Zenon, <1>1, <2>1, <2>3, <3>1, AtType DEF TypeOK, Publish
  <2> QED
      BY Zenon, <1>1, <2>2, <2>3 DEF Publish
<1>2. CASE ListCommands(a)
  <2>1. listPendingCommands \in SUBSET Nat /\ listPendingCommands \subseteq 1..Len(events)
      BY DEF listPendingCommands
  <2>2. conn[a].cmd \in Command \cup {NoCommand}
      BY Zenon DEF TypeOK, ConnState
  <2>3. conn' = [conn EXCEPT ![a].pc = "next", ![a].cmd = conn[a].cmd,
                             ![a].todo = listPendingCommands]
    <3>1. conn[a] \in ConnState
        BY Zenon DEF TypeOK
    <3>2. [conn[a] EXCEPT !.pc = "next", !.todo = listPendingCommands] =
          [conn[a] EXCEPT !.pc = "next", !.cmd = conn[a].cmd, !.todo = listPendingCommands]
        BY Zenon, <3>1 DEF ConnState
    <3> QED
        BY Zenon, <1>2, <3>2 DEF ListCommands
  <2>4. "next" \in ConnPC \ {"new", "closed"}
      BY Zenon DEF ConnPC
  <2>5. /\ conn' \in [Adapter -> ConnState]
        /\ \A b \in Adapter : conn'[b].todo \subseteq 1..Len(events)
        /\ registered \in {NoAdapter} \cup {b \in Adapter : conn'[b].pc \notin {"new", "closed"}}
      BY Zenon, <2>1, <2>2, <2>3, <2>4, MoveType
  <2> QED
      BY Zenon, <1>2, <2>5 DEF TypeOK, ListCommands
<1>3. CASE GiveUpReceived(a)
  <2>1. conn[a].cmd \in Command
      BY Zenon, <1>3 DEF GiveUpReceived, Busy
  <2>2. ledger' \in [Command -> Status]
      BY Zenon, <1>3, <2>1, UnknownType DEF GiveUpReceived
  <2> QED
      BY Zenon, <1>3, <2>2, AtType DEF TypeOK, GiveUpReceived, ConnPC
<1>4. CASE DeliveryFails(a)
    BY Zenon, <1>4, LeaveType DEF DeliveryFails, TypeOK
<1>5. CASE LoopAddsClient(a)
  <2>1. conn[a].cmd \in Command
      BY Zenon, <1>5 DEF LoopAddsClient, Busy
  <2>2. client' \in [Command -> Client]
      BY Zenon, <1>5, <2>1 DEF LoopAddsClient, addPendingCommandClient, Client, TypeOK
  <2> QED
      BY Zenon, <1>5, <2>2, AtType DEF TypeOK, LoopAddsClient, ConnPC
<1>6. CASE LoopWrites(a)
  <2>1. conn[a].cmd \in Command
      BY Zenon, <1>6 DEF LoopWrites, Busy
  <2> QED
      BY Zenon, <1>6, <2>1, AtType, WriteType DEF TypeOK, LoopWrites, ConnPC
<1>7. CASE LoopWriteFails(a)
  <2>1. conn[a].cmd \in Command
      BY Zenon, <1>7 DEF LoopWriteFails, Busy
  <2>2. sent' \in [Command -> Nat] /\ inbox' \in [Adapter -> SUBSET Command]
      BY Zenon, <1>7, <2>1, WriteType DEF LoopWriteFails, TypeOK
  <2>3. ledger' \in [Command -> Status]
      BY Zenon, <1>7, <2>1, UnknownType DEF LoopWriteFails
  <2>4. client' \in [Command -> Client]
      BY Zenon, <1>7, <2>1 DEF LoopWriteFails, takePendingCommandClient, Client, TypeOK
  <2> QED
      BY Zenon, <1>7, <2>2, <2>3, <2>4, LeaveType DEF TypeOK, LoopWriteFails
<1>8. CASE ResolveAck(a)
  <2> DEFINE c == conn[a].cmd  s == conn[a].status
  <2>1. c \in Command /\ conn[a].peer \in BOOLEAN
      BY Zenon, <1>8 DEF ResolveAck, Busy, TypeOK, ConnState
  <2>2. client' \in [Command -> Client]
      BY Zenon, <1>8, <2>1 DEF ResolveAck, takePendingCommandClient, Client, TypeOK
  <2>3. ledger' \in [Command -> Status]
      BY Zenon, <1>8, <2>1 DEF ResolveAck, Status, TypeOK
  <2>4. accepted' \in Seq(Command) /\ Len(accepted') <= MaxAccepted
    <3>1. accepted' = accepted \/ accepted' = markCommandAccepted(c)
        BY Zenon, <1>8 DEF ResolveAck
    <3> QED
        BY <2>1, <3>1, AcceptedType DEF TypeOK
  <2>5. told' \in [Command -> Answer \cup {"nothing"}]
    <3>1. (IF AckRejectsForGood(s) THEN s ELSE "accepted") \in Answer
        BY Zenon DEF AckRejectsForGood, Answer
    <3> QED
        BY Zenon, <1>8, <2>1, <3>1, TellType DEF ResolveAck, TypeOK
  <2>6. resolving' \subseteq Resolution
      BY <1>8, <2>1, GiveUpType DEF ResolveAck, TypeOK, Answer
  <2> QED
      BY Zenon, <1>8, <2>2, <2>3, <2>4, <2>5, <2>6, AtType DEF TypeOK, ResolveAck, ConnPC
<1>9. CASE NextCommand(a)
  <2>1. CASE conn[a].todo = {} /\ At(a, "read") /\ UNCHANGED ledger
      BY Zenon, <1>9, <2>1, AtType DEF TypeOK, NextCommand, ConnPC
  <2>2. {"add", "unknown", "next"} \subseteq ConnPC \ {"new", "closed"}
      BY Zenon DEF ConnPC
  <2>3. ASSUME NEW i \in First(conn[a].todo)
        PROVE  events[i] \in Command /\ conn[a].todo \ {i} \in SUBSET (1..Len(events))
      BY DEF First, TypeOK
  <2>4. ASSUME NEW step \in ConnPC \ {"new", "closed"},
               NEW c \in Command \cup {NoCommand}, NEW rest \in SUBSET (1..Len(events)),
               ledger' \in [Command -> Status],
               conn' = [conn EXCEPT ![a].pc = step, ![a].cmd = c, ![a].todo = rest]
        PROVE  TypeOK'
    <3>1. /\ conn' \in [Adapter -> ConnState]
          /\ \A b \in Adapter : conn'[b].todo \subseteq 1..Len(events)
          /\ registered \in {NoAdapter} \cup {b \in Adapter : conn'[b].pc \notin {"new", "closed"}}
        BY Zenon, <2>3, <2>4, MoveType
    <3> QED
        BY Zenon, <1>9, <2>4, <3>1 DEF TypeOK, NextCommand
  <2>5. ASSUME NEW i \in First(conn[a].todo),
               ledger' = [ledger EXCEPT ![events[i]] = "received"],
               conn' = [conn EXCEPT ![a].pc = "add", ![a].cmd = events[i],
                                    ![a].todo = conn[a].todo \ {i}]
        PROVE  TypeOK'
    <3>1. ledger' \in [Command -> Status]
        BY Zenon, <2>3, <2>5 DEF TypeOK, Status
    <3>2. /\ conn[a].todo \ {i} \in SUBSET (1..Len(events))
          /\ events[i] \in Command \cup {NoCommand} /\ "add" \in ConnPC \ {"new", "closed"}
        BY Zenon, <2>2, <2>3
    <3>3. conn' = [conn EXCEPT ![a].pc = "add", ![a].cmd = events[i],
                               ![a].todo = conn[a].todo \ {i}]
        BY Zenon, <2>5
    <3> QED
        BY Zenon, <2>4, <3>1, <3>2, <3>3
  <2>6. ASSUME NEW i \in First(conn[a].todo), UNCHANGED ledger,
               conn' = [conn EXCEPT ![a].pc = "unknown", ![a].cmd = events[i],
                                    ![a].todo = conn[a].todo \ {i}]
        PROVE  TypeOK'
      BY Zenon, <2>2, <2>3, <2>6, <2>4 DEF TypeOK
  <2>7. ASSUME NEW i \in First(conn[a].todo), UNCHANGED ledger,
               conn' = [conn EXCEPT ![a].todo = conn[a].todo \ {i}]
        PROVE  TypeOK'
    <3>1. conn[a] \in ConnState /\ conn[a].cmd \in Command \cup {NoCommand}
        BY Zenon DEF TypeOK, ConnState
    <3>2. [conn[a] EXCEPT !.todo = conn[a].todo \ {i}] =
          [conn[a] EXCEPT !.pc = "next", !.cmd = conn[a].cmd, !.todo = conn[a].todo \ {i}]
        BY Zenon, <1>9, <3>1 DEF ConnState, NextCommand
    <3>3. conn' = [conn EXCEPT ![a].pc = "next", ![a].cmd = conn[a].cmd,
                               ![a].todo = conn[a].todo \ {i}]
        BY Zenon, <2>7, <3>2
    <3>4. conn[a].todo \ {i} \in SUBSET (1..Len(events)) /\ "next" \in ConnPC \ {"new", "closed"}
        BY Zenon, <2>2, <2>3
    <3>5. ledger' \in [Command -> Status]
        BY Zenon, <2>7 DEF TypeOK
    <3> QED
        BY Zenon, <2>4, <3>1, <3>3, <3>4, <3>5
  <2> QED
      BY Zenon, <1>9, <2>1, <2>5, <2>6, <2>7 DEF NextCommand
<1> QED
    BY Zenon, <1>1, <1>2, <1>3, <1>4, <1>5, <1>6, <1>7, <1>8, <1>9 DEF ConnStep

\* What h.pendingCommandClients holds.
LEMMA ClientType ==
    ASSUME TypeOK, NEW c \in Command
    PROVE  /\ client[c].peer \in BOOLEAN /\ client[c] \in Client
           /\ client[c] # NoClient => client[c].adapter \in Adapter
<1>1. client[c] \in Client
    BY Zenon DEF TypeOK
<1>2. CASE client[c] = NoClient
    BY <1>1, <1>2 DEF NoClient
<1>3. CASE client[c] \in [adapter : Adapter, peer : BOOLEAN]
    BY Zenon, <1>1, <1>3
<1> QED
    BY Zenon, <1>1, <1>2, <1>3 DEF Client

\* The other steps of an Adapter's socket, and of those who end it.
LEMMA SocketTypes ==
    ASSUME TypeOK, Busy, NEW a \in Adapter,
           \/ Reconnect(a) \/ Admit(a) \/ Read(a) \/ Disconnect(a)
           \/ RejectAdapter(a) \/ rejectPendingCommandDeliveries(a)
    PROVE  TypeOK'
<1> USE DeliveryAssumption DEF wireVars, hubVars
<1>1. CASE Reconnect(a)
  <2>1. IdleConn \in ConnState /\ IdleConn.todo = {}
      BY Zenon DEF IdleConn, ConnState, ConnPC, AckStatus
  <2>2. conn' \in [Adapter -> ConnState]
      BY Zenon, <1>1, <2>1 DEF Reconnect, TypeOK
  <2>3. registered # a /\ \A b \in Adapter : b # a => conn'[b] = conn[b]
      BY Zenon, <1>1 DEF Reconnect, TypeOK
  <2>4. \A b \in Adapter : conn'[b].todo \subseteq 1..Len(events)
      BY Zenon, <1>1, <2>1, <2>3 DEF Reconnect, TypeOK
  <2>5. registered \in {NoAdapter} \cup {b \in Adapter : conn'[b].pc \notin {"new", "closed"}}
      BY Zenon, <2>3 DEF TypeOK
  <2>6. inbox' \in [Adapter -> SUBSET Command]
      BY Zenon, <1>1 DEF Reconnect, TypeOK
  <2> QED
      BY Zenon, <1>1, <2>2, <2>4, <2>5, <2>6 DEF Reconnect, TypeOK
<1>2. CASE Admit(a)
    BY Zenon, <1>2, AtType DEF TypeOK, Admit, ConnPC
<1>3. CASE Read(a)
  <2> PICK c \in Command, s \in AckStatus : ReadAck(a, c, s)
      BY Zenon, <1>3 DEF Read
  <2>1. acks' \in [Adapter -> SUBSET (Command \X AckStatus)]
      BY Zenon DEF ReadAck, TypeOK
  <2>2. client[c].peer \in BOOLEAN /\ client' \in [Command -> Client]
    <3>1. client \in [Command -> Client] /\ NoClient \in Client
        BY Zenon DEF TypeOK, Client
    <3> QED
        BY <3>1, ClientType DEF ReadAck, takePendingCommandClient
  <2>3. resolving' \subseteq Resolution
      BY <2>2, GiveUpType DEF ReadAck, TypeOK, Answer
  <2>4. /\ conn' \in [Adapter -> ConnState]
        /\ \A b \in Adapter : conn'[b].todo \subseteq 1..Len(events)
        /\ registered \in {NoAdapter} \cup {b \in Adapter : conn'[b].pc \notin {"new", "closed"}}
    <3>1. CASE UNCHANGED conn
        BY Zenon, <3>1 DEF TypeOK
    <3>2. CASE conn' = [conn EXCEPT ![a].pc = "resolve", ![a].cmd = c,
                                    ![a].peer = client[c].peer, ![a].status = s]
      <4>1. conn[a] \in ConnState /\ conn \in [Adapter -> ConnState]
          BY Zenon DEF TypeOK
      <4>2. conn'[a] = [conn[a] EXCEPT !.pc = "resolve", !.cmd = c,
                                       !.peer = client[c].peer, !.status = s]
          BY Zenon, <3>2, <4>1
      <4>3. conn'[a] \in ConnState /\ conn'[a].todo = conn[a].todo /\ conn'[a].pc = "resolve"
          BY Zenon, <2>2, <4>1, <4>2 DEF ConnState, ConnPC
      <4>4. \A b \in Adapter : b # a => conn'[b] = conn[b]
          BY Zenon, <3>2, <4>1
      <4>5. conn' \in [Adapter -> ConnState]
          BY Zenon, <3>2, <4>1, <4>3, <4>4
      <4> QED
          BY Zenon, <4>3, <4>4, <4>5 DEF TypeOK
    <3> QED
        BY Zenon, <3>1, <3>2 DEF ReadAck
  <2> QED
      BY Zenon, <2>1, <2>2, <2>3, <2>4 DEF ReadAck, TypeOK
<1>4. CASE Disconnect(a)
    BY Zenon, <1>4, LeaveType DEF Disconnect, TypeOK
<1>5. CASE RejectAdapter(a)
    BY Zenon, <1>5 DEF RejectAdapter, TypeOK
<1>6. CASE rejectPendingCommandDeliveries(a)
  <2>1. \A c \in Command : client[c].peer \in BOOLEAN
      BY Zenon, ClientType
  <2>2. client' \in [Command -> Client]
      BY Zenon, <1>6 DEF rejectPendingCommandDeliveries, TypeOK, Client
  <2>3. resolving' \subseteq Resolution
      BY <1>6, <2>1 DEF rejectPendingCommandDeliveries, TypeOK, Resolution, Answer
  <2> QED
      BY Zenon, <1>6, <2>2, <2>3 DEF rejectPendingCommandDeliveries, TypeOK
<1> QED
    BY Zenon, <1>1, <1>2, <1>3, <1>4, <1>5, <1>6

\* The steps of the rest: requests, timers, the environment, the restart.
LEMMA OtherTypes ==
    ASSUME TypeOK, Busy,
           \/ \E h \in Handler, c \in Command : BeginSend(h, c)
           \/ \E a \in Adapter, c \in Command, s \in AckStatus : Acknowledge(a, c, s)
           \/ \E c \in Command : CommandStep(c) \/ Expire(c)
           \/ LoseAuthority \/ Evict \/ Crash \/ UNCHANGED vars
    PROVE  TypeOK'
<1> USE DeliveryAssumption DEF wireVars, hubVars
<1>1. CASE \E h \in Handler, c \in Command : BeginSend(h, c)
  <2> PICK h \in Handler, c \in Command : BeginSend(h, c)
      BY Zenon, <1>1
  <2>1. registered \in Adapter
      BY Zenon DEF BeginSend, TypeOK
  <2>2. [pc |-> "commit", cmd |-> c, adapter |-> registered] \in HandlerState
      BY Zenon, <2>1 DEF HandlerState
  <2>3. handler' \in [Handler -> HandlerState]
      BY Zenon, <2>2 DEF BeginSend, TypeOK
  <2> QED
      BY Zenon, <2>3 DEF BeginSend, TypeOK
<1>2. CASE \E a \in Adapter, c \in Command, s \in AckStatus : Acknowledge(a, c, s)
    BY <1>2 DEF Acknowledge, TypeOK
<1>3. ASSUME NEW c \in Command, expirePendingCommandClient(c)
      PROVE  TypeOK'
  <2>1. client[c] \in [adapter : Adapter, peer : BOOLEAN]
      BY Zenon, <1>3 DEF expirePendingCommandClient, TypeOK, Client
  <2>2. resolving' \subseteq Resolution
      BY <1>3, <2>1, GiveUpType DEF expirePendingCommandClient, TypeOK, Answer
  <2>3. client' \in [Command -> Client]
      BY Zenon, <1>3 DEF expirePendingCommandClient, takePendingCommandClient, TypeOK, Client
  <2> QED
      BY Zenon, <1>3, <2>2, <2>3 DEF expirePendingCommandClient, TypeOK
<1>4. ASSUME NEW r \in resolving, ResolveUnknown(r)
      PROVE  TypeOK'
  <2>1. r \in Resolution
      BY Zenon DEF TypeOK
  <2>2. /\ r.cmd \in Command /\ r.answer \in Answer
        /\ r.leaving \in Adapter \cup {NoAdapter}
      BY Zenon, <2>1 DEF Resolution
  <2>3. ledger' \in [Command -> Status]
      BY Zenon, <1>4, <2>2, UnknownType DEF ResolveUnknown
  <2>4. told' \in [Command -> Answer \cup {"nothing"}]
      BY Zenon, <1>4, <2>2, TellType DEF ResolveUnknown, TypeOK
  <2>5. /\ registered' \in {NoAdapter} \cup {b \in Adapter : conn[b].pc \notin {"new", "closed"}}
        /\ rejecting' \subseteq Adapter
      BY Zenon, <1>4, <2>2 DEF ResolveUnknown, unregisterAdapter, TypeOK
  <2> QED
      BY Zenon, <1>4, <2>3, <2>4, <2>5 DEF ResolveUnknown, TypeOK
<1>5. CASE \E c \in Command : Expire(c)
    BY <1>5 DEF Expire, TypeOK
<1>6. CASE LoseAuthority
    BY Zenon, <1>6 DEF LoseAuthority, TypeOK
<1>7. CASE Evict
  <2>1. accepted' \in Seq(Command) /\ Len(accepted') <= MaxAccepted
      BY <1>7, TailFacts DEF Evict, TypeOK
  <2> QED
      BY Zenon, <1>7, <2>1 DEF Evict, TypeOK
<1>8. CASE Crash
  <2>1. IdleHandler \in HandlerState
      BY Zenon DEF IdleHandler, HandlerState
  <2>2. [IdleConn EXCEPT !.pc = "closed"] \in ConnState /\ [IdleConn EXCEPT !.pc = "closed"].todo = {}
      BY Zenon DEF IdleConn, ConnState, ConnPC, AckStatus
  <2>3. /\ conn' \in [Adapter -> ConnState]
        /\ \A a \in Adapter : conn'[a].todo \subseteq 1..Len(events)
      BY Zenon, <1>8, <2>2 DEF Crash, TypeOK
  <2>4. client' \in [Command -> Client] /\ handler' \in [Handler -> HandlerState]
      BY Zenon, <1>8, <2>1 DEF Crash, Client
  <2>5. acks' \in [Adapter -> SUBSET (Command \X AckStatus)]
      BY Zenon, <1>8 DEF Crash
  <2> QED
      BY <1>8, <2>3, <2>4, <2>5 DEF Crash, TypeOK
<1>9. CASE UNCHANGED vars
    BY Zenon, <1>9 DEF vars, TypeOK
<1> QED
    BY Zenon, <1>1, <1>2, <1>3, <1>4, <1>5, <1>6, <1>7, <1>8, <1>9 DEF CommandStep

-----------------------------------------------------------------------------
\* The goroutines that have claimed command c and not yet written it.
HandlerHas(h, c) == handler[h].cmd = c /\ handler[h].pc \in {"add", "write"}
ConnHas(a, c) == conn[a].cmd = c /\ conn[a].pc \in {"add", "write"}

\* A claimed command that was not written yet was never written before, its row
\* says that it was claimed, and no second goroutine has it.
Claims ==
    /\ \A c \in Command : ledger[c] \in {"absent", "pending"} => sent[c] = 0
    /\ \A h \in Handler, c \in Command : HandlerHas(h, c) =>
          /\ sent[c] = 0 /\ ledger[c] \notin {"absent", "pending"}
          /\ \A g \in Handler : HandlerHas(g, c) => g = h
          /\ \A a \in Adapter : ~ConnHas(a, c)
    /\ \A a \in Adapter, c \in Command : ConnHas(a, c) =>
          /\ sent[c] = 0 /\ ledger[c] \notin {"absent", "pending"}
          /\ \A b \in Adapter : ConnHas(b, c) => b = a

-----------------------------------------------------------------------------
\* What a step does to the ledger and to the writes: a row moves on only from
\* absent to pending, with its event, to received, to an outcome, and only a
\* claimed command that was never written is written.
LedgerAdvances ==
    \A c \in Command :
        \/ ledger'[c] = ledger[c]
        \/ ledger[c] = "absent" /\ ledger'[c] = "pending" /\ events' = Append(events, c)
        \/ ledger[c] = "pending" /\ ledger'[c] = "received"
        \/ ledger[c] = "received" /\ ledger'[c] \in {"completed", "outcome_unknown"}

WritesOnce ==
    \A c \in Command :
        \/ sent'[c] = sent[c]
        \/ sent[c] = 0 /\ sent'[c] = 1 /\ ledger[c] \notin {"absent", "pending"}

\* What the updates of a goroutine's state leave.
LEMMA GoToEffect ==
    ASSUME handler \in [Handler -> HandlerState], NEW h \in Handler,
           NEW step, GoTo(h, step)
    PROVE  /\ handler'[h].pc = step /\ handler'[h].cmd = handler[h].cmd
           /\ handler'[h].adapter = handler[h].adapter
           /\ \A g \in Handler : g # h => handler'[g] = handler[g]
    BY Zenon DEF GoTo, HandlerState

LEMMA DoneEffect ==
    ASSUME handler \in [Handler -> HandlerState], NEW h \in Handler, Done(h)
    PROVE  /\ handler'[h].pc = "idle"
           /\ \A g \in Handler : g # h => handler'[g] = handler[g]
    BY Zenon DEF Done, IdleHandler

LEMMA AtEffect ==
    ASSUME conn \in [Adapter -> ConnState], NEW a \in Adapter, NEW step, At(a, step)
    PROVE  /\ conn'[a].pc = step /\ conn'[a].cmd = conn[a].cmd
           /\ \A b \in Adapter : b # a => conn'[b] = conn[b]
    BY Zenon DEF At, ConnState

LEMMA LeaveEffect ==
    ASSUME conn \in [Adapter -> ConnState], NEW a \in Adapter, Leave(a)
    PROVE  /\ conn'[a].pc = "closed"
           /\ \A b \in Adapter : b # a => conn'[b] = conn[b]
    BY Zenon DEF Leave, IdleConn

LEMMA NextEffect ==
    ASSUME conn \in [Adapter -> ConnState], NEW a \in Adapter, NextCommand(a)
    PROVE  /\ \A b \in Adapter : b # a => conn'[b] = conn[b]
           /\ \/ conn'[a].pc = "read" /\ UNCHANGED ledger
              \/ \E i \in First(conn[a].todo) :
                   \/ /\ ledger[events[i]] = "pending"
                      /\ ledger' = [ledger EXCEPT ![events[i]] = "received"]
                      /\ conn'[a].pc = "add" /\ conn'[a].cmd = events[i]
                   \/ conn'[a].pc = "unknown" /\ conn'[a].cmd = events[i] /\ UNCHANGED ledger
                   \/ conn'[a].pc = "next" /\ UNCHANGED ledger
<1>1. CASE conn[a].todo = {} /\ At(a, "read") /\ UNCHANGED ledger
    BY Zenon, <1>1, AtEffect
<1>2. ASSUME NEW step, NEW c, NEW rest,
             conn' = [conn EXCEPT ![a].pc = step, ![a].cmd = c, ![a].todo = rest]
      PROVE  /\ conn'[a].pc = step /\ conn'[a].cmd = c
             /\ \A b \in Adapter : b # a => conn'[b] = conn[b]
    BY Zenon, <1>2 DEF ConnState
<1>3. ASSUME NEW rest, conn' = [conn EXCEPT ![a].todo = rest]
      PROVE  conn'[a].pc = conn[a].pc /\ \A b \in Adapter : b # a => conn'[b] = conn[b]
    BY Zenon, <1>3 DEF ConnState
<1>4. ASSUME NEW i \in First(conn[a].todo),
             \/ /\ claimPendingCommand(events[i], a)
                /\ ledger' = [ledger EXCEPT ![events[i]] = "received"]
                /\ conn' = [conn EXCEPT ![a].pc = "add", ![a].cmd = events[i],
                                        ![a].todo = conn[a].todo \ {i}]
             \/ /\ conn' = [conn EXCEPT ![a].pc = "unknown", ![a].cmd = events[i],
                                        ![a].todo = conn[a].todo \ {i}]
                /\ UNCHANGED ledger
             \/ /\ conn' = [conn EXCEPT ![a].todo = conn[a].todo \ {i}]
                /\ UNCHANGED ledger
      PROVE  /\ \A b \in Adapter : b # a => conn'[b] = conn[b]
             /\ \/ /\ ledger[events[i]] = "pending"
                   /\ ledger' = [ledger EXCEPT ![events[i]] = "received"]
                   /\ conn'[a].pc = "add" /\ conn'[a].cmd = events[i]
                \/ conn'[a].pc = "unknown" /\ conn'[a].cmd = events[i] /\ UNCHANGED ledger
                \/ conn'[a].pc = "next" /\ UNCHANGED ledger
  <2>1. conn[a].pc = "next"
      BY Zenon DEF NextCommand
  <2>2. CASE conn' = [conn EXCEPT ![a].pc = "add", ![a].cmd = events[i],
                                  ![a].todo = conn[a].todo \ {i}]
             /\ claimPendingCommand(events[i], a)
             /\ ledger' = [ledger EXCEPT ![events[i]] = "received"]
    <3>1. /\ conn'[a].pc = "add" /\ conn'[a].cmd = events[i]
          /\ \A b \in Adapter : b # a => conn'[b] = conn[b]
        BY Zenon, <1>2, <2>2
    <3> QED
        BY Zenon, <2>2, <3>1 DEF claimPendingCommand
  <2>3. CASE conn' = [conn EXCEPT ![a].pc = "unknown", ![a].cmd = events[i],
                                  ![a].todo = conn[a].todo \ {i}]
             /\ UNCHANGED ledger
      BY Zenon, <1>2, <2>3
  <2>4. CASE conn' = [conn EXCEPT ![a].todo = conn[a].todo \ {i}] /\ UNCHANGED ledger
      BY Zenon, <1>3, <2>1, <2>4
  <2> QED
      BY Zenon, <1>4, <2>2, <2>3, <2>4
<1> QED
    BY Zenon, <1>1, <1>4 DEF NextCommand

LEMMA WriteEffect ==
    ASSUME TypeOK, NEW c \in Command, NEW a \in Adapter, Write(c, a), sent[c] = 0
    PROVE  /\ sent'[c] = 1 /\ \A d \in Command : d # c => sent'[d] = sent[d]
           /\ \A b \in Adapter, d \in Command : d \in inbox'[b] => d \in inbox[b] \/ d = c
    BY DEF Write, TypeOK

LEMMA UnknownEffect ==
    ASSUME TypeOK, NEW c \in Command, ledger' = resolvePendingCommandUnknown(c)
    PROVE  \A d \in Command :
              \/ ledger'[d] = ledger[d]
              \/ d = c /\ ledger[d] = "received" /\ ledger'[d] = "outcome_unknown"
    BY Zenon DEF resolvePendingCommandUnknown, TypeOK

\* A step that claims nothing keeps the claims apart.
LEMMA ClaimsFrame ==
    ASSUME Claims, LedgerAdvances,
           \A h \in Handler, c \in Command : HandlerHas(h, c)' => HandlerHas(h, c),
           \A a \in Adapter, c \in Command : ConnHas(a, c)' => ConnHas(a, c),
           \A c \in Command :
              \/ sent'[c] = sent[c]
              \/ /\ ledger[c] \notin {"absent", "pending"}
                 /\ \A h \in Handler : ~HandlerHas(h, c)'
                 /\ \A a \in Adapter : ~ConnHas(a, c)'
    PROVE  Claims'
<1>1. \A c \in Command : ledger'[c] \in {"absent", "pending"} => sent'[c] = 0
    BY Zenon DEF Claims, LedgerAdvances
<1>2. \A c \in Command : ledger[c] \notin {"absent", "pending"} =>
                         ledger'[c] \notin {"absent", "pending"}
    BY Zenon DEF LedgerAdvances
<1>3. ASSUME NEW h \in Handler, NEW c \in Command, HandlerHas(h, c)'
      PROVE  /\ sent'[c] = 0 /\ ledger'[c] \notin {"absent", "pending"}
             /\ \A g \in Handler : HandlerHas(g, c)' => g = h
             /\ \A a \in Adapter : ~ConnHas(a, c)'
    BY Zenon, <1>2, <1>3 DEF Claims
<1>4. ASSUME NEW a \in Adapter, NEW c \in Command, ConnHas(a, c)'
      PROVE  /\ sent'[c] = 0 /\ ledger'[c] \notin {"absent", "pending"}
             /\ \A b \in Adapter : ConnHas(b, c)' => b = a
    BY Zenon, <1>2, <1>4 DEF Claims
<1> QED
    BY Zenon, <1>1, <1>3, <1>4 DEF Claims

\* What a goroutine of a client request does: only SendClaims claims, only a
\* claimed command is written, and writing ends the claim.
LEMMA HandlerClaims ==
    ASSUME TypeOK, Busy, Claims, NEW h \in Handler, HandlerStep(h)
    PROVE  Busy' /\ Claims' /\ LedgerAdvances /\ WritesOnce
<1> USE DEF wireVars, hubVars
<1> DEFINE c == handler[h].cmd  a == handler[h].adapter
<1>0. /\ handler[h].pc # "idle" /\ c \in Command /\ a \in Adapter
      /\ handler \in [Handler -> HandlerState] /\ ledger \in [Command -> Status]
    BY Zenon DEF HandlerStep, CommitNew, CommitRefused, SendClaims, SendClaimFails,
           SendAddsClient, SendWrites, SendWriteFails, Busy, TypeOK
<1>a. UNCHANGED <<conn, registered>>
    BY Zenon DEF HandlerStep, CommitNew, CommitRefused, SendClaims, SendClaimFails,
           SendAddsClient, SendWrites, SendWriteFails
<1>b. ASSUME \/ \E step : GoTo(h, step)
             \/ Done(h)
      PROVE  Busy'
    BY <1>0, <1>a, <1>b, GoToEffect, DoneEffect DEF Busy
<1>1. CASE CommitNew(h)
  <2>1. handler'[h].pc = "claim" /\ \A g \in Handler : g # h => handler'[g] = handler[g]
      BY Zenon, <1>0, <1>1, GoToEffect DEF CommitNew
  <2>2. LedgerAdvances /\ WritesOnce
      BY Zenon, <1>0, <1>1 DEF CommitNew, commitPendingCommand, LedgerAdvances, WritesOnce
  <2>3. Claims'
      BY Zenon, <1>1, <1>a, <2>1, <2>2, ClaimsFrame DEF CommitNew, HandlerHas, ConnHas
  <2> QED
      BY Zenon, <1>1, <1>b, <2>2, <2>3 DEF CommitNew
<1>2. CASE CommitRefused(h)
  <2>1. handler'[h].pc = "idle" /\ \A g \in Handler : g # h => handler'[g] = handler[g]
      BY Zenon, <1>0, <1>2, DoneEffect DEF CommitRefused
  <2>2. LedgerAdvances /\ WritesOnce
      BY Zenon, <1>2 DEF CommitRefused, LedgerAdvances, WritesOnce
  <2>3. Claims'
      BY Zenon, <1>2, <1>a, <2>1, <2>2, ClaimsFrame DEF CommitRefused, HandlerHas, ConnHas
  <2> QED
      BY Zenon, <1>2, <1>b, <2>2, <2>3 DEF CommitRefused
<1>3. CASE SendClaims(h)
  <2>1. /\ handler'[h].pc = "add" /\ handler'[h].cmd = c
        /\ \A g \in Handler : g # h => handler'[g] = handler[g]
      BY Zenon, <1>0, <1>3, GoToEffect DEF SendClaims
  <2>2. /\ ledger[c] = "pending" /\ ledger'[c] = "received"
        /\ \A d \in Command : d # c => ledger'[d] = ledger[d]
        /\ sent' = sent /\ sent[c] = 0
      BY Zenon, <1>0, <1>3 DEF SendClaims, claimPendingCommand, Claims
  <2>3. /\ \A g \in Handler : ~HandlerHas(g, c)
        /\ \A b \in Adapter : ~ConnHas(b, c)
      BY Zenon, <1>0, <2>2 DEF Claims
  <2>4. \A g \in Handler, d \in Command :
          HandlerHas(g, d)' <=> HandlerHas(g, d) \/ (g = h /\ d = c)
      BY Zenon, <1>3, <2>1 DEF HandlerHas, SendClaims
  <2>5. \A b \in Adapter, d \in Command : ConnHas(b, d)' <=> ConnHas(b, d)
      BY Zenon, <1>a DEF ConnHas
  <2>6. Claims'
    <3>1. \A d \in Command : ledger'[d] \in {"absent", "pending"} => sent'[d] = 0
        BY Zenon, <2>2 DEF Claims
    <3>2. \A g \in Handler, d \in Command : HandlerHas(g, d)' =>
             /\ sent'[d] = 0 /\ ledger'[d] \notin {"absent", "pending"}
             /\ \A k \in Handler : HandlerHas(k, d)' => k = g
             /\ \A b \in Adapter : ~ConnHas(b, d)'
        BY <2>2, <2>3, <2>4, <2>5 DEF Claims
    <3>3. \A b \in Adapter, d \in Command : ConnHas(b, d)' =>
             /\ sent'[d] = 0 /\ ledger'[d] \notin {"absent", "pending"}
             /\ \A e \in Adapter : ConnHas(e, d)' => e = b
        BY Zenon, <2>2, <2>3, <2>5 DEF Claims
    <3> QED
        BY Zenon, <3>1, <3>2, <3>3 DEF Claims
  <2>7. LedgerAdvances /\ WritesOnce
      BY Zenon, <2>2 DEF LedgerAdvances, WritesOnce
  <2> QED
      BY Zenon, <1>3, <1>b, <2>6, <2>7 DEF SendClaims
<1>4. CASE SendClaimFails(h)
  <2>1. handler'[h].pc = "idle" /\ \A g \in Handler : g # h => handler'[g] = handler[g]
      BY Zenon, <1>0, <1>4, DoneEffect DEF SendClaimFails
  <2>2. LedgerAdvances /\ WritesOnce
      BY Zenon, <1>4 DEF SendClaimFails, LedgerAdvances, WritesOnce
  <2>3. Claims'
      BY Zenon, <1>4, <1>a, <2>1, <2>2, ClaimsFrame DEF SendClaimFails, HandlerHas, ConnHas
  <2> QED
      BY Zenon, <1>4, <1>b, <2>2, <2>3 DEF SendClaimFails
<1>5. CASE SendAddsClient(h)
  <2>1. /\ handler[h].pc = "add" /\ handler'[h].pc = "write" /\ handler'[h].cmd = c
        /\ \A g \in Handler : g # h => handler'[g] = handler[g]
      BY Zenon, <1>0, <1>5, GoToEffect DEF SendAddsClient
  <2>2. LedgerAdvances /\ WritesOnce
      BY Zenon, <1>5 DEF SendAddsClient, LedgerAdvances, WritesOnce
  <2>3. Claims'
      BY Zenon, <1>5, <1>a, <2>1, <2>2, ClaimsFrame DEF SendAddsClient, HandlerHas, ConnHas
  <2> QED
      BY Zenon, <1>5, <1>b, <2>2, <2>3 DEF SendAddsClient
<1>6. ASSUME handler[h].pc = "write", Done(h), UNCHANGED ledger,
             Write(c, a) \/ UNCHANGED sent
      PROVE  Claims' /\ LedgerAdvances /\ WritesOnce
  <2>1. handler'[h].pc = "idle" /\ \A g \in Handler : g # h => handler'[g] = handler[g]
      BY Zenon, <1>0, <1>6, DoneEffect
  <2>2. /\ sent[c] = 0 /\ ledger[c] \notin {"absent", "pending"}
        /\ \A g \in Handler : HandlerHas(g, c) => g = h
        /\ \A b \in Adapter : ~ConnHas(b, c)
    <3>1. HandlerHas(h, c)
        BY Zenon, <1>6 DEF HandlerHas
    <3> QED
        BY Zenon, <1>0, <3>1 DEF Claims
  <2>3. sent' = sent \/ (sent'[c] = 1 /\ \A d \in Command : d # c => sent'[d] = sent[d])
      BY Zenon, <1>0, <1>6, <2>2, WriteEffect
  <2>4. LedgerAdvances /\ WritesOnce
      BY Zenon, <1>6, <2>2, <2>3 DEF LedgerAdvances, WritesOnce
  <2>5. /\ \A g \in Handler, d \in Command : HandlerHas(g, d)' => HandlerHas(g, d) /\ g # h
        /\ \A b \in Adapter, d \in Command : ConnHas(b, d)' => ConnHas(b, d)
      BY Zenon, <1>a, <2>1 DEF HandlerHas, ConnHas
  <2> QED
      BY Zenon, <2>2, <2>3, <2>4, <2>5, ClaimsFrame
<1>7. CASE SendWrites(h) \/ SendWriteFails(h)
    BY Zenon, <1>6, <1>7, <1>b DEF SendWrites, SendWriteFails
<1> QED
    BY Zenon, <1>1, <1>2, <1>3, <1>4, <1>5, <1>7 DEF HandlerStep

LEMMA ConnBusy ==
    ASSUME TypeOK, Busy, NEW a \in Adapter, UNCHANGED handler,
           \A b \in Adapter : b # a => conn'[b] = conn[b],
           conn'[a].pc # "publish",
           conn'[a].pc \in {"unknown", "add", "write", "resolve"} => conn'[a].cmd \in Command,
           registered' \in {registered, a, NoAdapter}
    PROVE  Busy'
    BY Zenon DEF Busy, TypeOK

LEMMA ConnFrame ==
    ASSUME TypeOK, Claims, LedgerAdvances, NEW a \in Adapter, UNCHANGED <<handler, sent>>,
           \A b \in Adapter : b # a => conn'[b] = conn[b],
           conn'[a].pc \in {"add", "write"} =>
             conn[a].pc \in {"add", "write"} /\ conn'[a].cmd = conn[a].cmd
    PROVE  Claims' /\ WritesOnce
<1>1. \A h \in Handler, c \in Command : HandlerHas(h, c)' => HandlerHas(h, c)
    BY Zenon DEF HandlerHas
<1>2. \A b \in Adapter, c \in Command : ConnHas(b, c)' => ConnHas(b, c)
    BY Zenon DEF ConnHas
<1> QED
    BY Zenon, <1>1, <1>2, ClaimsFrame DEF WritesOnce

\* What the goroutine of an Adapter's socket does: NextCommand claims, and a
\* claimed command is written and with that given away.
LEMMA ConnClaims ==
    ASSUME TypeOK, Busy, Claims, NEW a \in Adapter, ConnStep(a)
    PROVE  Busy' /\ Claims' /\ LedgerAdvances /\ WritesOnce
<1> USE DEF wireVars, hubVars
<1> DEFINE c == conn[a].cmd
<1>0. conn \in [Adapter -> ConnState] /\ ledger \in [Command -> Status]
    BY Zenon DEF TypeOK
<1>1. CASE Publish(a)
  <2>1. /\ \A b \in Adapter : b # a => conn'[b] = conn[b]
        /\ conn'[a].pc \in {"list", "closed"}
        /\ registered' \in {registered, a}
      BY Zenon, <1>0, <1>1, AtEffect DEF Publish
  <2>2. UNCHANGED <<handler, sent, ledger>>
      BY Zenon, <1>1 DEF Publish
  <2>3. LedgerAdvances
      BY Zenon, <2>2 DEF LedgerAdvances
  <2> QED
      BY Zenon, <2>1, <2>2, <2>3, ConnBusy, ConnFrame
<1>2. CASE ListCommands(a)
  <2>1. /\ \A b \in Adapter : b # a => conn'[b] = conn[b]
        /\ conn'[a].pc = "next"
      BY Zenon, <1>0, <1>2 DEF ListCommands, ConnState
  <2>2. UNCHANGED <<handler, sent, ledger, registered>>
      BY Zenon, <1>2 DEF ListCommands
  <2>3. LedgerAdvances
      BY Zenon, <2>2 DEF LedgerAdvances
  <2> QED
      BY Zenon, <2>1, <2>2, <2>3, ConnBusy, ConnFrame
<1>3. CASE GiveUpReceived(a)
  <2>1. /\ \A b \in Adapter : b # a => conn'[b] = conn[b]
        /\ conn'[a].pc = "next"
      BY Zenon, <1>0, <1>3, AtEffect DEF GiveUpReceived
  <2>2. UNCHANGED <<handler, sent, registered>>
      BY Zenon, <1>3 DEF GiveUpReceived
  <2>3. LedgerAdvances
      BY Zenon, <1>3, UnknownEffect DEF GiveUpReceived, Busy, LedgerAdvances
  <2> QED
      BY Zenon, <2>1, <2>2, <2>3, ConnBusy, ConnFrame
<1>4. CASE DeliveryFails(a)
  <2>1. /\ \A b \in Adapter : b # a => conn'[b] = conn[b]
        /\ conn'[a].pc = "closed" /\ registered' \in {registered, NoAdapter}
      BY Zenon, <1>0, <1>4, LeaveEffect DEF DeliveryFails, Leave, unregisterAdapter
  <2>2. UNCHANGED <<handler, sent, ledger>>
      BY Zenon, <1>4 DEF DeliveryFails
  <2>3. LedgerAdvances
      BY Zenon, <2>2 DEF LedgerAdvances
  <2> QED
      BY Zenon, <2>1, <2>2, <2>3, ConnBusy, ConnFrame
<1>5. CASE LoopAddsClient(a)
  <2>1. /\ \A b \in Adapter : b # a => conn'[b] = conn[b]
        /\ conn[a].pc = "add" /\ conn'[a].pc = "write" /\ conn'[a].cmd = c
      BY Zenon, <1>0, <1>5, AtEffect DEF LoopAddsClient
  <2>2. UNCHANGED <<handler, sent, ledger, registered>>
      BY Zenon, <1>5 DEF LoopAddsClient
  <2>3. LedgerAdvances
      BY Zenon, <2>2 DEF LedgerAdvances
  <2>4. c \in Command
      BY Zenon, <2>1 DEF Busy
  <2> QED
      BY Zenon, <2>1, <2>2, <2>3, <2>4, ConnBusy, ConnFrame
<1>6. ASSUME conn[a].pc = "write", conn'[a].pc \in {"next", "closed"},
             \A b \in Adapter : b # a => conn'[b] = conn[b],
             Write(c, a) \/ UNCHANGED sent, UNCHANGED handler, LedgerAdvances
      PROVE  Claims' /\ WritesOnce
  <2>1. c \in Command
      BY Zenon, <1>6 DEF Busy
  <2>2. /\ sent[c] = 0 /\ ledger[c] \notin {"absent", "pending"}
        /\ \A h \in Handler : ~HandlerHas(h, c)
        /\ \A b \in Adapter : ConnHas(b, c) => b = a
    <3>1. ConnHas(a, c)
        BY Zenon, <1>6 DEF ConnHas
    <3> QED
        BY Zenon, <2>1, <3>1 DEF Claims
  <2>3. sent' = sent \/ (sent'[c] = 1 /\ \A d \in Command : d # c => sent'[d] = sent[d])
      BY Zenon, <1>6, <2>1, <2>2, WriteEffect
  <2>4. WritesOnce
      BY Zenon, <2>2, <2>3 DEF WritesOnce
  <2>5. /\ \A h \in Handler, d \in Command : HandlerHas(h, d)' => HandlerHas(h, d)
        /\ \A b \in Adapter, d \in Command : ConnHas(b, d)' => ConnHas(b, d) /\ b # a
      BY Zenon, <1>6 DEF HandlerHas, ConnHas
  <2> QED
      BY Zenon, <1>6, <2>2, <2>3, <2>4, <2>5, ClaimsFrame
<1>7. CASE LoopWrites(a)
  <2>1. /\ \A b \in Adapter : b # a => conn'[b] = conn[b]
        /\ conn'[a].pc = "next"
      BY Zenon, <1>0, <1>7, AtEffect DEF LoopWrites
  <2>2. LedgerAdvances /\ UNCHANGED <<handler, registered>>
      BY Zenon, <1>7 DEF LoopWrites, LedgerAdvances
  <2> QED
      BY Zenon, <1>6, <1>7, <2>1, <2>2, ConnBusy DEF LoopWrites
<1>8. CASE LoopWriteFails(a)
  <2>1. /\ \A b \in Adapter : b # a => conn'[b] = conn[b]
        /\ conn'[a].pc = "closed" /\ registered' \in {registered, NoAdapter}
      BY Zenon, <1>0, <1>8, LeaveEffect DEF LoopWriteFails, Leave, unregisterAdapter
  <2>2. LedgerAdvances
      BY Zenon, <1>8, UnknownEffect DEF LoopWriteFails, Busy, LedgerAdvances
  <2>3. UNCHANGED handler
      BY Zenon, <1>8 DEF LoopWriteFails
  <2> QED
      BY Zenon, <1>6, <1>8, <2>1, <2>2, <2>3, ConnBusy DEF LoopWriteFails
<1>9. CASE ResolveAck(a)
  <2>1. /\ \A b \in Adapter : b # a => conn'[b] = conn[b]
        /\ conn'[a].pc = "read" /\ c \in Command
      BY Zenon, <1>0, <1>9, AtEffect DEF ResolveAck, Busy
  <2>2. UNCHANGED <<handler, sent, registered>>
      BY Zenon, <1>9 DEF ResolveAck
  <2>3. LedgerAdvances
      BY Zenon, <1>0, <1>9, <2>1 DEF ResolveAck, resolvePendingCommand, LedgerAdvances
  <2> QED
      BY Zenon, <2>1, <2>2, <2>3, ConnBusy, ConnFrame
<1>10. CASE NextCommand(a)
  <2>1. UNCHANGED <<handler, sent, registered>> /\ conn[a].pc = "next"
      BY Zenon, <1>10 DEF NextCommand
  <2>2. \A b \in Adapter : b # a => conn'[b] = conn[b]
      BY Zenon, <1>0, <1>10, NextEffect
  <2>3. ASSUME UNCHANGED ledger, conn'[a].pc \in {"read", "next", "unknown"},
               conn'[a].pc = "unknown" => conn'[a].cmd \in Command
        PROVE  Busy' /\ Claims' /\ LedgerAdvances /\ WritesOnce
    <3>1. LedgerAdvances
        BY Zenon, <2>3 DEF LedgerAdvances
    <3> QED
        BY Zenon, <2>1, <2>2, <2>3, <3>1, ConnBusy, ConnFrame
  <2>4. ASSUME NEW d \in Command, ledger[d] = "pending",
               ledger' = [ledger EXCEPT ![d] = "received"],
               conn'[a].pc = "add", conn'[a].cmd = d
        PROVE  Busy' /\ Claims' /\ LedgerAdvances /\ WritesOnce
    <3>1. /\ ledger'[d] = "received" /\ sent[d] = 0
          /\ \A e \in Command : e # d => ledger'[e] = ledger[e]
        BY Zenon, <1>0, <2>4 DEF Claims
    <3>2. /\ \A h \in Handler : ~HandlerHas(h, d)
          /\ \A b \in Adapter : ~ConnHas(b, d)
        BY Zenon, <2>4 DEF Claims
    <3>3. \A h \in Handler, e \in Command : HandlerHas(h, e)' <=> HandlerHas(h, e)
        BY Zenon, <2>1 DEF HandlerHas
    <3>4. \A b \in Adapter, e \in Command :
            ConnHas(b, e)' <=> ConnHas(b, e) \/ (b = a /\ e = d)
        BY Zenon, <2>1, <2>2, <2>4 DEF ConnHas
    <3>5. Claims'
      <4>1. \A e \in Command : ledger'[e] \in {"absent", "pending"} => sent'[e] = 0
          BY Zenon, <2>1, <2>4, <3>1 DEF Claims
      <4>2. \A h \in Handler, e \in Command : HandlerHas(h, e)' =>
               /\ sent'[e] = 0 /\ ledger'[e] \notin {"absent", "pending"}
               /\ \A g \in Handler : HandlerHas(g, e)' => g = h
               /\ \A b \in Adapter : ~ConnHas(b, e)'
          BY <2>1, <3>1, <3>2, <3>3, <3>4 DEF Claims
      <4>3. \A b \in Adapter, e \in Command : ConnHas(b, e)' =>
               /\ sent'[e] = 0 /\ ledger'[e] \notin {"absent", "pending"}
               /\ \A x \in Adapter : ConnHas(x, e)' => x = b
          BY <2>1, <3>1, <3>2, <3>4 DEF Claims
      <4> QED
          BY Zenon, <4>1, <4>2, <4>3 DEF Claims
    <3>6. LedgerAdvances /\ WritesOnce
        BY Zenon, <2>1, <2>4, <3>1 DEF LedgerAdvances, WritesOnce
    <3> QED
        BY Zenon, <2>1, <2>2, <2>4, <3>5, <3>6, ConnBusy
  <2>5. \A i \in First(conn[a].todo) : events[i] \in Command
      BY DEF First, TypeOK
  <2>6. \/ conn'[a].pc = "read" /\ UNCHANGED ledger
        \/ \E i \in First(conn[a].todo) :
             \/ /\ ledger[events[i]] = "pending"
                /\ ledger' = [ledger EXCEPT ![events[i]] = "received"]
                /\ conn'[a].pc = "add" /\ conn'[a].cmd = events[i]
             \/ conn'[a].pc = "unknown" /\ conn'[a].cmd = events[i] /\ UNCHANGED ledger
             \/ conn'[a].pc = "next" /\ UNCHANGED ledger
      BY Zenon, <1>0, <1>10, NextEffect
  <2> QED
      BY Zenon, <2>3, <2>4, <2>5, <2>6
<1> QED
    BY Zenon, <1>1, <1>2, <1>3, <1>4, <1>5, <1>7, <1>8, <1>9, <1>10 DEF ConnStep

\* Nobody else claims, and nobody else writes.
LEMMA SocketClaims ==
    ASSUME TypeOK, Busy, Claims, NEW a \in Adapter,
           \/ Reconnect(a) \/ Admit(a) \/ Read(a) \/ Disconnect(a)
           \/ RejectAdapter(a) \/ rejectPendingCommandDeliveries(a)
    PROVE  Busy' /\ Claims' /\ LedgerAdvances /\ WritesOnce
<1> USE DEF wireVars, hubVars
<1>0. conn \in [Adapter -> ConnState]
    BY Zenon DEF TypeOK
<1>1. UNCHANGED <<ledger, sent, handler>>
    BY Zenon DEF Reconnect, Admit, Read, ReadAck, Disconnect, RejectAdapter,
           rejectPendingCommandDeliveries
<1>2. LedgerAdvances
    BY Zenon, <1>1 DEF LedgerAdvances
<1>3. CASE Reconnect(a)
  <2>1. /\ \A b \in Adapter : b # a => conn'[b] = conn[b]
        /\ conn'[a].pc = "new" /\ UNCHANGED registered
      BY Zenon, <1>0, <1>3 DEF Reconnect, IdleConn
  <2> QED
      BY Zenon, <1>1, <1>2, <2>1, ConnBusy, ConnFrame
<1>4. CASE Admit(a)
  <2>1. /\ \A b \in Adapter : b # a => conn'[b] = conn[b]
        /\ conn[a].pc = "new" /\ conn'[a].pc = "publish" /\ UNCHANGED registered
      BY Zenon, <1>0, <1>4, AtEffect DEF Admit
  <2>2. registered # a
      BY Zenon, <2>1, DeliveryAssumption DEF TypeOK
  <2>3. Busy'
      BY Zenon, <1>1, <2>1, <2>2 DEF Busy, TypeOK
  <2> QED
      BY Zenon, <1>1, <1>2, <2>1, <2>3, ConnFrame
<1>5. CASE Read(a)
  <2> PICK c \in Command, s \in AckStatus : ReadAck(a, c, s)
      BY Zenon, <1>5 DEF Read
  <2>1. /\ \A b \in Adapter : b # a => conn'[b] = conn[b]
        /\ \/ conn'[a].pc = "read"
           \/ conn'[a].pc = "resolve" /\ conn'[a].cmd = c
        /\ UNCHANGED registered
      BY <1>0 DEF ReadAck, ConnState
  <2> QED
      BY Zenon, <1>1, <1>2, <2>1, ConnBusy, ConnFrame
<1>6. CASE Disconnect(a)
  <2>1. /\ \A b \in Adapter : b # a => conn'[b] = conn[b]
        /\ conn'[a].pc = "closed" /\ registered' \in {registered, NoAdapter}
      BY Zenon, <1>0, <1>6, LeaveEffect DEF Disconnect, Leave, unregisterAdapter
  <2> QED
      BY Zenon, <1>1, <1>2, <2>1, ConnBusy, ConnFrame
<1>7. CASE RejectAdapter(a) \/ rejectPendingCommandDeliveries(a)
  <2>1. UNCHANGED conn /\ registered' \in {registered, NoAdapter}
      BY Zenon, <1>7 DEF RejectAdapter, rejectPendingCommandDeliveries
  <2>2. Busy'
      BY Zenon, <1>1, <2>1 DEF Busy
  <2> QED
      BY Zenon, <1>1, <1>2, <2>1, <2>2, ConnFrame
<1> QED
    BY Zenon, <1>3, <1>4, <1>5, <1>6, <1>7

LEMMA OtherClaims ==
    ASSUME TypeOK, Busy, Claims,
           \/ \E h \in Handler, c \in Command : BeginSend(h, c)
           \/ \E a \in Adapter, c \in Command, s \in AckStatus : Acknowledge(a, c, s)
           \/ \E c \in Command : CommandStep(c) \/ Expire(c)
           \/ LoseAuthority \/ Evict \/ Crash \/ UNCHANGED vars
    PROVE  Busy' /\ Claims' /\ LedgerAdvances /\ WritesOnce
<1> USE DEF wireVars, hubVars
<1>1. UNCHANGED sent
    BY Zenon DEF BeginSend, Acknowledge, CommandStep, expirePendingCommandClient, ResolveUnknown,
           Expire, LoseAuthority, Evict, Crash, vars
<1>2. WritesOnce
    BY Zenon, <1>1 DEF WritesOnce
<1>3. CASE \E h \in Handler, c \in Command : BeginSend(h, c)
  <2> PICK h \in Handler, c \in Command : BeginSend(h, c)
      BY Zenon, <1>3
  <2>1. /\ handler'[h].pc = "commit" /\ handler'[h].cmd = c /\ handler'[h].adapter \in Adapter
        /\ \A g \in Handler : g # h => handler'[g] = handler[g]
        /\ UNCHANGED <<conn, registered, ledger>>
      BY Zenon DEF BeginSend, TypeOK
  <2>2. Busy'
      BY Zenon, <2>1 DEF Busy
  <2>3. LedgerAdvances
      BY Zenon, <2>1 DEF LedgerAdvances
  <2>4. /\ \A g \in Handler, d \in Command : HandlerHas(g, d)' => HandlerHas(g, d)
        /\ \A b \in Adapter, d \in Command : ConnHas(b, d)' => ConnHas(b, d)
      BY Zenon, <2>1 DEF HandlerHas, ConnHas
  <2> QED
      BY Zenon, <1>1, <1>2, <2>2, <2>3, <2>4, ClaimsFrame
<1>4. ASSUME UNCHANGED <<conn, handler>>, LedgerAdvances,
             registered' \in {registered, NoAdapter}
      PROVE  Busy' /\ Claims'
  <2>1. /\ \A g \in Handler, d \in Command : HandlerHas(g, d)' => HandlerHas(g, d)
        /\ \A b \in Adapter, d \in Command : ConnHas(b, d)' => ConnHas(b, d)
      BY Zenon, <1>4 DEF HandlerHas, ConnHas
  <2>2. Busy'
      BY Zenon, <1>4 DEF Busy
  <2> QED
      BY Zenon, <1>1, <1>4, <2>1, <2>2, ClaimsFrame
<1>5. CASE \/ \E a \in Adapter, c \in Command, s \in AckStatus : Acknowledge(a, c, s)
           \/ \E c \in Command : expirePendingCommandClient(c) \/ Expire(c)
           \/ LoseAuthority \/ Evict \/ UNCHANGED vars
  <2>1. UNCHANGED <<conn, handler, registered, ledger>>
      BY Zenon, <1>5 DEF Acknowledge, expirePendingCommandClient, Expire, LoseAuthority, Evict, vars
  <2> QED
      BY Zenon, <1>2, <1>4, <2>1 DEF LedgerAdvances
<1>6. ASSUME NEW r \in resolving, ResolveUnknown(r)
      PROVE  Busy' /\ Claims' /\ LedgerAdvances
  <2>1. r.cmd \in Command
      BY Zenon DEF TypeOK, Resolution
  <2>2. LedgerAdvances
      BY Zenon, <1>6, <2>1, UnknownEffect DEF ResolveUnknown, LedgerAdvances
  <2>3. UNCHANGED <<conn, handler>> /\ registered' \in {registered, NoAdapter}
      BY Zenon, <1>6 DEF ResolveUnknown, unregisterAdapter
  <2> QED
      BY Zenon, <1>4, <2>2, <2>3
<1>7. CASE Crash
  <2>1. /\ \A h \in Handler : handler'[h].pc = "idle"
        /\ \A a \in Adapter : conn'[a].pc \in {"new", "closed"}
        /\ registered' = NoAdapter /\ UNCHANGED ledger
      BY Zenon, <1>7 DEF Crash, IdleHandler, IdleConn
  <2>2. LedgerAdvances
      BY Zenon, <2>1 DEF LedgerAdvances
  <2>3. /\ \A g \in Handler, d \in Command : ~HandlerHas(g, d)'
        /\ \A b \in Adapter, d \in Command : ~ConnHas(b, d)'
      BY Zenon, <2>1 DEF HandlerHas, ConnHas
  <2>4. Busy'
      BY Zenon, <2>1 DEF Busy
  <2> QED
      BY Zenon, <1>1, <1>2, <2>2, <2>3, <2>4, ClaimsFrame
<1> QED
    BY Zenon, <1>2, <1>3, <1>5, <1>6, <1>7 DEF CommandStep

-----------------------------------------------------------------------------
(***************************************************************************)
(* The second layer: what is on the wire, and the theorems.                *)
(***************************************************************************)

\* Only what was written is acknowledged, and a call that gives a command up
\* does not answer "accepted".
Wire ==
    /\ \A a \in Adapter, c \in Command :
          /\ c \in inbox[a] => sent[c] >= 1
          /\ \A s \in AckStatus : <<c, s>> \in acks[a] => sent[c] >= 1
          /\ conn[a].pc = "resolve" /\ conn[a].cmd = c => sent[c] >= 1
    /\ \A r \in resolving : r.answer # "accepted"

Inv ==
    /\ TypeOK /\ Busy /\ Claims /\ Wire
    /\ AtMostOnce /\ OneEventPerCommand /\ AcceptedIsCompleted
-----------------------------------------------------------------------------
LEMMA InitInv == Init => Inv
<1> SUFFICES ASSUME Init PROVE Inv
    OBVIOUS
<1> USE DeliveryAssumption
<1>1. TypeOK
    BY DEF Init, TypeOK, Status, Client, NoClient, IdleConn, ConnState, ConnPC,
           IdleHandler, HandlerState, AckStatus
<1>2. Busy /\ Claims /\ Wire
    BY Zenon DEF Init, Busy, Claims, Wire, HandlerHas, ConnHas, IdleConn, IdleHandler
<1>3. AtMostOnce /\ AcceptedIsCompleted
    BY DEF Init, AtMostOnce, AcceptedIsCompleted
<1>4. OneEventPerCommand
    BY DEF Init, OneEventPerCommand, InSeq
<1> QED
    BY Zenon, <1>1, <1>2, <1>3, <1>4 DEF Inv

\* What a step does on the wire: a frame is received when it is written,
\* acknowledged when it was received, and looked up when it was acknowledged.
WireMoves ==
    /\ \A a \in Adapter, c \in Command : c \in inbox'[a] => c \in inbox[a] \/ sent'[c] >= 1
    /\ \A a \in Adapter, c \in Command, s \in AckStatus :
          <<c, s>> \in acks'[a] => <<c, s>> \in acks[a] \/ c \in inbox[a]
    /\ \A a \in Adapter, c \in Command : conn'[a].pc = "resolve" /\ conn'[a].cmd = c =>
          \/ conn[a].pc = "resolve" /\ conn[a].cmd = c
          \/ \E s \in AckStatus : <<c, s>> \in acks[a]
    /\ \A r \in resolving' : r \in resolving \/ r.answer # "accepted"

LEMMA WireFrame ==
    ASSUME TypeOK, WritesOnce, Wire, WireMoves
    PROVE  Wire'
<1>1. \A c \in Command : sent[c] >= 1 => sent'[c] >= 1
    BY DEF WritesOnce, TypeOK
<1>2. \A a \in Adapter, c \in Command : c \in inbox'[a] => sent'[c] >= 1
    BY Zenon, <1>1 DEF Wire, WireMoves
<1>3. \A a \in Adapter, c \in Command, s \in AckStatus : <<c, s>> \in acks'[a] => sent'[c] >= 1
    BY Zenon, <1>1 DEF Wire, WireMoves
<1>4. \A a \in Adapter, c \in Command :
        conn'[a].pc = "resolve" /\ conn'[a].cmd = c => sent'[c] >= 1
    BY Zenon, <1>1 DEF Wire, WireMoves
<1>5. \A r \in resolving' : r.answer # "accepted"
    BY Zenon DEF Wire, WireMoves
<1> QED
    BY Zenon, <1>2, <1>3, <1>4, <1>5 DEF Wire

LEMMA GiveUpEffect ==
    ASSUME NEW c, NEW answer, NEW p, NEW leaving, GiveUp(c, answer, p, leaving),
           answer # "accepted"
    PROVE  \A r \in resolving' : r \in resolving \/ r.answer # "accepted"
    BY DEF GiveUp

LEMMA WriteMoves ==
    ASSUME TypeOK, NEW c \in Command, NEW a \in Adapter,
           Write(c, a) \/ UNCHANGED inbox
    PROVE  \A b \in Adapter, d \in Command : d \in inbox'[b] => d \in inbox[b] \/ sent'[d] >= 1
<1>1. CASE Write(c, a)
  <2>1. sent[c] \in Nat /\ sent'[c] = sent[c] + 1
      BY Zenon, <1>1 DEF Write, TypeOK
  <2>2. \A b \in Adapter, d \in Command : d \in inbox'[b] => d \in inbox[b] \/ d = c
      BY Zenon, <1>1 DEF Write, TypeOK
  <2> QED
      BY <2>1, <2>2
<1> QED
    BY Zenon, <1>1

LEMMA HandlerWire ==
    ASSUME TypeOK, Busy, NEW h \in Handler, HandlerStep(h)
    PROVE  WireMoves
<1> USE DEF wireVars, hubVars
<1> DEFINE c == handler[h].cmd  a == handler[h].adapter
<1>0. c \in Command /\ a \in Adapter /\ UNCHANGED <<conn, acks>>
    BY Zenon DEF HandlerStep, CommitNew, CommitRefused, SendClaims, SendClaimFails,
           SendAddsClient, SendWrites, SendWriteFails, Busy
<1>1. UNCHANGED inbox \/ Write(c, a)
    BY Zenon DEF HandlerStep, CommitNew, CommitRefused, SendClaims, SendClaimFails,
           SendAddsClient, SendWrites, SendWriteFails
<1>2. UNCHANGED resolving \/ GiveUp(c, "delivery_failed", TRUE, NoAdapter)
                          \/ GiveUp(c, "delivery_failed", TRUE, a)
    BY Zenon DEF HandlerStep, CommitNew, CommitRefused, SendClaims, SendClaimFails,
           SendAddsClient, SendWrites, SendWriteFails
<1>3. \A b \in Adapter, d \in Command : d \in inbox'[b] => d \in inbox[b] \/ sent'[d] >= 1
    BY Zenon, <1>0, <1>1, WriteMoves
<1>4. \A r \in resolving' : r \in resolving \/ r.answer # "accepted"
    BY Zenon, <1>2, GiveUpEffect
<1> QED
    BY Zenon, <1>0, <1>3, <1>4 DEF WireMoves

LEMMA ConnWire ==
    ASSUME TypeOK, Busy, NEW a \in Adapter, ConnStep(a)
    PROVE  WireMoves
<1> USE DEF wireVars, hubVars
<1> DEFINE c == conn[a].cmd
<1>0. conn \in [Adapter -> ConnState]
    BY Zenon DEF TypeOK
<1>1. UNCHANGED inbox \/ (c \in Command /\ Write(c, a))
    BY Zenon DEF ConnStep, Publish, ListCommands, NextCommand, GiveUpReceived, DeliveryFails,
           LoopAddsClient, LoopWrites, LoopWriteFails, ResolveAck, Busy
<1>2. \A b \in Adapter, d \in Command : d \in inbox'[b] => d \in inbox[b] \/ sent'[d] >= 1
    BY Zenon, <1>1, WriteMoves
<1>3. UNCHANGED resolving \/ GiveUp(c, "delivery_failed", conn[a].peer, NoAdapter)
    BY Zenon DEF ConnStep, Publish, ListCommands, NextCommand, GiveUpReceived, DeliveryFails,
           LoopAddsClient, LoopWrites, LoopWriteFails, ResolveAck
<1>4. \A r \in resolving' : r \in resolving \/ r.answer # "accepted"
    BY Zenon, <1>3, GiveUpEffect
<1>5. UNCHANGED acks \/ Leave(a)
    BY Zenon DEF ConnStep, Publish, ListCommands, NextCommand, GiveUpReceived, DeliveryFails,
           LoopAddsClient, LoopWrites, LoopWriteFails, ResolveAck
<1>6. \A b \in Adapter : acks'[b] \subseteq acks[b]
    BY Zenon, <1>5 DEF Leave, TypeOK
<1>7. conn'[a].pc # "resolve" /\ \A b \in Adapter : b # a => conn'[b] = conn[b]
  <2>1. CASE \E step \in ConnPC \ {"resolve"} : At(a, step)
      BY Zenon, <1>0, <2>1, AtEffect
  <2>2. CASE Leave(a)
      BY Zenon, <1>0, <2>2, LeaveEffect
  <2>3. CASE ListCommands(a)
      BY Zenon, <1>0, <2>3 DEF ListCommands, ConnState
  <2>4. CASE NextCommand(a)
      BY Zenon, <1>0, <2>4, NextEffect
  <2> QED
      BY Zenon, <2>1, <2>2, <2>3, <2>4
         DEF ConnStep, Publish, GiveUpReceived, DeliveryFails,
             LoopAddsClient, LoopWrites, LoopWriteFails, ResolveAck, ConnPC
<1> QED
    BY Zenon, <1>2, <1>4, <1>6, <1>7 DEF WireMoves

LEMMA SocketWire ==
    ASSUME TypeOK, Busy, NEW a \in Adapter,
           \/ Reconnect(a) \/ Admit(a) \/ Read(a) \/ Disconnect(a)
           \/ RejectAdapter(a) \/ rejectPendingCommandDeliveries(a)
    PROVE  WireMoves
<1> USE DEF wireVars, hubVars
<1>0. conn \in [Adapter -> ConnState]
    BY Zenon DEF TypeOK
<1>1. \A b \in Adapter : inbox'[b] \subseteq inbox[b]
  <2>1. CASE Reconnect(a)
      BY Zenon, <2>1 DEF TypeOK, Reconnect
  <2>2. CASE UNCHANGED inbox
      BY Zenon, <2>2
  <2> QED
      BY Zenon, <2>1, <2>2 DEF Admit, Read, ReadAck, Disconnect, RejectAdapter,
                        rejectPendingCommandDeliveries
<1>2. \A b \in Adapter : acks'[b] \subseteq acks[b]
  <2>1. CASE Read(a)
    <3>1. \E e : acks' = [acks EXCEPT ![a] = @ \ {e}]
        BY Zenon, <2>1 DEF Read, ReadAck
    <3> QED
        BY Zenon, <3>1 DEF TypeOK
  <2>2. CASE Disconnect(a)
      BY Zenon, <2>2 DEF TypeOK, Disconnect, Leave
  <2>3. CASE UNCHANGED acks
      BY Zenon, <2>3
  <2> QED
      BY Zenon, <2>1, <2>2, <2>3 DEF Reconnect, Admit, RejectAdapter,
                              rejectPendingCommandDeliveries
<1>3. \A r \in resolving' : r \in resolving \/ r.answer # "accepted"
  <2>1. CASE UNCHANGED resolving
      BY Zenon, <2>1
  <2>2. CASE Read(a)
      BY Zenon, <2>2, GiveUpEffect DEF Read, ReadAck
  <2>3. CASE rejectPendingCommandDeliveries(a)
      BY <2>3 DEF rejectPendingCommandDeliveries
  <2> QED
      BY Zenon, <2>1, <2>2, <2>3 DEF Reconnect, Admit, Disconnect, RejectAdapter
<1>4. \A b \in Adapter, c \in Command : conn'[b].pc = "resolve" /\ conn'[b].cmd = c =>
          \/ conn[b].pc = "resolve" /\ conn[b].cmd = c
          \/ \E s \in AckStatus : <<c, s>> \in acks[b]
  <2>1. CASE Reconnect(a)
      BY Zenon, <1>0, <2>1 DEF Reconnect, IdleConn
  <2>2. CASE Admit(a)
      BY <1>0, <2>2, AtEffect DEF Admit
  <2>3. CASE Read(a)
    <3> PICK c \in Command, s \in AckStatus : ReadAck(a, c, s)
        BY Zenon, <2>3 DEF Read
    <3>1. <<c, s>> \in acks[a]
        BY Zenon DEF ReadAck
    <3>2. CASE UNCHANGED conn
        BY Zenon, <3>2
    <3>3. CASE conn' = [conn EXCEPT ![a].pc = "resolve", ![a].cmd = c,
                                    ![a].peer = client[c].peer, ![a].status = s]
      <4>1. conn'[a].cmd = c /\ \A b \in Adapter : b # a => conn'[b] = conn[b]
          BY Zenon, <1>0, <3>3 DEF ConnState
      <4> QED
          BY Zenon, <3>1, <4>1
    <3> QED
        BY Zenon, <3>2, <3>3 DEF ReadAck
  <2>4. CASE Disconnect(a)
      BY Zenon, <1>0, <2>4, LeaveEffect DEF Disconnect
  <2> QED
      BY Zenon, <2>1, <2>2, <2>3, <2>4 DEF RejectAdapter, rejectPendingCommandDeliveries
<1> QED
    BY Zenon, <1>1, <1>2, <1>3, <1>4 DEF WireMoves

LEMMA OtherWire ==
    ASSUME TypeOK, Busy,
           \/ \E h \in Handler, c \in Command : BeginSend(h, c)
           \/ \E a \in Adapter, c \in Command, s \in AckStatus : Acknowledge(a, c, s)
           \/ \E c \in Command : CommandStep(c) \/ Expire(c)
           \/ LoseAuthority \/ Evict \/ Crash \/ UNCHANGED vars
    PROVE  WireMoves
<1> USE DEF wireVars, hubVars
<1>1. CASE \E a \in Adapter, c \in Command, s \in AckStatus : Acknowledge(a, c, s)
  <2> PICK a \in Adapter, c \in Command, s \in AckStatus : Acknowledge(a, c, s)
      BY Zenon, <1>1
  <2>1. /\ \A b \in Adapter : inbox'[b] \subseteq inbox[b]
        /\ \A b \in Adapter, d \in Command, x \in AckStatus :
             <<d, x>> \in acks'[b] => <<d, x>> \in acks[b] \/ d \in inbox[b]
      BY Zenon DEF Acknowledge, TypeOK
  <2> QED
      BY Zenon, <2>1 DEF Acknowledge, WireMoves
<1>2. ASSUME NEW c \in Command, expirePendingCommandClient(c)
      PROVE  WireMoves
  <2>1. \A r \in resolving' : r \in resolving \/ r.answer # "accepted"
      BY Zenon, <1>2, GiveUpEffect DEF expirePendingCommandClient
  <2> QED
      BY Zenon, <1>2, <2>1 DEF expirePendingCommandClient, WireMoves
<1>3. CASE Crash
  <2>1. \A a \in Adapter : conn'[a].pc # "resolve" /\ acks'[a] = {}
      BY Zenon, <1>3 DEF Crash, IdleConn
  <2> QED
      BY Zenon, <1>3, <2>1 DEF Crash, WireMoves
<1>4. CASE \/ \E h \in Handler, c \in Command : BeginSend(h, c)
           \/ \E c \in Command : Expire(c)
           \/ \E r \in resolving : ResolveUnknown(r)
           \/ LoseAuthority \/ Evict \/ UNCHANGED vars
  <2>1. UNCHANGED <<conn, inbox, acks>> /\ resolving' \subseteq resolving
      BY Zenon, <1>4 DEF BeginSend, Expire, ResolveUnknown, LoseAuthority, Evict, vars
  <2> QED
      BY Zenon, <2>1 DEF WireMoves
<1> QED
    BY Zenon, <1>1, <1>2, <1>3, <1>4 DEF CommandStep
-----------------------------------------------------------------------------
\* The log grows by CommitNew only.
LEMMA LogGrows ==
    ASSUME [Next]_vars
    PROVE  UNCHANGED events \/ \E h \in Handler : CommitNew(h)
<1> USE DEF wireVars, hubVars
<1>1. ASSUME NEW h \in Handler, HandlerStep(h)
      PROVE  UNCHANGED events \/ CommitNew(h)
    BY Zenon, <1>1 DEF HandlerStep, CommitRefused, SendClaims, SendClaimFails,
                SendAddsClient, SendWrites, SendWriteFails
<1>2. ASSUME NEW a \in Adapter, ConnStep(a)
      PROVE  UNCHANGED events
    BY Zenon, <1>2 DEF ConnStep, Publish, ListCommands, NextCommand, GiveUpReceived, DeliveryFails,
                LoopAddsClient, LoopWrites, LoopWriteFails, ResolveAck
<1>3. ASSUME NEW a \in Adapter,
             \/ Reconnect(a) \/ Admit(a) \/ Read(a) \/ Disconnect(a)
             \/ RejectAdapter(a) \/ rejectPendingCommandDeliveries(a)
      PROVE  UNCHANGED events
    BY Zenon, <1>3 DEF Reconnect, Admit, Read, ReadAck, Disconnect, RejectAdapter,
                rejectPendingCommandDeliveries
<1>4. ASSUME \/ \E h \in Handler, c \in Command : BeginSend(h, c)
             \/ \E a \in Adapter, c \in Command, s \in AckStatus : Acknowledge(a, c, s)
             \/ \E c \in Command : CommandStep(c) \/ Expire(c)
             \/ LoseAuthority \/ Evict \/ Crash \/ UNCHANGED vars
      PROVE  UNCHANGED events
    BY Zenon, <1>4 DEF BeginSend, Acknowledge, CommandStep, expirePendingCommandClient, ResolveUnknown,
                Expire, LoseAuthority, Evict, Crash, vars
<1> QED
    BY Zenon, <1>1, <1>2, <1>3, <1>4 DEF Next, CalmNext

LEMMA OneEventStep ==
    ASSUME TypeOK, Busy, LedgerAdvances, OneEventPerCommand, [Next]_vars
    PROVE  OneEventPerCommand'
<1>0. events \in Seq(Command) /\ Len(events) \in Nat
    BY DEF TypeOK
<1>1. CASE UNCHANGED events
  <2>1. \A c \in Command : events' # Append(events, c)
    <3>1. \A c \in Command : Len(Append(events, c)) = Len(events) + 1
        BY Zenon, <1>0, AppendFacts
    <3> QED
        BY <1>0, <1>1, <3>1
  <2>2. \A c \in Command : ledger'[c] = "absent" <=> ledger[c] = "absent"
      BY Zenon, <2>1 DEF LedgerAdvances
  <2> QED
      BY <1>1, <2>2 DEF OneEventPerCommand, InSeq
<1>2. ASSUME NEW h \in Handler, CommitNew(h)
      PROVE  OneEventPerCommand'
  <2> DEFINE c == handler[h].cmd  n == Len(events)
  <2>1. c \in Command /\ ledger[c] = "absent" /\ ledger' = [ledger EXCEPT ![c] = "pending"]
      BY Zenon, <1>2 DEF CommitNew, commitPendingCommand, Busy
  <2>2. /\ Len(events') = n + 1 /\ events'[n + 1] = c
        /\ \A i \in 1..n : events'[i] = events[i]
      BY <1>0, <1>2, <2>1, AppendFacts DEF CommitNew, commitPendingCommand
  <2>3. \A i \in 1..n : events[i] # c
      BY Zenon, <2>1 DEF OneEventPerCommand, InSeq
  <2>4. \A i \in 1..(n + 1) : i \in 1..n \/ i = n + 1
      BY <1>0
  <2>5. \A i, j \in 1..Len(events') : events'[i] = events'[j] => i = j
      BY <2>2, <2>3, <2>4 DEF OneEventPerCommand
  <2>6. ASSUME NEW d \in Command
        PROVE  ledger'[d] # "absent" <=> InSeq(d, events')
    <3>1. CASE d = c
      <4>1. n + 1 \in 1..Len(events')
          BY <1>0, <2>2
      <4>2. ledger'[d] = "pending"
          BY Zenon, <2>1, <3>1 DEF TypeOK
      <4> QED
          BY Zenon, <2>2, <3>1, <4>1, <4>2 DEF InSeq
    <3>2. CASE d # c
      <4>1. ledger'[d] = ledger[d]
          BY Zenon, <2>1, <3>2 DEF TypeOK
      <4>2. InSeq(d, events') <=> InSeq(d, events)
        <5>1. 1..n \subseteq 1..Len(events')
            BY <1>0, <2>2
        <5> QED
            BY Zenon, <2>2, <2>4, <3>2, <5>1 DEF InSeq
      <4> QED
          BY Zenon, <4>1, <4>2 DEF OneEventPerCommand
    <3> QED
        BY Zenon, <3>1, <3>2
  <2> QED
      BY Zenon, <2>5, <2>6 DEF OneEventPerCommand
<1> QED
    BY Zenon, <1>1, <1>2, LogGrows

\* A client is told "accepted" only with the resolution of its command.
LEMMA ToldAccepted ==
    ASSUME TypeOK, Busy, Wire, [Next]_vars, NEW c \in Command,
           told'[c] = "accepted"
    PROVE  \/ told[c] = "accepted"
           \/ /\ ledger'[c] = "completed" /\ UNCHANGED sent
              /\ \E a \in Adapter : conn[a].pc = "resolve" /\ conn[a].cmd = c
<1> USE DEF wireVars, hubVars
<1>0. told \in [Command -> Answer \cup {"nothing"}]
    BY Zenon DEF TypeOK
<1>1. ASSUME NEW h \in Handler, HandlerStep(h)
      PROVE  told[c] = "accepted"
  <2>1. CASE CommitRefused(h)
      BY Zenon, <1>0, <2>1 DEF CommitRefused, Tell, RetryAnswer
  <2> QED
      BY Zenon, <1>1, <2>1 DEF HandlerStep, CommitNew, SendClaims, SendClaimFails,
                        SendAddsClient, SendWrites, SendWriteFails
<1>2. ASSUME NEW a \in Adapter, ConnStep(a)
      PROVE  \/ told[c] = "accepted"
             \/ /\ ledger'[c] = "completed" /\ UNCHANGED sent
                /\ conn[a].pc = "resolve" /\ conn[a].cmd = c
  <2>1. CASE ResolveAck(a)
    <3> DEFINE d == conn[a].cmd
    <3>1. d \in Command /\ conn[a].pc = "resolve" /\ UNCHANGED sent
        BY Zenon, <2>1 DEF ResolveAck, Busy
    <3>2. CASE UNCHANGED told
        BY Zenon, <3>2
    <3>3. CASE /\ ledger' = [ledger EXCEPT ![d] = "completed"]
               /\ \E answer : Tell(d, answer)
      <4>1. d # c => told'[c] = told[c]
          BY Zenon, <1>0, <3>1, <3>3 DEF Tell
      <4>2. ledger'[d] = "completed"
          BY Zenon, <3>1, <3>3 DEF TypeOK
      <4> QED
          BY Zenon, <3>1, <4>1, <4>2
    <3> QED
        BY Zenon, <2>1, <3>2, <3>3 DEF ResolveAck
  <2> QED
      BY Zenon, <1>2, <2>1 DEF ConnStep, Publish, ListCommands, NextCommand, GiveUpReceived,
                        DeliveryFails, LoopAddsClient, LoopWrites, LoopWriteFails
<1>3. ASSUME NEW a \in Adapter,
             \/ Reconnect(a) \/ Admit(a) \/ Read(a) \/ Disconnect(a)
             \/ RejectAdapter(a) \/ rejectPendingCommandDeliveries(a)
      PROVE  told[c] = "accepted"
    BY Zenon, <1>3 DEF Reconnect, Admit, Read, ReadAck, Disconnect, RejectAdapter,
                rejectPendingCommandDeliveries
<1>4. ASSUME NEW r \in resolving, ResolveUnknown(r)
      PROVE  told[c] = "accepted"
  <2>1. r.answer # "accepted"
      BY Zenon DEF Wire
  <2> QED
      BY Zenon, <1>0, <1>4, <2>1 DEF ResolveUnknown, Tell
<1>5. ASSUME \/ \E h \in Handler, d \in Command : BeginSend(h, d)
             \/ \E a \in Adapter, d \in Command, s \in AckStatus : Acknowledge(a, d, s)
             \/ \E d \in Command : expirePendingCommandClient(d) \/ Expire(d)
             \/ LoseAuthority \/ Evict \/ Crash \/ UNCHANGED vars
      PROVE  told[c] = "accepted"
    BY Zenon, <1>5 DEF BeginSend, Acknowledge, expirePendingCommandClient,
                Expire, LoseAuthority, Evict, Crash, vars
<1> QED
    BY Zenon, <1>1, <1>2, <1>3, <1>4, <1>5 DEF Next, CalmNext, CommandStep

LEMMA NextInv == Inv /\ [Next]_vars => Inv'
<1> SUFFICES ASSUME Inv, [Next]_vars PROVE Inv'
    OBVIOUS
<1> USE DEF Inv
<1>1. TypeOK'
    BY Zenon, HandlerTypes, ConnTypes, SocketTypes, OtherTypes DEF Next, CalmNext
<1>2. Busy' /\ Claims' /\ LedgerAdvances /\ WritesOnce
    BY Zenon, HandlerClaims, ConnClaims, SocketClaims, OtherClaims DEF Next, CalmNext
<1>3. WireMoves
    BY Zenon, HandlerWire, ConnWire, SocketWire, OtherWire DEF Next, CalmNext
<1>4. Wire'
    BY Zenon, <1>2, <1>3, WireFrame
<1>5. AtMostOnce'
    BY <1>2 DEF AtMostOnce, WritesOnce
<1>6. OneEventPerCommand'
    BY Zenon, <1>2, OneEventStep
<1>7. AcceptedIsCompleted'
  <2> SUFFICES ASSUME NEW c \in Command, told'[c] = "accepted"
               PROVE  ledger'[c] = "completed" /\ sent'[c] = 1
      BY Zenon DEF AcceptedIsCompleted
  <2>1. CASE told[c] = "accepted"
      BY Zenon, <1>2, <2>1 DEF AcceptedIsCompleted, LedgerAdvances, WritesOnce
  <2>2. CASE /\ ledger'[c] = "completed" /\ UNCHANGED sent
             /\ \E a \in Adapter : conn[a].pc = "resolve" /\ conn[a].cmd = c
    <3>1. sent[c] >= 1 /\ sent[c] <= 1 /\ sent[c] \in Nat
        BY Zenon, <2>2 DEF Wire, AtMostOnce, TypeOK
    <3> QED
        BY <2>2, <3>1
  <2> QED
      BY Zenon, <2>1, <2>2, ToldAccepted
<1> QED
    BY Zenon, <1>1, <1>2, <1>4, <1>5, <1>6, <1>7

LEMMA InvHolds == Spec => []Inv
    BY InitInv, NextInv, PTL DEF Spec

\* The state keeps its types: the cache of accepted commands stays within
\* maxAcceptedCommandIDs, and a registered Adapter has a served socket.
THEOREM Types == Spec => []TypeOK
    BY InvHolds, PTL DEF Inv

\* Whatever the goroutines of requests, sockets and timers do, and however
\* often the Hub restarts, a command is written to an Adapter at most once.
THEOREM DeliveredOnce == Spec => []AtMostOnce
    BY InvHolds, PTL DEF Inv

\* commitPendingCommand appends a command's event with its ledger row, and
\* so once, whatever clients retry.
THEOREM LoggedOnce == Spec => []OneEventPerCommand
    BY InvHolds, PTL DEF Inv

\* An "accepted" that a client has got is never taken back.
THEOREM AcceptedStands == Spec => []AcceptedIsCompleted
    BY InvHolds, PTL DEF Inv

\* A row of session_pending_commands only moves on, from absent to pending
\* (with its event) to received to an outcome, and an outcome is final.
THEOREM LedgerOnlyAdvances == Spec => [][LedgerAdvances]_vars
<1>1. Inv /\ [Next]_vars => [LedgerAdvances]_vars
    BY Zenon, HandlerClaims, ConnClaims, SocketClaims, OtherClaims DEF Next, CalmNext, Inv
<1> QED
    BY <1>1, InvHolds, PTL DEF Spec
-----------------------------------------------------------------------------
\* The owners of a received command: a goroutine that has yet to note the
\* delivery, the noted delivery, or a call that gives the command up.
Owner(c) ==
    \/ \E h \in Handler : handler[h].cmd = c /\ handler[h].pc = "add"
    \/ \E a \in Adapter : conn[a].cmd = c /\ conn[a].pc = "add"
    \/ client[c] # NoClient
    \/ \E r \in resolving : r.cmd = c

Owned == \A c \in Command : ledger[c] = "received" => Owner(c)

LEMMA OwnerKept ==
    ASSUME NEW d \in Command, Owner(d), client'[d] = client[d], resolving \subseteq resolving',
           \A h \in Handler : handler[h].pc = "add" => handler'[h] = handler[h],
           \A a \in Adapter : conn[a].pc = "add" => conn'[a] = conn[a]
    PROVE  Owner(d)'
    BY Zenon DEF Owner

LEMMA GivenUp ==
    ASSUME NEW c, NEW answer, NEW p, NEW leaving, GiveUp(c, answer, p, leaving)
    PROVE  Owner(c)' /\ resolving \subseteq resolving'
<1> DEFINE r == [cmd |-> c, answer |-> answer, peer |-> p, leaving |-> leaving]
<1>1. r \in resolving' /\ r.cmd = c /\ resolving \subseteq resolving'
    BY Zenon DEF GiveUp
<1>2. \E x \in resolving' : x.cmd = c
    BY Zenon, <1>1
<1> QED
    BY Zenon, <1>1, <1>2 DEF Owner

LEMMA HandlerOwned ==
    ASSUME TypeOK, Busy, Owned, NEW h \in Handler, HandlerStep(h),
           NEW d \in Command, ledger'[d] = "received"
    PROVE  Owner(d)'
<1> USE DEF wireVars, hubVars
<1> DEFINE c == handler[h].cmd  a == handler[h].adapter
<1>0. /\ c \in Command /\ a \in Adapter
      /\ handler \in [Handler -> HandlerState] /\ ledger \in [Command -> Status]
      /\ client \in [Command -> Client]
    BY Zenon DEF HandlerStep, CommitNew, CommitRefused, SendClaims, SendClaimFails,
           SendAddsClient, SendWrites, SendWriteFails, Busy, TypeOK
<1>a. UNCHANGED conn
    BY Zenon DEF HandlerStep, CommitNew, CommitRefused, SendClaims, SendClaimFails,
           SendAddsClient, SendWrites, SendWriteFails
<1>1. CASE CommitNew(h)
  <2>1. handler[h].pc = "commit" /\ \A g \in Handler : g # h => handler'[g] = handler[g]
      BY Zenon, <1>0, <1>1, GoToEffect DEF CommitNew
  <2>2. ledger[d] = "received" /\ UNCHANGED <<client, resolving>>
      BY Zenon, <1>0, <1>1 DEF CommitNew, commitPendingCommand
  <2> QED
      BY Zenon, <1>a, <2>1, <2>2, OwnerKept DEF Owned
<1>2. CASE CommitRefused(h)
  <2>1. handler[h].pc = "commit" /\ \A g \in Handler : g # h => handler'[g] = handler[g]
      BY Zenon, <1>0, <1>2, DoneEffect DEF CommitRefused
  <2>2. ledger[d] = "received" /\ UNCHANGED <<client, resolving>>
      BY Zenon, <1>2 DEF CommitRefused
  <2> QED
      BY Zenon, <1>a, <2>1, <2>2, OwnerKept DEF Owned
<1>3. CASE SendClaims(h)
  <2>1. /\ handler[h].pc = "claim" /\ handler'[h].pc = "add" /\ handler'[h].cmd = c
        /\ \A g \in Handler : g # h => handler'[g] = handler[g]
      BY Zenon, <1>0, <1>3, GoToEffect DEF SendClaims
  <2>2. CASE d = c
      BY Zenon, <2>1, <2>2 DEF Owner
  <2>3. CASE d # c
    <3>1. ledger[d] = "received" /\ UNCHANGED <<client, resolving>>
        BY Zenon, <1>0, <1>3, <2>3 DEF SendClaims
    <3> QED
        BY Zenon, <1>a, <2>1, <3>1, OwnerKept DEF Owned
  <2> QED
      BY Zenon, <2>2, <2>3
<1>4. CASE SendClaimFails(h)
  <2>1. handler[h].pc = "claim" /\ \A g \in Handler : g # h => handler'[g] = handler[g]
      BY Zenon, <1>0, <1>4, DoneEffect DEF SendClaimFails
  <2>2. ledger[d] = "received" /\ UNCHANGED client /\ resolving \subseteq resolving'
      BY Zenon, <1>4, GivenUp DEF SendClaimFails
  <2> QED
      BY Zenon, <1>a, <2>1, <2>2, OwnerKept DEF Owned
<1>5. CASE SendAddsClient(h)
  <2>1. /\ handler[h].pc = "add" /\ \A g \in Handler : g # h => handler'[g] = handler[g]
      BY Zenon, <1>0, <1>5, GoToEffect DEF SendAddsClient
  <2>2. ledger[d] = "received" /\ UNCHANGED resolving
      BY Zenon, <1>5 DEF SendAddsClient
  <2>3. client'[c] # NoClient /\ (d # c => client'[d] = client[d])
    <3>1. client'[c] = [adapter |-> a, peer |-> TRUE]
        BY Zenon, <1>0, <1>5 DEF SendAddsClient, addPendingCommandClient
    <3>2. client'[c].adapter # NoClient.adapter
        BY <1>0, <3>1, DeliveryAssumption DEF NoClient
    <3>3. d # c => client'[d] = client[d]
        BY Zenon, <1>0, <1>5 DEF SendAddsClient, addPendingCommandClient
    <3> QED
        BY Zenon, <3>2, <3>3
  <2>4. CASE d = c
      BY Zenon, <2>3, <2>4 DEF Owner
  <2>5. CASE d # c
      BY Zenon, <1>a, <2>1, <2>2, <2>3, <2>5 DEF Owned, Owner
  <2> QED
      BY Zenon, <2>4, <2>5
<1>6. CASE SendWrites(h)
  <2>1. handler[h].pc = "write" /\ \A g \in Handler : g # h => handler'[g] = handler[g]
      BY Zenon, <1>0, <1>6, DoneEffect DEF SendWrites
  <2>2. ledger[d] = "received" /\ UNCHANGED <<client, resolving>>
      BY Zenon, <1>6 DEF SendWrites
  <2> QED
      BY Zenon, <1>a, <2>1, <2>2, OwnerKept DEF Owned
<1>7. CASE SendWriteFails(h)
  <2>1. handler[h].pc = "write" /\ \A g \in Handler : g # h => handler'[g] = handler[g]
      BY Zenon, <1>0, <1>7, DoneEffect DEF SendWriteFails
  <2>2. ledger[d] = "received" /\ (d = c => Owner(d)') /\ resolving \subseteq resolving'
    <3>1. ledger[d] = "received" /\ GiveUp(c, "delivery_failed", TRUE, a)
        BY Zenon, <1>7 DEF SendWriteFails
    <3>2. d = c => GiveUp(d, "delivery_failed", TRUE, a)
        BY Zenon, <3>1
    <3> QED
        BY Zenon, <3>1, <3>2, GivenUp
  <2>3. d # c => client'[d] = client[d]
      BY Zenon, <1>0, <1>7 DEF SendWriteFails, takePendingCommandClient
  <2> QED
      BY Zenon, <1>a, <2>1, <2>2, <2>3, OwnerKept DEF Owned
<1> QED
    BY Zenon, <1>1, <1>2, <1>3, <1>4, <1>5, <1>6, <1>7 DEF HandlerStep

LEMMA ConnOwned ==
    ASSUME TypeOK, Busy, Owned, NEW a \in Adapter, ConnStep(a),
           NEW d \in Command, ledger'[d] = "received"
    PROVE  Owner(d)'
<1> USE DEF wireVars, hubVars
<1> DEFINE c == conn[a].cmd
<1>0. /\ conn \in [Adapter -> ConnState] /\ ledger \in [Command -> Status]
      /\ client \in [Command -> Client]
    BY Zenon DEF TypeOK
<1>a. UNCHANGED handler
    BY Zenon DEF ConnStep, Publish, ListCommands, NextCommand, GiveUpReceived, DeliveryFails,
           LoopAddsClient, LoopWrites, LoopWriteFails, ResolveAck
<1>1. ASSUME conn[a].pc # "add", \A b \in Adapter : b # a => conn'[b] = conn[b],
             ledger[d] = "received", client'[d] = client[d], resolving \subseteq resolving'
      PROVE  Owner(d)'
    BY Zenon, <1>1, <1>a, OwnerKept DEF Owned
<1>2. CASE Publish(a)
    BY Zenon, <1>0, <1>1, <1>2, AtEffect DEF Publish
<1>3. CASE ListCommands(a)
  <2>1. \A b \in Adapter : b # a => conn'[b] = conn[b]
      BY Zenon, <1>0, <1>3 DEF ListCommands
  <2> QED
      BY Zenon, <1>1, <1>3, <2>1 DEF ListCommands
<1>4. CASE GiveUpReceived(a)
  <2>1. c \in Command /\ \A b \in Adapter : b # a => conn'[b] = conn[b]
      BY Zenon, <1>0, <1>4, AtEffect DEF GiveUpReceived, Busy
  <2>2. ledger[c] = "received" /\ ledger' = [ledger EXCEPT ![c] = "outcome_unknown"]
      BY Zenon, <1>4 DEF GiveUpReceived, resolvePendingCommandUnknown
  <2>3. d # c /\ ledger[d] = "received"
      BY Zenon, <1>0, <2>1, <2>2
  <2> QED
      BY <1>4, <1>a, <2>1, <2>3 DEF GiveUpReceived, Owned, Owner
<1>5. CASE DeliveryFails(a)
  <2>1. /\ \A b \in Adapter : b # a => conn'[b] = conn[b]
        /\ UNCHANGED <<ledger, client, resolving>>
      BY Zenon, <1>0, <1>5, LeaveEffect DEF DeliveryFails
  <2>2. CASE conn[a].pc = "add"
    <3>1. ledger[c] # "received"
        BY Zenon, <1>5, <2>2 DEF DeliveryFails
    <3> QED
        BY <1>a, <2>1, <3>1 DEF Owned, Owner
  <2> QED
      BY Zenon, <1>1, <2>1, <2>2
<1>6. CASE LoopAddsClient(a)
  <2>1. /\ c \in Command /\ conn[a].pc = "add"
        /\ \A b \in Adapter : b # a => conn'[b] = conn[b]
      BY Zenon, <1>0, <1>6, AtEffect DEF LoopAddsClient, Busy
  <2>2. ledger[d] = "received" /\ UNCHANGED resolving
      BY Zenon, <1>6 DEF LoopAddsClient
  <2>3. client'[c] # NoClient /\ (d # c => client'[d] = client[d])
    <3>1. client'[c] = [adapter |-> a, peer |-> FALSE]
        BY Zenon, <1>0, <1>6, <2>1 DEF LoopAddsClient, addPendingCommandClient
    <3>2. client'[c].adapter # NoClient.adapter
        BY <3>1, DeliveryAssumption DEF NoClient
    <3>3. d # c => client'[d] = client[d]
        BY Zenon, <1>0, <1>6 DEF LoopAddsClient, addPendingCommandClient
    <3> QED
        BY Zenon, <3>2, <3>3
  <2>4. CASE d = c
      BY Zenon, <2>3, <2>4 DEF Owner
  <2>5. CASE d # c
      BY Zenon, <1>a, <2>1, <2>2, <2>3, <2>5 DEF Owned, Owner
  <2> QED
      BY Zenon, <2>4, <2>5
<1>7. CASE LoopWrites(a)
    BY Zenon, <1>0, <1>1, <1>7, AtEffect DEF LoopWrites
<1>8. CASE LoopWriteFails(a)
  <2>1. c \in Command /\ \A b \in Adapter : b # a => conn'[b] = conn[b]
      BY Zenon, <1>0, <1>8, LeaveEffect DEF LoopWriteFails, Busy
  <2>2. d # c /\ ledger[d] = "received"
      BY Zenon, <1>0, <1>8, <2>1 DEF LoopWriteFails, resolvePendingCommandUnknown
  <2>3. client'[d] = client[d]
      BY Zenon, <1>0, <1>8, <2>2 DEF LoopWriteFails, takePendingCommandClient
  <2> QED
      BY Zenon, <1>1, <1>8, <2>1, <2>2, <2>3 DEF LoopWriteFails
<1>9. CASE ResolveAck(a)
  <2>1. /\ c \in Command /\ conn[a].pc = "resolve"
        /\ \A b \in Adapter : b # a => conn'[b] = conn[b]
      BY Zenon, <1>0, <1>9, AtEffect DEF ResolveAck, Busy
  <2>2. d # c => client'[d] = client[d]
      BY Zenon, <1>0, <1>9 DEF ResolveAck, takePendingCommandClient
  <2>3. CASE ledger' = [ledger EXCEPT ![c] = "completed"] /\ UNCHANGED resolving
    <3>1. d # c /\ ledger[d] = "received"
        BY Zenon, <1>0, <2>1, <2>3
    <3> QED
        BY Zenon, <1>1, <2>1, <2>2, <2>3, <3>1
  <2>4. CASE UNCHANGED ledger /\ GiveUp(c, "delivery_failed", conn[a].peer, NoAdapter)
    <3>1. d = c => GiveUp(d, "delivery_failed", conn[a].peer, NoAdapter)
        BY Zenon, <2>4
    <3>2. (d = c => Owner(d)') /\ resolving \subseteq resolving'
        BY Zenon, <2>4, <3>1, GivenUp
    <3> QED
        BY Zenon, <1>1, <2>1, <2>2, <2>4, <3>2
  <2> QED
      BY Zenon, <1>9, <2>3, <2>4 DEF ResolveAck
<1>10. CASE NextCommand(a)
  <2>1. conn[a].pc = "next" /\ UNCHANGED <<client, resolving>>
      BY Zenon, <1>10 DEF NextCommand
  <2>2. \A b \in Adapter : b # a => conn'[b] = conn[b]
      BY Zenon, <1>0, <1>10, NextEffect
  <2>3. CASE ledger[d] = "received"
      BY Zenon, <1>1, <2>1, <2>2, <2>3
  <2>4. CASE \E i \in First(conn[a].todo) :
               /\ ledger' = [ledger EXCEPT ![events[i]] = "received"]
               /\ conn'[a].pc = "add" /\ conn'[a].cmd = events[i]
    <3>1. ledger[d] = "received" \/ (conn'[a].pc = "add" /\ conn'[a].cmd = d)
        BY Zenon, <1>0, <2>4
    <3> QED
        BY Zenon, <2>3, <3>1 DEF Owner
  <2> QED
      BY Zenon, <1>0, <1>10, <2>3, <2>4, NextEffect
<1> QED
    BY Zenon, <1>2, <1>3, <1>4, <1>5, <1>6, <1>7, <1>8, <1>9, <1>10 DEF ConnStep

LEMMA SocketOwned ==
    ASSUME TypeOK, Busy, Owned, NEW a \in Adapter,
           \/ Reconnect(a) \/ Admit(a) \/ Read(a) \/ Disconnect(a)
           \/ RejectAdapter(a) \/ rejectPendingCommandDeliveries(a),
           NEW d \in Command, ledger'[d] = "received"
    PROVE  Owner(d)'
<1> USE DEF wireVars, hubVars
<1>0. conn \in [Adapter -> ConnState] /\ client \in [Command -> Client]
    BY Zenon DEF TypeOK
<1>1. UNCHANGED <<handler, ledger>>
    BY Zenon DEF Reconnect, Admit, Read, ReadAck, Disconnect, RejectAdapter,
           rejectPendingCommandDeliveries
<1>2. Owner(d)
    BY Zenon, <1>1 DEF Owned
<1>3. ASSUME conn[a].pc # "add", \A b \in Adapter : b # a => conn'[b] = conn[b],
             client'[d] = client[d], resolving \subseteq resolving'
      PROVE  Owner(d)'
    BY Zenon, <1>1, <1>2, <1>3, OwnerKept
<1>4. CASE Reconnect(a)
  <2>1. \A b \in Adapter : b # a => conn'[b] = conn[b]
      BY Zenon, <1>0, <1>4 DEF Reconnect
  <2> QED
      BY Zenon, <1>3, <1>4, <2>1 DEF Reconnect
<1>5. CASE Admit(a)
    BY Zenon, <1>0, <1>3, <1>5, AtEffect DEF Admit
<1>6. CASE Read(a)
  <2> PICK c \in Command, s \in AckStatus : ReadAck(a, c, s)
      BY Zenon, <1>6 DEF Read
  <2>1. conn[a].pc = "read" /\ \A b \in Adapter : b # a => conn'[b] = conn[b]
      BY Zenon, <1>0 DEF ReadAck
  <2>2. CASE UNCHANGED <<client, resolving>>
      BY Zenon, <1>3, <2>1, <2>2
  <2>3. CASE /\ takePendingCommandClient(c)
             /\ GiveUp(c, "delivery_failed", client[c].peer, NoAdapter)
    <3>1. Owner(c)' /\ resolving \subseteq resolving'
        BY Zenon, <2>3, GivenUp
    <3>2. d # c => client'[d] = client[d]
        BY Zenon, <1>0, <2>3 DEF takePendingCommandClient
    <3> QED
        BY Zenon, <1>3, <2>1, <3>1, <3>2
  <2> QED
      BY Zenon, <2>2, <2>3 DEF ReadAck
<1>7. CASE Disconnect(a)
    BY Zenon, <1>0, <1>3, <1>7, LeaveEffect DEF Disconnect
<1>8. CASE RejectAdapter(a)
    BY Zenon, <1>1, <1>2, <1>8 DEF RejectAdapter, Owner
<1>9. CASE rejectPendingCommandDeliveries(a)
  <2> DEFINE r == [cmd |-> d, answer |-> "delivery_failed", peer |-> client[d].peer,
                   leaving |-> NoAdapter]
  <2>1. CASE client[d].adapter = a
    <3>1. r \in resolving' /\ r.cmd = d
        BY Zenon, <1>9, <2>1 DEF rejectPendingCommandDeliveries
    <3>2. \E x \in resolving' : x.cmd = d
        BY Zenon, <3>1
    <3> QED
        BY Zenon, <3>2 DEF Owner
  <2>2. CASE client[d].adapter # a
    <3>1. /\ client'[d] = client[d] /\ resolving \subseteq resolving'
          /\ UNCHANGED conn
        BY Zenon, <1>9, <2>2 DEF rejectPendingCommandDeliveries
    <3> QED
        BY Zenon, <1>1, <1>2, <3>1, OwnerKept
  <2> QED
      BY Zenon, <2>1, <2>2
<1> QED
    BY Zenon, <1>4, <1>5, <1>6, <1>7, <1>8, <1>9

LEMMA OtherOwned ==
    ASSUME TypeOK, Busy, Owned,
           \/ \E h \in Handler, c \in Command : BeginSend(h, c)
           \/ \E a \in Adapter, c \in Command, s \in AckStatus : Acknowledge(a, c, s)
           \/ \E c \in Command : CommandStep(c) \/ Expire(c)
           \/ LoseAuthority \/ Evict \/ UNCHANGED vars,
           NEW d \in Command, ledger'[d] = "received"
    PROVE  Owner(d)'
<1> USE DEF wireVars, hubVars
<1>0. client \in [Command -> Client]
    BY Zenon DEF TypeOK
<1>1. CASE \E h \in Handler, c \in Command : BeginSend(h, c)
  <2> PICK h \in Handler, c \in Command : BeginSend(h, c)
      BY Zenon, <1>1
  <2>1. handler[h].pc = "idle" /\ \A g \in Handler : g # h => handler'[g] = handler[g]
      BY Zenon DEF BeginSend, TypeOK
  <2>2. UNCHANGED <<conn, client, resolving, ledger>>
      BY Zenon DEF BeginSend
  <2> QED
      BY Zenon, <2>1, <2>2, OwnerKept DEF Owned
<1>2. CASE \/ \E a \in Adapter, c \in Command, s \in AckStatus : Acknowledge(a, c, s)
           \/ \E c \in Command : Expire(c)
           \/ LoseAuthority \/ Evict \/ UNCHANGED vars
  <2>1. UNCHANGED <<conn, handler, client, resolving, ledger>>
      BY Zenon, <1>2 DEF Acknowledge, Expire, LoseAuthority, Evict, vars
  <2> QED
      BY Zenon, <2>1, OwnerKept DEF Owned
<1>3. ASSUME NEW c \in Command, expirePendingCommandClient(c)
      PROVE  Owner(d)'
  <2>1. Owner(c)' /\ resolving \subseteq resolving'
      BY Zenon, <1>3, GivenUp DEF expirePendingCommandClient
  <2>2. d # c => client'[d] = client[d]
      BY Zenon, <1>0, <1>3 DEF expirePendingCommandClient, takePendingCommandClient
  <2>3. UNCHANGED <<conn, handler, ledger>>
      BY Zenon, <1>3 DEF expirePendingCommandClient
  <2> QED
      BY Zenon, <2>1, <2>2, <2>3, OwnerKept DEF Owned
<1>4. ASSUME NEW r \in resolving, ResolveUnknown(r)
      PROVE  Owner(d)'
  <2>1. r.cmd \in Command /\ ledger \in [Command -> Status]
      BY Zenon DEF TypeOK, Resolution
  <2>2. r.cmd # d /\ ledger[d] = "received"
      BY Zenon, <1>4, <2>1 DEF ResolveUnknown, resolvePendingCommandUnknown
  <2>3. UNCHANGED <<conn, handler, client>> /\ resolving' = resolving \ {r}
      BY Zenon, <1>4 DEF ResolveUnknown
  <2> QED
      BY Zenon, <2>2, <2>3 DEF Owned, Owner
<1> QED
    BY Zenon, <1>1, <1>2, <1>3, <1>4 DEF CommandStep

\* While the Hub stays up, a received command is in somebody's hands: a
\* goroutine about to deliver it, a delivery with its 30 s timer, or a call
\* that resolves it as unknown.  A restart forgets the owners (see the
\* violation of ReceivedIsResolved).
THEOREM OwnersKept == Init /\ [][CalmNext]_vars => []ReceivedHasOwner
<1>1. Init => Inv /\ Owned
    BY Zenon, InitInv DEF Init, Owned
<1>2. Inv /\ Owned /\ [CalmNext]_vars => (Inv /\ Owned)'
  <2> SUFFICES ASSUME Inv, Owned, [CalmNext]_vars PROVE Inv' /\ Owned'
      OBVIOUS
  <2>1. Inv'
      BY Zenon, NextInv DEF Next
  <2>2. ASSUME NEW d \in Command, ledger'[d] = "received"
        PROVE  Owner(d)'
      BY Zenon, <2>2, HandlerOwned, ConnOwned, SocketOwned, OtherOwned DEF CalmNext, Inv
  <2> QED
      BY Zenon, <2>1, <2>2 DEF Owned
<1>3. Owned => ReceivedHasOwner
    BY Zenon DEF Owned, Owner, ReceivedHasOwner
<1> QED
    BY <1>1, <1>2, <1>3, PTL
=============================================================================
