-------------------------- MODULE CredentialRotation --------------------------
(***************************************************************************)
(* The renewal of one Adapter's Session credential, end to end: the        *)
(* Adapter's rotation manager and credential set, the frames of one socket,*)
(* the Hub's two rotation handlers, the in-memory issuer of sealed bearers *)
(* and the Store's connection row.  The link may drop with frames in       *)
(* flight, a hello may be admitted and its ack lost, and the Hub may       *)
(* restart (which empties the issuer) between any two steps.               *)
(*                                                                         *)
(* A bearer is the tuple that is sealed in it: sealing is deterministic, so*)
(* two preparations of one request are the same bearer.  Accepted fences   *)
(* move with the epoch and are left to AdapterConnection.                  *)
(***************************************************************************)
EXTENDS Naturals, Sequences, FiniteSets

CONSTANTS TTL,       \* credentialRotationTTL, in ticks
          Lead,      \* credentialRotationLeadTime, in ticks
          MaxClock,  \* bound: the last tick
          MaxIDs,    \* bound: rotation IDs the Adapter draws
          MaxFaults, \* bound: link drops, lost acks and failed dials
          MaxRestarts, \* bound: Hub restarts
          QueueCap   \* bound: frames in flight when a request is repeated

VARIABLES now, lineage,
          row,      \* session_adapter_connections
          issuer,   \* LocalSessionCredentialIssuer
          hub,      \* the published adapterConnection and the handler's place
          up, down, \* frames of the Hub's current socket
          mgr,      \* credentialRotationManager
          authority,\* hubConnection.authority
          creds,    \* adapterCredentialSet
          status,   \* "up", "dial", "out" (credentials rejected), "ended"
          dial,     \* the candidate loop of reconnect
          blocked,  \* a request whose write waits for the reconnect
          ids, faults, restarts

crVars == <<now, lineage, row, issuer, hub, up, down, mgr, authority, creds,
            status, dial, blocked, ids, faults, restarts>>

adapterVars == <<mgr, authority, creds, status, dial, blocked, ids>>
hubVars == <<row, issuer, hub>>

-----------------------------------------------------------------------------
(* Bearers, frames and the two ends' records.                               *)

None == [gen |-> 0, rot |-> 0, exp |-> 0]
Bearer == [gen : 0..(MaxIDs + 1), rot : 0..MaxIDs, exp : 0..(MaxClock + TTL)]
First == [gen |-> 1, rot |-> 0, exp |-> TTL]

\* The lineage a bearer belongs to: a rotated bootstrap credential stays in
\* its lineage, a rotated attach credential moves to target_rotation.
rotationLineage(b) ==
  IF lineage = "target_attach" /\ b.rot # 0 THEN "target_rotation" ELSE lineage
Lineages == {"bootstrap_initial", "target_attach", "target_rotation"}

Request(id) == [t |-> "request", rot |-> id, gen |-> 0, exp |-> 0, epoch |-> 0]
Credential(b) ==
  [t |-> "credential", rot |-> b.rot, gen |-> b.gen, exp |-> b.exp, epoch |-> 0]
Possession(b, e) ==
  [t |-> "possession", rot |-> b.rot, gen |-> b.gen, exp |-> 0, epoch |-> e]
Activation(id, g, e) ==
  [t |-> "activation", rot |-> id, gen |-> g, exp |-> 0, epoch |-> e]
Rejected == [t |-> "error", rot |-> 0, gen |-> 0, exp |-> 0, epoch |-> 0]

NoConn == [epoch |-> 0, gen |-> 0, rot |-> 0]
Idle == [conn |-> NoConn, step |-> "idle", held |-> None]
NotDialing == [todo |-> <<>>, tried |-> 0, rejected |-> 0, hello |-> FALSE]

CredentialRotationInit ==
  /\ now = 0 /\ ids = 0 /\ faults = 0 /\ restarts = 0
  /\ lineage \in {"bootstrap_initial", "target_attach"}
  /\ row = [epoch |-> 1, active |-> 1, hwm |-> 1, expires |-> TTL,
            pend |-> 0, pendExp |-> 0, rot |-> 0, prior |-> 0]
  /\ issuer = [prepared |-> {First}, retired |-> {},
               active |-> [l \in Lineages |-> IF l = lineage THEN First ELSE None]]
  /\ hub = [Idle EXCEPT !.conn = [epoch |-> 1, gen |-> 1, rot |-> 0]]
  /\ up = <<>> /\ down = <<>> /\ blocked = <<>>
  /\ authority = [epoch |-> 1, gen |-> 1, expires |-> TTL]
  /\ mgr = [pending |-> 0, pendGen |-> 0, epoch |-> 1, expires |-> TTL]
  /\ creds = [active |-> First, prior |-> None, pending |-> None]
  /\ status = "up" /\ dial = NotDialing

-----------------------------------------------------------------------------
(* auth/session_credential_issuer.go                                        *)

discardExpiredLocked ==
  [issuer EXCEPT !.prepared = {b \in @ : b.exp > now},
                 !.active = [l \in Lineages |->
                               IF @[l].exp > now THEN @[l] ELSE None]]

\* A bearer this process prepared is accepted only while it is active; one it
\* retired is not; any other is opened from its seal.
ActiveSessionCredential(b) ==
  LET i == discardExpiredLocked
  IN  IF b \in i.prepared
        THEN i.active[rotationLineage(b)] = b
        ELSE b \notin i.retired /\ b.exp > now

PrepareSessionCredential(b) ==
  [discardExpiredLocked EXCEPT !.prepared = @ \cup {b}]

ValidateSessionCredentialActivation(b) == b.exp > now

ActivateSessionCredential(b) ==
  LET i == discardExpiredLocked
      current == i.active[rotationLineage(b)]
      gone == IF current \in {None, b} THEN {} ELSE {current}
  IN  [prepared |-> i.prepared \ gone,
       retired |-> i.retired \cup gone,
       active |-> [i.active EXCEPT ![rotationLineage(b)] = b]]

-----------------------------------------------------------------------------
(* The Hub's handlers, hub/websocket.go.  withAdapterEffect validates the   *)
(* admission first and closes the socket of a fenced one.                   *)

validateAdapter ==
  /\ row.active = hub.conn.gen
  /\ row.epoch = hub.conn.epoch
  /\ row.expires > now

HubReads(t) ==
  /\ hub.conn # NoConn /\ hub.step = "idle"
  /\ up # <<>> /\ Head(up).t = t
  /\ up' = Tail(up)

Reply(f) == down' = IF status = "up" THEN Append(down, f) ELSE down

rejectAdapter ==
  /\ ~validateAdapter
  /\ hub' = Idle
  /\ UNCHANGED <<down, row, issuer>>

PendingUnexpired == row.pend # 0 /\ row.pendExp > now
PendingBearer == [gen |-> row.pend, rot |-> row.rot, exp |-> row.pendExp]

redeliver(id) ==
  /\ PendingUnexpired /\ row.rot = id
  /\ issuer' = PrepareSessionCredential(PendingBearer)
  /\ Reply(Credential(PendingBearer))
  /\ UNCHANGED row

refuse(id) ==
  /\ \/ PendingUnexpired /\ row.rot # id
     \/ row.pend # 0 /\ row.pendExp <= now /\ row.rot = id
  /\ Reply(Rejected)
  /\ UNCHANGED <<row, issuer>>

AlreadyActive(id) ==
  hub.conn.rot = id /\ hub.conn.gen = row.active /\ row.prior # 0

repeatActivation(id) ==
  /\ row.pend = 0 \/ (row.pendExp <= now /\ row.rot # id)
  /\ AlreadyActive(id)
  /\ Reply(Activation(id, row.active, row.epoch))
  /\ UNCHANGED <<row, issuer>>

\* Prepare the next generation in the issuer and then in the Store, deliver it; if
\* the Store fails the issuer's is discarded.
prepareNext(id) ==
  LET b == [gen |-> row.hwm + 1, rot |-> id, exp |-> now + TTL] IN
  /\ row.pend = 0 \/ (row.pendExp <= now /\ row.rot # id)
  /\ ~AlreadyActive(id)
  /\ \/ /\ issuer' = PrepareSessionCredential(b)
        /\ row' = [row EXCEPT !.pend = b.gen, !.pendExp = b.exp, !.rot = id,
                              !.hwm = b.gen]
        /\ Reply(Credential(b))
     \/ issuer' = discardExpiredLocked /\ Reply(Rejected) /\ UNCHANGED row

handleCredentialRotationRequest ==
  /\ HubReads("request")
  /\ \/ rejectAdapter
     \/ /\ validateAdapter
        /\ LET id == Head(up).rot IN
             redeliver(id) \/ refuse(id) \/ repeatActivation(id) \/ prepareNext(id)
        /\ UNCHANGED hub
  /\ UNCHANGED <<adapterVars, now, lineage, faults, restarts>>

MatchesPending(f) ==
  /\ f.epoch = hub.conn.epoch
  /\ row.pend = f.gen /\ row.rot = f.rot /\ row.pend # 0

ActivateAdapterCredential ==
  [row EXCEPT !.active = row.pend, !.expires = row.pendExp, !.prior = row.active,
              !.pend = 0, !.pendExp = 0, !.rot = 0, !.epoch = @ + 1]

\* Up to the Store's commit: a mismatched or expired possession is rejected, and so
\* is one whose activation the Store fails.
handleCredentialRotationPossession ==
  /\ HubReads("possession")
  /\ LET f == Head(up) IN
       \/ f.epoch = hub.conn.epoch /\ rejectAdapter
       \/ /\ f.epoch # hub.conn.epoch \/ validateAdapter
          /\ ~MatchesPending(f) \/ row.pendExp <= now
          /\ Reply(Rejected)
          /\ UNCHANGED hubVars
       \/ /\ validateAdapter /\ MatchesPending(f)
          /\ ValidateSessionCredentialActivation(PendingBearer)
          /\ issuer' = PrepareSessionCredential(PendingBearer)
          /\ \/ /\ row' = ActivateAdapterCredential
                /\ hub' = [hub EXCEPT !.step = "activated", !.held = PendingBearer]
                /\ UNCHANGED down
             \/ Reply(Rejected) /\ UNCHANGED <<row, hub>>
  /\ UNCHANGED <<adapterVars, now, lineage, faults, restarts>>

\* After the Store's commit: the issuer activates the bearer, the activation is
\* written and the socket closed; a bearer that expired meanwhile fails closed.
finishRotation ==
  /\ hub.step = "activated"
  /\ IF hub.held.exp > now
       THEN /\ issuer' = ActivateSessionCredential(hub.held)
            /\ Reply(Activation(hub.held.rot, row.active, row.epoch))
       ELSE issuer' = discardExpiredLocked /\ Reply(Rejected)
  /\ hub' = Idle /\ up' = <<>>
  /\ UNCHANGED <<adapterVars, now, lineage, row, faults, restarts>>

-----------------------------------------------------------------------------
(* The Adapter's rotation manager, cmd/agentwharf/credential_rotation.go.   *)

Dropped == mgr.pendGen # 0
           /\ (authority.gen >= mgr.pendGen \/ creds.pending.gen # mgr.pendGen)

refreshAuthority ==
  [pending |-> IF Dropped THEN 0 ELSE mgr.pending,
   pendGen |-> IF Dropped THEN 0 ELSE mgr.pendGen,
   epoch |-> IF authority.epoch > mgr.epoch THEN authority.epoch ELSE mgr.epoch,
   expires |-> IF authority.expires > now THEN authority.expires ELSE mgr.expires]

Due(m) == m.expires <= now + Lead /\ now < m.expires

\* A request is drawn or repeated inside the window.  While the link is down
\* its write waits, and goes out first on the next socket.
requestIfDue ==
  LET m == refreshAuthority IN
  /\ status \in {"up", "dial"} /\ blocked = <<>> /\ Due(m)
  /\ m.pending # 0 \/ ids < MaxIDs
  /\ mgr' = IF m.pending # 0 THEN m ELSE [m EXCEPT !.pending = ids + 1]
  /\ ids' = IF m.pending # 0 THEN ids ELSE ids + 1
  /\ IF status = "up"
       THEN Len(up) + Len(down) < QueueCap /\ up' = Append(up, Request(mgr'.pending))
            /\ UNCHANGED blocked
       ELSE blocked' = <<Request(mgr'.pending)>> /\ UNCHANGED up
  /\ UNCHANGED <<hubVars, down, authority, creds, status, dial, now, lineage,
                 faults, restarts>>

AdapterReads(t) ==
  /\ status = "up" /\ down # <<>> /\ Head(down).t = t
  /\ down' = Tail(down)

\* A frame the manager does not expect ends the command loop, and with it the
\* Provider session.
Unexpected ==
  /\ status' = "ended"
  /\ UNCHANGED <<mgr, creds, up>>

recordPending(b) == [creds EXCEPT !.pending = b]

handleCredential ==
  LET f == Head(down)
      b == [gen |-> f.gen, rot |-> f.rot, exp |-> f.exp] IN
  /\ AdapterReads("credential")
  /\ \/ f.exp > now /\ mgr.pending = f.rot
        /\ mgr' = [mgr EXCEPT !.pendGen = f.gen, !.expires = f.exp]
        /\ creds' = recordPending(b)
        /\ up' = Append(up, Possession(b, mgr.epoch))
        /\ UNCHANGED status
     \/ (f.exp <= now \/ mgr.pending # f.rot) /\ Unexpected
  /\ UNCHANGED <<hubVars, authority, dial, blocked, ids, now, lineage, faults,
                 restarts>>

activate(g) ==
  IF creds.pending.gen = g
    THEN [active |-> creds.pending, prior |-> creds.active, pending |-> None]
    ELSE creds

handleActivation ==
  LET f == Head(down) IN
  /\ AdapterReads("activation")
  /\ \/ mgr.pending = f.rot /\ f.epoch > mgr.epoch
        /\ mgr' = [mgr EXCEPT !.epoch = f.epoch, !.pending = 0, !.pendGen = 0]
        /\ creds' = activate(f.gen)
        /\ UNCHANGED <<status, up>>
     \/ (mgr.pending # f.rot \/ f.epoch <= mgr.epoch) /\ Unexpected
  /\ UNCHANGED <<hubVars, authority, dial, blocked, ids, now, lineage, faults,
                 restarts>>

\* forwardHubCommandsToProvider returns on any Error frame, fatal or not.
handleError ==
  /\ AdapterReads("error")
  /\ Unexpected
  /\ UNCHANGED <<hubVars, authority, dial, blocked, ids, now, lineage, faults,
                 restarts>>

-----------------------------------------------------------------------------
(* The replaceable transport, cmd/agentwharf/hub_connection.go.             *)

candidates == SelectSeq(<<creds.pending, creds.active, creds.prior>>,
                        LAMBDA b : b # None)

StartDialing ==
  /\ status' = "dial"
  /\ dial' = [NotDialing EXCEPT !.todo = candidates, !.tried = Len(candidates)]
  /\ down' = <<>>

\* The Adapter's read or write fails; the Hub may still have what was sent.
linkDrops ==
  /\ status = "up" /\ faults < MaxFaults
  /\ faults' = faults + 1
  /\ StartDialing
  /\ up' \in {up, <<>>}
  /\ UNCHANGED <<hubVars, mgr, authority, creds, blocked, ids, now, lineage,
                 restarts>>

\* The Hub closed its end.
readFails ==
  /\ status = "up" /\ hub.conn = NoConn
  /\ StartDialing
  /\ up' = <<>>
  /\ UNCHANGED <<hubVars, mgr, authority, creds, blocked, ids, now, lineage,
                 faults, restarts>>

NextCandidate(rejections) ==
  [dial EXCEPT !.todo = Tail(@), !.hello = FALSE, !.rejected = @ + rejections]

\* acceptPeer authenticates the bearer before it waits for the admission lock.
dialAndResume ==
  /\ status = "dial" /\ dial.todo # <<>> /\ ~dial.hello
  /\ dial' = IF ActiveSessionCredential(Head(dial.todo))
               THEN [dial EXCEPT !.hello = TRUE]
               ELSE NextCandidate(1)
  /\ UNCHANGED <<hubVars, up, down, mgr, authority, creds, status, blocked, ids,
                 now, lineage, faults, restarts>>

dialFails ==
  /\ status = "dial" /\ dial.todo # <<>> /\ ~dial.hello /\ faults < MaxFaults
  /\ faults' = faults + 1
  /\ dial' = NextCandidate(0)
  /\ UNCHANGED <<hubVars, up, down, mgr, authority, creds, status, blocked, ids,
                 now, lineage, restarts>>

\* Mutant: any generation up to the high watermark may say hello.
acceptAnyGeneration(b) == b.gen <= row.hwm /\ row.expires > now

AcceptAdapterHello(b) == b.gen = row.active /\ row.expires > now

converge(b) ==
  CASE b = creds.pending -> activate(b.gen)
    [] b = creds.active /\ b # creds.pending -> [creds EXCEPT !.pending = None]
    [] OTHER -> [active |-> b, prior |-> None, pending |-> None]

\* registerAdapter and publishAdapterHello, under the admission lock: a
\* possession being applied is finished first.  The ack may be lost.
registerAdapter(acked) ==
  LET b == Head(dial.todo) IN
  /\ status = "dial" /\ dial.todo # <<>> /\ dial.hello /\ hub.step = "idle"
  /\ acked \/ faults < MaxFaults
  /\ IF ActiveSessionCredential(b) /\ AcceptAdapterHello(b)
       THEN /\ row' = [row EXCEPT !.epoch = @ + 1]
            /\ hub' = [Idle EXCEPT !.conn =
                         [epoch |-> row.epoch + 1, gen |-> b.gen, rot |-> b.rot]]
            /\ IF acked
                 THEN /\ creds' = converge(b)
                      /\ authority' = [epoch |-> row.epoch + 1, gen |-> b.gen,
                                       expires |-> row.expires]
                      /\ status' = "up" /\ dial' = NotDialing
                      /\ up' = blocked /\ blocked' = <<>>
                 ELSE /\ dial' = NextCandidate(0) /\ up' = <<>>
                      /\ UNCHANGED <<creds, authority, status, blocked>>
       ELSE /\ acked /\ dial' = NextCandidate(1)
            /\ UNCHANGED <<row, hub, creds, authority, status, up, blocked>>
  /\ faults' = IF acked THEN faults ELSE faults + 1
  /\ UNCHANGED <<issuer, down, mgr, ids, now, lineage, restarts>>

\* Every candidate failed: give up if all were rejected, else back off and retry.
reconnect ==
  /\ status = "dial" /\ dial.todo = <<>>
  /\ IF dial.rejected = dial.tried
       THEN status' = "out" /\ dial' = NotDialing /\ UNCHANGED down
       ELSE StartDialing
  /\ UNCHANGED <<hubVars, up, mgr, authority, creds, blocked, ids, now, lineage,
                 faults, restarts>>

-----------------------------------------------------------------------------
(* The environment.                                                         *)

Tick ==
  /\ now < MaxClock
  /\ now' = now + 1
  /\ UNCHANGED <<hubVars, up, down, adapterVars, lineage, faults, restarts>>

hubRestarts ==
  /\ restarts < MaxRestarts
  /\ restarts' = restarts + 1
  /\ issuer' = [prepared |-> {}, retired |-> {}, active |-> [l \in Lineages |-> None]]
  /\ hub' = Idle /\ up' = <<>>
  /\ UNCHANGED <<row, down, adapterVars, now, lineage, faults>>

CredentialRotationNext ==
  \/ handleCredentialRotationRequest \/ handleCredentialRotationPossession
  \/ finishRotation \/ requestIfDue
  \/ handleCredential \/ handleActivation \/ handleError
  \/ linkDrops \/ readFails \/ dialAndResume \/ dialFails
  \/ (\E acked \in BOOLEAN : registerAdapter(acked)) \/ reconnect
  \/ Tick \/ hubRestarts

CredentialRotationSpec ==
  CredentialRotationInit /\ [][CredentialRotationNext]_crVars

-----------------------------------------------------------------------------
(* What the rotation must keep.                                             *)

\* The type of every variable.
CredentialRotationTypeOK ==
  /\ now \in 0..MaxClock /\ ids \in 0..MaxIDs
  /\ row.active \in 1..row.hwm /\ row.pend \in 0..row.hwm
  /\ issuer.prepared \subseteq Bearer /\ issuer.retired \subseteq Bearer
  /\ {creds.active, creds.prior, creds.pending} \subseteq Bearer
  /\ mgr.pending \in 0..MaxIDs /\ mgr.pendGen \in 0..(MaxIDs + 1)
  /\ status \in {"up", "dial", "out", "ended"}
  /\ Len(down) <= QueueCap /\ Len(up) <= QueueCap

\* Whatever was lost, restarted or left half done, the Adapter still holds the
\* bearer of the generation the Store calls active, and once the handler is
\* idle the issuer accepts it: no crash point strands the Session.
UsableCredentialKept ==
  row.expires > now =>
    \E b \in {creds.pending, creds.active} :
      b.gen = row.active
      /\ (hub.step = "idle" => ActiveSessionCredential(b))

\* A prepared bearer never acts before its activation, and a superseded one
\* never again: the published socket's generation is the active one unless a
\* later epoch has fenced it (a restarted Hub opens both bearers' seals).
PendingNeverActs ==
  hub.conn.epoch = row.epoch => hub.conn.gen = row.active

\* The Adapter's credential in use only ever moves to a later generation: the
\* fall-back to the prior credential is never what the Hub admits.
AdapterNeverRegresses ==
  creds'.active.gen >= creds.active.gen

\* A rotation strands nobody and lets nobody in early: a usable bearer is kept,
\* an unactivated or superseded one does not act, and the Adapter's own never
\* falls back, through every crash point of the two-phase rotation.
RotationIsSafe ==
  [][AdapterNeverRegresses /\ (UsableCredentialKept /\ PendingNeverActs)']_crVars

=============================================================================
