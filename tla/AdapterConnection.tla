------------------------- MODULE AdapterConnection -------------------------
(***************************************************************************)
(* The durable authority of one Adapter over one Session, as the SQLite    *)
(* store keeps it (store/sqlite/store.go) and the Hub uses it              *)
(* (hub/connection_dispatch.go, the credential rotation handlers of        *)
(* hub/websocket.go).                                                      *)
(*                                                                         *)
(* A Session has one connection row.  A normal hello and a credential      *)
(* activation each advance its epoch and give it a fresh accepted fence.   *)
(* Fences come from an allocator kept in a database of its own (the file   *)
(* <path>.fences, opened with synchronous=FULL); the main database, which  *)
(* holds the rows and a copy of the allocator, is a WAL database opened    *)
(* with synchronous=NORMAL, so a power failure may lose its most recent    *)
(* commits while the fences survive.                                       *)
(*                                                                         *)
(* Every store method is one transaction of a single-connection database,  *)
(* so it is one action here; what is not in that transaction (the fence    *)
(* allocation, the two halves of AllocateAdapterGrantFence) is a step of   *)
(* its own or survives the rollback.                                       *)
(*                                                                         *)
(* Abstractions.  rotation_id is written and cleared together with the     *)
(* pending generation and a generation is never pending twice, so it is    *)
(* folded into "pending".  revoked_at and terminal_at are written together *)
(* by every statement, so they are the single flag "closed".  The store    *)
(* clock does not step back, so created_at and updated_at are left out.    *)
(* The attention migration, without which no Adapter is admitted, is done. *)
(***************************************************************************)
EXTENDS Integers, FiniteSets

CONSTANTS
    Session,    \* session identifiers
    Lease,      \* writer lease identifiers (32 random bytes in the code)
    MaxClock,   \* bound on the store clock
    MaxGen,     \* bound on credential generations
    MaxFence    \* bound of the fence allocator (2^63 - 1 in the code)

ASSUME BoundsAssumption ==
    /\ MaxClock \in Nat \ {0} /\ MaxGen \in Nat /\ MaxFence \in Nat \ {0}

VARIABLES
    now,        \* the store clock (sqliteNowMillis)
    row,        \* session_adapter_connections
    writer,     \* session_settings_live_writers
    mainNext,   \* session_adapter_fence_allocator.next_fence
    sideNext,   \* fence_store.adapter_fence_allocator.next_fence
    synced,     \* what a power failure leaves of the main database
    up,         \* the store is open
    admitting,  \* hellos accepted whose admit call has not returned yet
    held,       \* admissions held by the Hub's registered adapters
    handed      \* history: every fence the allocator has handed out

vars == <<now, row, writer, mainNext, sideNext, synced, up,
          admitting, held, handed>>

mainVars == [row |-> row, writer |-> writer, next |-> mainNext]

-----------------------------------------------------------------------------
(* Types and rows *)

Fence == 0..MaxFence
Gen   == 0..MaxGen
Time  == 0..(MaxClock + 1)

\* Generation 0 and fence 0 stand for NULL; a row with active = 0 is absent.
Row == [epoch : Nat, fence : Fence, active : Gen, hwm : Gen, expires : Time,
        pending : Gen, pendingExpires : Time, prior : Gen, closed : BOOLEAN]

NoRow == [epoch |-> 0, fence |-> 0, active |-> 0, hwm |-> 0, expires |-> 0,
          pending |-> 0, pendingExpires |-> 0, prior |-> 0, closed |-> FALSE]

NoLease == "none"

Writer == [epoch : Nat, gen : Gen, lease : Lease \cup {NoLease}]

NoWriter == [epoch |-> 0, gen |-> 0, lease |-> NoLease]

Admission == [session : Session, epoch : Nat, gen : Gen, fence : Fence,
              lease : Lease, grant : Fence]

Larger(m, n) == IF m >= n THEN m ELSE n

\* The check every read of a row ends with; it refuses the row otherwise.
validAdapterConnectionRow(r, nextFence) ==
    /\ (r.epoch = 0) <=> (r.fence = 0)
    /\ r.active >= 1 /\ r.hwm >= r.active
    /\ nextFence >= 1 /\ r.fence < nextFence
    /\ (r.pending = 0) <=> (r.pendingExpires = 0)
    /\ r.pending # 0 => /\ r.pending <= r.hwm
                        /\ r.pending # r.active /\ r.pending # r.prior
    /\ r.prior # 0 => r.prior <= r.hwm /\ r.prior # r.active

Readable(s) == up /\ validAdapterConnectionRow(row[s], mainNext)

\* The row may still speak for its Session.
Live(r) == r.expires > now /\ ~r.closed

\* Mutant: the credential generation alone decides.
AdmitCurrentGeneration(a) ==
    up /\ row[a.session].active = a.gen /\ Live(row[a.session])

\* ValidateAdapterAdmission: the exact generation, epoch and accepted fence of
\* a live row, and a grant both allocators have handed out after it.
ValidateAdapterAdmission(a) ==
    LET r == row[a.session] IN
    /\ up
    /\ a.gen >= 1 /\ a.epoch >= 1 /\ a.fence >= 1 /\ a.grant > a.fence
    /\ r.active = a.gen /\ r.epoch = a.epoch /\ r.fence = a.fence
    /\ a.grant > r.fence /\ a.grant < mainNext /\ a.grant < sideNext
    /\ Live(r)
    /\ validAdapterConnectionRow(r, mainNext)

\* What Open requires of the two databases before it serves the store.
fenceOK(rows, next) ==
    /\ \A s \in Session : rows[s].fence < next
    /\ sideNext >= next

-----------------------------------------------------------------------------
Init ==
    /\ now = 1
    /\ row = [s \in Session |-> NoRow]
    /\ writer = [s \in Session |-> NoWriter]
    /\ mainNext = 1 /\ sideNext = 1
    /\ synced = mainVars
    /\ up = TRUE
    /\ admitting = {} /\ held = {} /\ handed = {}

-----------------------------------------------------------------------------
(* The fence allocator *)

\* Mutant: the allocator kept in the main database only.
nextFenceFromMain == mainNext

\* The fence the next allocation hands out.
nextFence == sideNext

\* Mutant: no upper limit on the allocator.
allocateWithoutLimit ==
    /\ sideNext' = nextFence + 1
    /\ handed' = handed \cup {nextFence}

\* allocateAdapterFence: the side database commits at once, whatever becomes
\* of the transaction of the main database that asked for the fence.
allocateAdapterFence ==
    /\ nextFence < MaxFence
    /\ sideNext' = nextFence + 1
    /\ handed' = handed \cup {nextFence}

\* Mutant: the copy is one too large.
syncOneTooFar(f) == mainNext' = Larger(mainNext, f + 2)

\* syncAdapterFence: the main database follows the side one.
syncAdapterFence(f) == mainNext' = Larger(mainNext, f + 1)

-----------------------------------------------------------------------------
(* The connection row *)

\* The row inserted for a first credential.
NewRow(g, e) ==
    [epoch |-> 0, fence |-> 0, active |-> g, hwm |-> g, expires |-> e,
     pending |-> 0, pendingExpires |-> 0, prior |-> 0, closed |-> FALSE]

InitializeAdapterConnection(s, g, e) ==
    /\ up /\ row[s] = NoRow
    /\ e > now
    /\ row' = [row EXCEPT ![s] = NewRow(g, e)]
    /\ UNCHANGED <<now, writer, mainNext, sideNext, synced, up, admitting,
                   held, handed>>

\* No hello has been accepted and nothing is rotating.
NeverConnected(r) ==
    r.epoch = 0 /\ r.fence = 0 /\ r.pending = 0 /\ r.prior = 0

\* Only an expired credential changes: the call is idempotent before that.
RefreshAdapterCredentialBeforeHello(s, e) ==
    /\ Readable(s) /\ NeverConnected(row[s]) /\ ~row[s].closed
    /\ row[s].expires <= now /\ e > now
    /\ row' = [row EXCEPT ![s] = [row[s] EXCEPT !.expires = e]]
    /\ UNCHANGED <<now, writer, mainNext, sideNext, synced, up, admitting,
                   held, handed>>

TerminateAdapterConnectionBeforeHello(s) ==
    /\ Readable(s) /\ NeverConnected(row[s]) /\ ~row[s].closed
    /\ row' = [row EXCEPT ![s] = [row[s] EXCEPT !.closed = TRUE]]
    /\ UNCHANGED <<now, writer, mainNext, sideNext, synced, up, admitting,
                   held, handed>>

\* The lease is random: never one that is still remembered anywhere.
FreshLease(l) ==
    /\ \A a \in admitting \cup held : a.lease # l
    /\ \A s \in Session : writer[s].lease # l /\ synced.writer[s].lease # l

\* Mutants: a reconnection that keeps the epoch; a writer inserted but not
\* replaced.
HelloKeepsEpoch(r, f) == [r EXCEPT !.epoch = Larger(r.epoch, 1), !.fence = f]
InsertWriter(s, w) ==
    writer' = IF writer[s] = NoWriter THEN [writer EXCEPT ![s] = w] ELSE writer

\* The row after an accepted hello, and the upsert of its writer.
HelloRow(r, f) == [r EXCEPT !.epoch = r.epoch + 1, !.fence = f]
UpsertWriter(s, w) == writer' = [writer EXCEPT ![s] = w]

\* AcceptAdapterHello, called by the Hub's admit, which goes on to allocate
\* the grant fence.
AcceptAdapterHello(s, g, l) ==
    LET r == row[s] IN
    /\ Readable(s) /\ FreshLease(l)
    /\ r.active = g /\ Live(r)
    /\ allocateAdapterFence /\ syncAdapterFence(nextFence)
    /\ row' = [row EXCEPT ![s] = HelloRow(r, nextFence)]
    /\ UpsertWriter(s, [epoch |-> row'[s].epoch, gen |-> g, lease |-> l])
    /\ admitting' = admitting \cup
         {[session |-> s, epoch |-> row'[s].epoch, gen |-> g,
           fence |-> nextFence, lease |-> l, grant |-> 0]}
    /\ UNCHANGED <<now, synced, up, held>>

\* A hello or an activation that allocated its fence and then met a state
\* conflict, a failed callback or a failed commit: the fence is burnt.
RollBackAfterFence(s) ==
    /\ Readable(s)
    /\ allocateAdapterFence
    /\ UNCHANGED <<now, row, writer, mainNext, synced, up, admitting, held>>

\* The rest of the Hub's admit: AllocateAdapterGrantFence commits to the side
\* database first ...
AllocateAdapterGrantFence(a) ==
    /\ up /\ a.grant = 0
    /\ allocateAdapterFence
    /\ admitting' = (admitting \ {a}) \cup {[a EXCEPT !.grant = nextFence]}
    /\ UNCHANGED <<now, row, writer, mainNext, synced, up, held>>

\* ... and then to the main one, after which admit returns the admission.
SyncAdapterGrantFence(a) ==
    /\ up /\ a.grant # 0
    /\ syncAdapterFence(a.grant)
    /\ admitting' = admitting \ {a}
    /\ held' = held \cup {a}
    /\ UNCHANGED <<now, row, writer, sideNext, synced, up, handed>>

\* admit fails after the hello was accepted (either half of the allocation).
AbandonAdmission(a) ==
    /\ up
    /\ admitting' = admitting \ {a}
    /\ UNCHANGED <<now, row, writer, mainNext, sideNext, synced, up, held,
                   handed>>

\* rejectAdapter, removeAdapter: the holder's socket is gone.
RejectAdapter(a) ==
    /\ up
    /\ held' = held \ {a}
    /\ UNCHANGED <<now, row, writer, mainNext, sideNext, synced, up,
                   admitting, handed>>

\* handleCredentialRotationRequest and PrepareAdapterCredentialRotation: only
\* an expired rotation is superseded, always by a higher generation.
PrepareAdapterCredentialRotation(a, e) ==
    LET r == row[a.session] IN
    /\ ValidateAdapterAdmission(a)
    /\ r.pending = 0 \/ r.pendingExpires <= now
    /\ r.hwm < MaxGen
    /\ e > now
    /\ row' = [row EXCEPT ![a.session] =
                 [r EXCEPT !.pending = r.hwm + 1, !.pendingExpires = e,
                           !.hwm = r.hwm + 1]]
    /\ UNCHANGED <<now, writer, mainNext, sideNext, synced, up, admitting,
                   held, handed>>

\* handleCredentialRotationPossession and ActivateAdapterCredential: the live
\* writer row is left as it is, so no writer is live until the next hello.
ActivateAdapterCredential(a) ==
    LET r == row[a.session] IN
    /\ ValidateAdapterAdmission(a)
    /\ r.pending # 0 /\ r.pendingExpires > now
    /\ allocateAdapterFence /\ syncAdapterFence(nextFence)
    /\ row' = [row EXCEPT ![a.session] =
                 [r EXCEPT !.prior = r.active, !.active = r.pending,
                           !.expires = r.pendingExpires,
                           !.pending = 0, !.pendingExpires = 0,
                           !.epoch = r.epoch + 1, !.fence = nextFence]]
    /\ UNCHANGED <<now, writer, synced, up, admitting, held>>

\* Append of a terminal event: any caller, whatever the state of the row.
AppendTerminalEvent(s) ==
    /\ up /\ row[s] # NoRow /\ ~row[s].closed
    /\ row' = [row EXCEPT ![s] = [row[s] EXCEPT !.closed = TRUE]]
    /\ UNCHANGED <<now, writer, mainNext, sideNext, synced, up, admitting,
                   held, handed>>

-----------------------------------------------------------------------------
(* Time, restarts and failures *)

Tick ==
    /\ now < MaxClock
    /\ now' = now + 1
    /\ UNCHANGED <<row, writer, mainNext, sideNext, synced, up, admitting,
                   held, handed>>

\* The write-ahead log of the main database reaches the disk.
SyncMainDatabase ==
    /\ up /\ synced # mainVars
    /\ synced' = mainVars
    /\ UNCHANGED <<now, row, writer, mainNext, sideNext, up, admitting, held,
                   handed>>

\* Close copies the side allocator into the main database, then checkpoints.
Close ==
    /\ up /\ sideNext >= mainNext
    /\ mainNext' = Larger(mainNext, sideNext)
    /\ synced' = [mainVars EXCEPT !.next = mainNext']
    /\ up' = FALSE /\ admitting' = {} /\ held' = {}
    /\ UNCHANGED <<now, row, writer, sideNext, handed>>

\* The process dies; what it committed stays.
Crash ==
    /\ up
    /\ up' = FALSE /\ admitting' = {} /\ held' = {}
    /\ UNCHANGED <<now, row, writer, mainNext, sideNext, synced, handed>>

\* The machine dies; commits of the main database since the last sync go.
PowerLoss ==
    /\ up
    /\ row' = synced.row /\ writer' = synced.writer /\ mainNext' = synced.next
    /\ up' = FALSE /\ admitting' = {} /\ held' = {}
    /\ UNCHANGED <<now, sideNext, synced, handed>>

\* Open refuses a main database the side database does not cover.
Open ==
    /\ ~up /\ fenceOK(row, mainNext)
    /\ up' = TRUE
    /\ UNCHANGED <<now, row, writer, mainNext, sideNext, synced, admitting,
                   held, handed>>

-----------------------------------------------------------------------------
SessionStep(s) ==
    \/ \E g \in 1..MaxGen, e \in Time : InitializeAdapterConnection(s, g, e)
    \/ \E e \in Time : RefreshAdapterCredentialBeforeHello(s, e)
    \/ TerminateAdapterConnectionBeforeHello(s)
    \/ \E g \in 1..MaxGen, l \in Lease : AcceptAdapterHello(s, g, l)
    \/ RollBackAfterFence(s)
    \/ AppendTerminalEvent(s)

AdmittingStep(a) ==
    \/ AllocateAdapterGrantFence(a)
    \/ SyncAdapterGrantFence(a)
    \/ AbandonAdmission(a)

HolderStep(a) ==
    \/ RejectAdapter(a)
    \/ \E e \in Time : PrepareAdapterCredentialRotation(a, e)
    \/ ActivateAdapterCredential(a)

StoreStep == Tick \/ SyncMainDatabase \/ Close \/ Crash \/ PowerLoss \/ Open

Next ==
    \/ \E s \in Session : SessionStep(s)
    \/ \E a \in admitting : AdmittingStep(a)
    \/ \E a \in held : HolderStep(a)
    \/ StoreStep

Spec == Init /\ [][Next]_vars

-----------------------------------------------------------------------------
(* Properties *)

\* The types of the rows, the Hub's admissions and both allocators; neither
\* allocator passes the limit that allocateAdapterFence checks.
TypeOK ==
    /\ now \in 0..MaxClock
    /\ row \in [Session -> Row]
    /\ writer \in [Session -> Writer]
    /\ mainNext \in 1..MaxFence /\ sideNext \in 1..MaxFence
    /\ synced \in [row : [Session -> Row], writer : [Session -> Writer],
                  next : 1..MaxFence]
    /\ up \in BOOLEAN
    /\ admitting \subseteq Admission /\ held \subseteq Admission
    /\ handed \subseteq 1..MaxFence

\* No operation, in any order and with restarts anywhere, leaves a row that
\* the store's own reader (validAdapterConnectionRow) refuses: neither in the
\* database nor in the image a power failure would leave.
RowsStayReadable ==
    \A s \in Session :
        /\ row[s] # NoRow => validAdapterConnectionRow(row[s], mainNext)
        /\ synced.row[s] # NoRow =>
             validAdapterConnectionRow(synced.row[s], synced.next)

\* Open never refuses the store after a close, a crash or a power failure:
\* the side allocator always covers the main one, and that one every row.
ReopenNeverRefused ==
    fenceOK(row, mainNext) /\ fenceOK(synced.row, synced.next)

\* The fence a hello or an activation accepts was never handed out
\* before, not even in a past that a power failure erased.
FenceNeverReused ==
    [][up' => \A s \in Session :
         row'[s].fence # row[s].fence => row'[s].fence \notin handed]_vars

\* A holder that nothing has superseded is admitted: the fence comparisons of
\* ValidateAdapterAdmission never shut out the current Adapter, whatever the
\* allocations of other sessions and the order of the two syncs.
CurrentHolderAdmitted ==
    \A a \in held :
        LET r == row[a.session] IN
        /\ r.epoch = a.epoch /\ r.active = a.gen /\ r.fence = a.fence
        /\ Live(r)
        => ValidateAdapterAdmission(a)

\* An admitted holder is the live writer of its Session, so at most one of the
\* sockets that ever said hello can produce effects.
AdmittedHolderIsLiveWriter ==
    \A a \in held :
        ValidateAdapterAdmission(a) =>
            writer[a.session] =
                [epoch |-> a.epoch, gen |-> a.gen, lease |-> a.lease]

\* The pair (epoch, generation) that authorises ledger operations
\* (CommandAuthority) names one hello only.
CommandAuthorityUnique ==
    \A a, b \in admitting \cup held :
        a.session = b.session /\ a.epoch = b.epoch /\ a.gen = b.gen
            => a.lease = b.lease

\* The store stays usable: no operation leaves a row its own reader refuses, and
\* no close, crash or power failure leaves files that Open refuses
\* (validAdapterConnectionRow, openAdapterFenceStore).
StoreStaysUsable == RowsStayReadable /\ ReopenNeverRefused

\* ValidateAdapterAdmission says neither too little nor too much: it admits the
\* holder nothing has superseded, and whoever it admits is the live writer.
AdmissionIsTrue == CurrentHolderAdmitted /\ AdmittedHolderIsLiveWriter

-----------------------------------------------------------------------------
(* Refinement *)

\* The holders of a Session that the store admits, and those it refuses.
speakersOf == [s \in Session |->
    {a.lease : a \in {h \in held : h.session = s /\ ValidateAdapterAdmission(h)}}]
benchedHolders ==
    {a.lease : a \in {h \in held : ~ValidateAdapterAdmission(h)}}

Writers == INSTANCE SessionWriter
           WITH speakers <- speakersOf, benched <- benchedHolders

\* At most one holder speaks for a Session, and one whose authority lapsed
\* (a later hello, an activation, expiry, a terminal event) never speaks again
\* while it stays connected.
ImplementsSessionWriter == Writers!HandoverSpec

=============================================================================
