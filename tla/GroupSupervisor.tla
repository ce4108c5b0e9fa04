--------------------------- MODULE GroupSupervisor ---------------------------
(***************************************************************************)
(* GroupSupervisor (adapter/core/group_supervisor.go): which session       *)
(* workers a process holds, by session and by workspace, how they come in  *)
(* (Admit, Recover) and how a recovered one is fenced out.  A recovery     *)
(* rests on a receipt, with the ConnectionAuthorityLifecycle whose lock    *)
(* spans the worker's run, or on a start handle and its source, without a  *)
(* lock (composeProviderGroupRecovery).  A session's workspace is fixed; a *)
(* membership is a member with an id.  Stop changes nothing here.          *)
(***************************************************************************)
EXTENDS Integers, FiniteSets

CONSTANTS GSessions, GWorkspaces,
          WorkspaceOf,     \* the workspace of a session's admission
          Sources,         \* sources of start handles
          Callers,         \* goroutines that call Recover and Run
          MaxWorkers, MaxMembers,
          MultiWorker      \* whether MultiWorkerActivation allows a second one

ASSUME GroupConstants ==
    /\ WorkspaceOf \in [GSessions -> GWorkspaces]
    /\ MaxWorkers \in Nat \ {0} /\ MaxMembers \in Nat /\ MultiWorker \in BOOLEAN
    /\ "none" \notin GSessions /\ "zero" \notin GWorkspaces /\ "none" \notin Sources

VARIABLES bySession, byWorkspace,
          call,         \* what each caller is doing, with its member
          lifecycle,    \* current receipt's epoch and whether it is revoked
          connection,   \* the Store's connection epoch of the session (external)
          source,       \* each source's current handle, and whether it is valid
          reserved,     \* the Store's workspace leases (external)
          members       \* memberships made so far
gsVars == <<bySession, byWorkspace, call, lifecycle, connection, source, reserved, members>>

\* proof: the epoch of the receipt, or the start handle, it was recovered with.
Member == [id : 0..MaxMembers, kind : {"none", "admitted", "receipt", "handle"},
           proof : 0..2, from : Sources \cup {"none"}]
NoMember == [id |-> 0, kind |-> "none", proof |-> 0, from |-> "none"]
Call == [pc : {"idle", "checked", "verified", "wait", "run", "failed"},
         session : GSessions \cup {"none"}, member : Member, multi : BOOLEAN]
NoCall == [pc |-> "idle", session |-> "none", member |-> NoMember, multi |-> FALSE]

GroupTypeOK ==
    /\ bySession \in [GSessions -> Member]
    /\ byWorkspace \in [GWorkspaces \cup {"zero"} -> GSessions \cup {"none"}]
    /\ call \in [Callers -> Call]
    /\ lifecycle \in [GSessions -> [epoch : 1..2, revoked : BOOLEAN]]
    /\ connection \in [GSessions -> 1..2]
    /\ source \in [Sources -> [handle : 0..2, valid : BOOLEAN]]
    /\ reserved \subseteq GWorkspaces /\ members \in 0..MaxMembers

GroupInit ==
    /\ bySession = [s \in GSessions |-> NoMember]
    /\ byWorkspace = [w \in GWorkspaces \cup {"zero"} |-> "none"]
    /\ call = [c \in Callers |-> NoCall]
    /\ lifecycle = [s \in GSessions |-> [epoch |-> 1, revoked |-> FALSE]]
    /\ connection = [s \in GSessions |-> 1]
    /\ source = [x \in Sources |-> [handle |-> 0, valid |-> TRUE]]
    /\ reserved = {} /\ members = 0

Held == {s \in GSessions : bySession[s] # NoMember}

\* A recovery by start handle carries no lease: its workspace key is zero.
KeyOf(s, kind) == IF kind = "handle" THEN "zero" ELSE WorkspaceOf[s]

\* The session and its workspace are free and there is room.
Room(s, kind) ==
    /\ s \notin Held
    /\ byWorkspace[KeyOf(s, kind)] = "none"
    /\ Cardinality(Held) < MaxWorkers

Join(s, m) ==
    /\ members' = members + 1
    /\ bySession' = [bySession EXCEPT ![s] = [m EXCEPT !.id = members + 1]]
    /\ byWorkspace' = [byWorkspace EXCEPT ![KeyOf(s, m.kind)] = s]

\* Admit holds mu from the checks to the maps; ReserveWorkspaceLease or the
\* construction of the worker may fail, the latter with the lease reserved.
Admit(s, built) ==
    /\ members < MaxMembers /\ Room(s, "admitted") /\ (Held # {} => MultiWorker)
    /\ WorkspaceOf[s] \notin reserved
    /\ reserved' = reserved \cup {WorkspaceOf[s]}
    /\ IF built THEN Join(s, [NoMember EXCEPT !.kind = "admitted"])
                ELSE UNCHANGED <<bySession, byWorkspace, members>>
    /\ UNCHANGED <<call, lifecycle, connection, source>>

\* Receipt, lifecycle and Store agree.
Authorized(s, epoch) ==
    ~lifecycle[s].revoked /\ lifecycle[s].epoch = epoch /\ connection[s] = epoch

\* verifyRecoveryStartHandle: a valid source's current handle, which is not empty.
HandleCurrent(m) ==
    source[m.from].valid /\ source[m.from].handle = m.proof /\ m.proof # 0

\* What a recovery is asked with: a receipt, or a source and its handle.
Recoveries ==
    {m \in Member : /\ m.id = 0 /\ m.proof # 0
                    /\ \/ m.kind = "receipt" /\ m.from = "none"
                       \/ m.kind = "handle" /\ m.from # "none"}

\* Recover's validation and first look, under mu; the activation without mu.
RecoverChecks(c, s, m) ==
    /\ call[c].pc = "idle" /\ (m.kind = "handle" => HandleCurrent(m))
    /\ Room(s, m.kind) /\ (Held # {} => MultiWorker)
    /\ call' = [call EXCEPT ![c] = [pc |-> "checked", session |-> s, member |-> m,
                                    multi |-> Held # {}]]
    /\ UNCHANGED <<bySession, byWorkspace, lifecycle, connection, source, reserved, members>>

\* The authority is verified and the worker built without mu; the handle itself
\* is not compared again; verifyLocal and newWorker may fail.
RecoverVerifies(c, ok) ==
    /\ call[c].pc = "checked"
    /\ LET s == call[c].session
           m == call[c].member
       IN  call' = [call EXCEPT ![c] =
             IF ok /\ (IF m.kind = "handle" THEN source[m.from].valid /\ source[m.from].handle # 0
                                           ELSE Authorized(s, m.proof))
             THEN [call[c] EXCEPT !.pc = "verified"] ELSE NoCall]
    /\ UNCHANGED <<bySession, byWorkspace, lifecycle, connection, source, reserved, members>>

\* The second look and the maps, under mu.
Recover(c) ==
    /\ call[c].pc = "verified" /\ members < MaxMembers
    /\ IF Room(call[c].session, call[c].member.kind) /\ (Held # {} => call[c].multi)
       THEN Join(call[c].session, call[c].member)
       ELSE UNCHANGED <<bySession, byWorkspace, members>>
    /\ call' = [call EXCEPT ![c] = NoCall]
    /\ UNCHANGED <<lifecycle, connection, source, reserved>>

\* Run reads the member under mu, then queues on the member's runMu.
RunMember(c, s) ==
    /\ call[c].pc = "idle" /\ s \in Held
    /\ call' = [call EXCEPT ![c] = [NoCall EXCEPT !.pc = "wait", !.session = s, !.member = bySession[s]]]
    /\ UNCHANGED <<bySession, byWorkspace, lifecycle, connection, source, reserved, members>>

\* runMu, then RunWithConnectionAuthority's checks under the read lock, or the
\* checks of the start handle under none.
RunLocked(c, ok) ==
    /\ call[c].pc = "wait"
    /\ \A d \in Callers : call[d].pc \in {"run", "failed"} => call[d].member.id # call[c].member.id
    /\ LET m == call[c].member
       IN  call' = [call EXCEPT ![c] = [call[c] EXCEPT !.pc =
             IF \/ m.kind = "admitted"
                \/ m.kind = "receipt" /\ Authorized(call[c].session, m.proof)
                \/ m.kind = "handle" /\ HandleCurrent(m) /\ ok
             THEN "run" ELSE "failed"]]
    /\ UNCHANGED <<bySession, byWorkspace, lifecycle, connection, source, reserved, members>>

\* The worker's Run returned; a recovered one that failed is to be fenced.
RunReturns(c, ok) ==
    /\ call[c].pc = "run"
    /\ call' = [call EXCEPT ![c] =
         IF ok \/ call[c].member.kind = "admitted" THEN NoCall ELSE [call[c] EXCEPT !.pc = "failed"]]
    /\ UNCHANGED <<bySession, byWorkspace, lifecycle, connection, source, reserved, members>>

Drop(s, m) ==
    /\ bySession' = [bySession EXCEPT ![s] = NoMember]
    /\ byWorkspace' = [byWorkspace EXCEPT ![KeyOf(s, m.kind)] = "none"]

\* Mutant: whoever holds the session now is fenced.
fenceAnyMember(c) ==
    /\ call[c].pc = "failed"
    /\ Drop(call[c].session, call[c].member)
    /\ call' = [call EXCEPT ![c] = NoCall]
    /\ UNCHANGED <<lifecycle, connection, source, reserved, members>>

\* The member now in place is the one to fence: the same authority object, of
\* which each recovery by receipt has its own, or the same source of handles,
\* which several recoveries may share.
SameRecovery(current, m) ==
    IF m.kind = "handle" THEN current.from = m.from ELSE current = m

fenceRecoveredWorker(c) ==
    /\ call[c].pc = "failed"
    /\ IF SameRecovery(bySession[call[c].session], call[c].member)
       THEN Drop(call[c].session, call[c].member)
       ELSE UNCHANGED <<bySession, byWorkspace>>
    /\ call' = [call EXCEPT ![c] = NoCall]
    /\ UNCHANGED <<lifecycle, connection, source, reserved, members>>

\* A started child was acknowledged with a new handle (ConfirmProcessStarted).
HandleIssued(x) ==
    /\ source[x].valid /\ source[x].handle < 2
    /\ source' = [source EXCEPT ![x].handle = @ + 1]
    /\ UNCHANGED <<bySession, byWorkspace, call, lifecycle, connection, reserved, members>>

invalidate(x) ==
    /\ source[x].valid /\ source' = [source EXCEPT ![x] = [handle |-> 0, valid |-> FALSE]]
    /\ UNCHANGED <<bySession, byWorkspace, call, lifecycle, connection, reserved, members>>

\* Replace and Revoke take the write lock: no worker recovered by receipt runs.
LifecycleFree(s) ==
    \A c \in Callers : ~(/\ call[c].pc = "run" /\ call[c].session = s
                         /\ call[c].member.kind = "receipt")

\* The Store moved to a new connection epoch before the lifecycle learns it.
StoreAccepts(s) ==
    /\ connection[s] = 1 /\ connection' = [connection EXCEPT ![s] = 2]
    /\ UNCHANGED <<bySession, byWorkspace, call, lifecycle, source, reserved, members>>

Replace(s) ==
    /\ LifecycleFree(s) /\ ~lifecycle[s].revoked /\ connection[s] = 2
    /\ lifecycle[s].epoch = 1
    /\ lifecycle' = [lifecycle EXCEPT ![s].epoch = 2]
    /\ UNCHANGED <<bySession, byWorkspace, call, connection, source, reserved, members>>

Revoke(s) ==
    /\ LifecycleFree(s) /\ ~lifecycle[s].revoked
    /\ lifecycle' = [lifecycle EXCEPT ![s].revoked = TRUE]
    /\ UNCHANGED <<bySession, byWorkspace, call, connection, source, reserved, members>>

GroupNext ==
    \/ \E s \in GSessions :
        \/ (\E ok \in BOOLEAN : Admit(s, ok)) \/ StoreAccepts(s) \/ Replace(s) \/ Revoke(s)
        \/ \E c \in Callers : RunMember(c, s) \/ \E m \in Recoveries : RecoverChecks(c, s, m)
    \/ \E c \in Callers :
        \/ Recover(c) \/ fenceRecoveredWorker(c)
        \/ \E ok \in BOOLEAN : RecoverVerifies(c, ok) \/ RunLocked(c, ok) \/ RunReturns(c, ok)
    \/ \E x \in Sources : HandleIssued(x) \/ invalidate(x)

GroupSpec == GroupInit /\ [][GroupNext]_gsVars

-----------------------------------------------------------------------------
(* What must hold.                                                         *)

\* The two maps describe the same members, one per workspace key and no more
\* than the capacity, through recoveries that raced and fences that came late;
\* a second member is there only where several are allowed
\* (group_supervisor.go:312-430, 514-527).
MembershipAgrees ==
    /\ \A s \in Held : byWorkspace[KeyOf(s, bySession[s].kind)] = s
    /\ \A w \in GWorkspaces \cup {"zero"} : byWorkspace[w] # "none" =>
         byWorkspace[w] \in Held /\ w = KeyOf(byWorkspace[w], bySession[byWorkspace[w]].kind)
    /\ Cardinality(Held) <= (IF MultiWorker THEN MaxWorkers ELSE 1)

\* While a worker recovered by receipt runs, its receipt is the lifecycle's
\* current one and not revoked (group_supervisor.go:111-151).
RunsUnderCurrentReceipt ==
    \A c \in Callers : call[c].pc = "run" /\ call[c].member.kind = "receipt" =>
        /\ ~lifecycle[call[c].session].revoked
        /\ lifecycle[call[c].session].epoch = call[c].member.proof

\* A member leaves only through a failed run of its session: its own, or, for
\* one recovered by start handle, also that of an earlier member under the same
\* source.  An admitted worker never leaves, and a late fence spares a member
\* recovered by another receipt or under another source
\* (group_supervisor.go:514-527).
LeavesByFailedRun ==
    \A s \in GSessions : bySession[s] # NoMember /\ bySession'[s] # bySession[s] =>
        /\ bySession[s].kind # "admitted"
        /\ \E c \in Callers :
             /\ call[c].pc = "failed" /\ call[c].session = s
             /\ \/ call[c].member = bySession[s]
                \/ /\ bySession[s].kind = "handle" /\ call[c].member.kind = "handle"
                   /\ call[c].member.from = bySession[s].from

\* The group is one: its maps agree, who runs after a recovery by receipt runs
\* under the current one, and a late fence removes nobody whose recovery rests
\* on another receipt or source (group_supervisor.go:111-151, 312-430, 514-527).
GroupIsConsistent ==
    [][LeavesByFailedRun /\ (MembershipAgrees /\ RunsUnderCurrentReceipt)']_gsVars

=============================================================================
