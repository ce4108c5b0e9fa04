--------------------------- MODULE WorkspaceLease ---------------------------
(***************************************************************************)
(* The leases of workspaces and the admission of Provider starts under     *)
(* them (store/sqlite/store.go).  A lease row says which worker may run a  *)
(* Provider in a workspace.  The store has one connection, so that the     *)
(* transaction of WithProviderStartAdmission keeps every other operation   *)
(* out while its callback runs, and only time passes.  The callers of the  *)
(* transitions are external: a caller reads the row and calls, later or    *)
(* twice, with the version it read, and one that releases has proved that  *)
(* the owner's process tree is gone (the contract of WorkspaceLeaseStore). *)
(***************************************************************************)
EXTENDS Integers

CONSTANTS Workspaces, Targets,   \* workspace keys, target Sessions
          MaxEpochs,             \* bound: hellos of a Session
          MaxLeaseVersion        \* bound: changes of a row

ASSUME LeaseConstants ==
    MaxEpochs \in Nat \ {0} /\ MaxLeaseVersion \in Nat \ {0} /\ "standalone" \notin Workspaces

VARIABLES
    leases,    \* session_workspace_leases; `late': lease or child scope expired
    conns,     \* connection, writer and attachment of a Session; `kind' of its starts
    startTx,   \* the open transaction of WithProviderStartAdmission
    calls,     \* transitions callers have asked for
    started,   \* <<workspace, owner>> of the starts that were admitted
    gone       \* owners whose process tree has ended

wlVars == <<leases, conns, startTx, calls, started, gone>>

\* WorkspaceLeaseOwner: its generation and lease id go with the epoch.
Owner == [session : Targets, epoch : 1..MaxEpochs]

NoOwner == [session |-> "none", epoch |-> 0]

Status == {"absent", "reserved", "start_received", "quarantined", "released"}

NoStart == [pc |-> "none", key |-> "none", owner |-> NoOwner, was |-> "absent"]

WorkspaceKey == Workspaces \cup {"standalone"}

LeaseTypeOK ==
    /\ leases \in [Workspaces -> [status : Status, owner : Owner \cup {NoOwner}, late : BOOLEAN,
                                  version : 0..MaxLeaseVersion, tenancy : 0..MaxLeaseVersion]]
    /\ conns \in [Targets -> [epoch : 0..MaxEpochs, live : BOOLEAN, attached : BOOLEAN,
                              kind : {"attached", "standalone"}]]
    /\ startTx \in {NoStart} \cup [pc : {"callback", "commit"}, key : WorkspaceKey, owner : Owner,
                                was : {"reserved", "start_received"}]
    /\ calls \subseteq [op : {"start", "quarantine", "release"}, key : Workspaces,
                        version : 1..MaxLeaseVersion, owner : Owner, tenancy : 1..MaxLeaseVersion]
    /\ started \subseteq Workspaces \X Owner
    /\ gone \subseteq Owner

NoHello(kind, attached) == [epoch |-> 0, live |-> FALSE, attached |-> attached, kind |-> kind]

LeaseInit ==
    /\ leases = [k \in Workspaces |-> [status |-> "absent", owner |-> NoOwner, late |-> FALSE,
                                       version |-> 0, tenancy |-> 0]]
    /\ conns \in [Targets -> {NoHello("attached", TRUE), NoHello("standalone", FALSE)}]
    /\ startTx = NoStart
    /\ calls = {} /\ started = {} /\ gone = {}

-----------------------------------------------------------------------------

\* Mutant: the new holder's row starts at version 1 again.
ReserveFromOne(k, o) ==
    /\ startTx = NoStart
    /\ leases[k].status \in {"absent", "released"} /\ leases[k].version < MaxLeaseVersion
    /\ leases' = [leases EXCEPT ![k] = [status |-> "reserved", owner |-> o, late |-> FALSE,
                                        version |-> 1, tenancy |-> @.tenancy + 1]]
    /\ UNCHANGED <<conns, startTx, calls, started, gone>>

\* The row of a workspace that nobody holds goes to the caller; the owner that
\* has it reserved gets its own row back, and everybody else an error.
ReserveWorkspaceLease(k, o) ==
    /\ startTx = NoStart
    /\ leases[k].status \in {"absent", "released"} /\ leases[k].version < MaxLeaseVersion
    /\ leases' = [leases EXCEPT ![k] = [status |-> "reserved", owner |-> o, late |-> FALSE,
                                        version |-> @.version + 1, tenancy |-> @.tenancy + 1]]
    /\ UNCHANGED <<conns, startTx, calls, started, gone>>

\* A caller reads the row (WorkspaceLease) and asks for a transition.  Bound:
\* one call of a kind is outstanding for a workspace.
AskTransition(k, op) ==
    /\ \A c \in calls : c.key = k => c.op # op
    /\ leases[k].status \notin {"absent", "released"}
    /\ op = "release" => leases[k].owner \in gone
    /\ calls' = calls \cup {[op |-> op, key |-> k, version |-> leases[k].version,
                             owner |-> leases[k].owner, tenancy |-> leases[k].tenancy]}
    /\ UNCHANGED <<leases, conns, startTx, started, gone>>

\* The connection row names the owner and lives, and its attachment is current.
validateSQLiteWorkspaceLeaseAuthority(o) ==
    /\ conns[o.session].epoch = o.epoch
    /\ conns[o.session].live /\ conns[o.session].attached

RecordWorkspaceStartReceived(c) ==
    /\ c.op = "start" /\ leases[c.key].status = "reserved" /\ leases[c.key].owner = c.owner
    /\ ~leases[c.key].late /\ validateSQLiteWorkspaceLeaseAuthority(c.owner)

QuarantineWorkspaceLease(c) ==
    c.op = "quarantine" /\ leases[c.key].status \in {"reserved", "start_received"}

ReleaseWorkspaceLeaseAfterQuiescence(c) ==
    /\ c.op = "release" /\ leases[c.key].owner = c.owner
    /\ leases[c.key].status \in {"reserved", "start_received", "quarantined"}

NextStatus(op) == CASE op = "start" -> "start_received"
                    [] op = "quarantine" -> "quarantined"
                    [] op = "release" -> "released"

\* A call takes effect if the row still has its version; `again': the caller got
\* no answer and will call once more.
updateSQLiteWorkspaceLease(c, again) ==
    /\ startTx = NoStart /\ c \in calls
    /\ calls' = IF again THEN calls ELSE calls \ {c}
    /\ IF /\ leases[c.key].version = c.version
          /\ \/ RecordWorkspaceStartReceived(c)
             \/ QuarantineWorkspaceLease(c)
             \/ ReleaseWorkspaceLeaseAfterQuiescence(c)
       THEN /\ c.version < MaxLeaseVersion
            /\ leases' = [leases EXCEPT ![c.key].status = NextStatus(c.op), ![c.key].version = @ + 1]
       ELSE UNCHANGED leases
    /\ UNCHANGED <<conns, startTx, started, gone>>

-----------------------------------------------------------------------------

\* The leases under which an owner may start.
StartLeases(o) ==
    {k \in Workspaces : leases[k].owner = o /\ leases[k].status \in {"reserved", "start_received"}
                        /\ ~leases[k].late}

\* ValidateAdapterAdmission and validateLiveSettingsWriter.
StartAuthority(o) == conns[o.session].epoch = o.epoch /\ conns[o.session].live

\* WithProviderStartAdmission up to the callback: the owner's only lease, which
\* may have been used already when this is a re-admission.
BeginStart(s, reAdmission) ==
    LET o == [session |-> s, epoch |-> conns[s].epoch] IN
    /\ startTx = NoStart /\ o \in Owner \ gone /\ StartAuthority(o)
    /\ IF conns[s].kind = "standalone"
       THEN startTx' = [pc |-> "callback", key |-> "standalone", owner |-> o, was |-> "reserved"]
       ELSE \E k \in Workspaces :
              /\ StartLeases(o) = {k}
              /\ leases[k].status = "start_received" => reAdmission
              /\ startTx' = [pc |-> "callback", key |-> k, owner |-> o, was |-> leases[k].status]
    /\ UNCHANGED <<leases, conns, calls, started, gone>>

\* The Adapter's proof that the Provider crossed its start boundary, or none.
StartCallback(ok) ==
    /\ startTx.pc = "callback"
    /\ startTx' = IF ok THEN [startTx EXCEPT !.pc = "commit"] ELSE NoStart
    /\ UNCHANGED <<leases, conns, calls, started, gone>>

\* The clock is read again: the lease or the authority may have ended since.
CommitStart ==
    LET k == startTx.key
        o == startTx.owner
        alone == k = "standalone"
    IN /\ startTx.pc = "commit"
       /\ startTx' = NoStart
       /\ IF StartAuthority(o) /\ (alone \/ (k \in StartLeases(o) /\ leases[k].status = startTx.was))
          THEN /\ started' = IF alone THEN started ELSE started \cup {<<k, o>>}
               /\ IF ~alone /\ startTx.was = "reserved"
                  THEN /\ leases[k].version < MaxLeaseVersion
                       /\ leases' = [leases EXCEPT ![k].status = "start_received",
                                                   ![k].version = @ + 1]
                  ELSE UNCHANGED leases
          ELSE UNCHANGED <<leases, started>>
       /\ UNCHANGED <<conns, calls, gone>>

-----------------------------------------------------------------------------

\* A hello of the Session: a new writer, and the last one's authority is over.
Hello(s) ==
    /\ startTx = NoStart /\ conns[s].epoch < MaxEpochs
    /\ conns' = [conns EXCEPT ![s].epoch = @ + 1, ![s].live = TRUE]
    /\ UNCHANGED <<leases, startTx, calls, started, gone>>

\* The credential or the attachment expires, is revoked or ends.
AuthorityEnds(s) ==
    /\ conns[s].live /\ conns' = [conns EXCEPT ![s].live = FALSE]
    /\ UNCHANGED <<leases, startTx, calls, started, gone>>

AttachmentEnds(s) ==
    /\ conns[s].attached /\ conns' = [conns EXCEPT ![s].attached = FALSE]
    /\ UNCHANGED <<leases, startTx, calls, started, gone>>

\* expires_at_ns or child_scope_expires_at_ns passes; the row stays.
LeaseExpires(k) ==
    /\ leases[k].status # "absent" /\ ~leases[k].late
    /\ leases' = [leases EXCEPT ![k].late = TRUE]
    /\ UNCHANGED <<conns, startTx, calls, started, gone>>

\* An owner of this or of an earlier hello.
Introduced(o) == o.epoch <= conns[o.session].epoch

\* The worker and all its children end; a start it asked for gets no proof.
TreeEnds(o) ==
    /\ o \notin gone /\ Introduced(o)
    /\ gone' = gone \cup {o}
    /\ startTx' = IF startTx.owner = o /\ startTx.pc = "callback" THEN NoStart ELSE startTx
    /\ UNCHANGED <<leases, conns, calls, started>>

LeaseNext ==
    \/ \E k \in Workspaces, o \in Owner : Introduced(o) /\ ReserveWorkspaceLease(k, o)
    \/ \E k \in Workspaces, op \in {"start", "quarantine", "release"} : AskTransition(k, op)
    \/ \E c \in calls, again \in BOOLEAN : updateSQLiteWorkspaceLease(c, again)
    \/ \E s \in Targets, reAdmission \in BOOLEAN : BeginStart(s, reAdmission)
    \/ \E ok \in BOOLEAN : StartCallback(ok)
    \/ CommitStart
    \/ \E s \in Targets : Hello(s) \/ AuthorityEnds(s) \/ AttachmentEnds(s)
    \/ \E k \in Workspaces : LeaseExpires(k)
    \/ \E o \in Owner : TreeEnds(o)

LeaseSpec == LeaseInit /\ [][LeaseNext]_wlVars

-----------------------------------------------------------------------------

\* A Provider that was admitted to a workspace and whose tree is not gone has
\* the workspace: its owner holds the row and nobody can reserve it.  So no two
\* live owners run Providers in one workspace.
AdmittedHoldsWorkspace ==
    \A start \in started :
        start[2] \notin gone => /\ leases[start[1]].owner = start[2]
                                /\ leases[start[1]].status \in {"start_received", "quarantined"}

\* A transition that still finds its version was asked for under the present
\* holder: one that comes late cannot touch the row of a later one.
LateCallsMiss ==
    \A c \in calls :
        c.version = leases[c.key].version => c.tenancy = leases[c.key].tenancy

\* A quarantined row is only ever released, for an owner whose tree is gone
\* (QuarantineWorkspaceLease, ReleaseWorkspaceLeaseAfterQuiescence).
QuarantineEndsWithTree ==
    \A k \in Workspaces :
        leases[k].status = "quarantined" /\ leases'[k].status # "quarantined" =>
            leases'[k].status = "released" /\ leases[k].owner \in gone

\* Workspace leases: a live Provider has its workspace to itself, late calls miss,
\* and a quarantined workspace stays closed until its owner's tree is gone.
WorkspaceIsExclusive ==
    [][QuarantineEndsWithTree /\ (AdmittedHoldsWorkspace /\ LateCallsMiss)']_wlVars
=============================================================================
