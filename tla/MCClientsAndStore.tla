------------------------- MODULE MCClientsAndStore --------------------------
(***************************************************************************)
(* The client library, the machine server, the transactions of the         *)
(* PostgreSQL store and the workspace leases, each checked on its own:     *)
(* `part' says which of them a behaviour is about.                         *)
(***************************************************************************)
EXTENDS ClientSession, MachineServe, PostgresTransactions, WorkspaceLease

VARIABLE part

endsVars == <<part, csVars, msVars, pgVars, wlVars>>

EndsInit ==
    /\ part \in {"client", "serve", "store", "lease"}
    /\ ClientInit /\ ServeInit /\ PostgresInit /\ LeaseInit
    /\ part # "client" => ~encrypted /\ ~client.skipReplayOnce
    /\ part # "store" => rows = unattached
    /\ \E s \in Targets : /\ conns[s].kind = "attached"
                         /\ part # "lease" => \A t \in Targets : conns[t].kind = "attached"

In(p) == part = p

OnlyClient == UNCHANGED <<part, msVars, pgVars, wlVars>>

OnlyServe == UNCHANGED <<part, csVars, pgVars, wlVars>>

OnlyStore == UNCHANGED <<part, csVars, msVars, wlVars>>

OnlyLease == UNCHANGED <<part, csVars, msVars, pgVars>>

ClientSteps ==
    \/ In("client") /\ connect /\ OnlyClient
    \/ In("client") /\ resume /\ OnlyClient
    \/ In("client") /\ close /\ OnlyClient
    \/ In("client") /\ timerFires /\ OnlyClient
    \/ In("client") /\ refreshed /\ OnlyClient
    \/ In("client") /\ HubReadsPage /\ OnlyClient
    \/ In("client") /\ resolveHistoryPage /\ OnlyClient
    \/ In("client") /\ hydrateFromEvents /\ OnlyClient
    \/ In("client") /\ abortPage /\ OnlyClient
    \/ In("client") /\ sendCommand /\ OnlyClient
    \/ In("client") /\ \E i \in Sockets : onopen(i) /\ OnlyClient
    \/ In("client") /\ \E i \in Sockets : helloAck(i) /\ OnlyClient
    \/ In("client") /\ \E i \in Sockets : badHelloAck(i) /\ OnlyClient
    \/ In("client") /\ \E i \in Sockets : onerror(i) /\ OnlyClient
    \/ In("client") /\ \E i \in Sockets : onclose(i) /\ OnlyClient
    \/ In("client") /\ \E i \in Sockets, n \in DOMAIN log : plainEvent(i, n) /\ OnlyClient
    \/ In("client") /\ \E i \in Sockets, n \in DOMAIN log : enqueueEncryptedEvent(i, n) /\ OnlyClient
    \/ In("client") /\ \E i \in Sockets : laneStarts(i) /\ OnlyClient
    \/ In("client") /\ \E i \in Sockets : laneOpens(i) /\ OnlyClient
    \/ In("client") /\ \E i \in Sockets : laneFails(i) /\ OnlyClient
    \/ In("client") /\ \E i \in Sockets, ok \in BOOLEAN : laneOpensPage(i, ok) /\ OnlyClient
    \/ In("client") /\ \E i \in Sockets, ok \in BOOLEAN : HubTakesCommand(i, ok) /\ OnlyClient
    \/ In("client") /\ \E i \in Sockets, answered \in {"accepted", "rejected", "duplicate"} : resolveCommand(i, answered) /\ OnlyClient
    \/ In("client") /\ \E before \in {0, 1} : historyPage(before) /\ OnlyClient
    \/ In("client") /\ \E ok \in BOOLEAN : sealed(ok) /\ OnlyClient
    \/ In("client") /\ \E k \in Kinds : HubAppends(k) /\ OnlyClient

ServeSteps ==
    \/ In("serve") /\ \E smoke \in BOOLEAN, pick \in [Tasks -> Files] : startServe(smoke, pick) /\ OnlyServe
    \/ In("serve") /\ listPending /\ OnlyServe
    \/ In("serve") /\ listRecoverable /\ OnlyServe
    \/ In("serve") /\ mainReturns(TRUE) /\ OnlyServe
    \/ In("serve") /\ mainReturns(FALSE) /\ OnlyServe
    \/ In("serve") /\ claimLoopReturns /\ OnlyServe
    \/ In("serve") /\ workersDone /\ OnlyServe
    \/ In("serve") /\ adaptersDone /\ OnlyServe
    \/ In("serve") /\ interrupt /\ OnlyServe
    \/ In("serve") /\ crash /\ OnlyServe
    \/ In("serve") /\ \E s \in Tasks : createTask(s) /\ OnlyServe
    \/ In("serve") /\ \E s \in Tasks : pickup(s) /\ OnlyServe
    \/ In("serve") /\ \E s \in Tasks : recover(s) /\ OnlyServe
    \/ In("serve") /\ \E s \in Tasks : takeSlot(s) /\ OnlyServe
    \/ In("serve") /\ \E s \in Tasks : restart(s) /\ OnlyServe
    \/ In("serve") /\ \E s \in Tasks : adapterCancelled(s) /\ OnlyServe
    \/ In("serve") /\ \E s \in Tasks : clientCredentialExpires(s) /\ OnlyServe
    \/ In("serve") /\ \E s \in Tasks : becomesReady(s) /\ OnlyServe
    \/ In("serve") /\ \E s \in Tasks : rememberAdapterCredential(s) /\ OnlyServe
    \/ In("serve") /\ \E s \in Tasks : senderEnds(s) /\ OnlyServe
    \/ In("serve") /\ \E s \in Tasks : senderFails(s) /\ OnlyServe
    \/ In("serve") /\ \E s \in Tasks, f \in Files : adapterCredentialExpires(s, f) /\ OnlyServe
    \/ In("serve") /\ \E s \in Tasks, saved \in BOOLEAN : rememberProviderSession(s, saved) /\ OnlyServe
    \/ In("serve") /\ \E s \in Tasks, saved \in BOOLEAN : sendFirstInstruction(s, saved) /\ OnlyServe
    \/ In("serve") /\ \E s \in Tasks, err \in {"settings", "missing", "notResumable", "other", "none"}, told \in BOOLEAN : adapterEnds(s, err, told) /\ OnlyServe
    \/ In("serve") /\ \E s \in Tasks, ok \in BOOLEAN : exchange(s, ok) /\ OnlyServe
    \/ In("serve") /\ \E s \in Tasks, ok \in BOOLEAN : save(s, ok) /\ OnlyServe
    \/ In("serve") /\ \E s \in Tasks, ok, told \in BOOLEAN : recoverSession(s, ok, told) /\ OnlyServe
    \/ In("serve") /\ \E s \in Tasks, res \in {"ok", "missing", "invalid"}, told \in BOOLEAN : validate(s, res, told) /\ OnlyServe
    \/ In("serve") /\ \E s \in Tasks, res \in {"ok", "unavailable", "unresolved"}, told \in BOOLEAN : openLaunch(s, res, told) /\ OnlyServe

StoreSteps ==
    \/ In("store") /\ \E b \in Backends, op \in Operations : Begin(b, op) /\ OnlyStore
    \/ In("store") /\ \E b \in Backends : Statement(b) /\ OnlyStore
    \/ In("store") /\ \E b \in Backends : Commit(b) /\ OnlyStore
    \/ In("store") /\ \E b \in Backends : Rollback(b) /\ OnlyStore
    \/ In("store") /\ TimePasses /\ OnlyStore

Transitions == {"start", "quarantine", "release"}

LeaseSteps ==
    \/ In("lease") /\ \E k \in Workspaces, o \in Owner : Introduced(o) /\ ReserveWorkspaceLease(k, o) /\ OnlyLease
    \/ In("lease") /\ \E k \in Workspaces, op \in Transitions : AskTransition(k, op) /\ OnlyLease
    \/ In("lease") /\ \E c \in calls, again \in BOOLEAN : updateSQLiteWorkspaceLease(c, again) /\ OnlyLease
    \/ In("lease") /\ \E s \in Targets, reAdmission \in BOOLEAN : BeginStart(s, reAdmission) /\ OnlyLease
    \/ In("lease") /\ \E ok \in BOOLEAN : StartCallback(ok) /\ OnlyLease
    \/ In("lease") /\ CommitStart /\ OnlyLease
    \/ In("lease") /\ \E s \in Targets : Hello(s) /\ OnlyLease
    \/ In("lease") /\ \E s \in Targets : AuthorityEnds(s) /\ OnlyLease
    \/ In("lease") /\ \E s \in Targets : AttachmentEnds(s) /\ OnlyLease
    \/ In("lease") /\ \E k \in Workspaces : LeaseExpires(k) /\ OnlyLease
    \/ In("lease") /\ \E o \in Owner : TreeEnds(o) /\ OnlyLease

EndsNext ==
    \/ ClientSteps \/ ServeSteps \/ StoreSteps \/ LeaseSteps

EndsSpec == EndsInit /\ [][EndsNext]_endsVars

\* The state of the parts a behaviour is not about never changes.
EndsView ==
    CASE In("client") -> <<part, csVars>>
      [] In("serve")  -> <<part, msVars>>
      [] In("store")  -> <<part, pgVars>>
      [] In("lease")  -> <<part, wlVars>>

\* The types of the variables of the part a behaviour is about.
EndsTypeOK ==
    CASE In("client") -> ClientTypeOK
      [] In("serve")  -> ServeTypeOK
      [] In("store")  -> PostgresTypeOK
      [] In("lease")  -> LeaseTypeOK
=============================================================================
