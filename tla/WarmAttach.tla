------------------------------ MODULE WarmAttach ------------------------------
(***************************************************************************)
(* Warm attach: a Client hands a target Session to the Worker of a running *)
(* bootstrap Session.  The Hub prepares a bearer for the target, offers a  *)
(* one-time join socket to the bootstrap, commits the attach in one Store  *)
(* transaction, and only then writes the bearer on the join socket.        *)
(*                                                                         *)
(*   hub/websocket.go               handleWarmAttach                       *)
(*   hub/warm_attach_credential.go  the pending join and the handoff       *)
(*   store/sqlite/store.go          CommitWarmAttach, ExpireWarmAttach,    *)
(*                                  UpdateAttachment                       *)
(*   auth/session_credential_issuer.go   the issuer's maps                 *)
(*                                                                         *)
(* One grant for one target is followed through repeated commands, losses  *)
(* of authority, socket failures, the one-second post-commit context, the  *)
(* delivery deadline, and Hub restarts.  Sealing is deterministic, so      *)
(* every preparation for the grant yields the same bearer.                 *)
(***************************************************************************)
EXTENDS Integers

CONSTANTS
    Deadline,      \* the grant's delivery deadline: expiry of bearer and attachment
    MaxAttaches,   \* how often the Client sends the attach command
    MaxHubRestarts    \* how often the Hub restarts

ASSUME WarmAttachAssumption ==
    /\ Deadline \in Nat \ {0}
    /\ MaxAttaches \in Nat
    /\ MaxHubRestarts \in Nat

VARIABLES
    clock,       \* Store and Hub clock, up to one past the deadline
    boot,        \* the bootstrap tuple named by the grant is still live
    target,      \* the target's connection row: "none", "fresh" (epoch 0), "live", "lost"
    attachment,  \* the session_attachments row
    bearer,      \* the issuer's view of the bearer
    join,        \* the pending target join registered under the attach ID
    attaching,     \* the handleWarmAttach call holding the target's admission lock
    written,     \* how often the bearer was written on a join socket
    attachAck,         \* the last acknowledgement of an attach command
    attaches,
    waRestarts

waVars == <<clock, boot, target, attachment, bearer, join, attaching, written,
            attachAck, attaches, waRestarts>>

NoAttachment == [status |-> "none", delivery |-> "none", version |-> 0]
NoJoin == [state |-> "none"]
Joins == {NoJoin} \cup [state : {"offered", "claimed", "ready", "pinged"}]
HandlerIdle == [pc |-> "idle", dup |-> FALSE, version |-> 0, ctxDone |-> FALSE,
                result |-> "none"]

WarmAttachInit ==
    /\ clock = 0
    /\ boot = TRUE
    /\ target = "none"
    /\ attachment = NoAttachment
    /\ bearer = "unknown"
    /\ join = NoJoin
    /\ attaching = HandlerIdle
    /\ written = 0
    /\ attachAck = "none"
    /\ attaches = 0
    /\ waRestarts = 0

WarmAttachTypeOK ==
    /\ clock \in 0 .. Deadline + 1
    /\ boot \in BOOLEAN
    /\ target \in {"none", "fresh", "live", "lost"}
    /\ attachment \in
         [status : {"none", "join_pending", "reauthorization_required"},
          delivery : {"none", "pending", "received", "completed", "outcome_unknown"},
          version : 0 .. 3 * MaxAttaches + 1]
    /\ bearer \in {"unknown", "prepared", "active", "retired"}
    /\ join \in Joins
    /\ attaching.pc \in {"idle", "begin", "commit", "activate", "await", "joining",
                       "claim", "validate", "deliver", "wait", "complete",
                       "release", "failClosed"}
    /\ attaching.result \in {"none", "written", "rejected"}
    /\ written \in 0 .. MaxAttaches
    /\ attachAck \in {"none", "accepted", "duplicate", "rejected"}

-----------------------------------------------------------------------------
(* The issuer, for the one bearer of this grant.                           *)

Unexpired == clock < Deadline

(* A bearer the issuer has never seen is opened from its seal, so a        *)
(* restarted Hub accepts every unexpired bearer it sealed earlier.         *)
AcceptsBearer == bearer \in {"active", "unknown"} /\ Unexpired

(* Preparing a known bearer returns the known entry, active or not.        *)
PrepareBearer == bearer' = IF bearer \in {"prepared", "active"} THEN bearer ELSE "prepared"

DiscardBearer == IF bearer \in {"prepared", "active"} THEN "retired" ELSE bearer

-----------------------------------------------------------------------------
(* UpdateAttachment: compare-and-set on delivery_version; a join_pending   *)
(* update repeats the expiry, which must still lie in the future.          *)

UpdateAllowed(version, status) ==
    /\ attachment.version = version
    /\ status = "join_pending" => attachment.status = "join_pending" /\ Unexpired

Updated(status, delivery) ==
    [status |-> status, delivery |-> delivery, version |-> attachment.version + 1]

(* The call ends: whatever path led here, the join is cancelled, the       *)
(* bearer discarded and the command rejected.                              *)
AttachRejected ==
    /\ join' = NoJoin
    /\ bearer' = DiscardBearer
    /\ attachAck' = "rejected"
    /\ attaching' = HandlerIdle

(* A handoff that fails ends like a rejected attach.                       *)
HandoffRejected == AttachRejected

CallGoto(pc) == attaching' = [attaching EXCEPT !.pc = pc]

-----------------------------------------------------------------------------
(* handleWarmAttach, one action per externally visible step.               *)

(* AuthorizeAttach, the target's admission lock and the preparation.       *)
handleWarmAttach ==
    /\ attaching.pc = "idle"
    /\ attaches < MaxAttaches
    /\ boot /\ Unexpired
    /\ attaches' = attaches + 1
    /\ PrepareBearer
    /\ attaching' = [HandlerIdle EXCEPT !.pc = "begin"]
    /\ UNCHANGED <<clock, boot, target, attachment, join, written, attachAck, waRestarts>>

(* Registers the join and sends the challenge to the live bootstrap.       *)
beginPendingTargetJoin ==
    /\ attaching.pc = "begin"
    /\ \/ /\ boot /\ Unexpired /\ join = NoJoin
          /\ join' = [state |-> "offered"]
          /\ CallGoto("commit")
          /\ UNCHANGED <<bearer, attachAck>>
       \/ /\ ~(boot /\ Unexpired /\ join = NoJoin)
          /\ AttachRejected
    /\ UNCHANGED <<clock, boot, target, attachment, written, attaches, waRestarts>>

(* A duplicate is recognised only while the target never said hello.       *)
CommitDuplicate == attachment # NoAttachment /\ target = "fresh"

CommitAnew == attachment = NoAttachment /\ boot /\ target = "none"

(* One transaction: attempt, attachment, target credential, reference      *)
(* event, outbox command and blocker.  stored = FALSE: the Store failed.   *)
CommitWarmAttach(stored) ==
    /\ attaching.pc = "commit"
    /\ IF stored /\ Unexpired /\ (CommitDuplicate \/ CommitAnew)
       THEN /\ attachment' = IF CommitAnew
                             THEN [status |-> "join_pending", delivery |-> "pending", version |-> 0]
                             ELSE attachment
            /\ target' = "fresh"
            /\ IF CommitDuplicate /\ attachment.delivery = "outcome_unknown"
               THEN AttachRejected
               ELSE /\ attaching' = [attaching EXCEPT !.pc = "activate", !.dup = CommitDuplicate,
                                                  !.version = attachment'.version]
                    /\ UNCHANGED <<join, bearer, attachAck>>
       ELSE /\ AttachRejected
            /\ UNCHANGED <<attachment, target>>
    /\ UNCHANGED <<clock, boot, written, attaches, waRestarts>>

(* The one-second context of everything after the commit runs out.         *)
postCommitTimeout ==
    /\ attaching.pc \notin {"idle", "begin", "commit"}
    /\ ~attaching.ctxDone
    /\ attaching' = [attaching EXCEPT !.ctxDone = TRUE]
    /\ UNCHANGED <<clock, boot, target, attachment, bearer, join, written, attachAck,
                   attaches, waRestarts>>

(* activateCommittedWarmAttachCredential and the duplicate cases that      *)
(* handoffCommittedWarmAttachCredential settles before it waits.           *)
activateCommitted ==
    /\ attaching.pc = "activate"
    /\ \/ /\ attaching.ctxDone \/ ~Unexpired
          /\ CallGoto("failClosed")
          /\ UNCHANGED <<bearer, join, attachAck>>
       \/ /\ ~attaching.ctxDone /\ Unexpired
          /\ \/ /\ attaching.dup /\ attachment.delivery = "completed"
                /\ bearer' = "active"
                /\ join' = NoJoin
                /\ attachAck' = "duplicate"
                /\ attaching' = HandlerIdle
             \/ /\ attaching.dup /\ attachment.delivery \notin {"completed", "pending"}
                /\ AttachRejected
             \/ /\ ~attaching.dup \/ attachment.delivery = "pending"
                /\ bearer' = "active"
                /\ CallGoto("await")
                /\ UNCHANGED <<join, attachAck>>
    /\ UNCHANGED <<clock, boot, target, attachment, written, attaches, waRestarts>>

(* awaitPendingTargetJoin looks the entry up, then waits for the reader.   *)
lookupPendingTargetJoin ==
    /\ attaching.pc \in {"await", "deliver"}
    /\ IF join = NoJoin \/ ~Unexpired
       THEN CallGoto("release")
       ELSE IF attaching.pc = "await" THEN CallGoto("joining")
            ELSE attaching' = [attaching EXCEPT !.pc = "wait"]
    /\ join' = IF attaching.pc = "deliver" /\ join # NoJoin /\ Unexpired
               THEN [state |-> "pinged"] ELSE join
    /\ UNCHANGED <<clock, boot, target, attachment, bearer, written, attachAck, attaches, waRestarts>>

awaitPendingTargetJoin ==
    /\ attaching.pc = "joining"
    /\ \/ join.state = "ready" /\ CallGoto("claim")
       \/ /\ attaching.ctxDone \/ attaching.result = "rejected"
          /\ attaching' = [attaching EXCEPT !.pc = "release", !.result = "none"]
    /\ UNCHANGED <<clock, boot, target, attachment, bearer, join, written, attachAck,
                   attaches, waRestarts>>

(* The handoff is claimed durably before the bearer may be written.        *)
claimHandoff ==
    /\ attaching.pc = "claim"
    /\ IF ~attaching.ctxDone /\ UpdateAllowed(attaching.version, "join_pending")
       THEN /\ attachment' = Updated("join_pending", "received")
            /\ attaching' = [attaching EXCEPT !.pc = "validate", !.version = @ + 1]
            /\ UNCHANGED <<bearer, join, attachAck>>
       ELSE /\ HandoffRejected
            /\ UNCHANGED attachment
    /\ UNCHANGED <<clock, boot, target, written, attaches, waRestarts>>

(* The revalidation at the start of the handoff transaction.               *)
validateHandoff ==
    /\ attaching.pc = "validate"
    /\ IF ~attaching.ctxDone /\ boot /\ target = "fresh" /\ Unexpired
       THEN CallGoto("deliver") ELSE CallGoto("failClosed")
    /\ UNCHANGED <<clock, boot, target, attachment, bearer, join, written, attachAck,
                   attaches, waRestarts>>

(* The wait for the reader's verdict; the expired context drops the join.  *)
awaitDelivery ==
    /\ attaching.pc = "wait"
    /\ \/ /\ attaching.result = "written"
          /\ IF attaching.ctxDone THEN CallGoto("failClosed") ELSE CallGoto("complete")
          /\ UNCHANGED join
       \/ /\ attaching.result = "rejected"
          /\ CallGoto("release")
          /\ UNCHANGED join
       \/ /\ attaching.ctxDone
          /\ join' = NoJoin
          /\ CallGoto("release")
    /\ UNCHANGED <<clock, boot, target, attachment, bearer, written, attachAck, attaches, waRestarts>>

completeHandoff ==
    /\ attaching.pc = "complete"
    /\ IF ~attaching.ctxDone /\ UpdateAllowed(attaching.version, "join_pending")
       THEN /\ attachment' = Updated("join_pending", "completed")
            /\ attachAck' = IF attaching.dup THEN "duplicate" ELSE "accepted"
            /\ attaching' = HandlerIdle
       ELSE /\ CallGoto("failClosed")
            /\ UNCHANGED <<attachment, attachAck>>
    /\ UNCHANGED <<clock, boot, target, bearer, join, written, attaches, waRestarts>>

(* Mutant: the release runs under a fresh context, so a handoff that timed *)
(* out after the write goes back to pending.                               *)
releaseFreshContext ==
    /\ attaching.pc = "release"
    /\ IF UpdateAllowed(attaching.version, "join_pending")
       THEN /\ attachment' = Updated("join_pending", "pending")
            /\ HandoffRejected
       ELSE /\ CallGoto("failClosed")
            /\ UNCHANGED <<attachment, bearer, join, attachAck>>
    /\ UNCHANGED <<clock, boot, target, written, attaches, waRestarts>>

(* The handoff goes back to pending under the same, perhaps expired,       *)
(* post-commit context; when that fails the outcome is unknown.            *)
releaseWarmAttachCredentialHandoff ==
    /\ attaching.pc = "release"
    /\ IF ~attaching.ctxDone /\ UpdateAllowed(attaching.version, "join_pending")
       THEN /\ attachment' = Updated("join_pending", "pending")
            /\ HandoffRejected
       ELSE /\ CallGoto("failClosed")
            /\ UNCHANGED <<attachment, bearer, join, attachAck>>
    /\ UNCHANGED <<clock, boot, target, written, attaches, waRestarts>>

(* Its own context; the result of the update is ignored, so a failing      *)
(* Store leaves the attachment as it was.                                  *)
failClosedWarmAttachCredentialHandoff(stored) ==
    /\ attaching.pc = "failClosed"
    /\ attachment' = IF stored /\ UpdateAllowed(attaching.version, "reauthorization_required")
                     THEN Updated("reauthorization_required", "outcome_unknown")
                     ELSE attachment
    /\ HandoffRejected
    /\ UNCHANGED <<clock, boot, target, written, attaches, waRestarts>>

-----------------------------------------------------------------------------
(* The join socket.                                                        *)

claimPendingTargetJoin ==
    /\ join.state = "offered"
    /\ Unexpired
    /\ join' = [state |-> "claimed"]
    /\ UNCHANGED <<clock, boot, target, attachment, bearer, attaching, written, attachAck,
                   attaches, waRestarts>>

startPendingTargetJoinReader ==
    /\ join.state = "claimed"
    /\ join' = [state |-> "ready"]
    /\ UNCHANGED <<clock, boot, target, attachment, bearer, attaching, written, attachAck,
                   attaches, waRestarts>>

(* What the waiting handler learns when the entry it holds is dropped: a   *)
(* verdict once it pinged, a failed recheck once the reader had started.   *)
Verdict(r) ==
    IF join.state = "pinged" \/ (join.state = "ready" /\ attaching.pc = "joining")
    THEN [attaching EXCEPT !.result = r] ELSE attaching

(* The matching pong: the reader writes the bearer under the join lock,    *)
(* with the handler's deadline; sent = FALSE is a write error.             *)
completePendingTargetJoinDelivery(sent) ==
    /\ join.state = "pinged"
    /\ Unexpired
    /\ sent => ~attaching.ctxDone
    /\ written' = IF sent THEN written + 1 ELSE written
    /\ attaching' = Verdict(IF sent THEN "written" ELSE "rejected")
    /\ join' = NoJoin
    /\ UNCHANGED <<clock, boot, target, attachment, bearer, attachAck, attaches, waRestarts>>

(* Any data frame, or the end of the socket, before the bearer is written. *)
observePendingTargetJoinInput ==
    /\ join.state \in {"ready", "pinged"}
    /\ attaching' = Verdict("rejected")
    /\ join' = NoJoin
    /\ UNCHANGED <<clock, boot, target, attachment, bearer, written, attachAck, attaches, waRestarts>>

(* The entry's timer, and the end of the socket's serving context: the     *)
(* entry is forgotten and nobody is told.                                  *)
expirePendingTargetJoin ==
    /\ join # NoJoin
    /\ ~Unexpired \/ join.state \in {"claimed", "ready", "pinged"}
    /\ join' = NoJoin
    /\ attaching' = IF join.state = "ready" THEN Verdict("rejected") ELSE attaching
    /\ UNCHANGED <<clock, boot, target, attachment, bearer, written, attachAck,
                   attaches, waRestarts>>

-----------------------------------------------------------------------------
(* The rest of the system.                                                 *)

(* The target's normal hello, serialised with handleWarmAttach by the      *)
(* target's admission lock.                                                *)
targetHello ==
    /\ attaching.pc = "idle"
    /\ written > 0 /\ AcceptsBearer
    /\ target = "fresh"
    /\ target' = "live"
    /\ UNCHANGED <<clock, boot, attachment, bearer, join, attaching, written, attachAck,
                   attaches, waRestarts>>

ExpireWarmAttach ==
    /\ attachment.status = "join_pending"
    /\ clock > Deadline
    /\ attachment' = Updated("reauthorization_required",
                             IF attachment.delivery = "pending" THEN "pending" ELSE "outcome_unknown")
    /\ UNCHANGED <<clock, boot, target, bearer, join, attaching, written, attachAck, attaches, waRestarts>>

(* The bootstrap reconnects, expires or is revoked: its accepted fence or  *)
(* epoch moves past the grant for good.                                    *)
loseBootstrap ==
    /\ boot
    /\ boot' = FALSE
    /\ UNCHANGED <<clock, target, attachment, bearer, join, attaching, written, attachAck,
                   attaches, waRestarts>>

revokeTarget ==
    /\ target \in {"fresh", "live"}
    /\ target' = "lost"
    /\ UNCHANGED <<clock, boot, attachment, bearer, join, attaching, written, attachAck,
                   attaches, waRestarts>>

clockTick ==
    /\ clock <= Deadline
    /\ clock' = clock + 1
    /\ bearer' = IF clock + 1 >= Deadline /\ bearer \in {"prepared", "active"}
                 THEN "unknown" ELSE bearer
    /\ UNCHANGED <<boot, target, attachment, join, attaching, written, attachAck, attaches, waRestarts>>

(* The Hub process restarts: the issuer's maps, the joins and the call are *)
(* gone; the bootstrap must say hello again, which outdates the grant.     *)
hubCrash ==
    /\ waRestarts < MaxHubRestarts
    /\ waRestarts' = waRestarts + 1
    /\ bearer' = "unknown"
    /\ join' = NoJoin
    /\ attaching' = HandlerIdle
    /\ boot' = FALSE
    /\ attachAck' = "none"
    /\ UNCHANGED <<clock, target, attachment, written, attaches>>

WarmAttachHandler ==
    \/ beginPendingTargetJoin
    \/ (\E stored \in BOOLEAN : CommitWarmAttach(stored))
    \/ activateCommitted
    \/ lookupPendingTargetJoin
    \/ awaitPendingTargetJoin
    \/ claimHandoff
    \/ validateHandoff
    \/ awaitDelivery
    \/ completeHandoff
    \/ releaseWarmAttachCredentialHandoff
    \/ (\E stored \in BOOLEAN : failClosedWarmAttachCredentialHandoff(stored))

WarmAttachNext ==
    \/ handleWarmAttach
    \/ WarmAttachHandler
    \/ postCommitTimeout
    \/ claimPendingTargetJoin
    \/ startPendingTargetJoinReader
    \/ \E sent \in BOOLEAN : completePendingTargetJoinDelivery(sent)
    \/ observePendingTargetJoinInput
    \/ expirePendingTargetJoin
    \/ targetHello
    \/ ExpireWarmAttach
    \/ loseBootstrap
    \/ revokeTarget
    \/ clockTick
    \/ hubCrash

WarmAttachSpec == WarmAttachInit /\ [][WarmAttachNext]_waVars

-----------------------------------------------------------------------------
(* The bearer is written at most once, and never while the Store records   *)
(* the delivery as still pending: a retry of the command can then not hand *)
(* it out a second time.  The release of a timed-out handoff runs in the   *)
(* expired context, which is what makes this true.                         *)
WrittenOnce ==
    /\ written <= 1
    /\ written = 1 => attachment.delivery \notin {"none", "pending"}

(* A command is acknowledged as accepted or duplicate only when the        *)
(* bearer really went out to the join socket.                              *)
AckMeansWritten == attachAck' # attachAck /\ attachAck' \in {"accepted", "duplicate"} => written' = 1

(* After a rejected command the issuer of this Hub process no longer       *)
(* accepts the bearer, however far the handoff had come.                   *)
RejectedBearerDead == attaching.pc = "idle" /\ attachAck = "rejected" => bearer # "active"

(* The target speaks only under a bearer that was delivered after a        *)
(* durable claim: its Session is never live on an attach still pending.    *)
LiveOnlyAfterClaim == target = "live" => attachment.delivery \in {"received", "completed", "outcome_unknown"}

(* The bearer is handed over once, acknowledged only if it was, alive only *)
(* after a durable claim, and dead after a rejection.                      *)
HandoffIsExact ==
    [][AckMeansWritten /\ (WrittenOnce /\ RejectedBearerDead /\ LiveOnlyAfterClaim)']_waVars

=============================================================================
