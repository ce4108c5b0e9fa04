----------------------------- MODULE AcpSettings -----------------------------
(***************************************************************************)
(* Settings of an ACP Provider as the Adapter keeps them: the tracker of   *)
(* the Provider's configOptions readbacks, the launch settings, the change *)
(* commands of both content modes, the response router between the output  *)
(* reader and the command loop, and what is published to the Hub.          *)
(*                                                                         *)
(* The tracker is shared by the launch sequence (which runs alone), then   *)
(* by the output reader, the command loop and whichever goroutine restores *)
(* the connection.  The Provider and the Hub are external.  A capability   *)
(* is the effective value of each control and the set of controls that are *)
(* not changeable; its fingerprint is the capability itself.               *)
(*                                                                         *)
(* Of the connection the model keeps what bears on the capability: a write *)
(* on a dead one is lost until the replay, or fails, and then its          *)
(* goroutine restores the connection.  Restoring it draws a new capability *)
(* under settingsMu, which the reader and the command loop hold while they *)
(* publish theirs: a goroutine that restores it then waits for itself.     *)
(***************************************************************************)
EXTENDS Integers, Sequences

CONSTANTS
    LaunchAttempts, \* acpSettingsLaunchAttempts
    FirstID,        \* the first JSON-RPC id of the command loop (the launch counts from 1)
    LaunchWants,    \* the launch settings to consider
    ChangeWants,    \* the changes to consider
    MaxOwn,         \* bound on settings the Provider changes of its own accord
    MaxChanges,     \* bound on change commands
    MaxDrops        \* bound on lost connections

ASSUME AcpSettingsAssumption ==
    LaunchAttempts \in Nat /\ FirstID \in Nat \ {0} /\ MaxOwn \in Nat /\ MaxChanges \in Nat /\ MaxDrops \in Nat

VARIABLES
    acp,        \* the Adapter's phase and its content mode
    provider,   \* the Provider's own settings
    stdin,      \* set_config_option requests the Provider has not handled
    stdout,     \* lines written by the Provider and not read
    tracker,    \* acpSettingsTracker: current, sourceSequence, mutation
    reader,     \* lines read by streamACPProviderOutput, and the last capability they carried
    answer,     \* the router: the registered id, its channel, the next id
    launch,     \* applyACPLaunchSettings
    slot,       \* pendingSettings
    exec,       \* executeACPSettingsChange
    reported,   \* what the Hub was told: capability, terminal outcome, changes left
    hublink     \* the connection: its state, the capability to replay and the one to propose afresh

acpVars == <<acp, provider, stdin, stdout, tracker, reader, answer, launch, slot, exec, reported, hublink>>

Order == <<"model", "reasoning", "permission">>
Controls == {Order[i] : i \in DOMAIN Order}
Values == {0, 1}
Unset == 2                                  \* a nil requested id
Asked(want) == {k \in Controls : want[k] # Unset}

Capabilities == [eff : [Controls -> Values], ro : SUBSET Controls]
NoCapability == [eff |-> [k \in Controls |-> Unset], ro |-> Controls]
Available(c) == c # NoCapability

NoMutation == [kind |-> "none", value |-> 0]
NoReservation == [on |-> FALSE, want |-> [k \in Controls |-> Unset], reserved |-> NoCapability, late |-> FALSE]
IdleExec == [pc |-> "idle", want |-> [k \in Controls |-> Unset], reserved |-> NoCapability,
             state |-> NoCapability, tried |-> {}, applied |-> FALSE, crossed |-> FALSE, out |-> "none"]

\* A control with one choice is read-only; a managed permission is the policy's,
\* whatever the Provider says.
acpSettingsStateFromConfigOptions(p) ==
    IF acp.managed THEN [eff |-> [p.eff EXCEPT !["permission"] = 0], ro |-> p.single \cup {"permission"}]
    ELSE [eff |-> p.eff, ro |-> p.single]

\* session/new answered: the tracker holds its options, or none it could parse.
AcpInit ==
    /\ acp \in [st : {"launch"}, required : BOOLEAN, managed : BOOLEAN]
    /\ provider \in [eff : {[k \in Controls |-> 0]}, single : {{}, {"reasoning"}}, own : {0}]
    /\ stdin = <<>> /\ stdout = <<>>
    /\ \E c \in {acpSettingsStateFromConfigOptions(provider), NoCapability} :
          tracker = [cur |-> c, seq |-> 0, mutation |-> NoMutation]
    /\ reader = [lines |-> 0, last |-> tracker.cur]
    /\ answer = [id |-> 0, got |-> "none", next |-> FirstID]
    /\ launch \in [want : LaunchWants, tries : {[k \in Controls |-> 0]}, id : {0}, n : {0}, waiting : {FALSE},
                   leaked : {FALSE}, mistaken : {FALSE}]
    /\ slot = NoReservation /\ exec = IdleExec
    /\ reported = [cap |-> NoCapability, out |-> "none", crossed |-> FALSE, refused |-> FALSE, n |-> 0]
    /\ hublink = [st |-> "up", pc |-> "none", lost |-> NoCapability, drawn |-> NoCapability, raced |-> FALSE,
                  held |-> "none", drops |-> 0]

Serving == acp.st = "serving"

\* settingsMu is free but for a goroutine that waits for itself.
settingsMu == hublink.held = "none"

End == acp' = [acp EXCEPT !.st = "ended"]

------------------------------------------------------------------------------
(* The connection to the Hub.                                              *)

linkFails ==
    /\ acp.st # "ended" /\ hublink.st = "up" /\ hublink.drops < MaxDrops
    /\ hublink' = [hublink EXCEPT !.st = "dead", !.pc = "none", !.drops = @ + 1]
    /\ UNCHANGED <<acp, provider, stdin, stdout, tracker, reader, answer, launch, slot, exec, reported>>

\* publishACPSettingsCapability whose write returns: the Hub has the capability, or
\* the connection is dead and the proposal waits for the replay.
publishACPSettingsCapability(cap, told) ==
    IF hublink.st = "up" THEN /\ reported' = [told EXCEPT !.cap = cap]
                              /\ hublink' = [hublink EXCEPT !.raced = hublink.pc = "drawn"]
    ELSE reported' = told /\ hublink' = [hublink EXCEPT !.lost = cap]

\* A publication under settingsMu whose write fails: writePrepared reconnects and the
\* proposals are replayed, this one last; then the factory locks settingsMu, which
\* this goroutine holds.  Or the Hub refuses every credential, which is an error.
publishReconnects(by, cap, told) ==
    /\ hublink.st = "dead"
    /\ \/ /\ hublink' = [hublink EXCEPT !.st = "up", !.lost = NoCapability, !.held = by]
          /\ reported' = [told EXCEPT !.cap = cap] /\ UNCHANGED acp
       \/ End /\ UNCHANGED <<hublink, reported>>

\* reconnect of a goroutine that does not hold settingsMu (the command loop's read,
\* a heartbeat, other output): the new connection is published first.
reconnectLink ==
    /\ Serving /\ settingsMu /\ hublink.st = "dead"
    /\ hublink' = [hublink EXCEPT !.st = "up", !.pc = "replay"]
    /\ UNCHANGED <<acp, provider, stdin, stdout, tracker, reader, answer, launch, slot, exec, reported>>

replayProposals ==
    /\ Serving /\ hublink.pc = "replay"
    /\ hublink' = [hublink EXCEPT !.pc = "draw", !.lost = NoCapability]
    /\ reported' = IF Available(hublink.lost) THEN [reported EXCEPT !.cap = hublink.lost] ELSE reported
    /\ UNCHANGED <<acp, provider, stdin, stdout, tracker, reader, answer, launch, slot, exec>>

\* The settings factory: the tracker is read under settingsMu and the event made.
freshReconnectProposals ==
    /\ Serving /\ hublink.pc = "draw" /\ settingsMu
    /\ hublink' = [hublink EXCEPT !.pc = "drawn", !.drawn = tracker.cur, !.raced = FALSE]
    /\ UNCHANGED <<acp, provider, stdin, stdout, tracker, reader, answer, launch, slot, exec, reported>>

\* It is written after settingsMu was given back.
writeFreshProposal ==
    /\ Serving /\ hublink.pc = "drawn"
    /\ hublink' = [hublink EXCEPT !.pc = "none", !.drawn = NoCapability]
    /\ reported' = IF Available(hublink.drawn) THEN [reported EXCEPT !.cap = hublink.drawn] ELSE reported
    /\ UNCHANGED <<acp, provider, stdin, stdout, tracker, reader, answer, launch, slot, exec>>

------------------------------------------------------------------------------
(* The Provider (external): it answers a request after applying it, in     *)
(* part, in full or not at all, and reports changes of its own.            *)

Line(what, id, next, own) ==
    [what |-> what, id |-> id, own |-> own, cap |-> acpSettingsStateFromConfigOptions(next), mode |-> next.eff["permission"]]

\* Applied, not applied, or applied with a coupled change: switching the model
\* may drop the reasoning effort to the model's default.
Effects(kind, value) ==
    {provider, [provider EXCEPT !.eff[kind] = value], [provider EXCEPT !.eff[kind] = value, !.eff["reasoning"] = 0]}

providerAnswers(what) ==
    /\ stdin # <<>> /\ acp.st # "ended"
    /\ LET request == Head(stdin) IN
       \E next \in (IF what = "error" THEN {provider} ELSE Effects(request.kind, request.value)) :
          /\ LET mode == IF request.kind = "permission" /\ next # provider THEN <<Line("mode", 0, next, FALSE)>> ELSE <<>> IN
             stdout' = stdout \o mode \o <<Line(what, request.id, next, request.own)>>
          /\ provider' = next
          /\ exec' = [exec EXCEPT !.crossed = @ \/ (exec.pc = "wait" /\ request.own /\ what # "error")]
    /\ stdin' = Tail(stdin)
    /\ UNCHANGED <<acp, tracker, reader, answer, launch, slot, reported, hublink>>

providerChanges(kind, how) ==
    /\ acp.st # "ended" /\ provider.own < MaxOwn
    /\ LET next == [provider EXCEPT !.own = @ + 1,
                                    !.eff[kind] = IF how = "lock" THEN @ ELSE 1 - @,
                                    !.single = IF how = "lock" THEN @ \cup {kind} ELSE @] IN
       /\ how = "mode" => kind = "permission"
       /\ provider' = next
       /\ stdout' = Append(stdout, Line(IF how = "mode" THEN "mode" ELSE "update", 0, next, FALSE))
    /\ UNCHANGED <<acp, stdin, tracker, reader, answer, launch, slot, exec, reported, hublink>>

------------------------------------------------------------------------------
(* The tracker.                                                            *)

\* A source sequence below the tracker's is an older report.
Superseded(n) == n < tracker.seq /\ Available(tracker.cur)

UpdateFromResult(cap, n) ==
    IF Superseded(n) THEN [tracker EXCEPT !.mutation = NoMutation]
    ELSE [cur |-> cap, seq |-> n, mutation |-> NoMutation]

beginProviderMutation(kind, value) == [tracker EXCEPT !.mutation = [kind |-> kind, value |-> value]]

------------------------------------------------------------------------------
(* Launch.                                                                 *)

\* The requested values the Provider can change and does not report yet.
Owed == {k \in Asked(launch.want) : /\ k \notin tracker.cur.ro /\ tracker.cur.eff[k] # launch.want[k]
                                    /\ launch.tries[k] < LaunchAttempts}
FirstOf(S) == CHOOSE k \in S : \A i, j \in DOMAIN Order : Order[i] = k /\ Order[j] \in S => i <= j

\* validateACPSettingsChange, for a change that quotes the current fingerprint.
Valid(c, want) == Available(c) /\ Asked(want) \cap c.ro = {}

Matches(c, want) == Available(c) /\ \A k \in Asked(want) : c.eff[k] = want[k]

\* The required mode launches only on a readback of every requested value.  The
\* launch publishes what the tracker has, without settingsMu: when its write fails
\* it restores the connection itself.
launchDone(failed, leaks) ==
    /\ IF acp.required /\ Asked(launch.want) # {} /\ (failed \/ ~Matches(tracker.cur, launch.want))
       THEN End /\ UNCHANGED <<reported, hublink>>
       ELSE /\ acp' = [acp EXCEPT !.st = "serving"]
            /\ IF ~Available(tracker.cur) THEN UNCHANGED <<reported, hublink>>
               ELSE \/ publishACPSettingsCapability(tracker.cur, reported)
                    \/ /\ hublink.st = "dead" /\ hublink' = [hublink EXCEPT !.st = "up"]
                       /\ reported' = [reported EXCEPT !.cap = tracker.cur]
    /\ launch' = [launch EXCEPT !.waiting = FALSE, !.leaked = leaks]

launchNext ==
    /\ acp.st = "launch" /\ ~launch.waiting
    /\ IF acp.required /\ launch.n = 0 /\ ~Valid(tracker.cur, launch.want)
       THEN launchDone(TRUE, FALSE) /\ UNCHANGED stdin
       ELSE IF ~Available(tracker.cur) \/ Owed = {}
       THEN launchDone(~Valid(tracker.cur, launch.want), FALSE) /\ UNCHANGED stdin
       ELSE LET k == FirstOf(Owed) IN
            /\ stdin' = Append(stdin, [id |-> launch.id + 1, kind |-> k, value |-> launch.want[k], own |-> FALSE])
            /\ launch' = [launch EXCEPT !.waiting = TRUE, !.tries[k] = @ + 1, !.id = @ + 1]
            /\ UNCHANGED <<acp, reported, hublink>>
    /\ UNCHANGED <<provider, stdout, tracker, reader, answer, slot, exec>>

\* readACPResponse skips notifications; the launch counts its own answers.
launchRead ==
    /\ acp.st = "launch" /\ launch.waiting /\ stdout # <<>>
    /\ stdout' = Tail(stdout)
    /\ LET line == Head(stdout) IN
       /\ reader' = [reader EXCEPT !.last = IF line.what = "result" THEN line.cap ELSE @]
       /\ CASE line.what = "result" ->
                 /\ tracker' = UpdateFromResult(line.cap, launch.n + 1)
                 /\ launch' = [launch EXCEPT !.waiting = FALSE, !.n = @ + 1]
                 /\ UNCHANGED <<acp, reported, hublink>>
            [] line.what \in {"error", "malformed"} -> launchDone(TRUE, FALSE) /\ UNCHANGED tracker
            [] OTHER -> UNCHANGED <<acp, reported, hublink, launch, tracker>>
    /\ UNCHANGED <<provider, stdin, answer, slot, exec>>

\* The operation's budget ends.  The required mode closes the pipes; otherwise
\* the goroutine that reads the scanner is left behind.
launchTimeout ==
    /\ acp.st = "launch" /\ launch.waiting
    /\ launchDone(TRUE, ~acp.required)
    /\ UNCHANGED <<provider, stdin, stdout, tracker, reader, answer, slot, exec>>

\* The goroutine left behind scans the same output until its own answer.
leakedRead ==
    /\ Serving /\ launch.leaked /\ stdout # <<>>
    /\ stdout' = Tail(stdout)
    /\ launch' = [launch EXCEPT !.leaked = Head(stdout).id # launch.id]
    /\ UNCHANGED <<acp, provider, stdin, tracker, reader, answer, slot, exec, reported, hublink>>

------------------------------------------------------------------------------
(* The output reader: Deliver, then ObserveProviderLine.                   *)

\* The handler runs on the reader's goroutine and closes the mutation.
Deliver(line, n) ==
    /\ answer' = [answer EXCEPT !.id = 0,
                  !.got = IF line.what = "result" /\ Superseded(n) THEN "superseded" ELSE line.what]
    /\ tracker' = IF line.what = "result" THEN UpdateFromResult(line.cap, n)
                  ELSE [tracker EXCEPT !.mutation = NoMutation]
    /\ exec' = [exec EXCEPT !.state = IF answer'.got = "result" THEN line.cap ELSE @]
    /\ launch' = [launch EXCEPT !.mistaken = @ \/ ~line.own]
    /\ UNCHANGED <<acp, reported, hublink>>

observeUpdate(cap, n) ==
    /\ IF Superseded(n) THEN UNCHANGED <<acp, tracker, reported, hublink>>
       ELSE /\ tracker' = [tracker EXCEPT !.cur = cap, !.seq = n]
            /\ IF tracker.cur = cap THEN UNCHANGED <<acp, reported, hublink>>
               ELSE \/ publishACPSettingsCapability(cap, reported) /\ UNCHANGED acp
                    \/ publishReconnects("reader", cap, reported)
    /\ UNCHANGED <<answer, exec, launch>>

\* A mode on its own is no readback: it must be the pending mutation's, or old.
observeMode(mode) ==
    /\ IF /\ Available(tracker.cur)
          /\ \/ tracker.mutation.kind = "permission" /\ mode # tracker.mutation.value
             \/ tracker.mutation = NoMutation /\ mode # tracker.cur.eff["permission"]
       THEN End ELSE UNCHANGED acp
    /\ UNCHANGED <<tracker, reported, hublink, answer, exec, launch>>

readLine ==
    /\ Serving /\ settingsMu /\ stdout # <<>>
    /\ stdout' = Tail(stdout)
    /\ LET line == Head(stdout) n == reader.lines + 1 IN
       /\ reader' = [lines |-> n, last |-> IF line.what = "update" \/ (line.what = "result" /\ line.id = answer.id)
                                         THEN line.cap ELSE reader.last]
       /\ CASE line.what = "update" -> observeUpdate(line.cap, n)
            [] line.what = "mode" -> observeMode(line.mode)
            [] line.id # 0 /\ line.id = answer.id -> Deliver(line, n)
            [] OTHER -> UNCHANGED <<acp, tracker, reported, hublink, answer, exec, launch>>
    /\ UNCHANGED <<provider, stdin, slot>>

------------------------------------------------------------------------------
(* The command loop.                                                       *)

Started(want, reserved) == [IdleExec EXCEPT !.pc = "check", !.want = want, !.reserved = reserved]

\* session.settings.change: a reservation waits for the Hub's execute frame.
settingsChange(want) ==
    /\ Serving /\ settingsMu /\ ~acp.required /\ exec.pc = "idle" /\ reported.n < MaxChanges /\ Asked(want) # {}
    /\ reported' = [reported EXCEPT !.refused = @ \/ (slot.on /\ slot.late), !.n = @ + 1]
    /\ slot' = IF slot.on \/ ~Valid(tracker.cur, want) THEN slot
               ELSE [on |-> TRUE, want |-> want, reserved |-> tracker.cur, late |-> FALSE]
    /\ UNCHANGED <<acp, provider, stdin, stdout, tracker, reader, answer, launch, exec, hublink>>

\* In the required mode the change runs inside the local claim, and one that
\* cannot be validated leaves the claim's outcome unknown, which ends the loop.
deliverEncryptedACPSettings(want) ==
    /\ Serving /\ settingsMu /\ acp.required /\ exec.pc = "idle" /\ reported.n < MaxChanges /\ Asked(want) # {}
    /\ reported' = [reported EXCEPT !.n = @ + 1]
    /\ IF Valid(tracker.cur, want) THEN exec' = Started(want, tracker.cur) /\ UNCHANGED acp
       ELSE End /\ UNCHANGED exec
    /\ UNCHANGED <<provider, stdin, stdout, tracker, reader, answer, launch, slot, hublink>>

\* The reservation's deadline passes.
fencePasses ==
    /\ Serving /\ slot.on /\ ~slot.late
    /\ slot' = [slot EXCEPT !.late = TRUE]
    /\ UNCHANGED <<acp, provider, stdin, stdout, tracker, reader, answer, launch, exec, reported, hublink>>

settingsDeliveryExecute ==
    /\ Serving /\ exec.pc = "idle" /\ slot.on
    /\ slot' = NoReservation
    /\ IF slot.late THEN End /\ UNCHANGED exec
       ELSE exec' = Started(slot.want, slot.reserved) /\ UNCHANGED acp
    /\ UNCHANGED <<provider, stdin, stdout, tracker, reader, answer, launch, reported, hublink>>

Outcome(out) == exec' = [exec EXCEPT !.pc = "publish", !.out = out]
mismatchedACPSettingsExecution == Outcome("mismatched_effective")
staleACPSettingsExecution == Outcome("stale_capability")

\* executeACPSettingsChange reads the tracker once before its first operation.
execCheck ==
    /\ Serving /\ settingsMu /\ exec.pc = "check"
    /\ IF tracker.cur # exec.reserved THEN staleACPSettingsExecution
       ELSE exec' = [exec EXCEPT !.pc = "apply", !.state = tracker.cur]
    /\ UNCHANGED <<acp, provider, stdin, stdout, tracker, reader, answer, launch, slot, reported, hublink>>

\* The operations in order: a control is tried once, and not again after a later one.
ToApply == {k \in Asked(exec.want) \ exec.tried : exec.want[k] # exec.state.eff[k]}
Before(k) == {c \in Controls : \E i, j \in DOMAIN Order : Order[i] = c /\ Order[j] = k /\ i <= j}

\* Each control must end as requested, and the others as they were reserved.
Applied == \A k \in Controls :
    exec.state.eff[k] = IF exec.want[k] = Unset THEN exec.reserved.eff[k] ELSE exec.want[k]

\* One set_config_option under settingsMu, or the verdict when none is left.
execApply(written) ==
    /\ Serving /\ settingsMu /\ exec.pc = "apply"
    /\ IF ToApply = {} THEN (IF Applied THEN Outcome("applied") ELSE mismatchedACPSettingsExecution)
                            /\ UNCHANGED <<acp, stdin, tracker, answer>>
       ELSE LET k == FirstOf(ToApply) IN
            IF k \in exec.state.ro THEN mismatchedACPSettingsExecution /\ UNCHANGED <<acp, stdin, tracker, answer>>
            ELSE IF tracker.cur # exec.state
            THEN /\ IF exec.applied THEN mismatchedACPSettingsExecution ELSE staleACPSettingsExecution
                 /\ UNCHANGED <<acp, stdin, tracker, answer>>
            ELSE IF ~written THEN End /\ UNCHANGED <<exec, stdin, tracker, answer>>
            ELSE /\ tracker' = beginProviderMutation(k, exec.want[k])
                 /\ stdin' = Append(stdin, [id |-> answer.next, kind |-> k, value |-> exec.want[k], own |-> TRUE])
                 /\ answer' = [id |-> answer.next, got |-> "none", next |-> answer.next + 1]
                 /\ exec' = [exec EXCEPT !.pc = "wait", !.tried = Before(k)] /\ UNCHANGED acp
    /\ UNCHANGED <<provider, stdout, reader, launch, slot, reported, hublink>>

\* Mutant: an explicit rejection is taken for the whole change's.
failedAlways == Outcome("rejected")

\* failedACPSettingsExecution on the Provider's own error.
failedACPSettingsExecution == IF exec.applied THEN mismatchedACPSettingsExecution ELSE Outcome("rejected")

execAnswer ==
    /\ Serving /\ exec.pc = "wait" /\ answer.got # "none"
    /\ answer' = [answer EXCEPT !.got = "none"]
    /\ CASE answer.got = "result" -> exec' = [exec EXCEPT !.pc = "apply", !.applied = TRUE] /\ UNCHANGED acp
         [] answer.got = "superseded" -> mismatchedACPSettingsExecution /\ UNCHANGED acp
         [] answer.got = "error" -> failedACPSettingsExecution /\ UNCHANGED acp
         [] answer.got = "malformed" -> End /\ UNCHANGED exec
    /\ UNCHANGED <<provider, stdin, stdout, tracker, reader, launch, slot, reported, hublink>>

\* The deadline: nothing is published, and the Provider is stopped.
execTimeout ==
    /\ Serving /\ exec.pc = "wait" /\ End
    /\ answer' = [answer EXCEPT !.id = 0]
    /\ tracker' = [tracker EXCEPT !.mutation = NoMutation]
    /\ UNCHANGED <<provider, stdin, stdout, reader, launch, slot, reported, hublink, exec>>

\* The state published is the tracker's latest.
reconcileACPSettingsExecution(latest) ==
    LET own == IF exec.out = "rejected" THEN exec.reserved
               ELSE IF exec.out = "stale_capability" THEN latest ELSE exec.state IN
    [cap |-> latest,
     out |-> IF own = latest \/ exec.out = "stale_capability" THEN exec.out ELSE "mismatched_effective"]

\* The capability and the outcome, under settingsMu: both are written, or the write
\* of the first or of the second fails.  An outcome outlives its connection.
execPublish ==
    /\ Serving /\ settingsMu /\ exec.pc = "publish"
    /\ LET r == reconcileACPSettingsExecution(tracker.cur)
           told == [reported EXCEPT !.out = r.out, !.crossed = exec.crossed]
       IN \/ publishACPSettingsCapability(r.cap, told) /\ exec' = IdleExec /\ UNCHANGED acp
          \/ publishReconnects("loop", r.cap, reported) /\ UNCHANGED exec
          \/ publishReconnects("loop", r.cap, told) /\ UNCHANGED exec
    /\ UNCHANGED <<provider, stdin, stdout, tracker, reader, answer, launch, slot>>

------------------------------------------------------------------------------
AcpNext ==
    \/ \E what \in {"result", "malformed", "error"} : providerAnswers(what)
    \/ \E kind \in Controls, how \in {"value", "lock", "mode"} : providerChanges(kind, how)
    \/ launchNext \/ launchRead \/ launchTimeout \/ leakedRead
    \/ readLine
    \/ \E want \in ChangeWants : settingsChange(want) \/ deliverEncryptedACPSettings(want)
    \/ fencePasses \/ settingsDeliveryExecute \/ execCheck
    \/ (\E written \in BOOLEAN : execApply(written))
    \/ execAnswer \/ execTimeout \/ execPublish
    \/ linkFails \/ reconnectLink \/ replayProposals \/ freshReconnectProposals \/ writeFreshProposal

AcpSpec == AcpInit /\ [][AcpNext]_acpVars

------------------------------------------------------------------------------
AcpTypeOK ==
    /\ acp \in [st : {"launch", "serving", "ended"}, required : BOOLEAN, managed : BOOLEAN]
    /\ provider.eff \in [Controls -> Values] /\ provider.own \in 0..MaxOwn
    /\ tracker.cur \in Capabilities \cup {NoCapability}
    /\ tracker.mutation.kind \in Controls \cup {"none"}
    /\ reported.cap \in Capabilities \cup {NoCapability}
    /\ exec.pc \in {"idle", "check", "apply", "wait", "publish"}
    /\ hublink.lost \in Capabilities \cup {NoCapability} /\ hublink.held \in {"none", "reader", "loop"}
    /\ exec.pc # "wait" => answer.id = 0 /\ answer.got = "none"

\* The connection is up, and nothing is left to replay or to propose afresh.
Settled == hublink.st = "up" /\ hublink.pc = "none" /\ ~Available(hublink.lost)

\* Whenever no change is executing and the connection is settled, the capability
\* the Hub was last told is the tracker's: every readback, from a response or from
\* an update, is published by exactly one of the reader and the command loop
\* (main.go:2405-2411, 3913-3926), and what a lost connection swallowed is made
\* good by the fresh proposal.  One race is excepted: a capability published after
\* the factory read the tracker and before its event was written
\* (hub_connection.go:455-475) is overtaken by the older one, until the next.
PublishedIsTracked == Serving /\ exec.pc = "idle" /\ Settled /\ ~hublink.raced => reported.cap = tracker.cur

\* A change reported as rejected or as stale never crossed the Provider's
\* mutation boundary (failedACPSettingsExecution: "Publish that actual partial
\* state as a mismatch instead of pretending the whole request was rejected").
\* Excepted is a change that was given the late answer of a launch that timed out,
\* whose request had the same id.
OutcomeIsTrue == ~launch.mistaken /\ reported.out \in {"rejected", "stale_capability"} => ~reported.crossed

\* What the Hub is told of the Provider's settings is so: the capability is the
\* tracker's but for the race of a reconnect, and an outcome that denies a change
\* tells of none.
ReportsAreTrue == PublishedIsTracked /\ OutcomeIsTrue

==============================================================================
